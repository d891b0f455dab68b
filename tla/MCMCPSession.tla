---------------------------- MODULE MCMCPSession ----------------------------
(* Instance of MCPSession for TLC: two agent runs share one server, which   *)
(* writes notifications and lines the reader does not survive.              *)
EXTENDS MCPSession

CONSTANTS a1, a2

OneAgent == {a1}
TwoAgents == {a1, a2}
MCChatter == {Notification, Unreadable}

-----------------------------------------------------------------------------
(* Which tools this and other servers may hand the agent (MCPTools): two    *)
(* ids, one of them malformed, two names.                                   *)

Given == INSTANCE MCPTools WITH
    ServerIds <- {"files", "../x"}, ToolNames <- {"read", "write"},
    ValidIds <- {"files"}, ValidNames <- {"read", "write"}, Secretive <- {"api_key"},
    Qualified <- [t \in {"files", "../x"} \X {"read", "write"} |-> t],
    Shells <- {}, Externals <- {}, GitTools <- {}

MCServers == [id : {"files", "../x"}, enabled : BOOLEAN,
              allowed : {{}, {"read"}}, denied : {{}, {"write"}}]

MCConfigs == [enabled : BOOLEAN,
              servers : {<<s>> : s \in MCServers} \cup (MCServers \X MCServers),
              max_servers : 0..2, max_tools : 1..2, denied : {{}, {"write"}}]

MCAnswers == {[starts |-> ok, lists |-> TRUE, offer |-> <<"read", "write">>] : ok \in BOOLEAN}

(* What is discovered is allowed, and can be called while the registry is   *)
(* open.                                                                    *)
ASSUME DiscoveredToolsAreAllowed ==
    \A config \in MCConfigs, a, b \in MCAnswers :
        \A tool \in Given!Discovered(config, <<a, b>>) :
            /\ tool[1] = "files" /\ Given!IsToolAllowed(config, tool[1], tool[2])
            /\ Given!Called(config, <<a, b>>, tool) = "sent"
=============================================================================
