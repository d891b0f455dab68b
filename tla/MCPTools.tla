------------------------------ MODULE MCPTools ------------------------------
(***************************************************************************)
(* Which tools of MCP servers the agent is given, and under which rule     *)
(* (lucy_edge/mcp/__init__.py, services.py): the allowlist, discovery over *)
(* all configured servers, registration, and what a call is told before it *)
(* reaches a transport.  MCPSession is one server's session in time.       *)
(***************************************************************************)
EXTENDS Permissions, Sequences, SequencesExt

CONSTANTS
    ServerIds, ToolNames,     \* ids and names, as configured or offered
    ValidIds, ValidNames,     \* those that match the pattern of their kind
    Secretive,                \* argument keys that look like a secret's
    Qualified                 \* mcp.<server>.<tool>

Servers == [id : ServerIds, enabled : BOOLEAN, allowed : SUBSET ToolNames,
            denied : SUBSET ToolNames]

Configs == [enabled : BOOLEAN, servers : Seq(Servers), max_servers : Nat,
            max_tools : Nat, denied : SUBSET ToolNames]

Shorter(s, n) == SubSeq(s, 1, IF Len(s) < n THEN Len(s) ELSE n)

-----------------------------------------------------------------------------
(* MCPAllowlist. *)

(* The rules of an id are those of the first server configured under it.    *)
RulesOf(config, id) ==
    LET matches == {i \in DOMAIN config.servers : config.servers[i].id = id}
    IN  {config.servers[i] : i \in {i \in matches : \A j \in matches : i <= j}}

IsToolAllowed(config, id, name) ==
    /\ name \notin config.denied
    /\ \E server \in RulesOf(config, id) :
           /\ name \notin server.denied
           /\ server.allowed # {} => name \in server.allowed

(* Keys that look like a secret's, and values JSON cannot carry, are dropped. *)
Sanitized(args, serializable) == {k \in args : k \notin Secretive /\ k \in serializable}

-----------------------------------------------------------------------------
(* Discovery: a server starts or does not, and lists its tools or fails to  *)
(* (an entry whose name is no text fails the whole list).                   *)

Answers == [starts : BOOLEAN, lists : BOOLEAN, offer : Seq(ToolNames)]

Listed(config, id, offer) ==
    {name \in ToSet(Shorter(offer, config.max_tools)) :
        name \in ValidNames /\ IsToolAllowed(config, id, name)}

(* The servers open() goes through. *)
Contacted(config) ==
    IF ~config.enabled THEN {}
    ELSE {i \in DOMAIN Shorter(config.servers, config.max_servers) :
              config.servers[i].enabled}

(* A server whose id is malformed gets a client and no discovery; one that  *)
(* starts and does not list is initialized all the same.                    *)
Report(config, i, answers) ==
    LET id == config.servers[i].id
        starts == id \in ValidIds /\ answers[i].starts
    IN  [initialized |-> starts,
         tools |-> IF starts /\ answers[i].lists
                   THEN Listed(config, id, answers[i].offer) ELSE {}]

(* The report and the client kept under an id are those of the last server  *)
(* with it.                                                                 *)
Kept(config) ==
    {i \in Contacted(config) :
        \A j \in Contacted(config) :
            config.servers[j].id = config.servers[i].id => j <= i}

Discovered(config, answers) ==
    UNION {{<<config.servers[i].id, name>> : name \in Report(config, i, answers).tools} :
              i \in Kept(config)}

(* _register_mcp_tools adds what is not registered yet; nothing takes a     *)
(* tool out again, so that `known` also has those of an earlier open().     *)
ToolsAfter(known, config, answers) == known \cup Discovered(config, answers)

-----------------------------------------------------------------------------
(* A call of a registered tool: what stops it short of the transport.  The  *)
(* report is not looked at again: a tool of an earlier open() goes through.  *)
Called(config, answers, tool) ==
    LET clients == {i \in Kept(config) : config.servers[i].id = tool[1]}
    IN  IF ~config.enabled THEN "MCP disabled"
        ELSE IF clients = {} THEN "unknown MCP server"
        ELSE IF \A i \in clients : ~Report(config, i, answers).initialized
             THEN "server not initialized" ELSE "sent"

(* The policy sees the qualified name; permission_class plays no part.      *)
QualifiedApart ==
    \A tool \in ServerIds \X ToolNames :
        Qualified[tool] \notin Externals \cup GitTools \cup FileTools \cup Unattended

CallOutcome(policy, tool) ==
    Outcome(policy, Qualified[tool], [secret |-> FALSE, inside |-> FALSE])
=============================================================================
