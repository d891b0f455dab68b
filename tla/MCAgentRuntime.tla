--------------------------- MODULE MCAgentRuntime ---------------------------
(* Instance of AgentRuntime for TLC: six kinds of step, every plan of up to *)
(* MaxLen of them.                                                          *)
EXTENDS AgentRuntime, SequencesExt

CONSTANTS
    memory,      \* memory.search: always allowed
    read,        \* files.read_scoped: allowed, or denied for its path
    write,       \* files.write_scoped: asked for, or denied for its path
    ghost,       \* a name no tool is registered under: asked for
    MaxLen

MCTools == {memory, read, write, ghost}
MCRegistered == {memory, read, write}

MCVerdicts ==
    [t \in MCTools |-> CASE t = memory -> {"ALLOW"}
                         [] t = read   -> {"ALLOW", "DENY"}
                         [] t = write  -> {"ASK", "DENY"}
                         [] OTHER      -> {"ASK"}]

S(a, t) == [action |-> a, tool |-> t]

MCSteps ==
    {S("retrieve_memory", memory), S("execute", read), S("execute", write),
     S("execute", ghost), S("verify", NoTool), S("stop", NoTool),
     S("other", NoTool)}

MCPlans == BoundedSeq(MCSteps, MaxLen)
=============================================================================
