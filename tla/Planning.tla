------------------------------ MODULE Planning ------------------------------
(***************************************************************************)
(* How a goal becomes a plan.  Three planners:                             *)
(*   RulePlan        RulePlanner: keywords of the goal choose one tool     *)
(*   ModelPlan       ModelDrivenPlanner: a provider's answer, checked, or  *)
(*                   the rule plan when it is of no use                    *)
(*   PredictivePlan  PredictivePlanner: a ranking of action slots, or the  *)
(*                   rule plan when it is too little aligned               *)
(* A goal is the set of the planners' keywords it contains; a step is its  *)
(* action and its tool.  Arguments and descriptions are left out.          *)
(***************************************************************************)
EXTENDS Integers, Sequences, Selection

CONSTANTS
    NoTool,        \* PlanStep.tool is None
    Available,     \* registry.names()
    MaxSteps       \* AgentLimits.max_steps

ASSUME PlanningAssumption == MaxSteps \in 1..50 /\ NoTool \notin Available

PlanStep(action, tool) == [action |-> action, tool |-> tool]

Retrieve == PlanStep("retrieve_memory", "memory.search")
Verify == PlanStep("verify", NoTool)
RecordEvidence == PlanStep("record_evidence", "evidence.query")
Stop == PlanStep("stop", NoTool)

AtMost(plan, n) == SubSeq(plan, 1, IF Len(plan) < n THEN Len(plan) ELSE n)

(* Where the first stop step is, or would be. *)
FirstStop(plan) ==
    CHOOSE k \in 1..(Len(plan) + 1) :
        /\ k \in DOMAIN plan => plan[k].action = "stop"
        /\ \A j \in 1..(k - 1) : plan[j].action # "stop"

InsertAtStop(plan, more) ==
    SubSeq(plan, 1, FirstStop(plan) - 1) \o more
        \o SubSeq(plan, FirstStop(plan), Len(plan))

Has(plan, action) == \E k \in DOMAIN plan : plan[k].action = action

Uses(plan, tool) == \E k \in DOMAIN plan : plan[k].tool = tool

-----------------------------------------------------------------------------
(* RulePlanner.  The first keyword, in the order of the table, whose tool   *)
(* is available decides.                                                    *)

Vocabulary == <<
    <<"memory", "memory.search">>, <<"evidence", "evidence.query">>,
    <<"model", "model.route">>, <<"route", "model.route">>,
    <<"health", "system.health">>, <<"capabilit", "system.capabilities">>,
    <<"file", "files.read_scoped">>, <<"git", "git.status">> >>

Keywords == {Vocabulary[i][1] : i \in DOMAIN Vocabulary}

Matches(goal) ==
    {i \in DOMAIN Vocabulary :
        Vocabulary[i][1] \in goal /\ Vocabulary[i][2] \in Available}

FirstMatch(goal) ==
    CHOOSE i \in Matches(goal) : \A j \in Matches(goal) : i <= j

ToolSteps(goal) ==
    IF Matches(goal) # {}
    THEN <<PlanStep("execute", Vocabulary[FirstMatch(goal)][2])>>
    ELSE IF "system.capabilities" \in Available
         THEN <<PlanStep("execute", "system.capabilities")>>
         ELSE <<>>

RulePlan(goal) ==
    AtMost(<<Retrieve>> \o ToolSteps(goal) \o <<Verify, RecordEvidence, Stop>>,
           MaxSteps)

-----------------------------------------------------------------------------
(* ModelPlannerProvider and ModelDrivenPlanner.                             *)

ValidActions == {"execute", "retrieve_memory", "verify", "stop"}

(* _parse_response: entries with an unknown tool are dropped, an unknown    *)
(* action is taken for execute, and the plan is made to end in a stop.      *)
Parsed(entries) ==
    LET known == SelectSeq(entries, LAMBDA e : e.tool \in Available \cup {NoTool})
        read  == [k \in DOMAIN known |->
                    IF known[k].action \in ValidActions THEN known[k]
                    ELSE PlanStep("execute", known[k].tool)]
        kept  == AtMost(read, MaxSteps)
    IN  IF kept = <<>> \/ kept[Len(kept)].action = "stop" THEN kept
        ELSE IF Len(kept) < MaxSteps THEN Append(kept, Stop)
        ELSE [kept EXCEPT ![MaxSteps] = Stop]

(* The provider raises when the router does not answer ALLOW, when there is *)
(* no provider, or when no step is usable: it has nothing to propose.       *)
Proposed(routed, entries) == IF routed THEN Parsed(entries) ELSE <<>>

(* Any failure degrades to rules.                                           *)
ModelPlan(goal, routed, entries) ==
    IF Proposed(routed, entries) = <<>> THEN RulePlan(goal)
    ELSE AtMost(Proposed(routed, entries), MaxSteps)

-----------------------------------------------------------------------------
(* PredictivePlanner.  A slot of the action logits stands for a step; the   *)
(* slots behind the last tool all stand for stop.                           *)

Slots ==
    {Retrieve, Verify, RecordEvidence, Stop}
        \cup {PlanStep("execute", t) :
                t \in Available \ {"memory.search", "evidence.query"}}

TopK == IF MaxSteps < 8 THEN MaxSteps ELSE 8

Opening == IF "memory.search" \in Available THEN <<Retrieve>> ELSE <<>>

Room == IF MaxSteps > 1 + Len(Opening) THEN MaxSteps - 1 - Len(Opening) ELSE 0

(* The slots looked at: the first few, up to a stop.                        *)
UpToStop(ranking) ==
    SubSeq(AtMost(ranking, TopK), 1, FirstStop(AtMost(ranking, TopK)) - 1)

(* The slots taken over: without retrieve_memory (which has come first      *)
(* already), and leaving room for one more step.                            *)
Taken(slots) == AtMost(Without(slots, {Retrieve}), Room)

(* The verification is added while there is room, the stop always, and the  *)
(* plan is cut to max_steps: a full plan loses its stop.                    *)
RankedPlan(taken) ==
    LET body  == Opening \o taken
        ended == (IF Len(body) < MaxSteps THEN Append(body, Verify) ELSE body)
                   \o <<Stop>>
    IN  AtMost(ended, MaxSteps)

(* _inject_devotional_steps, for a rule plan that is too little aligned.    *)
Compliant(plan) ==
    LET verified == IF Has(plan, "verify") THEN plan
                    ELSE InsertAtStop(plan, <<Verify>>)
    IN  IF Uses(verified, "evidence.query") THEN verified
        ELSE InsertAtStop(verified, <<RecordEvidence>>)

PredictivePlan(goal, ranking, aligned, rulesAligned) ==
    IF aligned THEN RankedPlan(Taken(UpToStop(ranking)))
    ELSE IF rulesAligned THEN RulePlan(goal)
    ELSE Compliant(RulePlan(goal))

(* Every plan the predictive planner can return for a goal: any ranking of  *)
(* distinct slots, followed by stops, and any alignment.  Where             *)
(* memory.search is available, at most MaxSteps - 1 slots are looked at.    *)
PredictivePlans(goal) ==
    LET Rankings == UNION {{r \in [1..n -> Slots \ {Stop}] :
                               \A i, j \in 1..n : r[i] = r[j] => i = j} :
                             n \in 0..(MaxSteps - 1)}
        Looked == {UpToStop(r) : r \in Rankings}
    IN  {RankedPlan(taken) : taken \in {Taken(slots) : slots \in Looked}}
           \cup {RulePlan(goal), Compliant(RulePlan(goal))}
=============================================================================
