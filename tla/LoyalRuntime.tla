---------------------------- MODULE LoyalRuntime ----------------------------
(***************************************************************************)
(* A run of LoyalAgentRuntime (lucy_core/runtime/loyal_runtime.py): the    *)
(* plan is gated as a whole (loyalty, pluralism, devotion), a tool the     *)
(* policy wants approved runs without a human when the plan is devoted     *)
(* enough, and every result is judged by the honesty verifier.             *)
(*                                                                         *)
(* Nobody calls into a running loyal run: its awaits suspend it, but no    *)
(* other coroutine changes its state.  Only the clock goes on.             *)
(*                                                                         *)
(*   goal      the goal the run was made for                               *)
(*   state, plan, at, steps, calls, failures, late   as in AgentRuntime    *)
(*   align     devotion_eval: "low", "mid" (above 0.6), "high" (above 0.8) *)
(*   out       the StepResult of the current step and its judgement        *)
(*   verdict   final_status                                                *)
(*   lowered   how often the run has lowered the trust of the core         *)
(*   ledger    which record of this run_id the ledger has                  *)
(*   stored    how many experiences the run has put in the episodic buffer *)
(*   started   history: the steps whose tool was started                   *)
(***************************************************************************)
EXTENDS Integers, Sequences, FiniteSets, Lifecycle, Gates

CONSTANTS
    Tools,         \* every tool name a plan may mention
    Verdicts,      \* what the permission policy may answer for a tool
    Goals,
    Exclusive,     \* the goals detect_exclusivity() catches
    PlansFor,      \* the plans the predictive planner may return for a goal
    MaxToolCalls, MaxFailures      \* AgentLimits

(* The loyal planners know no other action. *)
Step == [action : Actions \ {"other"}, tool : Tools \cup {NoTool}]

ASSUME LoyalToolsAssumption ==
    /\ NoTool \notin Tools /\ Available \subseteq Tools
    /\ {"memory.search", "evidence.query"} \subseteq Tools

ASSUME LoyalVerdictsAssumption ==
    /\ Verdicts \in [Tools -> (SUBSET Outcomes) \ {{}}]
    /\ \A t \in Tools : ~({"ALLOW", "ASK"} \subseteq Verdicts[t])

ASSUME LoyalPlansAssumption == PlansFor \in [Goals -> SUBSET Seq(Step)]

ASSUME LoyalLimitsAssumption == MaxToolCalls \in 1..200 /\ MaxFailures \in 0..50

VARIABLES goal, state, pc, plan, at, steps, calls, failures, late, align, out,
          verdict, lowered, ledger, stored, started

counters == <<steps, calls, failures>>
traces == <<ledger, stored>>
vars == <<goal, state, pc, plan, at, counters, late, align, out, verdict,
          lowered, traces, started>>

PCs == {"idle", "plan", "gates", "violation", "loop", "permit", "execute",
        "tool", "observe", "judge", "finish", "reflect", "record", "returned",
        "raised"}

Ended == pc \in {"returned", "raised"}

Current == plan[at]

(* transition(target), then control goes to `next`; InvalidTransition has no *)
(* handler in run().                                                         *)
TransitionThen(target, next) ==
    IF target \in Transitions(state)
    THEN state' = target /\ pc' = next
    ELSE UNCHANGED state /\ pc' = "raised"

Result == [status : {"OK", "FAILED", "DENIED", "TIMED_OUT"}, judged : Judgements]

Unjudged(status) == [status |-> status, judged |-> "VERIFIED"]

-----------------------------------------------------------------------------
Init ==
    /\ goal \in Goals
    /\ state = "CREATED" /\ pc = "idle"
    /\ plan = <<>> /\ at = 1
    /\ steps = 0 /\ calls = 0 /\ failures = 0
    /\ late = FALSE /\ align = "low"
    /\ out = Unjudged("OK") /\ verdict = "none"
    /\ lowered = 0 /\ ledger = "none" /\ stored = 0
    /\ started = {}

Start ==
    /\ pc = "idle"
    /\ TransitionThen("PLANNING", "plan")
    /\ UNCHANGED <<goal, plan, at, counters, late, align, out, verdict, lowered,
                   traces, started>>

Tick ==
    /\ ~late /\ pc # "idle" /\ ~Ended
    /\ late' = TRUE
    /\ UNCHANGED <<goal, state, pc, plan, at, counters, align, out, verdict, lowered,
                   traces, started>>

(* The run ends before its first step. *)
Refuse ==
    /\ TransitionThen("FAILED", "record")
    /\ verdict' = "FAILED"

(* The planner answers, and what the loyalty gate asks for is injected.     *)
MakePlan ==
    /\ pc = "plan"
    /\ \E p \in PlansFor[goal] :
          \/ p = <<>> /\ Refuse /\ UNCHANGED plan
          \/ /\ p # <<>> /\ plan' = Guarded(p) /\ pc' = "gates"
             /\ UNCHANGED <<state, verdict>>
    /\ UNCHANGED <<goal, at, counters, late, align, out, lowered, traces, started>>

-----------------------------------------------------------------------------
(* The gates on the plan: loyalty, pluralism, devotion.                      *)

LoyaltyRejects ==
    /\ pc = "gates" /\ Disloyal(plan)
    /\ Refuse
    /\ UNCHANGED <<goal, plan, at, counters, late, align, out, lowered, traces, started>>

(* Exclusive language lowers the trust first and is then recorded.           *)
PluralismRejects ==
    /\ pc = "gates" /\ ~Disloyal(plan) /\ goal \in Exclusive
    /\ lowered' = lowered + 1
    /\ pc' = "violation"
    /\ UNCHANGED <<goal, state, plan, at, counters, late, align, out, verdict, traces,
                   started>>

DevotionRejects ==
    /\ pc = "gates" /\ ~Disloyal(plan) /\ goal \notin Exclusive
    /\ Refuse
    /\ UNCHANGED <<goal, plan, at, counters, late, align, out, lowered, traces, started>>

Admit ==
    /\ pc = "gates" /\ ~Disloyal(plan) /\ goal \notin Exclusive
    /\ align' \in {"mid", "high"}
    /\ TransitionThen("RUNNING", "loop")
    /\ UNCHANGED <<goal, plan, at, counters, late, out, verdict, lowered, traces, started>>

-----------------------------------------------------------------------------
(* The step loop.                                                            *)

Leave(status) ==
    /\ verdict' = status
    /\ pc' = "finish"

(* The failure is counted; the run is given up, or goes on with the next    *)
(* step.                                                                    *)
CountFailure ==
    /\ failures' = failures + 1
    /\ IF failures + 1 > MaxFailures
       THEN Leave("FAILED") /\ UNCHANGED at
       ELSE pc' = "loop" /\ at' = at + 1 /\ UNCHANGED verdict

LeaveLoop ==
    /\ pc = "loop"
    /\ \/ at > Len(plan) /\ Leave("COMPLETED")
       \/ at <= Len(plan) /\ late /\ Leave("TIMED_OUT")
       \/ /\ at <= Len(plan) /\ ~late
          /\ Current.action = "stop" \/ steps >= MaxSteps
          /\ Leave("COMPLETED")
    /\ UNCHANGED <<goal, state, plan, at, counters, late, align, out, lowered, traces,
                   started>>

(* Faulty variant of TakeStep: the call budget is not looked at. *)
TakeStepUncapped ==
    /\ pc = "loop" /\ at <= Len(plan) /\ ~late
    /\ Current.action # "stop" /\ steps < MaxSteps
    /\ steps' = steps + 1
    /\ calls' = IF Current.tool = NoTool THEN calls ELSE calls + 1
    /\ pc' = IF Current.tool = NoTool THEN "execute" ELSE "permit"
    /\ UNCHANGED <<goal, state, plan, at, failures, late, align, out, verdict, lowered,
                   traces, started>>

TakeStep ==
    /\ pc = "loop" /\ at <= Len(plan) /\ ~late
    /\ Current.action # "stop" /\ steps < MaxSteps
    /\ steps' = steps + 1
    /\ \/ /\ Current.tool = NoTool
          /\ pc' = "execute"
          /\ UNCHANGED <<calls, verdict>>
       \/ /\ Current.tool # NoTool /\ calls >= MaxToolCalls
          /\ Leave("FAILED")
          /\ UNCHANGED calls
       \/ /\ Current.tool # NoTool /\ calls < MaxToolCalls
          /\ calls' = calls + 1
          /\ pc' = "permit"
          /\ UNCHANGED verdict
    /\ UNCHANGED <<goal, state, plan, at, failures, late, align, out, lowered, traces,
                   started>>

PermitDenies ==
    /\ pc = "permit" /\ "DENY" \in Verdicts[Current.tool]
    /\ CountFailure
    /\ UNCHANGED <<goal, state, plan, steps, calls, late, align, out, lowered, traces,
                   started>>

(* Faulty variant of PermitApproves: any admitted plan is approved. *)
PermitApprovesAnyPlan ==
    /\ pc = "permit"
    /\ Verdicts[Current.tool] # {"DENY"}
    /\ pc' = "execute"
    /\ UNCHANGED <<goal, state, plan, at, counters, late, align, out, verdict, lowered,
                   traces, started>>

(* A devoted plan stands for the operator's approval.                        *)
PermitApproves ==
    /\ pc = "permit"
    /\ \/ "ALLOW" \in Verdicts[Current.tool]
       \/ "ASK" \in Verdicts[Current.tool] /\ align = "high"
    /\ pc' = "execute"
    /\ UNCHANGED <<goal, state, plan, at, counters, late, align, out, verdict, lowered,
                   traces, started>>

(* A human would be needed: the run means to end DENIED, a state its own    *)
(* state cannot move to.                                                    *)
PermitNeedsHuman ==
    /\ pc = "permit" /\ "ASK" \in Verdicts[Current.tool] /\ align # "high"
    /\ TransitionThen("DENIED", "finish")
    /\ verdict' = IF "DENIED" \in Transitions(state) THEN "DENIED" ELSE verdict
    /\ UNCHANGED <<goal, plan, at, counters, late, align, out, lowered, traces, started>>

-----------------------------------------------------------------------------
(* Executor.run_step and ToolRegistry.execute, then the honesty verifier.    *)

StepWithoutEffect ==
    /\ pc = "execute"
    /\ \/ Current.action = "verify" /\ out' = Unjudged("OK")
       \/ /\ Current.action \in ToolActions
          /\ Current.tool \notin Available \/ "DENY" \in Verdicts[Current.tool]
          /\ out' = Unjudged("DENIED")
    /\ pc' = "observe"
    /\ UNCHANGED <<goal, state, plan, at, counters, late, align, verdict, lowered, traces,
                   started>>

StartTool ==
    /\ pc = "execute"
    /\ Current.action \in ToolActions
    /\ Current.tool \in Available /\ Verdicts[Current.tool] # {"DENY"}
    /\ started' = started \cup {at}
    /\ pc' = "tool"
    /\ UNCHANGED <<goal, state, plan, at, counters, late, align, out, verdict, lowered,
                   traces>>

ToolReturns ==
    /\ pc = "tool"
    /\ \/ \E j \in Judgement(Current) : out' = [status |-> "OK", judged |-> j]
       \/ \E s \in {"FAILED", "DENIED"} : out' = Unjudged(s)
    /\ pc' = "observe"
    /\ UNCHANGED <<goal, state, plan, at, counters, late, align, verdict, lowered, traces,
                   started>>

(* Only the action "execute" runs under asyncio.wait_for. *)
ToolTimesOut ==
    /\ pc = "tool" /\ Current.action = "execute"
    /\ out' = Unjudged("TIMED_OUT")
    /\ pc' = "observe"
    /\ UNCHANGED <<goal, state, plan, at, counters, late, align, verdict, lowered, traces,
                   started>>

(* Faulty variant of ObserveFailure: a failed step is tried again. *)
ObserveFailureRetrying ==
    /\ pc = "observe" /\ out.status # "OK"
    /\ pc' = "execute"
    /\ UNCHANGED <<goal, state, plan, at, counters, late, align, out, verdict, lowered,
                   traces, started>>

ObserveFailure ==
    /\ pc = "observe" /\ out.status # "OK"
    /\ CountFailure
    /\ UNCHANGED <<goal, state, plan, steps, calls, late, align, out, lowered, traces,
                   started>>

ObserveSuccess ==
    /\ pc = "observe" /\ out.status = "OK"
    /\ TransitionThen("VERIFYING", "judge")
    /\ UNCHANGED <<goal, plan, at, counters, late, align, out, verdict, lowered, traces,
                   started>>

(* The verifier rejects: the failure is counted after the state has moved,  *)
(* and a run that goes on first returns to RUNNING.                         *)
Reject ==
    /\ failures' = failures + 1
    /\ IF failures + 1 > MaxFailures
       THEN Leave("FAILED") /\ UNCHANGED <<state, at>>
       ELSE TransitionThen("RUNNING", "loop") /\ at' = at + 1 /\ UNCHANGED verdict

(* Faulty variant of JudgedHonest: the run does not return to RUNNING. *)
JudgedHonestStaying ==
    /\ pc = "judge" /\ out.judged \notin {"REJECT", "REJECT_EGO"}
    /\ pc' = "loop"
    /\ at' = at + 1
    /\ UNCHANGED <<goal, state, plan, counters, late, align, out, verdict, lowered, traces,
                   started>>

JudgedHonest ==
    /\ pc = "judge" /\ out.judged \notin {"REJECT", "REJECT_EGO"}
    /\ TransitionThen("RUNNING", "loop")
    /\ at' = at + 1
    /\ UNCHANGED <<goal, plan, counters, late, align, out, verdict, lowered, traces, started>>

JudgedDishonest ==
    /\ pc = "judge" /\ out.judged = "REJECT"
    /\ Reject
    /\ UNCHANGED <<goal, plan, steps, calls, late, align, out, lowered, traces, started>>

JudgedEgo ==
    /\ pc = "judge" /\ out.judged = "REJECT_EGO"
    /\ lowered' = lowered + 1
    /\ pc' = "violation"
    /\ UNCHANGED <<goal, state, plan, at, counters, late, align, out, verdict, traces,
                   started>>

(* Faulty variant of RecordViolation: after an ego violation the run goes   *)
(* on as if the step had been judged honest.                                *)
RecordViolationForgiving ==
    /\ pc = "violation"
    /\ ledger' = "violation"
    /\ \/ state = "PLANNING" /\ Refuse /\ UNCHANGED <<at, failures>>
       \/ /\ state = "VERIFYING" /\ TransitionThen("RUNNING", "loop")
          /\ at' = at + 1 /\ UNCHANGED <<failures, verdict>>
    /\ UNCHANGED <<goal, plan, steps, calls, late, align, out, lowered, stored, started>>

(* guards.record_violation: the record takes the place of any record of this *)
(* run.  A ledger that refuses it raises into run(), which has no handler.   *)
RecordViolation ==
    /\ pc = "violation"
    /\ ledger' = "violation"
    /\ \/ state = "PLANNING" /\ Refuse /\ UNCHANGED <<at, failures>>
       \/ state = "VERIFYING" /\ Reject
    /\ UNCHANGED <<goal, plan, steps, calls, late, align, out, lowered, stored, started>>

ViolationUnrecorded ==
    /\ pc = "violation"
    /\ pc' = "raised"
    /\ UNCHANGED <<goal, state, plan, at, counters, late, align, out, verdict, lowered,
                   traces, started>>

-----------------------------------------------------------------------------
(* The end of the run.                                                       *)

Finish ==
    /\ pc = "finish"
    /\ IF state \in {"DENIED", "FAILED", "TIMED_OUT", "ABORTED"}
       THEN UNCHANGED state /\ pc' = "reflect"
       ELSE TransitionThen(verdict, "reflect")
    /\ UNCHANGED <<goal, plan, at, counters, late, align, out, verdict, lowered, traces,
                   started>>

(* A run that came past the gates, however it went, asks the model for a     *)
(* word on it: no deadline is looked at, no time limit set, and a failure    *)
(* is caught.                                                                *)
Reflect ==
    /\ pc = "reflect"
    /\ pc' = "record"
    /\ UNCHANGED <<goal, state, plan, at, counters, late, align, out, verdict, lowered,
                   traces, started>>

(* Faulty variant of RecordRun: without a record there is no experience. *)
RecordRunFirst ==
    /\ pc = "record"
    /\ \/ ledger' = "run" /\ stored' = stored + 1
       \/ UNCHANGED traces
    /\ pc' = "returned"
    /\ UNCHANGED <<goal, state, plan, at, counters, late, align, out, verdict, lowered,
                   started>>

(* _finish: the record of the run replaces what the ledger had of it; a     *)
(* ledger that refuses is passed over.  The experience is stored either way. *)
RecordRun ==
    /\ pc = "record"
    /\ ledger' \in {ledger, "run"}
    /\ stored' = stored + 1
    /\ pc' = "returned"
    /\ UNCHANGED <<goal, state, plan, at, counters, late, align, out, verdict, lowered,
                   started>>

-----------------------------------------------------------------------------
Gate == LoyaltyRejects \/ PluralismRejects \/ DevotionRejects \/ Admit

Permit == PermitDenies \/ PermitApproves \/ PermitNeedsHuman

Judge == JudgedHonest \/ JudgedDishonest \/ JudgedEgo

Proceed ==
    \/ MakePlan \/ Gate \/ LeaveLoop \/ TakeStep \/ Permit
    \/ StepWithoutEffect \/ StartTool \/ ObserveFailure \/ ObserveSuccess
    \/ Judge \/ RecordViolation \/ ViolationUnrecorded \/ Finish \/ RecordRun

Next == Start \/ Tick \/ Proceed \/ Reflect \/ ToolReturns \/ ToolTimesOut

Spec == Init /\ [][Next]_vars

(* The event loop runs what is ready, and wait_for fires.  Two waits have no *)
(* limit and are assumed to end: for a tool that is not under wait_for (a    *)
(* lookup in the local stores), and for the reflection, which the local      *)
(* model computes without suspending, 24 tokens at most.                     *)
FairSpec ==
    /\ Spec
    /\ WF_vars(Proceed) /\ WF_vars(Reflect) /\ WF_vars(ToolTimesOut)
    /\ WF_vars(ToolReturns /\ Current.action # "execute")

-----------------------------------------------------------------------------
(* Properties.                                                               *)

(* Every variable keeps its type, and the counters stay within the limits   *)
(* of the run although steps are injected into its plan.                    *)
TypeOK ==
    /\ goal \in Goals /\ state \in States /\ pc \in PCs
    /\ plan \in Seq(Step) /\ at \in Nat \ {0} /\ at <= Len(plan) + 1
    /\ steps \in 0..MaxSteps
    /\ calls \in 0..MaxToolCalls
    /\ failures \in 0..(MaxFailures + 1)
    /\ late \in BOOLEAN /\ align \in {"low", "mid", "high"}
    /\ out \in Result
    /\ verdict \in {"none"} \cup Terminal
    /\ lowered \in 0..(MaxFailures + 1)
    /\ ledger \in {"none", "violation", "run"} /\ stored \in 0..1
    /\ started \in SUBSET DOMAIN plan

NeedsApproval(k) ==
    plan[k].tool # NoTool /\ "ASK" \in Verdicts[plan[k].tool]

(* The steps a loyal run may not perform on its own: none if its plan is    *)
(* devoted, else those the policy asks for.                                 *)
Needing == IF align = "high" THEN {} ELSE {k \in DOMAIN plan : NeedsApproval(k)}

Phase == IF Ended THEN "over" ELSE "open"

(* They are settled once the plan has passed the gates, or was refused. *)
Committed == IF state \in {"CREATED", "PLANNING"} THEN {} ELSE Needing

(* A loyal run keeps the promise of GatedRun with no operator in it: steps   *)
(* injected or not, tools start in plan order, once, within the budget, only *)
(* while it runs, and none the policy asks for unless the plan was devoted.  *)
Promise == INSTANCE GatedRun WITH
    MaxEffects <- MaxToolCalls,
    phase <- Phase,
    effects <- started,
    consent <- {},
    needing <- Committed

DevotedRefinement == Promise!Spec

(* An exception leaves run() in two places only: where a human would have to *)
(* approve a step of a plan that is not devoted enough, the run then being   *)
(* left RUNNING for ever, and where a violation could not be recorded.       *)
(* Nothing else is illegal in the lifecycle.                                 *)
RaisedOnlyForHuman ==
    pc = "raised" =>
        \/ state = "RUNNING" /\ at \in Needing
        \/ lowered > 0 /\ state \in {"PLANNING", "VERIFYING"}

(* A run that returns has reached the state it reports, which is never      *)
(* DENIED, and has left one experience behind whatever the ledger did; a run *)
(* that raised has left neither an experience nor a record of the run.      *)
ReturnedRunIsRemembered ==
    /\ pc = "returned" => verdict = state /\ state # "DENIED" /\ stored = 1
    /\ pc = "raised" => stored = 0 /\ ledger # "run"

(* Trust is contingent: it is lowered once for an exclusive goal, before    *)
(* anything was started, and else at most once per failure counted; a run   *)
(* that lowered it and completed has failures on its account.               *)
TrustIsContingent ==
    \/ goal \in Exclusive /\ lowered <= 1 /\ started = {}
    \/ lowered <= failures + (IF pc \in {"violation", "raised"} THEN 1 ELSE 0)

(* The loyalty gate injects an evidence step into a plan with material      *)
(* operations, "before stop": a run that completes with steps to spare has   *)
(* tried that step if it tried a material one.  (Without steps to spare the  *)
(* planner's stop had been cut off, and the injected steps come behind the   *)
(* injected stop.)                                                          *)
MaterialIsDisclosed ==
    /\ pc = "returned" /\ verdict = "COMPLETED" /\ steps < MaxSteps
    /\ \E k \in started : plan[k].tool \in Material
    => \E j \in 1..(at - 1) : plan[j].tool = "evidence.query"

(* A loyal run that was started comes to its end: it waits for no human, and *)
(* for nothing else but the tools and the reflection FairSpec names.         *)
LoyalRunEnds == pc # "idle" ~> Ended
=============================================================================
