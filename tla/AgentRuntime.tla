---------------------------- MODULE AgentRuntime ----------------------------
(***************************************************************************)
(* One bounded agent run: AgentRuntime.run() of lucy_edge/agent/runtime.py *)
(* with the Executor, the ToolRegistry and the Verifier it drives, and the *)
(* operator who may approve, deny or abort it from outside.                *)
(*                                                                         *)
(* run() is one asyncio coroutine.  It gives up control only where it      *)
(* awaits something that really suspends: the approval event and the       *)
(* function of a tool.  The operator's calls are therefore enabled only    *)
(* there (Suspended), before run() starts, and after it ended; every other *)
(* control point is one piece of an uninterrupted block of the code.       *)
(*                                                                         *)
(*   state     self.state, the observable lifecycle state                  *)
(*   pc        where run() is                                              *)
(*   plan, at  the plan and the index of the step being worked on          *)
(*   steps, calls, failures   self.steps_executed, tool_calls, failures    *)
(*   decision, event          self._approval_decision, _approval_event     *)
(*   late      time.monotonic() > self._deadline                           *)
(*   out       the StepResult of the current step                          *)
(*   verdict   final_status, the status the caller is given                *)
(*   recorded  an evidence record of the run is in the ledger              *)
(*   approvals, started       history: the steps whose latest answer from  *)
(*             the operator was yes, and those whose tool was started      *)
(***************************************************************************)
EXTENDS Integers, Sequences, FiniteSets, Lifecycle

CONSTANTS
    Tools,         \* every tool name a plan may mention
    Registered,    \* the names ToolRegistry knows
    NoTool,        \* PlanStep.tool is None
    Verdicts,      \* what the permission policy may answer for a tool
    Plans,         \* the plans the planner may return
    MaxSteps, MaxToolCalls, MaxFailures      \* AgentLimits

Step == [action : Actions, tool : Tools \cup {NoTool}]

ASSUME ToolsAssumption == NoTool \notin Tools /\ Registered \subseteq Tools

(* The policy's fields do not change during a run.  Which of its rules      *)
(* applies is fixed by the tool's name; a rule about a path may also answer *)
(* DENY, depending on where the path resolves to when it is evaluated.  No  *)
(* rule answers ALLOW at one time and ASK at another.                       *)
ASSUME VerdictsAssumption ==
    /\ Verdicts \in [Tools -> (SUBSET Outcomes) \ {{}}]
    /\ \A t \in Tools : ~({"ALLOW", "ASK"} \subseteq Verdicts[t])

ASSUME PlansAssumption == Plans \subseteq Seq(Step)

(* The field bounds of AgentLimits. *)
ASSUME LimitsAssumption ==
    MaxSteps \in 1..50 /\ MaxToolCalls \in 1..200 /\ MaxFailures \in 0..50

VARIABLES state, pc, plan, at, steps, calls, failures, decision, event, late,
          out, verdict, recorded, approvals, started

counters == <<steps, calls, failures>>
gate == <<decision, event>>
history == <<approvals, started>>
vars == <<state, pc, plan, at, counters, gate, late, out, verdict, recorded,
          history>>

-----------------------------------------------------------------------------
(* transition(target), then control goes to `next`; a move the table does   *)
(* not allow raises InvalidTransition, which leaves run() and has no        *)
(* handler inside it.                                                       *)
TransitionThen(target, next) ==
    IF target \in Transitions(state)
    THEN state' = target /\ pc' = next
    ELSE UNCHANGED state /\ pc' = "raised"

Legal(target) == target \in Transitions(state)

Suspended == pc \in {"approval", "tool"}

Ended == pc \in {"returned", "raised"}

PCs == {"idle", "plan", "loop", "gate", "approval", "execute", "tool",
        "observe", "verify", "finish", "returned", "raised"}

Result == [status : {"OK", "FAILED", "DENIED", "TIMED_OUT"}, output : BOOLEAN]

NoResult == [status |-> "OK", output |-> FALSE]

Failure(status) == [status |-> status, output |-> FALSE]

Current == plan[at]

-----------------------------------------------------------------------------
Init ==
    /\ state = "CREATED" /\ pc = "idle"
    /\ plan = <<>> /\ at = 1
    /\ steps = 0 /\ calls = 0 /\ failures = 0
    /\ decision = "none" /\ event = FALSE
    /\ late = FALSE
    /\ out = NoResult
    /\ verdict = "none" /\ recorded = FALSE
    /\ approvals = {} /\ started = {}

(* run() is called; a runtime aborted before that raises at once. *)
Start ==
    /\ pc = "idle"
    /\ TransitionThen("PLANNING", "plan")
    /\ UNCHANGED <<plan, at, counters, gate, late, out, verdict, recorded, history>>

(* The planner answers.  For an empty plan run() returns self._finish(...)   *)
(* without awaiting it: the caller is given a coroutine, not a result, and   *)
(* no code of _finish runs.                                                  *)
MakePlan ==
    /\ pc = "plan"
    /\ \E p \in Plans :
          IF p = <<>>
          THEN /\ TransitionThen("FAILED", "returned")
               /\ verdict' = "coroutine"
               /\ UNCHANGED plan
          ELSE /\ TransitionThen("RUNNING", "loop")
               /\ plan' = p
               /\ UNCHANGED verdict
    /\ UNCHANGED <<at, counters, gate, late, out, recorded, history>>

(* Wall-clock time passes the deadline set when run() was called. *)
Tick ==
    /\ pc \notin {"idle", "returned", "raised"} /\ ~late
    /\ late' = TRUE
    /\ UNCHANGED <<state, pc, plan, at, counters, gate, out, verdict, recorded, history>>

-----------------------------------------------------------------------------
(* The head of the step loop, one action per way out of it.                  *)

Leave(status) ==
    /\ verdict' = status
    /\ pc' = "finish"

PlanCompleted ==
    /\ pc = "loop" /\ at > Len(plan)
    /\ Leave("COMPLETED")
    /\ UNCHANGED <<state, plan, at, counters, gate, late, out, recorded, history>>

TaskTimedOut ==
    /\ pc = "loop" /\ at <= Len(plan)
    /\ late
    /\ Leave("TIMED_OUT")
    /\ UNCHANGED <<state, plan, at, counters, gate, late, out, recorded, history>>

(* A stop step, or the step budget is used up: both complete the run. *)
StopEarly ==
    /\ pc = "loop" /\ at <= Len(plan) /\ ~late
    /\ Current.action = "stop" \/ steps >= MaxSteps
    /\ Leave("COMPLETED")
    /\ UNCHANGED <<state, plan, at, counters, gate, late, out, recorded, history>>

(* Faulty variant of TakeStep: the step budget is not looked at. *)
TakeStepUnbounded ==
    /\ pc = "loop" /\ at <= Len(plan) /\ ~late
    /\ Current.action # "stop"
    /\ steps' = steps + 1
    /\ calls' = calls
    /\ pc' = IF Current.tool = NoTool THEN "execute" ELSE "gate"
    /\ UNCHANGED <<state, plan, at, failures, gate, late, out, verdict, recorded, history>>

(* The step is counted; a step with a tool is also held to the call budget.  *)
TakeStep ==
    /\ pc = "loop" /\ at <= Len(plan) /\ ~late
    /\ Current.action # "stop" /\ steps < MaxSteps
    /\ steps' = steps + 1
    /\ \/ /\ Current.tool = NoTool
          /\ pc' = "execute"
          /\ UNCHANGED <<calls, verdict>>
       \/ /\ Current.tool # NoTool /\ calls >= MaxToolCalls
          /\ Leave("FAILED")
          /\ UNCHANGED calls
       \/ /\ Current.tool # NoTool /\ calls < MaxToolCalls
          /\ calls' = calls + 1
          /\ pc' = "gate"
          /\ UNCHANGED verdict
    /\ UNCHANGED <<state, plan, at, failures, gate, late, out, recorded, history>>

(* Faulty variant of CountFailure: the budget is compared before counting. *)
CountFailureLate ==
    /\ failures' = failures + 1
    /\ IF failures > MaxFailures
       THEN Leave("FAILED") /\ UNCHANGED at
       ELSE pc' = "loop" /\ at' = at + 1 /\ UNCHANGED verdict

(* A failed step: the failure is counted, and either the run is given up or  *)
(* the loop goes on with the next step.                                      *)
CountFailure ==
    /\ failures' = failures + 1
    /\ IF failures + 1 > MaxFailures
       THEN Leave("FAILED") /\ UNCHANGED at
       ELSE pc' = "loop" /\ at' = at + 1 /\ UNCHANGED verdict

-----------------------------------------------------------------------------
(* The permission gate and the operator.                                     *)

GateDenies ==
    /\ pc = "gate" /\ "DENY" \in Verdicts[Current.tool]
    /\ CountFailure
    /\ UNCHANGED <<state, plan, steps, calls, gate, late, out, recorded, history>>

GateAllows ==
    /\ pc = "gate" /\ "ALLOW" \in Verdicts[Current.tool]
    /\ pc' = "execute"
    /\ UNCHANGED <<state, plan, at, counters, gate, late, out, verdict, recorded, history>>

(* Faulty variant of GateAsks: the answer to the previous question stays. *)
GateAsksKeepingAnswer ==
    /\ pc = "gate" /\ "ASK" \in Verdicts[Current.tool]
    /\ TransitionThen("WAITING_APPROVAL", "approval")
    /\ UNCHANGED <<plan, at, counters, gate, late, out, verdict, recorded, history>>

(* The run asks: a new question forgets the answer to the one before. *)
GateAsks ==
    /\ pc = "gate" /\ "ASK" \in Verdicts[Current.tool]
    /\ TransitionThen("WAITING_APPROVAL", "approval")
    /\ IF Legal("WAITING_APPROVAL")
       THEN decision' = "none" /\ event' = FALSE
       ELSE UNCHANGED gate
    /\ UNCHANGED <<plan, at, counters, late, out, verdict, recorded, history>>

(* approve() and deny() only leave the answer and set the event.  run()      *)
(* wakes up later: until then the operator may answer again, or abort.       *)
Approve ==
    /\ state = "WAITING_APPROVAL" /\ Suspended
    /\ decision' = "yes" /\ event' = TRUE
    /\ approvals' = approvals \cup {at}
    /\ UNCHANGED <<state, pc, plan, at, counters, late, out, verdict, recorded, started>>

Deny ==
    /\ state = "WAITING_APPROVAL" /\ Suspended
    /\ decision' = "no" /\ event' = TRUE
    /\ approvals' = approvals \ {at}
    /\ UNCHANGED <<state, pc, plan, at, counters, late, out, verdict, recorded, started>>

(* abort() changes the state under the run; it wakes nobody and cancels      *)
(* nothing.                                                                  *)
Abort ==
    /\ pc = "idle" \/ Suspended
    /\ Legal("ABORTED")
    /\ state' = "ABORTED"
    /\ UNCHANGED <<pc, plan, at, counters, gate, late, out, verdict, recorded, history>>

(* Faulty variants of WakeApproved: the run goes on without returning to    *)
(* RUNNING, or sets the state without asking the table.                     *)
WakeApprovedStillWaiting ==
    /\ pc = "approval" /\ event /\ decision # "no"
    /\ pc' = "execute"
    /\ UNCHANGED <<state, plan, at, counters, gate, late, out, verdict, recorded, history>>

WakeApprovedUnchecked ==
    /\ pc = "approval" /\ event /\ decision # "no"
    /\ state' = "RUNNING" /\ pc' = "execute"
    /\ UNCHANGED <<plan, at, counters, gate, late, out, verdict, recorded, history>>

WakeApproved ==
    /\ pc = "approval" /\ event /\ decision # "no"
    /\ TransitionThen("RUNNING", "execute")
    /\ UNCHANGED <<plan, at, counters, gate, late, out, verdict, recorded, history>>

WakeDenied ==
    /\ pc = "approval" /\ event /\ decision = "no"
    /\ TransitionThen("DENIED", "finish")
    /\ verdict' = IF Legal("DENIED") THEN "DENIED" ELSE verdict
    /\ UNCHANGED <<plan, at, counters, gate, late, out, recorded, history>>

-----------------------------------------------------------------------------
(* Executor.run_step and ToolRegistry.execute.                               *)

(* Steps that start nothing: a verify step succeeds with no output, an       *)
(* unknown action fails, and a tool action is refused when the tool is not   *)
(* registered or when the policy, evaluated a second time, denies it.        *)
StepWithoutEffect ==
    /\ pc = "execute"
    /\ \/ /\ Current.action = "verify"
          /\ out' = NoResult
       \/ /\ Current.action = "other"
          /\ out' = Failure("FAILED")
       \/ /\ Current.action \in ToolActions
          /\ \/ Current.tool \notin Registered
             \/ Current.tool \in Registered /\ "DENY" \in Verdicts[Current.tool]
          /\ out' = Failure("DENIED")
    /\ pc' = "observe"
    /\ UNCHANGED <<state, plan, at, counters, gate, late, verdict, recorded, history>>

(* The tool's function is called: from here on the step has an effect. The   *)
(* registry runs it unless the policy says DENY.                             *)
StartTool ==
    /\ pc = "execute"
    /\ Current.action \in ToolActions
    /\ Current.tool \in Registered
    /\ Verdicts[Current.tool] # {"DENY"}
    /\ started' = started \cup {at}
    /\ pc' = "tool"
    /\ UNCHANGED <<state, plan, at, counters, gate, late, out, verdict, recorded, approvals>>

(* The tool returns (with an output the verifier will accept or not),        *)
(* refuses by PermissionDenied or raises.                                    *)
ToolReturns ==
    /\ pc = "tool"
    /\ out' \in [status : {"OK"}, output : BOOLEAN]
                \cup [status : {"FAILED", "DENIED"}, output : {FALSE}]
    /\ pc' = "observe"
    /\ UNCHANGED <<state, plan, at, counters, gate, late, verdict, recorded, history>>

(* Faulty variant of ToolTimesOut: a timed out tool is tried again. *)
ToolTimesOutRetrying ==
    /\ pc = "tool" /\ Current.action = "execute"
    /\ pc' = "execute"
    /\ UNCHANGED <<state, plan, at, counters, gate, late, out, verdict, recorded, history>>

(* Only the action "execute" runs under asyncio.wait_for. *)
ToolTimesOut ==
    /\ pc = "tool" /\ Current.action = "execute"
    /\ out' = Failure("TIMED_OUT")
    /\ pc' = "observe"
    /\ UNCHANGED <<state, plan, at, counters, gate, late, verdict, recorded, history>>

-----------------------------------------------------------------------------
(* Observation, verification and the end of the run.                         *)

ObserveFailure ==
    /\ pc = "observe" /\ out.status # "OK"
    /\ CountFailure
    /\ UNCHANGED <<state, plan, steps, calls, gate, late, out, recorded, history>>

ObserveSuccess ==
    /\ pc = "observe" /\ out.status = "OK"
    /\ TransitionThen("VERIFYING", "verify")
    /\ UNCHANGED <<plan, at, counters, gate, late, out, verdict, recorded, history>>

(* An unacceptable output counts as a failure for two of the actions only.   *)
Rejected == ~out.output /\ Current.action \in {"execute", "retrieve_memory"}

VerifyGivesUp ==
    /\ pc = "verify" /\ Rejected /\ failures + 1 > MaxFailures
    /\ failures' = failures + 1
    /\ Leave("FAILED")
    /\ UNCHANGED <<state, plan, at, steps, calls, gate, late, out, recorded, history>>

VerifyContinues ==
    /\ pc = "verify" /\ ~(Rejected /\ failures + 1 > MaxFailures)
    /\ failures' = IF Rejected THEN failures + 1 ELSE failures
    /\ TransitionThen("RUNNING", "loop")
    /\ at' = at + 1
    /\ UNCHANGED <<plan, steps, calls, gate, late, out, verdict, recorded, history>>

(* What EvidenceRecord.plan accepts, and what _finish puts there: the plan's *)
(* as_dict(), a mapping, which the model refuses; the exception is caught    *)
(* and the record dropped.                                                   *)
PlanFieldAccepts == {"null", "list"}

PlanField == "dict"

(* Faulty variant of Finish: only a running run is given its final state. *)
FinishRunningOnly ==
    /\ pc = "finish"
    /\ IF state # "RUNNING"
       THEN UNCHANGED state /\ pc' = "returned"
       ELSE TransitionThen(verdict, "returned")
    /\ recorded' = (PlanField \in PlanFieldAccepts)
    /\ UNCHANGED <<plan, at, counters, gate, late, out, verdict, history>>

(* After the loop: a state that is already final stays, and the caller is    *)
(* given final_status whatever the state is.                                 *)
Finish ==
    /\ pc = "finish"
    /\ IF state \in {"DENIED", "FAILED", "TIMED_OUT", "ABORTED"}
       THEN UNCHANGED state /\ pc' = "returned"
       ELSE TransitionThen(verdict, "returned")
    /\ recorded' = (PlanField \in PlanFieldAccepts)
    /\ UNCHANGED <<plan, at, counters, gate, late, out, verdict, history>>

-----------------------------------------------------------------------------
Operator == Approve \/ Deny \/ Abort

(* The blocks of run() that the event loop carries out without waiting for   *)
(* anyone outside the process.                                               *)
Proceed ==
    \/ MakePlan \/ PlanCompleted \/ TaskTimedOut \/ StopEarly \/ TakeStep
    \/ GateDenies \/ GateAllows \/ GateAsks \/ WakeApproved \/ WakeDenied
    \/ StepWithoutEffect \/ StartTool
    \/ ObserveFailure \/ ObserveSuccess \/ VerifyGivesUp \/ VerifyContinues
    \/ Finish

Next == Start \/ Tick \/ Operator \/ Proceed \/ ToolReturns \/ ToolTimesOut

Spec == Init /\ [][Next]_vars

(* The event loop runs what is ready; asyncio.wait_for fires; a tool that is *)
(* run without a timeout (a lookup in the local stores) returns.  Nothing is *)
(* assumed of the operator, nor of a tool that runs under a timeout.         *)
Fairness ==
    /\ WF_vars(Proceed)
    /\ WF_vars(ToolTimesOut)
    /\ WF_vars(ToolReturns /\ Current.action # "execute")

FairSpec == Spec /\ Fairness

-----------------------------------------------------------------------------
(* Properties.                                                               *)

(* Every variable keeps its type, and the counters stay within the limits:  *)
(* at most max_steps steps, max_tool_calls tool calls, and one failure more *)
(* than max_failures, the one that ends the run.                            *)
TypeOK ==
    /\ state \in States /\ pc \in PCs
    /\ plan \in Seq(Step) /\ at \in Nat \ {0} /\ at <= Len(plan) + 1
    /\ steps \in 0..MaxSteps
    /\ calls \in 0..MaxToolCalls
    /\ failures \in 0..(MaxFailures + 1)
    /\ decision \in {"none", "yes", "no"} /\ event \in BOOLEAN
    /\ late \in BOOLEAN
    /\ out \in Result
    /\ verdict \in {"none", "coroutine"} \cup Terminal
    /\ recorded \in BOOLEAN
    /\ approvals \in SUBSET (1..Len(plan)) /\ started \in SUBSET (1..Len(plan))

(* Steps of the plan the policy may want approved before they run. *)
NeedsApproval(k) ==
    plan[k].tool # NoTool /\ "ASK" \in Verdicts[plan[k].tool]

Needing == {k \in DOMAIN plan : NeedsApproval(k)}

Phase == IF Ended THEN "over" ELSE IF pc = "approval" THEN "asking" ELSE "open"

(* Whatever the operator does and whenever it is done, the run keeps the    *)
(* promise of GatedRun: tools start in plan order, once each, never more    *)
(* than max_tool_calls, never after run() is over, and a tool the policy    *)
(* wants approved starts only when the last answer given for that very step *)
(* was an approval.                                                         *)
Promise == INSTANCE GatedRun WITH
    MaxEffects <- MaxToolCalls,
    phase <- Phase,
    effects <- started,
    consent <- approvals,
    needing <- Needing

Refinement == Promise!Spec

(* The moves run() makes are all in the table: InvalidTransition leaves     *)
(* run() only when abort() changed the state behind its back.               *)
RaisedOnlyAfterAbort == pc = "raised" => state = "ABORTED"

(* A status the caller is given is the state the runtime ended in, unless   *)
(* the run was aborted or had an empty plan.                                *)
ReturnedStatusIsState ==
    pc = "returned" /\ state # "ABORTED" => verdict \in {state, "coroutine"}

(* A final state is never left, by the run nor by the operator.             *)
FinalStateIsFinal == [][(state \in Terminal) => (state' = state)]_vars

(* Once more than max_failures failures are counted no tool is started, and *)
(* a run that returns after that reports FAILED.                            *)
FailureBudget ==
    failures > MaxFailures =>
        /\ pc \in {"finish", "returned"}
        /\ verdict = "FAILED"

(* A started run ends or is waiting for an answer the operator has not      *)
(* given: no endless loop, no retries.                                      *)
RunEnds == pc # "idle" ~> Ended \/ (pc = "approval" /\ ~event)

(* What abort() and a terminal state suggest: an aborted run comes to its   *)
(* end.  run() waiting for an answer is not woken, and approve() and deny() *)
(* refuse to answer a run that is ABORTED.                                  *)
AbortedRunEnds == state = "ABORTED" /\ pc # "idle" ~> Ended

(* The loop's last stage, "RECORD EVIDENCE": a run that returned a result   *)
(* has left a record in the ledger.                                         *)
ReturnedRunIsRecorded ==
    pc = "returned" /\ verdict # "coroutine" => recorded
=============================================================================
