------------------------ MODULE AgentRuntime_proofs ------------------------
(***************************************************************************)
(* Proofs about AgentRuntime for every set of tools, every policy without  *)
(* a tool that is both allowed and asked for, every set of plans of any    *)
(* length and all limits.                                                  *)
(*                                                                         *)
(* The argument rests on one inductive invariant, IndInv:                  *)
(*   ControlInv  which lifecycle states run() can be in at each of its     *)
(*               control points (ABORTED may appear at any point where the *)
(*               run can be suspended, and from there on);                 *)
(*   ConsentInv  how the answer left by the operator relates to the step   *)
(*               it was given for, from the question to the tool's start;  *)
(*   BudgetInv   how the started tools relate to the counters.             *)
(*                                                                         *)
(* Before that, what the runtime rests on: the answers of the permission   *)
(* policy, the builtin tools behind it, and the tools of MCP servers it    *)
(* may be given.                                                           *)
(***************************************************************************)
EXTENDS AgentRuntime, Builtin, MCPTools, FiniteSetTheorems, TLAPS

(* The permission policy and the builtin tools, for every tool name and     *)
(* whatever the fields of the policy are.                                    *)

(* The policy answers one of its three outcomes. *)
LEMMA OutcomeType ==
    ASSUME NEW policy \in Policy, NEW tool, NEW path \in Paths
    PROVE  Outcome(policy, tool, path) \in Outcomes
<1>1. /\ policy.default_shell \in Outcomes /\ policy.default_delete \in Outcomes
      /\ policy.default_write \in Outcomes
  BY DEF Policy
<1>2. {"ALLOW", "ASK", "DENY"} \subseteq Outcomes
  BY DEF Outcomes
<1>3. tool \in FileTools => FileOutcome(policy, tool, path) \in Outcomes
  BY <1>1, <1>2 DEF FileTools, FileOutcome
<1> QED
  BY <1>1, <1>2, <1>3 DEF Outcome

(* A tool is answered ALLOW or ASK by its name alone; the path can only turn *)
(* that into DENY.  This is what the runtimes assume of their policy.       *)
THEOREM SteadyPolicy ==
    ASSUME NEW policy \in Policy, NEW tool
    PROVE  /\ VerdictsOf(policy, tool) \in (SUBSET Outcomes) \ {{}}
           /\ ~({"ALLOW", "ASK"} \subseteq VerdictsOf(policy, tool))
<1>1. VerdictsOf(policy, tool) \in (SUBSET Outcomes) \ {{}}
  <2>1. [secret |-> FALSE, inside |-> FALSE] \in Paths
    BY DEF Paths
  <2> QED
    BY <2>1, OutcomeType DEF VerdictsOf
<1>2. ASSUME NEW p \in Paths, NEW q \in Paths,
             Outcome(policy, tool, p) = "ALLOW", Outcome(policy, tool, q) = "ASK"
      PROVE  FALSE
  <2>1. CASE tool \in FileTools
    BY <1>2, <2>1 DEF Outcome, FileTools, FileOutcome, Barred
  <2>2. CASE tool \notin FileTools
    BY <1>2, <2>2 DEF Outcome
  <2> QED
    BY <2>1, <2>2
<1> QED
  BY <1>1, <1>2 DEF VerdictsOf

(* On the phone nothing but the listed tools and reads of the workspace runs *)
(* unasked: no write, deletion, shell, MCP or unknown tool.                 *)
THEOREM PhoneAsksFirst ==
    ASSUME NEW external \in BOOLEAN, NEW tool, NEW path \in Paths,
           tool \notin Unattended, tool # "files.read_scoped"
    PROVE  Outcome(PhonePolicy(external), tool, path) \in {"ASK", "DENY"}
BY DEF Outcome, PhonePolicy, FileTools, FileOutcome

(* Reading and writing are refused outside the approved roots and for a     *)
(* secret, whatever the policy says about writes.                           *)
THEOREM ScopedFiles ==
    ASSUME NEW policy \in Policy, NEW path \in Paths,
           NEW tool \in {"files.read_scoped", "files.write_scoped"},
           tool \notin Shells \cup Externals \cup GitTools,
           path.secret \/ ~path.inside
    PROVE  Outcome(policy, tool, path) = "DENY"
BY DEF Outcome, FileTools, FileOutcome, Barred

-----------------------------------------------------------------------------
Writers == {"files.write_scoped", "files.delete_scoped", "model.route",
            "memory.write_proposal"}

(* The tools that only read leave the world as it is. *)
LEMMA ReadersChangeNothing ==
    ASSUME NEW tool \in Builtins \ Writers, NEW args, NEW services, NEW world,
           NEW end \in Results(tool, args, services, world)
    PROVE  end.world = world
<1>1. ASSUME NEW answers, end \in Answered(answers, world)
      PROVE  end.world = world
  BY <1>1 DEF Answered, Ends
<1>2. CASE ~args.fits \/ tool = "shell.exec"
  BY <1>2 DEF Results, Ends
<1>3. CASE args.fits /\ tool = "files.read_scoped"
  BY <1>3 DEF Results, Read, Ends
<1>4. CASE args.fits /\ tool \in {"system.health", "system.capabilities", "model.list",
                                  "model.health", "git.status", "git.diff"}
  BY <1>1, <1>4 DEF Results, Health, Capabilities, ModelList, ModelHealth, Git
<1>5. CASE args.fits /\ tool \in {"memory.search", "memory.inspect", "evidence.query"}
  BY <1>1, <1>5 DEF Results, Search, Inspect, Query
<1> QED
  BY <1>2, <1>3, <1>4, <1>5 DEF Builtins, Writers, Unattended, FileTools

(* Only the tool that writes a file and the one that deletes it touch the   *)
(* disk, and only at the location their argument names.                     *)
LEMMA DiskChange ==
    ASSUME NEW tool \in Builtins, NEW args \in Args, NEW services, NEW world \in Worlds,
           NEW end \in Results(tool, args, services, world)
    PROVE  \/ end.world.disk = world.disk
           \/ /\ tool \in {"files.write_scoped", "files.delete_scoped"}
              /\ \A l \in Locations \ {args.at} : end.world.disk[l] = world.disk[l]
<1>1. ASSUME NEW entry, NEW l \in Locations \ {args.at}
      PROVE  Put(world, args, entry).disk[l] = world.disk[l]
  BY DEF Put, Worlds
<1>2. CASE ~args.fits
  BY <1>2 DEF Results, Ends
<1>3. CASE args.fits /\ tool = "files.write_scoped"
  <2>1. end \in Write(args, world)
    BY <1>3 DEF Results
  <2>2. \/ end.world = world
        \/ \E entry : end.world = Put(world, args, entry)
    BY <2>1 DEF Write, Ends
  <2> QED
    BY <1>1, <1>3, <2>2
<1>4. CASE args.fits /\ tool = "files.delete_scoped"
  <2>1. end \in Delete(args, world)
    BY <1>4 DEF Results
  <2>2. \/ end.world = world
        \/ \E entry : end.world = Put(world, args, entry)
    BY <2>1 DEF Delete, Ends
  <2> QED
    BY <1>1, <1>4, <2>2
<1>5. CASE args.fits /\ tool = "model.route"
  BY <1>5 DEF Results, Route, Ends, Worlds
<1>6. CASE args.fits /\ tool = "memory.write_proposal"
  BY <1>6 DEF Results, WriteProposal, Ends, Worlds
<1>7. CASE tool \notin Writers
  BY <1>7, ReadersChangeNothing
<1> QED
  BY <1>2, <1>3, <1>4, <1>5, <1>6, <1>7 DEF Writers

(* Whatever the policy's fields, no builtin tool changes what lies outside  *)
(* the approved roots, and a secret inside them can only be deleted.        *)
THEOREM ConfinedToRoots ==
    ASSUME NamesApart, Judged \in [Locations -> Paths],
           NEW policy \in Policy, NEW tool \in Builtins, NEW args \in Args,
           NEW services, NEW world \in Worlds,
           NEW end \in Executed(policy, tool, args, services, world),
           NEW l \in Locations, end.world.disk[l] # world.disk[l]
    PROVE  Judged[l].inside /\ (Judged[l].secret => tool = "files.delete_scoped")
<1>1. CASE Outcome(policy, tool, Judged[args.at]) = "DENY"
  BY <1>1 DEF Executed, Ends
<1>2. CASE Outcome(policy, tool, Judged[args.at]) # "DENY"
  <2>1. end \in Results(tool, args, services, world)
    BY <1>2 DEF Executed
  <2>2. /\ tool \in {"files.write_scoped", "files.delete_scoped"}
        /\ l = args.at
    <3>1. end.world.disk # world.disk
      OBVIOUS
    <3> QED
      BY <2>1, <3>1, DiskChange
  <2>3. tool \notin Shells \cup Externals \cup GitTools
    BY <2>2 DEF NamesApart, Builtins, FileTools
  <2>4. ~Barred(tool, Judged[l])
    BY <1>2, <2>2, <2>3 DEF Outcome, FileOutcome, FileTools
  <2> QED
    BY <2>2, <2>4 DEF Barred
<1> QED
  BY <1>1, <1>2

(* What the phone runs unasked leaves the disk alone; it adds at most one   *)
(* proposal, which is no accepted memory, or one routing record.            *)
THEOREM UnattendedIsHarmless ==
    ASSUME NamesApart, Judged \in [Locations -> Paths],
           NEW external \in BOOLEAN, NEW tool \in Builtins, NEW args \in Args,
           Outcome(PhonePolicy(external), tool, Judged[args.at]) = "ALLOW",
           NEW services, NEW world \in Worlds,
           NEW end \in Results(tool, args, services, world)
    PROVE  /\ end.world.disk = world.disk
           /\ end.world.proposals - world.proposals \in
                  IF tool = "memory.write_proposal" THEN {0, 1} ELSE {0}
           /\ end.world.routed - world.routed \in
                  IF tool = "model.route" THEN {0, 1} ELSE {0}
<1>1. tool \notin {"files.write_scoped", "files.delete_scoped", "shell.exec"}
  <2>1. Judged[args.at] \in Paths
    BY DEF Args
  <2>2. {"files.write_scoped", "files.delete_scoped", "shell.exec"} \cap Unattended = {}
    BY DEF Unattended
  <2> QED
    BY <2>1, <2>2, PhoneAsksFirst
<1>2. end.world.disk = world.disk
  BY <1>1, DiskChange
<1>3. world.proposals \in Nat /\ world.routed \in Nat
  BY DEF Worlds
<1>4. CASE ~args.fits
  BY <1>2, <1>3, <1>4 DEF Results, Ends
<1>6. CASE args.fits /\ tool = "model.route"
  <2>1. end \in Route(args, services, world)
    BY <1>6 DEF Results
  <2>2. end.world \in {world, [world EXCEPT !.routed = @ + 1]}
    BY <2>1 DEF Route, Ends
  <2> QED
    BY <1>2, <1>3, <1>6, <2>2 DEF Worlds
<1>7. CASE args.fits /\ tool = "memory.write_proposal"
  <2>1. end \in WriteProposal(args, services, world)
    BY <1>7 DEF Results
  <2>2. end.world \in {world, [world EXCEPT !.proposals = @ + 1]}
    BY <2>1 DEF WriteProposal, Ends
  <2> QED
    BY <1>2, <1>3, <1>7, <2>2 DEF Worlds
<1>8. CASE tool \notin Writers
  <2>1. end.world = world
    BY <1>8, ReadersChangeNothing
  <2> QED
    BY <1>3, <1>8, <2>1 DEF Writers
<1> QED
  BY <1>1, <1>4, <1>6, <1>7, <1>8 DEF Writers

-----------------------------------------------------------------------------
(* The tools of MCP servers, for every configuration and whatever the         *)
(* servers answer.                                                           *)

(* A tool the agent is newly given comes from a server that is configured,  *)
(* enabled, within the first max_servers and well named, was offered by     *)
(* that very server in this discovery, and no list excludes it.             *)
THEOREM OnlyAllowedTools ==
    ASSUME NEW config \in Configs,
           NEW answers \in [DOMAIN config.servers -> Answers],
           NEW known, NEW tool \in ToolsAfter(known, config, answers) \ known
    PROVE  /\ tool[2] \in ValidNames /\ IsToolAllowed(config, tool[1], tool[2])
           /\ \E i \in Contacted(config) :
                  /\ config.servers[i].id = tool[1] /\ config.servers[i].id \in ValidIds
                  /\ answers[i].starts /\ answers[i].lists
                  /\ tool[2] \in ToSet(Shorter(answers[i].offer, config.max_tools))
<1>0. PICK i \in Kept(config) :
          \E name \in Report(config, i, answers).tools :
              tool = <<config.servers[i].id, name>>
  BY DEF ToolsAfter, Discovered
<1>1. PICK name \in Report(config, i, answers).tools :
          tool = <<config.servers[i].id, name>>
  BY <1>0
<1>2. i \in Contacted(config)
  BY DEF Kept
<1>3. /\ config.servers[i].id \in ValidIds
      /\ answers[i].starts /\ answers[i].lists
      /\ name \in Listed(config, config.servers[i].id, answers[i].offer)
  BY <1>1 DEF Report
<1> QED
  BY <1>1, <1>2, <1>3 DEF Listed

(* A list of allowed tools is a ceiling, and a denial anywhere is final,    *)
(* where each id is configured once.                                        *)
THEOREM ListsAreFinal ==
    ASSUME NEW config \in Configs, NEW i \in DOMAIN config.servers, NEW name,
           \A j \in DOMAIN config.servers : config.servers[j].id = config.servers[i].id => j = i,
           IsToolAllowed(config, config.servers[i].id, name)
    PROVE  /\ name \notin config.denied /\ name \notin config.servers[i].denied
           /\ config.servers[i].allowed # {} => name \in config.servers[i].allowed
<1>1. PICK server \in RulesOf(config, config.servers[i].id) :
          /\ name \notin server.denied
          /\ server.allowed # {} => name \in server.allowed
  BY DEF IsToolAllowed
<1>2. server = config.servers[i]
  BY <1>1 DEF RulesOf
<1> QED
  BY <1>1, <1>2 DEF IsToolAllowed

(* Under a policy that does not allow shells, no tool of an MCP server runs *)
(* unasked, whatever permission class its server was configured with.       *)
THEOREM MCPAsksFirst ==
    ASSUME QualifiedApart, NEW policy \in Policy, policy.default_shell # "ALLOW",
           NEW tool \in ServerIds \X ToolNames
    PROVE  CallOutcome(policy, tool) \in {"ASK", "DENY"}
<1>1. policy.default_shell \in {"ASK", "DENY"}
  BY DEF Policy, Outcomes
<1> QED
  BY <1>1 DEF QualifiedApart, CallOutcome, Outcome

-----------------------------------------------------------------------------
(* AgentRuntime.                                                             *)

ControlInv ==
    /\ pc \in {"idle", "plan"} =>
          /\ plan = <<>> /\ at = 1 /\ failures = 0
          /\ approvals = {} /\ started = {}
    /\ pc = "idle" => state \in {"CREATED", "ABORTED"}
    /\ pc = "plan" => state = "PLANNING"
    /\ pc \in {"loop", "gate", "execute", "tool", "observe"} =>
          state \in {"RUNNING", "ABORTED"}
    /\ pc = "approval" => state \in {"WAITING_APPROVAL", "ABORTED"}
    /\ pc = "verify" => state = "VERIFYING"
    /\ pc = "finish" =>
          /\ state \in {"RUNNING", "VERIFYING", "DENIED", "ABORTED"}
          /\ verdict \in {"COMPLETED", "FAILED", "TIMED_OUT", "DENIED"}
          /\ verdict = "DENIED" => state = "DENIED"
          /\ state = "DENIED" => verdict = "DENIED"
    /\ pc = "returned" => state \in Terminal
    /\ pc \in {"gate", "approval", "execute", "tool", "observe", "verify"} =>
          at <= Len(plan)
    /\ pc \in {"gate", "approval"} => Current.tool \in Tools

ConsentInv ==
    /\ \A k \in started : k <= at
    /\ pc \in {"loop", "gate", "approval", "execute"} =>
          \A k \in started : k < at
    /\ \A k \in started : NeedsApproval(k) => k \in approvals
    /\ pc = "approval" /\ event => decision \in {"yes", "no"}
    /\ pc = "approval" /\ event /\ decision = "yes" => at \in approvals
    /\ pc = "execute" /\ NeedsApproval(at) => at \in approvals

BudgetInv ==
    /\ FailureBudget
    /\ IsFiniteSet(started)
    /\ Cardinality(started) <= calls
    /\ pc \in {"gate", "approval", "execute"} /\ Current.tool # NoTool =>
          Cardinality(started) < calls

IndInv ==
    /\ TypeOK
    /\ ControlInv /\ RaisedOnlyAfterAbort /\ ReturnedStatusIsState
    /\ ConsentInv
    /\ BudgetInv

USE ToolsAssumption, VerdictsAssumption, PlansAssumption, LimitsAssumption

(* The initial state satisfies the invariant. *)
LEMMA InitIndInv == Init => IndInv
<1> SUFFICES ASSUME Init PROVE IndInv
  OBVIOUS
<1>1. IsFiniteSet(started) /\ Cardinality(started) = 0
  BY FS_EmptySet DEF Init
<1>2. TypeOK
  <2>1. plan \in Seq(Step) /\ Len(plan) = 0
    BY DEF Init
  <2>2. out \in Result
    BY DEF Init, Result, NoResult
  <2>3. at \in Nat \ {0} /\ at <= Len(plan) + 1
    BY <2>1 DEF Init
  <2>4. steps \in 0..MaxSteps /\ calls \in 0..MaxToolCalls /\ failures \in 0..(MaxFailures + 1)
    BY DEF Init
  <2>5. event \in BOOLEAN /\ late \in BOOLEAN /\ recorded \in BOOLEAN
    BY DEF Init
  <2>6. /\ state \in States /\ pc \in PCs /\ decision \in {"none", "yes", "no"}
        /\ verdict \in {"none", "coroutine"} \cup Terminal
    BY DEF Init, States, PCs, Terminal
  <2>7. approvals \in SUBSET (1..Len(plan)) /\ started \in SUBSET (1..Len(plan))
    BY DEF Init
  <2> QED
    BY <2>1, <2>2, <2>3, <2>4, <2>5, <2>6, <2>7 DEF TypeOK
<1>3. ControlInv /\ RaisedOnlyAfterAbort /\ ReturnedStatusIsState /\ ConsentInv
  BY DEF Init, ControlInv, RaisedOnlyAfterAbort, ReturnedStatusIsState, ConsentInv
<1>4. BudgetInv
  BY <1>1 DEF Init, BudgetInv, FailureBudget
<1> QED
  BY <1>2, <1>3, <1>4 DEF IndInv

(* The step a run works on is a step of its plan. *)
LEMMA CurrentIsStep ==
    ASSUME TypeOK, at <= Len(plan)
    PROVE  Current \in Step /\ Current.tool \in Tools \cup {NoTool}
<1>1. Current \in Step
  BY DEF TypeOK, Current
<1> QED
  BY <1>1 DEF Step

(* The limits and the types are kept: a counter grows only after it was
   compared with its limit. *)
LEMMA NextType ==
    ASSUME IndInv, [Next]_vars
    PROVE  TypeOK'
<1> USE DEF IndInv, TypeOK, ControlInv, FailureBudget, BudgetInv, States, PCs, Terminal,
            TransitionThen, Leave, CountFailure, counters, gate, history
<1>1. CASE Start
  BY <1>1 DEF Start
<1>2. CASE MakePlan
  <2>1. plan' \in Seq(Step) /\ Len(plan') \in Nat
    BY <1>2 DEF MakePlan
  <2>2. approvals' = {} /\ started' = {} /\ at' = 1
    BY <1>2 DEF MakePlan
  <2> QED
    BY <1>2, <2>1, <2>2 DEF MakePlan
<1>3. CASE Tick
  BY <1>3 DEF Tick
<1>4. CASE PlanCompleted
  BY <1>4 DEF PlanCompleted
<1>5. CASE TaskTimedOut
  BY <1>5 DEF TaskTimedOut
<1>6. CASE StopEarly
  BY <1>6 DEF StopEarly
<1>7. CASE TakeStep
  BY <1>7 DEF TakeStep
<1>8. CASE GateDenies
  BY <1>8 DEF GateDenies
<1>9. CASE GateAllows
  BY <1>9 DEF GateAllows
<1>10. CASE GateAsks
  <2>1. UNCHANGED <<plan, at, steps, calls, failures, late, out, verdict, recorded, approvals, started>>
    BY <1>10 DEF GateAsks
  <2>2. pc' \in PCs /\ state' \in States
    BY <1>10 DEF GateAsks, Transitions
  <2>3. decision' \in {"none", "yes", "no"} /\ event' \in BOOLEAN
    BY <1>10 DEF GateAsks
  <2>4. /\ plan' \in Seq(Step) /\ at' \in Nat \ {0} /\ at' <= Len(plan') + 1
        /\ approvals' \in SUBSET (1..Len(plan')) /\ started' \in SUBSET (1..Len(plan'))
    BY <2>1
  <2>5. /\ steps' \in 0..MaxSteps /\ calls' \in 0..MaxToolCalls
        /\ failures' \in 0..(MaxFailures + 1) /\ late' \in BOOLEAN /\ out' \in Result
        /\ verdict' \in {"none", "coroutine"} \cup Terminal /\ recorded' \in BOOLEAN
    BY <2>1
  <2> QED
    BY <2>2, <2>3, <2>4, <2>5
<1>11. CASE Approve
  <2>1. at \in 1..Len(plan)
    BY <1>11 DEF Approve, Suspended
  <2> QED
    BY <1>11, <2>1 DEF Approve
<1>12. CASE Deny
  BY <1>12 DEF Deny
<1>13. CASE Abort
  BY <1>13 DEF Abort
<1>14. CASE WakeApproved
  BY <1>14 DEF WakeApproved
<1>15. CASE WakeDenied
  BY <1>15 DEF WakeDenied
<1>16. CASE StepWithoutEffect
  <2>1. out' \in Result
    <3>1. out' \in {NoResult, Failure("FAILED"), Failure("DENIED")}
      BY <1>16 DEF StepWithoutEffect
    <3>2. NoResult \in Result
      BY DEF NoResult, Result
    <3>3. Failure("FAILED") \in Result
      BY DEF Failure, Result
    <3>4. Failure("DENIED") \in Result
      BY DEF Failure, Result
    <3> QED
      BY <3>1, <3>2, <3>3, <3>4
  <2> QED
    BY <1>16, <2>1 DEF StepWithoutEffect
<1>17. CASE StartTool
  <2>1. at \in 1..Len(plan)
    BY <1>17 DEF StartTool
  <2> QED
    BY <1>17, <2>1 DEF StartTool
<1>18. CASE ToolReturns
  <2>1. out' \in Result
    BY <1>18 DEF ToolReturns, Result
  <2> QED
    BY <1>18, <2>1 DEF ToolReturns
<1>19. CASE ToolTimesOut
  <2>1. out' \in Result
    BY <1>19 DEF ToolTimesOut, Failure, Result
  <2> QED
    BY <1>19, <2>1 DEF ToolTimesOut
<1>20. CASE ObserveFailure
  BY <1>20 DEF ObserveFailure
<1>21. CASE ObserveSuccess
  BY <1>21 DEF ObserveSuccess
<1>22. CASE VerifyGivesUp
  BY <1>22 DEF VerifyGivesUp
<1>23. CASE VerifyContinues
  <2>1. failures' \in 0..(MaxFailures + 1)
    BY <1>23 DEF VerifyContinues
  <2>2. at' \in Nat \ {0} /\ at' <= Len(plan) + 1
    BY <1>23 DEF VerifyContinues
  <2> QED
    BY <1>23, <2>1, <2>2 DEF VerifyContinues
<1>24. CASE Finish
  BY <1>24 DEF Finish
<1>25. CASE UNCHANGED vars
  BY <1>25 DEF vars
<1> QED
  BY <1>1, <1>2, <1>3, <1>4, <1>5, <1>6, <1>7, <1>8, <1>9, <1>10, <1>11, <1>12, <1>13,
     <1>14, <1>15, <1>16, <1>17, <1>18, <1>19, <1>20, <1>21, <1>22, <1>23, <1>24, <1>25
     DEF Next, Operator, Proceed

(* Every move of run() is in the table for the states the run can be in,
   unless the run was aborted. *)
LEMMA NextControl ==
    ASSUME IndInv, [Next]_vars
    PROVE  (ControlInv /\ RaisedOnlyAfterAbort /\ ReturnedStatusIsState)'
<1> USE DEF IndInv, TypeOK, ControlInv, RaisedOnlyAfterAbort, ReturnedStatusIsState, States, PCs,
            Terminal, TransitionThen, Transitions, Legal, Suspended, Leave,
            CountFailure, counters, gate, history, Current
<1>1. CASE Start
  BY <1>1 DEF Start
<1>2. CASE MakePlan
  BY <1>2 DEF MakePlan
<1>3. CASE Tick
  BY <1>3 DEF Tick
<1>4. CASE PlanCompleted
  BY <1>4 DEF PlanCompleted
<1>5. CASE TaskTimedOut
  BY <1>5 DEF TaskTimedOut
<1>6. CASE StopEarly
  BY <1>6 DEF StopEarly
<1>7. CASE TakeStep
  <2>1. Current.tool # NoTool => Current.tool \in Tools
    BY <1>7, CurrentIsStep DEF TakeStep
  <2> QED
    BY <1>7, <2>1 DEF TakeStep
<1>8. CASE GateDenies
  BY <1>8 DEF GateDenies
<1>9. CASE GateAllows
  BY <1>9 DEF GateAllows
<1>10. CASE GateAsks
  BY <1>10 DEF GateAsks
<1>11. CASE Approve
  BY <1>11 DEF Approve
<1>12. CASE Deny
  BY <1>12 DEF Deny
<1>13. CASE Abort
  BY <1>13 DEF Abort
<1>14. CASE WakeApproved
  BY <1>14 DEF WakeApproved
<1>15. CASE WakeDenied
  BY <1>15 DEF WakeDenied
<1>16. CASE StepWithoutEffect
  BY <1>16 DEF StepWithoutEffect
<1>17. CASE StartTool
  BY <1>17 DEF StartTool
<1>18. CASE ToolReturns
  BY <1>18 DEF ToolReturns
<1>19. CASE ToolTimesOut
  BY <1>19 DEF ToolTimesOut
<1>20. CASE ObserveFailure
  BY <1>20 DEF ObserveFailure
<1>21. CASE ObserveSuccess
  BY <1>21 DEF ObserveSuccess
<1>22. CASE VerifyGivesUp
  BY <1>22 DEF VerifyGivesUp
<1>23. CASE VerifyContinues
  BY <1>23 DEF VerifyContinues
<1>24. CASE Finish
  BY <1>24 DEF Finish
<1>25. CASE UNCHANGED vars
  BY <1>25 DEF vars
<1> QED
  BY <1>1, <1>2, <1>3, <1>4, <1>5, <1>6, <1>7, <1>8, <1>9, <1>10, <1>11, <1>12, <1>13,
     <1>14, <1>15, <1>16, <1>17, <1>18, <1>19, <1>20, <1>21, <1>22, <1>23, <1>24, <1>25
     DEF Next, Operator, Proceed

(* An answer is kept apart from the answer to any other question, and
   outlives the step's start. *)
LEMMA NextConsent ==
    ASSUME IndInv, [Next]_vars
    PROVE  ConsentInv'
<1> USE DEF IndInv, TypeOK, ControlInv, ConsentInv, TransitionThen, Transitions, Legal,
            Suspended, Leave, CountFailure, counters, gate, history, Current, NeedsApproval
<1>1. CASE Start
  BY <1>1 DEF Start
<1>2. CASE MakePlan
  BY <1>2 DEF MakePlan
<1>3. CASE Tick
  BY <1>3 DEF Tick
<1>4. CASE PlanCompleted
  BY <1>4 DEF PlanCompleted
<1>5. CASE TaskTimedOut
  BY <1>5 DEF TaskTimedOut
<1>6. CASE StopEarly
  BY <1>6 DEF StopEarly
<1>7. CASE TakeStep
  BY <1>7 DEF TakeStep
<1>8. CASE GateDenies
  BY <1>8 DEF GateDenies
<1>9. CASE GateAllows
  BY <1>9 DEF GateAllows
<1>10. CASE GateAsks
  BY <1>10 DEF GateAsks
<1>11. CASE Approve
  BY <1>11 DEF Approve
<1>12. CASE Deny
  BY <1>12 DEF Deny
<1>13. CASE Abort
  BY <1>13 DEF Abort
<1>14. CASE WakeApproved
  BY <1>14 DEF WakeApproved
<1>15. CASE WakeDenied
  BY <1>15 DEF WakeDenied
<1>16. CASE StepWithoutEffect
  BY <1>16 DEF StepWithoutEffect
<1>17. CASE StartTool
  BY <1>17 DEF StartTool
<1>18. CASE ToolReturns
  BY <1>18 DEF ToolReturns
<1>19. CASE ToolTimesOut
  BY <1>19 DEF ToolTimesOut
<1>20. CASE ObserveFailure
  BY <1>20 DEF ObserveFailure
<1>21. CASE ObserveSuccess
  BY <1>21 DEF ObserveSuccess
<1>22. CASE VerifyGivesUp
  BY <1>22 DEF VerifyGivesUp
<1>23. CASE VerifyContinues
  BY <1>23 DEF VerifyContinues
<1>24. CASE Finish
  BY <1>24 DEF Finish
<1>25. CASE UNCHANGED vars
  BY <1>25 DEF vars
<1> QED
  BY <1>1, <1>2, <1>3, <1>4, <1>5, <1>6, <1>7, <1>8, <1>9, <1>10, <1>11, <1>12, <1>13,
     <1>14, <1>15, <1>16, <1>17, <1>18, <1>19, <1>20, <1>21, <1>22, <1>23, <1>24, <1>25
     DEF Next, Operator, Proceed

(* A tool call is counted before the tool starts, a failure before the loop
   goes on. *)
LEMMA NextBudget ==
    ASSUME IndInv, [Next]_vars
    PROVE  BudgetInv'
<1> USE DEF IndInv, TypeOK, ControlInv, ConsentInv, BudgetInv, FailureBudget, TransitionThen,
            Leave, CountFailure, counters, gate, history, Current
<1>1. CASE Start
  BY <1>1 DEF Start
<1>2. CASE MakePlan
  BY <1>2 DEF MakePlan
<1>3. CASE Tick
  BY <1>3 DEF Tick
<1>4. CASE PlanCompleted
  BY <1>4 DEF PlanCompleted
<1>5. CASE TaskTimedOut
  BY <1>5 DEF TaskTimedOut
<1>6. CASE StopEarly
  BY <1>6 DEF StopEarly
<1>7. CASE TakeStep
  <2>1. Cardinality(started) \in Nat
    BY FS_CardinalityType
  <2>2. Cardinality(started) <= calls /\ calls' \in {calls, calls + 1}
    BY <1>7 DEF TakeStep
  <2>3. pc' \in {"gate", "approval", "execute"} /\ Current'.tool # NoTool =>
           calls' = calls + 1
    BY <1>7 DEF TakeStep
  <2> QED
    BY <1>7, <2>1, <2>2, <2>3 DEF TakeStep
<1>8. CASE GateDenies
  BY <1>8 DEF GateDenies
<1>9. CASE GateAllows
  BY <1>9 DEF GateAllows
<1>10. CASE GateAsks
  BY <1>10 DEF GateAsks
<1>11. CASE Approve
  BY <1>11 DEF Approve
<1>12. CASE Deny
  BY <1>12 DEF Deny
<1>13. CASE Abort
  BY <1>13 DEF Abort
<1>14. CASE WakeApproved
  BY <1>14 DEF WakeApproved
<1>15. CASE WakeDenied
  BY <1>15 DEF WakeDenied
<1>16. CASE StepWithoutEffect
  BY <1>16 DEF StepWithoutEffect
<1>17. CASE StartTool
  <2>1. at \notin started
    BY <1>17 DEF StartTool
  <2>2. IsFiniteSet(started') /\ Cardinality(started') = Cardinality(started) + 1
    BY <1>17, <2>1, FS_AddElement DEF StartTool
  <2>3. Current.tool # NoTool
    BY <1>17 DEF StartTool
  <2>4. Cardinality(started) < calls /\ Cardinality(started) \in Nat
    BY <1>17, <2>3, FS_CardinalityType DEF StartTool
  <2> QED
    BY <1>17, <2>2, <2>4 DEF StartTool
<1>18. CASE ToolReturns
  BY <1>18 DEF ToolReturns
<1>19. CASE ToolTimesOut
  BY <1>19 DEF ToolTimesOut
<1>20. CASE ObserveFailure
  BY <1>20 DEF ObserveFailure
<1>21. CASE ObserveSuccess
  BY <1>21 DEF ObserveSuccess
<1>22. CASE VerifyGivesUp
  BY <1>22 DEF VerifyGivesUp
<1>23. CASE VerifyContinues
  BY <1>23 DEF VerifyContinues
<1>24. CASE Finish
  BY <1>24 DEF Finish, Transitions
<1>25. CASE UNCHANGED vars
  BY <1>25 DEF vars
<1> QED
  BY <1>1, <1>2, <1>3, <1>4, <1>5, <1>6, <1>7, <1>8, <1>9, <1>10, <1>11, <1>12, <1>13,
     <1>14, <1>15, <1>16, <1>17, <1>18, <1>19, <1>20, <1>21, <1>22, <1>23, <1>24, <1>25
     DEF Next, Operator, Proceed

(* The invariant holds throughout. *)
THEOREM Invariance == Spec => []IndInv
<1>1. IndInv /\ [Next]_vars => IndInv'
  BY NextType, NextControl, NextConsent, NextBudget DEF IndInv
<1> QED
  BY InitIndInv, <1>1, PTL DEF Spec

(* Types and limits: no run takes more than max_steps steps or makes more   *)
(* than max_tool_calls calls, whatever the plan.                            *)
THEOREM TypeCorrect == Spec => []TypeOK
BY Invariance, PTL DEF IndInv

(* run() raises InvalidTransition only for a run that was aborted. *)
THEOREM RaiseSafety == Spec => []RaisedOnlyAfterAbort
BY Invariance, PTL DEF IndInv

(* The caller is given the state the run ended in. *)
THEOREM StatusSafety == Spec => []ReturnedStatusIsState
BY Invariance, PTL DEF IndInv

(* No work is done over the failure budget. *)
THEOREM FailureSafety == Spec => []FailureBudget
BY Invariance, PTL DEF IndInv, BudgetInv

(* A final state is never left: every change of state is a row of the table. *)
THEOREM FinalSafety == Spec => FinalStateIsFinal
<1>1. IndInv /\ [Next]_vars => [(state \in Terminal) => (state' = state)]_vars
  <2> SUFFICES ASSUME [Next]_vars, state \in Terminal PROVE state' = state
    OBVIOUS
  <2> USE DEF Terminal, Transitions, TransitionThen, Legal
  <2>1. CASE Start \/ MakePlan \/ Tick \/ PlanCompleted \/ TaskTimedOut \/ StopEarly \/ TakeStep
    BY <2>1 DEF Start, MakePlan, Tick, PlanCompleted, TaskTimedOut, StopEarly, TakeStep
  <2>2. CASE GateDenies \/ GateAllows \/ GateAsks \/ Approve \/ Deny \/ Abort
    BY <2>2 DEF GateDenies, GateAllows, GateAsks, Approve, Deny, Abort
  <2>3. CASE WakeApproved \/ WakeDenied \/ StepWithoutEffect \/ StartTool \/ ToolReturns
             \/ ToolTimesOut
    BY <2>3 DEF WakeApproved, WakeDenied, StepWithoutEffect, StartTool, ToolReturns,
                ToolTimesOut
  <2>4. CASE ObserveFailure \/ ObserveSuccess \/ VerifyGivesUp \/ VerifyContinues \/ Finish
    BY <2>4 DEF ObserveFailure, ObserveSuccess, VerifyGivesUp, VerifyContinues, Finish
  <2>5. CASE UNCHANGED vars
    BY <2>5 DEF vars
  <2> QED
    BY <2>1, <2>2, <2>3, <2>4, <2>5 DEF Next, Operator, Proceed
<1> QED
  BY Invariance, <1>1, PTL DEF Spec, FinalStateIsFinal

-----------------------------------------------------------------------------
(* The run keeps the promise of GatedRun.                                    *)

(* What the policy wants approved depends on the plan alone. *)
LEMMA NeedingFixed == ASSUME plan' = plan PROVE Needing' = Needing
BY DEF Needing, NeedsApproval

(* The steps of a run that leave its effects and its answers alone: each is
   invisible, suspends or resumes the run, or ends it. *)
LEMMA QuietStep ==
    ASSUME plan' = plan, UNCHANGED history, Phase' \in {Phase, "over"}
    PROVE  [Promise!Next]_(Promise!vars)
<1>1. Needing' = Needing
  BY NeedingFixed
<1>2. CASE Phase' = Phase
  BY <1>1, <1>2 DEF history, Promise!vars
<1>3. CASE Phase' = "over"
  BY <1>1, <1>3 DEF history, Promise!Next, Promise!End
<1> QED
  BY <1>2, <1>3

(* Every step of the run is a step of the promise or invisible there. *)
LEMMA Simulation ==
    ASSUME IndInv, [Next]_vars
    PROVE  [Promise!Next]_(Promise!vars)
<1> USE DEF IndInv
<1>1. CASE Start
  BY <1>1, QuietStep DEF Start, TransitionThen, Phase, Ended
<1>2. CASE MakePlan
  <2>1. /\ Phase = "open" /\ Needing = {}
        /\ started = {} /\ UNCHANGED history
    BY <1>2 DEF MakePlan, Phase, Ended, ControlInv, Needing
  <2>2. CASE plan' = plan
    BY <1>2, <2>1, <2>2, QuietStep DEF MakePlan, TransitionThen, Phase, Ended
  <2>3. CASE plan' # plan
    <3>1. Phase' = "open"
      BY <1>2, <2>3 DEF MakePlan, TransitionThen, Transitions, Phase, Ended, ControlInv
    <3>2. DOMAIN plan' \in SUBSET Nat
      BY <1>2 DEF MakePlan, TypeOK
    <3>3. Needing' \in SUBSET Nat
      BY <3>2 DEF Needing
    <3> QED
      BY <2>1, <3>1, <3>3 DEF Promise!Next, Promise!Commit, history
  <2> QED
    BY <2>2, <2>3
<1>3. CASE Tick
  BY <1>3, QuietStep DEF Tick, Phase, Ended
<1>4. CASE PlanCompleted \/ TaskTimedOut \/ StopEarly \/ TakeStep
  BY <1>4, QuietStep
     DEF PlanCompleted, TaskTimedOut, StopEarly, TakeStep, Leave, Phase, Ended
<1>5. CASE GateDenies \/ GateAllows
  BY <1>5, QuietStep DEF GateDenies, GateAllows, CountFailure, Leave, Phase, Ended
<1>6. CASE GateAsks
  <2>1. Phase = "open" /\ Phase' \in {"asking", "over"}
    BY <1>6 DEF GateAsks, TransitionThen, Phase, Ended
  <2>2. UNCHANGED history /\ Needing' = Needing
    BY <1>6, NeedingFixed DEF GateAsks
  <2> QED
    BY <2>1, <2>2 DEF Promise!Next, Promise!Ask, Promise!End, history
<1>7. CASE Approve \/ Deny
  <2>1. /\ pc = "approval" /\ pc' = pc /\ started' = started
        /\ approvals' \in {approvals \cup {at}, approvals \ {at}}
    BY <1>7 DEF Approve, Deny, Suspended, ControlInv
  <2>2. at \in Nat /\ \A e \in started : e < at
    BY <2>1 DEF TypeOK, ConsentInv
  <2>3. Phase = "asking" /\ Phase' = Phase /\ Needing' = Needing
    BY <1>7, <2>1, NeedingFixed DEF Approve, Deny, Phase, Ended
  <2>4. CASE approvals' = approvals
    BY <2>1, <2>3, <2>4 DEF Promise!vars
  <2>5. CASE approvals' # approvals
    <3>1. at \in approvals \cup approvals'
      <4>1. CASE at \in approvals
        BY <4>1
      <4>2. CASE at \notin approvals
        <5>1. approvals \ {at} = approvals
          BY <4>2
        <5> QED
          BY <2>1, <2>5, <5>1
      <4> QED
        BY <4>1, <4>2
    <3> QED
      BY <2>1, <2>2, <2>3, <3>1 DEF Promise!Next, Promise!Answer
  <2> QED
    BY <2>4, <2>5
<1>8. CASE Abort
  BY <1>8, QuietStep DEF Abort, Phase, Ended
<1>9. CASE WakeApproved \/ WakeDenied
  <2>1. Phase = "asking" /\ Phase' \in {"open", "over"}
    BY <1>9 DEF WakeApproved, WakeDenied, TransitionThen, Phase, Ended
  <2>2. UNCHANGED history /\ Needing' = Needing
    BY <1>9, NeedingFixed DEF WakeApproved, WakeDenied
  <2> QED
    BY <2>1, <2>2 DEF Promise!Next, Promise!Resume, Promise!End, history
<1>10. CASE StepWithoutEffect
  BY <1>10, QuietStep DEF StepWithoutEffect, Phase, Ended
<1>11. CASE StartTool
  <2>1. Phase = "open" /\ Phase' = "open" /\ UNCHANGED approvals /\ Needing' = Needing
    BY <1>11, NeedingFixed DEF StartTool, Phase, Ended
  <2>2. at \in Nat /\ started' = started \cup {at} /\ \A e \in started : e < at
    BY <1>11 DEF StartTool, TypeOK, ConsentInv
  <2>3. at \in Needing => at \in approvals
    BY <1>11 DEF StartTool, ConsentInv, Needing
  <2>4. Cardinality(started) < MaxToolCalls
    <3>1. Current.tool # NoTool
      BY <1>11, ToolsAssumption DEF StartTool
    <3>2. IsFiniteSet(started) /\ Cardinality(started) < calls
      BY <1>11, <3>1 DEF StartTool, BudgetInv
    <3>3. Cardinality(started) \in Nat
      BY <3>2, FS_CardinalityType
    <3>4. calls \in 0..MaxToolCalls /\ MaxToolCalls \in Nat
      BY DEF TypeOK
    <3> QED
      BY <3>2, <3>3, <3>4
  <2>5. Promise!Cardinality(started) = Cardinality(started)
    BY DEF Cardinality, Promise!Cardinality
  <2> QED
    BY <2>1, <2>2, <2>3, <2>4, <2>5 DEF Promise!Next, Promise!Perform
<1>12. CASE ToolReturns \/ ToolTimesOut
  BY <1>12, QuietStep DEF ToolReturns, ToolTimesOut, Phase, Ended
<1>13. CASE ObserveFailure \/ ObserveSuccess
  BY <1>13, QuietStep
     DEF ObserveFailure, ObserveSuccess, CountFailure, Leave, TransitionThen, Phase, Ended
<1>14. CASE VerifyGivesUp \/ VerifyContinues
  BY <1>14, QuietStep
     DEF VerifyGivesUp, VerifyContinues, Leave, TransitionThen, Phase, Ended
<1>15. CASE Finish
  BY <1>15, QuietStep DEF Finish, TransitionThen, Phase, Ended
<1>16. CASE UNCHANGED vars
  BY <1>16, QuietStep DEF vars, Phase, Ended
<1> QED
  BY <1>1, <1>2, <1>3, <1>4, <1>5, <1>6, <1>7, <1>8, <1>9, <1>10, <1>11, <1>12, <1>13,
     <1>14, <1>15, <1>16 DEF Next, Operator, Proceed

(* Whatever the operator does, tools start in plan order, once each, at most
   max_tool_calls of them, and only with the consent the policy asks for. *)
THEOREM KeepsPromise == Spec => Refinement
<1>1. Init => Promise!Init
  <2> SUFFICES ASSUME Init PROVE Promise!Init
    OBVIOUS
  <2>1. Needing = {}
    BY DEF Init, Needing
  <2> QED
    BY <2>1 DEF Init, Promise!Init, Phase, Ended
<1>2. IndInv /\ [Next]_vars => [Promise!Next]_(Promise!vars)
  BY Simulation
<1> QED
  BY Invariance, <1>1, <1>2, PTL DEF Spec, Refinement, Promise!Spec
=============================================================================
