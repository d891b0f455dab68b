# Formal models of Lucy Edge

TLA+ specifications of the stateful parts of this repository, checked with TLC on
small instances and proved with TLAPS for every value of the constants where a
theorem says so. File and line references are to `src/` at the modelled commit.

- [The system](#the-system)
- [What is modelled](#what-is-modelled)
- [What the runs check](#what-the-runs-check)
- [What is proved](#what-is-proved)
- [Where the code and its texts disagree](#where-the-code-and-its-texts-disagree)
- [What is not modelled](#what-is-not-modelled)
- [What is left](#what-is-left)

## The system

Lucy is an agent that runs on one device. Everything is asyncio: one event loop per
process, so code is interrupted only where it awaits something that suspends. Two
processes matter: the edge service (gateway, agent runs, stores, MCP clients) and the
bridge to the Nexus console.

| Component | State | Operations | Talks to | What is hard | What makes it correct |
|---|---|---|---|---|---|
| Agent runtime (`lucy_edge/agent/runtime.py`, `executor.py`, `verifier.py`) | lifecycle state, plan position, step/call/failure counters, approval answer and event, deadline | `run`, `approve`, `deny`, `abort` | planner, tool registry, ledger; operator calls from outside | the operator acts at every suspension of the run; three budgets tested at different places | tools run in plan order, once, within the budgets, and only with consent where the policy asks for it; the run ends; status and state agree |
| Tools and permissions (`lucy_edge/tools`) | registered tools, policy flags | `register`, `execute`, `evaluate` | agent runtime, MCP | the policy is evaluated twice and depends on where a path resolves | nothing denied is executed |
| Planner (`planner.py`, `planner_provider.py`) | none | `plan` | providers | fallback from model to rules | a plan only names offered tools |
| MCP client (`lucy_edge/mcp`) | registry, clients, subprocess, pending requests, lock, read loop | `open`, `call`, `close` | MCP servers (subprocess or HTTP) | concurrent calls, late answers, timeouts at two levels, a read loop that may end, close during calls | an answer reaches the call it answers; every call ends, with a result or a failure |
| Bridge (`bridge.py`) | outbox and inbox (SQLite), connectivity flags, listener | report a status, handle a command, flush, listen, health | Lucy, Nexus | outages, lost answers, restart between post and delete, transport fallback | nothing kept is lost, duplicates only through faults, order of a queue, delivery after an outage |
| Memory store and admission (`lucy_edge/memory`) | records with provenance and status, full-text index, one shared connection | `create`, `update`, `accept`, `reject`, `supersede`, `delete`, `search` | tools, retrieval | statements of several coroutines in one transaction; read-modify-write over awaits | untrusted provenance is never accepted; a record can be found |
| Evidence ledger (`lucy_edge/evidence`) | one file and one row per run id | `append`, `get` | runtimes, MCP audit | file and row are two writes; records of one run overwrite each other | what happened is on record |
| Loyal runtime (`lucy_core/runtime`) | as the agent runtime, plus gates and reflections | `run`, `approve`, `deny`, `abort` | devotional core, ledger | several gates, steps injected while running, automatic approval | the promise of the agent runtime, and the gates' own |
| Devotional core, review, chat (`lucy_core/devotional`, `lucy_cli.py`) | trust, insights, guidance, review package | approve/modify/reject an insight, messages | sleep, ledger | reviews of a package made before the insights changed | each insight is decided once; trust reflects decisions |
| Sleep and episodic memory (`lucy_core/sleep`, `lucy_core/memory`) | episodic buffer (100 entries), index, insights | `add`, `flush`, `sleep` | devotional core | a phase that fails after the buffer was flushed | experiences are replayed or still buffered |
| Gateway (`lucy_edge/gateway`) | task table, hits per client | chat, submit, status, rate limit | agent runtime, router, local provider, ledger | tasks nobody can answer; snapshots taken before awaits; a model that holds the event loop | the limit holds; no chat is inferred ungated |
| Routing, hardware governor (`lucy_edge/routing`, `hardware`) | host table | decide, register, mark, select | providers, gateway | readings that are missing, order of the rules | nothing runs on a reading that is unknown; a host that failed is not used |
| Providers, foundation audit, introspection | configuration | audit, self-check, report | everything | several partial checks, one verdict | what is called SOUND is |
| Services, command line, phone client | configuration | open, close, start | everything | order of opening and closing | – |
| Training, lineage, tokenizer (`training`, `scripts/train_status.py`, `grade_checkpoint.py`) | `latest.json`, one file per run, lineage ledger, merges | `train`, resume, reap, grade, encode, decode | operator, audit | kills between files, several trainers, resume arithmetic | what is DONE is whole; one schedule; every checkpoint can be traced |
| Brain, transformer, other scripts | numeric weights, files | infer, report | files | – | – |

Interactions: the gateway creates an agent run per submitted task and only polls it; a run
calls its planner, then the tools of the registry one at a time; MCP tools are functions in
that registry that go through `MCPRegistry.call`, so several runs meet in one
`StdioTransport`; a run appends to the ledger when it ends; the loyal runtime also calls the
devotional core, which the sleep cycle and the review change, all from one terminal session.
A chat through the gateway asks the router, which asks the governor, and then runs the local
model on the event loop. Trainers share only files. The bridge knows Lucy only by
HTTP. The hazards, each at its line, are in `PROJECT.json`.

## What is modelled

| Module | Extends / instantiates | Models |
|---|---|---|
| `GatedRun` | | what a run promises (abstract) |
| `Lifecycle` | | lifecycle states and transitions, shared by the runtimes |
| `AgentRuntime` | `Lifecycle`; refines `GatedRun` | `AgentRuntime.run` |
| `Planning` | `Selection` | the rule, model and predictive planners |
| `Gates` | `Planning` | loyalty gate, honesty verifier |
| `LoyalRuntime` | `Lifecycle`, `Gates`; refines `GatedRun` | `LoyalAgentRuntime.run` |
| `Lucy` | `Selection` | the terminal session: chat, guidance, runs, nights, reviews, ledger |
| `Permissions`, `Builtin` | `Builtin` extends `Permissions` | the permission policy; the builtin tools behind it |
| `MCPSession` | `Selection` | one MCP server and its callers in time |
| `MCPTools` | `Permissions` | allowlists, discovery, registration, calls over several servers |
| `Bridge` | `Selection` | the relay to Nexus |
| `MemoryStore` | | memory records over one connection |
| `Routing`, `HostChoice` | `HostChoice` extends `Routing` | where a model may run; the hosts and the choice between them |
| `Gateway` | `Routing`, `Selection` | rate limiter, handlers, submitted runs |
| `Foundation` | | the audit and its verdict |
| `Training` | | trainers, their files, the lineage ledger, the operator's resume |
| `Tokenizer` | | byte-pair merges, encoding, decoding |
| `Selection` | | a sequence without some of its values: a queue after a DELETE, the callers left in a lock's queue, the hits a window still counts, the aligned memories, the actions left of a ranking |

The `MC` modules give the constants for TLC. Those of `LoyalRuntime`, `MCPSession` and `Gateway`
also check the pure modules over bounded inputs, as named assumptions TLC evaluates: builtin tools
stay inside the roots (`BuiltinToolsStayInside`), discovered tools are allowed ones
(`DiscoveredToolsAreAllowed`), a host is chosen exactly if one can be (`SomeHostIsChosen`), the
tokenizer's round trip and that it encodes a corpus as it was trained on it (`TokenizerRoundTrip`,
`TokenizerEncodesAsTrained`), and the audit's verdicts on the phone's configuration
(`AuditVerdicts`).

Definitions whose comment begins with "Faulty variant" are mistakes the code could contain; they
stand for nothing in the code and are the evidence that each property can fail.

### `GatedRun` – what a run promises

State: `phase` (open, asking, over), the plan steps whose tool was started (`effects`), the
steps with a yes as the operator's latest answer (`consent`), and the steps that need one
(`needing`). It says only what an operator can rely on: effects in plan order, once each, at
most `MaxEffects`, not while the run is suspended, none after the end, and for a needing step
only with consent.

### `AgentRuntime` – how the run keeps it

The lifecycle table of `runtime.py:40-69` is `Lifecycle`, which both runtimes share. `run()` as a
program counter over the uninterrupted blocks of the coroutine: `pc` is the place
in the code, `state` the observable lifecycle state (they differ, which is where the trouble
is). One action per way through a block: `TaskTimedOut`, `StopEarly`, `TakeStep` for the head
of the loop, `GateDenies/Allows/Asks` for the permission gate, `WakeApproved/WakeDenied` after
the approval event, `StepWithoutEffect`, `StartTool`, `ToolReturns`, `ToolTimesOut` for
`Executor.run_step` with `ToolRegistry.execute`, `ObserveFailure/Success`,
`VerifyGivesUp/Continues`, and `Finish` for `_finish`. `Approve`, `Deny` and `Abort` are enabled
where the coroutine is suspended. `TransitionThen` is `transition()`, raising included.

Data is abstracted to what decides control: a plan step is an action and a tool, a tool is the
set of answers the policy may give for it (a path may resolve differently at each evaluation,
so DENY may come at one and not at the other), a result is a status and whether the verifier
accepts the output, time is one bit per run (`late`).

`approvals` and `started` are history variables; nothing reads them but the properties.

`MCAgentRuntime` gives the constants: every plan of up to `MaxLen` steps out of seven kinds
(allowed, possibly denied, asked for, unregistered, verify, stop, unknown action).

### `MCPSession` – one MCP server and its callers

The registry's `open`, `call`, `close`, the client's `_initialized`, and the transport's
`_process`, `_pending`, `_lock` and read loop, with discovery and agent runs as callers. A call
goes through `entered` (its task is created by `wait_for` and has not run), `spawning`,
`queued` (lock), `waiting` (future), `answered` (the future is set and the task has not
resumed). `TimesOut` may strike in each of them. The lock is a sequence, its head the holder.
The server answers what it was asked in any order and at any time, or not, writes lines of its
own accord, or exits; a line the reader does not survive (not a JSON object, or longer than
the 64 KiB limit of the stream) stops the read loop for good. A message carries, besides its
id, the request it really answers (`of`), so that correlation can be stated.

`Begin` spawns a subprocess also after a close, as the code does when a call's task starts
just after `close()` finished. A write to the stdin `close()` has shut fails; the model assumes
that the pipe to the server was not full.

### `Bridge` – the relay

A message is followed from the handler (`inflight`), through a failed post (`unsent`), into its
queue, or to its destination; `received` counts how often the destination took it. The flusher
is `Fetch`, `FlushSent`, `FlushNotSent`, `Delete` for each queue in turn, with its local batch
and delivered set. The listener's `Transport` is SSE until its failures reach the threshold, and
the WebSocket from then on: `Ask` sends the SSE request, which is `Answered`, `NotAnswered` or
neither; `Connect` and `ConnectFails` are the WebSocket's; `HandleCommand` and `Disconnect` follow
either. Nexus may or may not serve the fallback (`ToggleFallback`). `Restart` keeps only the
queues. Nexus pushes a command once, to
whoever is connected. `Refused` are messages their destination answers with 4xx.

### `MemoryStore` – records over one connection

An operation is the sequence of statements it awaits (`Create`, `Accept`, `Reject`, `Supersede`,
`Delete`, built from `Insert`, `Update`, `SetStatus` as the code's are), and `todo` is what a
coroutine has left of it; one action carries out each kind of statement (`Get`, `InsertRow`,
`UpdateRow`, `RemoveRow`, `Find`, `Unindex`, `Index`, `Commit`). Since all coroutines share one
aiosqlite connection, they share its transaction: `Commit` by one makes durable what all have
written. `rows` and `index` are the tables the connection sees, `disk` what is committed;
`Restart` puts the latter back. An id stands for its `rowid` too, which AUTOINCREMENT never
gives out twice. A second index entry for one row raises (FTS5), and the operation ends there
with its transaction open, as in the code. `Cancel` is the executor's `wait_for`
(`executor.py:60`), which ends a tool's `create()` before any of its statements, while the process
and the shared transaction live on; `cut` remembers, as history, the records whose index entry was
still owed when their writer was cut off, by a cancellation or a crash.

### `Planning`, `Gates`, `LoyalRuntime` – the loyal run

A goal is the set of the planners' keywords in it. `RulePlan` is the keyword planner,
`ModelPlan` the model's answer checked and with its fallback, `PredictivePlan` the ranking of
action slots with the injected devotional steps, in the stages of the code: the ranking up to its
stop (`UpToStop`), the slots a plan has room for (`Taken`), the plan (`RankedPlan`) with what an
unaligned one is made to contain. `Guarded` is what the loyalty gate makes of a
plan (`check_plan` and the insertion in `run()`), `Judgement` the honesty verifier's order of
checks. `LoyalRuntime` has one action per way through `run()`: the three gates over the whole plan,
the permission gate that lets devotion take the operator's place, execution, judgement, the
recording of a violation (which lowers trust, appends and may raise), `Reflect`, in which the
provider is asked for a sentence on the completed run, and `RecordRun`, which appends the run's
record and stores its experience. It instantiates `GatedRun` with no consent at
all: the steps that need one are those the policy asks for in a plan that is not devoted.

### `Lucy` – a session at the terminal

The command loop handles one command at a time, and `input()` blocks the event loop; what may
interleave are appends to the evidence ledger that guidance leaves behind as tasks, and the end of
the process. `doing` says which command is being carried out. The core's trust (in hundredths),
moods and dream insights, the review's package, the episodic buffer with what tonight has flushed,
the adapters on disk, and files and rows of the ledger are the state; `Goodnight`, `SaveAdapters`,
`SaveFails`, `Dream`, `Consolidate` are a night, `WriteFile` and `CommitRow` an append, `Crash`,
`Exit`, `Vanish` and `Restart` the process. Numbers of guidance, runs, approvals and sessions are
bounded by `MaxTold`, `MaxRuns`, `MaxApproved`, `MaxSessions`.

### `Permissions`, `Builtin`, `MCPTools` – what a tool may do

`Outcome` is `ToolPermissionPolicy.evaluate` for every policy, tool name and path, a path being
whether it is a secret and whether it lies inside the roots. `Builtin` says what each builtin tool
changes on disk, in memory and in the ledger, and `Executed` puts the policy in front of it.
`MCPTools` is discovery over all configured servers and what a call is told.

### `Routing`, `HostChoice`, `Gateway` – who may run a model

`Routes` is `ModelRouter.route` with the governor, the policy's denials in their order and the
phone gate; what could not be read is `Unread`. `HostChoice` has the host registry's operations,
`select_host` and `resource_gate`; nothing in the service registers a host or calls the last two,
so they are definitions with theorems, not part of the gateway's steps. `Gateway` is the
handlers between their awaits: a chat takes its snapshot and route (`Chat`), records the decision
(`Recorded`, `RecordFails`) and runs the model (`Inferred`), which holds the event loop until it is
done (`LoopIsFree`); `/v1/foundation` and `/v1/lucy/introspect` run it too, for the audit's
self-check, with neither route nor record (`SelfCheck`, `SelfChecked`); a submission starts a run
that goes on by itself (`RunGoesOn`). The retry-after of a refusal is rounded as the code rounds it
(`Rounded`, `Milli` being a millisecond in units of the clock). Requests without a token change
nothing and are left out.

### `Foundation`, `Training`, `Tokenizer`

`Verdict` is `FoundationGuard.audit`, a URL being the kind of host it names. `Training` is
`train()` from its first reading of `latest.json` to the finished row, in several processes, one
action per write. A file that is being written is torn until it is whole, and `sole` remembers
whether its writer was alone. `Remaining` and `Resume` are `train_status` and the operator who runs
the command it prints, at once. Weights are left out; a loss is named by the step that had it.

## What the runs check

| Run | Bounds | Properties |
|---|---|---|
| `agent` | plans of ≤ 4 steps of 7 kinds, 3 steps, 2 tool calls, 1 failure | `TypeOK`, `Refinement` (of `GatedRun`), `FailureBudget`, `RaisedOnlyAfterAbort`, `ReturnedStatusIsState`, `FinalStateIsFinal`, `RunEnds` |
| `agent_abort` (violation) | plans of ≤ 1 step | `AbortedRunEnds` |
| `agent_evidence` (violation) | plans of ≤ 1 step | `ReturnedRunIsRecorded` |
| `loyal` | every predictive plan for 3 goals over 5 tools, the phone's verdicts, 5 steps, 3 tool calls, 1 failure | `TypeOK`, `DevotedRefinement` (of `GatedRun`), `RaisedOnlyForHuman`, `ReturnedRunIsRemembered`, `TrustIsContingent`, `MaterialIsDisclosed`, `LoyalRunEnds` |
| `lucy` | 2 sessions, 2 pieces of guidance, 3 runs, 1 approval, a buffer of 2 | `TypeOK`, `ConfidenceIsEarned`, `DreamsMatchTraining`, `LivedOnce`, `ReviewShowsWhatItJudges`, `LedgerAgrees`, `BackToPrompt` |
| `gateway` | 2 clients, 4 requests, 2 per window of 3 ticks of half a millisecond, time up to 4, 1 task, 2 starts | `LimiterKeepsItsWord`, `ChatsAreGated` |
| `mcp` | 2 agent runs, 5 requests, 2 unread lines | `AnswersOwnRequest`, `OneOutstanding`, `WaiterIsRegistered`, `CallsEnd` |
| `mcp_escape` (violation) | 1 agent run, 4 requests, a server that does not die | `CallsNeverRaise` |
| `bridge` | 1 status, 2 commands, batches of 2, fallback after 1 failure, 1 fault | `NothingKeptIsLost`, `LossesAreFaults`, `DuplicatesAreFaults`, `FlushedInOrder`, `FlushesOnReconnect`, `ListenerReconnects` |
| `bridge_refused` (violation) | 2 statuses, one of them refused | `FlushesOnReconnect` |
| `memory` | 2 coroutines, 2 records, 2 provenances, 1 crash, any number of cancelled creations; coroutines and ids symmetric | `TrustFollowsProvenance`, `ReportedIsDurable`, `DeletedStaysDeleted`, `QuietRecordsAreIndexed` |
| `training` | 2 trainers, 2 runs, a target of 4 steps, a snapshot every 2; trainers and runs symmetric | `DoneIsWhole`, `SmoothSchedule`, `TracedBack` |

Why the bounds are enough. *Agent*: every budget can be reached and exceeded within a plan of four
steps (three steps and a fourth refused, two calls and a third refused, one failure and a second);
an answer can be carried over from one question to the next; abort can fall at each suspension.
*Loyal*: five steps let the gate inject into plans with and without room, where the stop is cut off
and where it is not; one failure is exceeded by a second; the goals are one with a model, one with
git and one that is exclusive. *Lucy*: three runs overflow a buffer of two, fall into two nights,
and lower trust by nothing, once and twice; two appends can be under way when a command ends or the
process does; the second session finds what the first left. *Gateway*: two admissions fill the
window, a third request is refused and a fourth comes when it was told to; with two ticks to the
millisecond and a window of three, what a refusal names is rounded down, up, and not at all; the
requests cover an
unread, a warm and a critical temperature, sizes read, declared and unknown. *MCP*: five requests
are the two of discovery and three calls, so that one call can time out, be answered late, and two
others follow it in the lock's queue; two unread lines let a late answer stand before the awaited
one. *Bridge*: two rows in one queue give order, partial batches and a row queued while a batch is
under way; one fault at any point is one lost answer, failed statement or restart. The counter of
the listener's failures stops at the threshold, the only value it is compared with; with a
threshold of one both transports are reached from either. *Memory*: the
statements of an operation on one record disturb only those of another on the same record or in the
same transaction, for which two coroutines and two records (one superseding the other) suffice; a
policy distinguishes provenances only by their being acceptable by themselves. *Training*: a run of
four steps has a snapshot with steps left behind it; the second run resumes the first, or runs
beside it, reaps its row and writes the same file. The theorems below lift all these bounds for the
safety properties; only the temporal ones rest on them.

What the passing runs show, beyond single functions: whatever the operator does and whenever, a tool
that needs consent runs only after a yes to that step (a yes followed by a no before the run wakes
is a no); the loyal runtime keeps that promise with a devoted plan for a yes, and leaves `run()`
with an exception where only a human could go on; however guidance, nights and reviews are mixed,
trust is bounded by what was approved and told, no experience is slept on twice, and the numbers of
an open review are those an approval goes by unless a night came between; no client gets more
through the gateway than its window allows, and half a millisecond after the moment a refusal named
it is let through; the phone's model answers a chat only on a recorded decision that rests on a
temperature which was read, though perhaps not just now; a timed out MCP call never gets its answer
delivered to the next one, and a caller that gives up while queued does not let two requests onto
the wire; a message the bridge kept survives any one fault, is delivered at most once more per
fault, and what is lost before it is kept is counted against the faults; two reviews, deletions or
supersessions of one record, cut into each other at any statement, neither revive it nor take it out
of the index, although one of them may raise; a training run that is DONE has its own file whole
whoever else was killed, reaped or writing, and a resumed one goes on along the same schedule.

`FlushesOnReconnect` holds in the run `bridge` only because nothing is refused there, and
`TrustFollowsProvenance` is about records that came in through `create`. `QuietRecordsAreIndexed`
leaves out the records in `cut`: a row whose index entry was still to be written may be committed by
another coroutine, and after a crash, or once a timeout has cancelled its `create()`, the entry is
missing for good. It says that this is the only way: neither interleaved writers, nor one that
fails, nor a crash anywhere else costs a record its entry. `ListenerReconnects` holds while the
fallback is served, and excuses an SSE request that is never answered. `ChatsAreGated` is about the
temperature and the class of the model; for THROTTLE the memory and the provider's health are not
looked at, as the code does not, and the reading may be as old as the record took to write. The
audit's self-check runs the model outside this gate. `ReviewShowsWhatItJudges` excuses a night
inside an open review, after which the numbers shown do stand for other insights. A property is
evidence for a hazard only in the component it is about: `PROJECT.json` names none that merely
shares its name with another's.

### Fairness

*Agent*: weak fairness of the blocks the event loop carries out, of `asyncio.wait_for`, and of tools
that run without a timeout, which are lookups in local stores. None of the operator, nor of a tool
under a timeout. So `RunEnds` is: the run is over, or waits for an answer not given. That lookups
return is assumed and not shown: nothing in the code bounds them. *Loyal*: the same; there is no
operator to wait for, but one more wait without a limit, the reflection (`Reflect`), which the local
provider computes without suspending, 24 tokens at most; of a provider that suspends and never
returns `LoyalRunEnds` would not hold. *Lucy*: weak fairness of the appends, of the phases of a
night, of `close()`, of a run's end (`LoyalRunEnds`, with what it assumes) and of the provider's
answer to a chat. The last is an assumption as well: the `wait_for` around the chat
(`conversation.py:155`) cannot interrupt the local provider, whose coroutine never suspends, so the
prompt comes back because the provider makes a bounded number of tokens. None of the human or of a
process that is gone. *Gateway*: none; only safety is stated. *MCP*: weak fairness of each caller's
own steps and of its timeout; none of the server or of the read loop. *Bridge*: weak fairness of the
flusher and the handlers, whose posts and pauses are bounded, and of the listener in opening a
WebSocket and in sending an SSE request; none of the answer to the latter, which has no time limit
(`bridge.py:427`), nor of the end of a connection, nor of the peers, whose staying reachable is an
assumption inside the properties (`<>[]up[d]`). *Memory*, *Training*: none, as only safety is
stated; a trainer may stop anywhere.

## What is proved

Every invariant and every action property of the passing runs, and both refinements, are theorems
for all values of the constants. The theorems rest on the named assumptions of the modules they
are about and on nothing else, with two hypotheses that are written out where they are used and
explained below: `SendsNoRequests` and `PlannersStop`.

| Module | Theorem | States |
|---|---|---|
| `AgentRuntime_proofs` | `TypeCorrect`, `RaiseSafety`, `StatusSafety`, `FailureSafety`, `FinalSafety` | `TypeOK`, `RaisedOnlyAfterAbort`, `ReturnedStatusIsState`, `FailureBudget`, `FinalStateIsFinal` |
| | `KeepsPromise` | `Refinement`: `AgentRuntime` implements `GatedRun` |
| | `SteadyPolicy`, `PhoneAsksFirst`, `ScopedFiles`, `ConfinedToRoots`, `UnattendedIsHarmless` | what the policy answers, and what the builtin tools behind it change, for every policy and argument |
| | `OnlyAllowedTools`, `ListsAreFinal`, `MCPAsksFirst` | the allowlist, for every configuration and whatever servers answer |
| `LoyalRuntime_proofs` | `LoyalTypeCorrect`, `LoyalRaiseSafety`, `LoyalMemory`, `LoyalTrust` | `TypeOK`, `RaisedOnlyForHuman`, `ReturnedRunIsRemembered`, `TrustIsContingent` |
| | `LoyalKeepsPromise` | `DevotedRefinement`: `LoyalRuntime` implements `GatedRun` |
| | `MandatorySteps`, `LoyalPlansDisclose` | whatever the planner returned, the plan that is carried out has a stop and a verification and conceals no material step, at any length |
| | `LoyalRunsDisclose` (`PlannersStop`), `PredictivePlansEnd`, `PredictiveRunsDisclose` | `MaterialIsDisclosed`; that the predictive planner satisfies the hypothesis; so its runs disclose |
| `MCPSession_proofs` | `OneRequestIsOutstanding`, `WaitersAreRegistered` | `OneOutstanding`, `WaiterIsRegistered` |
| | `CallsAnswerTheirOwnRequest` (`SendsNoRequests`) | `AnswersOwnRequest` |
| `BridgeAndTraining_proofs` | `NothingKeptIsEverLost`, `OnlyFaultsLose`, `DuplicatesAreOnlyFaults`, `QueuesAreFlushedInOrder` | `NothingKeptIsLost`, `LossesAreFaults`, `DuplicatesAreFaults`, `FlushedInOrder` |
| | `TrainingIsWhole`, `TrainingIsSmooth`, `TrainingIsTraced`, `ResumedNeverPasses` | `DoneIsWhole`, `SmoothSchedule`, `TracedBack`, `ResumedGradesFail`, for any number of trainers and runs, any target and interval |
| `MemoryStore_proofs` | `TrustIsNeverTaken`, `DoneIsDurable`, `DeletionIsFinal`, `QuietRecordsAreFound` | `TrustFollowsProvenance`, `ReportedIsDurable`, `DeletedStaysDeleted`, `QuietRecordsAreIndexed` |
| `Lucy_proofs` | `SessionTypes`, `TrustIsEarned`, `DreamsAreOfTheNight`, `NothingIsSleptOnTwice`, `ReviewsJudgeWhatTheyShow`, `LedgerKeepsUp` | `TypeOK`, `ConfidenceIsEarned`, `DreamsMatchTraining`, `LivedOnce`, `ReviewShowsWhatItJudges`, `LedgerAgrees` |
| | `SoundFoundation`, `HostlessGoesUnseen` | what SOUND means, and what it does not see |
| `Gateway_proofs` | `ChatInference`, `LimiterIsTrue` | `ChatsAreGated`, `LimiterKeepsItsWord`, for any number of clients, requests and processes |
| | `PhoneInference`, `RemoteNeedsLocal`, `OnlyRegistrationRevives`, `ChosenHost`, `NoBlindHost` | what each decision of the router and the choice of a host implies |
| `Selection_proofs` | lemmas only | `Without` keeps the order, drops what it is told to and nothing else |

None of the invariants is inductive; each proof module begins with the one that is, and has a lemma
per action (or kind of action) for its being preserved.

*Agent.* What keeps `transition()` from raising is that each
`pc` goes with one `state` unless the operator aborted; what keeps consent honest is that a
yes that is still in `decision` was given for the step the run is at. The inductive invariant
is the conjunction of four parts, one lemma each for being preserved (`NextType`,
`NextControl`, `NextConsent`, `NextBudget`) and assembled in `Invariance`: the types; which
states a control point may have; that past the gate a step that needs consent has it, and that
the steps started lie before the current one and are at most as many as the calls counted; and
where `failures` may exceed its limit. `VerdictsAssumption` is needed for the consent: if the
policy could answer ASK at one time and ALLOW at another for one tool, a needing step could
pass the gate unasked. `KeepsPromise` maps `pc` to the phase, `started` to the effects and
`approvals` to the consent. `QuietStep` covers the actions that leave these alone, `Simulation` the
others; `NeedingFixed` says that the set of needing steps changes only when the plan is made.

*Loyal.* `IndInv` adds to the types which lifecycle state goes with which control point, that the
steps started lie before the current one and are at most as many as the calls, that past the
permission gate a step that needs a human is not reached unless the plan is devoted, and how often
trust may have been lowered at each point. That the gate's insertions keep a plan a plan is
`GuardedPlan`, which follows the steps through every insertion. A run discloses because the gate
inserts before the stop, and the steps before the stop are all performed; so it takes a plan whose
stop is its last step, or that was cut off at the step limit: `PlannersStop`. The hypothesis is
about the planner, a constant of the module, and a stop in the middle would break the property:
evidence inserted before it says nothing about the material steps behind it. `PredictivePlansEnd`
discharges it for the planner the runs use, through its ranking, its compliance steps and its
fallback to the rules.

*MCP.* `LockInv`: exactly the callers in the stages queued, waiting and answered stand in the lock's
queue, once each, and who is past the lock stands at its head; so two cannot be. `Registered`: no id
in use is beyond `lastId`, so a new one is nobody's. `Answers` carries the correlation: every
message that has an id answers the request of that id, and so does what a future was given. It is
inductive only if the server never uses an id in a message that is not an answer; `SendsNoRequests`
says so of the constant `Chatter`. The code does not exclude it (`transport.py:96`), which is why it
is a hypothesis and not an assumption of the model; the runs' servers satisfy it.

*Bridge.* The batch under way is tied to the queue: its delivered rows are the oldest rows of the
queue and the rest of it are the rows right behind them (`Round`), every row is of a message that
was queued and has no other row (`Rows`), and a message that may still be posted was taken at most
as often as there were faults (`Counts`). The listener has one command in hand at a time, so a fault
loses one at most (`Losses`). The removal of the delivered rows is then the removal of
a front, by `WithoutFront` of `Selection_proofs`.

*Memory.* The invariant is about the statements the coroutines have left: a pending insertion is of
an honest record under an id nobody else has (`Inserts`), what is reviewed, updated or removed was
inserted at some time (`Targets`), a status of ACCEPTED is on its way only with a review before it
or to a record that may be accepted (`Reviewed`), what is taken out of the index is put back at once
or is deleted (`Reindexes`), and a coroutine about to write holds a record whose source is that of
the row, whatever was written there since (`Read`). A row has its entry, or a coroutine that still
has to write it, or is in `cut`, and the same is true on disk of what `cut` was there (`Indexed`). A
lemma per operation says that its statements are of that shape; `Advance`, that going past the first
statement keeps it, which leaves one lemma per kind of statement.

*Session.* Four invariants, of which two rest on another. *Ledger*: records get their numbers in
the order of the guidance, so what is asked for is newer than any file, what is filed newer than
its row. *Nights*: the buffer rises, its capacity bounds it, a night has emptied it before anything
else happens, and between training and dream the adapters are what is in hand. The hard case of
`LivedOnce` is the experience a full buffer pushes out: the `Capacity` that stay are newer, and a
rising sequence has as many elements as it is long (`RisingCounts`). *Review* and *bond* then need
only what a night ends with: dreams come from what was trained on, and a readiness to offer from a
dream.

*Gateway.* A chat which is past its routing decision holds a route the
router allows for its request, and one which is inferring is on record; `PhoneInference` turns
the route into `PhoneMayRun`. The limiter: the hits kept are the last ones admitted, those admitted
before them have left the window, admissions come in order and `MaxRequests` apart they are a window
apart, and a time that was named is that of the oldest hit leaving, rounded by half a millisecond
at most (`Limiter`).

*Training.* `TrainingInv` is: runs of live trainers are apart and their rows exist exactly while
they are listed; a trainer's steps left and done add up to the target; the file of a run is whole
with its best loss once its trainer is past writing it, which is what makes `Finish` safe even for
a row that was reaped; and every whole checkpoint names a row. `Remaining` is the reason the
schedule is one: what was counted and what is left add up to the target at each resume. The
theorems share a module with those of the bridge; the two have no variable in common.

*Selection.* `Without` is a recursive function. Its properties are proved without induction over
data: that the function exists up to each length, and that it selects in order, by the least length
at which it would not (`LeastNumber`).

Only model-checked: what is temporal (`RunEnds`, `LoyalRunEnds`, `CallsEnd`,
`FlushesOnReconnect`, `ListenerReconnects`, `BackToPrompt`), since the prover
handles neither fairness nor ENABLED; and the bounded checks of the tokenizer, whose functions are
recursive over data. The four runs with a violation refute and prove nothing.

## Where the code and its texts disagree

Four of these are runs whose property TLC finds violated (`findings` in `PROJECT.json`):

- a run aborted while it waits for approval hangs (`runtime.py:239`);
- no run leaves an evidence record (`runtime.py:330` against `evidence/schema.py:52`);
- after the MCP read loop stopped, closing lets `CancelledError` out of a call
  (`mcp/transport.py:193` against `mcp/__init__.py:270`);
- a row refused by its destination blocks its queue (`bridge.py:395`).

The others were met while modelling; the models carry them where they have the state.

*Memory.* A record that supersedes another is stored as its maker left it, so one with
`MemoryRecord`'s defaults is persisted as accepted and unverified (`store.py:211` against
`store.py:140-141`); `NeverPersistedAsAccepted` states the text's claim, and TLC refutes it
when it is added to the invariants of `MCMemoryStore.cfg`. The executor's timeout cancels `create()`
between a row and its index entry (`executor.py:60`, `store.py:117-128`); the next commit on the
shared connection keeps a record whose proposal was reported as timed out, and `search()` never
finds it.

*Agent.* The result of a run with an empty plan is the coroutine of `_finish`, never awaited
(`runtime.py:191`). A lookup is awaited without a limit, although `runtime.py:1` calls the runtime
bounded.

*Bridge.* `health()` never answers "stale" (`bridge.py:335-357`) though `bridge.yaml:30` documents
it. `id:` and `retry:` lines of an event stream spoil the event's JSON (`bridge.py:508-509`). After
`fallback_after_failures` misses the listener tries the WebSocket and nothing else
(`bridge.py:410-414`), so a Nexus with SSE alone, the transport `bridge.py:13` names first, is not
reached again until a restart. An SSE request that is accepted and never answered holds the listener
for ever (`total=None`, 427).

*Loyal runtime and sleep.* `create_loyal_runtime` (`loyal_runtime.py:700-716`) gives each sleep a
fresh adapter manager, so a night's file replaces what earlier ones trained, and no run loads it,
although `src/README.md:136-139` speaks of learning across nights. The file itself is not written
atomically (`lora.py:248`). A tool that would need a human makes `run()` raise `InvalidTransition`,
DENIED being no state a RUNNING run may go to (`loyal_runtime.py:460`), so no record is left. The
final record of a run replaces that of a violation in it, the guidance of a dream's approval has no
run id, and a chat's ids begin anew in each session, although `loyal_runtime.py:6` calls the ledger
immutable. An earlier FLAG hides ego language from the verifier. The reflection on a completed run
awaits its provider without a timeout (`loyal_runtime.py:542`). The predictive planner cuts off its
own stop when the plan is full, and the injected verification and evidence then come behind the
injected stop.

*Terminal session.* Guidance right before the exit can lose its row though `core.py:335` calls it
sacred. "approve 7" is confirmed for a dream that does not exist; approve and modify go by the
core's insights, reject by the package. `morning_review.py:15` documents "approve insight 1", which
the parser refuses. The mood stays creative when a night leaves no insights. The synchronous
`run_morning_review_cli` raises after trust rose. The ten seconds a chat is given
(`conversation.py:155`) cannot cut off the local model, which never suspends; and a night inside an
open review makes its numbers stand for other insights.

*Gateway and routing.* A chat takes THROTTLE for ALLOW (`server.py:226-255`), a stream for an error
(307); THROTTLE is answered before memory and provider are looked at (`policy.py:292`). A remote
route needs local inference to be enabled (`policy.py:208` against `model_router.py:133`), and an
empty `target_host` gets past the phone gate. An entry of the configuration that says REGISTERED is
taken at its word, which `hosts.py:3` excludes, and no code registers a host otherwise.
`Retry-After` is cut to whole seconds (`server.py:64`) and `retry_after` rounded to milliseconds
(`rate_limit.py:35`), so who comes back at the very moment named may be refused again.
`/v1/foundation` and `/v1/lucy/introspect` run the model (`audit.py:225`) without a route, a
temperature or a record. The status of a submitted run whose plan was empty cannot be reported
(`runtime.py:191`). A submission with limits is a 500, `max_requests` 0 an `IndexError`
(`rate_limit.py:33`), a negative evidence limit is taken (403-409). The phone client reports
"authenticated" from an endpoint that needs no token.

*Foundation and tools.* The audit passes a URL without a scheme as no cloud endpoint
(`audit.py:5`; theorem `HostlessGoesUnseen`), a malformed one raises out of it, and WARN is still
SOUND. `files.read_scoped` refuses as binary a long text cut inside a character
(`builtin/core.py:214-218`); git's output is awaited outside its timeout (266-277). The permission
class configured for an MCP server has no effect; for a server id that is configured twice the
first entry's rules are used.

*Training.* A kill while `latest.json` is written tears it (`train.py:87`), so the run loses
everything, not "at most that many steps" (126-129); a loss that is not finite skips the snapshot
too. A second trainer reaps a run in flight for more than an hour, which `lineage.py:106-108`
excludes; the row turns DONE again at the end. `latest.json` is read twice on resume. The final
save puts the best weights under the last step's count. The ledger counts a run's own steps and
the checkpoint all of them, so a resumed run that was completed is always graded FAIL (theorem
`ResumedNeverPasses`), and so is one whose steps are not a multiple of a tenth of them.

## What is not modelled

- Agent: exceptions a planner or a path outside the usual may raise; output truncation.
- Loyal runtime: `GuidanceInterface` (`runtime/guidance.py`), which only its tests construct.
- MCP: the HTTP transport, audit records, a second open after a close in time (`MCPTools` has its
  effect on registration), `fail_fast`, requests of the server's own (they may collide with pending
  ids; the message exists in the model as `ServerRequest` and is left out of the runs).
- Bridge: the heartbeat and `health()`, which set and read flags nothing else depends on, parsing,
  configuration, rows of a wrong kind, the self-test.
- Memory: the text of records and what a query matches; reading operations; the LIKE fallback;
  an error of the database other than the second index entry.
- Evidence: queries and the serialisation of a record.
- Sleep: replay, dreams and the autoencoder as numerics.
- Gateway: payloads, token comparison, the formatting of answers; a stream is an answer, as no
  local provider streams.
- Wiring, configuration, phone client, capability and runtime reports: thin I/O and formatting.
- The transformer, the brain modules and their inference: floating-point numerics, whose results
  TLC cannot compute; `eval_checkpoint.py` and `ecosystem_guard.py`: one-shot reports on files.

## What is left

1. The refinement of further abstract specifications: what a queue with redelivery promises for
   `Bridge`, and what a call promises for `MCPSession`.
2. The MCP transport over HTTP, and a second `open` after `close` in time.
3. `health()` of the bridge with the flags it reads.
