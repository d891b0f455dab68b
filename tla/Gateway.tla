------------------------------ MODULE Gateway -------------------------------
(***************************************************************************)
(* The HTTP gateway of lucy_edge: its rate limiter, its handlers, and the  *)
(* runs it starts and lets clients ask about.  A client has one request on *)
(* its way at a time; requests without a valid token are answered before   *)
(* anything is counted or changed and are left out.                        *)
(*                                                                         *)
(*   now       time.monotonic(), in ticks of which a millisecond has Milli  *)
(*   hits      RateLimiter._hits: admissions it still counts, by client    *)
(*   calls     what each client's handler is doing, and for a chat the     *)
(*             request, the snapshot it rests on and its route             *)
(*   recorded  the clients whose chat has its routing decision on record   *)
(*   tasks     TASKS: what can be asked about the runs submitted so far    *)
(*   admitted, promised     history: every admission since the start, and  *)
(*             when the latest refusal said a retry would pass             *)
(*   served, starts         how many requests and processes there were     *)
(***************************************************************************)
EXTENDS Routing, Sequences, FiniteSets, Selection

CONSTANTS
    Clients,                 \* remote addresses
    MaxRequests, Window,     \* gateway.max_requests_per_window, rate_window_seconds
    Milli,                   \* the ticks of a millisecond
    Config,                  \* the routing and phone sections of the configuration
    Requests,                \* what may be asked of /v1/chat, with the snapshot
                             \* that telemetry then reads
    Local,                   \* providers that run a model on this device
    MaxTime, MaxServed, MaxTasks, MaxStarts      \* bounds of the model

ASSUME GatewayAssumption ==
    /\ {MaxRequests, Window, Milli} \subseteq Nat \ {0}
    /\ {MaxTime, MaxServed, MaxTasks, MaxStarts} \subseteq Nat \ {0}
    /\ "mock" \notin Local
    /\ \A request \in Requests :
          /\ request.role = "PHONE"
          /\ {SizeOf(request.model, Config.declared), request.snapshot.temp,
              request.snapshot.ram} \subseteq Int \cup {Unread}

VARIABLES now, hits, calls, recorded, tasks, admitted, promised,
          served, starts

limiter == <<hits, admitted, promised>>
handlers == <<calls, recorded>>
vars == <<now, limiter, handlers, tasks, served, starts>>

Never == -1
Idle == [at |-> "idle"]

(* The providers that are registered: the mock only where it is allowed.    *)
Providers == Local \cup (IF Config.mock THEN {"mock"} ELSE {})

(* A process that has just been started remembers no admission and no run.  *)
NoHits == [c \in Clients |-> <<>>]
NoPromise == [c \in Clients |-> Never]
NoCalls == [c \in Clients |-> Idle]

Init ==
    /\ hits = NoHits /\ admitted = NoHits /\ promised = NoPromise
    /\ calls = NoCalls /\ recorded = {} /\ tasks = <<>>
    /\ now = 0 /\ served = 0 /\ starts = 1

-----------------------------------------------------------------------------
(* Faulty variant of Pruned: it still counts what is exactly a window old.   *)
PrunedLate(c) == Without(hits[c], 0..(now - Window - 1))

(* RateLimiter.allow(), the last thing _guard does.                         *)
Pruned(c) == Without(hits[c], 0..(now - Window))

Allowed(c) == Len(Pruned(c)) < MaxRequests

(* round(x, 3): to whole milliseconds, a half to the even one.               *)
Rounded(x) ==
    LET down == Milli * (x \div Milli)
        rest == x - down IN
    IF 2 * rest < Milli \/ (2 * rest = Milli /\ (x \div Milli) % 2 = 0)
    THEN down
    ELSE down + Milli

(* The moment a refusal names, in the body of the 429: rounded, it may come  *)
(* before the oldest admission is out of the window.                        *)
RetryAt(c) == now + Rounded(Window - (now - Head(Pruned(c))))

Limit(c) ==
    IF Allowed(c)
    THEN /\ hits' = [hits EXCEPT ![c] = Append(Pruned(c), now)]
         /\ admitted' = [admitted EXCEPT ![c] = Append(@, now)]
         /\ promised' = [promised EXCEPT ![c] = Never]
    ELSE /\ hits' = [hits EXCEPT ![c] = Pruned(c)]
         /\ promised' = [promised EXCEPT ![c] = RetryAt(c)]
         /\ UNCHANGED admitted

(* A model of this device is run without an await, for a chat as for the    *)
(* self-check: meanwhile the loop, and every other call and run, stands still. *)
LoopIsFree == \A c \in Clients : calls[c].at \notin {"inferring", "checking"}

Elsewhere == UNCHANGED <<now, limiter, tasks, served, starts>>

(* A request passes the guard and its body is awaited, or it is answered 429. *)
Guard(c) ==
    /\ LoopIsFree /\ calls[c] = Idle /\ served < MaxServed
    /\ served' = served + 1
    /\ Limit(c)
    /\ calls' = [calls EXCEPT ![c] = IF Allowed(c) THEN [at |-> "body"] ELSE Idle]
    /\ UNCHANGED <<now, recorded, tasks, starts>>

Answers(c) ==
    /\ calls' = [calls EXCEPT ![c] = Idle]
    /\ recorded' = recorded \ {c}

(* An endpoint that only reads, a body that is not valid (422), a stream:   *)
(* none of the local providers streams, and the mock runs no model.         *)
Reply(c) == LoopIsFree /\ calls[c].at = "body" /\ Answers(c) /\ Elsewhere

(* /v1/foundation and /v1/lucy/introspect make the audit: the trained model   *)
(* of a local provider makes a forward pass over its probe, to see whether   *)
(* the weights reproduce the loss on record.  This is neither routed nor     *)
(* recorded, and no temperature is read for it.                              *)
SelfCheck(c) ==
    /\ LoopIsFree /\ calls[c].at = "body" /\ Local # {}
    /\ calls' = [calls EXCEPT ![c].at = "checking"]
    /\ UNCHANGED recorded /\ Elsewhere

SelfChecked(c) == calls[c].at = "checking" /\ Answers(c) /\ Elsewhere

(* /v1/chat takes its snapshot and is routed: the health of a provider and  *)
(* the registry, in which nobody registers a host, are read at once.  Then  *)
(* the decision is awaited to be on record.                                 *)
Chat(c, online, request) ==
    /\ LoopIsFree /\ calls[c].at = "body"
    /\ \E route \in Routes(Config, request, online \cap Providers, <<>>) :
          calls' = [calls EXCEPT ![c] =
                       [at |-> "recording", request |-> request, route |-> route]]
    /\ UNCHANGED recorded /\ Elsewhere

(* THROTTLE lets a model run as ALLOW does.                                 *)
RunsHere(call) ==
    /\ call.route.decision \in {"ALLOW", "THROTTLE"}
    /\ call.request.provider \in Local

(* The decision is on record: the model is run, or the call is answered with *)
(* what the mock says, or why there is no answer.                            *)
Recorded(c) ==
    /\ LoopIsFree /\ calls[c].at = "recording"
    /\ IF RunsHere(calls[c])
       THEN /\ calls' = [calls EXCEPT ![c].at = "inferring"]
            /\ recorded' = recorded \cup {c}
       ELSE Answers(c)
    /\ Elsewhere

(* Faulty variant of RecordFails: the decision is acted on all the same.     *)
RecordFailsUnseen(c) ==
    /\ LoopIsFree /\ calls[c].at = "recording"
    /\ IF RunsHere(calls[c])
       THEN calls' = [calls EXCEPT ![c].at = "inferring"] /\ UNCHANGED recorded
       ELSE Answers(c)
    /\ Elsewhere

(* record_routing raises, and the call with it (500).                       *)
RecordFails(c) == LoopIsFree /\ calls[c].at = "recording" /\ Answers(c) /\ Elsewhere

(* The model has made its tokens, or raised.                                *)
Inferred(c) == calls[c].at = "inferring" /\ Answers(c) /\ Elsewhere

-----------------------------------------------------------------------------
(* A goal makes a run of its own task.  A body with limits does not get so  *)
(* far: they are handed on as a mapping, whose fields are then asked for    *)
(* (500), as by any Reply.                                                  *)
Submit(c) ==
    /\ LoopIsFree /\ calls[c].at = "body" /\ Len(tasks) < MaxTasks
    /\ tasks' = Append(tasks, "running")
    /\ Answers(c)
    /\ UNCHANGED <<now, limiter, served, starts>>

Becomes(t, status) ==
    /\ LoopIsFree /\ tasks[t] = "running"
    /\ tasks' = [tasks EXCEPT ![t] = status]
    /\ UNCHANGED <<now, limiter, handlers, served, starts>>

(* The run asks for an approval, which no endpoint can give.                *)
Asks(t) == Becomes(t, "WAITING_FOR_APPROVAL")

(* What run() returned is kept - of a run without a step a coroutine that no *)
(* status can be made of (runtime.py:191).                                  *)
RunReturns(t) == Becomes(t, "result")

RunRaises(t) == Becomes(t, "error")

(* cleanup() answers no one any more; what was recorded stays.              *)
Restart ==
    /\ starts < MaxStarts
    /\ starts' = starts + 1
    /\ hits' = NoHits /\ admitted' = NoHits /\ promised' = NoPromise
    /\ calls' = NoCalls /\ recorded' = {} /\ tasks' = <<>>
    /\ UNCHANGED <<now, served>>

Tick ==
    /\ now < MaxTime
    /\ now' = now + 1
    /\ UNCHANGED <<limiter, handlers, tasks, served, starts>>

-----------------------------------------------------------------------------
RunGoesOn(t) == RunReturns(t) \/ RunRaises(t) \/ Asks(t)

Next ==
    \/ \E c \in Clients :
          \/ Guard(c) \/ Reply(c) \/ Submit(c)
          \/ SelfCheck(c) \/ SelfChecked(c)
          \/ Recorded(c) \/ RecordFails(c) \/ Inferred(c)
          \/ \E online \in SUBSET Local, request \in Requests :
                Chat(c, online \cup {"mock"}, request)
    \/ \E t \in DOMAIN tasks : RunGoesOn(t)
    \/ Restart \/ Tick

Spec == Init /\ [][Next]_vars

-----------------------------------------------------------------------------
(* No client is admitted more than MaxRequests times within one window; one *)
(* that is refused has been admitted that often within the window that ends *)
(* now; and half a millisecond after the moment that a refusal named in     *)
(* retry_after, if nothing was asked since, the next request passes.  At the *)
(* very moment it need not: what is named is rounded.                       *)
LimiterKeepsItsWord ==
    \A c \in Clients :
       /\ \A i \in 1..Len(admitted[c]) - MaxRequests :
             admitted[c][i + MaxRequests] - admitted[c][i] >= Window
       /\ ~Allowed(c) =>
             Cardinality({i \in DOMAIN admitted[c] : admitted[c][i] > now - Window})
                 = MaxRequests
       /\ promised[c] # Never /\ 2 * (now - promised[c]) >= Milli => Allowed(c)

(* A model of this phone answers a chat only for a decision that is on       *)
(* record, and the decision rests on a temperature that was read and not     *)
(* critical, and on a model no larger than the operator lets the phone run.  *)
(* The reading is as old as the record took to write; and the self-check of  *)
(* an audit runs the model without any of this.                              *)
ChatsAreGated ==
    \A c \in Clients :
       calls[c].at = "inferring" => c \in recorded /\ PhoneMayRun(Config, calls[c].request)

=============================================================================
