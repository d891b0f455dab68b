------------------------------- MODULE Bridge -------------------------------
(***************************************************************************)
(* The relay between Lucy and the Nexus console, bridge.py.  Statuses go   *)
(* from Lucy to Nexus and commands from Nexus to Lucy; a message that      *)
(* cannot be posted is kept in a SQLite queue (outbox, inbox) and posted   *)
(* later by the flusher.                                                   *)
(*                                                                         *)
(* One event loop runs an HTTP handler per reported status, one listener,  *)
(* which handles one command at a time, and one flusher.  They interleave  *)
(* at the awaits: between reading a message, posting it, and writing it to *)
(* the queue; between reading a batch of rows, posting each, and deleting  *)
(* the posted ones.  The process may die anywhere; the queues survive.     *)
(*                                                                         *)
(*   up         the destination of a direction answers                     *)
(*   at         how far a message has come                                 *)
(*   queue      the rows of outbox and inbox, oldest first                 *)
(*   received   how often the destination has taken a message              *)
(*   turn, phase, batch, delivered     the flusher and its local variables *)
(*   fallback   Nexus serves its commands over WebSocket, too              *)
(*   link, misses, stream  the listener's connection, its `failures`, and  *)
(*              the commands sent on the connection and not yet read       *)
(*   flushed    history: the rows the flusher got through                  *)
(*   faults     how many lost answers, database errors and restarts        *)
(***************************************************************************)
EXTENDS Naturals, Sequences, FiniteSets, SequencesExt, FiniteSetsExt, Selection

CONSTANTS
    Statuses, Commands,     \* the messages of the two directions
    Addressed,              \* the commands for this node
    Refused,                \* the messages their destination answers with 4xx
    MaxBatch,               \* MAX_BATCH
    FallbackAfter,          \* nexus.fallback_after_failures (listener = auto)
    MaxFaults               \* bound on faults, for model checking

Dirs == {"status", "command"}

Messages == Statuses \cup Commands

Transports == {"sse", "ws"}

ASSUME MessagesAssumption ==
    /\ Statuses \cap Commands = {}
    /\ Addressed \subseteq Commands /\ Refused \subseteq Messages
ASSUME BoundsAssumption ==
    /\ MaxBatch \in Nat \ {0} /\ FallbackAfter \in Nat /\ MaxFaults \in Nat

VARIABLES up, at, queue, received, turn, phase, batch, delivered,
          fallback, link, misses, stream, flushed, faults

flusher == <<turn, phase, batch, delivered>>
listener == <<link, misses, stream>>
vars == <<up, fallback, at, queue, received, flusher, listener, flushed, faults>>

Dir(m) == IF m \in Statuses THEN "status" ELSE "command"

Busy == \E c \in Commands : at[c] \in {"inflight", "unsent"}

Fault == faults < MaxFaults /\ faults' = faults + 1

Init ==
    /\ up = [d \in Dirs |-> TRUE] /\ fallback = TRUE
    /\ at = [m \in Messages |-> "unborn"]
    /\ queue = [d \in Dirs |-> <<>>]
    /\ received = [m \in Messages |-> 0]
    /\ turn = "status" /\ phase = "fetch" /\ batch = <<>> /\ delivered = {}
    /\ link = "down" /\ misses = 0 /\ stream = <<>>
    /\ flushed = {} /\ faults = 0

-----------------------------------------------------------------------------
(* One HTTP post of m, _try_post_nexus or _try_dispatch_lucy: ok is what it  *)
(* returns.  An answer may be lost after the destination took the message.   *)
Post(m, ok) ==
    \/ /\ ok /\ up[Dir(m)] /\ m \notin Refused
       /\ received' = [received EXCEPT ![m] = @ + 1]
       /\ UNCHANGED faults
    \/ /\ ~ok /\ (~up[Dir(m)] \/ m \in Refused)
       /\ UNCHANGED <<received, faults>>
    \/ /\ ~ok /\ up[Dir(m)] /\ m \notin Refused
       /\ received' = [received EXCEPT ![m] = @ + 1]
       /\ Fault

(* report_status is called. *)
ReportStatus(s) ==
    /\ at[s] = "unborn"
    /\ at' = [at EXCEPT ![s] = "inflight"]
    /\ UNCHANGED <<up, fallback, queue, received, flusher, listener, flushed, faults>>

(* The listener reads the next command and drops it if it is not for us. *)
HandleCommand ==
    /\ stream # <<>> /\ ~Busy
    /\ stream' = Tail(stream)
    /\ at' = [at EXCEPT ![Head(stream)] =
                 IF Head(stream) \in Addressed THEN "inflight" ELSE "ignored"]
    /\ UNCHANGED <<up, fallback, queue, received, flusher, link, misses, flushed, faults>>

Forwarded(m) ==
    /\ at[m] = "inflight"
    /\ Post(m, TRUE)
    /\ at' = [at EXCEPT ![m] = "forwarded"]
    /\ UNCHANGED <<up, fallback, queue, flusher, listener, flushed>>

(* Faulty variant of NotForwarded: what cannot be posted is given up.        *)
NotForwardedGivesUp(m) ==
    /\ at[m] = "inflight"
    /\ Post(m, FALSE)
    /\ at' = [at EXCEPT ![m] = "lost"]
    /\ UNCHANGED <<up, fallback, queue, flusher, listener, flushed>>

NotForwarded(m) ==
    /\ at[m] = "inflight"
    /\ Post(m, FALSE)
    /\ at' = [at EXCEPT ![m] = "unsent"]
    /\ UNCHANGED <<up, fallback, queue, flusher, listener, flushed>>

Enqueue(m) ==
    /\ at[m] = "unsent"
    /\ queue' = [queue EXCEPT ![Dir(m)] = Append(@, m)]
    /\ at' = [at EXCEPT ![m] = "queued"]
    /\ UNCHANGED <<up, fallback, received, flusher, listener, flushed, faults>>

(* When the listener's connection ends, what was sent on it and not yet read *)
(* is missed.                                                               *)
Dropped == ToSet(stream)

(* The database refuses the row.  A status is answered with an error; for a *)
(* command the exception ends the listener's connection.                    *)

EnqueueFails(m) ==
    /\ at[m] = "unsent"
    /\ Fault
    /\ IF m \in Statuses
       THEN at' = [at EXCEPT ![m] = "lost"] /\ UNCHANGED listener
       ELSE /\ at' = [k \in Messages |->
                        IF k = m THEN "lost" ELSE IF k \in Dropped THEN "missed" ELSE at[k]]
            /\ link' = "down" /\ misses' = 0 /\ stream' = <<>>
    /\ UNCHANGED <<up, fallback, queue, received, flusher, flushed>>

-----------------------------------------------------------------------------
(* The flusher: outbox, then inbox, then wait for flush_interval.            *)

Fetch ==
    /\ phase = "fetch"
    /\ batch' = SubSeq(queue[turn], 1, Min({MaxBatch, Len(queue[turn])}))
    /\ delivered' = {}
    /\ phase' = "send"
    /\ UNCHANGED <<up, fallback, at, queue, received, turn, listener, flushed, faults>>

FlushSent ==
    /\ phase = "send" /\ batch # <<>>
    /\ Post(Head(batch), TRUE)
    /\ delivered' = delivered \cup {Head(batch)}
    /\ flushed' = flushed \cup {Head(batch)}
    /\ batch' = Tail(batch)
    /\ UNCHANGED <<up, fallback, at, queue, turn, phase, listener>>

(* Faulty variants of FlushNotSent: the rows behind a refused one are tried  *)
(* too, or the cycle ends without the delete.                                *)
FlushNotSentGoesOn ==
    /\ phase = "send" /\ batch # <<>>
    /\ Post(Head(batch), FALSE)
    /\ batch' = Tail(batch)
    /\ UNCHANGED <<up, fallback, at, queue, turn, phase, delivered, listener, flushed>>

FlushNotSentForgets ==
    /\ phase = "send" /\ batch # <<>>
    /\ Post(Head(batch), FALSE)
    /\ batch' = <<>> /\ phase' = "wait"
    /\ UNCHANGED <<up, fallback, at, queue, turn, delivered, listener, flushed>>

(* The first row that is not taken ends the round: those behind it wait. *)
FlushNotSent ==
    /\ phase = "send" /\ batch # <<>>
    /\ Post(Head(batch), FALSE)
    /\ batch' = <<>>
    /\ UNCHANGED <<up, fallback, at, queue, turn, phase, delivered, listener, flushed>>

NextTurn ==
    IF turn = "status"
    THEN turn' = "command" /\ phase' = "fetch"
    ELSE turn' = turn /\ phase' = "wait"

(* Faulty variant of Delete: as many of the oldest rows as were read. *)
DeleteBatch ==
    /\ phase = "send" /\ batch = <<>>
    /\ queue' = [queue EXCEPT ![turn] = SubSeq(@, MaxBatch + 1, Len(@))]
    /\ NextTurn
    /\ UNCHANGED <<up, fallback, at, received, batch, delivered, listener, flushed, faults>>

Delete ==
    /\ phase = "send" /\ batch = <<>>
    /\ queue' = [queue EXCEPT ![turn] = Without(@, delivered)]
    /\ NextTurn
    /\ UNCHANGED <<up, fallback, at, received, batch, delivered, listener, flushed, faults>>

(* The database fails under the flusher: the cycle is given up, and what was *)
(* posted in it is forgotten.                                                *)
FlushFails ==
    /\ phase = "fetch" \/ (phase = "send" /\ batch = <<>>)
    /\ Fault
    /\ phase' = "wait"
    /\ UNCHANGED <<up, fallback, at, queue, received, turn, batch, delivered, listener, flushed>>

(* Faulty variant of NextCycle: a cycle takes up where the last one ended. *)
NextCycleSameTurn ==
    /\ phase = "wait"
    /\ phase' = "fetch"
    /\ UNCHANGED <<up, fallback, at, queue, received, turn, batch, delivered, listener, flushed, faults>>

NextCycle ==
    /\ phase = "wait"
    /\ turn' = "status" /\ phase' = "fetch"
    /\ UNCHANGED <<up, fallback, at, queue, received, batch, delivered, listener, flushed,
                   faults>>

-----------------------------------------------------------------------------
(* The listener's connection.                                                *)

Transport == IF misses >= FallbackAfter THEN "ws" ELSE "sse"

Misses == misses' = Min({misses + 1, FallbackAfter})

Elsewhere == UNCHANGED <<up, fallback, at, queue, received, flusher, stream, flushed, faults>>

(* The SSE request is on its way.  To connect takes nexus.timeout at most, but *)
(* the answer is awaited without one.                                        *)
Ask ==
    /\ link = "down" /\ Transport = "sse" /\ up["status"]
    /\ link' = "asking"
    /\ UNCHANGED misses /\ Elsewhere

(* Nexus answers 200.  Whether it ever does, or whether it serves SSE at all, *)
(* is left open.                                                             *)
Answered ==
    /\ link = "asking" /\ up["status"]
    /\ link' = "sse"
    /\ UNCHANGED misses /\ Elsewhere

(* Faulty variant of NotAnswered: `connected` is set before the answer is     *)
(* looked at, and the failures start from nought.                            *)
NotAnsweredConnected ==
    /\ link = "asking"
    /\ link' = "down" /\ misses' = 0 /\ Elsewhere

(* Nexus answers anything else, or hangs up.  Only the comparison with the   *)
(* fallback threshold reads `failures`, so counting stops there.             *)
NotAnswered ==
    /\ link = "asking"
    /\ link' = "down" /\ Misses /\ Elsewhere

(* A WebSocket is open, or has failed to open, within open_timeout.          *)
Connect ==
    /\ link = "down" /\ Transport = "ws" /\ up["status"] /\ fallback
    /\ link' = "ws"
    /\ UNCHANGED misses /\ Elsewhere

NotReached == ~up["status"] \/ (Transport = "ws" /\ ~fallback)

ConnectFails ==
    /\ link = "down" /\ NotReached
    /\ Misses
    /\ UNCHANGED link /\ Elsewhere

(* The connection ends. *)
Disconnect ==
    /\ link \in Transports /\ ~Busy
    /\ link' = "down" /\ misses' = 0 /\ stream' = <<>>
    /\ at' = [m \in Messages |-> IF m \in Dropped THEN "missed" ELSE at[m]]
    /\ UNCHANGED <<up, fallback, queue, received, flusher, flushed, faults>>

-----------------------------------------------------------------------------
(* The world around the bridge.                                              *)

(* Nexus pushes a command to whoever is connected, and never again. *)
Emit(c) ==
    /\ at[c] = "unborn" /\ link \in Transports
    /\ at' = [at EXCEPT ![c] = "streamed"]
    /\ stream' = Append(stream, c)
    /\ UNCHANGED <<up, fallback, queue, received, flusher, link, misses, flushed, faults>>

Toggle(d) ==
    /\ up' = [up EXCEPT ![d] = ~@]
    /\ UNCHANGED <<fallback, at, queue, received, flusher, listener, flushed, faults>>

ToggleFallback ==
    /\ fallback' = ~fallback
    /\ UNCHANGED <<up, at, queue, received, flusher, listener, flushed, faults>>

(* The process dies or is stopped, and is started again: everything but the  *)
(* queues is gone.                                                           *)
Restart ==
    /\ Fault
    /\ at' = [m \in Messages |-> IF at[m] \in {"inflight", "unsent"} THEN "lost"
                                 ELSE IF m \in Dropped THEN "missed" ELSE at[m]]
    /\ turn' = "status" /\ phase' = "fetch" /\ batch' = <<>> /\ delivered' = {}
    /\ link' = "down" /\ misses' = 0 /\ stream' = <<>>
    /\ UNCHANGED <<up, fallback, queue, received, flushed>>

-----------------------------------------------------------------------------
Handle(m) == Forwarded(m) \/ NotForwarded(m) \/ Enqueue(m)

Flush == Fetch \/ FlushSent \/ FlushNotSent \/ Delete \/ NextCycle

Listen == Ask \/ Connect \/ ConnectFails

Next ==
    \/ \E s \in Statuses : ReportStatus(s)
    \/ \E c \in Commands : Emit(c)
    \/ \E m \in Messages : Handle(m) \/ EnqueueFails(m)
    \/ HandleCommand \/ Flush \/ FlushFails
    \/ Listen \/ Answered \/ NotAnswered \/ Disconnect
    \/ \E d \in Dirs : Toggle(d)
    \/ ToggleFallback \/ Restart

Spec == Init /\ [][Next]_vars

(* Every task of the event loop that can go on goes on: a post answers, fails *)
(* or times out, and so does the opening of a WebSocket; an SSE request is    *)
(* sent, or cannot be.  Nothing is assumed of Nexus, of Lucy, or of the       *)
(* connection between them: the answer to an SSE request, for which there is  *)
(* no time limit, may never come, and a connection never end.                 *)
Fairness ==
    /\ WF_vars(Flush) /\ WF_vars(Listen) /\ WF_vars(HandleCommand)
    /\ \A m \in Messages : WF_vars(Handle(m))

FairSpec == Spec /\ Fairness

-----------------------------------------------------------------------------
(* Properties.                                                               *)

(* "Queue buffer: ... survive Nexus/Lucy outages": a status Lucy was told is *)
(* forwarded or queued, and a command the listener is through with, has been *)
(* taken by its destination or is in its queue, whatever failed meanwhile.   *)
NothingKeptIsLost ==
    \A m \in Messages :
        /\ at[m] = "forwarded" => received[m] > 0
        /\ at[m] = "queued" => received[m] > 0 \/ m \in ToSet(queue[Dir(m)])

(* What the bridge has in hand is lost only by a fault: no status without    *)
(* one, and of the commands one per fault at most, for the listener has one  *)
(* in hand at a time.  (A command sent on a connection that ends before it   *)
(* is read is missed, with no fault of the bridge.)                          *)
LossesAreFaults ==
    /\ \A s \in Statuses : at[s] = "lost" => faults > 0
    /\ Cardinality({c \in Commands : at[c] = "lost"}) <= faults

(* A message is delivered a second time only because of a fault (an answer  *)
(* lost, a delete that failed, a restart), and once per fault at most.      *)
DuplicatesAreFaults == \A m \in Messages : received[m] <= 1 + faults

(* The flusher delivers a queue in the order it was written, across rounds, *)
(* failures and restarts: no row gets through before an older one that is   *)
(* still queued.                                                            *)
FlushedInOrder ==
    \A d \in Dirs : \A i, j \in DOMAIN queue[d] :
        i < j /\ queue[d][j] \in flushed => queue[d][i] \in flushed

(* "... and flush on reconnect": once the destination stays reachable, every *)
(* queued message it does not refuse is delivered.  (It is, as long as       *)
(* nothing in its queue is refused: the row that is refused stays the oldest *)
(* of its queue for ever, and keeps those behind it from being posted.)      *)
FlushesOnReconnect ==
    \A m \in Messages \ Refused :
        <>[]up[Dir(m)] => (at[m] = "queued" ~> received[m] > 0)

(* While Nexus stays reachable and serves the fallback transport, whatever   *)
(* becomes of SSE, the listener gets connected again and again, as far as it *)
(* can tell - unless an SSE request is never answered.  Where only SSE is    *)
(* served it need not: after enough failures the listener tries nothing but  *)
(* the fallback.                                                             *)
ListenerReconnects ==
    <>[](up["status"] /\ fallback) /\ []<>(link # "asking")
        => []<>(link \in Transports)
=============================================================================
