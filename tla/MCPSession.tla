------------------------------ MODULE MCPSession ------------------------------
(***************************************************************************)
(* One MCP server as the program uses it: MCPRegistry.open/call/close and  *)
(* MCPServerClient of lucy_edge/mcp/__init__.py over the StdioTransport of *)
(* lucy_edge/mcp/transport.py.  Discovery (initialize, then tools/list)    *)
(* and the agent runs that call a tool share one subprocess, one lock, one *)
(* table of pending requests and one task that reads the answers.          *)
(*                                                                         *)
(* Every call runs in a task of its own under MCPServerClient's wait_for,  *)
(* and interleaves with the others, with the read loop, with the server    *)
(* and with close() at its awaits: the start of that task, the start of    *)
(* the subprocess, the lock, and the future of the answer.                 *)
(*                                                                         *)
(*   reg          the registry: new, opening, open, closing, closed        *)
(*   initialized  MCPServerClient._initialized                             *)
(*   proc         self._process and the subprocess behind it               *)
(*   reader       the task _read_loop                                      *)
(*   lastId, pending   _id_counter and the keys of _pending                *)
(*   lock         the holder of _lock, then those who wait for it          *)
(*   stage        where a caller is                                        *)
(*   rid          the id of a caller's latest request                      *)
(*   reply        what its future was given                                *)
(*   outcome      how its latest call ended                                *)
(*   asked        requests the server has and has not answered             *)
(*   out          lines the server wrote and the reader has not read       *)
(***************************************************************************)
EXTENDS Naturals, Sequences, FiniteSets, Selection

CONSTANTS
    Agents,        \* agent runs that call tools of this server
    Discovery,     \* the caller of initialize and tools/list
    Chatter,       \* lines the server writes of its own accord
    MayDie,        \* whether the server may exit before close()
    MaxCalls,      \* bound on requests, for model checking
    MaxOut         \* bound on unread lines, for model checking

Callers == Agents \cup {Discovery}

ASSUME CallersAssumption == Discovery \notin Agents

(* A line of the server's output: its id, and the request it is the answer to. *)
Lines == [kind : {"message", "unreadable"}, id : Nat, of : Nat]

ASSUME ChatterAssumption == Chatter \subseteq Lines

ASSUME BoundsAssumption == MayDie \in BOOLEAN /\ MaxCalls \in Nat /\ MaxOut \in Nat

VARIABLES reg, initialized, proc, reader, lastId, pending, lock, stage, rid,
          reply, outcome, asked, out

client == <<reg, initialized>>
server == <<asked, out>>
calls == <<lastId, pending, lock, stage, rid, reply, outcome>>
vars == <<client, proc, reader, calls, server>>

(* A line of the server's output: an answer to request `of`, a message with *)
(* an id of the server's own, one without an id, or one the reader does not *)
(* survive (no JSON object, or longer than the stream's limit).             *)
Response(i) == [kind |-> "message", id |-> i, of |-> i]

ServerRequest(i) == [kind |-> "message", id |-> i, of |-> 0]

Notification == [kind |-> "message", id |-> 0, of |-> 0]

Unreadable == [kind |-> "unreadable", id |-> 0, of |-> 0]

Nothing == [result |-> "none", of |-> 0]

Failed == [result |-> "failed", of |-> 0]

Answered(of) == [result |-> "ok", of |-> of]

Escaped == [result |-> "escaped", of |-> 0]

NextId == lastId + 1

Init ==
    /\ reg = "new" /\ initialized = FALSE
    /\ proc = "none" /\ reader = "none"
    /\ lastId = 0 /\ pending = {} /\ lock = <<>>
    /\ stage = [c \in Callers |-> "idle"]
    /\ rid = [c \in Callers |-> 0]
    /\ reply = [c \in Callers |-> Nothing]
    /\ outcome = [c \in Callers |-> Nothing]
    /\ asked = {} /\ out = <<>>

-----------------------------------------------------------------------------
(* A call, step by step.                                                     *)

Enter(c) ==
    /\ stage' = [stage EXCEPT ![c] = "entered"]
    /\ outcome' = [outcome EXCEPT ![c] = Nothing]

End(c, how) ==
    /\ stage' = [stage EXCEPT ![c] = "idle"]
    /\ outcome' = [outcome EXCEPT ![c] = how]

Release(c) == lock' = Without(lock, {c})

(* The bound on requests, kept before a call begins. *)
Room == lastId + Cardinality({k \in Callers : stage[k] # "idle"}) < MaxCalls

(* A tool of the server is called: MCPRegistry.call and MCPServerClient.call *)
(* up to the task that runs transport.call_tool.                             *)
Call(c) ==
    /\ c \in Agents /\ stage[c] = "idle" /\ Room
    /\ reg \in {"open", "closing"} /\ initialized
    /\ Enter(c)
    /\ UNCHANGED <<client, proc, reader, lastId, pending, lock, rid, reply, server>>

(* The request is registered and written.  The write fails on a pipe that is *)
(* closed, and may go unnoticed on one whose reader has died.                *)
Send(c) ==
    /\ lastId' = NextId
    /\ rid' = [rid EXCEPT ![c] = NextId]
    /\ \/ /\ proc \in {"alive", "dead"}
          /\ pending' = pending \cup {NextId}
          /\ asked' = IF proc = "alive" THEN asked \cup {NextId} ELSE asked
          /\ lock' = <<c>> \o Without(lock, {c})
          /\ stage' = [stage EXCEPT ![c] = "waiting"]
          /\ reply' = [reply EXCEPT ![c] = Nothing]
          /\ UNCHANGED outcome
       \/ /\ proc # "alive"
          /\ pending' = pending \ {NextId}
          /\ Release(c)
          /\ End(c, Failed)
          /\ UNCHANGED <<asked, reply>>
    /\ UNCHANGED <<client, proc, reader, out>>

Locked(c) == lock # <<>> /\ Head(lock) # c

Queue(c) ==
    /\ lock' = Append(lock, c)
    /\ stage' = [stage EXCEPT ![c] = "queued"]
    /\ UNCHANGED <<client, proc, reader, lastId, pending, rid, reply, outcome, server>>

(* The task runs: _ensure_started, and without a break the lock if it is     *)
(* free.  A subprocess that has exited still counts as started.              *)
Begin(c) ==
    /\ stage[c] = "entered"
    /\ \/ /\ proc = "none"
          /\ stage' = [stage EXCEPT ![c] = "spawning"]
          /\ UNCHANGED <<client, proc, reader, lastId, pending, lock, rid, reply,
                         outcome, server>>
       \/ proc # "none" /\ Locked(c) /\ Queue(c)
       \/ proc # "none" /\ ~Locked(c) /\ Send(c)

(* The subprocess is there, and the call goes on as one that found it        *)
(* started.  The read loop is started too; after a close() it stops at once. *)
Spawned(c) ==
    /\ stage[c] = "spawning"
    /\ proc' = "alive"
    /\ reader' = IF reg = "closed" THEN "stopped" ELSE "reading"
    /\ stage' = [stage EXCEPT ![c] = "entered"]
    /\ UNCHANGED <<client, lastId, pending, lock, rid, reply, outcome, server>>

SpawnFails(c) ==
    /\ stage[c] = "spawning"
    /\ End(c, Failed)
    /\ UNCHANGED <<client, proc, reader, lastId, pending, lock, rid, reply, server>>

Granted(c) ==
    /\ stage[c] = "queued" /\ ~Locked(c)
    /\ Send(c)

(* The caller resumes with what its future was given; an answer may be a     *)
(* JSON-RPC error.                                                           *)
Return(c) ==
    /\ stage[c] = "answered"
    /\ Release(c)
    /\ \/ End(c, reply[c])
       \/ reply[c].result = "ok" /\ End(c, Failed)
    /\ UNCHANGED <<client, proc, reader, lastId, pending, rid, reply, server>>

(* Faulty variants of TimesOut: the lock is released whoever held it; the    *)
(* lock is kept and only the wait for the answer is bounded.                 *)
TimesOutReleasingHolder(c) ==
    /\ stage[c] \in {"spawning", "queued", "waiting", "answered"}
    /\ lock' = IF lock = <<>> THEN lock ELSE Tail(lock)
    /\ End(c, Failed)
    /\ UNCHANGED <<client, proc, reader, lastId, pending, rid, reply, server>>

TimesOutHoldingLock(c) ==
    /\ stage[c] = "waiting"
    /\ End(c, Failed)
    /\ pending' = pending \ {rid[c]}
    /\ UNCHANGED <<client, proc, reader, lastId, lock, rid, reply, server>>

(* A timeout ends the call wherever it is.  The one of MCPServerClient (or   *)
(* of the agent's executor) cancels the transport's task, which leaves its   *)
(* entry in _pending; the transport's own takes the entry out.               *)
TimesOut(c) ==
    /\ stage[c] \in {"spawning", "queued", "waiting", "answered"}
    /\ Release(c)
    /\ End(c, Failed)
    /\ \/ UNCHANGED pending
       \/ stage[c] = "waiting" /\ pending' = pending \ {rid[c]}
    /\ UNCHANGED <<client, proc, reader, lastId, rid, reply, server>>

-----------------------------------------------------------------------------
(* The read loop.                                                            *)

(* Faulty variant of WaitsFor: the one call under way is taken for the one   *)
(* that is answered.                                                         *)
WaitsAtAll(c, i) == stage[c] = "waiting" /\ rid[c] >= i

(* The caller whose future is registered under i and still waited for. *)
WaitsFor(c, i) == stage[c] = "waiting" /\ rid[c] = i

(* A message is matched by its id alone; an id that is not pending, or whose *)
(* future is done, goes nowhere.                                             *)
ReadMessage ==
    /\ reader = "reading" /\ out # <<>> /\ Head(out).kind = "message"
    /\ reg \notin {"closing", "closed"}
    /\ out' = Tail(out)
    /\ LET m == Head(out)
           hit == {c \in Callers : m.id \in pending /\ WaitsFor(c, m.id)}
       IN  /\ pending' = pending \ {m.id}
           /\ reply' = [c \in Callers |-> IF c \in hit THEN Answered(m.of) ELSE reply[c]]
           /\ stage' = [c \in Callers |-> IF c \in hit THEN "answered" ELSE stage[c]]
    /\ UNCHANGED <<client, proc, reader, lastId, lock, rid, outcome, asked>>

(* Faulty variant of FailPending: the table is emptied, nobody is told. *)
ClearPending ==
    /\ UNCHANGED <<reply, stage>>
    /\ pending' = {}

(* The loop's last words: every pending future is given an exception. *)
FailPending ==
    LET hit == {c \in Callers : \E i \in pending : WaitsFor(c, i)}
    IN  /\ reply' = [c \in Callers |-> IF c \in hit THEN Failed ELSE reply[c]]
        /\ stage' = [c \in Callers |-> IF c \in hit THEN "answered" ELSE stage[c]]
        /\ pending' = {}

(* The loop ends at the end of the output, on a line it cannot read, or when *)
(* close() cancels it.                                                       *)
ReaderStops ==
    /\ reader = "reading"
    /\ \/ reg \in {"closing", "closed"}
       \/ out = <<>> /\ proc = "dead"
       \/ out # <<>> /\ Head(out).kind = "unreadable"
    /\ reader' = "stopped"
    /\ FailPending
    /\ UNCHANGED <<client, proc, lastId, lock, rid, outcome, server>>

-----------------------------------------------------------------------------
(* The server.                                                               *)

Write(m) == Len(out) < MaxOut /\ out' = Append(out, m)

ServerAnswers(i) ==
    /\ proc = "alive" /\ i \in asked
    /\ asked' = asked \ {i}
    /\ Write(Response(i)) \/ (Unreadable \in Chatter /\ Write(Unreadable))
    /\ UNCHANGED <<client, proc, reader, calls>>

ServerWrites ==
    /\ proc = "alive"
    /\ \E m \in Chatter : Write(m)
    /\ UNCHANGED <<client, proc, reader, calls, asked>>

ServerDies ==
    /\ MayDie /\ proc = "alive"
    /\ proc' = "dead" /\ asked' = {}
    /\ UNCHANGED <<client, reader, calls, out>>

-----------------------------------------------------------------------------
(* The registry.                                                             *)

Open ==
    /\ reg = "new"
    /\ reg' = "opening"
    /\ Enter(Discovery)
    /\ UNCHANGED <<initialized, proc, reader, lastId, pending, lock, rid, reply, server>>

(* Discovery goes on with tools/list once initialize was answered; the       *)
(* registry is open after that whatever came of either.                      *)
Discovered ==
    /\ reg = "opening" /\ stage[Discovery] = "idle"
    /\ IF outcome[Discovery].result = "ok" /\ ~initialized
       THEN /\ initialized' = TRUE
            /\ Enter(Discovery)
            /\ UNCHANGED reg
       ELSE /\ reg' = "open"
            /\ UNCHANGED <<initialized, stage, outcome>>
    /\ UNCHANGED <<proc, reader, lastId, pending, lock, rid, reply, server>>

(* close() up to its wait for the subprocess: _closed is set, the read loop  *)
(* cancelled, stdin closed, the subprocess told to terminate.                *)
CloseBegins ==
    /\ reg = "open" /\ proc \in {"alive", "dead"}
    /\ reg' = "closing"
    /\ proc' = "stopping" /\ asked' = {}
    /\ UNCHANGED <<initialized, reader, calls, out>>

(* The rest of it: the futures that are still pending are cancelled, which   *)
(* raises CancelledError in their callers; no handler on the way catches it. *)
CancelPending ==
    LET hit == {c \in Callers : \E i \in pending : WaitsFor(c, i)}
    IN  /\ reply' = [c \in Callers |-> IF c \in hit THEN Escaped ELSE reply[c]]
        /\ stage' = [c \in Callers |-> IF c \in hit THEN "answered" ELSE stage[c]]
        /\ pending' = {}

Closed ==
    /\ reg' = "closed" /\ initialized' = FALSE
    /\ proc' = "none"
    /\ CancelPending
    /\ UNCHANGED <<reader, lastId, lock, rid, outcome, server>>

(* The subprocess has gone.  Meanwhile the read loop has run to its end.     *)
CloseEnds == reg = "closing" /\ reader # "reading" /\ Closed

(* There is no subprocess to wait for, or it is known to have exited. *)
CloseAtOnce == reg = "open" /\ proc \in {"none", "dead"} /\ Closed

-----------------------------------------------------------------------------
Proceed(c) == Begin(c) \/ Granted(c) \/ Return(c)

Next ==
    \/ Open \/ Discovered \/ CloseBegins \/ CloseEnds \/ CloseAtOnce
    \/ ReadMessage \/ ReaderStops
    \/ ServerWrites \/ ServerDies
    \/ \E i \in asked : ServerAnswers(i)
    \/ \E c \in Callers : Call(c) \/ Proceed(c) \/ Spawned(c) \/ SpawnFails(c) \/ TimesOut(c)

Spec == Init /\ [][Next]_vars

(* The event loop runs what is ready and its timers fire.  Nothing is assumed *)
(* of the server: it may be silent, or gone.                                  *)
Fairness == \A c \in Callers : WF_vars(Proceed(c)) /\ WF_vars(TimesOut(c))

FairSpec == Spec /\ Fairness

-----------------------------------------------------------------------------
(* Properties.                                                               *)

(* "Correlates responses to requests by JSON-RPC id": a call that succeeds    *)
(* returns the answer to its own request, however many calls timed out       *)
(* before it and however late they are answered.                             *)
AnswersOwnRequest ==
    \A c \in Callers : outcome[c].result = "ok" => outcome[c].of = rid[c]

(* "They must not interleave": one request at a time is on the wire and      *)
(* waited for, and its caller holds the lock, also when a caller that is     *)
(* still waiting for the lock gives up.                                      *)
OneOutstanding ==
    \A c \in Callers :
        stage[c] \in {"waiting", "answered"} => lock # <<>> /\ Head(lock) = c

(* A caller that waits for an answer is in the table the read loop looks it  *)
(* up in: the loop cannot end, nor close() empty the table, under a caller   *)
(* that is not told.                                                         *)
WaiterIsRegistered ==
    \A c \in Callers : stage[c] = "waiting" => rid[c] \in pending

(* "Every public method enforces the timebound": a call ends, also with a    *)
(* server that never answers, a read loop that has stopped, or a queue of    *)
(* callers in front of it.                                                   *)
CallsEnd == \A c \in Callers : stage[c] # "idle" ~> stage[c] = "idle"

(* "... converts exceptions into structured failures rather than raising     *)
(* into the caller": no call ends otherwise than with a result or a failure. *)
CallsNeverRaise == \A c \in Callers : outcome[c].result # "escaped"
=============================================================================
