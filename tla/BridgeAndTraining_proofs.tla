---------------------- MODULE BridgeAndTraining_proofs ----------------------
(***************************************************************************)
(* No message the bridge accepted is lost, none is delivered twice without *)
(* a fault, and the queues are delivered in order, for every set of        *)
(* messages, batch size, fallback threshold and number of faults; and what *)
(* training leaves behind, however often it is killed and resumed and      *)
(* however many trainers run.                                              *)
(***************************************************************************)
EXTENDS Bridge, Training, Selection_proofs, FiniteSetTheorems

TypeOK ==
    /\ up \in [Dirs -> BOOLEAN] /\ fallback \in BOOLEAN
    /\ at \in [Messages -> {"unborn", "streamed", "ignored", "inflight", "unsent",
                            "forwarded", "queued", "lost", "missed"}]
    /\ queue \in [Dirs -> Seq(Messages)]
    /\ received \in [Messages -> Nat]
    /\ turn \in Dirs /\ phase \in {"fetch", "send", "wait"}
    /\ batch \in Seq(Messages) /\ delivered \subseteq Messages
    /\ link \in {"down", "asking", "sse", "ws"} /\ misses \in Nat /\ stream \in Seq(Commands)
    /\ flushed \subseteq Messages /\ faults \in Nat

(* A row is a message of the queue's own direction that was queued and is    *)
(* through with its handler; no message has two rows.                        *)
Rows ==
    \A d \in Dirs : \A i \in 1..Len(queue[d]) :
        /\ Dir(queue[d][i]) = d /\ at[queue[d][i]] = "queued"
        /\ \A j \in 1..Len(queue[d]) : queue[d][i] = queue[d][j] => i = j

(* A command on the connection was sent, once, and is not yet read. *)
Streamed ==
    \A i \in 1..Len(stream) :
        /\ at[stream[i]] = "streamed"
        /\ \A j \in 1..Len(stream) : stream[i] = stream[j] => i = j

(* While a batch is sent the k oldest rows of the queue are those that were  *)
(* taken, and the rest of the batch are the rows right behind them.          *)
Split(q, taken, rest) ==
    \E k \in 0..Len(q) :
        /\ taken = {q[i] : i \in 1..k}
        /\ k + Len(rest) <= Len(q)
        /\ \A i \in 1..Len(rest) : rest[i] = q[k + i]

Round == phase = "send" => Split(queue[turn], delivered, batch)

(* What has come through the flusher was a row, and was taken. *)
Through ==
    /\ \A m \in flushed : at[m] = "queued" /\ received[m] > 0
    /\ phase = "send" => delivered \subseteq flushed

Pending(m) == m \in ToSet(queue[Dir(m)]) /\ ~(phase = "send" /\ m \in delivered)

(* How often a message that may still be posted has been taken.  *)
Counts ==
    \A m \in Messages :
        /\ at[m] \in {"unborn", "streamed", "inflight"} => received[m] = 0
        /\ at[m] = "unsent" => received[m] <= faults
        /\ Pending(m) => received[m] <= faults

Order ==
    \A d \in Dirs : \A i, j \in 1..Len(queue[d]) :
        i < j /\ queue[d][j] \in flushed => queue[d][i] \in flushed

IInv ==
    /\ TypeOK /\ Rows /\ Streamed /\ Round /\ Through /\ Counts
    /\ Order /\ NothingKeptIsLost /\ DuplicatesAreFaults

-----------------------------------------------------------------------------

(* The elements of a sequence are what stands at its places. *)
LEMMA ElementsOfSeq ==
    ASSUME NEW S, NEW s \in Seq(S)
    PROVE  ToSet(s) = {s[i] : i \in 1..Len(s)}
BY DEF ToSet

(* The rows of a queue, by their places. *)
LEMMA RowsOfQueue ==
    ASSUME TypeOK, NEW d \in Dirs
    PROVE  /\ ToSet(queue[d]) = {queue[d][i] : i \in 1..Len(queue[d])}
           /\ Len(queue[d]) \in Nat
           /\ \A i \in 1..Len(queue[d]) : queue[d][i] \in Messages
BY DEF TypeOK, ToSet

LEMMA DirOf == \A m \in Messages : Dir(m) \in Dirs
BY DEF Dir, Dirs

LEMMA MinOfTwo ==
    ASSUME NEW a \in Nat, NEW b \in Nat
    PROVE  Min({a, b}) \in {a, b} /\ Min({a, b}) <= a /\ Min({a, b}) <= b
<1>1. \E x \in {a, b} : \A y \in {a, b} : x <= y
  OBVIOUS
<1> QED
  BY <1>1 DEF Min

LEMMA IInvInit == Init => IInv
<1> SUFFICES ASSUME Init PROVE IInv
  OBVIOUS
<1> USE DEF Init
<1>1. TypeOK
  BY DEF TypeOK, Dirs
<1>2. \A d \in Dirs : Len(queue[d]) = 0
  OBVIOUS
<1>3. Rows /\ Streamed /\ Round /\ Through /\ Order
  BY <1>2 DEF Rows, Streamed, Round, Through, Order
<1>4. Counts /\ DuplicatesAreFaults
  BY <1>1, <1>2, DirOf, RowsOfQueue DEF Counts, Pending, DuplicatesAreFaults
<1>5. NothingKeptIsLost
  BY DEF NothingKeptIsLost
<1> QED
  BY <1>1, <1>3, <1>4, <1>5 DEF IInv

(* What a step that is none of the flusher's does to a message: one that is  *)
(* queued stays as it is, one that becomes forwarded has been taken.         *)
Moved(m) ==
    /\ at[m] = "queued" <=> at'[m] = "queued"
    /\ at[m] = "queued" => received'[m] = received[m]
    /\ received'[m] >= received[m]
    /\ at'[m] = "forwarded" => received'[m] > 0
    /\ at'[m] \in {"unborn", "streamed", "inflight"} => received'[m] = 0
    /\ at'[m] = "unsent" => received'[m] <= faults'
    /\ received'[m] <= 1 + faults'

(* Steps that touch neither a queue nor a round. *)
LEMMA HandlersKeep ==
    ASSUME IInv, TypeOK', Streamed',
           UNCHANGED <<queue, flusher, flushed>>,
           \A m \in Messages : Moved(m),
           faults' >= faults
    PROVE  IInv'
<1> USE DEF Moved
<1>1. \A d \in Dirs : \A i \in 1..Len(queue[d]) : queue[d][i] \in Messages
  BY RowsOfQueue DEF IInv
<1>2. Rows'
  BY <1>1 DEF IInv, Rows, Dir
<1>3. Round'
  <2>1. /\ Round /\ queue' = queue /\ turn' = turn /\ phase' = phase
        /\ batch' = batch /\ delivered' = delivered
    BY DEF IInv, flusher
  <2> QED
    BY <2>1, Zenon DEF Round
<1>4. Through'
  BY DEF IInv, Through, flusher, TypeOK
<1>5. Order'
  BY DEF IInv, Order
<1>6. \A m \in Messages : Pending(m)' = Pending(m) /\ (Pending(m) => at[m] = "queued")
  <2> TAKE m \in Messages
  <2>1. Pending(m)' = Pending(m)
    BY Zenon DEF Pending, flusher, Dir
  <2>2. Pending(m) => at[m] = "queued"
    <3>1. /\ Dir(m) \in Dirs /\ TypeOK
          /\ \A i \in 1..Len(queue[Dir(m)]) : at[queue[Dir(m)][i]] = "queued"
      BY DirOf DEF IInv, Rows
    <3>2. ToSet(queue[Dir(m)]) = {queue[Dir(m)][i] : i \in 1..Len(queue[Dir(m)])}
      BY <3>1, RowsOfQueue
    <3> QED
      BY <3>1, <3>2 DEF Pending
  <2> QED
    BY <2>1, <2>2
<1>7. Counts'
  BY <1>6 DEF IInv, Counts, TypeOK
<1>8. NothingKeptIsLost' /\ DuplicatesAreFaults'
  BY DEF IInv, NothingKeptIsLost, DuplicatesAreFaults, TypeOK, Dir
<1> QED
  BY <1>2, <1>3, <1>4, <1>5, <1>7, <1>8 DEF IInv

LEMMA StreamOf ==
    ASSUME IInv
    PROVE  /\ Len(stream) \in Nat /\ stream \in Seq(Commands)
           /\ ToSet(stream) = {stream[i] : i \in 1..Len(stream)}
           /\ \A i \in 1..Len(stream) : stream[i] \in Commands /\ stream[i] \in Messages
           /\ \A m \in ToSet(stream) : at[m] = "streamed"
<1>1. stream \in Seq(Commands) /\ Streamed
  BY DEF IInv, TypeOK
<1>2. Len(stream) \in Nat /\ DOMAIN stream = 1..Len(stream)
  BY <1>1
<1>3. ToSet(stream) = {stream[i] : i \in 1..Len(stream)}
  BY <1>2 DEF ToSet
<1>4. \A i \in 1..Len(stream) : stream[i] \in Commands /\ stream[i] \in Messages
  BY <1>1 DEF Messages
<1>5. \A i \in 1..Len(stream) : at[stream[i]] = "streamed"
  BY <1>1 DEF Streamed
<1> QED
  BY <1>1, <1>2, <1>3, <1>4, <1>5

LEMMA ReportStatusKeeps ==
    ASSUME IInv, NEW s \in Statuses, ReportStatus(s)
    PROVE  IInv'
<1> USE DEF ReportStatus
<1>1. s \in Messages /\ UNCHANGED <<queue, flusher, flushed>> /\ faults' >= faults
  BY DEF Messages, IInv, TypeOK
<1>2. TypeOK'
  BY <1>1 DEF IInv, TypeOK, listener, flusher
<1>3. Streamed'
  <2>1. /\ stream' = stream /\ at[s] = "unborn" /\ Streamed
        /\ \A k \in Messages \ {s} : at'[k] = at[k]
    BY <1>1 DEF IInv, TypeOK, listener
  <2>2. \A i \in 1..Len(stream) : stream[i] \in Messages /\ stream[i] # s
    BY <2>1, StreamOf DEF Streamed
  <2> QED
    BY <2>1, <2>2 DEF Streamed
<1>9. \A k \in Messages : Moved(k)
  BY <1>1, <1>2, <1>3
     DEF Moved, IInv, TypeOK, Counts, DuplicatesAreFaults, NothingKeptIsLost
<1>8. UNCHANGED <<queue, flusher, flushed>> /\ faults' >= faults
  BY <1>1 DEF IInv, TypeOK
<1> QED
  BY IInv, <1>1, <1>2, <1>3, <1>8, <1>9, HandlersKeep

LEMMA HandleCommandKeeps ==
    ASSUME IInv, HandleCommand
    PROVE  IInv'
<1> USE DEF HandleCommand
<1>1. UNCHANGED <<queue, flusher, flushed>> /\ faults' >= faults
  BY DEF IInv, TypeOK
<1>2. /\ Head(stream) = stream[1] /\ Len(stream) \in Nat \ {0} /\ Tail(stream) \in Seq(Commands)
      /\ Head(stream) \in Messages /\ at[Head(stream)] = "streamed"
      /\ Len(Tail(stream)) = Len(stream) - 1
      /\ \A i \in 1..Len(Tail(stream)) : Tail(stream)[i] = stream[i + 1]
  BY StreamOf DEF IInv, Streamed
<1>3. TypeOK'
  BY <1>2 DEF IInv, TypeOK, flusher
<1>4. Streamed'
  <2> SUFFICES ASSUME NEW i \in 1..Len(stream')
               PROVE  /\ at'[stream'[i]] = "streamed"
                      /\ \A j \in 1..Len(stream') : stream'[i] = stream'[j] => i = j
    BY DEF Streamed
  <2>1. /\ i + 1 \in 1..Len(stream) /\ 1 \in 1..Len(stream) /\ i + 1 # 1
        /\ stream'[i] = stream[i + 1]
    BY <1>2
  <2>2. stream[i + 1] # stream[1] /\ at[stream[i + 1]] = "streamed"
    BY <2>1 DEF IInv, Streamed
  <2>3. stream[i + 1] \in Messages
    BY <2>1, StreamOf
  <2>4. at'[stream'[i]] = "streamed"
    BY <1>2, <2>1, <2>2, <2>3 DEF IInv, TypeOK
  <2>5. ASSUME NEW j \in 1..Len(stream'), stream'[i] = stream'[j] PROVE i = j
    <3>1. j + 1 \in 1..Len(stream) /\ stream'[j] = stream[j + 1]
      BY <1>2
    <3>2. i + 1 = j + 1
      BY <2>1, <2>5, <3>1 DEF IInv, Streamed
    <3> QED
      BY <3>2
  <2> QED
    BY <2>4, <2>5
<1>9. \A k \in Messages : Moved(k)
  BY <1>1, <1>2, <1>3, <1>4
     DEF Moved, IInv, TypeOK, Counts, DuplicatesAreFaults, NothingKeptIsLost
<1>8. UNCHANGED <<queue, flusher, flushed>> /\ faults' >= faults
  BY <1>1 DEF IInv, TypeOK
<1> QED
  BY IInv, <1>1, <1>2, <1>3, <1>4, <1>8, <1>9, HandlersKeep

LEMMA PostedKeeps ==
    ASSUME IInv, NEW m \in Messages, Forwarded(m) \/ NotForwarded(m)
    PROVE  IInv'
<1>1. UNCHANGED <<queue, flusher, listener, flushed, up, fallback>> /\ at[m] = "inflight"
  BY DEF Forwarded, NotForwarded
<1>2. PICK ok \in BOOLEAN :
         Post(m, ok) /\ at' = [at EXCEPT ![m] = IF ok THEN "forwarded" ELSE "unsent"]
  <2>1. CASE Forwarded(m)
    BY <2>1 DEF Forwarded
  <2>2. CASE NotForwarded(m)
    BY <2>2 DEF NotForwarded
  <2> QED
    BY <2>1, <2>2
<1>3. /\ at'[m] = IF ok THEN "forwarded" ELSE "unsent"
      /\ \A k \in Messages \ {m} : at'[k] = at[k]
  BY <1>2 DEF IInv, TypeOK
<1>4. received \in [Messages -> Nat] /\ faults \in Nat /\ received[m] = 0
  BY <1>1 DEF IInv, TypeOK, Counts
<1>5. /\ received' \in [Messages -> Nat] /\ faults' \in Nat /\ faults' >= faults
      /\ ok => received'[m] = 1
      /\ ~ok => received'[m] <= faults'
      /\ received'[m] <= 1 + faults'
      /\ \A k \in Messages \ {m} : received'[k] = received[k]
  BY <1>2, <1>4 DEF Post, Fault
<1>6. TypeOK'
  BY <1>1, <1>2, <1>5 DEF IInv, TypeOK, listener, flusher
<1>7. Streamed'
  <2>1. \A i \in 1..Len(stream) : stream[i] # m
    BY <1>1 DEF IInv, Streamed
  <2> QED
    BY <1>1, <1>3, <2>1, StreamOf DEF IInv, Streamed, listener
<1>8. UNCHANGED <<queue, flusher, flushed>>
  BY <1>1
<1>9. \A k \in Messages : Moved(k)
  <2>1. Moved(m)
    <3>1. at'[m] \in {"forwarded", "unsent"} /\ (at'[m] = "forwarded" <=> ok)
      BY <1>3
    <3>2. received'[m] \in Nat
      BY <1>5
    <3> QED
      BY <1>1, <1>4, <1>5, <3>1, <3>2 DEF Moved
  <2>2. ASSUME NEW k \in Messages \ {m} PROVE Moved(k)
    <3>1. at'[k] = at[k] /\ received'[k] = received[k] /\ received[k] \in Nat
      BY <1>3, <1>4, <1>5
    <3>2. faults' \in Nat /\ faults \in Nat /\ faults' >= faults
      BY <1>4, <1>5
    <3>3. /\ at[k] = "forwarded" => received[k] > 0
          /\ at[k] \in {"unborn", "streamed", "inflight"} => received[k] = 0
          /\ at[k] = "unsent" => received[k] <= faults
          /\ received[k] <= 1 + faults
      BY DEF IInv, Counts, DuplicatesAreFaults, NothingKeptIsLost
    <3> QED
      BY <3>1, <3>2, <3>3 DEF Moved
  <2> QED
    BY <2>1, <2>2
<1> QED
  BY <1>5, <1>6, <1>7, <1>8, <1>9, HandlersKeep

LEMMA EnqueueFailsKeeps ==
    ASSUME IInv, NEW m \in Messages, EnqueueFails(m)
    PROVE  IInv'
<1> USE DEF EnqueueFails, Fault
<1>1. /\ UNCHANGED <<queue, flusher, flushed, received, up, fallback>>
      /\ faults' >= faults /\ faults' \in Nat
  BY DEF IInv, TypeOK
<1>2. CASE m \in Statuses
  <2>1. TypeOK'
    BY <1>1, <1>2 DEF IInv, TypeOK, listener, flusher
  <2>2. Streamed'
    BY <1>2, StreamOf DEF IInv, Streamed, TypeOK, listener
  <2>9. \A k \in Messages : Moved(k)
    BY <1>1, <1>2, <2>1, <2>2
       DEF Moved, IInv, TypeOK, Counts, DuplicatesAreFaults, NothingKeptIsLost
  <2>8. UNCHANGED <<queue, flusher, flushed>> /\ faults' >= faults
    BY <1>1, <2>1 DEF IInv, TypeOK
  <2> QED
    BY IInv, <1>1, <1>2, <2>1, <2>2, <2>8, <2>9, HandlersKeep
<1>3. CASE m \notin Statuses
  <2>1. \A k \in Messages :
           at'[k] = at[k] \/ (at'[k] \in {"lost", "missed"} /\ at[k] \in {"unsent", "streamed"})
    BY <1>3, StreamOf DEF Dropped
  <2>2. TypeOK'
    BY <1>1, <1>3 DEF IInv, TypeOK, flusher
  <2>3. Streamed'
    BY <1>3 DEF Streamed
  <2>9. \A k \in Messages : Moved(k)
    BY <1>1, <2>1, <2>2, <2>3
       DEF Moved, IInv, TypeOK, Counts, DuplicatesAreFaults, NothingKeptIsLost
  <2>8. UNCHANGED <<queue, flusher, flushed>> /\ faults' >= faults
    BY <1>1, <2>1 DEF IInv, TypeOK
  <2> QED
    BY IInv, <1>1, <2>1, <2>2, <2>3, <2>8, <2>9, HandlersKeep
<1> QED
  BY <1>2, <1>3

LEMMA DisconnectKeeps ==
    ASSUME IInv, Disconnect
    PROVE  IInv'
<1>1. UNCHANGED <<queue, flusher, flushed, received, up, fallback, faults>>
  BY DEF Disconnect
<1>2. \A k \in Messages : at'[k] = at[k] \/ (at'[k] = "missed" /\ at[k] = "streamed")
  BY StreamOf DEF Disconnect, Dropped
<1>3. TypeOK' /\ Streamed'
  BY <1>1 DEF Disconnect, IInv, TypeOK, flusher, Streamed
<1>4. \A k \in Messages : Moved(k)
  BY <1>1, <1>2, <1>3
     DEF Moved, IInv, TypeOK, Counts, DuplicatesAreFaults, NothingKeptIsLost
<1>5. UNCHANGED <<queue, flusher, flushed>> /\ faults' >= faults
  BY <1>1 DEF IInv, TypeOK
<1> QED
  BY <1>3, <1>4, <1>5, HandlersKeep

LEMMA ConnectionKeeps ==
    ASSUME IInv, Listen \/ Answered \/ NotAnswered
    PROVE  IInv'
<1>1. UNCHANGED <<queue, flusher, flushed, received, up, fallback, faults, at, stream>>
  BY DEF Listen, Ask, Connect, ConnectFails, Answered, NotAnswered, Elsewhere, flusher
<1>2. link' \in {link, "down", "asking", "sse", "ws"} /\ (misses' = misses \/ Misses)
  BY DEF Listen, Ask, Connect, ConnectFails, Answered, NotAnswered
<1>3. misses' \in Nat
  <2>1. misses \in Nat /\ misses + 1 \in Nat /\ FallbackAfter \in Nat
    BY BoundsAssumption DEF IInv, TypeOK
  <2>2. Misses => misses' \in {misses + 1, FallbackAfter}
    BY <2>1, MinOfTwo DEF Misses
  <2> QED
    BY <1>2, <2>1, <2>2
<1>4. TypeOK' /\ Streamed'
  BY <1>1, <1>2, <1>3 DEF IInv, TypeOK, flusher, Streamed
<1>5. \A k \in Messages : Moved(k)
  BY <1>1, <1>4
     DEF Moved, IInv, TypeOK, Counts, DuplicatesAreFaults, NothingKeptIsLost
<1>6. UNCHANGED <<queue, flusher, flushed>> /\ faults' >= faults
  BY <1>1 DEF IInv, TypeOK
<1> QED
  BY <1>4, <1>5, <1>6, HandlersKeep

LEMMA EmitKeeps ==
    ASSUME IInv, NEW c \in Commands, Emit(c)
    PROVE  IInv'
<1> USE DEF Emit
<1>1. c \in Messages /\ UNCHANGED <<queue, flusher, flushed, received, up, fallback, faults>>
  BY DEF Messages
<1>2. /\ stream' \in Seq(Commands) /\ Len(stream') = Len(stream) + 1
      /\ stream'[Len(stream) + 1] = c /\ \A i \in 1..Len(stream) : stream'[i] = stream[i]
  BY StreamOf
<1>3. TypeOK'
  BY <1>1, <1>2 DEF IInv, TypeOK, flusher
<1>4. Streamed'
  <2>1. \A i \in 1..Len(stream') : i \in 1..Len(stream) \/ i = Len(stream) + 1
    BY <1>2, StreamOf
  <2>2. \A i \in 1..Len(stream) : stream[i] # c
    BY DEF IInv, Streamed
  <2>3. at' = [at EXCEPT ![c] = "streamed"] /\ DOMAIN at = Messages
    BY DEF IInv, TypeOK
  <2> QED
    BY <1>1, <1>2, <2>1, <2>2, <2>3, StreamOf DEF IInv, Streamed
<1>9. \A k \in Messages : Moved(k)
  BY <1>1, <1>3, <1>4
     DEF Moved, IInv, TypeOK, Counts, DuplicatesAreFaults, NothingKeptIsLost
<1>8. UNCHANGED <<queue, flusher, flushed>> /\ faults' >= faults
  BY <1>1 DEF IInv, TypeOK
<1> QED
  BY IInv, <1>1, <1>3, <1>4, <1>8, <1>9, HandlersKeep

LEMMA ToggleKeeps ==
    ASSUME IInv, ToggleFallback \/ \E d \in Dirs : Toggle(d)
    PROVE  IInv'
<1> USE DEF Toggle, ToggleFallback
<1>1. TypeOK' /\ Streamed'
  <2>1. UNCHANGED <<at, queue, received, turn, phase, batch, delivered, link, misses,
                    stream, flushed, faults>>
    BY DEF listener, flusher
  <2>2. up' \in [Dirs -> BOOLEAN] /\ fallback' \in BOOLEAN
    BY DEF IInv, TypeOK
  <2> QED
    BY <2>1, <2>2 DEF IInv, TypeOK, Streamed
<1>2. UNCHANGED <<queue, flusher, flushed, received, at, faults>>
  OBVIOUS
<1>9. \A k \in Messages : Moved(k)
  BY <1>1, <1>2
     DEF Moved, IInv, TypeOK, Counts, DuplicatesAreFaults, NothingKeptIsLost
<1>8. UNCHANGED <<queue, flusher, flushed>> /\ faults' >= faults
  BY <1>1 DEF IInv, TypeOK
<1> QED
  BY IInv, <1>1, <1>2, <1>8, <1>9, HandlersKeep

(* The row goes to the end of the queue, behind everything a round may be    *)
(* about.                                                                    *)
LEMMA EnqueueKeeps ==
    ASSUME IInv, NEW m \in Messages, Enqueue(m)
    PROVE  IInv'
<1> DEFINE q == queue[Dir(m)]
<1>1. /\ UNCHANGED <<up, fallback, received, turn, phase, batch, delivered>>
      /\ UNCHANGED <<link, misses, stream, flushed, faults>>
      /\ at[m] = "unsent" /\ Dir(m) \in Dirs
  BY DirOf DEF Enqueue, flusher, listener
<1>2. /\ at' = [at EXCEPT ![m] = "queued"] /\ at'[m] = "queued"
      /\ \A k \in Messages \ {m} : at'[k] = at[k]
  BY DEF Enqueue, IInv, TypeOK
<1>3. /\ queue' \in [Dirs -> Seq(Messages)] /\ q \in Seq(Messages) /\ Len(q) \in Nat
      /\ queue'[Dir(m)] = Append(q, m)
      /\ \A d \in Dirs \ {Dir(m)} : queue'[d] = queue[d]
  BY <1>1 DEF Enqueue, IInv, TypeOK
<1>4. /\ Len(queue'[Dir(m)]) = Len(q) + 1 /\ queue'[Dir(m)][Len(q) + 1] = m
      /\ \A i \in 1..Len(q) : queue'[Dir(m)][i] = q[i]
  BY <1>3, AppendProperties
<1>5. \A d \in Dirs : \A i \in 1..Len(queue[d]) :
         queue[d][i] \in Messages /\ queue[d][i] # m
  <2>1. \A d \in Dirs : \A i \in 1..Len(queue[d]) : queue[d][i] \in Messages
    BY RowsOfQueue DEF IInv
  <2>2. \A d \in Dirs : \A i \in 1..Len(queue[d]) : at[queue[d][i]] = "queued"
    BY DEF IInv, Rows
  <2>3. at[m] # "queued"
    BY <1>1
  <2> HIDE DEF q
  <2> QED
    BY <2>1, <2>2, <2>3
<1>6. m \notin flushed
  BY <1>1 DEF IInv, Through
<1>7. \A d \in Dirs : \A i \in 1..Len(queue'[d]) :
         \/ i \in 1..Len(queue[d]) /\ queue'[d][i] = queue[d][i]
         \/ d = Dir(m) /\ i = Len(q) + 1 /\ queue'[d][i] = m
  <2> SUFFICES ASSUME NEW d \in Dirs, NEW i \in 1..Len(queue'[d])
               PROVE  \/ i \in 1..Len(queue[d]) /\ queue'[d][i] = queue[d][i]
                      \/ d = Dir(m) /\ i = Len(q) + 1 /\ queue'[d][i] = m
    OBVIOUS
  <2>1. CASE d = Dir(m)
    <3>1. i \in 1..Len(q) \/ i = Len(q) + 1
      BY <1>3, <1>4, <2>1
    <3> QED
      BY <1>4, <2>1, <3>1
  <2>2. CASE d # Dir(m)
    <3>1. queue'[d] = queue[d]
      BY <1>3, <2>2
    <3> QED
      BY <3>1
  <2> QED
    BY <2>1, <2>2
<1>8. \A d \in Dirs : /\ Len(queue'[d]) >= Len(queue[d]) /\ Len(queue'[d]) \in Nat
                      /\ Len(queue[d]) \in Nat
                      /\ \A i \in 1..Len(queue[d]) : queue'[d][i] = queue[d][i]
  <2>1. \A d \in Dirs : Len(queue[d]) \in Nat
    BY RowsOfQueue DEF IInv
  <2> SUFFICES ASSUME NEW d \in Dirs
               PROVE  /\ Len(queue'[d]) >= Len(queue[d]) /\ Len(queue'[d]) \in Nat
                      /\ Len(queue[d]) \in Nat
                      /\ \A i \in 1..Len(queue[d]) : queue'[d][i] = queue[d][i]
    OBVIOUS
  <2>2. CASE d = Dir(m)
    BY <1>3, <1>4, <2>1, <2>2
  <2>3. CASE d # Dir(m)
    <3>1. queue'[d] = queue[d]
      BY <1>3, <2>3
    <3> QED
      BY <2>1, <3>1
  <2> QED
    BY <2>2, <2>3
<1> HIDE DEF q
<1>10. TypeOK'
  BY <1>1, <1>2, <1>3 DEF IInv, TypeOK
<1>11. Rows'
  <2> SUFFICES ASSUME NEW d \in Dirs, NEW i \in 1..Len(queue'[d])
               PROVE  /\ Dir(queue'[d][i]) = d /\ at'[queue'[d][i]] = "queued"
                      /\ \A j \in 1..Len(queue'[d]) : queue'[d][i] = queue'[d][j] => i = j
    BY DEF Rows, Dir
  <2>1. Dir(queue'[d][i]) = d /\ at'[queue'[d][i]] = "queued"
    BY <1>2, <1>5, <1>7 DEF IInv, Rows
  <2>2. ASSUME NEW j \in 1..Len(queue'[d]), queue'[d][i] = queue'[d][j] PROVE i = j
    BY <1>5, <1>7, <2>2 DEF IInv, Rows
  <2> QED
    BY <2>1, <2>2
<1>12. Streamed'
  BY <1>1, <1>2, StreamOf DEF IInv, Streamed
<1>13. Round'
  <2> SUFFICES ASSUME phase = "send"
               PROVE  Split(queue'[turn], delivered, batch)
    BY <1>1 DEF Round
  <2>1. turn \in Dirs /\ Len(batch) \in Nat
    BY DEF IInv, TypeOK
  <2>2. PICK k \in 0..Len(queue[turn]) :
               /\ delivered = {queue[turn][i] : i \in 1..k}
               /\ k + Len(batch) <= Len(queue[turn])
               /\ \A i \in 1..Len(batch) : batch[i] = queue[turn][k + i]
    BY DEF IInv, Round, Split
  <2>3. k \in 0..Len(queue'[turn]) /\ k + Len(batch) <= Len(queue'[turn])
    BY <1>8, <2>1, <2>2
  <2>4. \A i \in 1..k : queue'[turn][i] = queue[turn][i]
    BY <1>8, <2>1, <2>2
  <2>5. \A i \in 1..Len(batch) : queue'[turn][k + i] = queue[turn][k + i]
    BY <1>8, <2>1, <2>2
  <2>6. delivered = {queue'[turn][i] : i \in 1..k}
    BY <2>2, <2>4
  <2>7. \A i \in 1..Len(batch) : batch[i] = queue'[turn][k + i]
    BY <2>2, <2>5
  <2> QED
    BY <2>3, <2>6, <2>7 DEF Split
<1>14. Through'
  BY <1>1, <1>2, <1>6 DEF IInv, Through, TypeOK
<1>15. Order'
  <2> SUFFICES ASSUME NEW d \in Dirs, NEW i \in 1..Len(queue'[d]), NEW j \in 1..Len(queue'[d]),
                      i < j, queue'[d][j] \in flushed
               PROVE  queue'[d][i] \in flushed
    BY <1>1 DEF Order
  <2>1. j \in 1..Len(queue[d]) /\ queue'[d][j] = queue[d][j]
    BY <1>6, <1>7
  <2>2. i \in 1..Len(queue[d])
    BY <2>1, <1>8
  <2> QED
    BY <1>8, <2>1, <2>2 DEF IInv, Order
<1>16. \A k \in Messages : k \in ToSet(queue'[Dir(k)]) <=> k \in ToSet(queue[Dir(k)]) \/ k = m
  <2> TAKE k \in Messages
  <2>1. Dir(k) \in Dirs
    BY DirOf
  <2>2. ToSet(queue'[Dir(k)]) = {queue'[Dir(k)][i] : i \in 1..Len(queue'[Dir(k)])}
    <3>1. queue'[Dir(k)] \in Seq(Messages)
      BY <1>10, <2>1 DEF TypeOK
    <3> QED
      BY <3>1, ElementsOfSeq
  <2>3. ToSet(queue[Dir(k)]) = {queue[Dir(k)][i] : i \in 1..Len(queue[Dir(k)])}
    BY <2>1, RowsOfQueue DEF IInv
  <2>4. k = m => k \in ToSet(queue'[Dir(k)])
    BY <1>3, <1>4, <2>2
  <2> QED
    BY <1>7, <1>8, <2>1, <2>2, <2>3, <2>4
<1>17. \A k \in Messages : Pending(k)' => Pending(k) \/ k = m
  BY <1>1, <1>16, Zenon DEF Pending, Dir
<1>18. Counts'
  BY <1>1, <1>2, <1>17 DEF IInv, Counts
<1>19. NothingKeptIsLost' /\ DuplicatesAreFaults'
  BY <1>1, <1>2, <1>16 DEF IInv, NothingKeptIsLost, DuplicatesAreFaults, Dir
<1> QED
  BY <1>10, <1>11, <1>12, <1>13, <1>14, <1>15, <1>18, <1>19 DEF IInv

(* Steps that leave the queues as they are and are not within a round after  *)
(* it: a batch is read, or the round, the cycle or the process ends.         *)
LEMMA SameQueuesKeep ==
    ASSUME IInv, TypeOK', Streamed', Round', Counts',
           UNCHANGED <<queue, received, flushed>>,
           phase' = "send" => delivered' = {},
           \A m \in Messages :
              at'[m] = at[m] \/ (at'[m] \in {"lost", "missed"} /\ at[m] # "queued"),
           faults' >= faults
    PROVE  IInv'
<1>1. \A d \in Dirs : \A i \in 1..Len(queue[d]) : queue[d][i] \in Messages
  BY RowsOfQueue DEF IInv
<1>2. Rows'
  BY <1>1 DEF IInv, Rows, Dir
<1>3. Through'
  BY DEF IInv, Through, TypeOK
<1>4. Order'
  BY DEF IInv, Order
<1>5. NothingKeptIsLost'
  <2> SUFFICES ASSUME NEW m \in Messages
               PROVE  /\ at'[m] = "forwarded" => received'[m] > 0
                      /\ at'[m] = "queued" =>
                            received'[m] > 0 \/ m \in ToSet(queue'[Dir(m)'])
    BY DEF NothingKeptIsLost
  <2>1. at'[m] \in {"forwarded", "queued"} => at'[m] = at[m]
    OBVIOUS
  <2>2. /\ at[m] = "forwarded" => received[m] > 0
        /\ at[m] = "queued" => received[m] > 0 \/ m \in ToSet(queue[Dir(m)])
    BY DEF IInv, NothingKeptIsLost
  <2>3. Dir(m)' = Dir(m)
    BY DEF Dir
  <2> QED
    BY <2>1, <2>2, <2>3
<1>6. DuplicatesAreFaults'
  BY DEF IInv, DuplicatesAreFaults, TypeOK
<1> QED
  BY <1>2, <1>3, <1>4, <1>5, <1>6 DEF IInv

LEMMA FetchKeeps ==
    ASSUME IInv, Fetch
    PROVE  IInv'
<1> DEFINE n == Min({MaxBatch, Len(queue[turn])})
           q == queue[turn]
<1>1. /\ UNCHANGED <<up, fallback, at, queue, received, turn>> /\ phase = "fetch" /\ phase' = "send"
      /\ UNCHANGED <<link, misses, stream, flushed, faults>>
      /\ delivered' = {} /\ batch' = SubSeq(q, 1, n)
  BY DEF Fetch, listener
<1>2. q \in Seq(Messages) /\ Len(q) \in Nat /\ turn \in Dirs
  BY DEF IInv, TypeOK
<1>3. n \in Nat /\ n <= Len(q)
  BY <1>2, BoundsAssumption, MinOfTwo
<1> HIDE DEF n, q
<1>4. /\ batch' \in Seq(Messages) /\ Len(batch') = n
      /\ \A i \in 1..n : batch'[i] = q[i]
  BY <1>1, <1>2, <1>3
<1>5. TypeOK'
  BY <1>1, <1>4 DEF IInv, TypeOK
<1>6. Streamed'
  BY <1>1 DEF IInv, Streamed
<1>7. Round'
  <2>1. /\ delivered' = {q[i] : i \in 1..0} /\ 0 + Len(batch') <= Len(q)
        /\ \A i \in 1..Len(batch') : batch'[i] = q[0 + i]
    BY <1>1, <1>3, <1>4
  <2>2. 0 \in 0..Len(q)
    BY <1>2
  <2>3. Split(q, delivered', batch')
    BY <2>1, <2>2 DEF Split
  <2>4. queue'[turn'] = q
    BY <1>1 DEF q
  <2> QED
    BY <2>3, <2>4 DEF Round
<1>8. Counts'
  <2>1. \A m \in Messages : Pending(m)' => Pending(m)
    BY <1>1, Zenon DEF Pending, Dir
  <2> QED
    BY <1>1, <2>1 DEF IInv, Counts
<1>9. faults' >= faults
  BY <1>1 DEF IInv, TypeOK
<1> QED
  BY <1>1, <1>5, <1>6, <1>7, <1>8, <1>9, SameQueuesKeep

LEMMA CycleKeeps ==
    ASSUME IInv, FlushFails \/ NextCycle \/ Restart
    PROVE  IInv'
<1>1. faults \in Nat
  BY DEF IInv, TypeOK
<1>2. UNCHANGED <<up, fallback, queue, received, flushed>> /\ phase' \in {"fetch", "wait"}
  BY DEF FlushFails, NextCycle, Restart
<1>3. \/ faults' = faults + 1
      \/ faults' = faults /\ phase # "send"
  BY DEF FlushFails, NextCycle, Restart, Fault
<1>4. \A m \in Messages : at'[m] = at[m] \/ (at'[m] \in {"lost", "missed"} /\ at[m] # "queued")
  BY StreamOf DEF FlushFails, NextCycle, Restart, Dropped
<1>5. TypeOK'
  <2>1. CASE FlushFails \/ NextCycle
    <3>1. UNCHANGED <<at, listener>> /\ turn' \in Dirs
      BY <2>1 DEF FlushFails, NextCycle, IInv, TypeOK, Dirs
    <3>2. batch' \in Seq(Messages) /\ delivered' \subseteq Messages
      BY <2>1 DEF FlushFails, NextCycle, IInv, TypeOK
    <3> QED
      BY <1>1, <1>2, <1>3, <3>1, <3>2 DEF IInv, TypeOK, listener
  <2>2. CASE Restart
    BY <2>2, <1>1, <1>2, <1>3 DEF Restart, IInv, TypeOK, Dirs
  <2> QED
    BY <2>1, <2>2
<1>6. Streamed'
  <2>1. CASE FlushFails \/ NextCycle
    BY <2>1 DEF FlushFails, NextCycle, IInv, Streamed, listener
  <2>2. CASE Restart
    BY <2>2 DEF Restart, Streamed
  <2> QED
    BY <2>1, <2>2
<1>7. Round'
  BY <1>2 DEF Round
<1>8. Counts'
  <2> SUFFICES ASSUME NEW m \in Messages
               PROVE  /\ at'[m] \in {"unborn", "streamed", "inflight"} => received[m] = 0
                      /\ at'[m] = "unsent" => received[m] <= faults'
                      /\ Pending(m)' => received[m] <= faults'
    BY <1>2 DEF Counts
  <2>1. /\ at[m] \in {"unborn", "streamed", "inflight"} => received[m] = 0
        /\ at[m] = "unsent" => received[m] <= faults
        /\ Pending(m) => received[m] <= faults
        /\ received[m] \in Nat /\ received[m] <= 1 + faults
    BY DEF IInv, Counts, DuplicatesAreFaults, TypeOK
  <2>2. Pending(m)' /\ phase # "send" => Pending(m)
    BY <1>2, Zenon DEF Pending, Dir
  <2> QED
    BY <1>1, <1>3, <1>4, <2>1, <2>2
<1>9. faults' >= faults /\ phase' # "send"
  BY <1>1, <1>2, <1>3
<1> QED
  BY <1>2, <1>4, <1>5, <1>6, <1>7, <1>8, <1>9, SameQueuesKeep

(* The row that is posted next: the oldest of those that are left of the     *)
(* round, not taken yet in it, and taken before only with a fault each time. *)
LEMMA NextRow ==
    ASSUME IInv, phase = "send", batch # <<>>
    PROVE  \E k \in 0..Len(queue[turn]) :
              /\ delivered = {queue[turn][i] : i \in 1..k}
              /\ k + 1 \in 1..Len(queue[turn]) /\ Head(batch) = queue[turn][k + 1]
              /\ Head(batch) \in Messages /\ Dir(Head(batch)) = turn
              /\ at[Head(batch)] = "queued" /\ received[Head(batch)] <= faults
              /\ Tail(batch) \in Seq(Messages)
              /\ (k + 1) + Len(Tail(batch)) <= Len(queue[turn])
              /\ \A i \in 1..Len(Tail(batch)) : Tail(batch)[i] = queue[turn][(k + 1) + i]
<1>1. turn \in Dirs /\ batch \in Seq(Messages) /\ Len(queue[turn]) \in Nat
  BY RowsOfQueue DEF IInv, TypeOK
<1>2. PICK k \in 0..Len(queue[turn]) :
         /\ delivered = {queue[turn][i] : i \in 1..k}
         /\ k + Len(batch) <= Len(queue[turn])
         /\ \A i \in 1..Len(batch) : batch[i] = queue[turn][k + i]
  BY DEF IInv, Round, Split
<1>3. /\ Len(batch) \in Nat \ {0} /\ Head(batch) = batch[1] /\ Tail(batch) \in Seq(Messages)
      /\ Len(Tail(batch)) = Len(batch) - 1
      /\ \A i \in 1..Len(Tail(batch)) : Tail(batch)[i] = batch[i + 1]
  BY <1>1
<1>4. k + 1 \in 1..Len(queue[turn]) /\ Head(batch) = queue[turn][k + 1]
  BY <1>1, <1>2, <1>3
<1>5. /\ Head(batch) \in Messages /\ Dir(Head(batch)) = turn /\ at[Head(batch)] = "queued"
      /\ \A j \in 1..Len(queue[turn]) : Head(batch) = queue[turn][j] => j = k + 1
  <2>1. Rows
    BY DEF IInv
  <2>2. Head(batch) \in Messages
    BY <1>1, <1>4, RowsOfQueue DEF IInv
  <2> DEFINE j == k + 1
  <2>3. j \in 1..Len(queue[turn]) /\ Head(batch) = queue[turn][j]
    BY <1>4
  <2> HIDE DEF j
  <2> QED
    BY <1>1, <2>1, <2>2, <2>3 DEF Rows, j
<1>6. Head(batch) \notin delivered
  BY <1>1, <1>2, <1>5
<1>7. Head(batch) \in ToSet(queue[turn])
  BY <1>1, <1>4, RowsOfQueue DEF IInv
<1>8. received[Head(batch)] <= faults
  BY <1>5, <1>6, <1>7 DEF IInv, Counts, Pending
<1>9. \A i \in 1..Len(Tail(batch)) : Tail(batch)[i] = queue[turn][(k + 1) + i]
  <2> SUFFICES ASSUME NEW i \in 1..Len(Tail(batch))
               PROVE  Tail(batch)[i] = queue[turn][(k + 1) + i]
    OBVIOUS
  <2>1. i + 1 \in 1..Len(batch) /\ k + (i + 1) = (k + 1) + i
    BY <1>3
  <2> QED
    BY <1>2, <1>3, <2>1
<1>10. (k + 1) + Len(Tail(batch)) <= Len(queue[turn])
  BY <1>1, <1>2, <1>3
<1> QED
  BY <1>2, <1>3, <1>4, <1>5, <1>8, <1>9, <1>10

(* What a post of the flusher leaves as it is. *)
LEMMA PostsKeepRows ==
    ASSUME IInv, UNCHANGED <<up, fallback, at, queue, turn, listener>>
    PROVE  /\ Rows' /\ Streamed'
           /\ \A m \in Messages : m \in ToSet(queue[Dir(m)]) => m \in ToSet(queue[Dir(m)])'
<1>1. \A d \in Dirs : \A i \in 1..Len(queue[d]) : queue[d][i] \in Messages
  BY RowsOfQueue DEF IInv
<1>2. Rows'
  BY <1>1 DEF IInv, Rows, Dir
<1>3. Streamed'
  BY DEF IInv, Streamed, listener
<1>4. \A m \in Messages : m \in ToSet(queue[Dir(m)]) => m \in ToSet(queue[Dir(m)])'
  BY Zenon DEF Dir
<1> QED
  BY <1>2, <1>3, <1>4

LEMMA FlushSentKeeps ==
    ASSUME IInv, FlushSent
    PROVE  IInv'
<1> DEFINE x == Head(batch)
<1>1. /\ phase = "send" /\ batch # <<>> /\ Post(x, TRUE)
      /\ delivered' = delivered \cup {x} /\ flushed' = flushed \cup {x}
      /\ batch' = Tail(batch) /\ UNCHANGED <<up, fallback, at, queue, turn, phase, listener>>
  BY DEF FlushSent
<1>2. PICK k \in 0..Len(queue[turn]) :
              /\ delivered = {queue[turn][i] : i \in 1..k}
              /\ k + 1 \in 1..Len(queue[turn]) /\ x = queue[turn][k + 1]
              /\ x \in Messages /\ Dir(x) = turn
              /\ at[x] = "queued" /\ received[x] <= faults
              /\ Tail(batch) \in Seq(Messages)
              /\ (k + 1) + Len(Tail(batch)) <= Len(queue[turn])
              /\ \A i \in 1..Len(Tail(batch)) : Tail(batch)[i] = queue[turn][(k + 1) + i]
  BY <1>1, NextRow
<1> HIDE DEF x
<1>3. received \in [Messages -> Nat] /\ faults \in Nat /\ turn \in Dirs
  BY DEF IInv, TypeOK
<1>4. received' = [received EXCEPT ![x] = @ + 1] /\ faults' = faults
  BY <1>1 DEF Post
<1>5. /\ received'[x] = received[x] + 1 /\ received' \in [Messages -> Nat]
      /\ \A m \in Messages \ {x} : received'[m] = received[m]
  <2>1. x \in Messages /\ received[x] \in Nat
    BY <1>2, <1>3
  <2> QED
    BY <1>3, <1>4, <2>1
<1>6. TypeOK'
  BY <1>1, <1>2, <1>4, <1>5 DEF IInv, TypeOK, listener
<1>7. /\ Rows' /\ Streamed'
      /\ \A m \in Messages : m \in ToSet(queue[Dir(m)]) => m \in ToSet(queue[Dir(m)])'
  BY <1>1, PostsKeepRows
<1>8. Round'
  <2>1. k + 1 \in 0..Len(queue'[turn']) /\ (k + 1) + Len(batch') <= Len(queue'[turn'])
    BY <1>1, <1>2
  <2>2. delivered' = {queue'[turn'][i] : i \in 1..(k + 1)}
    <3>1. \A i \in 1..(k + 1) : i \in 1..k \/ i = k + 1
      OBVIOUS
    <3>2. k + 1 \in 1..(k + 1) /\ \A i \in 1..k : i \in 1..(k + 1)
      OBVIOUS
    <3> QED
      BY <1>1, <1>2, <3>1, <3>2
  <2>3. \A i \in 1..Len(batch') : batch'[i] = queue'[turn'][(k + 1) + i]
    BY <1>1, <1>2
  <2> QED
    BY <2>1, <2>2, <2>3 DEF Round, Split
<1>9. Through'
  <2>1. \A m \in flushed' : m \in Messages /\ at'[m] = "queued" /\ received'[m] > 0
    <3>1. \A m \in flushed : m \in Messages /\ at[m] = "queued" /\ received[m] > 0
      BY DEF IInv, Through, TypeOK
    <3>2. flushed' = flushed \cup {x} /\ at' = at
      BY <1>1
    <3>3. \A m \in Messages : received[m] \in Nat /\ received'[m] >= received[m]
      BY <1>3, <1>5
    <3>4. x \in Messages /\ at[x] = "queued" /\ received[x] \in Nat
      BY <1>2, <1>3
    <3>5. received'[x] > 0
      BY <1>5, <3>4
    <3>6. ASSUME NEW m \in flushed PROVE received'[m] > 0
      <4>1. received[m] > 0 /\ received[m] \in Nat /\ received'[m] >= received[m]
        BY <3>1, <3>3
      <4>2. received'[m] \in Nat
        BY <1>5, <3>1
      <4> QED
        BY <4>1, <4>2
    <3> QED
      BY <3>1, <3>2, <3>4, <3>5, <3>6
  <2>2. delivered' \subseteq flushed'
    BY <1>1 DEF IInv, Through
  <2> QED
    BY <2>1, <2>2 DEF Through
<1>10. Counts'
  <2>1. \A m \in Messages : Pending(m)' => Pending(m) /\ m # x
    BY <1>1, Zenon DEF Pending, Dir
  <2> QED
    BY <1>1, <1>2, <1>4, <1>5, <2>1 DEF IInv, Counts
<1>11. Order'
  <2> SUFFICES ASSUME NEW d \in Dirs, NEW i \in 1..Len(queue[d]), NEW j \in 1..Len(queue[d]),
                      i < j, queue[d][j] \in flushed'
               PROVE  queue[d][i] \in flushed'
    BY <1>1 DEF Order
  <2>1. CASE queue[d][j] \in flushed
    BY <1>1, <2>1 DEF IInv, Order
  <2>2. CASE queue[d][j] = x
    <3>1. d = turn
      BY <1>2, <2>2 DEF IInv, Rows
    <3>2. j = k + 1
      BY <1>2, <2>2, <3>1 DEF IInv, Rows
    <3>3. i \in 1..k
      BY <1>2, <3>2
    <3>4. queue[d][i] \in delivered
      BY <1>2, <3>1, <3>3
    <3> QED
      BY <1>1, <3>4 DEF IInv, Through
  <2> QED
    BY <1>1, <2>1, <2>2
<1>12. NothingKeptIsLost'
  BY <1>1, <1>3, <1>5, <1>7 DEF IInv, NothingKeptIsLost
<1>13. DuplicatesAreFaults'
  <2> SUFFICES ASSUME NEW m \in Messages PROVE received'[m] <= 1 + faults'
    BY DEF DuplicatesAreFaults
  <2>1. CASE m = x
    <3>1. received[x] <= faults /\ received[x] \in Nat /\ received'[x] = received[x] + 1
      BY <1>2, <1>3, <1>5
    <3> QED
      BY <1>3, <1>4, <2>1, <3>1
  <2>2. CASE m # x
    BY <1>4, <1>5, <2>2 DEF IInv, DuplicatesAreFaults
  <2> QED
    BY <2>1, <2>2
<1> QED
  BY <1>6, <1>7, <1>8, <1>9, <1>10, <1>11, <1>12, <1>13 DEF IInv

(* The round ends; the row may have been taken all the same, with a fault. *)
LEMMA FlushNotSentKeeps ==
    ASSUME IInv, FlushNotSent
    PROVE  IInv'
<1> DEFINE x == Head(batch)
<1>1. /\ phase = "send" /\ batch # <<>> /\ Post(x, FALSE) /\ batch' = <<>>
      /\ UNCHANGED <<up, fallback, at, queue, turn, phase, delivered, listener, flushed>>
  BY DEF FlushNotSent
<1>2. x \in Messages /\ at[x] = "queued" /\ received[x] <= faults
  BY <1>1, NextRow
<1> HIDE DEF x
<1>3. received \in [Messages -> Nat] /\ faults \in Nat /\ turn \in Dirs
  BY DEF IInv, TypeOK
<1>4. /\ received' \in [Messages -> Nat] /\ faults' \in Nat /\ faults' >= faults
      /\ received'[x] <= faults' /\ received'[x] >= received[x]
      /\ \A m \in Messages \ {x} : received'[m] = received[m]
  <2>1. \/ UNCHANGED <<received, faults>>
        \/ received' = [received EXCEPT ![x] = @ + 1] /\ faults' = faults + 1
    BY <1>1 DEF Post, Fault
  <2> QED
    BY <1>2, <1>3, <2>1
<1>5. TypeOK'
  BY <1>1, <1>4 DEF IInv, TypeOK, listener
<1>6. /\ Rows' /\ Streamed'
      /\ \A m \in Messages : m \in ToSet(queue[Dir(m)]) => m \in ToSet(queue[Dir(m)])'
  BY <1>1, PostsKeepRows
<1>7. Round'
  <2>1. PICK k \in 0..Len(queue[turn]) : delivered = {queue[turn][i] : i \in 1..k}
    BY <1>1 DEF IInv, Round, Split
  <2>2. k + Len(batch') <= Len(queue[turn]) /\ Len(batch') = 0
    BY <1>1, <1>3, RowsOfQueue DEF IInv
  <2> QED
    BY <1>1, <2>1, <2>2 DEF Round, Split
<1>8. Through'
  <2>1. \A m \in flushed' : at'[m] = "queued" /\ received'[m] > 0
    <3>1. \A m \in flushed : m \in Messages /\ at[m] = "queued" /\ received[m] > 0
      BY DEF IInv, Through, TypeOK
    <3>2. flushed' = flushed /\ at' = at
      BY <1>1
    <3> QED
      BY <1>2, <1>3, <1>4, <3>1, <3>2
  <2>2. delivered' \subseteq flushed'
    BY <1>1 DEF IInv, Through
  <2> QED
    BY <2>1, <2>2 DEF Through
<1>9. Counts'
  <2>1. \A m \in Messages : Pending(m)' => Pending(m)
    BY <1>1, Zenon DEF Pending, Dir
  <2> QED
    BY <1>1, <1>2, <1>3, <1>4, <2>1 DEF IInv, Counts
<1>10. Order'
  BY <1>1 DEF IInv, Order
<1>11. NothingKeptIsLost' /\ DuplicatesAreFaults'
  BY <1>1, <1>2, <1>3, <1>4, <1>6 DEF IInv, NothingKeptIsLost, DuplicatesAreFaults
<1> QED
  BY <1>5, <1>6, <1>7, <1>8, <1>9, <1>10, <1>11 DEF IInv

(* The rows that were taken are deleted, and those that are left stay in     *)
(* order; a row another handler has added meanwhile is one of them.          *)
LEMMA DeleteKeeps ==
    ASSUME IInv, Delete
    PROVE  IInv'
<1> DEFINE q == queue[turn]
           r == Without(q, delivered)
<1>1. /\ UNCHANGED <<up, fallback, at, received, batch, delivered, link, misses, stream, flushed, faults>>
      /\ phase = "send" /\ queue' = [queue EXCEPT ![turn] = r]
      /\ turn' \in Dirs /\ phase' \in {"fetch", "wait"}
  BY DEF Delete, NextTurn, listener, Dirs, IInv, TypeOK
<1>2. /\ q \in Seq(Messages) /\ Len(q) \in Nat /\ turn \in Dirs
      /\ queue \in [Dirs -> Seq(Messages)]
      /\ \A i \in 1..Len(q) : q[i] \in Messages
  BY RowsOfQueue DEF IInv, TypeOK
<1> HIDE DEF q
<1>3. r \in Seq(Messages) /\ \E e : Places(q, delivered, e)
  BY <1>2, WithoutKeepsOrder
<1>4. PICK e : /\ e \in [1..Len(r) -> 1..Len(q)]
               /\ \A i, j \in 1..Len(r) : i < j => e[i] < e[j]
               /\ \A i \in 1..Len(r) : r[i] = q[e[i]] /\ q[e[i]] \notin delivered
               /\ \A k \in 1..Len(q) : q[k] \notin delivered => \E i \in 1..Len(r) : e[i] = k
  BY <1>3 DEF Places
<1> HIDE DEF r
<1>5. /\ queue' \in [Dirs -> Seq(Messages)] /\ queue'[turn] = r /\ Len(r) \in Nat
      /\ \A d \in Dirs \ {turn} : queue'[d] = queue[d]
  BY <1>1, <1>2, <1>3
<1>6. TypeOK'
  BY <1>1, <1>5 DEF IInv, TypeOK
<1>7. \A i \in 1..Len(q) : /\ Dir(q[i]) = turn /\ at[q[i]] = "queued"
                           /\ \A j \in 1..Len(q) : q[i] = q[j] => i = j
  BY <1>2 DEF IInv, Rows, q
<1>8. Rows'
  <2>1. ASSUME NEW i \in 1..Len(r), NEW j \in 1..Len(r), r[i] = r[j] PROVE i = j
    <3>1. e[i] = e[j] /\ e[i] \in 1..Len(q) /\ e[j] \in 1..Len(q)
      BY <1>4, <1>7, <2>1
    <3>2. ~(i < j) /\ ~(j < i)
      BY <1>2, <1>4, <3>1
    <3> QED
      BY <3>2
  <2>2. \A i \in 1..Len(r) : Dir(r[i]) = turn /\ at[r[i]] = "queued"
    BY <1>4, <1>7
  <2>3. \A d \in Dirs \ {turn} : \A i \in 1..Len(queue[d]) :
           /\ Dir(queue[d][i]) = d /\ at[queue[d][i]] = "queued"
           /\ \A j \in 1..Len(queue[d]) : queue[d][i] = queue[d][j] => i = j
    BY DEF IInv, Rows
  <2>4. \A d \in Dirs : \A i \in 1..Len(queue'[d]) :
           /\ Dir(queue'[d][i]) = d /\ at[queue'[d][i]] = "queued"
           /\ \A j \in 1..Len(queue'[d]) : queue'[d][i] = queue'[d][j] => i = j
    <3> SUFFICES ASSUME NEW d \in Dirs
                 PROVE  \A i \in 1..Len(queue'[d]) :
                          /\ Dir(queue'[d][i]) = d /\ at[queue'[d][i]] = "queued"
                          /\ \A j \in 1..Len(queue'[d]) : queue'[d][i] = queue'[d][j] => i = j
      OBVIOUS
    <3>1. CASE d = turn
      BY <1>5, <2>1, <2>2, <3>1
    <3>2. CASE d # turn
      BY <1>5, <2>3, <3>2
    <3> QED
      BY <3>1, <3>2
  <2> QED
    BY <1>1, <2>4 DEF Rows, Dir
<1>9. Streamed'
  BY <1>1 DEF IInv, Streamed
<1>10. Round'
  BY <1>1 DEF Round
<1>11. Through'
  BY <1>1 DEF IInv, Through
<1>12. \A m \in delivered : m \in Messages /\ Dir(m) = turn /\ received[m] > 0
  <2>1. \A m \in delivered : \E i \in 1..Len(q) : m = q[i]
    BY <1>1, <1>2 DEF IInv, Round, Split, q
  <2>2. \A m \in delivered : received[m] > 0
    BY <1>1 DEF IInv, Through
  <2> QED
    BY <1>2, <1>7, <2>1, <2>2
<1>13. \A m \in Messages :
          m \in ToSet(queue'[Dir(m)]) <=> m \in ToSet(queue[Dir(m)]) /\ m \notin delivered
  <2> SUFFICES ASSUME NEW m \in Messages
               PROVE  m \in ToSet(queue'[Dir(m)]) <=>
                        m \in ToSet(queue[Dir(m)]) /\ m \notin delivered
    OBVIOUS
  <2>1. CASE Dir(m) = turn
    <3>1. ToSet(queue'[Dir(m)]) = {r[i] : i \in 1..Len(r)}
      BY <1>3, <1>5, <2>1 DEF ToSet
    <3>2. ToSet(queue[Dir(m)]) = {q[i] : i \in 1..Len(q)}
      BY <1>2, <2>1 DEF ToSet, q
    <3>3. ASSUME m \in ToSet(queue[Dir(m)]), m \notin delivered PROVE m \in ToSet(queue'[Dir(m)])
      <4>1. PICK k \in 1..Len(q) : m = q[k]
        BY <3>2, <3>3
      <4>2. PICK i \in 1..Len(r) : e[i] = k
        BY <1>4, <3>3, <4>1
      <4> QED
        BY <1>4, <3>1, <4>1, <4>2
    <3>4. ASSUME m \in ToSet(queue'[Dir(m)]) PROVE m \in ToSet(queue[Dir(m)]) /\ m \notin delivered
      <4>1. PICK i \in 1..Len(r) : m = r[i]
        BY <3>1, <3>4
      <4> QED
        BY <1>4, <3>2, <4>1
    <3> QED
      BY <3>3, <3>4
  <2>2. CASE Dir(m) # turn
    BY <1>5, <1>12, <2>2, DirOf
  <2> QED
    BY <2>1, <2>2
<1>14. Counts'
  <2>1. \A m \in Messages : Pending(m)' => Pending(m)
    BY <1>13, Zenon DEF Pending, Dir
  <2> QED
    BY <1>1, <2>1 DEF IInv, Counts
<1>15. Order'
  <2> SUFFICES ASSUME NEW d \in Dirs, NEW i \in 1..Len(queue'[d]), NEW j \in 1..Len(queue'[d]),
                      i < j, queue'[d][j] \in flushed
               PROVE  queue'[d][i] \in flushed
    BY <1>1 DEF Order
  <2>1. CASE d = turn
    <3>1. i \in 1..Len(r) /\ j \in 1..Len(r) /\ queue'[d][i] = r[i] /\ queue'[d][j] = r[j]
      BY <1>5, <2>1
    <3>2. /\ r[i] = q[e[i]] /\ r[j] = q[e[j]] /\ e[i] < e[j]
          /\ e[i] \in 1..Len(q) /\ e[j] \in 1..Len(q)
      BY <1>4, <3>1
    <3> QED
      BY <1>2, <3>1, <3>2 DEF IInv, Order, q
  <2>2. CASE d # turn
    BY <1>5, <2>2 DEF IInv, Order
  <2> QED
    BY <2>1, <2>2
<1>16. NothingKeptIsLost'
  BY <1>1, <1>12, <1>13 DEF IInv, NothingKeptIsLost, Dir
<1>17. DuplicatesAreFaults'
  BY <1>1 DEF IInv, DuplicatesAreFaults
<1> QED
  BY <1>6, <1>8, <1>9, <1>10, <1>11, <1>14, <1>15, <1>16, <1>17 DEF IInv

-----------------------------------------------------------------------------

LEMMA IInvStep == IInv /\ [Next]_vars => IInv'
<1> SUFFICES ASSUME IInv, [Next]_vars PROVE IInv'
  OBVIOUS
<1>1. CASE \E s \in Statuses : ReportStatus(s)
  BY <1>1, ReportStatusKeeps
<1>2. CASE \E c \in Commands : Emit(c)
  BY <1>2, EmitKeeps
<1>3. CASE \E m \in Messages : Handle(m) \/ EnqueueFails(m)
  BY <1>3, PostedKeeps, EnqueueKeeps, EnqueueFailsKeeps DEF Handle
<1>4. CASE HandleCommand
  BY <1>4, HandleCommandKeeps
<1>5. CASE Flush
  BY <1>5, FetchKeeps, FlushSentKeeps, FlushNotSentKeeps, DeleteKeeps, CycleKeeps DEF Flush
<1>6. CASE FlushFails \/ Restart
  BY <1>6, CycleKeeps
<1>7. CASE Listen \/ Answered \/ NotAnswered \/ Disconnect
  BY <1>7, ConnectionKeeps, DisconnectKeeps
<1>8. CASE ToggleFallback \/ \E d \in Dirs : Toggle(d)
  BY <1>8, ToggleKeeps
<1>9. CASE UNCHANGED vars
  <2>1. /\ UNCHANGED <<up, fallback, at, queue, received, link, misses, stream, flushed, faults>>
        /\ UNCHANGED <<turn, phase, batch, delivered>> /\ UNCHANGED flusher
    BY <1>9 DEF vars, flusher, listener
  <2>2. TypeOK' /\ Streamed'
    BY <2>1 DEF IInv, TypeOK, Streamed
  <2>3. \A m \in Messages : Moved(m)
    BY <2>1 DEF IInv, Moved, TypeOK, Counts, NothingKeptIsLost, DuplicatesAreFaults
  <2>4. UNCHANGED <<queue, flusher, flushed>> /\ faults' >= faults
    BY <2>1 DEF IInv, TypeOK
  <2> QED
    BY <2>2, <2>3, <2>4, HandlersKeep
<1> QED
  BY <1>1, <1>2, <1>3, <1>4, <1>5, <1>6, <1>7, <1>8, <1>9 DEF Next

LEMMA Invariant == Spec => []IInv
BY IInvInit, IInvStep, PTL DEF Spec

(* Every status Lucy was told is forwarded or queued, and every command the  *)
(* listener is through with, has been taken by its destination or is in its  *)
(* queue: no interleaving of handlers, flusher, faults and restarts loses    *)
(* one, however many messages there are and whatever the batch size.         *)
THEOREM NothingKeptIsEverLost == Spec => []NothingKeptIsLost
<1>1. IInv => NothingKeptIsLost
  BY DEF IInv
<1> QED
  BY <1>1, Invariant, PTL

(* A message is delivered once, and once more for every fault at most.       *)
THEOREM DuplicatesAreOnlyFaults == Spec => []DuplicatesAreFaults
<1>1. IInv => DuplicatesAreFaults
  BY DEF IInv
<1> QED
  BY <1>1, Invariant, PTL

(* No row gets through the flusher before an older one that is still queued. *)
THEOREM QueuesAreFlushedInOrder == Spec => []FlushedInOrder
<1>1. IInv => FlushedInOrder
  <2>1. IInv => \A d \in Dirs : DOMAIN queue[d] = 1..Len(queue[d])
    BY DEF IInv, TypeOK
  <2> QED
    BY <2>1 DEF IInv, Order, FlushedInOrder
<1> QED
  BY <1>1, Invariant, PTL

(* What is in hand, and what of it was lost.                                 *)
InHand == {"inflight", "unsent"}

LostCommands == {c \in Commands : at[c] = "lost"}

(* The listener has one command in hand at a time, so that a fault can lose  *)
(* no more than one.                                                         *)
OneInHand == \A c, d \in Commands : at[c] \in InHand /\ at[d] \in InHand => c = d

Losses == OneInHand /\ IsFiniteSet(LostCommands) /\ LossesAreFaults

(* The commands that are lost after a step are those that were, and one more *)
(* at most.                                                                  *)
LEMMA OneMoreLost ==
    ASSUME NEW L, IsFiniteSet(L), NEW n \in Nat, Cardinality(L) <= n,
           NEW x, NEW K, K \subseteq L \cup {x}
    PROVE  IsFiniteSet(K) /\ Cardinality(K) <= n + 1
<1>1. /\ IsFiniteSet(L \cup {x}) /\ Cardinality(L) \in Nat
      /\ Cardinality(L \cup {x}) <= Cardinality(L) + 1
  <2>1. Cardinality(L) \in Nat
    BY FS_CardinalityType
  <2>2. /\ IsFiniteSet(L \cup {x})
        /\ Cardinality(L \cup {x}) = IF x \in L THEN Cardinality(L) ELSE Cardinality(L) + 1
    BY FS_AddElement, Zenon
  <2> QED
    BY <2>1, <2>2
<1>2. IsFiniteSet(K) /\ Cardinality(K) <= Cardinality(L \cup {x}) /\ Cardinality(K) \in Nat
  BY <1>1, FS_Subset, FS_CardinalityType
<1>3. Cardinality(L \cup {x}) \in Nat
  BY <1>1, FS_CardinalityType
<1> QED
  BY <1>1, <1>2, <1>3

(* A step that takes nothing in hand and loses nothing.                      *)
LEMMA CalmKeeps ==
    ASSUME IInv, Losses, faults' \in Nat, faults' >= faults,
           \A c \in Commands : at'[c] \in InHand => at[c] \in InHand,
           \A m \in Messages : at'[m] = "lost" => at[m] = "lost"
    PROVE  Losses'
<1>1. OneInHand'
  BY DEF Losses, OneInHand, InHand
<1>2. LostCommands' \subseteq LostCommands
  BY DEF LostCommands, Messages
<1>3. IsFiniteSet(LostCommands') /\ Cardinality(LostCommands') <= Cardinality(LostCommands)
  BY <1>2, FS_Subset DEF Losses
<1>4. Cardinality(LostCommands) <= faults /\ faults \in Nat
      /\ Cardinality(LostCommands) \in Nat /\ Cardinality(LostCommands') \in Nat
  BY <1>3, FS_CardinalityType DEF Losses, LossesAreFaults, LostCommands, IInv, TypeOK
<1>5. Cardinality(LostCommands') <= faults'
  BY <1>3, <1>4
<1>6. \A s \in Statuses : at'[s] = "lost" => faults' > 0
  <2> SUFFICES ASSUME NEW s \in Statuses, at'[s] = "lost" PROVE faults' > 0
    OBVIOUS
  <2>1. faults > 0
    BY DEF Losses, LossesAreFaults, Messages
  <2> QED
    BY <1>4, <2>1
<1>7. LossesAreFaults'
  BY <1>5, <1>6 DEF LossesAreFaults, LostCommands
<1> QED
  BY <1>1, <1>3, <1>7 DEF Losses

(* A fault takes nothing in hand and loses one command at most.              *)
LEMMA FaultKeeps ==
    ASSUME IInv, Losses, faults' = faults + 1, NEW x,
           \A c \in Commands : at'[c] \in InHand => at[c] \in InHand,
           \A c \in Commands : at'[c] = "lost" => at[c] = "lost" \/ c = x
    PROVE  Losses'
<1>1. OneInHand'
  BY DEF Losses, OneInHand, InHand
<1>2. faults \in Nat /\ faults' \in Nat /\ faults' > 0
  BY DEF IInv, TypeOK
<1>3. LostCommands' \subseteq LostCommands \cup {x}
  BY DEF LostCommands
<1>4. IsFiniteSet(LostCommands) /\ Cardinality(LostCommands) <= faults
  BY DEF Losses, LossesAreFaults, LostCommands
<1>5. IsFiniteSet(LostCommands') /\ Cardinality(LostCommands') <= faults + 1
  BY <1>2, <1>3, <1>4, OneMoreLost
<1>6. LossesAreFaults'
  BY <1>2, <1>5 DEF LossesAreFaults, LostCommands
<1> QED
  BY <1>1, <1>5, <1>6 DEF Losses

LEMMA LossesInit == Init => Losses
<1> SUFFICES ASSUME Init PROVE Losses
  OBVIOUS
<1>1. \A m \in Messages : at[m] = "unborn"
  BY DEF Init
<1>2. LostCommands = {} /\ OneInHand
  BY <1>1 DEF LostCommands, OneInHand, InHand, Messages
<1>3. IsFiniteSet(LostCommands) /\ Cardinality(LostCommands) = 0 /\ faults = 0
  BY <1>2, FS_EmptySet DEF Init
<1>4. LossesAreFaults
  BY <1>1, <1>3 DEF LossesAreFaults, LostCommands, Messages
<1> QED
  BY <1>2, <1>3, <1>4 DEF Losses

LEMMA HandledKeeps ==
    ASSUME IInv, Losses, NEW m \in Messages, Handle(m)
    PROVE  Losses'
<1>1. at[m] \in InHand /\ \E there \in {"forwarded", "unsent", "queued"} :
         at' = [at EXCEPT ![m] = there]
  BY DEF Handle, Forwarded, NotForwarded, Enqueue, InHand
<1>2. faults' \in Nat /\ faults' >= faults
  BY DEF Handle, Forwarded, NotForwarded, Enqueue, Post, Fault, IInv, TypeOK
<1>3. \A c \in Commands : at'[c] \in InHand => at[c] \in InHand
  BY <1>1 DEF IInv, TypeOK, InHand, Messages
<1>4. \A k \in Messages : at'[k] = "lost" => at[k] = "lost"
  BY <1>1 DEF IInv, TypeOK
<1> QED
  BY <1>2, <1>3, <1>4, CalmKeeps

LEMMA ReadKeeps ==
    ASSUME IInv, Losses, HandleCommand
    PROVE  Losses'
<1>1. Head(stream) \in Messages /\ stream # <<>> /\ at[Head(stream)] = "streamed"
  BY StreamOf DEF HandleCommand, IInv, Streamed
<1>2. /\ at'[Head(stream)] \in {"inflight", "ignored"}
      /\ \A k \in Messages \ {Head(stream)} : at'[k] = at[k]
  BY <1>1 DEF HandleCommand, IInv, TypeOK
<1>3. \A c \in Commands : at[c] \notin InHand
  BY DEF HandleCommand, Busy, InHand
<1>4. OneInHand'
  BY <1>2, <1>3 DEF OneInHand, InHand, Messages
<1>5. \A k \in Messages : at'[k] = "lost" <=> at[k] = "lost"
  BY <1>1, <1>2
<1>6. LostCommands' = LostCommands /\ faults' = faults
  BY <1>5 DEF LostCommands, HandleCommand, Messages
<1>7. LossesAreFaults'
  BY <1>5, <1>6 DEF Losses, LossesAreFaults, LostCommands, Messages
<1> QED
  BY <1>4, <1>6, <1>7 DEF Losses

LEMMA FailedKeeps ==
    ASSUME IInv, Losses, NEW m \in Messages, EnqueueFails(m)
    PROVE  Losses'
<1>1. /\ at[m] = "unsent" /\ faults' = faults + 1
      /\ at' = [at EXCEPT ![m] = "lost"]
         \/ at' = [k \in Messages |->
                     IF k = m THEN "lost" ELSE IF k \in Dropped THEN "missed" ELSE at[k]]
  BY DEF EnqueueFails, Fault
<1>2. \A c \in Commands : at'[c] \in InHand => at[c] \in InHand
  BY <1>1 DEF InHand, IInv, TypeOK, Messages
<1>3. \A c \in Commands : at'[c] = "lost" => at[c] = "lost" \/ c = m
  BY <1>1 DEF IInv, TypeOK, Messages
<1> QED
  BY <1>1, <1>2, <1>3, FaultKeeps

LEMMA RestartLoses ==
    ASSUME IInv, Losses, Restart
    PROVE  Losses'
<1>1. /\ faults' = faults + 1
      /\ at' = [m \in Messages |-> IF at[m] \in {"inflight", "unsent"} THEN "lost"
                                   ELSE IF m \in Dropped THEN "missed" ELSE at[m]]
  BY DEF Restart, Fault
<1>2. \A c \in Commands : at'[c] \in InHand => at[c] \in InHand
  BY <1>1 DEF InHand, Messages
<1>3. \E x : \A c \in Commands : at[c] \in InHand => c = x
  BY DEF Losses, OneInHand
<1>4. PICK x : \A c \in Commands : at[c] \in InHand => c = x
  BY <1>3
<1>5. \A c \in Commands : at'[c] = "lost" => at[c] = "lost" \/ c = x
  BY <1>1, <1>4 DEF InHand, Messages
<1> QED
  BY <1>1, <1>2, <1>5, FaultKeeps

LEMMA LossesStep == IInv /\ Losses /\ [Next]_vars => Losses'
<1> SUFFICES ASSUME IInv, Losses, [Next]_vars PROVE Losses'
  OBVIOUS
<1>1. CASE UNCHANGED at /\ faults' \in Nat /\ faults' >= faults
  BY <1>1, CalmKeeps
<1>2. ASSUME NEW s \in Statuses, ReportStatus(s) PROVE Losses'
  <2>1. /\ faults' \in Nat /\ faults' >= faults
        /\ at' = [at EXCEPT ![s] = "inflight"] /\ s \notin Commands
    BY <1>2, MessagesAssumption DEF ReportStatus, IInv, TypeOK
  <2>2. \A c \in Commands : at'[c] \in InHand => at[c] \in InHand
    BY <2>1 DEF IInv, TypeOK, Messages
  <2>3. \A m \in Messages : at'[m] = "lost" => at[m] = "lost"
    BY <2>1 DEF IInv, TypeOK
  <2> QED
    BY <2>1, <2>2, <2>3, CalmKeeps
<1>3. ASSUME NEW c \in Commands, Emit(c) PROVE Losses'
  <2>1. faults' \in Nat /\ faults' >= faults /\ at' = [at EXCEPT ![c] = "streamed"]
    BY <1>3 DEF Emit, IInv, TypeOK
  <2>2. \A d \in Commands : at'[d] \in InHand => at[d] \in InHand
    BY <2>1 DEF IInv, TypeOK, Messages, InHand
  <2>3. \A m \in Messages : at'[m] = "lost" => at[m] = "lost"
    BY <2>1 DEF IInv, TypeOK
  <2> QED
    BY <2>1, <2>2, <2>3, CalmKeeps
<1>4. ASSUME NEW m \in Messages, Handle(m) \/ EnqueueFails(m) PROVE Losses'
  BY <1>4, HandledKeeps, FailedKeeps
<1>5. CASE HandleCommand
  BY <1>5, ReadKeeps
<1>6. CASE Flush \/ FlushFails
  <2>1. UNCHANGED at
    BY <1>6 DEF Flush, FlushFails, Fetch, FlushSent, FlushNotSent, Delete, NextCycle
  <2>2. faults' \in Nat /\ faults' >= faults
    BY <1>6 DEF Flush, FlushFails, Fetch, FlushSent, FlushNotSent, Delete, NextCycle,
                Post, Fault, IInv, TypeOK
  <2> QED
    BY <1>1, <2>1, <2>2
<1>7. CASE Listen \/ Answered \/ NotAnswered
  BY <1>1, <1>7 DEF Listen, Ask, Connect, ConnectFails, Answered, NotAnswered, Elsewhere,
                    IInv, TypeOK
<1>8. CASE Disconnect
  <2>1. /\ faults' \in Nat /\ faults' >= faults
        /\ at' = [m \in Messages |-> IF m \in Dropped THEN "missed" ELSE at[m]]
    BY <1>8 DEF Disconnect, IInv, TypeOK
  <2>2. \A c \in Commands : at'[c] \in InHand => at[c] \in InHand
    BY <2>1 DEF Messages, InHand
  <2>3. \A m \in Messages : at'[m] = "lost" => at[m] = "lost"
    BY <2>1
  <2> QED
    BY <2>1, <2>2, <2>3, CalmKeeps
<1>9. CASE ToggleFallback \/ (\E d \in Dirs : Toggle(d)) \/ UNCHANGED vars
  BY <1>1, <1>9 DEF ToggleFallback, Toggle, vars, IInv, TypeOK
<1>10. CASE Restart
  BY <1>10, RestartLoses
<1> QED
  BY <1>2, <1>3, <1>4, <1>5, <1>6, <1>7, <1>8, <1>9, <1>10 DEF Next

(* A status is lost only if there was a fault, and of the commands no more   *)
(* are than there were faults, however many are sent and whatever the        *)
(* listener, the flusher and the restarts do in between.                     *)
THEOREM OnlyFaultsLose == Spec => []LossesAreFaults
<1>1. Losses => LossesAreFaults
  BY DEF Losses
<1> QED
  BY <1>1, Invariant, LossesInit, LossesStep, PTL DEF Spec

-----------------------------------------------------------------------------
(* Training. *)

States == {"begun", "opened", "listed", "training", "snapshot", "record",
           "file", "written", "latest", "finish"}

Procs == [at : States, run : Runs \cup {Nobody}, resume : BOOLEAN, prev : Nat,
          steps : Nat, total : Nat, done : Nat, best : Nat, last : Nat]

RowSet == [status : {"RUNNING", "FAILED", "DONE"}, steps : Nat, loss : Nat,
           old : BOOLEAN, asked : Nat, total : Nat]

Files == {Absent, Torn}
         \cup [is : {"whole"}, run : Runs, steps : 1..Target, loss : Nat]

(* What is true of the local state s of a trainer by itself ...              *)
OnCourse(s) ==
    /\ s \in Procs \cup {Idle}
    /\ s # Idle =>
          /\ s.total = Target /\ s.prev + s.steps = Target
          /\ s.done <= s.steps /\ (s.at = "snapshot" => s.done >= 1)
          /\ s.at \notin {"begun", "opened"} => s.run \in Runs

Mine(s) == s.at \notin {"idle", "begun", "opened"}

(* ... and of it, the ledger and the files: the row is its own and not yet   *)
(* DONE, though it may have been reaped.                                     *)
Owner(s, R, F) ==
    Mine(s) =>
       /\ s.run \in DOMAIN R
       /\ R[s.run].status # "DONE"
       /\ R[s.run].asked = s.steps /\ R[s.run].total = s.total
       /\ s.at \in {"written", "latest", "finish"} =>
              F[s.run] = Checkpoint(s.run, s.prev + s.steps, s.best)

(* No two trainers have the same run.                                        *)
ProcInv(P, R, F) ==
    /\ P = [p \in Trainers |-> P[p]]
    /\ \A p \in Trainers : OnCourse(P[p])
    /\ \A p \in Trainers : Owner(P[p], R, F)
    /\ \A p, q \in Trainers : p # q /\ Mine(P[p]) /\ Mine(P[q]) => P[p].run # P[q].run

RowInv(R) ==
    /\ DOMAIN R \subseteq Runs
    /\ R = [r \in DOMAIN R |-> R[r]]
    /\ \A r \in DOMAIN R : R[r] \in RowSet /\ R[r].steps <= R[r].asked

FileInv == latest \in Files /\ files \in [Runs -> Files]

TrainingInv ==
    ProcInv(proc, rows, files) /\ RowInv(rows) /\ FileInv /\ DoneIsWhole /\ TracedBack

(* A step of trainer p to the local state s, in terms of what p and the      *)
(* others own before and after.                                              *)
LEMMA ProcKept ==
    ASSUME NEW P, NEW R, NEW F, NEW R2, NEW F2, NEW p \in Trainers, NEW s,
           ProcInv(P, R, F), OnCourse(s), Owner(s, R2, F2),
           \A q \in Trainers \ {p} : Owner(P[q], R2, F2),
           Mine(s) => \A q \in Trainers \ {p} : Mine(P[q]) => P[q].run # s.run
    PROVE  ProcInv([P EXCEPT ![p] = s], R2, F2)
<1> DEFINE Q == [P EXCEPT ![p] = s]
<1>1. Q = [q \in Trainers |-> IF q = p THEN s ELSE P[q]]
  BY DEF ProcInv
<1> HIDE DEF Q
<1>2. Q = [q \in Trainers |-> Q[q]] /\ Q[p] = s /\ \A q \in Trainers \ {p} : Q[q] = P[q]
  BY <1>1
<1>3. \A q \in Trainers : OnCourse(Q[q]) /\ Owner(Q[q], R2, F2)
  BY <1>2 DEF ProcInv
<1>4. \A q, o \in Trainers : q # o /\ Mine(Q[q]) /\ Mine(Q[o]) => Q[q].run # Q[o].run
  BY <1>2 DEF ProcInv
<1>5. ProcInv(Q, R2, F2)
  BY <1>2, <1>3, <1>4 DEF ProcInv
<1> QED
  BY <1>5 DEF Q

(* What is owned stays owned while its row is not turned to DONE and its     *)
(* file is left alone.                                                       *)
LEMMA OwnerKept ==
    ASSUME NEW s, NEW R, NEW F, NEW R2, NEW F2, Owner(s, R, F),
           Mine(s) => /\ s.run \in DOMAIN R2
                      /\ R2[s.run].status = "DONE" => R[s.run].status = "DONE"
                      /\ R2[s.run].asked = R[s.run].asked
                      /\ R2[s.run].total = R[s.run].total
                      /\ F2[s.run] = F[s.run]
    PROVE  Owner(s, R2, F2)
BY DEF Owner

LEMMA TrainingInit == TrainInit => TrainingInv
<1> SUFFICES ASSUME TrainInit PROVE TrainingInv
  OBVIOUS
<1>1. ProcInv(proc, rows, files)
  BY DEF TrainInit, ProcInv, OnCourse, Owner, Mine, Idle
<1>2. RowInv(rows)
  BY DEF TrainInit, RowInv
<1>3. FileInv
  BY DEF TrainInit, FileInv, Files
<1>4. DoneIsWhole /\ TracedBack
  BY DEF TrainInit, DoneIsWhole, TracedBack, Absent
<1> QED
  BY <1>1, <1>2, <1>3, <1>4 DEF TrainingInv

(* Where nothing but the local state of p changes.                           *)
LEMMA MoveKept ==
    ASSUME NEW P, NEW R, NEW F, NEW p \in Trainers, NEW s,
           ProcInv(P, R, F), OnCourse(s), Owner(s, R, F),
           Mine(s) => Mine(P[p]) /\ s.run = P[p].run
    PROVE  ProcInv([P EXCEPT ![p] = s], R, F)
<1>1. \A q \in Trainers \ {p} : Owner(P[q], R, F)
  BY DEF ProcInv
<1>2. Mine(s) => \A q \in Trainers \ {p} : Mine(P[q]) => P[q].run # s.run
  BY DEF ProcInv
<1> QED
  BY <1>1, <1>2, ProcKept

LEMMA LiveProc ==
    ASSUME NEW s, OnCourse(s), s.at # "idle"
    PROVE  /\ s \in Procs /\ s.at \in States
           /\ s.total = Target /\ s.prev + s.steps = Target
           /\ s.done <= s.steps /\ (s.at = "snapshot" => s.done >= 1)
           /\ Mine(s) => s.run \in Runs
BY DEF OnCourse, Idle, Procs, Mine

LEMMA IdleProc == OnCourse(Idle) /\ ~Mine(Idle)
BY DEF OnCourse, Idle, Mine

(* A row whose status, but not to DONE, or age or numbers change.            *)
LEMMA RowsKept ==
    ASSUME NEW R, NEW R2, RowInv(R), DOMAIN R2 = DOMAIN R,
           R2 = [r \in DOMAIN R |-> R2[r]],
           \A r \in DOMAIN R : R2[r] \in RowSet /\ R2[r].steps <= R2[r].asked
    PROVE  RowInv(R2)
BY DEF RowInv

LEMMA StepHour == TrainingInv /\ HourPasses => TrainingInv'
<1> SUFFICES ASSUME TrainingInv, HourPasses PROVE TrainingInv'
  OBVIOUS
<1> USE DEF TrainingInv
<1>1. /\ DOMAIN rows' = DOMAIN rows
      /\ \A r \in DOMAIN rows : rows'[r] = [rows[r] EXCEPT !.old = TRUE]
      /\ rows' = [r \in DOMAIN rows |-> rows'[r]]
      /\ UNCHANGED <<latest, files, proc, sole>>
  BY DEF HourPasses
<1>2. ASSUME NEW r \in DOMAIN rows
      PROVE  /\ rows'[r] \in RowSet /\ rows'[r].steps <= rows'[r].asked
             /\ rows'[r].status = rows[r].status /\ rows'[r].loss = rows[r].loss
             /\ rows'[r].asked = rows[r].asked /\ rows'[r].total = rows[r].total
  <2> DEFINE row == rows[r]  next == rows'[r]
  <2>1. row \in RowSet /\ row.steps <= row.asked /\ next = [row EXCEPT !.old = TRUE]
    BY <1>1 DEF RowInv
  <2> HIDE DEF row, next
  <2>2. /\ next \in RowSet /\ next.steps <= next.asked
        /\ next.status = row.status /\ next.loss = row.loss
        /\ next.asked = row.asked /\ next.total = row.total
    BY <2>1 DEF RowSet
  <2> QED
    BY <2>2 DEF row, next
<1>3. ProcInv(proc, rows', files)
  <2>1. ASSUME NEW p \in Trainers PROVE Owner(proc[p], rows', files)
    BY <1>1, <1>2 DEF ProcInv, Owner
  <2> QED
    BY <2>1 DEF ProcInv
<1>4. RowInv(rows')
  BY <1>1, <1>2, RowsKept
<1> QED
  BY <1>1, <1>2, <1>3, <1>4 DEF FileInv, DoneIsWhole, TracedBack

(* Steps that leave ledger and files alone.                                  *)
LEMMA StepLocal ==
    ASSUME NEW p \in Trainers, TrainingInv,
           Fresh(p) \/ Resume(p) \/ Load(p) \/ SkippedStep(p) \/ Kill(p)
    PROVE  TrainingInv'
<1> USE DEF TrainingInv
<1>1. UNCHANGED <<latest, files, rows, sole>>
  BY DEF Fresh, Resume, Begin, Load, SkippedStep, Kill
<1>2. ProcInv(proc', rows, files)
  <2>1. CASE Fresh(p) \/ Resume(p)
    <3>1. PICK resume \in BOOLEAN, steps \in Nat, prev \in Nat :
              Begin(p, resume, steps, prev) /\ prev + steps = Target
      <4>1. 0 + Target = Target /\ Target \in Nat
        BY TrainingAssumption
      <4>2. ASSUME Resume(p)
            PROVE  /\ latest.steps + Remaining = Target
                   /\ latest.steps \in Nat /\ Remaining \in Nat
        <5>1. latest.is = "whole" /\ latest \in Files
          BY <4>2 DEF Resume, FileInv
        <5>2. latest.steps \in 1..Target
          BY <5>1 DEF Files, Absent, Torn
        <5> QED
          BY <5>2, TrainingAssumption DEF Remaining
      <4>3. CASE Fresh(p)
        BY <4>1, <4>3 DEF Fresh
      <4>4. CASE Resume(p)
        <5>1. Begin(p, TRUE, Remaining, latest.steps)
          BY <4>4 DEF Resume
        <5> QED
          BY <4>2, <4>4, <5>1
      <4> QED
        BY <2>1, <4>3, <4>4
    <3> DEFINE s == [at |-> "begun", run |-> Nobody, resume |-> resume, prev |-> prev,
                     steps |-> steps, total |-> prev + steps, done |-> 0,
                     best |-> 0, last |-> 0]
    <3>2. OnCourse(s)
      BY <3>1 DEF OnCourse, Procs, States, Idle
    <3>3. ~Mine(s)
      BY DEF Mine
    <3>4. proc' = [proc EXCEPT ![p] = s]
      BY <3>1 DEF Begin
    <3> HIDE DEF s
    <3>5. Owner(s, rows, files)
      BY <3>3 DEF Owner
    <3> QED
      BY <3>2, <3>3, <3>4, <3>5, MoveKept
  <2>2. CASE Load(p) \/ SkippedStep(p)
    <3> DEFINE s == proc'[p]
    <3>1. /\ OnCourse(proc[p]) /\ Owner(proc[p], rows, files)
          /\ proc[p].at # "idle" /\ Mine(proc[p]) /\ proc = [q \in Trainers |-> proc[q]]
      BY <2>2 DEF Load, SkippedStep, ProcInv, Mine
    <3>2. proc' = [proc EXCEPT ![p] = s]
          /\ (s = [proc[p] EXCEPT !.at = "training"]
              \/ (s = [proc[p] EXCEPT !.done = @ + 1] /\ proc[p].at = "training"
                  /\ proc[p].done < proc[p].steps))
      BY <2>2, <3>1 DEF Load, SkippedStep, Go
    <3>3. OnCourse(s) /\ s.run = proc[p].run /\ s.at = "training"
          /\ s.steps = proc[p].steps /\ s.total = proc[p].total
      BY <3>1, <3>2, LiveProc DEF OnCourse, Procs, States, Mine, Idle
    <3> HIDE DEF s
    <3>4. Owner(s, rows, files)
      BY <3>1, <3>3 DEF Owner, Mine
    <3> QED
      BY <3>1, <3>2, <3>3, <3>4, MoveKept
  <2>3. CASE Kill(p)
    BY <2>3, IdleProc, MoveKept DEF Kill, Stop, Owner
  <2> QED
    BY <2>1, <2>2, <2>3
<1> QED
  BY <1>1, <1>2 DEF FileInv, DoneIsWhole, TracedBack

(* Steps on the ledger.                                                      *)
LEMMA StepOpen ==
    ASSUME NEW p \in Trainers, TrainingInv, Open(p)
    PROVE  TrainingInv'
<1> USE DEF TrainingInv
<1> DEFINE s == [proc[p] EXCEPT !.at = "opened"]
<1>1. /\ UNCHANGED <<latest, files>>
      /\ DOMAIN rows' = DOMAIN rows /\ rows' = [r \in DOMAIN rows |-> rows'[r]]
      /\ \A r \in DOMAIN rows : rows'[r] = Reaped(rows[r])
      /\ proc[p].at = "begun" /\ proc' = [proc EXCEPT ![p] = s]
  BY DEF Open, Go
<1>2. ASSUME NEW r \in DOMAIN rows
      PROVE  /\ rows'[r] \in RowSet /\ rows'[r].steps <= rows'[r].asked
             /\ rows'[r].status = "DONE" => rows[r].status = "DONE"
             /\ rows'[r].loss = rows[r].loss
             /\ rows'[r].asked = rows[r].asked /\ rows'[r].total = rows[r].total
  <2> DEFINE row == rows[r]  next == rows'[r]
  <2>1. row \in RowSet /\ row.steps <= row.asked /\ next = Reaped(row)
    BY <1>1 DEF RowInv
  <2> HIDE DEF row, next
  <2>2. /\ next \in RowSet /\ next.steps <= next.asked
        /\ next.status = "DONE" => row.status = "DONE"
        /\ next.loss = row.loss
        /\ next.asked = row.asked /\ next.total = row.total
    BY <2>1 DEF RowSet, Reaped
  <2> QED
    BY <2>2 DEF row, next
<1>3. OnCourse(s) /\ ~Mine(s)
  <2>1. OnCourse(proc[p])
    BY DEF ProcInv
  <2> QED
    BY <1>1, <2>1 DEF OnCourse, Procs, States, Mine, Idle
<1>4. \A q \in Trainers : Owner(proc[q], rows', files)
  BY <1>1, <1>2 DEF ProcInv, Owner
<1>5. ProcInv(proc', rows', files)
  <2>1. Owner(s, rows', files)
    BY <1>3 DEF Owner
  <2> HIDE DEF s
  <2> QED
    BY <1>1, <1>3, <1>4, <2>1, ProcKept
<1>6. RowInv(rows')
  BY <1>1, <1>2, RowsKept
<1> QED
  BY <1>1, <1>2, <1>5, <1>6 DEF FileInv, DoneIsWhole, TracedBack

LEMMA StepStartRun ==
    ASSUME NEW p \in Trainers, NEW run \in Runs, TrainingInv, StartRun(p, run)
    PROVE  TrainingInv'
<1> USE DEF TrainingInv
<1> DEFINE s == [proc[p] EXCEPT !.at = "listed", !.run = run]
           row == [status |-> "RUNNING", steps |-> 0, loss |-> 0, old |-> FALSE,
                   asked |-> proc[p].steps, total |-> proc[p].total]
<1>1. /\ UNCHANGED <<latest, files>>
      /\ run \notin DOMAIN rows /\ DOMAIN rows' = DOMAIN rows \cup {run}
      /\ rows' = [r \in DOMAIN rows' |-> rows'[r]]
      /\ \A r \in DOMAIN rows : rows'[r] = rows[r]
      /\ rows'[run] = row
      /\ proc[p].at = "opened" /\ proc' = [proc EXCEPT ![p] = s]
  BY DEF StartRun
<1>2. OnCourse(proc[p]) /\ proc[p] \in Procs
  BY <1>1, LiveProc DEF ProcInv
<1>3. OnCourse(s) /\ Mine(s) /\ s.run = run /\ s.at = "listed"
      /\ s.steps = proc[p].steps /\ s.total = proc[p].total
  <2> DEFINE before == proc[p]
  <2>1. /\ before \in Procs /\ before.total = Target
        /\ before.prev + before.steps = Target /\ before.done <= before.steps
    BY <1>1, <1>2, LiveProc
  <2>2. s = [before EXCEPT !.at = "listed", !.run = run]
    OBVIOUS
  <2> HIDE DEF before, s
  <2>3. /\ s \in Procs /\ s.at = "listed" /\ s.run = run
        /\ s.steps = before.steps /\ s.total = before.total
        /\ s.prev = before.prev /\ s.done = before.done
    BY <2>1, <2>2 DEF Procs, States
  <2>4. OnCourse(s) /\ Mine(s)
    BY <2>1, <2>3 DEF OnCourse, Mine
  <2> QED
    BY <2>3, <2>4 DEF before
<1>4. row \in RowSet /\ row.steps <= row.asked
  BY <1>2 DEF RowSet, Procs
<1>5. \A q \in Trainers :
          Owner(proc[q], rows', files) /\ (Mine(proc[q]) => proc[q].run # run)
  BY <1>1 DEF ProcInv, Owner
<1>6. ProcInv(proc', rows', files)
  <2>1. Owner(s, rows', files)
    BY <1>1, <1>3 DEF Owner
  <2> HIDE DEF s
  <2> QED
    BY <1>1, <1>3, <1>5, <2>1, ProcKept
<1>7. RowInv(rows')
  BY <1>1, <1>4 DEF RowInv
<1> QED
  BY <1>1, <1>6, <1>7 DEF FileInv, DoneIsWhole, TracedBack

(* update(), finish_run(DONE) and finish_run(FAILED).                        *)
LEMMA StepRow ==
    ASSUME NEW p \in Trainers, TrainingInv, Record(p) \/ Finish(p) \/ Raise(p)
    PROVE  TrainingInv'
<1> USE DEF TrainingInv
<1> DEFINE s == proc'[p]  run == proc[p].run
<1>1. /\ UNCHANGED <<latest, files, sole>>
      /\ OnCourse(proc[p]) /\ Owner(proc[p], rows, files) /\ proc[p] \in Procs
  BY LiveProc DEF Record, Finish, Raise, ProcInv, Live
<1>2. /\ proc' = [proc EXCEPT ![p] = s] /\ OnCourse(s)
      /\ Mine(s) => /\ Record(p) /\ Mine(proc[p]) /\ s.run = run /\ s.at = "training"
                    /\ s.steps = proc[p].steps /\ s.total = proc[p].total
  <2>1. proc = [q \in Trainers |-> proc[q]]
    BY DEF ProcInv
  <2>2. CASE Record(p)
    <3>1. proc' = [proc EXCEPT ![p] = s] /\ s = [proc[p] EXCEPT !.at = "training"]
          /\ proc[p].at = "record"
      BY <2>1, <2>2 DEF Record, Go
    <3> HIDE DEF s
    <3> QED
      BY <1>1, <2>2, <3>1 DEF OnCourse, Procs, States, Mine, Idle
  <2>3. CASE Finish(p) \/ Raise(p)
    <3>1. proc' = [proc EXCEPT ![p] = s] /\ s = Idle
      BY <2>1, <2>3 DEF Finish, Raise, Stop
    <3> QED
      BY <3>1, IdleProc
  <2> QED
    BY <2>2, <2>3
<1>3. CASE Raise(p) /\ ~Listed(p)
  <2>1. rows' = rows /\ s = Idle
    BY <1>2, <1>3 DEF Raise, Stop, ProcInv
  <2>2. ProcInv(proc', rows, files)
    BY <1>2, <2>1, IdleProc, MoveKept DEF Owner
  <2> QED
    BY <1>1, <2>1, <2>2 DEF FileInv, DoneIsWhole, TracedBack
<1>4. CASE Record(p) \/ Finish(p) \/ (Raise(p) /\ Listed(p))
  <2> DEFINE row == rows[run]  next == rows'[run]
  <2>1. Mine(proc[p]) /\ run \in DOMAIN rows /\ row.status # "DONE"
        /\ row.asked = proc[p].steps /\ row.total = proc[p].total
        /\ row \in RowSet /\ row.steps <= row.asked
    BY <1>1, <1>4 DEF Record, Finish, Listed, Mine, Owner, RowInv
  <2>2. /\ DOMAIN rows' = DOMAIN rows /\ rows' = [r \in DOMAIN rows |-> rows'[r]]
        /\ \A r \in DOMAIN rows \ {run} : rows'[r] = rows[r]
        /\ \/ Record(p) /\ next = [row EXCEPT !.steps = proc[p].done, !.loss = proc[p].last]
           \/ Finish(p) /\ next = [row EXCEPT !.status = "DONE", !.loss = proc[p].best]
           \/ Raise(p) /\ next = [row EXCEPT !.status = "FAILED"]
    BY <1>4, <2>1 DEF Record, Finish, Raise, RowInv
  <2>3. /\ next \in RowSet /\ next.steps <= next.asked
        /\ next.asked = row.asked /\ next.total = row.total
        /\ next.status = "DONE" => Finish(p) /\ next.loss = proc[p].best
    <3>1. /\ proc[p].done \in Nat /\ proc[p].last \in Nat /\ proc[p].best \in Nat
          /\ proc[p].done <= proc[p].steps
      BY <1>1, LiveProc DEF Procs, OnCourse, Idle, States
    <3> HIDE DEF row, next
    <3> QED
      BY <2>1, <2>2, <3>1 DEF RowSet
  <2>4. \A q \in Trainers \ {p} : Owner(proc[q], rows', files)
    <3> SUFFICES ASSUME NEW q \in Trainers \ {p}, Mine(proc[q])
                 PROVE  Owner(proc[q], rows', files)
      BY DEF Owner
    <3>1. Owner(proc[q], rows, files) /\ proc[q].run # run
      BY <2>1 DEF ProcInv
    <3> QED
      BY <2>2, <3>1 DEF Owner
  <2>5. ProcInv(proc', rows', files)
    <3>1. Owner(s, rows', files)
      <4> SUFFICES ASSUME Mine(s) PROVE Owner(s, rows', files)
        BY DEF Owner
      <4>1. next.status # "DONE"
        <5>1. Record(p)
          BY <1>2
        <5>2. ~Finish(p)
          BY <5>1 DEF Record, Finish
        <5> QED
          BY <2>3, <5>2
      <4> HIDE DEF s
      <4> QED
        BY <1>2, <2>1, <2>2, <2>3, <4>1 DEF Owner
    <3>2. Mine(s) => \A q \in Trainers \ {p} : Mine(proc[q]) => proc[q].run # s.run
      BY <1>2 DEF ProcInv
    <3> HIDE DEF s
    <3> QED
      BY <1>2, <2>4, <3>1, <3>2, ProcKept
  <2>6. RowInv(rows')
    <3>1. \A r \in DOMAIN rows : rows'[r] \in RowSet /\ rows'[r].steps <= rows'[r].asked
      BY <2>2, <2>3 DEF RowInv
    <3> QED
      BY <2>2, <3>1, RowsKept
  <2>7. DoneIsWhole'
    <3>1. Finish(p) => files[run] = Checkpoint(run, row.total, proc[p].best)
      BY <1>1, <2>1, LiveProc DEF Finish, Owner
    <3>2. next.status = "DONE" => files[run] = Checkpoint(run, next.total, next.loss)
      BY <2>3, <3>1
    <3> QED
      BY <1>1, <2>2, <3>2 DEF DoneIsWhole
  <2> QED
    BY <1>1, <2>2, <2>5, <2>6, <2>7 DEF FileInv, TracedBack
<1> QED
  BY <1>3, <1>4

(* Steps on latest.json.                                                     *)
LEMMA StepLatest ==
    ASSUME NEW p \in Trainers, TrainingInv,
           Step(p) \/ Snapshot(p) \/ Publish(p) \/ Published(p)
    PROVE  TrainingInv'
<1> USE DEF TrainingInv
<1> DEFINE s == proc'[p]  before == proc[p]
<1>1. /\ UNCHANGED <<files, rows>>
      /\ OnCourse(before) /\ Owner(before, rows, files) /\ Mine(before)
      /\ proc = [q \in Trainers |-> proc[q]]
  BY DEF Step, Snapshot, Publish, Published, ProcInv, Mine
<1>2. /\ before \in Procs /\ before.total = Target /\ before.run \in Runs
      /\ before.prev + before.steps = Target /\ before.done <= before.steps
      /\ before.at = "snapshot" => before.done >= 1
  BY <1>1, LiveProc DEF Mine
<1>3. /\ proc' = [proc EXCEPT ![p] = s]
      /\ \/ /\ before.at = "training" /\ before.done < before.steps
            /\ \E best \in Nat, after \in {"snapshot", "record", "training"} :
                   s = [before EXCEPT !.done = before.done + 1, !.last = before.done + 1,
                                      !.best = best, !.at = after]
         \/ before.at = "snapshot" /\ s = [before EXCEPT !.at = "record"]
         \/ before.at = "written" /\ s = [before EXCEPT !.at = "latest"]
         \/ before.at = "latest" /\ s = [before EXCEPT !.at = "finish"]
  <2>1. CASE Step(p)
    <3> DEFINE step == before.done + 1
    <3>1. PICK best \in {step} \cup ({before.best} \ {0}) :
              proc' = [proc EXCEPT ![p].done = step, ![p].last = step, ![p].best = best,
                         ![p].at = IF SnapshotDue(p, step) THEN "snapshot"
                                   ELSE IF RecordDue(p, step) THEN "record" ELSE @]
      BY <2>1 DEF Step
    <3>2. best \in Nat /\ before.at = "training" /\ before.done < before.steps
      <4>1. before.done \in Nat /\ before.best \in Nat
        BY <1>2 DEF Procs
      <4>2. before.at = "training" /\ before.done < before.steps
        BY <2>1 DEF Step
      <4>3. best = step \/ best = before.best
        BY <3>1
      <4> HIDE DEF before
      <4> QED
        BY <4>1, <4>2, <4>3
    <3> DEFINE after == IF SnapshotDue(p, step) THEN "snapshot"
                     ELSE IF RecordDue(p, step) THEN "record" ELSE before.at
    <3>3. proc' = [proc EXCEPT ![p] = [before EXCEPT !.done = step, !.last = step,
                                                    !.best = best, !.at = after]]
      BY <3>1
    <3>4. after \in {"snapshot", "record", "training"}
      BY <3>2
    <3> HIDE DEF after
    <3> QED
      BY <1>1, <3>2, <3>3, <3>4
  <2>2. CASE Snapshot(p) \/ Publish(p) \/ Published(p)
    BY <1>1, <2>2 DEF Snapshot, Publish, Published, Go
  <2> QED
    BY <2>1, <2>2
<1>4. /\ OnCourse(s) /\ Mine(s) /\ s.run = before.run
      /\ s.steps = before.steps /\ s.total = before.total /\ s.prev = before.prev
      /\ s.at \in {"latest", "finish"} =>
            before.at \in {"written", "latest"} /\ s.best = before.best
      /\ s.at # "written"
  <2> HIDE DEF s, before
  <2>1. /\ s \in Procs /\ s.run = before.run /\ s.at \in States \ {"begun", "opened", "written"}
        /\ s.steps = before.steps /\ s.total = before.total /\ s.prev = before.prev
        /\ s.done <= s.steps /\ (s.at = "snapshot" => s.done >= 1)
        /\ s.at \in {"latest", "finish"} =>
              before.at \in {"written", "latest"} /\ s.best = before.best
    <3>1. CASE /\ before.at = "training" /\ before.done < before.steps
               /\ \E best \in Nat, after \in {"snapshot", "record", "training"} :
                      s = [before EXCEPT !.done = before.done + 1, !.last = before.done + 1,
                                         !.best = best, !.at = after]
      <4>1. PICK best \in Nat, after \in {"snapshot", "record", "training"} :
                s = [before EXCEPT !.done = before.done + 1, !.last = before.done + 1,
                                   !.best = best, !.at = after]
        BY <3>1
      <4>2. before.done \in Nat /\ before.steps \in Nat /\ after \in States
        BY <1>2 DEF Procs, States
      <4>3. /\ s \in Procs /\ s.run = before.run /\ s.at = after
            /\ s.steps = before.steps /\ s.total = before.total /\ s.prev = before.prev
            /\ s.done = before.done + 1
        <5> DEFINE n == before.done + 1
        <5>1. n \in Nat
          BY <4>2
        <5>2. s = [before EXCEPT !.done = n, !.last = n, !.best = best, !.at = after]
          BY <4>1
        <5>3. before \in Procs
          BY <1>2
        <5> HIDE DEF n
        <5>4. s \in Procs
          BY <4>2, <5>1, <5>2, <5>3 DEF Procs
        <5>5. /\ s.run = before.run /\ s.at = after /\ s.done = n
              /\ s.steps = before.steps /\ s.total = before.total /\ s.prev = before.prev
          BY <5>2, <5>3 DEF Procs
        <5> QED
          BY <5>4, <5>5 DEF n
      <4> QED
        BY <3>1, <4>2, <4>3 DEF States
    <3>2. CASE \/ before.at = "snapshot" /\ s = [before EXCEPT !.at = "record"]
               \/ before.at = "written" /\ s = [before EXCEPT !.at = "latest"]
               \/ before.at = "latest" /\ s = [before EXCEPT !.at = "finish"]
      BY <1>2, <3>2 DEF Procs, States
    <3> QED
      BY <1>3, <3>1, <3>2
  <2>2. OnCourse(s) /\ Mine(s)
    BY <1>2, <2>1 DEF OnCourse, Mine, States
  <2> QED
    BY <2>1, <2>2
<1>5. ProcInv(proc', rows, files)
  <2> HIDE DEF s
  <2>1. Owner(s, rows, files)
    BY <1>1, <1>4 DEF Owner
  <2> QED
    BY <1>1, <1>3, <1>4, <2>1, MoveKept
<1>6. latest' \in {latest, Torn, Checkpoint(before.run, before.prev + before.done, before.last),
                   Checkpoint(before.run, before.prev + before.steps, before.best)}
  BY DEF Step, Snapshot, Publish, Published, OpenLatest, CloseLatest, Best
<1>7. latest' = Checkpoint(before.run, before.prev + before.done, before.last) =>
          Snapshot(p) \/ latest' \in {latest, Torn}
                     \/ latest' = Checkpoint(before.run, before.prev + before.steps, before.best)
  BY DEF Step, Snapshot, Publish, Published, OpenLatest, CloseLatest, Best
<1>8. latest' \in Files /\ (latest'.is = "whole" => latest'.run \in DOMAIN rows)
  <2>1. before.run \in DOMAIN rows
    BY <1>1 DEF Owner
  <2>2. CASE latest' \in {latest, Torn}
    BY <2>2 DEF FileInv, Files, TracedBack, Torn
  <2>3. CASE latest' = Checkpoint(before.run, before.prev + before.steps, before.best)
    BY <1>2, <2>1, <2>3, TrainingAssumption DEF Checkpoint, Files, Procs
  <2>4. CASE Snapshot(p) /\ latest' = Checkpoint(before.run, before.prev + before.done, before.last)
    <3>1. before.prev + before.done \in 1..Target /\ before.last \in Nat
      BY <1>2, <2>4, TrainingAssumption DEF Snapshot, Procs
    <3> HIDE DEF before
    <3> QED
      BY <1>2, <2>1, <2>4, <3>1 DEF Checkpoint, Files
  <2> QED
    BY <1>6, <1>7, <2>2, <2>3, <2>4
<1> QED
  BY <1>1, <1>5, <1>8 DEF FileInv, DoneIsWhole, TracedBack

(* Steps on the file of the run.                                             *)
LEMMA StepFile ==
    ASSUME NEW p \in Trainers, TrainingInv, OpenFile(p) \/ WriteFile(p)
    PROVE  TrainingInv'
<1> USE DEF TrainingInv
<1> DEFINE s == proc'[p]  before == proc[p]  run == proc[p].run
<1>1. /\ UNCHANGED <<latest, rows>>
      /\ OnCourse(before) /\ Owner(before, rows, files) /\ Mine(before)
      /\ proc = [q \in Trainers |-> proc[q]]
  BY DEF OpenFile, WriteFile, ProcInv, Mine
<1>2. /\ before \in Procs /\ before.total = Target /\ run \in Runs
      /\ before.prev + before.steps = Target /\ before.done <= before.steps
      /\ run \in DOMAIN rows /\ rows[run].status # "DONE"
  BY <1>1, LiveProc DEF Mine, Owner
<1>3. /\ proc' = [proc EXCEPT ![p] = s]
      /\ \/ OpenFile(p) /\ s = [before EXCEPT !.at = "file"]
         \/ WriteFile(p) /\ s = [before EXCEPT !.at = "written"]
  BY <1>1 DEF OpenFile, WriteFile, Go
<1>4. /\ s \in Procs /\ s.run = run /\ s.at \in {"file", "written"}
      /\ s.steps = before.steps /\ s.total = before.total /\ s.prev = before.prev
      /\ s.best = before.best /\ s.done = before.done
      /\ s.at = "written" => WriteFile(p)
  <2> HIDE DEF s, before, run
  <2>1. /\ s \in Procs /\ s.at \in {"file", "written"} /\ s.run = before.run
        /\ s.steps = before.steps /\ s.total = before.total /\ s.prev = before.prev
        /\ s.best = before.best /\ s.done = before.done
        /\ s.at = "written" => WriteFile(p)
    BY <1>2, <1>3 DEF Procs, States
  <2> QED
    BY <2>1 DEF before, run
<1>5. OnCourse(s) /\ Mine(s)
  <2> HIDE DEF s, before, run
  <2> QED
    BY <1>2, <1>4 DEF OnCourse, Mine
<1>6. /\ files' \in [Runs -> Files] /\ files'[run].is # "absent"
      /\ \A r \in Runs \ {run} : files'[r] = files[r]
      /\ WriteFile(p) => files'[run] = Checkpoint(run, before.prev + before.steps, before.best)
      /\ files'[run].is = "whole" => files'[run].run = run
  <2> DEFINE file == files'[run]
  <2>1. /\ files' = [files EXCEPT ![run] = file]
        /\ \/ OpenFile(p) /\ file = Torn
           \/ WriteFile(p) /\ file = Checkpoint(run, before.prev + before.steps, before.best)
    BY <1>2 DEF OpenFile, WriteFile, Best, FileInv
  <2>2. Checkpoint(run, before.prev + before.steps, before.best) \in Files
    BY <1>2, TrainingAssumption DEF Checkpoint, Files, Procs
  <2>3. file \in Files /\ file.is # "absent" /\ (file.is = "whole" => file.run = run)
    <3> HIDE DEF before, file, run
    <3> QED
      BY <2>1, <2>2 DEF Checkpoint, Torn, Files
  <2>4. OpenFile(p) => ~WriteFile(p)
    BY DEF OpenFile, WriteFile
  <2> QED
    BY <1>2, <2>1, <2>3, <2>4 DEF FileInv
<1>7. \A q \in Trainers \ {p} : Owner(proc[q], rows, files')
  <2> SUFFICES ASSUME NEW q \in Trainers \ {p}, Mine(proc[q])
               PROVE  Owner(proc[q], rows, files')
    BY DEF Owner
  <2>1. /\ Owner(proc[q], rows, files) /\ proc[q].run # run /\ proc[q].run \in Runs
    BY <1>1, LiveProc DEF ProcInv, Mine
  <2> QED
    BY <1>6, <2>1 DEF Owner
<1>8. ProcInv(proc', rows, files')
  <2>1. Mine(s) => \A q \in Trainers \ {p} : Mine(proc[q]) => proc[q].run # s.run
    BY <1>1, <1>4 DEF ProcInv
  <2> HIDE DEF s
  <2>2. Owner(s, rows, files')
    BY <1>1, <1>4, <1>6 DEF Owner
  <2> QED
    BY <1>1, <1>3, <1>5, <1>7, <2>1, <2>2, ProcKept
<1>9. DoneIsWhole'
  BY <1>1, <1>2, <1>6 DEF DoneIsWhole, RowInv
<1> QED
  BY <1>1, <1>2, <1>6, <1>8, <1>9 DEF FileInv, TracedBack

LEMMA TrainingStep == TrainingInv /\ [TrainNext]_trainVars => TrainingInv'
<1> SUFFICES ASSUME TrainingInv, [TrainNext]_trainVars PROVE TrainingInv'
  OBVIOUS
<1>1. CASE UNCHANGED trainVars
  BY <1>1 DEF trainVars, TrainingInv, FileInv, DoneIsWhole, TracedBack
<1>2. CASE TrainNext
  BY <1>2, StepHour, StepLocal, StepOpen, StepStartRun, StepRow, StepLatest, StepFile
  DEF TrainNext
<1> QED
  BY <1>1, <1>2

(* The inductive invariant: runs are apart, and what is on disk and in the   *)
(* ledger fits where each trainer is.                                        *)
THEOREM TrainingInvariance == TrainSpec => []TrainingInv
<1> QED
  BY TrainingInit, TrainingStep, PTL DEF TrainSpec

(* A run is DONE only with its checkpoint whole and of the loss the ledger   *)
(* has, for any number of trainers, runs, kills and reapings.                *)
THEOREM TrainingIsWhole == TrainSpec => []DoneIsWhole
<1>1. TrainingInv => DoneIsWhole
  BY DEF TrainingInv
<1> QED
  BY <1>1, TrainingInvariance, PTL

(* Every checkpoint that can be read is that of a run in the ledger.         *)
THEOREM TrainingIsTraced == TrainSpec => []TracedBack
<1>1. TrainingInv => TracedBack
  BY DEF TrainingInv
<1> QED
  BY <1>1, TrainingInvariance, PTL

(* However often it is killed and resumed, training follows one schedule     *)
(* towards the target and claims no step beyond it.                          *)
THEOREM TrainingIsSmooth == TrainSpec => []SmoothSchedule
<1>1. TrainingInv => SmoothSchedule
  <2> SUFFICES ASSUME TrainingInv PROVE SmoothSchedule
    OBVIOUS
  <2>1. ASSUME NEW p \in Trainers, Live(p)
        PROVE  proc[p].total = Target /\ proc[p].prev + proc[p].done \in 0..Target
    <3>1. /\ proc[p] \in Procs /\ proc[p].total = Target
          /\ proc[p].prev + proc[p].steps = Target /\ proc[p].done <= proc[p].steps
      BY <2>1, LiveProc DEF TrainingInv, ProcInv, Live
    <3> QED
      BY <3>1, TrainingAssumption DEF Procs
  <2>2. latest.is = "whole" => latest.steps \in 1..Target
    BY DEF TrainingInv, FileInv, Files, Absent, Torn
  <2> QED
    BY <2>1, <2>2 DEF SmoothSchedule
<1> QED
  BY <1>1, TrainingInvariance, PTL

(* What was resumed and then completed is graded FAIL (grade_checkpoint.py   *)
(* expects "DONE + matching loss/steps" of it): the ledger has the steps of  *)
(* the last run, the checkpoint those of all.                                *)
THEOREM ResumedNeverPasses == TrainSpec => []ResumedGradesFail
<1>1. TrainingInv => ResumedGradesFail
  <2> SUFFICES ASSUME TrainingInv, NEW r \in DOMAIN rows, rows[r].status = "DONE",
                      rows[r].asked < rows[r].total
               PROVE  LineageVerdict(files[r]) = "FAIL"
    BY DEF ResumedGradesFail
  <2>1. files[r] = Checkpoint(r, rows[r].total, rows[r].loss)
    BY DEF TrainingInv, DoneIsWhole
  <2>2. files[r].run = r /\ files[r].steps = rows[r].total
    BY <2>1 DEF Checkpoint
  <2>3. rows[r].steps # rows[r].total
    BY DEF TrainingInv, RowInv, RowSet
  <2> QED
    BY <2>2, <2>3 DEF LineageVerdict
<1> QED
  BY <1>1, TrainingInvariance, PTL
=============================================================================
