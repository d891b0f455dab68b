-------------------------- MODULE MCPSession_proofs --------------------------
(***************************************************************************)
(* One request is on the wire at a time, a caller that waits for its       *)
(* answer is in the table the read loop looks it up in, and what a call    *)
(* returns is the answer to its own request, for every number of callers   *)
(* and calls, wherever they time out and whenever the server answers.      *)
(***************************************************************************)
EXTENDS MCPSession, Selection_proofs

Stages == {"idle", "entered", "spawning", "queued", "waiting", "answered"}

Results == [result : {"none", "failed", "ok", "escaped"}, of : Nat]

TypeOK ==
    /\ reg \in {"new", "opening", "open", "closing", "closed"} /\ initialized \in BOOLEAN
    /\ proc \in {"none", "alive", "dead", "stopping"} /\ reader \in {"none", "reading", "stopped"}
    /\ lastId \in Nat /\ pending \subseteq Nat \ {0} /\ lock \in Seq(Callers)
    /\ stage \in [Callers -> Stages] /\ rid \in [Callers -> Nat]
    /\ reply \in [Callers -> Results] /\ outcome \in [Callers -> Results]
    /\ asked \subseteq Nat /\ out \in Seq(Lines)

InLock(c) == \E i \in 1..Len(lock) : lock[i] = c

(* Those who wait for the lock or hold it are in it, and nobody else; a      *)
(* caller past the lock holds it.                                            *)
LockInv ==
    \A c \in Callers :
        /\ stage[c] \in {"queued", "waiting", "answered"} <=> InLock(c)
        /\ stage[c] \in {"waiting", "answered"} => Len(lock) > 0 /\ lock[1] = c

(* Ids are given out once: the next one is nobody's. *)
Registered ==
    \A c \in Callers : rid[c] <= lastId /\ (stage[c] = "waiting" => rid[c] \in pending)

(* Discovery's first call begins with open(). *)
Unopened == reg = "new" => stage[Discovery] = "idle"

IInv == TypeOK /\ LockInv /\ Registered /\ Unopened

(* A message of the server that carries an id is an answer to that request;  *)
(* so is what a future was given, and a call under way has no result yet.    *)
Answers ==
    /\ \A i \in 1..Len(out) : out[i].id # 0 => out[i].of = out[i].id
    /\ \A c \in Callers :
          /\ stage[c] = "answered" /\ reply[c].result = "ok" => reply[c].of = rid[c]
          /\ stage[c] # "idle" => outcome[c].result # "ok"
          /\ outcome[c].result = "ok" => outcome[c].of = rid[c]

-----------------------------------------------------------------------------

LEMMA FixedResults == Nothing \in Results /\ Failed \in Results /\ Escaped \in Results
BY DEF Nothing, Failed, Escaped, Results

LEMMA IInvInit == Init => IInv
<1> SUFFICES ASSUME Init PROVE IInv
  OBVIOUS
<1>1. TypeOK
  <2>1. stage \in [Callers -> Stages]
    BY DEF Init, Stages
  <2>2. reply \in [Callers -> Results] /\ outcome \in [Callers -> Results]
    BY FixedResults DEF Init
  <2>3. rid \in [Callers -> Nat] /\ lock \in Seq(Callers) /\ out \in Seq(Lines)
    BY DEF Init
  <2>4. /\ lastId \in Nat /\ pending \subseteq Nat \ {0} /\ asked \subseteq Nat
        /\ reg \in {"new", "opening", "open", "closing", "closed"} /\ initialized \in BOOLEAN
        /\ proc \in {"none", "alive", "dead", "stopping"}
        /\ reader \in {"none", "reading", "stopped"}
    BY DEF Init
  <2> QED
    BY <2>1, <2>2, <2>3, <2>4 DEF TypeOK
<1>2. LockInv
  BY DEF Init, LockInv, InLock
<1>3. Registered /\ Unopened
  BY DEF Init, Registered, Unopened, Callers
<1> QED
  BY <1>1, <1>2, <1>3 DEF IInv

(* The lock when a caller leaves it: the others are in it as before, and the *)
(* one that holds it holds it still.                                         *)
LEMMA LockWithout ==
    ASSUME TypeOK, NEW c \in Callers
    PROVE  /\ Without(lock, {c}) \in Seq(Callers)
           /\ Len(Without(lock, {c})) \in Nat
           /\ \A d \in Callers :
                 (\E i \in 1..Len(Without(lock, {c})) : Without(lock, {c})[i] = d)
                    <=> InLock(d) /\ d # c
           /\ Len(lock) > 0 /\ lock[1] # c =>
                 Len(Without(lock, {c})) > 0 /\ Without(lock, {c})[1] = lock[1]
<1> DEFINE r == Without(lock, {c})
<1>1. lock \in Seq(Callers) /\ Len(lock) \in Nat
  BY DEF TypeOK
<1>2. r \in Seq(Callers) /\ \E e : Places(lock, {c}, e)
  BY <1>1, WithoutKeepsOrder
<1>3. PICK e : /\ e \in [1..Len(r) -> 1..Len(lock)]
               /\ \A i, j \in 1..Len(r) : i < j => e[i] < e[j]
               /\ \A i \in 1..Len(r) : r[i] = lock[e[i]] /\ lock[e[i]] \notin {c}
               /\ \A k \in 1..Len(lock) : lock[k] \notin {c} => \E i \in 1..Len(r) : e[i] = k
  BY <1>2 DEF Places
<1> HIDE DEF r
<1>4. Len(r) \in Nat
  BY <1>2
<1>5. ASSUME NEW d \in Callers, NEW i \in 1..Len(r), r[i] = d PROVE InLock(d) /\ d # c
  BY <1>3, <1>5 DEF InLock
<1>6. ASSUME NEW d \in Callers, InLock(d), d # c PROVE \E i \in 1..Len(r) : r[i] = d
  <2>1. PICK k \in 1..Len(lock) : lock[k] = d
    BY <1>6 DEF InLock
  <2>2. PICK i \in 1..Len(r) : e[i] = k
    BY <1>3, <1>6, <2>1
  <2> QED
    BY <1>3, <2>1, <2>2
<1>7. ASSUME Len(lock) > 0, lock[1] # c PROVE Len(r) > 0 /\ r[1] = lock[1]
  <2>1. 1 \in 1..Len(lock) /\ lock[1] \notin {c}
    BY <1>1, <1>7
  <2>2. PICK i \in 1..Len(r) : e[i] = 1
    BY <1>3, <2>1
  <2>3. 1 \in 1..Len(r) /\ i \in Nat
    BY <1>4
  <2>4. e[1] \in 1..Len(lock) /\ ~(e[1] < 1)
    BY <1>1, <1>3, <2>3
  <2>5. i = 1
    BY <1>3, <2>2, <2>3, <2>4
  <2> QED
    BY <1>3, <1>4, <2>2, <2>3, <2>5
<1> QED
  BY <1>2, <1>4, <1>5, <1>6, <1>7 DEF r

(* A caller leaves the lock, or was not in it, and waits for nothing. *)
LEMMA ReleaseKeeps ==
    ASSUME IInv, NEW c \in Callers, Release(c), stage'[c] \in {"idle", "entered", "spawning"},
           \A d \in Callers \ {c} : stage'[d] = stage[d]
    PROVE  lock' \in Seq(Callers) /\ LockInv'
<1>1. lock' = Without(lock, {c})
  BY DEF Release
<1>2. /\ lock' \in Seq(Callers)
      /\ \A d \in Callers : (\E i \in 1..Len(lock') : lock'[i] = d) <=> InLock(d) /\ d # c
      /\ Len(lock) > 0 /\ lock[1] # c => Len(lock') > 0 /\ lock'[1] = lock[1]
  BY <1>1, LockWithout DEF IInv
<1>3. \A d \in Callers : InLock(d)' <=> InLock(d) /\ d # c
  BY <1>2 DEF InLock
<1> QED
  BY <1>2, <1>3 DEF IInv, LockInv

(* Nothing happens to the lock, and nobody goes past it. *)
LEMMA SameLockKeeps ==
    ASSUME IInv, UNCHANGED lock,
           \A d \in Callers :
              \/ stage'[d] = stage[d]
              \/ stage[d] = "waiting" /\ stage'[d] = "answered"
              \/ /\ stage[d] \in {"idle", "entered", "spawning"}
                 /\ stage'[d] \in {"idle", "entered", "spawning"}
    PROVE  LockInv'
<1>1. \A d \in Callers : InLock(d)' <=> InLock(d)
  BY DEF InLock
<1> QED
  BY <1>1 DEF IInv, LockInv

(* A request is sent by a caller that has the lock to itself. *)
LEMMA SendKeeps ==
    ASSUME IInv, NEW c \in Callers, Send(c), ~Locked(c), stage[c] \in {"entered", "queued"}
    PROVE  IInv'
<1>1. /\ UNCHANGED <<reg, initialized, proc, reader, out>>
      /\ lastId' = lastId + 1 /\ rid' = [rid EXCEPT ![c] = lastId + 1]
  BY DEF Send, client, NextId
<1>2. lastId \in Nat /\ rid \in [Callers -> Nat] /\ lock \in Seq(Callers) /\ Len(lock) \in Nat
  BY DEF IInv, TypeOK
<1>3. \A d \in Callers \ {c} : stage[d] \notin {"waiting", "answered"}
  <2> SUFFICES ASSUME NEW d \in Callers \ {c}, stage[d] \in {"waiting", "answered"}
               PROVE  FALSE
    OBVIOUS
  <2>1. Len(lock) > 0 /\ lock[1] = d
    BY DEF IInv, LockInv
  <2>2. lock # <<>> /\ Head(lock) = lock[1]
    BY <1>2, <2>1
  <2> QED
    BY <2>1, <2>2 DEF Locked
<1>4. rid' \in [Callers -> Nat] /\ rid'[c] = lastId'
      /\ \A d \in Callers \ {c} : rid'[d] = rid[d]
  BY <1>1, <1>2
<1>5. CASE /\ pending' = pending \cup {NextId}
           /\ asked' = IF proc = "alive" THEN asked \cup {NextId} ELSE asked
           /\ lock' = <<c>> \o Without(lock, {c})
           /\ stage' = [stage EXCEPT ![c] = "waiting"]
           /\ reply' = [reply EXCEPT ![c] = Nothing]
           /\ UNCHANGED outcome
  <2> DEFINE r == Without(lock, {c})
  <2>1. /\ r \in Seq(Callers) /\ Len(r) \in Nat
        /\ \A d \in Callers : (\E i \in 1..Len(r) : r[i] = d) <=> InLock(d) /\ d # c
    BY LockWithout DEF IInv
  <2> HIDE DEF r
  <2>2. /\ lock' \in Seq(Callers) /\ Len(lock') = Len(r) + 1 /\ lock'[1] = c
        /\ \A i \in 1..Len(r) : lock'[i + 1] = r[i]
    <3>1. lock' = <<c>> \o r
      BY <1>5 DEF r
    <3>2. <<c>> \in Seq(Callers) /\ Len(<<c>>) = 1 /\ <<c>>[1] = c
      OBVIOUS
    <3> QED
      BY <2>1, <3>1, <3>2, ConcatProperties
  <2>3. \A d \in Callers : InLock(d)' <=> InLock(d) \/ d = c
    <3>1. InLock(c)'
      BY <2>1, <2>2 DEF InLock
    <3>2. ASSUME NEW d \in Callers, InLock(d), d # c PROVE InLock(d)'
      <4>1. PICK i \in 1..Len(r) : r[i] = d
        BY <2>1, <3>2
      <4>2. i + 1 \in 1..Len(lock') /\ lock'[i + 1] = d
        BY <2>1, <2>2, <4>1
      <4> QED
        BY <4>2 DEF InLock
    <3>3. ASSUME NEW d \in Callers, InLock(d)', d # c PROVE InLock(d)
      <4>1. PICK i \in 1..Len(lock') : lock'[i] = d
        BY <3>3 DEF InLock
      <4>2. i # 1 /\ i - 1 \in 1..Len(r) /\ (i - 1) + 1 = i
        BY <2>1, <2>2, <3>3, <4>1
      <4>3. r[i - 1] = d
        BY <2>2, <4>1, <4>2
      <4> QED
        BY <2>1, <4>2, <4>3
    <3> QED
      BY <3>1, <3>2, <3>3
  <2>4. /\ stage'[c] = "waiting" /\ stage' \in [Callers -> Stages]
        /\ \A d \in Callers \ {c} : stage'[d] = stage[d]
    BY <1>5 DEF IInv, TypeOK, Stages
  <2>5. TypeOK'
    BY <1>1, <1>2, <1>4, <1>5, <2>2, <2>4, FixedResults DEF IInv, TypeOK, NextId
  <2>6. LockInv'
    BY <1>3, <2>1, <2>2, <2>3, <2>4 DEF IInv, LockInv
  <2>7. Registered'
    BY <1>1, <1>2, <1>3, <1>4, <1>5, <2>4 DEF IInv, Registered, NextId
  <2>8. Unopened'
    BY <1>1, <2>4, Zenon DEF IInv, Unopened, Callers
  <2> QED
    BY <2>5, <2>6, <2>7, <2>8 DEF IInv
<1>6. CASE /\ pending' = pending \ {NextId}
           /\ Release(c)
           /\ End(c, Failed)
           /\ UNCHANGED <<asked, reply>>
  <2>1. /\ stage'[c] = "idle" /\ stage' \in [Callers -> Stages]
        /\ \A d \in Callers \ {c} : stage'[d] = stage[d]
    BY <1>6 DEF IInv, TypeOK, Stages, End
  <2>2. lock' \in Seq(Callers) /\ LockInv'
    BY <1>6, <2>1, ReleaseKeeps
  <2>3. TypeOK'
    BY <1>1, <1>2, <1>4, <1>6, <2>1, <2>2, FixedResults DEF IInv, TypeOK, NextId, End
  <2>4. Registered'
    BY <1>1, <1>2, <1>3, <1>4, <2>1 DEF IInv, Registered
  <2>5. Unopened'
    BY <1>1, <2>1 DEF IInv, Unopened, Callers
  <2> QED
    BY <2>2, <2>3, <2>4, <2>5 DEF IInv
<1> QED
  BY <1>5, <1>6 DEF Send

(* A caller begins, goes on to the subprocess, or waits for the lock. *)
LEMMA CallKeeps ==
    ASSUME IInv, NEW c \in Callers, Call(c) \/ Spawned(c)
    PROVE  IInv'
<1>1. /\ UNCHANGED <<reg, initialized, lastId, pending, lock, rid, reply, asked, out>>
      /\ stage' = [stage EXCEPT ![c] = "entered"] /\ stage[c] \in {"idle", "spawning"}
      /\ outcome' \in {outcome, [outcome EXCEPT ![c] = Nothing]}
      /\ reg # "new" \/ stage[c] # "idle"
  BY DEF Call, Spawned, Enter, client, server
<1>2. /\ proc' \in {"none", "alive", "dead", "stopping"} /\ reader' \in {"none", "reading", "stopped"}
  BY DEF Call, Spawned, IInv, TypeOK
<1>3. /\ stage'[c] = "entered" /\ stage' \in [Callers -> Stages]
      /\ \A d \in Callers \ {c} : stage'[d] = stage[d]
  BY <1>1 DEF IInv, TypeOK, Stages
<1>4. TypeOK'
  <2>1. outcome' \in [Callers -> Results]
    BY <1>1, FixedResults DEF IInv, TypeOK
  <2> QED
    BY <1>1, <1>2, <1>3, <2>1 DEF IInv, TypeOK
<1>5. LockInv'
  BY <1>1, <1>3, SameLockKeeps
<1>6. Registered'
  BY <1>1, <1>3 DEF IInv, Registered
<1>7. Unopened'
  BY <1>1, <1>3 DEF IInv, Unopened, Callers
<1> QED
  BY <1>4, <1>5, <1>6, <1>7 DEF IInv

LEMMA BeginKeeps ==
    ASSUME IInv, NEW c \in Callers, Begin(c)
    PROVE  IInv'
<1>1. CASE ~Locked(c) /\ Send(c)
  BY <1>1, SendKeeps DEF Begin
<1>2. CASE proc = "none" /\ stage' = [stage EXCEPT ![c] = "spawning"]
           /\ UNCHANGED <<client, proc, reader, lastId, pending, lock, rid, reply, outcome, server>>
  <2>1. UNCHANGED <<reg, initialized, proc, reader, lastId, pending, lock, rid, reply, outcome,
                    asked, out>>
    BY <1>2 DEF client, server
  <2>2. /\ stage[c] = "entered" /\ stage'[c] = "spawning" /\ stage' \in [Callers -> Stages]
        /\ \A d \in Callers \ {c} : stage'[d] = stage[d]
    BY <1>2 DEF Begin, IInv, TypeOK, Stages
  <2>3. TypeOK'
    BY <2>1, <2>2 DEF IInv, TypeOK
  <2>4. LockInv'
    BY <2>1, <2>2, SameLockKeeps
  <2>5. Registered' /\ Unopened'
    BY <2>1, <2>2 DEF IInv, Registered, Unopened, Callers
  <2> QED
    BY <2>3, <2>4, <2>5 DEF IInv
<1>3. CASE Locked(c) /\ Queue(c)
  <2>1. /\ UNCHANGED <<reg, initialized, proc, reader, lastId, pending, rid, reply, outcome,
                       asked, out>>
        /\ lock' = Append(lock, c)
    BY <1>3 DEF Queue, client, server
  <2>2. /\ stage[c] = "entered" /\ stage'[c] = "queued" /\ stage' \in [Callers -> Stages]
        /\ \A d \in Callers \ {c} : stage'[d] = stage[d]
    BY <1>3 DEF Begin, Queue, IInv, TypeOK, Stages
  <2>3. /\ lock \in Seq(Callers) /\ Len(lock) \in Nat /\ lock' \in Seq(Callers)
        /\ Len(lock') = Len(lock) + 1 /\ lock'[Len(lock) + 1] = c
        /\ \A i \in 1..Len(lock) : lock'[i] = lock[i]
    BY <2>1 DEF IInv, TypeOK
  <2>4. \A d \in Callers : InLock(d)' <=> InLock(d) \/ d = c
    <3>1. Len(lock) + 1 \in 1..Len(lock')
      BY <2>3
    <3>2. \A i \in 1..Len(lock') : i \in 1..Len(lock) \/ i = Len(lock) + 1
      BY <2>3
    <3>3. \A i \in 1..Len(lock) : i \in 1..Len(lock')
      BY <2>3
    <3> QED
      BY <2>3, <3>1, <3>2, <3>3 DEF InLock
  <2>5. Len(lock) > 0 => Len(lock') > 0 /\ lock'[1] = lock[1]
    BY <2>3
  <2>6. TypeOK'
    BY <2>1, <2>2, <2>3 DEF IInv, TypeOK
  <2>7. LockInv'
    BY <2>2, <2>4, <2>5 DEF IInv, LockInv
  <2>8. Registered' /\ Unopened'
    BY <2>1, <2>2 DEF IInv, Registered, Unopened, Callers
  <2> QED
    BY <2>6, <2>7, <2>8 DEF IInv
<1> QED
  BY <1>1, <1>2, <1>3 DEF Begin

LEMMA GrantedKeeps ==
    ASSUME IInv, NEW c \in Callers, Granted(c)
    PROVE  IInv'
BY SendKeeps DEF Granted

(* A call ends: with its answer, a failed start, or a timeout. *)
LEMMA EndKeeps ==
    ASSUME IInv, NEW c \in Callers, Return(c) \/ SpawnFails(c) \/ TimesOut(c)
    PROVE  IInv'
<1>1. /\ UNCHANGED <<reg, initialized, proc, reader, lastId, rid, reply, asked, out>>
      /\ stage' = [stage EXCEPT ![c] = "idle"]
      /\ outcome' \in {[outcome EXCEPT ![c] = reply[c]], [outcome EXCEPT ![c] = Failed]}
  BY DEF Return, SpawnFails, TimesOut, End, client, server
<1>2. /\ stage'[c] = "idle" /\ stage' \in [Callers -> Stages]
      /\ \A d \in Callers \ {c} : stage'[d] = stage[d]
  BY <1>1 DEF IInv, TypeOK, Stages
<1>3. lock' \in Seq(Callers) /\ LockInv'
  <2>1. CASE Release(c)
    BY <1>2, <2>1, ReleaseKeeps
  <2>2. CASE SpawnFails(c)
    <3>1. UNCHANGED lock /\ stage[c] = "spawning"
      BY <2>2 DEF SpawnFails
    <3>2. LockInv'
      BY <1>2, <3>1, SameLockKeeps
    <3> QED
      BY <3>1, <3>2 DEF IInv, TypeOK
  <2> QED
    BY <2>1, <2>2 DEF Return, TimesOut
<1>4. UNCHANGED pending \/ (stage[c] = "waiting" /\ pending' = pending \ {rid[c]})
  BY DEF Return, SpawnFails, TimesOut
<1>5. TypeOK'
  <2>1. outcome' \in [Callers -> Results]
    BY <1>1, FixedResults DEF IInv, TypeOK
  <2> QED
    BY <1>1, <1>2, <1>3, <1>4, <2>1 DEF IInv, TypeOK
<1>6. Registered'
  <2> SUFFICES ASSUME NEW d \in Callers
               PROVE  rid[d] <= lastId /\ (stage'[d] = "waiting" => rid[d] \in pending')
    BY <1>1 DEF Registered
  <2>1. rid[d] <= lastId
    BY DEF IInv, Registered
  <2>2. ASSUME stage'[d] = "waiting" PROVE rid[d] \in pending'
    <3>1. d # c /\ stage[d] = "waiting" /\ rid[d] \in pending /\ lock[1] = d
      BY <1>2, <2>2 DEF IInv, Registered, LockInv
    <3>2. stage[c] # "waiting"
      BY <3>1 DEF IInv, LockInv
    <3> QED
      BY <1>4, <3>1, <3>2
  <2> QED
    BY <2>1, <2>2
<1>7. Unopened'
  BY <1>1, <1>2 DEF IInv, Unopened, Callers
<1> QED
  BY <1>3, <1>5, <1>6, <1>7 DEF IInv

(* The table is emptied or loses an id, and those who waited for what is     *)
(* taken out are told.                                                       *)
LEMMA ToldKeeps ==
    ASSUME IInv, UNCHANGED <<lastId, lock, rid, outcome, asked>>,
           reg' \in {reg, "closed"}, initialized' \in BOOLEAN,
           proc' \in {proc, "none"}, reader' \in {reader, "stopped"}, out' \in Seq(Lines),
           pending' \subseteq pending,
           NEW hit \in SUBSET Callers, NEW given \in Results,
           \A d \in hit : stage[d] = "waiting",
           \A d \in Callers \ hit : stage[d] = "waiting" => rid[d] \in pending',
           reply' = [d \in Callers |-> IF d \in hit THEN given ELSE reply[d]],
           stage' = [d \in Callers |-> IF d \in hit THEN "answered" ELSE stage[d]]
    PROVE  IInv'
<1>1. /\ stage' \in [Callers -> Stages]
      /\ \A d \in Callers : stage'[d] = IF d \in hit THEN "answered" ELSE stage[d]
  BY DEF IInv, TypeOK, Stages
<1>2. TypeOK'
  <2>1. reply' \in [Callers -> Results]
    BY DEF IInv, TypeOK
  <2> QED
    BY <1>1, <2>1 DEF IInv, TypeOK
<1>3. LockInv'
  BY <1>1, SameLockKeeps
<1>4. Registered'
  BY <1>1 DEF IInv, Registered
<1>5. Unopened'
  <2>1. reg' = "new" => reg = "new" /\ Discovery \notin hit
    BY DEF IInv, Unopened
  <2> QED
    BY <1>1, <2>1 DEF IInv, Unopened, Callers
<1> QED
  BY <1>2, <1>3, <1>4, <1>5 DEF IInv

LEMMA ReadMessageKeeps ==
    ASSUME IInv, ReadMessage
    PROVE  IInv'
<1> DEFINE m == Head(out)
           hit == {c \in Callers : m.id \in pending /\ WaitsFor(c, m.id)}
<1>1. /\ UNCHANGED <<reg, initialized, proc, reader, lastId, lock, rid, outcome, asked>>
      /\ out # <<>> /\ out' = Tail(out) /\ pending' = pending \ {m.id}
      /\ reply' = [c \in Callers |-> IF c \in hit THEN Answered(m.of) ELSE reply[c]]
      /\ stage' = [c \in Callers |-> IF c \in hit THEN "answered" ELSE stage[c]]
  BY DEF ReadMessage, client
<1>2. out \in Seq(Lines) /\ m \in Lines /\ out' \in Seq(Lines)
  BY <1>1 DEF IInv, TypeOK
<1>3. Answered(m.of) \in Results
  BY <1>2 DEF Answered, Results, Lines
<1>4. \A d \in hit : stage[d] = "waiting"
  BY DEF WaitsFor
<1>5. \A d \in Callers \ hit : stage[d] = "waiting" => rid[d] \in pending'
  BY <1>1 DEF IInv, Registered, WaitsFor
<1>6. hit \in SUBSET Callers /\ pending' \subseteq pending
  BY <1>1
<1>7. /\ reg' \in {reg, "closed"} /\ initialized' \in BOOLEAN
      /\ proc' \in {proc, "none"} /\ reader' \in {reader, "stopped"}
  BY <1>1 DEF IInv, TypeOK
<1> HIDE DEF hit, m
<1> QED
  BY <1>1, <1>2, <1>3, <1>4, <1>5, <1>6, <1>7, ToldKeeps

(* The read loop ends, or close() cancels what is pending. *)
LEMMA StopsKeeps ==
    ASSUME IInv, ReaderStops \/ CloseEnds \/ CloseAtOnce
    PROVE  IInv'
<1> DEFINE hit == {c \in Callers : \E i \in pending : WaitsFor(c, i)}
<1>1. /\ UNCHANGED <<lastId, lock, rid, outcome, asked, out>>
      /\ reg' \in {reg, "closed"} /\ initialized' \in {initialized, FALSE}
      /\ proc' \in {proc, "none"} /\ reader' \in {reader, "stopped"}
  BY DEF ReaderStops, CloseEnds, CloseAtOnce, Closed, client, server
<1>2. PICK given \in {Failed, Escaped} :
         /\ reply' = [c \in Callers |-> IF c \in hit THEN given ELSE reply[c]]
         /\ stage' = [c \in Callers |-> IF c \in hit THEN "answered" ELSE stage[c]]
         /\ pending' = {}
  BY DEF ReaderStops, CloseEnds, CloseAtOnce, Closed, FailPending, CancelPending
<1>3. given \in Results
  BY DEF Failed, Escaped, Results
<1>4. \A d \in hit : stage[d] = "waiting"
  BY DEF WaitsFor
<1>5. \A d \in Callers \ hit : stage[d] # "waiting"
  BY DEF IInv, Registered, WaitsFor
<1>6. hit \in SUBSET Callers /\ pending' \subseteq pending
  BY <1>2
<1>7. initialized' \in BOOLEAN /\ out' \in Seq(Lines)
  BY <1>1 DEF IInv, TypeOK
<1> HIDE DEF hit
<1> QED
  BY <1>1, <1>2, <1>3, <1>4, <1>5, <1>6, <1>7, ToldKeeps

(* The server, and what close() does before it waits for it. *)
LEMMA ServerKeeps ==
    ASSUME IInv, \/ ServerWrites \/ ServerDies \/ CloseBegins
                 \/ \E i \in asked : ServerAnswers(i)
    PROVE  IInv'
<1>1. /\ UNCHANGED <<lastId, pending, lock, stage, rid, reply, outcome, initialized, reader>>
      /\ reg' \in {reg, "closing"} /\ proc' \in {proc, "dead", "stopping"}
      /\ asked' \subseteq asked
  BY DEF ServerWrites, ServerDies, CloseBegins, ServerAnswers, calls, client, server
<1>2. out' \in Seq(Lines)
  <2>1. out \in Seq(Lines) /\ asked \subseteq Nat
    BY DEF IInv, TypeOK
  <2>2. out' = out \/ \E m \in Lines : out' = Append(out, m)
    <3>1. CASE ServerWrites
      BY <3>1, ChatterAssumption DEF ServerWrites, Write
    <3>2. ASSUME NEW i \in asked, ServerAnswers(i) PROVE \E m \in Lines : out' = Append(out, m)
      BY <2>1, <3>2, ChatterAssumption DEF ServerAnswers, Write, Response, Unreadable, Lines
    <3>3. CASE ServerDies \/ CloseBegins
      BY <3>3 DEF ServerDies, CloseBegins
    <3> QED
      BY <3>1, <3>2, <3>3
  <2> QED
    BY <2>1, <2>2
<1>3. TypeOK'
  BY <1>1, <1>2 DEF IInv, TypeOK
<1>4. LockInv' /\ Registered' /\ Unopened'
  BY <1>1 DEF IInv, LockInv, InLock, Registered, Unopened
<1> QED
  BY <1>3, <1>4 DEF IInv

LEMMA OpenKeeps ==
    ASSUME IInv, Open \/ Discovered
    PROVE  IInv'
<1>1. /\ UNCHANGED <<proc, reader, lastId, pending, lock, rid, reply, asked, out>>
      /\ reg' \in {"opening", "open"} /\ initialized' \in {initialized, TRUE}
      /\ stage[Discovery] = "idle" /\ Discovery \in Callers
      /\ \/ UNCHANGED <<stage, outcome>>
         \/ Enter(Discovery)
  BY DEF Open, Discovered, server, IInv, Unopened, Callers
<1>2. /\ stage'[Discovery] \in {"idle", "entered"} /\ stage' \in [Callers -> Stages]
      /\ \A d \in Callers \ {Discovery} : stage'[d] = stage[d]
      /\ outcome' \in [Callers -> Results]
  <2>1. stage \in [Callers -> Stages] /\ outcome \in [Callers -> Results]
    BY DEF IInv, TypeOK
  <2>2. CASE UNCHANGED <<stage, outcome>>
    BY <1>1, <2>1, <2>2
  <2>3. CASE Enter(Discovery)
    <3>1. /\ stage' = [stage EXCEPT ![Discovery] = "entered"]
          /\ outcome' = [outcome EXCEPT ![Discovery] = Nothing]
      BY <2>3 DEF Enter
    <3>2. outcome' \in [Callers -> Results]
      BY <2>1, <3>1, FixedResults
    <3> QED
      BY <1>1, <2>1, <3>1, <3>2 DEF Stages
  <2> QED
    BY <1>1, <2>2, <2>3
<1>3. TypeOK'
  BY <1>1, <1>2 DEF IInv, TypeOK
<1>4. LockInv'
  BY <1>1, <1>2, SameLockKeeps
<1>5. Registered' /\ Unopened'
  BY <1>1, <1>2 DEF IInv, Registered, Unopened
<1> QED
  BY <1>3, <1>4, <1>5 DEF IInv

LEMMA IInvStep == IInv /\ [Next]_vars => IInv'
<1> SUFFICES ASSUME IInv, [Next]_vars PROVE IInv'
  OBVIOUS
<1>1. CASE Open \/ Discovered
  BY <1>1, OpenKeeps
<1>2. CASE \/ CloseBegins \/ ServerWrites \/ ServerDies
           \/ \E i \in asked : ServerAnswers(i)
  BY <1>2, ServerKeeps
<1>3. CASE CloseEnds \/ CloseAtOnce \/ ReaderStops
  BY <1>3, StopsKeeps
<1>4. CASE ReadMessage
  BY <1>4, ReadMessageKeeps
<1>5. CASE \E c \in Callers : Call(c) \/ Proceed(c) \/ Spawned(c) \/ SpawnFails(c) \/ TimesOut(c)
  BY <1>5, CallKeeps, BeginKeeps, GrantedKeeps, EndKeeps DEF Proceed
<1>6. CASE UNCHANGED vars
  BY <1>6 DEF vars, client, calls, server, IInv, TypeOK, LockInv, InLock, Registered, Unopened
<1> QED
  BY <1>1, <1>2, <1>3, <1>4, <1>5, <1>6 DEF Next

LEMMA Invariant == Spec => []IInv
BY IInvInit, IInvStep, PTL DEF Spec

(* "They must not interleave": one request at a time is on the wire and      *)
(* waited for, and its caller holds the lock, for every number of callers,   *)
(* wherever one of them gives up.                                            *)
THEOREM OneRequestIsOutstanding == Spec => []OneOutstanding
<1>1. IInv => OneOutstanding
  <2> SUFFICES ASSUME IInv, NEW c \in Callers, stage[c] \in {"waiting", "answered"}
               PROVE  lock # <<>> /\ Head(lock) = c
    BY DEF OneOutstanding
  <2>1. lock \in Seq(Callers) /\ Len(lock) > 0 /\ lock[1] = c
    BY DEF IInv, TypeOK, LockInv
  <2> QED
    BY <2>1
<1> QED
  BY <1>1, Invariant, PTL

(* The read loop cannot end, nor close() empty the table, under a caller     *)
(* that is not told.                                                         *)
THEOREM WaitersAreRegistered == Spec => []WaiterIsRegistered
<1>1. IInv => WaiterIsRegistered
  BY DEF IInv, Registered, WaiterIsRegistered
<1> QED
  BY <1>1, Invariant, PTL

-----------------------------------------------------------------------------

(* The server sends no request of its own: what it writes unasked has no id. *)
SendsNoRequests == \A m \in Chatter : m.id = 0

LEMMA AnswersInit == Init => Answers
BY DEF Init, Answers, Nothing

(* A caller's own steps. *)
LEMMA CallerAnswers ==
    ASSUME IInv, Answers, NEW c \in Callers,
           Call(c) \/ Proceed(c) \/ Spawned(c) \/ SpawnFails(c) \/ TimesOut(c)
    PROVE  Answers'
<1>1. /\ UNCHANGED out
      /\ stage \in [Callers -> Stages] /\ rid \in [Callers -> Nat]
      /\ reply \in [Callers -> Results] /\ outcome \in [Callers -> Results]
  BY DEF Call, Proceed, Begin, Queue, Granted, Send, Return, Spawned, SpawnFails, TimesOut,
         server, IInv, TypeOK
<1>2. CASE /\ stage' = [stage EXCEPT ![c] = "entered"] /\ UNCHANGED <<rid, reply>>
           /\ \/ outcome' = [outcome EXCEPT ![c] = Nothing]
              \/ UNCHANGED outcome /\ stage[c] = "spawning"
  BY <1>1, <1>2 DEF Answers, Nothing
<1>3. CASE /\ stage' \in {[stage EXCEPT ![c] = "spawning"], [stage EXCEPT ![c] = "queued"]}
           /\ stage[c] = "entered" /\ UNCHANGED <<rid, reply, outcome>>
  BY <1>1, <1>3 DEF Answers
<1>4. CASE Send(c) /\ stage[c] \in {"entered", "queued"}
  <2>1. /\ rid' = [rid EXCEPT ![c] = NextId] /\ outcome[c].result # "ok"
        /\ \/ /\ stage' = [stage EXCEPT ![c] = "waiting"] /\ UNCHANGED outcome
              /\ reply' = [reply EXCEPT ![c] = Nothing]
           \/ /\ stage' = [stage EXCEPT ![c] = "idle"] /\ UNCHANGED reply
              /\ outcome' = [outcome EXCEPT ![c] = Failed]
    BY <1>4 DEF Send, End, Answers
  <2>2. \A d \in Callers \ {c} : /\ stage'[d] = stage[d] /\ rid'[d] = rid[d]
                                /\ reply'[d] = reply[d] /\ outcome'[d] = outcome[d]
    BY <1>1, <2>1
  <2>3. stage'[c] \in {"waiting", "idle"} /\ outcome'[c].result # "ok"
    BY <1>1, <2>1 DEF Failed
  <2> QED
    BY <1>1, <2>2, <2>3 DEF Answers
<1>5. CASE /\ stage' = [stage EXCEPT ![c] = "idle"] /\ UNCHANGED <<rid, reply>>
           /\ \/ outcome' = [outcome EXCEPT ![c] = Failed]
              \/ outcome' = [outcome EXCEPT ![c] = reply[c]] /\ stage[c] = "answered"
  BY <1>1, <1>5 DEF Answers, Failed
<1>6. CASE Call(c) \/ Spawned(c)
  BY <1>2, <1>6 DEF Call, Spawned, Enter
<1>7. CASE Begin(c)
  BY <1>3, <1>4, <1>7 DEF Begin, Queue
<1>8. CASE Granted(c)
  BY <1>4, <1>8 DEF Granted
<1>9. CASE Return(c) \/ SpawnFails(c) \/ TimesOut(c)
  BY <1>5, <1>9 DEF Return, SpawnFails, TimesOut, End
<1> QED
  BY <1>6, <1>7, <1>8, <1>9 DEF Proceed

(* A future is given the answer that carries its caller's id. *)
LEMMA ReadMessageAnswers ==
    ASSUME IInv, Answers, ReadMessage
    PROVE  Answers'
<1> DEFINE m == Head(out)
           hit == {c \in Callers : m.id \in pending /\ WaitsFor(c, m.id)}
<1>1. /\ UNCHANGED <<rid, outcome>> /\ out # <<>> /\ out' = Tail(out)
      /\ reply' = [c \in Callers |-> IF c \in hit THEN Answered(m.of) ELSE reply[c]]
      /\ stage' = [c \in Callers |-> IF c \in hit THEN "answered" ELSE stage[c]]
  BY DEF ReadMessage
<1>2. /\ out \in Seq(Lines) /\ m = out[1] /\ Len(out) \in Nat \ {0}
      /\ Len(Tail(out)) = Len(out) - 1
      /\ \A i \in 1..Len(Tail(out)) : Tail(out)[i] = out[i + 1]
  BY <1>1 DEF IInv, TypeOK
<1>3. m.id # 0 => m.of = m.id
  BY <1>2 DEF Answers
<1>4. \A i \in 1..Len(out') : out'[i].id # 0 => out'[i].of = out'[i].id
  <2> SUFFICES ASSUME NEW i \in 1..Len(out'), out'[i].id # 0 PROVE out'[i].of = out'[i].id
    OBVIOUS
  <2>1. i + 1 \in 1..Len(out) /\ out'[i] = out[i + 1]
    BY <1>1, <1>2
  <2> QED
    BY <2>1 DEF Answers
<1>5. \A c \in hit : m.of = rid[c] /\ stage[c] = "waiting"
  BY <1>3 DEF WaitsFor, IInv, TypeOK
<1> HIDE DEF m, hit
<1>6. \A c \in Callers : stage'[c] = "answered" /\ reply'[c].result = "ok" => reply'[c].of = rid'[c]
  BY <1>1, <1>5 DEF Answers, Answered
<1>7. \A c \in Callers : stage'[c] # "idle" => outcome'[c].result # "ok"
  BY <1>1, <1>5 DEF Answers
<1> QED
  BY <1>1, <1>4, <1>6, <1>7 DEF Answers

(* The rest: an exception is no answer, and what the server writes is one or *)
(* has no id.                                                                *)
LEMMA StopsAnswer ==
    ASSUME Answers, ReaderStops \/ CloseEnds \/ CloseAtOnce
    PROVE  Answers'
<1> DEFINE hit == {c \in Callers : \E i \in pending : WaitsFor(c, i)}
<1>1. UNCHANGED <<rid, outcome, out>>
  BY DEF ReaderStops, CloseEnds, CloseAtOnce, Closed, server
<1>2. PICK given \in {Failed, Escaped} :
         /\ reply' = [c \in Callers |-> IF c \in hit THEN given ELSE reply[c]]
         /\ stage' = [c \in Callers |-> IF c \in hit THEN "answered" ELSE stage[c]]
  BY DEF ReaderStops, CloseEnds, CloseAtOnce, Closed, FailPending, CancelPending
<1>3. given.result # "ok"
  BY DEF Failed, Escaped
<1>4. \A c \in hit : stage[c] = "waiting"
  BY DEF WaitsFor
<1> HIDE DEF hit
<1> QED
  BY <1>1, <1>2, <1>3, <1>4 DEF Answers

LEMMA ServerAnswersAnswer ==
    ASSUME IInv, Answers, SendsNoRequests,
           \/ ServerWrites \/ ServerDies \/ CloseBegins
           \/ \E i \in asked : ServerAnswers(i)
    PROVE  Answers'
<1>1. UNCHANGED <<stage, rid, reply, outcome>>
  BY DEF ServerWrites, ServerDies, CloseBegins, ServerAnswers, calls
<1>2. out' = out \/ \E m \in Lines : out' = Append(out, m) /\ (m.id # 0 => m.of = m.id)
  <2>1. CASE ServerWrites
    BY <2>1, ChatterAssumption DEF ServerWrites, Write, SendsNoRequests
  <2>2. ASSUME NEW i \in asked, ServerAnswers(i)
        PROVE  \E m \in Lines : out' = Append(out, m) /\ (m.id # 0 => m.of = m.id)
    <3>1. Response(i) \in Lines /\ Response(i).of = Response(i).id
      BY DEF Response, Lines, IInv, TypeOK
    <3>2. CASE out' = Append(out, Response(i))
      BY <3>1, <3>2
    <3>3. CASE Unreadable \in Chatter /\ out' = Append(out, Unreadable)
      BY <3>3, ChatterAssumption DEF SendsNoRequests
    <3> QED
      BY <2>2, <3>2, <3>3 DEF ServerAnswers, Write
  <2>3. CASE ServerDies \/ CloseBegins
    BY <2>3 DEF ServerDies, CloseBegins
  <2> QED
    BY <2>1, <2>2, <2>3
<1>3. \A i \in 1..Len(out') : out'[i].id # 0 => out'[i].of = out'[i].id
  <2>1. CASE out' = out
    BY <2>1 DEF Answers
  <2>2. ASSUME NEW m \in Lines, out' = Append(out, m), m.id # 0 => m.of = m.id,
               NEW i \in 1..Len(out')
        PROVE  out'[i].id # 0 => out'[i].of = out'[i].id
    <3>1. /\ out \in Seq(Lines) /\ Len(out) \in Nat /\ Len(out') = Len(out) + 1
          /\ out'[Len(out) + 1] = m /\ \A j \in 1..Len(out) : out'[j] = out[j]
      BY <2>2 DEF IInv, TypeOK
    <3>2. i \in 1..Len(out) \/ i = Len(out) + 1
      BY <3>1
    <3> QED
      BY <2>2, <3>1, <3>2 DEF Answers
  <2> QED
    BY <1>2, <2>1, <2>2
<1> QED
  BY <1>1, <1>3 DEF Answers

LEMMA OpenAnswers ==
    ASSUME IInv, Answers, Open \/ Discovered
    PROVE  Answers'
<1>1. UNCHANGED <<rid, reply, out>> /\ (UNCHANGED <<stage, outcome>> \/ Enter(Discovery))
  BY DEF Open, Discovered, server
<1>2. outcome \in [Callers -> Results] /\ stage \in [Callers -> Stages]
  BY DEF IInv, TypeOK
<1> QED
  BY <1>1, <1>2 DEF Enter, Answers, Nothing

LEMMA AnswersStep == SendsNoRequests /\ IInv /\ Answers /\ [Next]_vars => Answers'
<1> SUFFICES ASSUME SendsNoRequests, IInv, Answers, [Next]_vars PROVE Answers'
  OBVIOUS
<1>1. CASE Open \/ Discovered
  BY <1>1, OpenAnswers
<1>2. CASE \/ CloseBegins \/ ServerWrites \/ ServerDies
           \/ \E i \in asked : ServerAnswers(i)
  BY <1>2, ServerAnswersAnswer
<1>3. CASE CloseEnds \/ CloseAtOnce \/ ReaderStops
  BY <1>3, StopsAnswer
<1>4. CASE ReadMessage
  BY <1>4, ReadMessageAnswers
<1>5. CASE \E c \in Callers : Call(c) \/ Proceed(c) \/ Spawned(c) \/ SpawnFails(c) \/ TimesOut(c)
  BY <1>5, CallerAnswers
<1>6. CASE UNCHANGED vars
  BY <1>6 DEF vars, calls, server, Answers
<1> QED
  BY <1>1, <1>2, <1>3, <1>4, <1>5, <1>6 DEF Next

(* "Correlates responses to requests by JSON-RPC id": a call that succeeds   *)
(* returns the answer to its own request, however many calls timed out       *)
(* before it and however late they are answered, as long as the server sends *)
(* no requests of its own: the read loop would take one that carries the id  *)
(* of a pending call for its answer.                                         *)
THEOREM CallsAnswerTheirOwnRequest ==
    ASSUME SendsNoRequests
    PROVE  Spec => []AnswersOwnRequest
<1>1. Init => Answers
  BY AnswersInit
<1>2. IInv /\ Answers /\ [Next]_vars => Answers'
  BY AnswersStep
<1>3. Answers => AnswersOwnRequest
  BY DEF Answers, AnswersOwnRequest
<1> QED
  BY <1>1, <1>2, <1>3, Invariant, PTL DEF Spec
=============================================================================
