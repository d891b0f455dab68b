-------------------------- MODULE MemoryStore_proofs ---------------------------
(***************************************************************************)
(* What the memory store keeps, deletes, trusts and finds, for every       *)
(* number of coroutines and records, however their statements interleave   *)
(* and wherever the process stops.                                         *)
(***************************************************************************)
EXTENDS MemoryStore, Selection_proofs

Dos == {"get", "review", "insert", "update", "remove", "find", "unindex", "index", "commit"}

Statement == [do : Dos, id : Ids, new : Record \cup {None}, status : Statuses \cup {"same"}]

TypeOK ==
    /\ rows \in [Ids -> Record \cup {None}] /\ index \subseteq Ids
    /\ disk \in [rows : [Ids -> Record \cup {None}], index : SUBSET Ids, cut : SUBSET Ids]
    /\ todo \in [Clients -> Seq(Statement)] /\ rec \in [Clients -> Record \cup {None}]
    /\ kept \subseteq Ids /\ removed \subseteq Ids /\ cut \subseteq Ids /\ crashes \in Nat

(* What the statements of every operation, and what is left of them, have in *)
(* common.                                                                   *)
Shaped(s) ==
    /\ Len(s) > 0 => s[Len(s)].do = "commit"
    /\ \A k \in 1..Len(s) :
          /\ s[k].do = "insert" => k < Len(s) /\ s[k + 1].do = "index" /\ s[k + 1].id = s[k].id
          /\ s[k].do = "update" /\ k > 1 => s[k - 1].do = "get" /\ s[k - 1].id = s[k].id
          /\ s[k].do \in {"review", "remove"} => k = 1

Shapes == \A c \in Clients : Shaped(todo[c])

(* An id that was handed out, and whose record is or was in the table. *)
Known(i) == rows[i] # None \/ i \in removed

Honest(r) == r # None => (r.origin = "create" => Trusted(r))

(* A pending insertion is of an honest record, under an id of its own. *)
Inserts ==
    \A c \in Clients : \A k \in 1..Len(todo[c]) :
        todo[c][k].do = "insert" =>
            /\ todo[c][k].new \in Record /\ Honest(todo[c][k].new) /\ ~Known(todo[c][k].id)
            /\ \A d \in Clients : \A l \in 1..Len(todo[d]) :
                  todo[d][l].do = "insert" /\ todo[d][l].id = todo[c][k].id => d = c /\ l = k

Targets ==
    \A c \in Clients : \A k \in 1..Len(todo[c]) :
        todo[c][k].do \in {"get", "review", "update", "remove"} => Known(todo[c][k].id)

(* A status of ACCEPTED is on its way to a record only with a review before  *)
(* it or behind it.                                                          *)
Reviewed ==
    \A c \in Clients : \A k \in 1..Len(todo[c]) :
        todo[c][k].do = "update" /\ todo[c][k].status = "ACCEPTED" =>
            \/ todo[c][1].do = "review" /\ todo[c][1].id = todo[c][k].id
            \/ rows[todo[c][k].id] = None
            \/ CanAccept(rows[todo[c][k].id])

(* What is taken out of the index is put back at once, or is deleted. *)
Reindexes ==
    \A c \in Clients : \A k \in 1..Len(todo[c]) :
        todo[c][k].do = "unindex" =>
            \/ k < Len(todo[c]) /\ todo[c][k + 1].do = "index" /\ todo[c][k + 1].id = todo[c][k].id
            \/ todo[c][1].do = "remove" /\ todo[c][1].id = todo[c][k].id
            \/ todo[c][k].id \in removed

First(c, what) == Len(todo[c]) > 0 /\ todo[c][1].do = what

(* A coroutine about to write holds the record it read, whose source is that *)
(* of the row whatever has been written there since.                         *)
Read ==
    \A c \in Clients :
        /\ Honest(rec[c])
        /\ First(c, "update") =>
              /\ rec[c] \in Record
              /\ rows[todo[c][1].id] # None =>
                    /\ rec[c].provenance = rows[todo[c][1].id].provenance
                    /\ rec[c].origin = rows[todo[c][1].id].origin

Durable == \A i \in kept \ removed : rows[i] # None /\ disk.rows[i] # None

Covered(i) == i \in index \/ \E c \in Clients : First(c, "index") /\ todo[c][1].id = i

(* In the tables, and in what of them a commit has put on disk. *)
Indexed ==
    /\ \A i \in Ids : rows[i] # None => Covered(i) \/ i \in cut
    /\ \A i \in Ids : disk.rows[i] # None => i \in disk.index \/ i \in disk.cut

IInv ==
    /\ TypeOK /\ Shapes /\ Inserts /\ Targets /\ Reviewed /\ Reindexes /\ Read
    /\ TrustFollowsProvenance /\ Durable /\ DeletedStaysDeleted /\ Indexed

-----------------------------------------------------------------------------
(* The statements of the operations.                                         *)

Is(s, do, i) == s \in Statement /\ s.do = do /\ s.id = i

LEMMA Plain ==
    ASSUME NEW i \in Ids, NEW do \in Dos
    PROVE  Is(S(do, i), do, i)
BY DEF Is, S, Statement

LEMMA UpdateIs ==
    ASSUME NEW i \in Ids, NEW status \in Statuses \cup {"same"}
    PROVE  LET u == Update(i, status)
           IN  /\ u \in Seq(Statement) /\ Len(u) = 5
               /\ Is(u[1], "update", i) /\ u[1].status = status
               /\ Is(u[2], "find", i) /\ Is(u[3], "unindex", i)
               /\ Is(u[4], "index", i) /\ Is(u[5], "commit", i)
<1> DEFINE w == [S("update", i) EXCEPT !.status = status]
<1>1. Is(w, "update", i) /\ w.status = status
  BY DEF Is, S, Statement, Dos
<1>2. /\ Is(S("find", i), "find", i) /\ Is(S("unindex", i), "unindex", i)
      /\ Is(S("index", i), "index", i) /\ Is(S("commit", i), "commit", i)
  BY Plain DEF Dos
<1>3. Update(i, status) = <<w, S("find", i), S("unindex", i), S("index", i), S("commit", i)>>
  BY DEF Update
<1> HIDE DEF w
<1> QED
  BY <1>1, <1>2, <1>3 DEF Is

(* Two sequences of statements one after the other. *)
LEMMA Joined ==
    ASSUME NEW a \in Seq(Statement), NEW b \in Seq(Statement)
    PROVE  /\ a \o b \in Seq(Statement) /\ Len(a \o b) = Len(a) + Len(b)
           /\ \A k \in 1..Len(a) : (a \o b)[k] = a[k]
           /\ \A k \in 1..Len(b) : (a \o b)[Len(a) + k] = b[k]
<1> DEFINE T == Statement
<1>1. a \in Seq(T) /\ b \in Seq(T)
  OBVIOUS
<1> HIDE DEF T
<1> QED
  BY <1>1, Concatenation

LEMMA SetStatusIs ==
    ASSUME NEW i \in Ids, NEW status \in Statuses \cup {"same"}
    PROVE  LET u == SetStatus(i, status)
           IN  /\ u \in Seq(Statement) /\ Len(u) = 6
               /\ Is(u[1], "get", i)
               /\ Is(u[2], "update", i) /\ u[2].status = status
               /\ Is(u[3], "find", i) /\ Is(u[4], "unindex", i)
               /\ Is(u[5], "index", i) /\ Is(u[6], "commit", i)
<1> DEFINE a == <<S("get", i)>>
           b == Update(i, status)
<1>1. Is(S("get", i), "get", i)
  BY Plain DEF Dos
<1>2. a \in Seq(Statement) /\ Len(a) = 1 /\ Is(a[1], "get", i)
  BY <1>1 DEF Is
<1>3. /\ b \in Seq(Statement) /\ Len(b) = 5
      /\ Is(b[1], "update", i) /\ b[1].status = status
      /\ Is(b[2], "find", i) /\ Is(b[3], "unindex", i)
      /\ Is(b[4], "index", i) /\ Is(b[5], "commit", i)
  BY UpdateIs
<1>4. SetStatus(i, status) = a \o b
  BY DEF SetStatus
<1> HIDE DEF a, b
<1>5. /\ a \o b \in Seq(Statement) /\ Len(a \o b) = Len(a) + Len(b)
      /\ \A k \in 1..Len(a) : (a \o b)[k] = a[k]
      /\ \A k \in 1..Len(b) : (a \o b)[Len(a) + k] = b[k]
  BY <1>2, <1>3, Joined, Zenon
<1>6. /\ Len(a \o b) = 6
      /\ (a \o b)[1] = a[1] /\ (a \o b)[2] = b[1] /\ (a \o b)[3] = b[2]
      /\ (a \o b)[4] = b[3] /\ (a \o b)[5] = b[4] /\ (a \o b)[6] = b[5]
  BY <1>2, <1>3, <1>5
<1> QED
  BY <1>2, <1>3, <1>4, <1>5, <1>6

LEMMA InsertIs ==
    ASSUME NEW i \in Ids, NEW r \in Record
    PROVE  LET u == Insert(i, r)
           IN  /\ u \in Seq(Statement) /\ Len(u) = 3
               /\ Is(u[1], "insert", i) /\ u[1].new = r
               /\ Is(u[2], "index", i) /\ Is(u[3], "commit", i)
<1> DEFINE w(do) == Of(do, i, r)
<1>1. \A do \in Dos : Is(w(do), do, i) /\ w(do).new = r
  BY DEF Is, Of, S, Statement
<1>2. Insert(i, r) = <<w("insert"), w("index"), w("commit")>>
  BY DEF Insert
<1>3. /\ Is(w("insert"), "insert", i) /\ w("insert").new = r
      /\ Is(w("index"), "index", i) /\ Is(w("commit"), "commit", i)
  BY <1>1 DEF Dos
<1> HIDE DEF w
<1> QED
  BY <1>2, <1>3 DEF Is

(* What a coroutine may be set to do when the records are as they are. *)
Offered(p) ==
    /\ p \in Seq(Statement) /\ Shaped(p)
    /\ Len(p) > 0 => p[1].do # "update"
    /\ \A k \in 1..Len(p) :
          /\ p[k].do \in {"get", "review", "update", "remove"} => Known(p[k].id)
          /\ p[k].do = "insert" =>
                /\ p[k].new \in Record /\ Honest(p[k].new) /\ ~Used(p[k].id)
                /\ \A l \in 1..Len(p) : p[l].do = "insert" => l = k
          /\ p[k].do = "update" /\ p[k].status = "ACCEPTED" =>
                p[1].do = "review" /\ p[1].id = p[k].id
          /\ p[k].do = "unindex" =>
                \/ k < Len(p) /\ p[k + 1].do = "index" /\ p[k + 1].id = p[k].id
                \/ p[1].do = "remove" /\ p[1].id = p[k].id

LEMMA CreateIsOffered ==
    ASSUME NEW i \in Ids, NEW p \in Provenances, ~Used(i)
    PROVE  Offered(Create(i, p))
<1> DEFINE r == [provenance |-> p, status |-> InitialStatus(p), origin |-> "create"]
           u == Insert(i, r)
<1>1. r \in Record /\ Honest(r)
  BY DEF Record, Statuses, InitialStatus, Honest, Trusted
<1>2. Create(i, p) = u
  BY DEF Create
<1> HIDE DEF r
<1>3. /\ u \in Seq(Statement) /\ Len(u) = 3 /\ Is(u[1], "insert", i) /\ u[1].new = r
      /\ Is(u[2], "index", i) /\ Is(u[3], "commit", i)
  BY <1>1, InsertIs
<1> HIDE DEF u
<1>4. Shaped(u)
  BY <1>3 DEF Shaped, Is
<1>5. Offered(u)
  BY <1>1, <1>3, <1>4 DEF Offered, Is
<1> QED
  BY <1>2, <1>5

LEMMA DeleteIsOffered ==
    ASSUME NEW i \in Ids, Known(i)
    PROVE  Offered(Delete(i))
<1> DEFINE u == Delete(i)
<1>1. /\ Is(S("remove", i), "remove", i) /\ Is(S("find", i), "find", i)
      /\ Is(S("unindex", i), "unindex", i) /\ Is(S("commit", i), "commit", i)
  BY Plain DEF Dos
<1>2. u = <<S("remove", i), S("find", i), S("unindex", i), S("commit", i)>>
  BY DEF Delete
<1>3. /\ u \in Seq(Statement) /\ Len(u) = 4 /\ Is(u[1], "remove", i) /\ Is(u[2], "find", i)
      /\ Is(u[3], "unindex", i) /\ Is(u[4], "commit", i)
  BY <1>1, <1>2 DEF Is
<1> HIDE DEF u
<1>4. Shaped(u)
  BY <1>3 DEF Shaped, Is
<1> QED
  BY <1>3, <1>4 DEF Offered, Is, u

LEMMA AcceptIsOffered ==
    ASSUME NEW i \in Ids, Known(i)
    PROVE  Offered(Accept(i))
<1> DEFINE a == <<S("review", i)>>
           b == SetStatus(i, "ACCEPTED")
           u == a \o b
<1>1. Is(S("review", i), "review", i)
  BY Plain DEF Dos
<1>2. a \in Seq(Statement) /\ Len(a) = 1 /\ Is(a[1], "review", i)
  BY <1>1 DEF Is
<1>3. /\ b \in Seq(Statement) /\ Len(b) = 6 /\ Is(b[1], "get", i)
      /\ Is(b[2], "update", i) /\ Is(b[3], "find", i) /\ Is(b[4], "unindex", i)
      /\ Is(b[5], "index", i) /\ Is(b[6], "commit", i)
  BY SetStatusIs DEF Statuses
<1>4. Accept(i) = u
  BY DEF Accept
<1> HIDE DEF a, b
<1>5. /\ u \in Seq(Statement) /\ Len(u) = Len(a) + Len(b)
      /\ \A k \in 1..Len(a) : u[k] = a[k]
      /\ \A k \in 1..Len(b) : u[Len(a) + k] = b[k]
  BY <1>2, <1>3, Joined, Zenon
<1>6. /\ Len(u) = 7 /\ u[1] = a[1] /\ u[2] = b[1] /\ u[3] = b[2] /\ u[4] = b[3]
      /\ u[5] = b[4] /\ u[6] = b[5] /\ u[7] = b[6]
  BY <1>2, <1>3, <1>5
<1> HIDE DEF u
<1>7. Shaped(u)
  BY <1>2, <1>3, <1>6 DEF Shaped, Is
<1> QED
  BY <1>2, <1>3, <1>4, <1>5, <1>6, <1>7 DEF Offered, Is

LEMMA RejectIsOffered ==
    ASSUME NEW i \in Ids, Known(i)
    PROVE  Offered(Reject(i))
<1> DEFINE a == <<S("get", i)>>
           b == Update(i, "same")
           c == SetStatus(i, "REJECTED")
           v == a \o b
           u == v \o c
<1>1. Is(S("get", i), "get", i)
  BY Plain DEF Dos
<1>2. a \in Seq(Statement) /\ Len(a) = 1 /\ Is(a[1], "get", i)
  BY <1>1 DEF Is
<1>3. /\ b \in Seq(Statement) /\ Len(b) = 5 /\ Is(b[1], "update", i) /\ b[1].status = "same"
      /\ Is(b[2], "find", i) /\ Is(b[3], "unindex", i) /\ Is(b[4], "index", i)
      /\ Is(b[5], "commit", i)
  BY UpdateIs
<1>4. /\ c \in Seq(Statement) /\ Len(c) = 6 /\ Is(c[1], "get", i)
      /\ Is(c[2], "update", i) /\ c[2].status = "REJECTED" /\ Is(c[3], "find", i)
      /\ Is(c[4], "unindex", i) /\ Is(c[5], "index", i) /\ Is(c[6], "commit", i)
  BY SetStatusIs DEF Statuses
<1>5. v \in Seq(Statement) /\ Reject(i) = u
  BY <1>2, <1>3, Concatenation DEF Reject
<1> HIDE DEF a, b, c
<1>6. /\ Len(v) = Len(a) + Len(b) /\ \A k \in 1..Len(a) : v[k] = a[k]
      /\ \A k \in 1..Len(b) : v[Len(a) + k] = b[k]
  BY <1>2, <1>3, Joined, Zenon
<1>7. /\ Len(v) = 6 /\ v[1] = a[1] /\ v[2] = b[1] /\ v[3] = b[2] /\ v[4] = b[3]
      /\ v[5] = b[4] /\ v[6] = b[5]
  BY <1>2, <1>3, <1>6
<1> HIDE DEF v
<1>8. /\ u \in Seq(Statement) /\ Len(u) = Len(v) + Len(c)
      /\ \A k \in 1..Len(v) : u[k] = v[k]
      /\ \A k \in 1..Len(c) : u[Len(v) + k] = c[k]
  BY <1>4, <1>5, Joined, Zenon
<1>9. /\ Len(u) = 12 /\ u[1] = v[1] /\ u[2] = v[2] /\ u[3] = v[3] /\ u[4] = v[4]
      /\ u[5] = v[5] /\ u[6] = v[6] /\ u[7] = c[1] /\ u[8] = c[2] /\ u[9] = c[3]
      /\ u[10] = c[4] /\ u[11] = c[5] /\ u[12] = c[6]
  BY <1>4, <1>7, <1>8
<1> HIDE DEF u
<1>10. Shaped(u)
  BY <1>2, <1>3, <1>4, <1>7, <1>9 DEF Shaped, Is
<1>11. Offered(u)
  BY <1>2, <1>3, <1>4, <1>7, <1>8, <1>9, <1>10 DEF Offered, Is
<1> QED
  BY <1>5, <1>11

LEMMA SupersedeIsOffered ==
    ASSUME NEW i \in Ids, NEW j \in Ids, NEW p \in Provenances, Known(i), ~Used(j)
    PROVE  Offered(Supersede(i, j, p))
<1> DEFINE r == [provenance |-> p, status |-> "ACCEPTED", origin |-> "supersede"]
           a == <<S("get", i)>>
           b == Update(i, "SUPERSEDED")
           c == Insert(j, r)
           v == a \o b
           u == v \o c
<1>1. Is(S("get", i), "get", i)
  BY Plain DEF Dos
<1>2. a \in Seq(Statement) /\ Len(a) = 1 /\ Is(a[1], "get", i)
  BY <1>1 DEF Is
<1>3. /\ b \in Seq(Statement) /\ Len(b) = 5 /\ Is(b[1], "update", i)
      /\ b[1].status = "SUPERSEDED" /\ Is(b[2], "find", i) /\ Is(b[3], "unindex", i)
      /\ Is(b[4], "index", i) /\ Is(b[5], "commit", i)
  BY UpdateIs DEF Statuses
<1>4. r \in Record /\ Honest(r)
  BY DEF Record, Statuses, Honest
<1>5. v \in Seq(Statement) /\ Supersede(i, j, p) = u
  BY <1>2, <1>3, Concatenation DEF Supersede
<1> HIDE DEF r
<1>6. /\ c \in Seq(Statement) /\ Len(c) = 3 /\ Is(c[1], "insert", j) /\ c[1].new = r
      /\ Is(c[2], "index", j) /\ Is(c[3], "commit", j)
  BY <1>4, InsertIs
<1> HIDE DEF a, b, c
<1>7. /\ Len(v) = Len(a) + Len(b) /\ \A k \in 1..Len(a) : v[k] = a[k]
      /\ \A k \in 1..Len(b) : v[Len(a) + k] = b[k]
  BY <1>2, <1>3, Joined, Zenon
<1>8. /\ Len(v) = 6 /\ v[1] = a[1] /\ v[2] = b[1] /\ v[3] = b[2] /\ v[4] = b[3]
      /\ v[5] = b[4] /\ v[6] = b[5]
  BY <1>2, <1>3, <1>7
<1> HIDE DEF v
<1>9. /\ u \in Seq(Statement) /\ Len(u) = Len(v) + Len(c)
      /\ \A k \in 1..Len(v) : u[k] = v[k]
      /\ \A k \in 1..Len(c) : u[Len(v) + k] = c[k]
  BY <1>5, <1>6, Joined, Zenon
<1>10. /\ Len(u) = 9 /\ u[1] = v[1] /\ u[2] = v[2] /\ u[3] = v[3] /\ u[4] = v[4]
       /\ u[5] = v[5] /\ u[6] = v[6] /\ u[7] = c[1] /\ u[8] = c[2] /\ u[9] = c[3]
  <2>1. Len(v) = 6 /\ Len(c) = 3
    BY <1>6, <1>8
  <2>2. Len(u) = 9 /\ \A k \in 1..6 : u[k] = v[k]
    BY <1>9, <2>1
  <2>3. {1, 2, 3} \subseteq 1..Len(c) /\ Len(v) + 1 = 7 /\ Len(v) + 2 = 8 /\ Len(v) + 3 = 9
    BY <2>1
  <2>4. u[Len(v) + 1] = c[1] /\ u[Len(v) + 2] = c[2] /\ u[Len(v) + 3] = c[3]
    BY <1>9, <2>3
  <2>5. u[7] = c[1] /\ u[8] = c[2] /\ u[9] = c[3]
    BY <2>3, <2>4
  <2>6. {1, 2, 3, 4, 5, 6} \subseteq 1..6
    OBVIOUS
  <2> QED
    BY <2>2, <2>5, <2>6
<1> HIDE DEF u
<1>11. Shaped(u)
  BY <1>2, <1>3, <1>6, <1>8, <1>10 DEF Shaped, Is
<1>12. Offered(u)
  BY <1>2, <1>3, <1>4, <1>6, <1>8, <1>9, <1>10, <1>11 DEF Offered, Is
<1> QED
  BY <1>5, <1>12

-----------------------------------------------------------------------------
(* The initial states and the beginning of an operation.                     *)

LEMMA IInvInit == Init => IInv
<1> SUFFICES ASSUME Init PROVE IInv
  OBVIOUS
<1>1. TypeOK
  BY DEF Init, TypeOK
<1>2. \A c \in Clients : todo[c] = <<>> /\ rec[c] = None
  BY DEF Init
<1>3. Shapes /\ Inserts /\ Targets /\ Reviewed /\ Reindexes /\ Read
  BY <1>2 DEF Shapes, Shaped, Inserts, Targets, Reviewed, Reindexes, Read, Honest, First
<1>4. TrustFollowsProvenance /\ Durable /\ DeletedStaysDeleted /\ Indexed
  BY DEF Init, TrustFollowsProvenance, Durable, DeletedStaysDeleted, Indexed
<1> QED
  BY <1>1, <1>3, <1>4 DEF IInv

LEMMA BeginOffers ==
    ASSUME NEW c \in Clients, Begin(c)
    PROVE  todo[c] = <<>> /\ \E p : Offered(p) /\ todo' = [todo EXCEPT ![c] = p]
<1>1. CASE \E i \in Ids, p \in Provenances :
              ~Used(i) /\ todo' = [todo EXCEPT ![c] = Create(i, p)]
  BY <1>1, CreateIsOffered, Zenon DEF Begin
<1>2. CASE \E i \in Ids :
              /\ rows[i] # None \/ i \in removed
              /\ \E program \in {Accept(i), Reject(i), Delete(i)} :
                        todo' = [todo EXCEPT ![c] = program]
  <2>1. PICK i \in Ids :
              /\ rows[i] # None \/ i \in removed
              /\ \E program \in {Accept(i), Reject(i), Delete(i)} :
                        todo' = [todo EXCEPT ![c] = program]
    BY <1>2
  <2>2. Known(i)
    BY <2>1 DEF Known
  <2> QED
    BY <2>1, <2>2, AcceptIsOffered, RejectIsOffered, DeleteIsOffered, Zenon DEF Begin
<1>3. CASE \E i \in Ids :
              /\ rows[i] # None \/ i \in removed
              /\ \E j \in Ids, p \in Provenances :
                        ~Used(j) /\ todo' = [todo EXCEPT ![c] = Supersede(i, j, p)]
  BY <1>3, SupersedeIsOffered, Zenon DEF Begin, Known
<1> QED
  BY <1>1, <1>2, <1>3, Zenon DEF Begin

LEMMA BeginKeeps ==
    ASSUME IInv, NEW c \in Clients, Begin(c)
    PROVE  IInv'
<1>1. PICK p : Offered(p) /\ todo' = [todo EXCEPT ![c] = p]
  BY BeginOffers
<1>2. todo[c] = <<>> /\ UNCHANGED <<rows, index, disk, rec, kept, removed, cut, crashes>>
  BY DEF Begin, tables, history
<1>3. /\ todo' \in [Clients -> Seq(Statement)] /\ todo'[c] = p
      /\ \A d \in Clients \ {c} : todo'[d] = todo[d]
  BY <1>1 DEF IInv, TypeOK, Offered
<1>4. TypeOK'
  BY <1>2, <1>3 DEF IInv, TypeOK
<1>5. \A i : Known(i)' <=> Known(i)
  BY <1>2 DEF Known
<1>6. Shapes'
  BY <1>1, <1>3 DEF IInv, Shapes, Offered
<1>7. Inserts'
  <2>1. ASSUME NEW d \in Clients, NEW k \in 1..Len(todo[d]), todo[d][k].do = "insert"
        PROVE  Used(todo[d][k].id)
    <3>1. k \in DOMAIN todo[d]
      BY DEF IInv, TypeOK
    <3> QED
      BY <2>1, <3>1 DEF Used
  <2>2. SUFFICES ASSUME NEW d \in Clients, NEW k \in 1..Len(todo'[d]), todo'[d][k].do = "insert"
                 PROVE  /\ todo'[d][k].new \in Record /\ Honest(todo'[d][k].new)
                        /\ ~Known(todo'[d][k].id)
                        /\ \A e \in Clients : \A l \in 1..Len(todo'[e]) :
                              todo'[e][l].do = "insert" /\ todo'[e][l].id = todo'[d][k].id
                                  => e = d /\ l = k
    BY <1>5 DEF Inserts, Honest, Trusted
  <2>3. CASE d = c
    <3>1. p[k].new \in Record /\ Honest(p[k].new) /\ ~Used(p[k].id)
      BY <1>1, <1>3, <2>2, <2>3 DEF Offered
    <3>2. ~Known(p[k].id)
      BY <3>1 DEF Used, Known
    <3>3. \A l \in 1..Len(p) : p[l].do = "insert" => l = k
      BY <1>1, <1>3, <2>2, <2>3 DEF Offered
    <3> QED
      BY <1>3, <2>1, <2>3, <3>1, <3>2, <3>3
  <2>4. CASE d # c
    <3>1. todo'[d] = todo[d] /\ Used(todo[d][k].id)
      BY <1>3, <2>1, <2>2, <2>4
    <3>2. \A l \in 1..Len(p) : p[l].do = "insert" => p[l].id # todo[d][k].id
      BY <1>1, <3>1 DEF Offered
    <3>3. k \in 1..Len(todo[d]) /\ todo[d][k].do = "insert"
      BY <2>2, <3>1
    <3>4. /\ todo[d][k].new \in Record /\ Honest(todo[d][k].new) /\ ~Known(todo[d][k].id)
          /\ \A e \in Clients : \A l \in 1..Len(todo[e]) :
                todo[e][l].do = "insert" /\ todo[e][l].id = todo[d][k].id => e = d /\ l = k
      BY <3>3 DEF IInv, Inserts
    <3>5. ASSUME NEW e \in Clients, NEW l \in 1..Len(todo'[e]), todo'[e][l].do = "insert",
                 todo'[e][l].id = todo'[d][k].id
          PROVE  e = d /\ l = k
      <4>1. e # c
        BY <1>3, <3>1, <3>2, <3>5
      <4>2. todo'[e] = todo[e]
        BY <1>3, <4>1
      <4> QED
        BY <3>1, <3>4, <3>5, <4>2
    <3> QED
      BY <3>1, <3>4, <3>5
  <2> QED
    BY <2>3, <2>4
<1>8. Targets'
  BY <1>1, <1>3, <1>5 DEF IInv, Targets, Offered
<1>9. Reviewed'
  BY <1>1, <1>2, <1>3 DEF IInv, Reviewed, Offered
<1>10. Reindexes'
  BY <1>1, <1>2, <1>3 DEF IInv, Reindexes, Offered
<1>11. Read'
  BY <1>1, <1>2, <1>3 DEF IInv, Read, Offered, First, Honest, Trusted
<1>12. Indexed'
  <2>1. \A d \in Clients : First(d, "index") => First(d, "index")' /\ todo'[d] = todo[d]
    BY <1>2, <1>3 DEF First
  <2>2. \A i \in Ids : Covered(i) => Covered(i)'
    BY <1>2, <2>1 DEF Covered
  <2> QED
    BY <1>2, <2>2 DEF IInv, Indexed
<1>13. TrustFollowsProvenance' /\ Durable' /\ DeletedStaysDeleted'
  BY <1>2 DEF IInv, TrustFollowsProvenance, Trusted, Durable, DeletedStaysDeleted
<1> QED
  BY <1>4, <1>6, <1>7, <1>8, <1>9, <1>10, <1>11, <1>12, <1>13 DEF IInv

-----------------------------------------------------------------------------
(* A coroutine gets on: it leaves n of its statements behind.                *)

Moved(c, n) ==
    /\ n \in 1..Len(todo[c])
    /\ todo' \in [Clients -> Seq(Statement)]
    /\ \A d \in Clients \ {c} : todo'[d] = todo[d]
    /\ Len(todo'[c]) = Len(todo[c]) - n
    /\ \A k \in 1..Len(todo'[c]) : todo'[c][k] = todo[c][k + n]

LEMMA Heads ==
    ASSUME TypeOK, NEW c \in Clients, NEW what, Doing(c, what)
    PROVE  /\ Len(todo[c]) \in Nat \ {0} /\ First(c, what) /\ Head(todo[c]) = todo[c][1]
           /\ todo[c][1] \in Statement /\ Id(c) = todo[c][1].id /\ Id(c) \in Ids
           /\ todo[c][1].do = what
<1>1. todo[c] \in Seq(Statement) /\ todo[c] # <<>>
  BY DEF TypeOK, Doing
<1>2. /\ Len(todo[c]) \in Nat \ {0} /\ Head(todo[c]) = todo[c][1]
      /\ todo[c][1] \in Statement
  BY <1>1
<1> QED
  BY <1>2 DEF Doing, First, Id, Statement

LEMMA DoneMoves ==
    ASSUME TypeOK, NEW c \in Clients, NEW what, Doing(c, what), Done(c)
    PROVE  Moved(c, 1)
<1>1. todo[c] \in Seq(Statement) /\ todo[c] # <<>>
  BY DEF TypeOK, Doing
<1>2. /\ Tail(todo[c]) \in Seq(Statement) /\ Len(Tail(todo[c])) = Len(todo[c]) - 1
      /\ \A k \in 1..Len(Tail(todo[c])) : Tail(todo[c])[k] = todo[c][k + 1]
  BY <1>1, HeadTailProperties, Zenon
<1>3. 1 \in 1..Len(todo[c])
  BY <1>1
<1>4. /\ todo' \in [Clients -> Seq(Statement)] /\ todo'[c] = Tail(todo[c])
      /\ \A d \in Clients \ {c} : todo'[d] = todo[d]
  BY <1>2 DEF TypeOK, Done
<1> QED
  BY <1>2, <1>3, <1>4 DEF Moved

LEMMA AbandonMoves ==
    ASSUME TypeOK, NEW c \in Clients, NEW what, Doing(c, what), Abandon(c)
    PROVE  Moved(c, Len(todo[c])) /\ Len(todo'[c]) = 0
<1>1. todo[c] \in Seq(Statement) /\ todo[c] # <<>>
  BY DEF TypeOK, Doing
<1>2. Len(todo[c]) \in 1..Len(todo[c])
  BY <1>1
<1>3. /\ todo' \in [Clients -> Seq(Statement)] /\ todo'[c] = <<>>
      /\ \A d \in Clients \ {c} : todo'[d] = todo[d]
  BY DEF TypeOK, Abandon
<1> QED
  BY <1>2, <1>3 DEF Moved

(* What _fts_rowid() skips when there is no row ends where the commit is. *)
LEMMA FindMoves ==
    ASSUME TypeOK, NEW c \in Clients, Shaped(todo[c]), Doing(c, "find"),
           todo' = [todo EXCEPT ![c] = FromCommit(@)]
    PROVE  \E n \in 1..Len(todo[c]) : Moved(c, n) /\ First(c, "commit")'
<1> DEFINE s == todo[c]
           Commits == {k \in 1..Len(s) : s[k].do = "commit"}
           P(k) == s[k].do = "commit" /\ \A j \in 1..(k - 1) : s[j].do # "commit"
           f == CHOOSE k \in DOMAIN s : P(k)
<1>1. s \in Seq(Statement) /\ Len(s) \in Nat \ {0} /\ s[1].do = "find" /\ DOMAIN s = 1..Len(s)
  <2>1. s \in Seq(Statement)
    BY DEF TypeOK
  <2> QED
    BY <2>1, Heads
<1>2. Commits \in SUBSET Nat /\ Len(s) \in Commits
  BY <1>1 DEF Shaped
<1>3. PICK m \in Commits : \A k \in Commits : m <= k
  <2>1. Commits # {}
    BY <1>2
  <2> QED
    BY <1>2, <2>1, LeastNumber
<1>4. m \in DOMAIN s /\ P(m)
  <2>1. ASSUME NEW j \in 1..(m - 1), s[j].do = "commit" PROVE FALSE
    <3>1. j \in Commits
      BY <1>1, <1>3, <2>1
    <3>2. m <= j
      BY <1>3, <3>1
    <3> QED
      BY <1>3, <3>2
  <2> QED
    BY <1>1, <1>3, <2>1
<1> HIDE DEF P
<1>5. f \in DOMAIN s /\ P(f)
  BY <1>4, Zenon
<1>6. FromCommit(s) = SubSeq(s, f, Len(s))
  BY Zenon DEF FromCommit, P
<1> HIDE DEF f, s
<1>7. f \in 1..Len(s) /\ s[f].do = "commit" /\ f # 1
  BY <1>1, <1>5 DEF P
<1> DEFINE t == SubSeq(s, f, Len(s))
<1>8. /\ t \in Seq(Statement) /\ Len(t) = Len(s) - f + 1
      /\ \A k \in 1..Len(s) - f + 1 : t[k] = s[f + k - 1]
  <2>1. t \in Seq(Statement)
    BY <1>1, <1>7
  <2>2. Len(t) = Len(s) - f + 1
    BY <1>1, <1>7
  <2>3. \A k \in 1..Len(s) - f + 1 : t[k] = s[f + k - 1]
    BY <1>1, <1>7
  <2> QED
    BY <2>1, <2>2, <2>3
<1>9. /\ todo' \in [Clients -> Seq(Statement)] /\ todo'[c] = t
      /\ \A d \in Clients \ {c} : todo'[d] = todo[d]
  <2>1. todo' = [todo EXCEPT ![c] = t]
    BY <1>6 DEF s
  <2> HIDE DEF t
  <2> QED
    BY <1>8, <2>1 DEF TypeOK
<1> HIDE DEF t
<1>10. f - 1 \in 1..Len(s) /\ Len(t) = Len(s) - (f - 1) /\ Len(t) > 0
  BY <1>1, <1>7, <1>8
<1>11. \A k \in 1..Len(t) : t[k] = s[k + (f - 1)]
  <2>1. ASSUME NEW k \in 1..Len(t) PROVE t[k] = s[k + (f - 1)]
    <3>1. k \in 1..Len(s) - f + 1 /\ f + k - 1 = k + (f - 1)
      BY <1>1, <1>7, <1>8, <2>1
    <3> QED
      BY <1>8, <3>1
  <2> QED
    BY <2>1
<1>12. t[1] = s[f]
  <2>1. 1 \in 1..Len(t) /\ 1 + (f - 1) = f
    BY <1>7, <1>8, <1>10
  <2> QED
    BY <1>11, <2>1
<1>13. Moved(c, f - 1)
  BY <1>9, <1>10, <1>11 DEF Moved, s
<1>14. First(c, "commit")'
  BY <1>7, <1>9, <1>10, <1>12 DEF First
<1> QED
  BY <1>10, <1>13, <1>14 DEF s

(* Where a statement that is left was before. *)
Place(c, n, d, k) == IF d = c THEN k + n ELSE k

LEMMA Past ==
    ASSUME TypeOK, NEW c \in Clients, NEW n, Moved(c, n), NEW d \in Clients,
           NEW k \in 1..Len(todo'[d])
    PROVE  /\ Place(c, n, d, k) \in 1..Len(todo[d])
           /\ todo'[d][k] = todo[d][Place(c, n, d, k)]
           /\ todo'[d][k] \in Statement
<1>1. /\ todo[d] \in Seq(Statement) /\ todo[c] \in Seq(Statement) /\ todo'[d] \in Seq(Statement)
      /\ Len(todo[d]) \in Nat /\ Len(todo[c]) \in Nat /\ Len(todo'[d]) \in Nat
      /\ n \in 1..Len(todo[c])
  BY DEF TypeOK, Moved
<1>2. todo'[d][k] \in Statement
  BY <1>1
<1>3. CASE d = c
  BY <1>1, <1>2, <1>3 DEF Moved, Place
<1>4. CASE d # c
  BY <1>1, <1>2, <1>4 DEF Moved, Place
<1> QED
  BY <1>3, <1>4

(* What was handed out stays so, and a row keeps its source. *)
Sources ==
    \A i \in Ids : Known(i) =>
        /\ Known(i)'
        /\ \/ rows'[i] = None
           \/ /\ rows[i] # None
              /\ rows'[i].provenance = rows[i].provenance
              /\ rows'[i].origin = rows[i].origin

(* The ids of the insertions that are left are still nobody's. *)
Unused ==
    \A d \in Clients : \A k \in 1..Len(todo'[d]) :
        todo'[d][k].do = "insert" =>
            rows'[todo'[d][k].id] = None /\ todo'[d][k].id \notin removed'

LEMMA Advance ==
    ASSUME IInv, NEW c \in Clients, NEW n, Moved(c, n), Sources, Unused, removed \subseteq removed',
           First(c, "review") => \/ Len(todo'[c]) = 0
                                 \/ rows'[todo[c][1].id] = None
                                 \/ CanAccept(rows'[todo[c][1].id]),
           First(c, "remove") => todo[c][1].id \in removed'
    PROVE  Shapes' /\ Inserts' /\ Targets' /\ Reviewed' /\ Reindexes'
<1> DEFINE At(d, k) == Place(c, n, d, k)
<1>1. TypeOK
  BY DEF IInv
<1>2. /\ todo[c] \in Seq(Statement) /\ n \in 1..Len(todo[c]) /\ Len(todo[c]) \in Nat
      /\ \A d \in Clients \ {c} : todo'[d] = todo[d]
      /\ Len(todo'[c]) = Len(todo[c]) - n
      /\ \A d \in Clients : Len(todo'[d]) \in Nat /\ Len(todo[d]) \in Nat
  BY <1>1 DEF Moved, TypeOK
<1>3. ASSUME NEW d \in Clients, NEW k \in 1..Len(todo'[d])
      PROVE  /\ At(d, k) \in 1..Len(todo[d]) /\ todo'[d][k] = todo[d][At(d, k)]
             /\ todo'[d][k] \in Statement /\ todo'[d][k].id \in Ids
             /\ k < Len(todo'[d]) <=> At(d, k) < Len(todo[d])
             /\ At(d, k + 1) = At(d, k) + 1
             /\ k > 1 => k - 1 \in 1..Len(todo'[d]) /\ At(d, k - 1) = At(d, k) - 1 /\ At(d, k) > 1
             /\ k < Len(todo'[d]) => k + 1 \in 1..Len(todo'[d])
             /\ d = c => At(d, k) > 1
  <2>1. At(d, k) \in 1..Len(todo[d]) /\ todo'[d][k] = todo[d][At(d, k)] /\ todo'[d][k] \in Statement
    BY <1>1, Past
  <2>2. todo'[d][k].id \in Ids
    BY <2>1 DEF Statement
  <2>3. CASE d = c
    <3>1. /\ \A j : At(d, j) = j + n
          /\ Len(todo'[d]) = Len(todo[d]) - n /\ n \in 1..Len(todo[d])
          /\ Len(todo[d]) \in Nat /\ Len(todo'[d]) \in Nat
      BY <1>2, <2>3 DEF Place
    <3> HIDE DEF At
    <3>2. /\ At(d, k) = k + n /\ At(d, k + 1) = (k + 1) + n /\ At(d, k - 1) = (k - 1) + n
          /\ k \in Nat \ {0}
      BY <3>1
    <3>3. /\ k < Len(todo'[d]) <=> At(d, k) < Len(todo[d])
          /\ At(d, k + 1) = At(d, k) + 1
          /\ k > 1 => k - 1 \in 1..Len(todo'[d]) /\ At(d, k - 1) = At(d, k) - 1 /\ At(d, k) > 1
          /\ k < Len(todo'[d]) => k + 1 \in 1..Len(todo'[d])
          /\ At(d, k) > 1
      BY <3>1, <3>2
    <3> QED
      BY <2>1, <2>2, <3>3
  <2>4. CASE d # c
    BY <1>2, <2>1, <2>2, <2>4 DEF Place
  <2> QED
    BY <2>3, <2>4
<1> HIDE DEF At
<1>4. Shapes'
  <2>1. ASSUME NEW d \in Clients PROVE Shaped(todo'[d])
    <3>1. Shaped(todo[d])
      BY DEF IInv, Shapes
    <3>2. Len(todo'[d]) > 0 => todo'[d][Len(todo'[d])].do = "commit"
      <4>1. ASSUME Len(todo'[d]) > 0 PROVE todo'[d][Len(todo'[d])].do = "commit"
        <5>1. Len(todo'[d]) \in 1..Len(todo'[d])
          BY <1>2, <4>1
        <5> DEFINE z == Len(todo'[d])
        <5>0. z \in 1..Len(todo'[d]) /\ ~(z < Len(todo'[d]))
          BY <1>2, <5>1
        <5>2. /\ At(d, z) \in 1..Len(todo[d]) /\ todo'[d][z] = todo[d][At(d, z)]
              /\ ~(At(d, z) < Len(todo[d]))
          <6> HIDE DEF z
          <6> QED
            BY <1>3, <5>0
        <5>3. At(d, Len(todo'[d])) = Len(todo[d]) /\ Len(todo[d]) > 0
          BY <1>2, <5>2
        <5> QED
          BY <3>1, <5>2, <5>3 DEF Shaped
      <4> QED
        BY <4>1
    <3>3. ASSUME NEW k \in 1..Len(todo'[d])
          PROVE  /\ todo'[d][k].do = "insert" =>
                        k < Len(todo'[d]) /\ todo'[d][k + 1].do = "index"
                        /\ todo'[d][k + 1].id = todo'[d][k].id
                 /\ todo'[d][k].do = "update" /\ k > 1 =>
                        todo'[d][k - 1].do = "get" /\ todo'[d][k - 1].id = todo'[d][k].id
                 /\ todo'[d][k].do \in {"review", "remove"} => k = 1
      <4>1. CASE d = c
        <5> DEFINE p == At(d, k)
        <5>0. p \in 1..Len(todo[d]) /\ todo'[d][k] = todo[d][p]
          BY <1>3
        <5>1. ASSUME todo'[d][k].do = "insert"
              PROVE  k < Len(todo'[d]) /\ todo'[d][k + 1].do = "index"
                     /\ todo'[d][k + 1].id = todo'[d][k].id
          <6>1. p < Len(todo[d]) /\ todo[d][p + 1].do = "index" /\ todo[d][p + 1].id = todo[d][p].id
            BY <3>1, <5>0, <5>1 DEF Shaped
          <6>2. k < Len(todo'[d]) /\ k + 1 \in 1..Len(todo'[d]) /\ At(d, k + 1) = p + 1
            BY <1>3, <6>1
          <6>3. todo'[d][k + 1] = todo[d][p + 1]
            <7>1. todo'[d][k + 1] = todo[d][At(d, k + 1)]
              BY <1>3, <6>2
            <7> QED
              BY <6>2, <7>1
          <6> QED
            BY <5>0, <6>1, <6>2, <6>3
        <5>2. ASSUME todo'[d][k].do = "update", k > 1
              PROVE  todo'[d][k - 1].do = "get" /\ todo'[d][k - 1].id = todo'[d][k].id
          <6>1. k - 1 \in 1..Len(todo'[d]) /\ At(d, k - 1) = p - 1 /\ p > 1
            BY <1>3, <5>2
          <6>2. todo'[d][k - 1] = todo[d][p - 1]
            <7>1. todo'[d][k - 1] = todo[d][At(d, k - 1)]
              BY <1>3, <6>1
            <7> QED
              BY <6>1, <7>1
          <6>3. todo[d][p - 1].do = "get" /\ todo[d][p - 1].id = todo[d][p].id
            BY <3>1, <5>0, <5>2, <6>1 DEF Shaped
          <6> QED
            BY <5>0, <6>2, <6>3
        <5>3. todo'[d][k].do \notin {"review", "remove"}
          <6>1. p # 1
            BY <1>3, <4>1
          <6> QED
            BY <3>1, <5>0, <6>1 DEF Shaped
        <5> QED
          BY <5>1, <5>2, <5>3
      <4>2. CASE d # c
        <5>1. todo'[d] = todo[d]
          BY <1>2, <4>2
        <5> QED
          BY <3>1, <5>1 DEF Shaped
      <4> QED
        BY <4>1, <4>2
    <3> QED
      BY <3>2, <3>3 DEF Shaped
  <2> QED
    BY <2>1 DEF Shapes
<1>5. Inserts'
  <2>1. SUFFICES ASSUME NEW d \in Clients, NEW k \in 1..Len(todo'[d]), todo'[d][k].do = "insert"
                 PROVE  /\ todo'[d][k].new \in Record /\ Honest(todo'[d][k].new)
                        /\ rows'[todo'[d][k].id] = None /\ todo'[d][k].id \notin removed'
                        /\ \A e \in Clients : \A l \in 1..Len(todo'[e]) :
                              todo'[e][l].do = "insert" /\ todo'[e][l].id = todo'[d][k].id
                                  => e = d /\ l = k
    BY DEF Inserts, Honest, Trusted, Known
  <2>2. At(d, k) \in 1..Len(todo[d]) /\ todo'[d][k] = todo[d][At(d, k)]
    BY <1>3, <2>1
  <2>3. /\ todo'[d][k].new \in Record /\ Honest(todo'[d][k].new)
        /\ \A e \in Clients : \A l \in 1..Len(todo[e]) :
              todo[e][l].do = "insert" /\ todo[e][l].id = todo[d][At(d, k)].id
                  => e = d /\ l = At(d, k)
    BY <2>1, <2>2 DEF IInv, Inserts
  <2>4. rows'[todo'[d][k].id] = None /\ todo'[d][k].id \notin removed'
    BY <2>1 DEF Unused
  <2>5. ASSUME NEW e \in Clients, NEW l \in 1..Len(todo'[e]), todo'[e][l].do = "insert",
               todo'[e][l].id = todo'[d][k].id
        PROVE  e = d /\ l = k
    <3>1. At(e, l) \in 1..Len(todo[e]) /\ todo'[e][l] = todo[e][At(e, l)]
      BY <1>3
    <3>2. e = d /\ At(e, l) = At(d, k)
      BY <2>2, <2>3, <2>5, <3>1
    <3> QED
      BY <1>2, <3>2 DEF At, Place
  <2> QED
    BY <2>3, <2>4, <2>5
<1>6. Targets'
  <2>1. ASSUME NEW d \in Clients, NEW k \in 1..Len(todo'[d]),
               todo'[d][k].do \in {"get", "review", "update", "remove"}
        PROVE  rows'[todo'[d][k].id] # None \/ todo'[d][k].id \in removed'
    <3>1. Known(todo[d][At(d, k)].id) /\ todo'[d][k] = todo[d][At(d, k)] /\ todo'[d][k].id \in Ids
      BY <1>3, <2>1 DEF IInv, Targets
    <3> QED
      BY <3>1 DEF Sources, Known
  <2> QED
    BY <2>1 DEF Targets, Known
<1>7. Reviewed'
  <2>1. ASSUME NEW d \in Clients, NEW k \in 1..Len(todo'[d]), todo'[d][k].do = "update",
               todo'[d][k].status = "ACCEPTED"
        PROVE  \/ todo'[d][1].do = "review" /\ todo'[d][1].id = todo'[d][k].id
               \/ rows'[todo'[d][k].id] = None
               \/ CanAccept(rows'[todo'[d][k].id])
    <3> DEFINE i == todo'[d][k].id
    <3>1. At(d, k) \in 1..Len(todo[d]) /\ todo'[d][k] = todo[d][At(d, k)] /\ i \in Ids
      BY <1>3
    <3>2. Known(i)
      BY <2>1, <3>1 DEF IInv, Targets
    <3>3. \/ todo[d][1].do = "review" /\ todo[d][1].id = i
          \/ rows[i] = None
          \/ CanAccept(rows[i])
      BY <2>1, <3>1 DEF IInv, Reviewed
    <3>4. \/ rows'[i] = None
          \/ rows[i] # None /\ rows'[i].provenance = rows[i].provenance
      BY <3>1, <3>2 DEF Sources
    <3> HIDE DEF i
    <3>5. CASE rows[i] = None \/ CanAccept(rows[i])
      <4>1. rows'[i] = None \/ CanAccept(rows'[i])
        BY <3>4, <3>5 DEF CanAccept
      <4> QED
        BY <4>1 DEF i
    <3>6. CASE todo[d][1].do = "review" /\ todo[d][1].id = i
      <4>1. CASE d = c
        <5>1. First(c, "review") /\ Len(todo'[c]) # 0
          BY <1>2, <3>6, <4>1 DEF First
        <5> QED
          BY <3>6, <4>1, <5>1 DEF i
      <4>2. CASE d # c
        BY <1>2, <3>6, <4>2 DEF i
      <4> QED
        BY <4>1, <4>2
    <3> QED
      BY <3>3, <3>5, <3>6
  <2> QED
    BY <2>1 DEF Reviewed, CanAccept
<1>8. Reindexes'
  <2>1. ASSUME NEW d \in Clients, NEW k \in 1..Len(todo'[d]), todo'[d][k].do = "unindex"
        PROVE  \/ k < Len(todo'[d]) /\ todo'[d][k + 1].do = "index"
                  /\ todo'[d][k + 1].id = todo'[d][k].id
               \/ todo'[d][1].do = "remove" /\ todo'[d][1].id = todo'[d][k].id
               \/ todo'[d][k].id \in removed'
    <3> DEFINE p == At(d, k)
    <3>1. p \in 1..Len(todo[d]) /\ todo'[d][k] = todo[d][p] /\ (k < Len(todo'[d]) <=> p < Len(todo[d]))
      BY <1>3
    <3>2. \/ p < Len(todo[d]) /\ todo[d][p + 1].do = "index" /\ todo[d][p + 1].id = todo[d][p].id
          \/ todo[d][1].do = "remove" /\ todo[d][1].id = todo[d][p].id
          \/ todo[d][p].id \in removed
      BY <2>1, <3>1 DEF IInv, Reindexes
    <3>3. CASE p < Len(todo[d]) /\ todo[d][p + 1].do = "index" /\ todo[d][p + 1].id = todo[d][p].id
      <4>1. k < Len(todo'[d]) /\ k + 1 \in 1..Len(todo'[d]) /\ At(d, k + 1) = p + 1
        BY <1>3, <3>1, <3>3
      <4>2. todo'[d][k + 1] = todo[d][p + 1]
        <5>1. todo'[d][k + 1] = todo[d][At(d, k + 1)]
          BY <1>3, <4>1
        <5> QED
          BY <4>1, <5>1
      <4> QED
        BY <3>1, <3>3, <4>1, <4>2
    <3>4. CASE todo[d][1].do = "remove" /\ todo[d][1].id = todo[d][p].id
      <4>1. CASE d = c
        <5>1. First(c, "remove")
          BY <1>2, <3>4, <4>1 DEF First
        <5> QED
          BY <3>1, <3>4, <4>1, <5>1
      <4>2. CASE d # c
        <5>1. todo'[d] = todo[d]
          BY <1>2, <4>2
        <5> QED
          BY <3>1, <3>4, <5>1
      <4> QED
        BY <4>1, <4>2
    <3>5. CASE todo[d][p].id \in removed
      BY <3>1, <3>5
    <3> QED
      BY <3>2, <3>3, <3>4, <3>5
  <2> QED
    BY <2>1 DEF Reindexes
<1> QED
  BY <1>4, <1>5, <1>6, <1>7, <1>8

LEMMA Unwritten ==
    ASSUME IInv, NEW c \in Clients, NEW n, Moved(c, n), UNCHANGED <<rows, removed>>
    PROVE  Sources /\ Unused
<1>1. Sources
  BY DEF Sources, Known
<1>2. Unused
  <2>1. ASSUME NEW d \in Clients, NEW k \in 1..Len(todo'[d]), todo'[d][k].do = "insert"
        PROVE  rows'[todo'[d][k].id] = None /\ todo'[d][k].id \notin removed'
    <3> DEFINE p == Place(c, n, d, k)
    <3>1. p \in 1..Len(todo[d]) /\ todo'[d][k] = todo[d][p]
      BY Past DEF IInv
    <3> HIDE DEF p
    <3>2. ~Known(todo[d][p].id)
      BY <2>1, <3>1 DEF IInv, Inserts
    <3> QED
      BY <3>1, <3>2 DEF Known
  <2> QED
    BY <2>1 DEF Unused
<1> QED
  BY <1>1, <1>2

LEMMA QuietKeeps ==
    ASSUME IInv, NEW c \in Clients, NEW n, Moved(c, n), UNCHANGED <<rows, removed>>,
           ~First(c, "remove"),
           First(c, "review") => Len(todo'[c]) = 0 \/ CanAccept(rows[todo[c][1].id])
    PROVE  Shapes' /\ Inserts' /\ Targets' /\ Reviewed' /\ Reindexes'
<1>1. Sources /\ Unused
  BY Unwritten
<1>2. removed \subseteq removed' /\ rows' = rows
  OBVIOUS
<1>3. First(c, "review") => \/ Len(todo'[c]) = 0
                            \/ rows'[todo[c][1].id] = None
                            \/ CanAccept(rows'[todo[c][1].id])
  BY <1>2
<1> QED
  BY <1>1, <1>2, <1>3, Advance

(* Only a SELECT is followed by an UPDATE. *)
LEMMA UpdateFollowsGet ==
    ASSUME IInv, NEW c \in Clients, Moved(c, 1), First(c, "update")'
    PROVE  First(c, "get") /\ todo'[c][1].id = todo[c][1].id
<1>1. /\ 1 \in 1..Len(todo'[c]) /\ Len(todo[c]) \in Nat /\ Len(todo'[c]) = Len(todo[c]) - 1
      /\ Shaped(todo[c])
  BY DEF IInv, TypeOK, First, Moved, Shapes
<1>2. todo'[c][1] = todo[c][2] /\ 2 \in 1..Len(todo[c])
  BY <1>1 DEF Moved
<1>3. todo[c][2].do = "update"
  BY <1>2 DEF First
<1>4. todo[c][1].do = "get" /\ todo[c][1].id = todo[c][2].id
  BY <1>1, <1>2, <1>3 DEF Shaped
<1> QED
  BY <1>1, <1>2, <1>4 DEF First

LEMMA ReadKeeps ==
    ASSUME IInv, NEW c \in Clients, NEW n, Moved(c, n), Sources,
           \A d \in Clients \ {c} : rec'[d] = rec[d],
           Honest(rec'[c]),
           First(c, "update")' =>
              /\ rec'[c] \in Record
              /\ rows'[todo'[c][1].id] # None =>
                    /\ rec'[c].provenance = rows'[todo'[c][1].id].provenance
                    /\ rec'[c].origin = rows'[todo'[c][1].id].origin
    PROVE  Read'
<1>1. ASSUME NEW d \in Clients
      PROVE  /\ Honest(rec'[d])
             /\ First(d, "update")' =>
                  /\ rec'[d] \in Record
                  /\ rows'[todo'[d][1].id] # None =>
                        /\ rec'[d].provenance = rows'[todo'[d][1].id].provenance
                        /\ rec'[d].origin = rows'[todo'[d][1].id].origin
  <2>1. CASE d = c
    BY <2>1
  <2>2. CASE d # c
    <3>1. rec'[d] = rec[d] /\ todo'[d] = todo[d]
      BY <2>2 DEF Moved
    <3>2. Honest(rec'[d])
      BY <3>1 DEF IInv, Read
    <3>3. ASSUME First(d, "update")'
          PROVE  /\ rec'[d] \in Record
                 /\ rows'[todo'[d][1].id] # None =>
                        /\ rec'[d].provenance = rows'[todo'[d][1].id].provenance
                        /\ rec'[d].origin = rows'[todo'[d][1].id].origin
      <4> DEFINE i == todo[d][1].id
      <4>1. First(d, "update") /\ 1 \in 1..Len(todo[d]) /\ todo[d][1] \in Statement
        BY <3>1, <3>3 DEF First, IInv, TypeOK
      <4>2. i \in Ids /\ Known(i)
        BY <4>1 DEF First, IInv, Targets, Statement
      <4>3. /\ rec[d] \in Record
            /\ rows[i] # None =>
                 rec[d].provenance = rows[i].provenance /\ rec[d].origin = rows[i].origin
        BY <4>1 DEF IInv, Read
      <4>4. \/ rows'[i] = None
            \/ /\ rows[i] # None
               /\ rows'[i].provenance = rows[i].provenance
               /\ rows'[i].origin = rows[i].origin
        BY <4>2 DEF Sources
      <4> HIDE DEF i
      <4>5. rows'[i] # None =>
                 rec'[d].provenance = rows'[i].provenance /\ rec'[d].origin = rows'[i].origin
        BY <3>1, <4>3, <4>4
      <4> QED
        BY <3>1, <4>3, <4>5 DEF i
    <3> QED
      BY <3>2, <3>3
  <2> QED
    BY <2>1, <2>2
<1> QED
  BY <1>1 DEF Read, Honest, Trusted

(* An entry of the index that is there or about to be written stays so when  *)
(* a coroutine does something else.                                          *)
LEMMA CoveredStays ==
    ASSUME NEW c \in Clients, NEW n, Moved(c, n), ~First(c, "index"), NEW i, i \in index => i \in index'
    PROVE  Covered(i) => Covered(i)'
<1>1. \A d \in Clients : First(d, "index") => First(d, "index")' /\ todo'[d] = todo[d]
  BY DEF Moved, First
<1> QED
  BY <1>1 DEF Covered

LEMMA IndexedStays ==
    ASSUME IInv, NEW c \in Clients, NEW n, Moved(c, n), ~First(c, "index"),
           UNCHANGED <<index, cut, disk>>, \A i \in Ids : rows'[i] # None => rows[i] # None
    PROVE  Indexed'
<1>1. \A i \in Ids : Covered(i) => Covered(i)'
  BY CoveredStays
<1> QED
  BY <1>1 DEF IInv, Indexed

-----------------------------------------------------------------------------
(* Each statement preserves the invariant.                                   *)

LEMMA GetKeeps ==
    ASSUME IInv, NEW c \in Clients, Get(c)
    PROVE  IInv'
<1> DEFINE i == todo[c][1].id
<1>1. /\ Doing(c, "get") /\ First(c, "get") /\ Id(c) = i /\ i \in Ids /\ TypeOK
      /\ ~First(c, "index") /\ ~First(c, "remove") /\ ~First(c, "review")
  BY Heads DEF Get, IInv, First
<1>2. UNCHANGED <<rows, index, disk, kept, removed, cut, crashes>>
  BY DEF Get, tables, history
<1> HIDE DEF i
<1>3. \/ Abandon(c) /\ UNCHANGED rec
      \/ Done(c) /\ rec' = [rec EXCEPT ![c] = rows[i]] /\ rows[i] # None
  BY <1>1, Zenon DEF Get
<1>4. /\ rec' \in [Clients -> Record \cup {None}] /\ \A d \in Clients \ {c} : rec'[d] = rec[d]
      /\ rec'[c] \in {rec[c], rows[i]}
  BY <1>1, <1>3 DEF TypeOK
<1>5. \E n \in Nat : Moved(c, n) /\ (n = 1 \/ Len(todo'[c]) = 0)
  <2>1. \A n : Moved(c, n) => n \in Nat
    BY <1>1 DEF Moved, TypeOK
  <2> QED
    BY <1>1, <1>3, <2>1, AbandonMoves, DoneMoves
<1>6. PICK n \in Nat : Moved(c, n) /\ (n = 1 \/ Len(todo'[c]) = 0)
  BY <1>5
<1>7. TypeOK'
  BY <1>1, <1>2, <1>4, <1>6 DEF TypeOK, Moved
<1>8. Shapes' /\ Inserts' /\ Targets' /\ Reviewed' /\ Reindexes' /\ Sources
  BY <1>1, <1>2, <1>6, QuietKeeps, Unwritten
<1>9. Read'
  <2>1. Honest(rec'[c])
    BY <1>1, <1>4 DEF IInv, Read, Honest, TrustFollowsProvenance
  <2>2. ASSUME First(c, "update")'
        PROVE  /\ rec'[c] \in Record
               /\ rows'[todo'[c][1].id] # None =>
                    /\ rec'[c].provenance = rows'[todo'[c][1].id].provenance
                    /\ rec'[c].origin = rows'[todo'[c][1].id].origin
    <3>1. Len(todo'[c]) # 0
      BY <2>2 DEF First
    <3>2. n = 1 /\ Moved(c, 1)
      BY <1>6, <3>1
    <3>3. todo'[c][1].id = i
      BY <2>2, <3>2, UpdateFollowsGet DEF i
    <3>4. rec'[c] = rows[i] /\ rows[i] # None
      <4>1. ~Abandon(c)
        BY <1>1, <3>1, AbandonMoves
      <4> QED
        BY <1>1, <1>3, <4>1 DEF TypeOK
    <3> QED
      BY <1>1, <1>2, <3>3, <3>4 DEF TypeOK
  <2> QED
    BY <1>4, <1>6, <1>8, <2>1, <2>2, ReadKeeps
<1>10. Indexed'
  BY <1>1, <1>2, <1>6, IndexedStays
<1>11. TrustFollowsProvenance' /\ Durable' /\ DeletedStaysDeleted'
  BY <1>2 DEF IInv, TrustFollowsProvenance, Trusted, Durable, DeletedStaysDeleted
<1> QED
  BY <1>7, <1>8, <1>9, <1>10, <1>11 DEF IInv

(* A statement that writes neither the records nor what is read of them. *)
LEMMA AsideKeeps ==
    ASSUME IInv, NEW c \in Clients, NEW n, Moved(c, n), UNCHANGED <<rows, rec, removed>>,
           ~First(c, "remove"), ~First(c, "get"),
           First(c, "review") => Len(todo'[c]) = 0 \/ CanAccept(rows[todo[c][1].id]),
           n = 1 \/ Len(todo'[c]) = 0 \/ First(c, "commit")'
    PROVE  Shapes' /\ Inserts' /\ Targets' /\ Reviewed' /\ Reindexes' /\ Read'
<1>1. Shapes' /\ Inserts' /\ Targets' /\ Reviewed' /\ Reindexes' /\ Sources
  BY QuietKeeps, Unwritten
<1>2. ~First(c, "update")'
  <2>1. ASSUME First(c, "update")' PROVE FALSE
    <3>1. n = 1 /\ Moved(c, 1)
      BY <2>1 DEF First
    <3> QED
      BY <2>1, <3>1, UpdateFollowsGet
  <2> QED
    BY <2>1
<1>3. Honest(rec'[c]) /\ \A d \in Clients \ {c} : rec'[d] = rec[d]
  BY DEF IInv, Read
<1> QED
  BY <1>1, <1>2, <1>3, ReadKeeps

LEMMA ReviewKeeps ==
    ASSUME IInv, NEW c \in Clients, Review(c)
    PROVE  IInv'
<1> DEFINE i == todo[c][1].id
<1>1. /\ Doing(c, "review") /\ First(c, "review") /\ Id(c) = i /\ i \in Ids /\ TypeOK
      /\ ~First(c, "index") /\ ~First(c, "remove") /\ ~First(c, "get")
  BY Heads DEF Review, IInv, First
<1>2. UNCHANGED <<rows, index, disk, rec, kept, removed, cut, crashes>>
  BY DEF Review, tables, history
<1>3. Abandon(c) \/ (Done(c) /\ CanAccept(rows[i]))
  <2> HIDE DEF i
  <2>1. \/ rows[i] # None /\ CanAccept(rows[i]) /\ Done(c)
        \/ Abandon(c)
    BY <1>1, Zenon DEF Review
  <2> QED
    BY <2>1
<1> HIDE DEF i
<1>4. PICK n : /\ Moved(c, n) /\ (n = 1 \/ Len(todo'[c]) = 0)
               /\ Len(todo'[c]) = 0 \/ CanAccept(rows[i])
  BY <1>1, <1>3, AbandonMoves, DoneMoves
<1>5. TypeOK'
  BY <1>1, <1>2, <1>4 DEF TypeOK, Moved
<1>6. Shapes' /\ Inserts' /\ Targets' /\ Reviewed' /\ Reindexes' /\ Read'
  BY <1>1, <1>2, <1>4, AsideKeeps DEF i
<1>7. Indexed'
  BY <1>1, <1>2, <1>4, IndexedStays
<1>8. TrustFollowsProvenance' /\ Durable' /\ DeletedStaysDeleted'
  BY <1>2 DEF IInv, TrustFollowsProvenance, Trusted, Durable, DeletedStaysDeleted
<1> QED
  BY <1>5, <1>6, <1>7, <1>8 DEF IInv

LEMMA FindKeeps ==
    ASSUME IInv, NEW c \in Clients, Find(c)
    PROVE  IInv'
<1>1. /\ Doing(c, "find") /\ TypeOK /\ Shaped(todo[c])
      /\ ~First(c, "index") /\ ~First(c, "remove") /\ ~First(c, "get") /\ ~First(c, "review")
  BY Heads DEF Find, IInv, First, Shapes
<1>2. UNCHANGED <<rows, index, disk, rec, kept, removed, cut, crashes>>
  BY DEF Find, tables, history
<1>3. todo' = [todo EXCEPT ![c] = FromCommit(@)] \/ Done(c)
  BY Zenon DEF Find
<1>4. PICK n : Moved(c, n) /\ (n = 1 \/ First(c, "commit")')
  BY <1>1, <1>3, FindMoves, DoneMoves
<1>5. TypeOK'
  BY <1>1, <1>2, <1>4 DEF TypeOK, Moved
<1>6. Shapes' /\ Inserts' /\ Targets' /\ Reviewed' /\ Reindexes' /\ Read'
  BY <1>1, <1>2, <1>4, AsideKeeps
<1>7. Indexed'
  BY <1>1, <1>2, <1>4, IndexedStays
<1>8. TrustFollowsProvenance' /\ Durable' /\ DeletedStaysDeleted'
  BY <1>2 DEF IInv, TrustFollowsProvenance, Trusted, Durable, DeletedStaysDeleted
<1> QED
  BY <1>5, <1>6, <1>7, <1>8 DEF IInv

LEMMA CommitKeeps ==
    ASSUME IInv, NEW c \in Clients, Commit(c)
    PROVE  IInv'
<1>1. /\ Doing(c, "commit") /\ Id(c) \in Ids /\ TypeOK /\ Done(c)
      /\ ~First(c, "index") /\ ~First(c, "remove") /\ ~First(c, "get") /\ ~First(c, "review")
  BY Heads DEF Commit, IInv, First
<1>2. /\ UNCHANGED <<rows, index, rec, removed, cut, crashes>>
      /\ disk' = [rows |-> rows, index |-> index, cut |-> cut \cup Owed]
      /\ kept' = IF rows[Id(c)] # None THEN kept \cup {Id(c)} ELSE kept
  BY DEF Commit, tables
<1>3. Moved(c, 1)
  BY <1>1, DoneMoves
<1>4. TypeOK'
  <2>1. Owed \subseteq Ids
    BY <1>1, Heads DEF Owed
  <2> QED
    BY <1>1, <1>2, <1>3, <2>1 DEF TypeOK, Moved
<1>5. Shapes' /\ Inserts' /\ Targets' /\ Reviewed' /\ Reindexes' /\ Read'
  BY <1>1, <1>2, <1>3, AsideKeeps
<1>6. Indexed'
  <2>1. \A i \in Ids : Covered(i) => Covered(i)'
    BY <1>1, <1>2, <1>3, CoveredStays
  <2>2. \A i \in Ids : Covered(i) => i \in index \/ i \in Owed
    <3>1. \A d \in Clients : First(d, "index") => Doing(d, "index") /\ Id(d) = todo[d][1].id
      BY <1>1 DEF First, Doing, Id, TypeOK
    <3> QED
      BY <3>1 DEF Covered, Owed
  <2>3. disk'.rows = rows /\ disk'.index = index /\ disk'.cut = cut \cup Owed
    BY <1>2
  <2> QED
    BY <1>2, <2>1, <2>2, <2>3 DEF IInv, Indexed
<1>7. TrustFollowsProvenance' /\ DeletedStaysDeleted'
  BY <1>2 DEF IInv, TrustFollowsProvenance, Trusted, DeletedStaysDeleted
<1>8. Durable'
  <2>1. disk'.rows = rows
    BY <1>2
  <2>2. \A i \in kept' \ removed : rows[i] # None
    BY <1>2 DEF IInv, Durable
  <2> QED
    BY <1>2, <2>1, <2>2 DEF Durable
<1> QED
  BY <1>4, <1>5, <1>6, <1>7, <1>8 DEF IInv

LEMMA UnindexKeeps ==
    ASSUME IInv, NEW c \in Clients, Unindex(c)
    PROVE  IInv'
<1>0. PICK i : i = todo[c][1].id
  OBVIOUS
<1>1. /\ Doing(c, "unindex") /\ First(c, "unindex") /\ Id(c) = i /\ i \in Ids /\ TypeOK /\ Done(c)
      /\ ~First(c, "index") /\ ~First(c, "remove") /\ ~First(c, "get") /\ ~First(c, "review")
  BY <1>0, Heads DEF Unindex, IInv, First
<1>2. UNCHANGED <<rows, disk, rec, kept, removed, cut, crashes>> /\ index' = index \ {i}
  BY <1>1 DEF Unindex, history
<1>3. Moved(c, 1)
  BY <1>1, DoneMoves
<1>4. TypeOK'
  BY <1>1, <1>2, <1>3 DEF TypeOK, Moved
<1>5. Shapes' /\ Inserts' /\ Targets' /\ Reviewed' /\ Reindexes' /\ Read'
  BY <1>1, <1>2, <1>3, AsideKeeps
<1>6. Indexed'
  <2>1. ASSUME rows[i] # None PROVE Covered(i)'
    <3>1. 1 \in 1..Len(todo[c]) /\ todo[c][1].do = "unindex" /\ todo[c][1].id = i
      BY <1>0, <1>1, Heads
    <3>2. i \notin removed
      BY <2>1 DEF IInv, DeletedStaysDeleted
    <3>3. 1 < Len(todo[c]) /\ todo[c][2].do = "index" /\ todo[c][2].id = i
      BY <3>1, <3>2 DEF IInv, Reindexes
    <3>4. 1 \in 1..Len(todo'[c]) /\ todo'[c][1] = todo[c][2] /\ Len(todo'[c]) > 0
      BY <1>1, <1>3, <3>3 DEF Moved, TypeOK
    <3> QED
      BY <3>3, <3>4 DEF Covered, First
  <2>2. ASSUME NEW j \in Ids, j # i PROVE Covered(j) => Covered(j)'
    <3>1. j \in index => j \in index'
      BY <1>2, <2>2
    <3> QED
      BY <1>1, <1>3, <3>1, CoveredStays
  <2> QED
    BY <1>1, <1>2, <2>1, <2>2 DEF IInv, Indexed
<1>7. TrustFollowsProvenance' /\ Durable' /\ DeletedStaysDeleted'
  BY <1>2 DEF IInv, TrustFollowsProvenance, Trusted, Durable, DeletedStaysDeleted
<1> QED
  BY <1>4, <1>5, <1>6, <1>7 DEF IInv

LEMMA IndexKeeps ==
    ASSUME IInv, NEW c \in Clients, Index(c)
    PROVE  IInv'
<1>0. PICK i : i = todo[c][1].id
  OBVIOUS
<1>1. /\ Doing(c, "index") /\ First(c, "index") /\ Id(c) = i /\ i \in Ids /\ TypeOK
      /\ ~First(c, "remove") /\ ~First(c, "get") /\ ~First(c, "review")
  BY <1>0, Heads DEF Index, IInv, First
<1>2. UNCHANGED <<rows, disk, rec, kept, removed, crashes>> /\ cut' = cut \ {i}
  BY <1>1 DEF Index
<1>3. /\ Abandon(c) \/ Done(c)
      /\ (i \in index /\ index' = index) \/ index' = index \cup {i}
  <2>1. \/ Abandon(c) /\ UNCHANGED index /\ i \in index
        \/ Done(c) /\ index' = index \cup {i}
    BY <1>1, Zenon DEF Index
  <2> QED
    BY <2>1
<1>4. i \in index' /\ index \subseteq index' /\ index' \subseteq Ids
  BY <1>1, <1>3 DEF TypeOK
<1>5. PICK n : Moved(c, n) /\ (n = 1 \/ Len(todo'[c]) = 0)
  BY <1>1, <1>3, AbandonMoves, DoneMoves
<1>6. TypeOK'
  BY <1>1, <1>2, <1>4, <1>5 DEF TypeOK, Moved
<1>7. Shapes' /\ Inserts' /\ Targets' /\ Reviewed' /\ Reindexes' /\ Read'
  BY <1>1, <1>2, <1>5, AsideKeeps
<1>8. Indexed'
  <2>1. ASSUME NEW j \in Ids, j # i, Covered(j) PROVE Covered(j)'
    <3>1. CASE j \in index
      BY <1>4, <3>1 DEF Covered
    <3>2. CASE \E d \in Clients : First(d, "index") /\ todo[d][1].id = j
      <4>1. PICK d \in Clients : First(d, "index") /\ todo[d][1].id = j
        BY <3>2
      <4>2. d # c
        BY <1>0, <2>1, <4>1
      <4>3. todo'[d] = todo[d]
        BY <1>5, <4>2 DEF Moved
      <4> QED
        BY <4>1, <4>3 DEF Covered, First
    <3> QED
      BY <2>1, <3>1, <3>2 DEF Covered
  <2>2. Covered(i)'
    BY <1>4 DEF Covered
  <2> QED
    BY <1>2, <2>1, <2>2 DEF IInv, Indexed
<1>9. TrustFollowsProvenance' /\ Durable' /\ DeletedStaysDeleted'
  BY <1>2 DEF IInv, TrustFollowsProvenance, Trusted, Durable, DeletedStaysDeleted
<1> QED
  BY <1>6, <1>7, <1>8, <1>9 DEF IInv

(* The statements that write a row, or take it out. *)

LEMMA InsertKeeps ==
    ASSUME IInv, NEW c \in Clients, InsertRow(c)
    PROVE  IInv'
<1>0. PICK i : i = todo[c][1].id
  OBVIOUS
<1> DEFINE r == todo[c][1].new
<1>1. /\ Doing(c, "insert") /\ First(c, "insert") /\ Id(c) = i /\ i \in Ids /\ TypeOK /\ Done(c)
      /\ Head(todo[c]).new = r /\ 1 \in 1..Len(todo[c])
      /\ ~First(c, "index") /\ ~First(c, "remove") /\ ~First(c, "get") /\ ~First(c, "review")
  BY <1>0, Heads DEF InsertRow, IInv, First
<1>2. /\ UNCHANGED <<index, disk, rec, kept, removed, cut, crashes>>
      /\ rows' = [rows EXCEPT ![i] = r]
  BY <1>1 DEF InsertRow, history
<1>3. /\ r \in Record /\ Honest(r) /\ rows[i] = None /\ i \notin removed
      /\ \A d \in Clients : \A l \in 1..Len(todo[d]) :
            todo[d][l].do = "insert" /\ todo[d][l].id = i => d = c /\ l = 1
  <2>1. /\ r \in Record /\ Honest(r) /\ ~Known(i)
        /\ \A d \in Clients : \A l \in 1..Len(todo[d]) :
              todo[d][l].do = "insert" /\ todo[d][l].id = i => d = c /\ l = 1
    BY <1>0, <1>1 DEF IInv, Inserts, First
  <2> QED
    BY <2>1 DEF Known
<1>4. 1 < Len(todo[c]) /\ todo[c][2].do = "index" /\ todo[c][2].id = i
  BY <1>0, <1>1 DEF IInv, Shapes, Shaped, First
<1> HIDE DEF r
<1>5. Moved(c, 1)
  BY <1>1, DoneMoves
<1>6. rows'[i] = r /\ r # None /\ \A j \in Ids \ {i} : rows'[j] = rows[j]
  BY <1>1, <1>2, <1>3, NoneAssumption DEF TypeOK
<1>7. TypeOK'
  <2>1. rows' \in [Ids -> Record \cup {None}]
    BY <1>1, <1>2, <1>3 DEF TypeOK
  <2> QED
    BY <1>1, <1>2, <1>5, <2>1 DEF TypeOK, Moved
<1>8. Sources
  BY <1>2, <1>3, <1>6 DEF Sources, Known
<1>9. Unused
  <2>1. ASSUME NEW d \in Clients, NEW k \in 1..Len(todo'[d]), todo'[d][k].do = "insert"
        PROVE  rows'[todo'[d][k].id] = None /\ todo'[d][k].id \notin removed'
    <3> DEFINE p == Place(c, 1, d, k)
    <3>1. p \in 1..Len(todo[d]) /\ todo'[d][k] = todo[d][p] /\ todo'[d][k].id \in Ids
      BY <1>1, <1>5, Past DEF Statement
    <3>2. k \in Nat \ {0}
      BY <1>7 DEF TypeOK
    <3>3. ~(d = c /\ p = 1)
      BY <3>2 DEF Place
    <3> HIDE DEF p
    <3>4. ~Known(todo[d][p].id)
      BY <2>1, <3>1 DEF IInv, Inserts
    <3>5. todo[d][p].id # i
      BY <1>3, <2>1, <3>1, <3>3
    <3> QED
      BY <1>2, <1>6, <3>1, <3>4, <3>5 DEF Known
  <2> QED
    BY <2>1 DEF Unused
<1>10. Shapes' /\ Inserts' /\ Targets' /\ Reviewed' /\ Reindexes'
  BY <1>0, <1>1, <1>2, <1>5, <1>8, <1>9, Advance
<1>11. Read'
  <2>1. ~First(c, "update")'
    BY <1>1, <1>5, UpdateFollowsGet
  <2>2. Honest(rec'[c]) /\ \A d \in Clients \ {c} : rec'[d] = rec[d]
    BY <1>2 DEF IInv, Read
  <2> QED
    BY <1>5, <1>8, <2>1, <2>2, ReadKeeps
<1>12. Indexed'
  <2>1. Covered(i)'
    <3>1. 1 \in 1..Len(todo'[c]) /\ todo'[c][1] = todo[c][2] /\ Len(todo'[c]) > 0
      BY <1>1, <1>4, <1>5 DEF Moved, TypeOK
    <3> QED
      BY <1>4, <3>1 DEF Covered, First
  <2>2. \A j \in Ids : Covered(j) => Covered(j)'
    BY <1>1, <1>2, <1>5, CoveredStays
  <2> QED
    BY <1>2, <1>6, <2>1, <2>2 DEF IInv, Indexed
<1>13. TrustFollowsProvenance'
  BY <1>2, <1>3, <1>6 DEF IInv, TrustFollowsProvenance, Trusted, Honest
<1>14. Durable' /\ DeletedStaysDeleted'
  BY <1>1, <1>2, <1>3, <1>6 DEF IInv, Durable, DeletedStaysDeleted, TypeOK
<1> QED
  BY <1>7, <1>10, <1>11, <1>12, <1>13, <1>14 DEF IInv

LEMMA UpdateKeeps ==
    ASSUME IInv, NEW c \in Clients, UpdateRow(c)
    PROVE  IInv'
<1> DEFINE i == todo[c][1].id
           w == todo[c][1].status
<1>1. /\ Doing(c, "update") /\ First(c, "update") /\ Id(c) = i /\ i \in Ids /\ TypeOK /\ Done(c)
      /\ Head(todo[c]).status = w /\ w \in Statuses \cup {"same"} /\ 1 \in 1..Len(todo[c])
      /\ ~First(c, "index") /\ ~First(c, "remove") /\ ~First(c, "get") /\ ~First(c, "review")
  BY Heads DEF UpdateRow, IInv, First, Statement
<1>2. /\ UNCHANGED <<index, disk, kept, removed, cut, crashes>>
      /\ rows' = [rows EXCEPT ![i] = IF rows[i] = None THEN None ELSE Changed(c)]
      /\ rec' = [rec EXCEPT ![c] = None]
  BY <1>1 DEF UpdateRow, history
<1>3. Moved(c, 1)
  BY <1>1, DoneMoves
<1>4. /\ rec[c] \in Record /\ Honest(rec[c])
      /\ rows[i] # None => rec[c].provenance = rows[i].provenance /\ rec[c].origin = rows[i].origin
      /\ w = "ACCEPTED" => rows[i] = None \/ CanAccept(rows[i])
  BY <1>1 DEF IInv, Read, Reviewed, First
<1> HIDE DEF i, w
<1> DEFINE r == Changed(c)
<1>5. /\ r \in Record /\ r.provenance = rec[c].provenance /\ r.origin = rec[c].origin
      /\ r.status = IF w = "same" THEN rec[c].status ELSE w
  BY <1>1, <1>4 DEF Changed, Record
<1>6. r # None
  BY <1>5, NoneAssumption
<1>7. rows[i] # None => Honest(r)
  <2>1. CASE w = "same"
    BY <1>4, <1>5, <2>1, NoneAssumption DEF Honest, Trusted
  <2>2. CASE w = "ACCEPTED"
    BY <1>4, <1>5, <2>2 DEF Honest, Trusted, CanAccept
  <2>3. CASE w # "same" /\ w # "ACCEPTED"
    BY <1>5, <2>3 DEF Honest, Trusted
  <2> QED
    BY <2>1, <2>2, <2>3
<1> HIDE DEF r
<1>8. /\ rows'[i] = IF rows[i] = None THEN None ELSE r
      /\ \A j \in Ids \ {i} : rows'[j] = rows[j]
  BY <1>1, <1>2 DEF TypeOK, r
<1>9. TypeOK'
  <2>1. rows' \in [Ids -> Record \cup {None}] /\ rec' \in [Clients -> Record \cup {None}]
    BY <1>1, <1>2, <1>5 DEF TypeOK, r
  <2> QED
    BY <1>1, <1>2, <1>3, <2>1 DEF TypeOK, Moved
<1>10. \A j \in Ids : rows'[j] # None <=> rows[j] # None
  BY <1>6, <1>8
<1>11. Sources
  BY <1>2, <1>4, <1>5, <1>8, <1>10 DEF Sources, Known
<1>12. Unused
  <2>1. ASSUME NEW d \in Clients, NEW k \in 1..Len(todo'[d]), todo'[d][k].do = "insert"
        PROVE  rows'[todo'[d][k].id] = None /\ todo'[d][k].id \notin removed'
    <3> DEFINE p == Place(c, 1, d, k)
    <3>1. p \in 1..Len(todo[d]) /\ todo'[d][k] = todo[d][p] /\ todo'[d][k].id \in Ids
      BY <1>1, <1>3, Past DEF Statement
    <3> HIDE DEF p
    <3>2. ~Known(todo[d][p].id)
      BY <2>1, <3>1 DEF IInv, Inserts
    <3> QED
      BY <1>2, <1>10, <3>1, <3>2 DEF Known
  <2> QED
    BY <2>1 DEF Unused
<1>13. Shapes' /\ Inserts' /\ Targets' /\ Reviewed' /\ Reindexes'
  BY <1>1, <1>2, <1>3, <1>11, <1>12, Advance
<1>14. Read'
  <2>1. ~First(c, "update")'
    BY <1>1, <1>3, UpdateFollowsGet
  <2>2. Honest(rec'[c]) /\ \A d \in Clients \ {c} : rec'[d] = rec[d]
    BY <1>1, <1>2 DEF TypeOK, Honest
  <2> QED
    BY <1>3, <1>11, <2>1, <2>2, ReadKeeps
<1>15. Indexed'
  BY <1>1, <1>2, <1>3, <1>10, IndexedStays
<1>16. TrustFollowsProvenance'
  BY <1>2, <1>7, <1>8 DEF IInv, TrustFollowsProvenance, Trusted, Honest
<1>17. Durable' /\ DeletedStaysDeleted'
  BY <1>1, <1>2, <1>10 DEF IInv, Durable, DeletedStaysDeleted, TypeOK
<1> QED
  BY <1>9, <1>13, <1>14, <1>15, <1>16, <1>17 DEF IInv

LEMMA RemoveKeeps ==
    ASSUME IInv, NEW c \in Clients, RemoveRow(c)
    PROVE  IInv'
<1> DEFINE i == todo[c][1].id
<1>1. /\ Doing(c, "remove") /\ First(c, "remove") /\ Id(c) = i /\ i \in Ids /\ TypeOK /\ Done(c)
      /\ ~First(c, "index") /\ ~First(c, "get") /\ ~First(c, "review") /\ 1 \in 1..Len(todo[c])
  BY Heads DEF RemoveRow, IInv, First
<1>2. /\ UNCHANGED <<index, disk, rec, kept, cut, crashes>> /\ removed' = removed \cup {i}
      /\ rows' = [rows EXCEPT ![i] = None]
  BY <1>1 DEF RemoveRow
<1>3. Moved(c, 1)
  BY <1>1, DoneMoves
<1>4. Known(i)
  BY <1>1 DEF IInv, Targets, First
<1>5. First(c, "remove") => todo[c][1].id \in removed'
  BY <1>2
<1> HIDE DEF i
<1>6. rows'[i] = None /\ \A j \in Ids \ {i} : rows'[j] = rows[j]
  BY <1>1, <1>2 DEF TypeOK
<1>7. TypeOK'
  BY <1>1, <1>2, <1>3 DEF TypeOK, Moved
<1>8. Sources
  BY <1>2, <1>6 DEF Sources, Known
<1>9. Unused
  <2>1. ASSUME NEW d \in Clients, NEW k \in 1..Len(todo'[d]), todo'[d][k].do = "insert"
        PROVE  rows'[todo'[d][k].id] = None /\ todo'[d][k].id \notin removed'
    <3> DEFINE p == Place(c, 1, d, k)
    <3>1. p \in 1..Len(todo[d]) /\ todo'[d][k] = todo[d][p] /\ todo'[d][k].id \in Ids
      BY <1>1, <1>3, Past DEF Statement
    <3> HIDE DEF p
    <3>2. ~Known(todo[d][p].id)
      BY <2>1, <3>1 DEF IInv, Inserts
    <3>3. todo[d][p].id # i
      BY <1>4, <3>2
    <3> QED
      BY <1>2, <1>6, <3>1, <3>2, <3>3 DEF Known
  <2> QED
    BY <2>1 DEF Unused
<1>10. Shapes' /\ Inserts' /\ Targets' /\ Reviewed' /\ Reindexes'
  BY <1>1, <1>2, <1>3, <1>5, <1>8, <1>9, Advance
<1>11. Read'
  <2>1. ~First(c, "update")'
    BY <1>1, <1>3, UpdateFollowsGet
  <2>2. Honest(rec'[c]) /\ \A d \in Clients \ {c} : rec'[d] = rec[d]
    BY <1>2 DEF IInv, Read
  <2> QED
    BY <1>3, <1>8, <2>1, <2>2, ReadKeeps
<1>12. Indexed'
  BY <1>1, <1>2, <1>3, <1>6, IndexedStays
<1>13. TrustFollowsProvenance' /\ Durable' /\ DeletedStaysDeleted'
  BY <1>1, <1>2, <1>6 DEF IInv, TrustFollowsProvenance, Trusted, Durable, DeletedStaysDeleted, TypeOK
<1> QED
  BY <1>7, <1>10, <1>11, <1>12, <1>13 DEF IInv

LEMMA RestartKeeps ==
    ASSUME IInv, Restart
    PROVE  IInv'
<1>1. TypeOK'
  BY DEF IInv, TypeOK, Restart
<1>2. \A c \in Clients : todo'[c] = <<>> /\ rec'[c] = None
  BY DEF Restart
<1>3. Shapes' /\ Inserts' /\ Targets' /\ Reviewed' /\ Reindexes' /\ Read'
  BY <1>2 DEF Shapes, Shaped, Inserts, Targets, Reviewed, Reindexes, Read, Honest, First
<1>4. TrustFollowsProvenance' /\ Durable' /\ DeletedStaysDeleted'
  BY DEF Restart, IInv, TrustFollowsProvenance, Trusted, Durable, DeletedStaysDeleted
<1>5. Indexed'
  BY DEF Restart, IInv, Indexed, Covered
<1> QED
  BY <1>1, <1>3, <1>4, <1>5 DEF IInv

(* A coroutine that is cut off leaves nothing to do, and the entry it owed   *)
(* to the history.                                                           *)
LEMMA CancelKeeps ==
    ASSUME IInv, NEW c \in Clients, Cancel(c)
    PROVE  IInv'
<1>1. /\ UNCHANGED <<rows, index, disk, kept, removed, crashes>> /\ TypeOK
      /\ rec' = [rec EXCEPT ![c] = None] /\ todo' = [todo EXCEPT ![c] = <<>>]
      /\ cut' = IF Doing(c, "index") THEN cut \cup {Id(c)} ELSE cut
  BY DEF Cancel, Abandon, tables, IInv
<1>2. /\ todo' \in [Clients -> Seq(Statement)] /\ Len(todo'[c]) = 0
      /\ \A d \in Clients \ {c} : todo'[d] = todo[d]
  BY <1>1 DEF TypeOK
<1>3. /\ rec' \in [Clients -> Record \cup {None}] /\ rec'[c] = None
      /\ \A d \in Clients \ {c} : rec'[d] = rec[d]
  BY <1>1 DEF TypeOK
<1>4. TypeOK'
  <2>1. Doing(c, "index") => Id(c) \in Ids
    BY <1>1, Heads
  <2> QED
    BY <1>1, <1>2, <1>3, <2>1 DEF TypeOK
<1>5. ASSUME NEW d \in Clients, NEW k \in 1..Len(todo'[d])
      PROVE  d # c /\ todo'[d] = todo[d]
  BY <1>2
<1>6. \A i : Known(i)' <=> Known(i)
  BY <1>1 DEF Known
<1>7. Shapes'
  <2>1. ASSUME NEW d \in Clients PROVE Shaped(todo'[d])
    <3>1. CASE d = c
      <4>1. todo'[d] = <<>>
        BY <1>1, <3>1 DEF TypeOK
      <4> QED
        BY <4>1 DEF Shaped
    <3>2. CASE d # c
      BY <1>2, <3>2, Zenon DEF IInv, Shapes
    <3> QED
      BY <3>1, <3>2
  <2> QED
    BY <2>1 DEF Shapes, Shaped
<1>8. Inserts'
  BY <1>5, <1>6 DEF IInv, Inserts, Honest, Trusted
<1>9. Targets'
  BY <1>5, <1>6 DEF IInv, Targets
<1>10. Reviewed' /\ Reindexes'
  BY <1>1, <1>5 DEF IInv, Reviewed, Reindexes
<1>11. Read'
  <2>1. ASSUME NEW d \in Clients \ {c} PROVE rec'[d] = rec[d] /\ todo'[d] = todo[d]
    BY <1>2, <1>3
  <2>2. Honest(rec'[c]) /\ ~First(c, "update")'
    BY <1>2, <1>3 DEF Honest, First
  <2> QED
    BY <1>1, <2>1, <2>2 DEF IInv, Read, First, Honest, Trusted
<1>12. Indexed'
  <2>1. ASSUME NEW i \in Ids, Covered(i) \/ i \in cut PROVE Covered(i)' \/ i \in cut'
    <3>1. CASE i \in index \/ i \in cut
      BY <1>1, <3>1 DEF Covered
    <3>2. CASE \E d \in Clients : First(d, "index") /\ todo[d][1].id = i
      <4>1. PICK d \in Clients : First(d, "index") /\ todo[d][1].id = i
        BY <3>2
      <4>2. CASE d = c
        <5>1. Doing(c, "index") /\ Id(c) = i
          BY <1>1, <4>1, <4>2 DEF First, Doing, Id, TypeOK
        <5> QED
          BY <1>1, <5>1
      <4>3. CASE d # c
        BY <1>2, <4>1, <4>3 DEF Covered, First
      <4> QED
        BY <4>2, <4>3
    <3> QED
      BY <2>1, <3>1, <3>2 DEF Covered
  <2> QED
    BY <1>1, <2>1 DEF IInv, Indexed
<1>13. TrustFollowsProvenance' /\ Durable' /\ DeletedStaysDeleted'
  BY <1>1 DEF IInv, TrustFollowsProvenance, Trusted, Durable, DeletedStaysDeleted
<1> QED
  BY <1>4, <1>7, <1>8, <1>9, <1>10, <1>11, <1>12, <1>13 DEF IInv

-----------------------------------------------------------------------------

LEMMA IInvInductive == IInv /\ [Next]_vars => IInv'
<1> SUFFICES ASSUME IInv, [Next]_vars PROVE IInv'
  OBVIOUS
<1>1. ASSUME NEW c \in Clients, Begin(c) PROVE IInv'
  BY <1>1, BeginKeeps
<1>2. ASSUME NEW c \in Clients, Step(c) PROVE IInv'
  BY <1>2, GetKeeps, ReviewKeeps, InsertKeeps, UpdateKeeps, RemoveKeeps, FindKeeps,
     UnindexKeeps, IndexKeeps, CommitKeeps DEF Step
<1>3. CASE Restart
  BY <1>3, RestartKeeps
<1>4. ASSUME NEW c \in Clients, Cancel(c) PROVE IInv'
  BY <1>4, CancelKeeps
<1>5. CASE UNCHANGED vars
  <2>1. UNCHANGED <<rows, index, disk, todo, rec, kept, removed, cut, crashes>>
    BY <1>5 DEF vars, tables, history
  <2> QED
    <3>1. TypeOK' /\ Shapes'
      BY <2>1 DEF IInv, TypeOK, Shapes
    <3>2. Inserts' /\ Targets'
      BY <2>1 DEF IInv, Inserts, Targets, Known, Honest, Trusted
    <3>3. Reviewed' /\ Reindexes'
      BY <2>1 DEF IInv, Reviewed, Reindexes
    <3>4. Read'
      BY <2>1 DEF IInv, Read, First, Honest, Trusted
    <3>5. TrustFollowsProvenance' /\ Durable' /\ DeletedStaysDeleted'
      BY <2>1 DEF IInv, TrustFollowsProvenance, Trusted, Durable, DeletedStaysDeleted
    <3>6. Indexed'
      BY <2>1 DEF IInv, Indexed, Covered, First
    <3> QED
      BY <3>1, <3>2, <3>3, <3>4, <3>5, <3>6 DEF IInv
<1> QED
  BY <1>1, <1>2, <1>3, <1>4, <1>5 DEF Next

LEMMA IInvHolds == Spec => []IInv
<1>1. Init => IInv
  BY IInvInit
<1>2. IInv /\ [Next]_vars => IInv'
  BY IInvInductive
<1> QED
  BY <1>1, <1>2, PTL DEF Spec

(* A record that create() inserted is accepted only when its provenance      *)
(* allows it (ProvenancePolicy), in the tables and on disk: a review, a      *)
(* stale write of another coroutine and a crash never make it trusted.       *)
THEOREM TrustIsNeverTaken == Spec => []TrustFollowsProvenance
<1>1. IInv => TrustFollowsProvenance
  BY DEF IInv
<1> QED
  BY <1>1, IInvHolds, PTL

(* A record that an operation of MemoryStore reported done is on disk until  *)
(* it is deleted, whoever shares the connection.                             *)
THEOREM DoneIsDurable == Spec => []ReportedIsDurable
<1>1. IInv => ReportedIsDurable
  BY DEF IInv, Durable, ReportedIsDurable
<1> QED
  BY <1>1, IInvHolds, PTL

(* MemoryStore.delete() is for good: no operation that read the record       *)
(* before, and no crash, puts it back into the table.                        *)
THEOREM DeletionIsFinal == Spec => []DeletedStaysDeleted
<1>1. IInv => DeletedStaysDeleted
  BY DEF IInv
<1> QED
  BY <1>1, IInvHolds, PTL

(* MemoryStore.search() finds every record whose index entry nobody still    *)
(* has to write, but for one whose last writer was cut off, by a timeout of  *)
(* its tool or by the end of the process, between the row and the entry.     *)
THEOREM QuietRecordsAreFound == Spec => []QuietRecordsAreIndexed
<1>1. IInv => QuietRecordsAreIndexed
  <2> SUFFICES ASSUME IInv, NEW i \in Ids, rows[i] # None,
                      \A c \in Clients : ~Indexing(c, i), i \notin cut
               PROVE  i \in index
    BY DEF QuietRecordsAreIndexed
  <2>1. ASSUME NEW c \in Clients, First(c, "index"), todo[c][1].id = i PROVE FALSE
    <3>1. 1 \in DOMAIN todo[c]
      BY <2>1 DEF First, IInv, TypeOK
    <3> QED
      BY <2>1, <3>1 DEF First, Indexing
  <2> QED
    BY <2>1 DEF IInv, Indexed, Covered
<1> QED
  BY <1>1, IInvHolds, PTL
=============================================================================
