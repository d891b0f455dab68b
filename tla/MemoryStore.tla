------------------------------ MODULE MemoryStore ------------------------------
(***************************************************************************)
(* The durable memory of lucy_edge/memory: MemoryStore (store.py), the     *)
(* admission service (admission.py) and the provenance policy              *)
(* (provenance.py).                                                        *)
(*                                                                         *)
(* All coroutines of the process share one SQLite connection.  An          *)
(* operation is a sequence of statements with an await before each: those  *)
(* of different coroutines interleave, in one and the same transaction,    *)
(* and a commit by any of them commits what all of them wrote.  What was   *)
(* not committed is gone when the process stops.  A record lives in two    *)
(* tables, memories and its full-text index memories_fts, which search()   *)
(* goes through.  An operation can be cut off between two statements: by   *)
(* the end of the process, or by asyncio alone, when the time limit of the *)
(* tool that called it is over.                                            *)
(*                                                                         *)
(*   rows, index   the tables as the connection sees them                  *)
(*   disk          what is committed of both, with `cut` as it stood       *)
(*   todo          the statements a coroutine has still to carry out       *)
(*   rec           the record a coroutine read and will write back         *)
(*   kept, removed history: the records an operation has reported done,    *)
(*                 and those that were deleted (by a deletion not lost)    *)
(*   cut           history: the records whose index entry an operation     *)
(*                 that was cut off still owed                             *)
(*   crashes       how often the process stopped                           *)
(***************************************************************************)
EXTENDS Naturals, Sequences

CONSTANTS
    Ids,            \* memory ids (uuid4: an id is used once)
    Clients,        \* coroutines that use the store
    Provenances, AutoAcceptable,
    None,           \* no row
    MaxCrashes      \* bound on crashes, for model checking

ASSUME MemoryAssumption ==
    /\ AutoAcceptable \subseteq Provenances
    /\ MaxCrashes \in Nat

Statuses == {"PROPOSED", "ACCEPTED", "REJECTED", "SUPERSEDED"}

(* What a record is to the policy; its text is left out.  `origin` is a     *)
(* history field: the operation that inserted it.                           *)
Record == [provenance : Provenances, status : Statuses,
           origin : {"create", "supersede"}]

ASSUME NoneAssumption == None \notin Record

VARIABLES rows, index, disk, todo, rec, kept, removed, cut, crashes

tables == <<rows, index>>
history == <<kept, removed, cut>>
vars == <<tables, disk, todo, rec, history, crashes>>

Init ==
    /\ rows = [i \in Ids |-> None] /\ index = {}
    /\ disk = [rows |-> rows, index |-> index, cut |-> {}]
    /\ todo = [c \in Clients |-> <<>>]
    /\ rec = [c \in Clients |-> None]
    /\ kept = {} /\ removed = {} /\ cut = {}
    /\ crashes = 0

-----------------------------------------------------------------------------
(* The policy.                                                               *)

InitialStatus(p) == IF p \in AutoAcceptable THEN "ACCEPTED" ELSE "PROPOSED"

(* Faulty variant of CanAccept: the status is looked at, not the source. *)
CanAcceptProposed(r) == r.status = "PROPOSED"

(* can_promote() to ACCEPTED, with the provenance unchanged; the status the  *)
(* record has now is a parameter it never reads.                             *)
CanAccept(r) == r.provenance \in AutoAcceptable

-----------------------------------------------------------------------------
(* The operations, as the statements they carry out: what a statement does,  *)
(* on which id, the record an insertion is about (`new`) and the status an    *)
(* "update" writes with the rest of the record that was read ("same": the     *)
(* one that was read).                                                        *)

S(do, i) == [do |-> do, id |-> i, new |-> None, status |-> "same"]

Of(do, i, r) == [S(do, i) EXCEPT !.new = r]

Insert(i, r) == <<Of("insert", i, r), Of("index", i, r), Of("commit", i, r)>>

(* Faulty variant of Update: the entry is taken out of the index and not put *)
(* back.                                                                     *)
UpdateUnindexing(i, status) ==
    <<[S("update", i) EXCEPT !.status = status], S("find", i), S("unindex", i),
      S("commit", i)>>

Update(i, status) ==
    <<[S("update", i) EXCEPT !.status = status], S("find", i), S("unindex", i),
      S("index", i), S("commit", i)>>

SetStatus(i, status) == <<S("get", i)>> \o Update(i, status)

Create(i, p) ==
    Insert(i, [provenance |-> p, status |-> InitialStatus(p), origin |-> "create"])

(* The record is reviewed as it was read, then set_status() reads it again.  *)
Accept(i) == <<S("review", i)>> \o SetStatus(i, "ACCEPTED")

Reject(i) == <<S("get", i)>> \o Update(i, "same") \o SetStatus(i, "REJECTED")

(* The replacement goes in as the caller made it; a MemoryRecord is ACCEPTED *)
(* unless its maker says otherwise.                                          *)
Supersede(i, j, p) ==
    <<S("get", i)>> \o Update(i, "SUPERSEDED")
    \o Insert(j, [provenance |-> p, status |-> "ACCEPTED", origin |-> "supersede"])

(* The row is looked up for its index entry after it was deleted. *)
Delete(i) == <<S("remove", i), S("find", i), S("unindex", i), S("commit", i)>>

-----------------------------------------------------------------------------
Used(i) ==
    \/ rows[i] # None \/ i \in removed
    \/ \E c \in Clients : \E k \in DOMAIN todo[c] :
           todo[c][k].do = "insert" /\ todo[c][k].id = i

(* A coroutine calls an operation: new ids are fresh, others any that have   *)
(* been handed out.                                                          *)
Begin(c) ==
    /\ todo[c] = <<>>
    /\ \/ \E i \in Ids, p \in Provenances :
              ~Used(i) /\ todo' = [todo EXCEPT ![c] = Create(i, p)]
       \/ \E i \in Ids :
              /\ rows[i] # None \/ i \in removed
              /\ \/ \E program \in {Accept(i), Reject(i), Delete(i)} :
                        todo' = [todo EXCEPT ![c] = program]
                 \/ \E j \in Ids, p \in Provenances :
                        ~Used(j) /\ todo' = [todo EXCEPT ![c] = Supersede(i, j, p)]
    /\ UNCHANGED <<tables, disk, rec, history, crashes>>

Doing(c, what) == todo[c] # <<>> /\ Head(todo[c]).do = what

Id(c) == Head(todo[c]).id

Done(c) == todo' = [todo EXCEPT ![c] = Tail(@)]

Abandon(c) == todo' = [todo EXCEPT ![c] = <<>>]

(* SELECT the record; an operation on none gives up. *)
Get(c) ==
    /\ Doing(c, "get")
    /\ IF rows[Id(c)] = None
       THEN Abandon(c) /\ UNCHANGED rec
       ELSE Done(c) /\ rec' = [rec EXCEPT ![c] = rows[Id(c)]]
    /\ UNCHANGED <<tables, disk, history, crashes>>

(* The read of accept(), of which only the verdict is used. *)
Review(c) ==
    /\ Doing(c, "review")
    /\ IF rows[Id(c)] # None /\ CanAccept(rows[Id(c)]) THEN Done(c) ELSE Abandon(c)
    /\ UNCHANGED <<tables, disk, rec, history, crashes>>

InsertRow(c) ==
    /\ Doing(c, "insert")
    /\ rows' = [rows EXCEPT ![Id(c)] = Head(todo[c]).new]
    /\ Done(c)
    /\ UNCHANGED <<index, disk, rec, history, crashes>>

(* The record a coroutine holds, with the status it has come to write. *)
Changed(c) ==
    [rec[c] EXCEPT !.status = IF Head(todo[c]).status = "same" THEN @ ELSE Head(todo[c]).status]

(* Faulty variant of UpdateRow: the row is put back if it is not there. *)
UpsertRow(c) ==
    /\ Doing(c, "update")
    /\ rows' = [rows EXCEPT ![Id(c)] = Changed(c)]
    /\ rec' = [rec EXCEPT ![c] = None]
    /\ Done(c)
    /\ UNCHANGED <<index, disk, history, crashes>>

(* UPDATE ... WHERE memory_id: the whole record as it was read, over         *)
(* whatever was written meanwhile; nothing if the row is gone.               *)
UpdateRow(c) ==
    /\ Doing(c, "update")
    /\ rows' = [rows EXCEPT ![Id(c)] = IF @ = None THEN None ELSE Changed(c)]
    /\ rec' = [rec EXCEPT ![c] = None]
    /\ Done(c)
    /\ UNCHANGED <<index, disk, history, crashes>>

RemoveRow(c) ==
    /\ Doing(c, "remove")
    /\ rows' = [rows EXCEPT ![Id(c)] = None]
    /\ removed' = removed \cup {Id(c)}
    /\ Done(c)
    /\ UNCHANGED <<index, disk, rec, kept, cut, crashes>>

FromCommit(s) ==
    LET first == CHOOSE k \in DOMAIN s :
                     s[k].do = "commit" /\ \A j \in 1..(k - 1) : s[j].do # "commit"
    IN  SubSeq(s, first, Len(s))

(* _fts_rowid(): without a row the index is left as it is. *)
Find(c) ==
    /\ Doing(c, "find")
    /\ IF rows[Id(c)] = None
       THEN todo' = [todo EXCEPT ![c] = FromCommit(@)]
       ELSE Done(c)
    /\ UNCHANGED <<tables, disk, rec, history, crashes>>

Unindex(c) ==
    /\ Doing(c, "unindex")
    /\ index' = index \ {Id(c)}
    /\ Done(c)
    /\ UNCHANGED <<rows, disk, rec, history, crashes>>

(* The index takes one entry per row: a second one raises, and the operation *)
(* ends without a commit or a rollback.                                      *)
Index(c) ==
    /\ Doing(c, "index")
    /\ IF Id(c) \in index
       THEN Abandon(c) /\ UNCHANGED index
       ELSE Done(c) /\ index' = index \cup {Id(c)}
    /\ cut' = cut \ {Id(c)}
    /\ UNCHANGED <<rows, disk, rec, kept, removed, crashes>>

(* The records whose row is written and whose entry is the next statement.   *)
Owed == {Id(c) : c \in {d \in Clients : Doing(d, "index")}}

(* Faulty variant of Commit: the operation ends with the transaction open. *)
CommitNothing(c) ==
    /\ Doing(c, "commit")
    /\ kept' = IF rows[Id(c)] # None THEN kept \cup {Id(c)} ELSE kept
    /\ Done(c)
    /\ UNCHANGED <<tables, disk, rec, removed, cut, crashes>>

Commit(c) ==
    /\ Doing(c, "commit")
    /\ disk' = [rows |-> rows, index |-> index, cut |-> cut \cup Owed]
    /\ kept' = IF rows[Id(c)] # None THEN kept \cup {Id(c)} ELSE kept
    /\ Done(c)
    /\ UNCHANGED <<tables, rec, removed, cut, crashes>>

(* The tool memory.write_proposal, the one that writes, is out of time       *)
(* (wait_for in Executor.run_step): create() is cancelled before one of its  *)
(* statements, and what it wrote stays in the transaction the others commit. *)
Cancel(c) ==
    /\ todo[c] # <<>>
    /\ Head(todo[c]).new # None
    /\ Head(todo[c]).new.origin = "create"
    /\ cut' = IF Doing(c, "index") THEN cut \cup {Id(c)} ELSE cut
    /\ Abandon(c)
    /\ rec' = [rec EXCEPT ![c] = None]
    /\ UNCHANGED <<tables, disk, kept, removed, crashes>>

(* The process stops and is started again: close(), open(). *)
Restart ==
    /\ crashes < MaxCrashes
    /\ crashes' = crashes + 1
    /\ rows' = disk.rows /\ index' = disk.index
    /\ todo' = [c \in Clients |-> <<>>]
    /\ rec' = [c \in Clients |-> None]
    /\ removed' = {i \in removed : disk.rows[i] = None}
    /\ cut' = disk.cut
    /\ UNCHANGED <<disk, kept>>

Step(c) ==
    \/ Get(c) \/ Review(c) \/ InsertRow(c) \/ UpdateRow(c) \/ RemoveRow(c)
    \/ Find(c) \/ Unindex(c) \/ Index(c) \/ Commit(c)

Next == (\E c \in Clients : Begin(c) \/ Step(c) \/ Cancel(c)) \/ Restart

Spec == Init /\ [][Next]_vars

-----------------------------------------------------------------------------
(* Properties.                                                               *)

Trusted(r) == r # None /\ r.status = "ACCEPTED" => r.provenance \in AutoAcceptable

(* "Raw model output must not automatically become trusted memory": no       *)
(* record that create() inserted is ACCEPTED with a provenance that is not   *)
(* acceptable by itself, in the tables or on disk, whatever reviews, stale   *)
(* writes and crashes come after it.                                         *)
TrustFollowsProvenance ==
    \A i \in Ids : \A r \in {rows[i], disk.rows[i]} :
        r # None => (r.origin = "create" => Trusted(r))

(* The "store-level invariant" of create(), for every record of the store:  *)
(* "UNVERIFIED/INFERRED is never persisted as ACCEPTED".                     *)
NeverPersistedAsAccepted == \A i \in Ids : Trusted(disk.rows[i])

(* "Persistent across process restarts by design": a record that was there   *)
(* when an operation on it was reported done is on disk until it is deleted, *)
(* whoever else commits, fails or is cut off by a crash.                     *)
ReportedIsDurable == \A i \in kept \ removed : disk.rows[i] # None

(* A deleted record does not come back, not even through an update, a review *)
(* or a supersession that read it before the deletion.                       *)
DeletedStaysDeleted == \A i \in removed : rows[i] = None

(* Who still has to write the index entry of i. *)
Indexing(c, i) ==
    \E k \in DOMAIN todo[c] : todo[c][k].do = "index" /\ todo[c][k].id = i

(* search() finds every record that nobody is writing, but for those whose   *)
(* last writer was cut off right after the row and before its index entry:   *)
(* however two writers of one record interleave, although the second one may *)
(* fail, whichever of the others' statements are lost, and wherever the      *)
(* process stops, its entry is there in the end.                             *)
QuietRecordsAreIndexed ==
    \A i \in Ids :
        rows[i] # None /\ (\A c \in Clients : ~Indexing(c, i)) /\ i \notin cut => i \in index
=============================================================================
