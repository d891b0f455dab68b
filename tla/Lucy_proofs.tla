---------------------------- MODULE Lucy_proofs -----------------------------
(***************************************************************************)
(* A session at the terminal, for every number of runs, nights, reviews,   *)
(* pieces of guidance and processes; and what a verdict of the foundation  *)
(* audit can be relied on for, and what not, for every system.             *)
(***************************************************************************)
EXTENDS Lucy, Foundation, Selection_proofs, FiniteSetTheorems

Rec == [key : Keys, n : 1..MaxTold]

(* Records get their numbers as guidance is given: what is asked for is      *)
(* newer than anything that has a file.                                      *)
Asked ==
    /\ asked \in Seq(Rec)
    /\ \A i \in 1..Len(asked) : asked[i].n <= written
    /\ \A i \in 1..Len(asked) : \A k \in Keys : files[k] < asked[i].n
    /\ \A i, j \in 1..Len(asked) : i < j => asked[i].n < asked[j].n

(* What is filed is newer than the row of its key, and as old as its file or *)
(* older.                                                                    *)
Filed ==
    /\ filed \in Seq(Rec)
    /\ \A i \in 1..Len(filed) :
          rows[filed[i].key] < filed[i].n /\ filed[i].n <= files[filed[i].key]
    /\ \A i, j \in 1..Len(filed) : i < j => filed[i].n < filed[j].n

UnderWay(k) == \E i \in 1..Len(filed) : filed[i].key = k /\ filed[i].n = files[k]

Agreeing ==
    \A k \in Keys :
        /\ rows[k] <= files[k] /\ files[k] <= written
        /\ files[k] = rows[k] \/ files[k] \in cut \/ UnderWay(k)

LedgerTypes ==
    /\ files \in [Keys -> 0..MaxTold] /\ rows \in [Keys -> 0..MaxTold]
    /\ cut \subseteq 0..MaxTold /\ written \in 0..MaxTold

LedgerInv == LedgerTypes /\ Asked /\ Filed /\ Agreeing

BondInv ==
    /\ mood \in Moods /\ trust \in 0..100 /\ told \in Nat /\ told <= written
    /\ turns \in 0..told /\ approved \in 0..MaxApproved /\ sessions \in 1..MaxSessions
    /\ ConfidenceIsEarned

Rising(s) == \A i, j \in 1..Len(s) : i < j => s[i] < s[j]

NightTypes ==
    /\ doing \in Doings /\ runs \in 0..MaxRuns /\ lived \subseteq 1..runs
    /\ buffer \in Seq(Experiences) /\ Len(buffer) <= Capacity
    /\ hand \in Seq(Experiences) /\ Len(hand) <= Capacity
    /\ adapters \subseteq lived /\ slept \subseteq lived /\ lost \subseteq lived
    /\ ToSet(buffer) \subseteq lived /\ ToSet(hand) \subseteq lived

(* An experience comes after all earlier ones; a night that has begun has    *)
(* emptied the buffer, and past its training what is in hand is what the     *)
(* adapters have.                                                            *)
Nights ==
    /\ doing = "run" => runs >= 1 /\ runs \notin lived
    /\ Rising(buffer)
    /\ IF doing \in {"nrem", "rem"} THEN buffer = <<>> ELSE hand = <<>>
    /\ doing = "rem" => ToSet(hand) \subseteq slept /\ adapters = ToSet(hand)

NightInv == NightTypes /\ Nights /\ LivedOnce

(* The insights are of the night on disk, except between a training and its  *)
(* dream; who has closed offers none.                                        *)
ReviewInv ==
    /\ insights \in Seq(Experiences) /\ package \in Seq(Experiences)
    /\ awaiting \in BOOLEAN /\ overnight \in BOOLEAN
    /\ Len(insights) <= Simulations /\ ToSet(insights) \subseteq Aligned
    /\ doing \notin {"rem", "closing"} => ToSet(insights) \subseteq adapters \/ adapters = {}
    /\ doing = "gone" => insights = <<>>
    /\ ReviewShowsWhatItJudges

IInv == LedgerInv /\ BondInv /\ NightInv /\ ReviewInv

-----------------------------------------------------------------------------
(* The ledger.                                                               *)

(* What a new last element does to a sequence of records, and what the loss  *)
(* of the first does.                                                        *)
LEMMA Appending ==
    ASSUME NEW S, NEW s \in Seq(S), NEW x \in S
    PROVE  /\ Append(s, x) \in Seq(S) /\ Len(Append(s, x)) = Len(s) + 1 /\ Len(s) \in Nat
           /\ \A i \in 1..Len(s) : Append(s, x)[i] = s[i]
           /\ Append(s, x)[Len(s) + 1] = x
BY AppendProperties, LenProperties

LEMMA Dropping ==
    ASSUME NEW S, NEW s \in Seq(S), s # <<>>
    PROVE  /\ Tail(s) \in Seq(S) /\ Len(Tail(s)) = Len(s) - 1 /\ Len(s) \in Nat \ {0}
           /\ \A i \in 1..(Len(s) - 1) : Tail(s)[i] = s[i + 1]
           /\ Head(s) = s[1] /\ Head(s) \in S
BY HeadTailProperties, LenProperties, EmptySeq

LEMMA Records ==
    /\ MaxTold \in Nat /\ Keys \subseteq Nat
    /\ \A r \in Rec : r.key \in Keys /\ r.n \in Nat /\ r.n \in 1..MaxTold
BY LucyAssumption DEF Rec, Keys

LEMMA LedgerInit == Init => LedgerInv
<1> SUFFICES ASSUME Init PROVE LedgerInv
  OBVIOUS
<1>1. /\ asked = <<>> /\ filed = <<>> /\ cut = {} /\ written = 0
      /\ files = [k \in Keys |-> 0] /\ rows = [k \in Keys |-> 0]
  BY DEF Init, Fresh
<1>2. LedgerTypes
  BY <1>1, LucyAssumption DEF LedgerTypes
<1>3. Asked /\ Filed /\ Agreeing
  BY <1>1 DEF Asked, Filed, Agreeing
<1> QED
  BY <1>2, <1>3 DEF LedgerInv

(* New guidance is the newest record.                                        *)
LEMMA GuidedKeepsLedger ==
    ASSUME LedgerInv, NEW t, NEW m, NEW tone, NEW key \in Keys, Guided(t, m, tone, key),
           UNCHANGED ledger
    PROVE  LedgerInv'
<1> DEFINE r == [key |-> key, n |-> written + 1]
           longer == Append(asked, r)
<1>1. written \in Nat /\ written < MaxTold /\ written' = written + 1 /\ MaxTold \in Nat
  BY LucyAssumption DEF Guided, LedgerInv, LedgerTypes
<1>2. r \in Rec /\ asked \in Seq(Rec)
  BY <1>1 DEF Rec, LedgerInv, Asked
<1>3. asked' = longer
  BY DEF Guided
<1>4. /\ longer \in Seq(Rec) /\ Len(longer) = Len(asked) + 1 /\ Len(asked) \in Nat
      /\ \A i \in 1..Len(asked) : longer[i] = asked[i]
      /\ longer[Len(asked) + 1] = r
  <2> HIDE DEF r
  <2> QED
    BY <1>2, Appending
<1> HIDE DEF longer
<1>5. /\ files' = files /\ rows' = rows /\ cut' = cut /\ filed' = filed
  BY DEF ledger
<1>6. LedgerTypes'
  BY <1>1, <1>5 DEF LedgerInv, LedgerTypes
<1>7. \A k \in Keys : files[k] \in Nat /\ files[k] <= written
  BY DEF LedgerInv, LedgerTypes, Agreeing
<1>8. \A i \in 1..Len(asked) : asked[i] \in Rec /\ asked[i].n \in Nat /\ asked[i].n <= written
  BY <1>2, Records DEF LedgerInv, Asked
<1>9. Asked'
  <2>1. \A i \in 1..Len(longer) : longer[i].n <= written + 1 /\ (i <= Len(asked) => longer[i] = asked[i])
                                 /\ (i > Len(asked) => longer[i] = r)
    BY <1>1, <1>4, <1>8
  <2>2. \A i \in 1..Len(longer) : \A k \in Keys : files[k] < longer[i].n
    <3> SUFFICES ASSUME NEW i \in 1..Len(longer), NEW k \in Keys PROVE files[k] < longer[i].n
      OBVIOUS
    <3>1. CASE i <= Len(asked)
      BY <2>1, <3>1, <1>4 DEF LedgerInv, Asked
    <3>2. CASE i > Len(asked)
      BY <2>1, <3>2, <1>1, <1>4, <1>7
    <3> QED
      BY <3>1, <3>2, <1>4
  <2>3. \A i, j \in 1..Len(longer) : i < j => longer[i].n < longer[j].n
    <3> SUFFICES ASSUME NEW i \in 1..Len(longer), NEW j \in 1..Len(longer), i < j
                 PROVE  longer[i].n < longer[j].n
      OBVIOUS
    <3>1. i \in 1..Len(asked) /\ longer[i] = asked[i]
      BY <1>4
    <3>2. CASE j <= Len(asked)
      BY <2>1, <3>1, <3>2, <1>4 DEF LedgerInv, Asked
    <3>3. CASE j > Len(asked)
      BY <2>1, <3>1, <3>3, <1>1, <1>4, <1>8
    <3> QED
      BY <3>2, <3>3, <1>4
  <2> QED
    BY <1>1, <1>3, <1>4, <1>5, <2>1, <2>2, <2>3 DEF Asked
<1>10. Filed'
  BY <1>5 DEF LedgerInv, Filed
<1>11. Agreeing'
  <2> SUFFICES ASSUME NEW k \in Keys
               PROVE  /\ rows[k] <= files[k] /\ files[k] <= written + 1
                      /\ files[k] = rows[k] \/ files[k] \in cut \/ UnderWay(k)
    BY <1>1, <1>5 DEF Agreeing, UnderWay
  <2> QED
    BY <1>1, <1>7 DEF LedgerInv, Agreeing
<1> QED
  BY <1>6, <1>9, <1>10, <1>11 DEF LedgerInv

(* The oldest record that is asked for becomes the newest file.              *)
LEMMA WriteFileKeeps == LedgerInv /\ WriteFile => LedgerInv'
<1> SUFFICES ASSUME LedgerInv, WriteFile PROVE LedgerInv'
  OBVIOUS
<1> DEFINE r == asked[1]
           rest == Tail(asked)
           longer == Append(filed, r)
<1>1. /\ asked \in Seq(Rec) /\ asked # <<>> /\ filed \in Seq(Rec)
      /\ written \in Nat /\ written' = written /\ cut' = cut /\ rows' = rows
      /\ files \in [Keys -> 0..MaxTold] /\ rows \in [Keys -> 0..MaxTold]
  BY DEF LedgerInv, LedgerTypes, Asked, Filed, WriteFile
<1>2. /\ rest \in Seq(Rec) /\ Len(rest) = Len(asked) - 1 /\ Len(asked) \in Nat \ {0}
      /\ \A i \in 1..(Len(asked) - 1) : rest[i] = asked[i + 1]
      /\ Head(asked) = r /\ r \in Rec
  BY <1>1, Dropping
<1>3. /\ longer \in Seq(Rec) /\ Len(longer) = Len(filed) + 1 /\ Len(filed) \in Nat
      /\ \A i \in 1..Len(filed) : longer[i] = filed[i]
      /\ longer[Len(filed) + 1] = r
  <2> HIDE DEF r
  <2> QED
    BY <1>1, <1>2, Appending
<1>4. /\ asked' = rest
      /\ \/ files' = [files EXCEPT ![r.key] = r.n] /\ filed' = longer
         \/ files' = files /\ filed' = filed
  BY <1>2 DEF WriteFile
<1>5. /\ r.key \in Keys /\ r.n \in 1..MaxTold /\ r.n \in Nat /\ r.n <= written
      /\ \A k \in Keys : files[k] < r.n /\ files[k] \in Nat /\ rows[k] \in Nat
      /\ \A i \in 1..Len(rest) : r.n < rest[i].n
  <2>1. 1 \in 1..Len(asked)
    BY <1>2
  <2>2. \A i \in 1..Len(rest) : i + 1 \in 1..Len(asked) /\ 1 < i + 1 /\ rest[i] = asked[i + 1]
    BY <1>2
  <2> QED
    BY <1>1, <1>2, <2>1, <2>2, Records DEF LedgerInv, Asked
<1> HIDE DEF rest, longer, r
<1>6. /\ \A i \in 1..Len(rest) : rest[i].n <= written /\ rest[i].n \in Nat
      /\ \A i \in 1..Len(rest) : \A k \in Keys : files[k] < rest[i].n
      /\ \A i, j \in 1..Len(rest) : i < j => rest[i].n < rest[j].n
  <2>1. \A i \in 1..Len(rest) : i + 1 \in 1..Len(asked) /\ rest[i] = asked[i + 1]
    BY <1>2
  <2>2. \A i \in 1..Len(rest) : rest[i] \in Rec
    BY <1>2
  <2>3. \A i, j \in 1..Len(rest) : i < j => i + 1 < j + 1
    OBVIOUS
  <2> QED
    BY <1>1, <2>1, <2>2, <2>3, Records DEF LedgerInv, Asked
<1>7. CASE files' = files /\ filed' = filed
  <2>1. LedgerTypes' /\ Filed' /\ Agreeing'
    BY <1>1, <1>7 DEF LedgerInv, LedgerTypes, Filed, Agreeing, UnderWay
  <2>2. Asked'
    BY <1>1, <1>2, <1>4, <1>6, <1>7 DEF Asked
  <2> QED
    BY <2>1, <2>2 DEF LedgerInv
<1>8. CASE files' = [files EXCEPT ![r.key] = r.n] /\ filed' = longer
  <2>1. /\ files' \in [Keys -> 0..MaxTold] /\ files'[r.key] = r.n
        /\ \A k \in Keys \ {r.key} : files'[k] = files[k]
        /\ \A k \in Keys : files[k] <= files'[k] /\ files'[k] \in Nat /\ files'[k] <= r.n
    BY <1>1, <1>5, <1>8, Records
  <2>2. LedgerTypes'
    BY <1>1, <2>1 DEF LedgerInv, LedgerTypes
  <2>3. Asked'
    <3>1. ASSUME NEW i \in 1..Len(rest), NEW k \in Keys PROVE files'[k] < rest[i].n
      BY <1>5, <1>6, <2>1
    <3> QED
      BY <1>1, <1>2, <1>4, <1>6, <3>1 DEF Asked
  <2>4. \A i \in 1..Len(filed) :
           /\ filed[i] \in Rec /\ longer[i] = filed[i]
           /\ rows[filed[i].key] < filed[i].n /\ filed[i].n <= files[filed[i].key]
    BY <1>1, <1>3 DEF LedgerInv, Filed
  <2>5. \A i \in 1..Len(filed) : filed[i].n \in Nat /\ filed[i].key \in Keys /\ filed[i].n < r.n
                                /\ filed[i].n <= files'[filed[i].key]
    <3> SUFFICES ASSUME NEW i \in 1..Len(filed)
                 PROVE  /\ filed[i].n \in Nat /\ filed[i].key \in Keys /\ filed[i].n < r.n
                        /\ filed[i].n <= files'[filed[i].key]
      OBVIOUS
    <3>1. filed[i].key \in Keys /\ filed[i].n \in Nat
      BY <2>4, Records
    <3>2. /\ filed[i].n <= files[filed[i].key] /\ files[filed[i].key] < r.n
          /\ files[filed[i].key] <= files'[filed[i].key]
          /\ files[filed[i].key] \in Nat /\ files'[filed[i].key] \in Nat
      BY <1>5, <2>1, <2>4, <3>1
    <3> QED
      BY <3>1, <3>2, <1>5
  <2>6. Filed'
    <3>1. \A i \in 1..Len(longer) : rows[longer[i].key] < longer[i].n
                                   /\ longer[i].n <= files'[longer[i].key]
      <4> SUFFICES ASSUME NEW i \in 1..Len(longer)
                   PROVE  rows[longer[i].key] < longer[i].n /\ longer[i].n <= files'[longer[i].key]
        OBVIOUS
      <4>1. CASE i <= Len(filed)
        BY <1>3, <2>4, <2>5, <4>1
      <4>2. CASE i > Len(filed)
        <5>1. longer[i] = r
          BY <1>3, <4>2
        <5>2. rows[r.key] <= files[r.key] /\ files[r.key] < r.n
          BY <1>5 DEF LedgerInv, Agreeing
        <5> QED
          BY <5>1, <5>2, <1>5, <2>1
      <4> QED
        BY <1>3, <4>1, <4>2
    <3>2. ASSUME NEW i \in 1..Len(longer), NEW j \in 1..Len(longer), i < j
          PROVE  longer[i].n < longer[j].n
      <4>1. i \in 1..Len(filed) /\ longer[i] = filed[i]
        BY <1>3, <3>2
      <4>2. CASE j <= Len(filed)
        BY <1>3, <3>2, <4>1, <4>2 DEF LedgerInv, Filed
      <4>3. CASE j > Len(filed)
        BY <1>3, <2>5, <4>1, <4>3
      <4> QED
        BY <1>3, <4>2, <4>3
    <3> QED
      BY <1>1, <1>3, <1>8, <3>1, <3>2 DEF Filed
  <2>7. Agreeing'
    <3> SUFFICES ASSUME NEW k \in Keys
                 PROVE  /\ rows[k] <= files'[k] /\ files'[k] <= written
                        /\ \/ files'[k] = rows[k] \/ files'[k] \in cut
                           \/ \E i \in 1..Len(longer) : longer[i].key = k /\ longer[i].n = files'[k]
      BY <1>1, <1>8, Zenon DEF Agreeing, UnderWay
    <3>1. rows[k] <= files[k] /\ (files[k] = rows[k] \/ files[k] \in cut \/ UnderWay(k))
      BY DEF LedgerInv, Agreeing
    <3>2. rows[k] <= files'[k] /\ files'[k] <= written
      BY <1>1, <1>5, <2>1, <3>1
    <3>3. CASE k = r.key
      <4>1. Len(filed) + 1 \in 1..Len(longer)
        BY <1>3
      <4> QED
        BY <1>3, <2>1, <3>2, <3>3, <4>1
    <3>4. CASE k # r.key
      <4>1. \A i \in 1..Len(filed) : i \in 1..Len(longer)
        BY <1>3
      <4> QED
        BY <1>3, <2>1, <3>1, <3>2, <3>4, <4>1 DEF UnderWay
    <3> QED
      BY <3>3, <3>4
  <2> QED
    BY <2>2, <2>3, <2>6, <2>7 DEF LedgerInv
<1> QED
  BY <1>4, <1>7, <1>8

(* The oldest file's row follows.                                            *)
LEMMA CommitRowKeeps == LedgerInv /\ CommitRow => LedgerInv'
<1> SUFFICES ASSUME LedgerInv, CommitRow PROVE LedgerInv'
  OBVIOUS
<1> DEFINE r == filed[1]
           rest == Tail(filed)
<1>1. /\ filed \in Seq(Rec) /\ filed # <<>>
      /\ written' = written /\ cut' = cut /\ files' = files /\ asked' = asked
      /\ files \in [Keys -> 0..MaxTold] /\ rows \in [Keys -> 0..MaxTold]
  BY DEF LedgerInv, LedgerTypes, Filed, CommitRow
<1>2. /\ rest \in Seq(Rec) /\ Len(rest) = Len(filed) - 1 /\ Len(filed) \in Nat \ {0}
      /\ \A i \in 1..(Len(filed) - 1) : rest[i] = filed[i + 1]
      /\ Head(filed) = r /\ r \in Rec
  BY <1>1, Dropping
<1>3. filed' = rest /\ rows' = [rows EXCEPT ![r.key] = r.n]
  BY <1>2 DEF CommitRow
<1>4. /\ r.key \in Keys /\ r.n \in 1..MaxTold /\ r.n \in Nat
      /\ rows[r.key] < r.n /\ r.n <= files[r.key]
      /\ \A i \in 1..Len(rest) : rest[i] \in Rec /\ r.n < rest[i].n
      /\ \A k \in Keys : files[k] \in Nat /\ rows[k] \in Nat
  <2>1. 1 \in 1..Len(filed)
    BY <1>2
  <2>2. \A i \in 1..Len(rest) : i + 1 \in 1..Len(filed) /\ 1 < i + 1 /\ rest[i] = filed[i + 1]
    BY <1>2
  <2>3. \A i \in 1..Len(rest) : rest[i] \in Rec
    BY <1>2
  <2> QED
    BY <1>1, <1>2, <2>1, <2>2, <2>3, Records DEF LedgerInv, Filed
<1>5. /\ \A i \in 1..Len(rest) : rows[rest[i].key] < rest[i].n /\ rest[i].n <= files[rest[i].key]
      /\ \A i, j \in 1..Len(rest) : i < j => rest[i].n < rest[j].n
  <2>1. \A i \in 1..Len(rest) : i + 1 \in 1..Len(filed) /\ rest[i] = filed[i + 1]
    BY <1>2
  <2>2. \A i, j \in 1..Len(rest) : i < j => i + 1 < j + 1
    OBVIOUS
  <2> QED
    BY <2>1, <2>2 DEF LedgerInv, Filed
<1>6. \A k \in Keys :
         /\ files[k] = rows[k] \/ files[k] \in cut
            \/ \E i \in 1..Len(filed) : filed[i].key = k /\ filed[i].n = files[k]
         /\ rows[k] <= files[k] /\ files[k] <= written
  BY DEF LedgerInv, Agreeing, UnderWay
<1>7. \A i \in 1..Len(filed) : i = 1 \/ (i - 1 \in 1..Len(rest) /\ rest[i - 1] = filed[i])
  BY <1>2
<1>8. filed[1] = r
  OBVIOUS
<1> HIDE DEF r, rest
<1>9. /\ rows' \in [Keys -> 0..MaxTold] /\ rows'[r.key] = r.n
      /\ \A k \in Keys \ {r.key} : rows'[k] = rows[k]
  BY <1>1, <1>3, <1>4, Records
<1>10. LedgerTypes'
  BY <1>1, <1>9 DEF LedgerInv, LedgerTypes
<1>11. Asked'
  BY <1>1 DEF LedgerInv, Asked
<1>12. Filed'
  <2>1. ASSUME NEW i \in 1..Len(rest) PROVE rows'[rest[i].key] < rest[i].n
    <3>1. rest[i].key \in Keys
      BY <1>4, Records
    <3> QED
      BY <1>4, <1>5, <1>9, <3>1
  <2> QED
    BY <1>1, <1>2, <1>3, <1>5, <2>1 DEF Filed
<1>13. Agreeing'
  <2> SUFFICES ASSUME NEW k \in Keys
               PROVE  /\ rows'[k] <= files[k] /\ files[k] <= written
                      /\ \/ files[k] = rows'[k] \/ files[k] \in cut
                         \/ \E i \in 1..Len(rest) : rest[i].key = k /\ rest[i].n = files[k]
    BY <1>1, <1>3, Zenon DEF Agreeing, UnderWay
  <2>1. CASE k # r.key
    <3>1. rows'[k] = rows[k]
      BY <1>9, <2>1
    <3>2. ASSUME NEW i \in 1..Len(filed), filed[i].key = k, filed[i].n = files[k]
          PROVE  \E j \in 1..Len(rest) : rest[j].key = k /\ rest[j].n = files[k]
      BY <1>7, <1>8, <2>1, <3>2
    <3> QED
      BY <1>6, <3>1, <3>2
  <2>2. CASE k = r.key
    <3>1. rows'[k] = r.n /\ r.n <= files[k] /\ files[k] # rows[k]
      BY <1>4, <1>9, <2>2
    <3>2. ASSUME NEW i \in 1..Len(filed), filed[i].key = k, filed[i].n = files[k], files[k] # r.n
          PROVE  \E j \in 1..Len(rest) : rest[j].key = k /\ rest[j].n = files[k]
      BY <1>7, <1>8, <3>2
    <3> QED
      BY <1>6, <3>1, <3>2
  <2> QED
    BY <2>1, <2>2
<1> QED
  BY <1>10, <1>11, <1>12, <1>13 DEF LedgerInv

(* The end of the process cuts off what is under way.                        *)
LEMMA VanishKeepsLedger == LedgerInv /\ Vanish => LedgerInv'
<1> SUFFICES ASSUME LedgerInv, Vanish PROVE LedgerInv'
  OBVIOUS
<1>1. /\ asked' = <<>> /\ filed' = <<>> /\ files' = files /\ rows' = rows /\ written' = written
      /\ cut' = cut \cup {filed[i].n : i \in DOMAIN filed}
  BY DEF Vanish
<1>2. filed \in Seq(Rec) /\ DOMAIN filed = 1..Len(filed)
  BY DEF LedgerInv, Filed
<1>3. \A i \in 1..Len(filed) : filed[i].n \in 1..MaxTold
  BY <1>2, Records
<1>4. LedgerTypes'
  <2>1. \A c \in cut' : c \in cut \/ \E i \in 1..Len(filed) : c = filed[i].n
    BY <1>1, <1>2
  <2>2. cut \subseteq 0..MaxTold
    BY DEF LedgerInv, LedgerTypes
  <2>3. cut' \subseteq 0..MaxTold
    <3> SUFFICES ASSUME NEW c \in cut' PROVE c \in 0..MaxTold
      OBVIOUS
    <3>1. CASE c \in cut
      BY <2>2, <3>1
    <3>2. CASE \E i \in 1..Len(filed) : c = filed[i].n
      <4>1. c \in 1..MaxTold
        BY <1>3, <3>2
      <4> QED
        BY <4>1, Records
    <3> QED
      BY <2>1, <3>1, <3>2
  <2> QED
    BY <1>1, <2>3 DEF LedgerInv, LedgerTypes
<1>5. Asked' /\ Filed'
  BY <1>1 DEF Asked, Filed
<1>6. Agreeing'
  <2> SUFFICES ASSUME NEW k \in Keys
               PROVE  /\ rows[k] <= files[k] /\ files[k] <= written
                      /\ files[k] = rows[k] \/ files[k] \in cut'
    BY <1>1, Zenon DEF Agreeing
  <2>1. /\ rows[k] <= files[k] /\ files[k] <= written
        /\ files[k] = rows[k] \/ files[k] \in cut \/ UnderWay(k)
    BY DEF LedgerInv, Agreeing
  <2> QED
    BY <1>1, <1>2, <2>1 DEF UnderWay
<1> QED
  BY <1>4, <1>5, <1>6 DEF LedgerInv
-----------------------------------------------------------------------------
(* Trust and moods.                                                          *)

LEMMA TrustSteps ==
    ASSUME NEW t \in 0..100, NEW a \in Nat
    PROVE  /\ Higher(t, a) \in 0..100 /\ Higher(t, a) <= t + a
           /\ Lower(t, a) \in 0..100 /\ Lower(t, a) <= t
BY DEF Higher, Lower

(* Guidance never makes for deep trust, nor for a readiness to offer.        *)
LEMMA Feelings ==
    ASSUME NEW tone, NEW m \in Moods
    PROVE  /\ Felt(tone, m) \in Moods /\ Felt(tone, m) # "deep_trust"
           /\ Felt(tone, m) = "creative" => m = "creative"
BY DEF Felt, Moods

LEMMA BondInit == Init => BondInv
<1> SUFFICES ASSUME Init PROVE BondInv
  OBVIOUS
<1>1. /\ mood = "humble" /\ trust = 50 /\ told = 0 /\ approved = 0 /\ turns = 0
      /\ written = 0 /\ sessions = 1
  BY DEF Init, Fresh
<1> QED
  BY <1>1, LucyAssumption DEF BondInv, ConfidenceIsEarned, Moods

(* Trust grows by what guidance adds, t being what an approval left before.  *)
LEMMA GuidedKeepsBond ==
    ASSUME BondInv, LedgerInv, NEW t \in 0..100, NEW m \in Moods, NEW tone, NEW key,
           Guided(t, m, tone, key), approved' \in 0..MaxApproved, approved' >= approved,
           t <= 50 + 2 * told + 5 * approved', m = "creative" => mood = "creative",
           turns' \in {turns, turns + 1}, slept' = slept, sessions' = sessions
    PROVE  BondInv'
<1>1. /\ told \in Nat /\ told' = told + 1 /\ written \in Nat /\ written' = written + 1
      /\ told <= written /\ turns \in 0..told /\ approved \in Nat /\ approved' \in Nat
      /\ mood' = Felt(tone, m) /\ trust' = Higher(t, 2)
  BY LucyAssumption DEF Guided, BondInv, LedgerInv, LedgerTypes
<1>2. trust' \in 0..100 /\ trust' <= t + 2
  BY <1>1, TrustSteps
<1>3. ConfidenceIsEarned'
  <2>1. trust' <= 50 + 2 * told' + 5 * approved'
    <3>1. \A x, y, z, w \in Nat :
             x <= 50 + 2 * y + 5 * z /\ w <= x + 2 => w <= 50 + 2 * (y + 1) + 5 * z
      OBVIOUS
    <3>2. t \in Nat /\ trust' \in Nat
      BY <1>2
    <3> QED
      BY <1>1, <1>2, <3>1, <3>2
  <2>2. mood' # "deep_trust" /\ (mood' = "creative" => slept' # {})
    BY <1>1, Feelings DEF BondInv, ConfidenceIsEarned
  <2> QED
    BY <2>1, <2>2 DEF ConfidenceIsEarned
<1>4. mood' \in Moods
  BY <1>1, Feelings
<1>5. turns' \in 0..told' /\ told' \in Nat /\ told' <= written'
  BY <1>1
<1> QED
  BY <1>2, <1>3, <1>4, <1>5 DEF BondInv

LEMMA LoweredKeepsBond ==
    ASSUME BondInv, NEW a \in Nat, trust' = Lower(trust, a), slept' = slept,
           UNCHANGED <<mood, told, approved, turns, written, sessions>>
    PROVE  BondInv'
<1>1. trust \in 0..100
  BY DEF BondInv
<1>2. trust' \in 0..100 /\ trust' <= trust
  BY <1>1, TrustSteps
<1>3. told \in Nat /\ approved \in Nat /\ trust <= 50 + 2 * told + 5 * approved
  BY LucyAssumption DEF BondInv, ConfidenceIsEarned
<1>4. trust' <= 50 + 2 * told + 5 * approved
  BY <1>1, <1>2, <1>3
<1> QED
  BY <1>2, <1>4 DEF BondInv, ConfidenceIsEarned

LEMMA VanishKeepsBond == BondInv /\ LedgerInv /\ Vanish => BondInv'
<1> SUFFICES ASSUME BondInv, LedgerInv, Vanish PROVE BondInv'
  OBVIOUS
<1>1. /\ mood' = "humble" /\ trust' = 50 /\ told' = 0 /\ approved' = 0 /\ turns' = 0
      /\ written' = written /\ sessions' = sessions
  BY DEF Vanish
<1>2. written \in Nat /\ sessions \in 1..MaxSessions
  BY LucyAssumption DEF BondInv, LedgerInv, LedgerTypes
<1> QED
  BY <1>1, <1>2, LucyAssumption DEF BondInv, ConfidenceIsEarned, Moods

-----------------------------------------------------------------------------
(* Nights.                                                                   *)

LEMMA Elements ==
    ASSUME NEW S, NEW s \in Seq(S)
    PROVE  /\ ToSet(s) \subseteq S
           /\ \A i \in 1..Len(s) : s[i] \in ToSet(s)
           /\ \A e \in ToSet(s) : \E i \in 1..Len(s) : e = s[i]
           /\ s # <<>> => ToSet(s) # {}
<1>1. DOMAIN s = 1..Len(s)
  BY LenProperties
<1>2. s # <<>> => 1 \in 1..Len(s)
  BY LenProperties, EmptySeq
<1> QED
  BY <1>1, <1>2 DEF ToSet

LEMMA Widening ==
    ASSUME NEW T, NEW S \in SUBSET T, NEW s \in Seq(S)
    PROVE  s \in Seq(T)
OBVIOUS

LEMMA NoElements == ToSet(<<>>) = {}
BY DEF ToSet

(* A rising sequence has as many elements as it is long.                     *)
LEMMA RisingCounts ==
    ASSUME NEW n \in Nat, NEW T \in SUBSET (1..n), NEW s \in Seq(Nat), Rising(s),
           ToSet(s) \subseteq T
    PROVE  Len(s) <= Cardinality(T)
<1> DEFINE U == ToSet(s)
<1>1. IsFiniteSet(T) /\ IsFiniteSet(U) /\ Cardinality(U) <= Cardinality(T)
        /\ Cardinality(U) \in Nat /\ Cardinality(T) \in Nat
  <2>1. IsFiniteSet(1..n)
    BY FS_Interval
  <2>2. IsFiniteSet(T)
    BY <2>1, FS_Subset
  <2>3. IsFiniteSet(U) /\ Cardinality(U) <= Cardinality(T)
    BY <2>2, FS_Subset
  <2> HIDE DEF U
  <2> QED
    BY <2>2, <2>3, FS_CardinalityType
<1>2. Len(s) \in Nat /\ s \in [1..Len(s) -> Nat]
  BY LenProperties
<1>3. s \in Bijection(1..Len(s), U)
  <2>1. \A i \in 1..Len(s) : s[i] \in U
    BY Elements
  <2>2. \A e \in U : \E i \in 1..Len(s) : e = s[i]
    BY Elements
  <2>3. \A i, j \in 1..Len(s) : s[i] = s[j] => i = j
    <3> SUFFICES ASSUME NEW i \in 1..Len(s), NEW j \in 1..Len(s), s[i] = s[j], i # j
                 PROVE  FALSE
      OBVIOUS
    <3>1. s[i] \in Nat /\ s[j] \in Nat
      BY <1>2
    <3>2. i < j \/ j < i
      OBVIOUS
    <3>3. s[i] < s[j] \/ s[j] < s[i]
      BY <3>2 DEF Rising
    <3> QED
      BY <3>1, <3>3
  <2>4. s \in [1..Len(s) -> U]
    BY <1>2, <2>1
  <2> HIDE DEF U
  <2> QED
    BY <2>2, <2>3, <2>4 DEF Bijection, Injection, Surjection, IsInjective
<1>4. Cardinality(1..Len(s)) = Len(s) /\ IsFiniteSet(1..Len(s))
  <2>1. /\ IsFiniteSet(1..Len(s))
        /\ Cardinality(1..Len(s)) = IF 1 > Len(s) THEN 0 ELSE Len(s) - 1 + 1
    <3>1. 1 \in Int /\ Len(s) \in Int
      BY <1>2
    <3> QED
      BY ONLY <3>1, FS_Interval
  <2> QED
    BY <1>2, <2>1
<1>5. Cardinality(1..Len(s)) = Cardinality(U)
  <2>1. ExistsBijection(1..Len(s), U)
    BY <1>3 DEF ExistsBijection
  <2> QED
    BY <1>1, <1>4, <2>1, FS_Bijection
<1> QED
  BY <1>1, <1>2, <1>4, <1>5

(* A larger set has no fewer elements beyond e.                              *)
LEMMA Newer ==
    ASSUME NEW n \in Nat, NEW T \in SUBSET (1..n), NEW S \in SUBSET T, NEW e,
           Cardinality({f \in S : f > e}) >= Capacity
    PROVE  Cardinality({f \in T : f > e}) >= Capacity
<1> DEFINE A == {f \in S : f > e}
           B == {f \in T : f > e}
<1>1. A \subseteq B /\ B \subseteq 1..n
  OBVIOUS
<1>2. Cardinality(A) >= Capacity
  OBVIOUS
<1> HIDE DEF A, B
<1>3. IsFiniteSet(B)
  <2>1. IsFiniteSet(1..n)
    BY FS_Interval
  <2> QED
    BY <1>1, <2>1, FS_Subset
<1>4. IsFiniteSet(A) /\ Cardinality(A) <= Cardinality(B)
  BY <1>1, <1>3, FS_Subset
<1>5. Cardinality(A) \in Nat /\ Cardinality(B) \in Nat
  BY <1>3, <1>4, FS_CardinalityType
<1>6. Cardinality(B) >= Capacity
  BY <1>2, <1>4, <1>5, LucyAssumption
<1> QED
  BY <1>6 DEF B

Waiting == ToSet(buffer) \cup (IF doing = "nrem" THEN ToSet(hand) ELSE {})

Pushed(e) == Cardinality({f \in lived : f > e}) >= Capacity

(* LivedOnce, part by part.                                                  *)
LEMMA LivedOnceParts ==
    LivedOnce <=>
        /\ Waiting \cap (slept \cup lost) = {} /\ slept \cap lost = {}
        /\ ToSet(buffer) \cap ToSet(hand) = {}
        /\ \A e \in lived \ (Waiting \cup slept \cup lost) : Pushed(e)
BY DEF LivedOnce, Waiting, Pushed

LEMMA NightInit == Init => NightInv
<1> SUFFICES ASSUME Init PROVE NightInv
  OBVIOUS
<1>1. /\ doing = "input" /\ buffer = <<>> /\ hand = <<>> /\ adapters = {} /\ slept = {}
      /\ lost = {} /\ runs = 0 /\ lived = {}
  BY DEF Init, Fresh
<1>2. NightTypes
  <2>1. <<>> \in Seq(Experiences) /\ Len(<<>>) = 0
    OBVIOUS
  <2> QED
    BY <1>1, <2>1, NoElements, LucyAssumption DEF NightTypes, Doings
<1>3. Nights
  BY <1>1 DEF Nights, Rising
<1>4. LivedOnce
  BY <1>1, NoElements DEF LivedOnce
<1> QED
  BY <1>2, <1>3, <1>4 DEF NightInv

(* Where memory is left alone, and no run or night is entered or left but by *)
(* the end of a run that raises.                                             *)
LEMMA MemoryRests ==
    ASSUME NightInv, UNCHANGED memory,
           \/ doing' = doing
           \/ doing \notin {"nrem", "rem"} /\ doing' \in Doings \ {"run", "nrem", "rem"}
    PROVE  NightInv'
<1>1. /\ runs' = runs /\ buffer' = buffer /\ hand' = hand /\ lived' = lived
      /\ adapters' = adapters /\ slept' = slept /\ lost' = lost
  BY DEF memory
<1>2. NightTypes'
  BY <1>1 DEF NightInv, NightTypes
<1>3. Nights'
  BY <1>1 DEF NightInv, Nights, Rising
<1>4. doing' = "nrem" <=> doing = "nrem"
  OBVIOUS
<1>5. LivedOnce'
  BY <1>1, <1>4 DEF NightInv, LivedOnce
<1> QED
  BY <1>2, <1>3, <1>5 DEF NightInv

LEMMA StartRunKeeps == NightInv /\ StartRun => NightInv'
<1> SUFFICES ASSUME NightInv, StartRun PROVE NightInv'
  OBVIOUS
<1>1. /\ doing = "input" /\ doing' = "run" /\ runs < MaxRuns /\ runs' = runs + 1
      /\ buffer' = buffer /\ hand' = hand /\ lived' = lived
      /\ adapters' = adapters /\ slept' = slept /\ lost' = lost
  BY DEF StartRun
<1>2. runs \in Nat /\ runs' \in 0..MaxRuns /\ lived \subseteq 1..runs
  BY <1>1, LucyAssumption DEF NightInv, NightTypes
<1>3. runs' \notin lived /\ lived \subseteq 1..runs'
  BY <1>1, <1>2
<1>4. NightTypes'
  BY <1>1, <1>2, <1>3 DEF NightInv, NightTypes, Doings
<1>5. Nights'
  BY <1>1, <1>2, <1>3 DEF NightInv, Nights, Rising
<1>6. LivedOnce'
  BY <1>1 DEF NightInv, LivedOnce
<1> QED
  BY <1>4, <1>5, <1>6 DEF NightInv

(* A run that ends is remembered; a full buffer forgets its oldest, which    *)
(* the others are newer than.                                                *)
LEMMA EndRunKeeps == NightInv /\ EndRun => NightInv'
<1> SUFFICES ASSUME NightInv, EndRun PROVE NightInv'
  OBVIOUS
<1> DEFINE e == runs
           longer == Append(buffer, e)
<1>1. /\ doing = "run" /\ doing' = "input" /\ runs' = runs /\ hand' = hand
      /\ lived' = lived \cup {e} /\ adapters' = adapters /\ slept' = slept /\ lost' = lost
      /\ buffer' = IF Len(longer) > Capacity THEN Tail(longer) ELSE longer
  BY DEF EndRun, Remembered
<1>2. /\ runs \in Nat /\ e \in 1..runs /\ e \notin lived /\ lived \subseteq 1..runs
      /\ e \in Experiences /\ runs \in 0..MaxRuns /\ hand = <<>>
      /\ buffer \in Seq(Experiences) /\ Len(buffer) <= Capacity /\ Rising(buffer)
      /\ ToSet(buffer) \subseteq lived /\ Capacity \in Nat \ {0} /\ Experiences \subseteq Nat
  <2>1. /\ runs \in 0..MaxRuns /\ MaxRuns \in Nat /\ runs >= 1 /\ runs \notin lived
    BY <1>1, LucyAssumption DEF NightInv, NightTypes, Nights
  <2>2. e \in 1..runs /\ e \in Experiences /\ runs \in Nat /\ Experiences \subseteq Nat
    BY <2>1 DEF Experiences
  <2> QED
    BY <1>1, <2>1, <2>2, LucyAssumption DEF NightInv, NightTypes, Nights
<1>3. /\ longer \in Seq(Experiences) /\ Len(longer) = Len(buffer) + 1 /\ Len(buffer) \in Nat
      /\ \A i \in 1..Len(buffer) : longer[i] = buffer[i]
      /\ longer[Len(buffer) + 1] = e
  <2> HIDE DEF e
  <2> QED
    BY <1>2, Appending
<1> HIDE DEF longer
<1>4. \A i \in 1..Len(longer) :
         \/ i = Len(buffer) + 1 /\ longer[i] = e
         \/ i \in 1..Len(buffer) /\ longer[i] = buffer[i] /\ longer[i] \in lived /\ longer[i] < e
  <2> SUFFICES ASSUME NEW i \in 1..Len(longer), i # Len(buffer) + 1
               PROVE  /\ i \in 1..Len(buffer) /\ longer[i] = buffer[i] /\ longer[i] \in lived
                      /\ longer[i] < e
    BY <1>3
  <2>1. i \in 1..Len(buffer) /\ longer[i] = buffer[i]
    BY <1>3
  <2>2. buffer[i] \in lived
    BY <1>2, <2>1, Elements
  <2>3. longer[i] \in 1..runs /\ longer[i] # e
    BY <1>2, <2>1, <2>2
  <2>4. longer[i] < e
    BY <1>2, <2>3
  <2> QED
    BY <2>1, <2>2, <2>4
<1>5. Rising(longer)
  <2> SUFFICES ASSUME NEW i \in 1..Len(longer), NEW j \in 1..Len(longer), i < j
               PROVE  longer[i] < longer[j]
    BY DEF Rising
  <2>1. i \in 1..Len(buffer) /\ longer[i] = buffer[i] /\ longer[i] < e
    BY <1>3, <1>4
  <2>2. CASE j = Len(buffer) + 1
    BY <1>3, <2>1, <2>2
  <2>3. CASE j # Len(buffer) + 1
    BY <1>2, <1>4, <2>1, <2>3 DEF Rising
  <2> QED
    BY <2>2, <2>3
<1>6. ToSet(longer) = ToSet(buffer) \cup {e}
  <2>1. ASSUME NEW x \in ToSet(longer) PROVE x \in ToSet(buffer) \cup {e}
    <3>1. PICK i \in 1..Len(longer) : x = longer[i]
      BY <1>3, Elements
    <3> QED
      BY <1>2, <1>4, <3>1, Elements
  <2>2. ASSUME NEW x \in ToSet(buffer) PROVE x \in ToSet(longer)
    <3>1. PICK i \in 1..Len(buffer) : x = buffer[i]
      BY <1>2, Elements
    <3>2. i \in 1..Len(longer) /\ longer[i] = x
      BY <1>3, <3>1
    <3> QED
      BY <1>3, <3>2, Elements
  <2>3. e \in ToSet(longer)
    <3>1. Len(buffer) + 1 \in 1..Len(longer)
      BY <1>3
    <3> QED
      BY <1>3, <3>1, Elements
  <2> QED
    BY <2>1, <2>2, <2>3
<1>7. lived' \subseteq 1..runs /\ lived \subseteq lived'
  BY <1>1, <1>2
<1>8. /\ Waiting = ToSet(buffer) /\ Waiting' = ToSet(buffer') /\ ToSet(hand) = {}
      /\ ToSet(buffer) \cap (slept \cup lost) = {} /\ slept \cap lost = {}
      /\ e \notin slept \cup lost
      /\ \A x \in lived \ (ToSet(buffer) \cup slept \cup lost) : Pushed(x)
  <2>1. Waiting = ToSet(buffer) /\ Waiting' = ToSet(buffer')
    BY <1>1 DEF Waiting
  <2>2. slept \subseteq lived /\ lost \subseteq lived /\ LivedOnce
    BY DEF NightInv, NightTypes
  <2> QED
    BY <1>2, <2>1, <2>2, NoElements, LivedOnceParts
<1>9. \A x : Pushed(x) => Pushed(x)'
  <2> SUFFICES ASSUME NEW x, Pushed(x) PROVE Cardinality({f \in lived' : f > x}) >= Capacity
    BY DEF Pushed
  <2> QED
    BY <1>2, <1>7, Newer DEF Pushed
<1>10. /\ buffer' \in Seq(Experiences) /\ Len(buffer') <= Capacity
       /\ Rising(buffer') /\ ToSet(buffer') \subseteq ToSet(longer)
       /\ \A x \in ToSet(longer) \ ToSet(buffer') : Pushed(x)'
  <2>1. CASE ~(Len(longer) > Capacity)
    <3>1. buffer' = longer
      BY <1>1, <2>1
    <3>2. Len(longer) <= Capacity
      BY <1>2, <1>3, <2>1
    <3> QED
      BY <1>3, <1>5, <3>1, <3>2
  <2>2. CASE Len(longer) > Capacity
    <3> DEFINE rest == Tail(longer)
    <3>1. buffer' = rest
      BY <1>1, <2>2
    <3>2. longer # <<>>
      BY <1>3
    <3>3. /\ rest \in Seq(Experiences) /\ Len(rest) = Len(longer) - 1
          /\ \A i \in 1..(Len(longer) - 1) : rest[i] = longer[i + 1]
      BY <1>3, <3>2, Dropping
    <3> HIDE DEF rest
    <3>4. Len(rest) = Capacity
      BY <1>2, <1>3, <2>2, <3>3
    <3>5. /\ \A i \in 1..Len(rest) : i + 1 \in 1..Len(longer) /\ 1 < i + 1
                                     /\ rest[i] = longer[i + 1]
          /\ 1 \in 1..Len(longer) /\ Len(longer) \in Nat
      BY <1>3, <3>3
    <3>6. Rising(rest)
      <4>1. \A i, j \in 1..Len(rest) : i < j => i + 1 < j + 1
        OBVIOUS
      <4> QED
        BY <1>5, <3>5, <4>1 DEF Rising
    <3>7. /\ ToSet(rest) \subseteq ToSet(longer)
          /\ \A x \in ToSet(rest) : longer[1] < x
          /\ \A x \in ToSet(longer) : x = longer[1] \/ x \in ToSet(rest)
      <4>1. ASSUME NEW x \in ToSet(rest) PROVE x \in ToSet(longer) /\ longer[1] < x
        <5>1. PICK i \in 1..Len(rest) : x = rest[i]
          BY <3>3, Elements
        <5>2. i + 1 \in 1..Len(longer) /\ 1 < i + 1 /\ x = longer[i + 1]
          BY <3>5, <5>1
        <5> QED
          BY <1>3, <1>5, <3>5, <5>2, Elements DEF Rising
      <4>2. ASSUME NEW x \in ToSet(longer), x # longer[1] PROVE x \in ToSet(rest)
        <5>1. PICK i \in 1..Len(longer) : x = longer[i]
          BY <1>3, Elements
        <5>2. i - 1 \in 1..Len(rest) /\ (i - 1) + 1 = i
          BY <1>3, <3>3, <4>2, <5>1
        <5>3. rest[i - 1] = x
          BY <3>5, <5>1, <5>2
        <5> QED
          BY <3>3, <5>2, <5>3, Elements
      <4> QED
        BY <4>1, <4>2
    <3>8. \A x : x = longer[1] => Pushed(x)'
      <4> DEFINE T == {f \in lived' : f > longer[1]}
      <4>1. longer[1] \in Nat
        <5>1. longer[1] \in Experiences
          BY <1>3, <3>5
        <5> QED
          BY <1>2, <5>1
      <4>2. \A x \in ToSet(rest) : x \in Nat /\ x \in lived'
        <5> SUFFICES ASSUME NEW x \in ToSet(rest) PROVE x \in Nat /\ x \in lived'
          OBVIOUS
        <5>1. x \in lived'
          BY <1>1, <1>2, <1>6, <3>7
        <5>2. x \in 1..runs
          BY <1>7, <5>1
        <5> QED
          BY <1>2, <5>1, <5>2
      <4>3. ToSet(rest) \subseteq T
        BY <3>7, <4>1, <4>2
      <4>4. T \in SUBSET (1..runs)
        BY <1>7
      <4>5. rest \in Seq(Nat)
        BY <1>2, <3>3, Widening
      <4> HIDE DEF T
      <4>6. Len(rest) <= Cardinality(T)
        BY <1>2, <3>6, <4>3, <4>4, <4>5, RisingCounts
      <4>7. Cardinality(T) \in Nat
        <5>1. IsFiniteSet(1..runs)
          BY <1>2, FS_Interval
        <5>2. IsFiniteSet(T)
          BY <4>4, <5>1, FS_Subset
        <5> QED
          BY <5>2, FS_CardinalityType
      <4>8. Cardinality(T) >= Capacity
        BY <1>2, <3>4, <4>6, <4>7
      <4> QED
        BY <4>8 DEF T, Pushed
    <3> QED
      BY <3>1, <3>3, <3>4, <3>6, <3>7, <3>8, <1>2
  <2> QED
    BY <2>1, <2>2
<1>11. NightTypes'
  <2>1. ToSet(buffer') \subseteq lived'
    BY <1>1, <1>2, <1>6, <1>10
  <2> QED
    BY <1>1, <1>2, <1>7, <1>10, <2>1 DEF NightInv, NightTypes, Doings
<1>12. Nights'
  BY <1>1, <1>2, <1>10 DEF Nights, Rising
<1>13. LivedOnce'
  <2>1. Waiting' \cap (slept' \cup lost') = {} /\ slept' \cap lost' = {}
    BY <1>1, <1>6, <1>8, <1>10
  <2>2. ToSet(buffer') \cap ToSet(hand') = {}
    BY <1>1, <1>8
  <2>3. ASSUME NEW x \in lived' \ (Waiting' \cup slept' \cup lost') PROVE Pushed(x)'
    <3>1. CASE x \in ToSet(longer)
      BY <1>8, <1>10, <2>3, <3>1
    <3>2. CASE x \notin ToSet(longer)
      <4>1. x \in lived \ (ToSet(buffer) \cup slept \cup lost)
        BY <1>1, <1>6, <2>3, <3>2
      <4> QED
        BY <1>8, <1>9, <4>1
    <3> QED
      BY <3>1, <3>2
  <2> QED
    BY <2>1, <2>2, <2>3 DEF LivedOnce, Waiting, Pushed
<1> QED
  BY <1>11, <1>12, <1>13 DEF NightInv

(* Going to sleep moves the buffer into hand, whole.                         *)
LEMMA GoodnightKeeps == NightInv /\ Goodnight => NightInv'
<1> SUFFICES ASSUME NightInv, Goodnight PROVE NightInv'
  OBVIOUS
<1>1. /\ doing = "input" /\ doing' = "nrem" /\ hand' = buffer /\ buffer' = <<>>
      /\ runs' = runs /\ lived' = lived
      /\ adapters' = adapters /\ slept' = slept /\ lost' = lost
  BY DEF Goodnight
<1>2. <<>> \in Seq(Experiences) /\ Len(<<>>) = 0 /\ Capacity \in Nat
  BY LucyAssumption
<1>3. NightTypes'
  BY <1>1, <1>2, NoElements DEF NightInv, NightTypes, Doings
<1>4. Nights'
  BY <1>1 DEF NightInv, Nights, Rising
<1>5. Waiting = ToSet(buffer) /\ Waiting' = ToSet(buffer)
  BY <1>1, NoElements DEF Waiting
<1>6. LivedOnce'
  BY <1>1, <1>5, NoElements, LivedOnceParts DEF NightInv, LivedOnce, Waiting, Pushed
<1> QED
  BY <1>3, <1>4, <1>6 DEF NightInv

(* Where what is in hand leaves the waiting for what was trained on, or for  *)
(* what was lost.                                                            *)
LEMMA HandLeaves ==
    ASSUME NightInv, doing = "nrem", doing' \in {"input", "rem"}, lived' = lived,
           buffer' = buffer, hand' \in {hand, <<>>},
           \/ slept' = slept \cup ToSet(hand) /\ lost' = lost
           \/ slept' = slept /\ lost' = lost \cup ToSet(hand)
    PROVE  LivedOnce'
<1>1. buffer = <<>> /\ ToSet(buffer) = {} /\ ToSet(buffer') = {}
  BY NoElements DEF NightInv, Nights
<1>2. Waiting = ToSet(hand) /\ Waiting' = {}
  BY <1>1 DEF Waiting
<1>3. /\ ToSet(hand) \cap (slept \cup lost) = {} /\ slept \cap lost = {}
      /\ \A e \in lived \ (ToSet(hand) \cup slept \cup lost) : Pushed(e)
  BY <1>2, LivedOnceParts DEF NightInv
<1>4. slept' \cap lost' = {} /\ slept' \cup lost' = ToSet(hand) \cup slept \cup lost
  BY <1>3
<1>5. \A e : Pushed(e)' <=> Pushed(e)
  BY DEF Pushed
<1>6. \A e \in lived' \ (Waiting' \cup slept' \cup lost') : Pushed(e)'
  BY <1>2, <1>3, <1>4, <1>5
<1> QED
  BY <1>1, <1>2, <1>4, <1>6 DEF LivedOnce, Waiting, Pushed

LEMMA SaveAdaptersKeeps == NightInv /\ SaveAdapters => NightInv'
<1> SUFFICES ASSUME NightInv, SaveAdapters PROVE NightInv'
  OBVIOUS
<1>1. /\ doing = "nrem" /\ doing' = "rem" /\ runs' = runs /\ buffer' = buffer /\ hand' = hand
      /\ lived' = lived /\ lost' = lost
      /\ adapters' = ToSet(hand) /\ slept' = slept \cup ToSet(hand)
  BY DEF SaveAdapters
<1>2. NightTypes'
  BY <1>1 DEF NightInv, NightTypes, Doings
<1>3. Nights'
  BY <1>1 DEF NightInv, Nights, Rising
<1>4. LivedOnce'
  BY <1>1, HandLeaves
<1> QED
  BY <1>2, <1>3, <1>4 DEF NightInv

LEMMA SaveFailsKeeps == NightInv /\ SaveFails => NightInv'
<1> SUFFICES ASSUME NightInv, SaveFails PROVE NightInv'
  OBVIOUS
<1>1. /\ doing = "nrem" /\ doing' = "input" /\ runs' = runs /\ buffer' = buffer /\ hand' = <<>>
      /\ lived' = lived /\ lost' = lost \cup ToSet(hand)
      /\ adapters' \in {adapters, {}} /\ slept' = slept
  BY DEF SaveFails
<1>2. <<>> \in Seq(Experiences) /\ Len(<<>>) = 0 /\ Capacity \in Nat
  BY LucyAssumption
<1>3. NightTypes'
  <2>1. hand' \in Seq(Experiences) /\ Len(hand') <= Capacity /\ ToSet(hand') \subseteq lived'
    BY <1>1, <1>2, NoElements
  <2>2. ToSet(hand) \subseteq lived /\ adapters \subseteq lived
    BY DEF NightInv, NightTypes
  <2> QED
    BY <1>1, <2>1, <2>2 DEF NightInv, NightTypes, Doings
<1>4. Nights'
  BY <1>1 DEF NightInv, Nights, Rising
<1>5. LivedOnce'
  BY <1>1, HandLeaves
<1> QED
  BY <1>3, <1>4, <1>5 DEF NightInv

LEMMA DreamKeepsNight == NightInv /\ Dream => NightInv'
<1> SUFFICES ASSUME NightInv, Dream PROVE NightInv'
  OBVIOUS
<1>1. /\ doing = "rem" /\ doing' = "consolidate" /\ runs' = runs /\ buffer' = buffer
      /\ hand' = <<>> /\ lived' = lived /\ adapters' = adapters /\ slept' = slept /\ lost' = lost
  BY DEF Dream
<1>2. <<>> \in Seq(Experiences) /\ Len(<<>>) = 0 /\ Capacity \in Nat
  BY LucyAssumption
<1>3. NightTypes'
  <2>1. hand' \in Seq(Experiences) /\ Len(hand') <= Capacity /\ ToSet(hand') \subseteq lived'
    BY <1>1, <1>2, NoElements
  <2> QED
    BY <1>1, <2>1 DEF NightInv, NightTypes, Doings
<1>4. Nights'
  BY <1>1 DEF NightInv, Nights, Rising
<1>5. Waiting' = Waiting
  BY <1>1 DEF Waiting
<1>6. LivedOnce'
  BY <1>1, <1>5, NoElements, LivedOnceParts DEF NightInv, LivedOnce, Waiting, Pushed
<1> QED
  BY <1>3, <1>4, <1>6 DEF NightInv

(* The end of a process loses what waited, and what is in hand unless it has *)
(* been trained on; the adapters stay, or are torn.                          *)
LEMMA VanishKeepsNight ==
    ASSUME NightInv, Vanish, adapters' \in {adapters, {}}
    PROVE  NightInv'
<1>1. /\ doing' = "gone" /\ buffer' = <<>> /\ hand' = <<>> /\ runs' = runs /\ lived' = lived
      /\ slept' = slept /\ lost' = lost \cup ToSet(buffer) \cup (ToSet(hand) \ slept)
  BY DEF Vanish
<1>2. <<>> \in Seq(Experiences) /\ Len(<<>>) = 0 /\ Capacity \in Nat
  BY LucyAssumption
<1>3. NightTypes'
  <2>1. /\ buffer' \in Seq(Experiences) /\ Len(buffer') <= Capacity /\ ToSet(buffer') = {}
        /\ hand' \in Seq(Experiences) /\ Len(hand') <= Capacity /\ ToSet(hand') = {}
    BY <1>1, <1>2, NoElements
  <2>2. /\ lost' \subseteq lived /\ slept \subseteq lived /\ adapters' \subseteq lived
        /\ lived \subseteq 1..runs /\ runs \in 0..MaxRuns
    BY <1>1 DEF NightInv, NightTypes
  <2> QED
    BY <1>1, <2>1, <2>2 DEF NightTypes, Doings
<1>4. Nights'
  BY <1>1 DEF Nights, Rising
<1>5. Waiting \subseteq ToSet(buffer) \cup ToSet(hand) /\ ToSet(buffer) \subseteq Waiting /\ Waiting' = {}
  BY <1>1, NoElements DEF Waiting
<1>6. /\ Waiting \cap (slept \cup lost) = {} /\ slept \cap lost = {}
      /\ \A e \in lived \ (Waiting \cup slept \cup lost) : Pushed(e)
  BY LivedOnceParts DEF NightInv
<1>7. slept' \cap lost' = {} /\ Waiting \cup slept \cup lost \subseteq slept' \cup lost'
  BY <1>1, <1>5, <1>6
<1>8. \A e : Pushed(e)' <=> Pushed(e)
  BY <1>1 DEF Pushed
<1>9. \A e \in lived' \ (Waiting' \cup slept' \cup lost') : Pushed(e)'
  BY <1>1, <1>6, <1>7, <1>8
<1>10. LivedOnce'
  BY <1>1, <1>5, <1>7, <1>9, NoElements DEF LivedOnce, Waiting, Pushed
<1> QED
  BY <1>3, <1>4, <1>10 DEF NightInv

-----------------------------------------------------------------------------
(* Reviews.                                                                  *)

LEMMA ReviewInit == Init => ReviewInv
<1> SUFFICES ASSUME Init PROVE ReviewInv
  OBVIOUS
<1>1. /\ doing = "input" /\ insights = <<>> /\ package = <<>>
      /\ awaiting = FALSE /\ overnight = FALSE
  BY DEF Init, Fresh
<1>2. <<>> \in Seq(Experiences) /\ Len(<<>>) = 0 /\ Len(<<>>) <= Simulations
  BY LucyAssumption
<1>3. insights \in Seq(Experiences) /\ package \in Seq(Experiences) /\ Len(insights) <= Simulations
  BY <1>1, <1>2
<1>4. ToSet(insights) = {}
  BY <1>1, NoElements
<1> QED
  BY <1>1, <1>3, <1>4 DEF ReviewInv, ReviewShowsWhatItJudges

(* Where the review and the adapters are left alone, or the adapters torn.   *)
LEMMA ReviewRests ==
    ASSUME ReviewInv, UNCHANGED review, adapters' \in {adapters, {}},
           doing' \notin {"rem", "closing"} => doing \notin {"rem", "closing"},
           doing' = "gone" => doing = "gone"
    PROVE  ReviewInv'
<1>1. insights' = insights /\ package' = package /\ awaiting' = awaiting /\ overnight' = overnight
  BY DEF review
<1>2. doing' \notin {"rem", "closing"} => ToSet(insights') \subseteq adapters' \/ adapters' = {}
  BY <1>1 DEF ReviewInv
<1> QED
  BY <1>1, <1>2 DEF ReviewInv, ReviewShowsWhatItJudges

LEMMA GoodMorningKeeps == ReviewInv /\ GoodMorning => ReviewInv'
<1> SUFFICES ASSUME ReviewInv, GoodMorning PROVE ReviewInv'
  OBVIOUS
<1>1. /\ package' = insights /\ awaiting' = TRUE /\ overnight' = FALSE
      /\ doing' = doing /\ insights' = insights /\ adapters' = adapters
  BY DEF GoodMorning, memory
<1> QED
  BY <1>1 DEF ReviewInv, ReviewShowsWhatItJudges

LEMMA DoneKeeps == ReviewInv /\ Done => ReviewInv'
<1> SUFFICES ASSUME ReviewInv, Done PROVE ReviewInv'
  OBVIOUS
<1>1. /\ awaiting' = FALSE /\ package' = package /\ overnight' = overnight
      /\ doing' = doing /\ insights' = insights /\ adapters' = adapters
  BY DEF Done, memory
<1> QED
  BY <1>1 DEF ReviewInv, ReviewShowsWhatItJudges

(* The dreams are the first few of the aligned memories.                     *)
LEMMA DreamsAreAligned ==
    ASSUME NEW s \in Seq(Experiences)
    PROVE  /\ Dreams(s) \in Seq(Experiences) /\ Len(Dreams(s)) <= Simulations
           /\ ToSet(Dreams(s)) \subseteq ToSet(s) \cap Aligned
<1> DEFINE D == Experiences \ Aligned
           w == Without(s, D)
           n == IF Len(w) < Simulations THEN Len(w) ELSE Simulations
           d == SubSeq(w, 1, n)
<1>1. w \in Seq(Experiences) /\ \E e : Places(s, D, e)
  BY WithoutKeepsOrder
<1>2. \A i \in 1..Len(w) : w[i] \in ToSet(s) /\ w[i] \in Aligned
  <2>1. PICK e : Places(s, D, e)
    BY <1>1
  <2>2. ASSUME NEW i \in 1..Len(w) PROVE w[i] \in ToSet(s) /\ w[i] \in Aligned
    <3>1. e[i] \in 1..Len(s) /\ w[i] = s[e[i]] /\ s[e[i]] \notin D
      BY <2>1 DEF Places
    <3>2. s[e[i]] \in ToSet(s) /\ s[e[i]] \in Experiences
      BY <3>1, Elements
    <3> QED
      BY <3>1, <3>2
  <2> QED
    BY <2>2
<1> HIDE DEF w, D
<1>3. Len(w) \in Nat /\ Simulations \in Nat /\ n \in 0..Len(w) /\ n <= Simulations
  BY <1>1, LucyAssumption
<1> HIDE DEF n
<1>4. d \in Seq(Experiences) /\ Len(d) = n /\ \A i \in 1..n : d[i] = w[i]
  BY <1>1, <1>3, SubSeqProperties
<1> HIDE DEF d
<1>5. ToSet(d) \subseteq ToSet(s) \cap Aligned
  <2> SUFFICES ASSUME NEW x \in ToSet(d) PROVE x \in ToSet(s) \cap Aligned
    OBVIOUS
  <2>1. PICK i \in 1..Len(d) : x = d[i]
    BY <1>4, Elements
  <2>2. i \in 1..Len(w)
    BY <1>3, <1>4
  <2> QED
    BY <1>2, <1>4, <2>1, <2>2
<1>6. Dreams(s) = d
  BY DEF Dreams, d, n, w, D
<1> QED
  BY <1>3, <1>4, <1>5, <1>6

(* A dream is of the night whose training has just been saved.               *)
LEMMA DreamKeepsReview == NightInv /\ ReviewInv /\ Dream => ReviewInv'
<1> SUFFICES ASSUME NightInv, ReviewInv, Dream PROVE ReviewInv'
  OBVIOUS
<1>1. /\ doing = "rem" /\ doing' = "consolidate" /\ insights' = Dreams(hand) /\ overnight' = TRUE
      /\ adapters' = adapters /\ package' = package /\ awaiting' = awaiting
  BY DEF Dream
<1>2. hand \in Seq(Experiences) /\ adapters = ToSet(hand)
  BY <1>1 DEF NightInv, NightTypes, Nights
<1>3. /\ insights' \in Seq(Experiences) /\ Len(insights') <= Simulations
      /\ ToSet(insights') \subseteq adapters /\ ToSet(insights') \subseteq Aligned
  BY <1>1, <1>2, DreamsAreAligned
<1> QED
  BY <1>1, <1>3 DEF ReviewInv, ReviewShowsWhatItJudges

LEMMA VanishKeepsReview == Vanish => ReviewInv'
<1> SUFFICES ASSUME Vanish PROVE ReviewInv'
  OBVIOUS
<1>1. /\ doing' = "gone" /\ insights' = <<>> /\ package' = <<>>
      /\ awaiting' = FALSE /\ overnight' = FALSE
  BY DEF Vanish
<1>2. <<>> \in Seq(Experiences) /\ Len(<<>>) = 0 /\ Len(<<>>) <= Simulations
  BY LucyAssumption
<1>3. insights' \in Seq(Experiences) /\ package' \in Seq(Experiences) /\ Len(insights') <= Simulations
  BY <1>1, <1>2
<1>4. ToSet(insights') = {}
  BY <1>1, NoElements
<1> QED
  BY <1>1, <1>3, <1>4 DEF ReviewInv, ReviewShowsWhatItJudges

-----------------------------------------------------------------------------
(* All steps.                                                                *)

LEMMA LedgerRests ==
    ASSUME LedgerInv, UNCHANGED <<asked, ledger, written>>
    PROVE  LedgerInv'
<1>1. asked' = asked /\ filed' = filed /\ files' = files /\ rows' = rows /\ cut' = cut
        /\ written' = written
  BY DEF ledger
<1> QED
  BY <1>1 DEF LedgerInv, LedgerTypes, Asked, Filed, Agreeing, UnderWay

LEMMA BondRests ==
    ASSUME BondInv, UNCHANGED <<bond, turns, written>>, slept \subseteq slept',
           sessions' \in 1..MaxSessions
    PROVE  BondInv'
<1>1. mood' = mood /\ trust' = trust /\ told' = told /\ approved' = approved
        /\ turns' = turns /\ written' = written
  BY DEF bond
<1> QED
  BY <1>1 DEF BondInv, ConfidenceIsEarned

(* The steps that neither give guidance nor end the process, nor touch the   *)
(* ledger.                                                                   *)
Quiet ==
    \/ GoodMorning \/ Done \/ StartRun \/ Goodnight \/ Exit \/ ProviderAnswers
    \/ (\E i \in 1..Simulations : Approve(i)) \/ EndRun \/ RunRaises
    \/ SaveAdapters \/ SaveFails \/ Dream \/ Consolidate \/ Restart

LEMMA Steps ==
    Next <=>
        \/ Quiet \/ WriteFile \/ CommitRow \/ CloseLedger \/ Crash
        \/ \E tone \in Tones : Chat(tone)
        \/ \E i \in 1..Simulations, tone \in Tones : Modify(i, tone)
BY Zenon DEF Next, Human, RunEnds, Sleeps, Appends, Quiet

LEMMA LedgerStep == LedgerInv /\ BondInv /\ Next => LedgerInv'
<1> SUFFICES ASSUME LedgerInv, BondInv, Next PROVE LedgerInv'
  OBVIOUS
<1>1. CASE Quiet
  <2>1. UNCHANGED <<asked, ledger, written>>
    BY <1>1 DEF Quiet, GoodMorning, Done, StartRun, Goodnight, Exit, ProviderAnswers,
           Approve, EndRun, RunRaises, SaveAdapters, SaveFails, Dream,
           Consolidate, Restart
  <2> QED
    BY <2>1, LedgerRests
<1>2. CASE WriteFile
  BY <1>2, WriteFileKeeps
<1>3. CASE CommitRow
  BY <1>3, CommitRowKeeps
<1>4. CASE CloseLedger \/ Crash
  BY <1>4, VanishKeepsLedger DEF CloseLedger, Crash
<1>5. ASSUME NEW tone \in Tones, Chat(tone) PROVE LedgerInv'
  <2>1. Guided(trust, mood, tone, turns + 1) /\ UNCHANGED ledger
    BY <1>5 DEF Chat
  <2>2. turns + 1 \in Keys
    <3>1. turns \in Nat /\ turns <= written /\ written < MaxTold /\ written \in Nat /\ MaxTold \in Nat
      BY <2>1, LucyAssumption DEF BondInv, LedgerInv, LedgerTypes, Guided
    <3> QED
      BY <3>1 DEF Keys
  <2> QED
    BY <2>1, <2>2, GuidedKeepsLedger
<1>6. ASSUME NEW i \in 1..Simulations, NEW tone \in Tones, Modify(i, tone) PROVE LedgerInv'
  <2>1. Guided(Higher(trust, 5), "deep_trust", tone, 0) /\ UNCHANGED ledger
    BY <1>6 DEF Modify
  <2>2. 0 \in Keys
    BY LucyAssumption DEF Keys
  <2> QED
    BY <2>1, <2>2, GuidedKeepsLedger
<1> QED
  BY <1>1, <1>2, <1>3, <1>4, <1>5, <1>6, Steps

LEMMA BondStep == LedgerInv /\ BondInv /\ NightInv /\ Next => BondInv'
<1> SUFFICES ASSUME LedgerInv, BondInv, NightInv, Next PROVE BondInv'
  OBVIOUS
<1>1. /\ trust \in 0..100 /\ mood \in Moods /\ told \in Nat /\ approved \in Nat
      /\ approved \in 0..MaxApproved /\ MaxApproved \in Nat /\ sessions \in 1..MaxSessions
      /\ trust <= 50 + 2 * told + 5 * approved /\ "deep_trust" \in Moods
  BY LucyAssumption DEF BondInv, ConfidenceIsEarned, Moods
<1>2. CASE GoodMorning \/ Done \/ StartRun \/ Goodnight \/ Exit \/ ProviderAnswers
           \/ SaveAdapters \/ SaveFails \/ Consolidate \/ Restart \/ WriteFile \/ CommitRow
  <2>1. UNCHANGED <<bond, turns, written>> /\ slept \subseteq slept'
    BY <1>2 DEF GoodMorning, Done, StartRun, Goodnight, Exit, ProviderAnswers,
           SaveAdapters, SaveFails, Consolidate, Restart, WriteFile, CommitRow, memory
  <2>2. sessions' = sessions \/ (sessions < MaxSessions /\ sessions' = sessions + 1)
    BY <1>2 DEF GoodMorning, Done, StartRun, Goodnight, Exit, ProviderAnswers,
           SaveAdapters, SaveFails, Consolidate, Restart, WriteFile, CommitRow
  <2>3. sessions' \in 1..MaxSessions
    BY <1>1, <2>2, LucyAssumption
  <2> QED
    BY <2>1, <2>3, BondRests
<1>3. CASE EndRun \/ RunRaises
  <2>1. /\ trust' = Lower(trust, 10 * Blame[runs]) /\ slept' = slept
        /\ UNCHANGED <<mood, told, approved, turns, written, sessions>>
    BY <1>3 DEF EndRun, RunRaises, memory
  <2>2. 10 * Blame[runs] \in Nat
    <3>1. doing = "run" /\ runs \in 0..MaxRuns /\ MaxRuns \in Nat
      BY <1>3, LucyAssumption DEF EndRun, RunRaises, NightInv, NightTypes
    <3>2. runs \in 1..MaxRuns
      BY <3>1 DEF NightInv, Nights
    <3>3. Blame[runs] \in Nat
      BY <3>2, LucyAssumption
    <3> QED
      BY <3>3
  <2> QED
    BY <2>1, <2>2, LoweredKeepsBond
<1>4. CASE Dream
  <2>1. CASE Dreams(hand) = <<>>
    <3>1. UNCHANGED <<bond, turns, written>> /\ slept' = slept /\ sessions' = sessions
      BY <1>4, <2>1 DEF Dream, bond
    <3> QED
      BY <1>1, <3>1, BondRests
  <2>2. CASE Dreams(hand) # <<>>
    <3>1. /\ mood' = "creative" /\ trust' = trust /\ told' = told /\ approved' = approved
          /\ turns' = turns /\ written' = written /\ slept' = slept /\ sessions' = sessions
      BY <1>4, <2>2 DEF Dream
    <3>2. hand \in Seq(Experiences) /\ ToSet(hand) \subseteq slept
      BY <1>4 DEF Dream, NightInv, NightTypes, Nights
    <3>3. Dreams(hand) \in Seq(Experiences) /\ ToSet(Dreams(hand)) \subseteq ToSet(hand)
      BY <3>2, DreamsAreAligned
    <3>4. ToSet(Dreams(hand)) # {}
      BY <2>2, <3>3, Elements
    <3>5. slept # {}
      BY <3>2, <3>3, <3>4
    <3> QED
      BY <3>1, <3>5 DEF BondInv, ConfidenceIsEarned, Moods
  <2> QED
    BY <2>1, <2>2
<1>5. CASE CloseLedger \/ Crash
  BY <1>5, VanishKeepsBond DEF CloseLedger, Crash
<1>6. ASSUME NEW tone \in Tones, Chat(tone) PROVE BondInv'
  <2>1. /\ Guided(trust, mood, tone, turns + 1) /\ approved' = approved
        /\ turns' = turns + 1 /\ slept' = slept /\ sessions' = sessions
    BY <1>6 DEF Chat, memory
  <2>2. approved' \in 0..MaxApproved /\ approved' >= approved
          /\ trust <= 50 + 2 * told + 5 * approved'
    BY <1>1, <2>1
  <2> QED
    BY <1>1, <2>1, <2>2, GuidedKeepsBond
<1>7. ASSUME NEW i \in 1..Simulations, NEW tone \in Tones, Modify(i, tone) PROVE BondInv'
  <2>1. /\ Guided(Higher(trust, 5), "deep_trust", tone, 0) /\ approved' = approved + 1
        /\ approved < MaxApproved /\ turns' = turns /\ slept' = slept /\ sessions' = sessions
    BY <1>7 DEF Modify, memory
  <2>2. Higher(trust, 5) \in 0..100 /\ Higher(trust, 5) <= trust + 5
    BY <1>1, TrustSteps
  <2>3. approved' \in 0..MaxApproved /\ approved' >= approved
    BY <1>1, <2>1
  <2>4. Higher(trust, 5) <= 50 + 2 * told + 5 * approved'
    BY <1>1, <2>1, <2>2
  <2> QED
    BY <1>1, <2>1, <2>2, <2>3, <2>4, GuidedKeepsBond
<1>8. ASSUME NEW i \in 1..Simulations, Approve(i) PROVE BondInv'
  <2>1. /\ trust' = Higher(trust, 5) /\ mood' = "deep_trust" /\ approved' = approved + 1
        /\ approved < MaxApproved /\ told' = told /\ turns' = turns /\ written' = written
        /\ slept' = slept /\ sessions' = sessions
    BY <1>8 DEF Approve, memory
  <2>2. trust' \in 0..100 /\ trust' <= trust + 5
    BY <1>1, <2>1, TrustSteps
  <2>3. approved' \in 0..MaxApproved /\ approved' > 0
    BY <1>1, <2>1
  <2>4. trust' <= 50 + 2 * told + 5 * approved'
    BY <1>1, <2>1, <2>2
  <2> QED
    BY <1>1, <2>1, <2>2, <2>3, <2>4 DEF BondInv, ConfidenceIsEarned
<1> QED
  BY <1>2, <1>3, <1>4, <1>5, <1>6, <1>7, <1>8, Steps DEF Quiet

(* The steps that leave the memory of runs alone.                            *)
LEMMA NightStep == NightInv /\ Next => NightInv'
<1> SUFFICES ASSUME NightInv, Next PROVE NightInv'
  OBVIOUS
<1>1. CASE GoodMorning \/ Done \/ Exit \/ ProviderAnswers \/ RunRaises
           \/ Consolidate \/ Restart \/ WriteFile \/ CommitRow
           \/ \E i \in 1..Simulations : Approve(i)
  <2>1. /\ UNCHANGED memory
        /\ \/ doing' = doing
           \/ doing \notin {"nrem", "rem"} /\ doing' \in Doings \ {"run", "nrem", "rem"}
    BY <1>1 DEF GoodMorning, Done, Exit, ProviderAnswers, RunRaises,
           Consolidate, Restart, WriteFile, CommitRow, Approve, Doings
  <2> QED
    BY <2>1, MemoryRests
<1>2. CASE \/ \E tone \in Tones : Chat(tone)
           \/ \E i \in 1..Simulations, tone \in Tones : Modify(i, tone)
  <2>1. /\ UNCHANGED memory
        /\ \/ doing' = doing
           \/ doing \notin {"nrem", "rem"} /\ doing' \in Doings \ {"run", "nrem", "rem"}
    BY <1>2 DEF Chat, Modify, Doings
  <2> QED
    BY <2>1, MemoryRests
<1>3. CASE StartRun \/ EndRun \/ Goodnight \/ SaveAdapters \/ SaveFails \/ Dream
  BY <1>3, StartRunKeeps, EndRunKeeps, GoodnightKeeps, SaveAdaptersKeeps, SaveFailsKeeps,
     DreamKeepsNight
<1>4. CASE CloseLedger \/ Crash
  <2>1. Vanish /\ adapters' \in {adapters, {}}
    BY <1>4 DEF CloseLedger, Crash
  <2> QED
    BY <2>1, VanishKeepsNight
<1> QED
  BY <1>1, <1>2, <1>3, <1>4, Steps DEF Quiet

LEMMA ReviewStep == NightInv /\ ReviewInv /\ Next => ReviewInv'
<1> SUFFICES ASSUME NightInv, ReviewInv, Next PROVE ReviewInv'
  OBVIOUS
<1>1. CASE StartRun \/ Goodnight \/ Exit \/ ProviderAnswers \/ EndRun \/ RunRaises
           \/ SaveFails \/ Consolidate \/ Restart \/ WriteFile \/ CommitRow
           \/ \E i \in 1..Simulations : Approve(i)
  <2>1. /\ UNCHANGED review /\ adapters' \in {adapters, {}}
        /\ doing' \notin {"rem", "closing"} => doing \notin {"rem", "closing"}
        /\ doing' = "gone" => doing = "gone"
    BY <1>1 DEF StartRun, Goodnight, Exit, ProviderAnswers, EndRun, RunRaises,
           SaveFails, Consolidate, Restart, WriteFile, CommitRow, Approve, memory
  <2> QED
    BY <2>1, ReviewRests
<1>2. CASE \/ \E tone \in Tones : Chat(tone)
           \/ \E i \in 1..Simulations, tone \in Tones : Modify(i, tone)
  <2>1. /\ UNCHANGED review /\ adapters' \in {adapters, {}}
        /\ doing' \notin {"rem", "closing"} => doing \notin {"rem", "closing"}
        /\ doing' = "gone" => doing = "gone"
    BY <1>2 DEF Chat, Modify, memory
  <2> QED
    BY <2>1, ReviewRests
<1>3. CASE GoodMorning \/ Done \/ Dream
  BY <1>3, GoodMorningKeeps, DoneKeeps, DreamKeepsReview
<1>4. CASE SaveAdapters
  <2>1. /\ insights' = insights /\ package' = package /\ awaiting' = awaiting
        /\ overnight' = overnight /\ doing' = "rem"
    BY <1>4 DEF SaveAdapters, review
  <2> QED
    BY <2>1 DEF ReviewInv, ReviewShowsWhatItJudges
<1>5. CASE CloseLedger \/ Crash
  BY <1>5, VanishKeepsReview DEF CloseLedger, Crash
<1> QED
  BY <1>1, <1>2, <1>3, <1>4, <1>5, Steps DEF Quiet

LEMMA StutterKeeps == IInv /\ UNCHANGED vars => IInv'
<1> SUFFICES ASSUME IInv, UNCHANGED vars PROVE IInv'
  OBVIOUS
<1>1. /\ doing' = doing /\ UNCHANGED <<bond, turns, memory, review, asked, ledger, written, sessions>>
      /\ adapters' = adapters /\ slept' = slept
  BY DEF vars, memory
<1>2. LedgerInv'
  BY <1>1, LedgerRests DEF IInv
<1>3. BondInv'
  <2>1. sessions' \in 1..MaxSessions
    BY <1>1 DEF IInv, BondInv
  <2> QED
    BY <1>1, <2>1, BondRests DEF IInv
<1>4. NightInv'
  BY <1>1, MemoryRests DEF IInv
<1>5. ReviewInv'
  BY <1>1, ReviewRests DEF IInv
<1> QED
  BY <1>2, <1>3, <1>4, <1>5 DEF IInv

(* The inductive invariant: the ledger, the bond, the memory of the nights   *)
(* and the review each keep theirs, and the bond and the review rely on the  *)
(* nights.                                                                   *)
THEOREM SessionInvariance == Spec => []IInv
<1>1. Init => IInv
  BY LedgerInit, BondInit, NightInit, ReviewInit DEF IInv
<1>2. IInv /\ [Next]_vars => IInv'
  BY LedgerStep, BondStep, NightStep, ReviewStep, StutterKeeps DEF IInv
<1> QED
  BY <1>1, <1>2, PTL DEF Spec

(* Every part of a session keeps its type: trust stays in its range, the     *)
(* buffer within its capacity, and what is remembered was lived.             *)
THEOREM SessionTypes == Spec => []TypeOK
<1>1. IInv => TypeOK
  <2> SUFFICES ASSUME IInv PROVE TypeOK
    OBVIOUS
  <2>1. /\ doing \in Doings /\ mood \in Moods /\ trust \in 0..100
        /\ approved \in 0..MaxApproved /\ sessions \in 1..MaxSessions /\ turns \in 0..told
    BY DEF IInv, BondInv, NightInv, NightTypes
  <2>2. told \in 0..MaxTold /\ written \in 0..MaxTold
    <3>1. told \in Nat /\ told <= written /\ written \in 0..MaxTold /\ MaxTold \in Nat
      BY LucyAssumption DEF IInv, BondInv, LedgerInv, LedgerTypes
    <3> QED
      BY <3>1
  <2>3. /\ buffer \in Seq(Experiences) /\ Len(buffer) <= Capacity
        /\ hand \in Seq(Experiences) /\ Len(hand) <= Capacity
        /\ (adapters \cup slept \cup lost) \subseteq lived /\ lived \subseteq 1..runs
        /\ runs \in 0..MaxRuns
    BY DEF IInv, NightInv, NightTypes
  <2>4. /\ insights \in Seq(Experiences) /\ package \in Seq(Experiences)
        /\ {awaiting, overnight} \subseteq BOOLEAN
    BY DEF IInv, ReviewInv
  <2>5. {asked, filed} \subseteq Seq([key : Keys, n : 1..MaxTold])
    BY DEF IInv, LedgerInv, Asked, Filed, Rec
  <2>6. {files, rows} \subseteq [Keys -> 0..MaxTold] /\ cut \subseteq 0..MaxTold
    BY DEF IInv, LedgerInv, LedgerTypes
  <2> QED
    BY <2>1, <2>2, <2>3, <2>4, <2>5, <2>6 DEF TypeOK
<1> QED
  BY <1>1, SessionInvariance, PTL

(* However runs, nights, reviews, chats and processes are mixed, trust is at *)
(* most what guidance and approvals add up to, and no mood of confidence     *)
(* comes before an approval or a night.                                      *)
THEOREM TrustIsEarned == Spec => []ConfidenceIsEarned
<1>1. IInv => ConfidenceIsEarned
  BY DEF IInv, BondInv
<1> QED
  BY <1>1, SessionInvariance, PTL

(* The dreams she offers are aligned ones of the night whose training is on  *)
(* disk, or the file is torn, for every buffer and number of nights.         *)
THEOREM DreamsAreOfTheNight == Spec => []DreamsMatchTraining
<1>1. IInv => DreamsMatchTraining
  <2> SUFFICES ASSUME IInv PROVE DreamsMatchTraining
    OBVIOUS
  <2>1. /\ Len(insights) <= Simulations /\ ToSet(insights) \subseteq Aligned
        /\ doing \notin {"rem", "closing"} => ToSet(insights) \subseteq adapters \/ adapters = {}
    BY DEF IInv, ReviewInv
  <2> QED
    BY <2>1 DEF DreamsMatchTraining
<1> QED
  BY <1>1, SessionInvariance, PTL

(* No experience is slept on twice, and none is missing that neither waits,  *)
(* nor was slept on or lost, nor was pushed out by Capacity newer ones.      *)
THEOREM NothingIsSleptOnTwice == Spec => []LivedOnce
<1>1. IInv => LivedOnce
  BY DEF IInv, NightInv
<1> QED
  BY <1>1, SessionInvariance, PTL

(* An open review shows the insights that approvals are counted against,     *)
(* unless a night has come between.                                          *)
THEOREM ReviewsJudgeWhatTheyShow == Spec => []ReviewShowsWhatItJudges
<1>1. IInv => ReviewShowsWhatItJudges
  BY DEF IInv, ReviewInv
<1> QED
  BY <1>1, SessionInvariance, PTL

(* Files and rows of the evidence ledger agree but for appends under way and *)
(* those a process took with it, however many processes there have been.     *)
THEOREM LedgerKeepsUp == Spec => []LedgerAgrees
<1>1. IInv => LedgerAgrees
  <2> SUFFICES ASSUME IInv, NEW k \in Keys
               PROVE  /\ rows[k] <= files[k]
                      /\ files[k] # rows[k] =>
                             files[k] \in {filed[i].n : i \in DOMAIN filed} \cup cut
    BY DEF LedgerAgrees
  <2>1. DOMAIN filed = 1..Len(filed)
    BY DEF IInv, LedgerInv, Filed
  <2>2. /\ rows[k] <= files[k]
        /\ files[k] = rows[k] \/ files[k] \in cut \/ UnderWay(k)
    BY DEF IInv, LedgerInv, Agreeing
  <2> QED
    BY <2>1, <2>2 DEF UnderWay
<1> QED
  BY <1>1, SessionInvariance, PTL

-----------------------------------------------------------------------------
(* The foundation audit.                                                     *)

(* A sound foundation stores memory and evidence, has a real provider that  *)
(* answers with a trained model whose self-check, if it has one, passed,    *)
(* and, where enforcement is on, no endpoint that names a host which is not *)
(* local by its spelling.                                                   *)
THEOREM SoundFoundation ==
    ASSUME NEW system \in Systems, Verdict(system) = "FOUNDATION_SOUND"
    PROVE  /\ system.memory /\ system.evidence
           /\ system.phone /\ system.require => system.local
           /\ \E p \in system.providers :
                  /\ ~p.simulated /\ p.reachable /\ p.lists = "lucy"
                  /\ p.checkpoint.file = "model" /\ p.checkpoint.trained
                  /\ p.checks => p.checkpoint.probe # "missed"
           /\ system.enforce =>
                  \A base \in Endpoints(system) :
                      base = "hostless" \/ base \in Hosts \ {"public", "named"}
<1> DEFINE status == {Checks(system)[c] : c \in DOMAIN Checks(system)}
<1>1. "FAIL" \notin status /\ "GAP" \notin status /\ ~Raises(system)
  BY DEF Verdict
<1>2. {NoCloud(system), PhonePolicy(system), Stored(system.memory),
       Stored(system.evidence), ModelWeights(system)} \subseteq status
  <2>1. DOMAIN Checks(system) = {"no_cloud_endpoints", "phone_safety_policy",
                   "local_memory", "local_evidence", "model_weights_present"}
    BY DEF Checks
  <2> QED
    BY <2>1 DEF Checks
<1>3. system.memory /\ system.evidence
  BY <1>1, <1>2 DEF Stored
<1>4. system.phone /\ system.require => system.local
  BY <1>1, <1>2 DEF PhonePolicy
<1>5. \E p \in system.providers :
          /\ ~p.simulated /\ p.reachable /\ p.lists = "lucy"
          /\ p.checkpoint.file = "model" /\ p.checkpoint.trained
          /\ p.checks => p.checkpoint.probe # "missed"
  <2>1. PICK p \in Real(system) : Trained(p)
    BY <1>1, <1>2 DEF ModelWeights
  <2>2. p.reachable /\ p.lists = "lucy" /\ CheckTraining(p.checkpoint) = "AVAILABLE"
    BY <2>1 DEF Trained, Claims
  <2>3. p \in system.providers /\ ~p.simulated
    BY <2>1 DEF Real
  <2>4. p.checkpoint.file = "model" /\ p.checkpoint.trained
    <3>1. p.checkpoint \in Checkpoints
      BY <2>3 DEF Systems, Providers
    <3> QED
      BY <2>2, <3>1 DEF CheckTraining, Checkpoints
  <2>5. p.checks => p.checkpoint.probe # "missed"
    BY <2>1 DEF Trained, SelfCheck
  <2> QED
    BY <2>2, <2>3, <2>4, <2>5
<1>6. ASSUME system.enforce, NEW base \in Endpoints(system)
      PROVE  base = "hostless" \/ base \in Hosts \ {"public", "named"}
  <2>1. CloudEndpoints(system) = {}
    BY <1>1, <1>2, <1>6 DEF NoCloud
  <2>2. Classify(base) # "PUBLIC_CLOUD"
    BY <2>1 DEF CloudEndpoints
  <2>3. base \in Bases \ {"unset", "malformed"}
    <3>1. base # "malformed"
      BY <1>1 DEF Raises
    <3> QED
      BY <3>1 DEF Endpoints, Systems, Providers
  <2> QED
    BY <2>2, <2>3 DEF Classify, Bases, Hosts
<1> QED
  BY <1>3, <1>4, <1>5, <1>6

(* The verdict is blind to a URL that has no scheme, as openai.com:443/v1:  *)
(* adding one to a sound system leaves it sound ("every inference endpoint  *)
(* is loopback/private LAN", audit.py:5).                                   *)
THEOREM HostlessGoesUnseen ==
    ASSUME NEW system \in Systems, Verdict(system) = "FOUNDATION_SOUND"
    PROVE  Verdict([system EXCEPT !.peers = @ \cup {"hostless"}]) = "FOUNDATION_SOUND"
<1> DEFINE more == [system EXCEPT !.peers = @ \cup {"hostless"}]
<1>1. /\ more.providers = system.providers /\ more.enforce = system.enforce
      /\ more.phone = system.phone /\ more.require = system.require
      /\ more.local = system.local /\ more.memory = system.memory
      /\ more.evidence = system.evidence
      /\ more.peers = system.peers \cup {"hostless"}
  BY DEF Systems
<1>2. Endpoints(more) = Endpoints(system) \cup {"hostless"}
  BY <1>1 DEF Endpoints
<1>3. CloudEndpoints(more) = CloudEndpoints(system)
  <2>1. Classify("hostless") # "PUBLIC_CLOUD"
    BY DEF Classify
  <2> QED
    BY <1>2, <2>1 DEF CloudEndpoints
<1>4. Real(more) = Real(system)
  BY <1>1 DEF Real
<1>5. Checks(more) = Checks(system)
  BY <1>1, <1>3, <1>4 DEF Checks, NoCloud, PhonePolicy, ModelWeights
<1>6. Raises(more) = Raises(system)
  BY <1>2, <1>4 DEF Raises
<1> QED
  BY <1>5, <1>6 DEF Verdict
=============================================================================
