------------------------ MODULE LoyalRuntime_proofs ------------------------
(***************************************************************************)
(* Proofs about LoyalRuntime for every set of tools, every policy without  *)
(* a tool that is both allowed and asked for, every planner and all limits. *)
(*                                                                         *)
(* IndInv, the inductive invariant, says                                   *)
(*   ControlInv  in which lifecycle state the run is at each of its control *)
(*               points, and what it has left behind by then;              *)
(*   OrderInv    that tools start in plan order, a tool the policy asks for *)
(*               only in a devoted plan;                                   *)
(*   BudgetInv   how the started tools and the failures relate to the      *)
(*               counters, TrustIsContingent among them.                   *)
(*                                                                         *)
(* DisclosureInv adds how far the run is in its plan, and that every stop  *)
(* of the plan is its end: for planners that end their plans so, as the    *)
(* predictive planner is shown to.                                         *)
(***************************************************************************)
EXTENDS LoyalRuntime, Selection_proofs, FiniteSetTheorems

(* The loyalty gate: what it guarantees about every plan, whoever made it.   *)

(* The place of the first stop is a place of the plan, or the one behind it. *)
LEMMA FirstStopExists ==
    ASSUME NEW S, NEW p \in Seq(S)
    PROVE  /\ FirstStop(p) \in 1..(Len(p) + 1)
           /\ FirstStop(p) \in DOMAIN p => p[FirstStop(p)].action = "stop"
           /\ \A j \in 1..(FirstStop(p) - 1) : p[j].action # "stop"
<1> DEFINE Stops == {k \in Nat : k \in DOMAIN p /\ p[k].action = "stop"}
<1>1. \E k \in 1..(Len(p) + 1) :
         /\ k \in DOMAIN p => p[k].action = "stop"
         /\ \A j \in 1..(k - 1) : p[j].action # "stop"
  <2>1. CASE Stops = {}
    <3>1. \A j \in 1..Len(p) : p[j].action # "stop"
      BY <2>1
    <3>2. Len(p) \in Nat /\ Len(p) + 1 \notin DOMAIN p /\ (Len(p) + 1) - 1 = Len(p)
      OBVIOUS
    <3> QED
      BY <3>1, <3>2
  <2>2. CASE Stops # {}
    <3>1. PICK k \in Stops : \A m \in Stops : k <= m
      <4>1. Stops \in SUBSET Nat
        OBVIOUS
      <4> HIDE DEF Stops
      <4> QED
        BY <2>2, <4>1, LeastNumber
    <3>2. k \in 1..Len(p) /\ p[k].action = "stop"
      OBVIOUS
    <3>3. ASSUME NEW j \in 1..(k - 1) PROVE p[j].action # "stop"
      <4>1. j \in Nat /\ j \in DOMAIN p /\ ~(k <= j)
        BY <3>2
      <4>2. j \notin Stops
        BY <3>1, <4>1
      <4> QED
        BY <4>1, <4>2
    <3> QED
      BY <3>2, <3>3
  <2> QED
    BY <2>1, <2>2
<1> QED
  BY <1>1 DEF FirstStop

(* Putting steps at the stop keeps every step and adds those, the steps in
   front of the stop where they were and the new ones right behind them. *)
LEMMA InsertionKeeps ==
    ASSUME NEW S, NEW p \in Seq(S), NEW b \in Seq(S)
    PROVE  /\ InsertAtStop(p, b) \in Seq(S)
           /\ Len(InsertAtStop(p, b)) = Len(p) + Len(b)
           /\ \A i \in 1..(FirstStop(p) - 1) : InsertAtStop(p, b)[i] = p[i]
           /\ \A i \in 1..Len(b) : InsertAtStop(p, b)[FirstStop(p) - 1 + i] = b[i]
           /\ \A i \in FirstStop(p)..Len(p) : InsertAtStop(p, b)[Len(b) + i] = p[i]
<1> DEFINE n == FirstStop(p)
           A == SubSeq(p, 1, n - 1)
           C == SubSeq(p, n, Len(p))
           G == InsertAtStop(p, b)
<1>1. n \in Nat /\ n >= 1 /\ n <= Len(p) + 1 /\ Len(p) \in Nat /\ Len(b) \in Nat
  BY FirstStopExists
<1>2. G = (A \o b) \o C
  BY DEF InsertAtStop
<1> HIDE DEF n, G
<1>3. /\ \A i \in 1..(n - 1) : p[i] \in S
      /\ \A i \in n..Len(p) : p[i] \in S
  BY <1>1
<1>4. /\ A \in Seq(S) /\ Len(A) = n - 1
      /\ \A i \in 1..(n - 1) : A[i] = p[i]
  <2>1. 1 \in Int /\ n - 1 \in Int /\ Len(A) = IF 1 <= n - 1 THEN n - 1 - 1 + 1 ELSE 0
    BY <1>1, <1>3, SubSeqProperties
  <2>2. A \in Seq(S) /\ \A i \in 1..(n - 1 - 1 + 1) : A[i] = p[1 + i - 1]
    BY <1>1, <1>3, SubSeqProperties
  <2> HIDE DEF A
  <2> QED
    BY <1>1, <2>1, <2>2
<1>5. /\ C \in Seq(S) /\ Len(C) = Len(p) - n + 1
      /\ \A i \in n..Len(p) : C[i - n + 1] = p[i]
  <2>1. Len(C) = IF n <= Len(p) THEN Len(p) - n + 1 ELSE 0
    BY <1>1, <1>3, SubSeqProperties
  <2>2. C \in Seq(S) /\ \A j \in 1..(Len(p) - n + 1) : C[j] = p[n + j - 1]
    BY <1>1, <1>3, SubSeqProperties
  <2> HIDE DEF C
  <2>3. ASSUME NEW i \in n..Len(p) PROVE C[i - n + 1] = p[i]
    <3>1. i - n + 1 \in 1..(Len(p) - n + 1) /\ n + (i - n + 1) - 1 = i
      BY <1>1
    <3> QED
      BY <2>2, <3>1
  <2> QED
    BY <1>1, <2>1, <2>2, <2>3
<1> HIDE DEF A, C
<1>6. /\ A \o b \in Seq(S) /\ Len(A \o b) = (n - 1) + Len(b)
      /\ \A i \in 1..(n - 1) : (A \o b)[i] = p[i]
      /\ \A i \in 1..Len(b) : (A \o b)[n - 1 + i] = b[i]
  <2>1. /\ A \o b \in Seq(S) /\ Len(A \o b) = Len(A) + Len(b)
        /\ \A i \in 1..Len(A) : (A \o b)[i] = A[i]
        /\ \A i \in 1..Len(b) : (A \o b)[Len(A) + i] = b[i]
    <3>1. A \in Seq(S) /\ b \in Seq(S)
      BY <1>4
    <3> QED
      BY ONLY <3>1, Concatenation
  <2> QED
    BY <1>4, <2>1
<1> DEFINE AB == A \o b
<1>7. /\ G \in Seq(S) /\ Len(G) = Len(AB) + Len(C)
      /\ \A i \in 1..Len(AB) : G[i] = AB[i]
      /\ \A i \in 1..Len(C) : G[Len(AB) + i] = C[i]
  <2>1. AB \in Seq(S) /\ C \in Seq(S) /\ G = AB \o C
    BY <1>2, <1>5, <1>6
  <2> HIDE DEF AB
  <2>2. /\ AB \o C \in Seq(S) /\ Len(AB \o C) = Len(AB) + Len(C)
        /\ \A i \in 1..Len(AB) : (AB \o C)[i] = AB[i]
        /\ \A i \in 1..Len(C) : (AB \o C)[Len(AB) + i] = C[i]
    <3>1. AB \in Seq(S) /\ C \in Seq(S)
      BY <2>1
    <3> QED
      BY ONLY <3>1, Concatenation
  <2> QED
    BY <2>1, <2>2
<1> HIDE DEF AB
<1>8. ASSUME NEW i \in 1..(n - 1) PROVE G[i] = p[i]
  <2>1. i \in 1..Len(AB)
    BY <1>1, <1>6 DEF AB
  <2>2. G[i] = AB[i] /\ AB[i] = p[i]
    BY <1>6, <1>7, <2>1 DEF AB
  <2> QED
    BY <2>2
<1>9. ASSUME NEW i \in 1..Len(b) PROVE G[n - 1 + i] = b[i]
  <2>1. n - 1 + i \in 1..Len(AB)
    BY <1>1, <1>6 DEF AB
  <2>2. G[n - 1 + i] = AB[n - 1 + i]
    BY <1>7, <2>1
  <2>3. AB[n - 1 + i] = b[i]
    BY <1>6 DEF AB
  <2> QED
    BY <2>2, <2>3
<1>10. ASSUME NEW i \in n..Len(p) PROVE G[Len(b) + i] = p[i]
  <2>1. i - n + 1 \in 1..Len(C) /\ Len(AB) + (i - n + 1) = Len(b) + i
    BY <1>1, <1>5, <1>6 DEF AB
  <2>2. G[Len(AB) + (i - n + 1)] = C[i - n + 1]
    BY <1>7, <2>1
  <2> QED
    BY <1>5, <2>1, <2>2
<1>11. Len(G) = Len(p) + Len(b)
  BY <1>1, <1>5, <1>6, <1>7 DEF AB
<1> QED
  BY <1>7, <1>8, <1>9, <1>10, <1>11 DEF n, G

(* What is injected, and when. *)
LEMMA InjectedSteps ==
    ASSUME NEW p
    PROVE  /\ Injected(p) \in Seq({Stop, Verify, RecordEvidence})
           /\ ~Has(p, "stop") => \E k \in 1..Len(Injected(p)) : Injected(p)[k] = Stop
           /\ ~Has(p, "verify") => \E k \in 1..Len(Injected(p)) : Injected(p)[k] = Verify
           /\ Concealing(p) =>
                 \E k \in 1..Len(Injected(p)) : Injected(p)[k] = RecordEvidence
<1> DEFINE T == {Stop, Verify, RecordEvidence}
<1>1. ASSUME NEW c, NEW step \in T
      PROVE  /\ OneIf(c, step) \in Seq(T)
             /\ Len(OneIf(c, step)) = IF c THEN 1 ELSE 0
             /\ c => OneIf(c, step)[1] = step
  <2>1. CASE c
    BY <2>1 DEF OneIf
  <2>2. CASE ~c
    BY <2>2 DEF OneIf
  <2> QED
    BY <2>1, <2>2
<1> DEFINE U == OneIf(~Has(p, "stop"), Stop)
           V == OneIf(~Has(p, "verify"), Verify)
           W == OneIf(Concealing(p), RecordEvidence)
<1>2. Injected(p) = (U \o V) \o W
  BY DEF Injected
<1>3. /\ Stop \in T /\ Verify \in T /\ RecordEvidence \in T
  OBVIOUS
<1> HIDE DEF T
<1>4. /\ U \in Seq(T)
      /\ ~Has(p, "stop") => Len(U) = 1 /\ U[1] = Stop
  BY <1>1, <1>3
<1>5. /\ V \in Seq(T)
      /\ ~Has(p, "verify") => Len(V) = 1 /\ V[1] = Verify
  BY <1>1, <1>3
<1>6. /\ W \in Seq(T)
      /\ Concealing(p) => Len(W) = 1 /\ W[1] = RecordEvidence
  BY <1>1, <1>3
<1> HIDE DEF U, V, W
<1>7. /\ U \o V \in Seq(T) /\ Len(U \o V) = Len(U) + Len(V)
      /\ Len(U) \in Nat /\ Len(V) \in Nat
      /\ \A i \in 1..Len(U) : (U \o V)[i] = U[i]
      /\ \A i \in 1..Len(V) : (U \o V)[Len(U) + i] = V[i]
  BY <1>4, <1>5, Concatenation
<1> DEFINE UV == U \o V
           I == Injected(p)
<1>8. /\ I \in Seq(T) /\ Len(I) = Len(UV) + Len(W)
      /\ Len(UV) \in Nat /\ Len(W) \in Nat
      /\ \A i \in 1..Len(UV) : I[i] = UV[i]
      /\ \A i \in 1..Len(W) : I[Len(UV) + i] = W[i]
  BY <1>2, <1>6, <1>7, Concatenation
<1> HIDE DEF UV, I
<1>9. ASSUME ~Has(p, "stop") PROVE \E k \in 1..Len(I) : I[k] = Stop
  <2>1. Len(U) = 1 /\ U[1] = Stop
    BY <1>4, <1>9
  <2>2. 1 \in 1..Len(U) /\ 1 \in 1..Len(UV) /\ 1 \in 1..Len(I)
    BY <1>7, <1>8, <2>1 DEF UV
  <2>3. I[1] = UV[1] /\ UV[1] = U[1]
    BY <1>7, <1>8, <2>2 DEF UV
  <2> QED
    BY <2>1, <2>2, <2>3
<1>10. ASSUME ~Has(p, "verify") PROVE \E k \in 1..Len(I) : I[k] = Verify
  <2>1. Len(V) = 1 /\ V[1] = Verify
    BY <1>5, <1>10
  <2>2. 1 \in 1..Len(V) /\ Len(U) + 1 \in 1..Len(UV) /\ Len(U) + 1 \in 1..Len(I)
    BY <1>7, <1>8, <2>1 DEF UV
  <2>3. I[Len(U) + 1] = UV[Len(U) + 1] /\ UV[Len(U) + 1] = V[1]
    BY <1>7, <1>8, <2>2 DEF UV
  <2> QED
    BY <2>1, <2>2, <2>3
<1>11. ASSUME Concealing(p) PROVE \E k \in 1..Len(I) : I[k] = RecordEvidence
  <2>1. Len(W) = 1 /\ W[1] = RecordEvidence
    BY <1>6, <1>11
  <2>2. 1 \in 1..Len(W) /\ Len(UV) + 1 \in 1..Len(I)
    BY <1>8, <2>1
  <2> QED
    BY <1>8, <2>1, <2>2
<1> QED
  BY <1>8, <1>9, <1>10, <1>11 DEF T, I

(* A guarded plan is made of the steps of the plan and the injected ones,
   and of all of them. *)
LEMMA GuardedParts ==
    ASSUME NEW S, {Stop, Verify, RecordEvidence} \subseteq S, NEW p \in Seq(S)
    PROVE  /\ Guarded(p) \in Seq(S)
           /\ \A k \in DOMAIN p : \E i \in DOMAIN Guarded(p) : Guarded(p)[i] = p[k]
           /\ \A k \in 1..Len(Injected(p)) :
                 \E i \in DOMAIN Guarded(p) : Guarded(p)[i] = Injected(p)[k]
           /\ \A i \in DOMAIN Guarded(p) :
                 \/ \E k \in DOMAIN p : Guarded(p)[i] = p[k]
                 \/ Guarded(p)[i] \in {Stop, Verify, RecordEvidence}
<1> DEFINE b == Injected(p)
           n == FirstStop(p)
           G == Guarded(p)
           T == {Stop, Verify, RecordEvidence}
<1>1. b \in Seq(T) /\ Seq(T) \subseteq Seq(S)
  BY InjectedSteps
<1>2. n \in Nat /\ n >= 1 /\ n <= Len(p) + 1 /\ Len(p) \in Nat /\ Len(b) \in Nat
  BY <1>1, FirstStopExists
<1>3. G = InsertAtStop(p, b) /\ b \in Seq(S)
  BY <1>1 DEF Guarded
<1> HIDE DEF b, n, G, T
<1>4. /\ G \in Seq(S) /\ Len(G) = Len(p) + Len(b)
      /\ \A i \in 1..(n - 1) : G[i] = p[i]
      /\ \A i \in 1..Len(b) : G[n - 1 + i] = b[i]
      /\ \A i \in n..Len(p) : G[Len(b) + i] = p[i]
  <2>1. /\ InsertAtStop(p, b) \in Seq(S)
        /\ Len(InsertAtStop(p, b)) = Len(p) + Len(b)
        /\ \A i \in 1..(FirstStop(p) - 1) : InsertAtStop(p, b)[i] = p[i]
        /\ \A i \in 1..Len(b) : InsertAtStop(p, b)[FirstStop(p) - 1 + i] = b[i]
        /\ \A i \in FirstStop(p)..Len(p) : InsertAtStop(p, b)[Len(b) + i] = p[i]
    BY <1>3, InsertionKeeps
  <2> QED
    BY <1>3, <2>1 DEF n
<1>5. DOMAIN G = 1..(Len(p) + Len(b)) /\ DOMAIN p = 1..Len(p)
  BY <1>4
<1>6. ASSUME NEW k \in DOMAIN p PROVE \E i \in DOMAIN G : G[i] = p[k]
  <2>1. CASE k < n
    <3>1. k \in DOMAIN G /\ k \in 1..(n - 1)
      BY <1>2, <1>5, <2>1
    <3> QED
      BY <1>4, <3>1
  <2>2. CASE ~(k < n)
    <3>1. Len(b) + k \in DOMAIN G /\ k \in n..Len(p)
      BY <1>2, <1>5, <2>2
    <3> QED
      BY <1>4, <3>1
  <2> QED
    BY <2>1, <2>2
<1>7. ASSUME NEW k \in 1..Len(b) PROVE \E i \in DOMAIN G : G[i] = b[k]
  <2>1. n - 1 + k \in DOMAIN G
    BY <1>2, <1>5
  <2> QED
    BY <1>4, <2>1
<1>8. ASSUME NEW i \in DOMAIN G PROVE (\E k \in DOMAIN p : G[i] = p[k]) \/ G[i] \in T
  <2>1. CASE i < n
    <3>1. i \in 1..(n - 1) /\ i \in DOMAIN p
      BY <1>2, <1>5, <2>1
    <3> QED
      BY <1>4, <3>1
  <2>2. CASE n <= i /\ i < n + Len(b)
    <3>1. i - n + 1 \in 1..Len(b) /\ n - 1 + (i - n + 1) = i
      BY <1>2, <1>5, <2>2
    <3>2. G[i] = b[i - n + 1]
      BY <1>4, <3>1
    <3>3. b[i - n + 1] \in T
      BY <1>1, <3>1
    <3> QED
      BY <3>2, <3>3
  <2>3. CASE n + Len(b) <= i
    <3>1. i - Len(b) \in n..Len(p) /\ Len(b) + (i - Len(b)) = i /\ i - Len(b) \in DOMAIN p
      BY <1>2, <1>5, <2>3
    <3> QED
      BY <1>4, <3>1
  <2> QED
    BY <1>2, <1>5, <2>1, <2>2, <2>3
<1> QED
  BY <1>4, <1>6, <1>7, <1>8 DEF b, G, T

(* Behind the loyalty gate every plan, whoever made it, has a stop and a
   verification, and conceals no material step. *)
THEOREM MandatorySteps ==
    ASSUME NEW S, {Stop, Verify, RecordEvidence} \subseteq S, NEW p \in Seq(S)
    PROVE  /\ Has(Guarded(p), "stop") /\ Has(Guarded(p), "verify")
           /\ ~Concealing(Guarded(p))
<1> DEFINE G == Guarded(p)
           b == Injected(p)
<1>1. /\ \A k \in DOMAIN p : \E i \in DOMAIN G : G[i] = p[k]
      /\ \A k \in 1..Len(b) : \E i \in DOMAIN G : G[i] = b[k]
      /\ \A i \in DOMAIN G :
            (\E k \in DOMAIN p : G[i] = p[k]) \/ G[i] \in {Stop, Verify, RecordEvidence}
  BY GuardedParts
<1>2. /\ ~Has(p, "stop") => \E k \in 1..Len(b) : b[k] = Stop
      /\ ~Has(p, "verify") => \E k \in 1..Len(b) : b[k] = Verify
      /\ Concealing(p) => \E k \in 1..Len(b) : b[k] = RecordEvidence
  BY InjectedSteps
<1> HIDE DEF G, b
<1>3. /\ Stop.action = "stop" /\ Stop.tool \notin Material
      /\ Verify.action = "verify" /\ Verify.tool \notin Material
      /\ RecordEvidence.tool = "evidence.query" /\ RecordEvidence.tool \notin Material
  BY GatesAssumption DEF Stop, Verify, RecordEvidence, PlanStep, Material
<1>4. Has(G, "stop")
  <2>1. (\E k \in DOMAIN p : p[k].action = "stop") \/ \E k \in 1..Len(b) : b[k] = Stop
    BY <1>2 DEF Has
  <2>2. \E i \in DOMAIN G : G[i].action = "stop"
    BY <1>1, <1>3, <2>1
  <2> QED
    BY <2>2 DEF Has
<1>5. Has(G, "verify")
  <2>1. (\E k \in DOMAIN p : p[k].action = "verify") \/ \E k \in 1..Len(b) : b[k] = Verify
    BY <1>2 DEF Has
  <2>2. \E i \in DOMAIN G : G[i].action = "verify"
    BY <1>1, <1>3, <2>1
  <2> QED
    BY <2>2 DEF Has
<1>6. ASSUME Concealing(G) PROVE FALSE
  <2>1. ~Uses(p, "evidence.query")
    <3>1. ~\E i \in DOMAIN G : G[i].tool = "evidence.query"
      BY <1>6 DEF Concealing, Uses
    <3>2. ~\E k \in DOMAIN p : p[k].tool = "evidence.query"
      BY <1>1, <3>1
    <3> QED
      BY <3>2 DEF Uses
  <2>2. PICK m \in DOMAIN G : G[m].tool \in Material
    BY <1>6 DEF Concealing
  <2>3. \E k \in DOMAIN p : p[k].tool \in Material
    BY <1>1, <1>3, <2>2
  <2>4. Concealing(p)
    BY <2>1, <2>3 DEF Concealing
  <2>5. Uses(G, "evidence.query")
    <3>1. \E k \in 1..Len(b) : b[k] = RecordEvidence
      BY <1>2, <2>4
    <3>2. \E i \in DOMAIN G : G[i].tool = "evidence.query"
      BY <1>1, <1>3, <3>1
    <3> QED
      BY <3>2 DEF Uses
  <2> QED
    BY <1>6, <2>5 DEF Concealing
<1> QED
  BY <1>4, <1>5, <1>6 DEF G

-----------------------------------------------------------------------------
USE LoyalToolsAssumption, LoyalVerdictsAssumption, LoyalPlansAssumption,
    LoyalLimitsAssumption, PlanningAssumption

-----------------------------------------------------------------------------
(* The plans the run carries out.                                            *)

(* What the loyalty gate makes of a plan of steps is one, and discloses. *)
LEMMA GuardedPlan ==
    ASSUME NEW p \in Seq(Step)
    PROVE  /\ Guarded(p) \in Seq(Step)
           /\ Has(Guarded(p), "stop") /\ Has(Guarded(p), "verify")
           /\ ~Concealing(Guarded(p))
<1>1. {Stop, Verify, RecordEvidence} \subseteq Step
  BY DEF Stop, Verify, RecordEvidence, PlanStep, Step, Actions, ToolActions
<1> QED
  BY <1>1, GuardedParts, MandatorySteps

-----------------------------------------------------------------------------
(* The inductive invariant.                                                  *)

Running == {"loop", "permit", "execute", "tool", "observe"}

ControlInv ==
    /\ pc \in {"idle", "plan"} => plan = <<>>
    /\ pc \in {"idle", "plan", "gates"} =>
          at = 1 /\ failures = 0 /\ lowered = 0 /\ started = {} /\ ledger = "none"
    /\ pc = "idle" => state = "CREATED"
    /\ pc \in {"plan", "gates"} => state = "PLANNING"
    /\ pc = "violation" =>
          /\ lowered > 0
          /\ \/ state = "PLANNING" /\ goal \in Exclusive /\ started = {} /\ failures = 0
             \/ state = "VERIFYING" /\ goal \notin Exclusive /\ at <= Len(plan)
    /\ pc \in Running => state = "RUNNING"
    /\ pc = "judge" => state = "VERIFYING"
    /\ pc \in Running \cup {"judge"} => goal \notin Exclusive
    /\ pc \in {"permit", "execute", "tool", "observe", "judge"} => at <= Len(plan)
    /\ pc = "permit" => Current.tool \in Tools
    /\ pc = "finish" =>
          /\ state \in {"RUNNING", "VERIFYING"}
          /\ verdict \in {"COMPLETED", "FAILED", "TIMED_OUT"}
    /\ pc \in {"reflect", "record", "returned"} =>
          verdict = state /\ state \in {"COMPLETED", "FAILED", "TIMED_OUT"}
    /\ stored = IF pc = "returned" THEN 1 ELSE 0
    /\ pc # "returned" => ledger # "run"

OrderInv ==
    /\ \A k \in started : k <= at
    /\ pc \in {"loop", "permit", "execute"} => \A k \in started : k < at
    /\ pc = "execute" => at \notin Needing

BudgetInv ==
    /\ TrustIsContingent
    /\ goal \in Exclusive => lowered <= 1 /\ started = {}
    /\ pc \notin {"finish", "reflect", "record", "returned"} => failures <= MaxFailures
    /\ IsFiniteSet(started) /\ Cardinality(started) <= calls
    /\ pc \in {"permit", "execute"} /\ Current.tool # NoTool =>
          Cardinality(started) < calls

IndInv ==
    /\ TypeOK
    /\ ControlInv /\ RaisedOnlyForHuman
    /\ OrderInv
    /\ BudgetInv

(* The initial state satisfies the invariant. *)
LEMMA InitIndInv == Init => IndInv
<1> SUFFICES ASSUME Init PROVE IndInv
  OBVIOUS
<1>1. IsFiniteSet(started) /\ Cardinality(started) = 0
  BY FS_EmptySet DEF Init
<1>2. TypeOK
  <2>1. plan \in Seq(Step) /\ Len(plan) = 0 /\ at \in Nat \ {0} /\ at <= Len(plan) + 1
    BY DEF Init
  <2>2. out \in Result
    BY DEF Init, Result, Unjudged, Judgements
  <2>3. /\ steps \in 0..MaxSteps /\ calls \in 0..MaxToolCalls
        /\ failures \in 0..(MaxFailures + 1) /\ lowered \in 0..(MaxFailures + 1)
        /\ stored \in 0..1
    BY DEF Init
  <2>4. /\ goal \in Goals /\ state \in States /\ pc \in PCs /\ late \in BOOLEAN
        /\ align \in {"low", "mid", "high"} /\ verdict \in {"none"} \cup Terminal
        /\ ledger \in {"none", "violation", "run"} /\ started \in SUBSET DOMAIN plan
    BY DEF Init, States, PCs, Terminal
  <2> QED
    BY <2>1, <2>2, <2>3, <2>4 DEF TypeOK
<1>3. ControlInv /\ RaisedOnlyForHuman
  BY DEF Init, ControlInv, Running, RaisedOnlyForHuman
<1>4. OrderInv
  BY DEF Init, OrderInv
<1>5. BudgetInv
  BY <1>1 DEF Init, BudgetInv, TrustIsContingent
<1> QED
  BY <1>2, <1>3, <1>4, <1>5 DEF IndInv

(* The step a run works on is a step of its plan. *)
LEMMA CurrentIsStep ==
    ASSUME TypeOK, at <= Len(plan)
    PROVE  Current \in Step /\ Current.tool \in Tools \cup {NoTool}
<1>1. Current \in Step
  BY DEF TypeOK, Current
<1> QED
  BY <1>1 DEF Step

(* The results of a step have their type. *)
LEMMA ResultType ==
    /\ \A s \in {"OK", "FAILED", "DENIED", "TIMED_OUT"} : Unjudged(s) \in Result
    /\ \A step : Judgement(step) \subseteq Judgements
<1>1. \A s \in {"OK", "FAILED", "DENIED", "TIMED_OUT"} : Unjudged(s) \in Result
  BY DEF Unjudged, Result, Judgements
<1>2. \A step, output : Honesty(step, output) \in Judgements
  BY DEF Honesty, Judgements, Else, Provenance, Fabrication, Citations, Uncertainty, Ego
<1> QED
  BY <1>1, <1>2 DEF Judgement

(* Types and limits are kept, whatever is injected into the plan. *)
LEMMA NextType ==
    ASSUME IndInv, [Next]_vars
    PROVE  TypeOK'
<1> USE DEF IndInv, TypeOK, ControlInv, BudgetInv, Running, States, PCs, Terminal,
            TransitionThen, Refuse, Leave, CountFailure, Reject, counters, traces
<1>1. CASE Start
  BY <1>1 DEF Start
<1>2. CASE MakePlan
  <2>1. plan' \in Seq(Step)
    BY <1>2, GuardedPlan DEF MakePlan
  <2>2. at' = 1 /\ started' = {} /\ Len(plan') \in Nat
    BY <1>2, <2>1 DEF MakePlan
  <2> QED
    BY <1>2, <2>1, <2>2 DEF MakePlan
<1>3. CASE Tick
  BY <1>3 DEF Tick
<1>4. CASE LoyaltyRejects
  BY <1>4 DEF LoyaltyRejects
<1>5. CASE PluralismRejects
  BY <1>5 DEF PluralismRejects
<1>6. CASE DevotionRejects
  BY <1>6 DEF DevotionRejects
<1>7. CASE Admit
  BY <1>7 DEF Admit
<1>8. CASE LeaveLoop
  BY <1>8 DEF LeaveLoop
<1>9. CASE TakeStep
  BY <1>9 DEF TakeStep
<1>10. CASE PermitDenies
  BY <1>10 DEF PermitDenies
<1>11. CASE PermitApproves
  BY <1>11 DEF PermitApproves
<1>12. CASE PermitNeedsHuman
  BY <1>12 DEF PermitNeedsHuman
<1>13. CASE StepWithoutEffect
  <2>1. out' \in Result
    BY <1>13, ResultType DEF StepWithoutEffect
  <2> QED
    BY <1>13, <2>1 DEF StepWithoutEffect
<1>14. CASE StartTool
  <2>1. at \in DOMAIN plan
    BY <1>14 DEF StartTool
  <2> QED
    BY <1>14, <2>1 DEF StartTool
<1>15. CASE ToolReturns
  <2>1. out' \in Result
    <3>1. CASE \E j \in Judgement(Current) : out' = [status |-> "OK", judged |-> j]
      BY <3>1, ResultType DEF Result
    <3>2. CASE \E s \in {"FAILED", "DENIED"} : out' = Unjudged(s)
      BY <3>2, ResultType
    <3> QED
      BY <1>15, <3>1, <3>2 DEF ToolReturns
  <2> QED
    BY <1>15, <2>1 DEF ToolReturns
<1>16. CASE ToolTimesOut
  <2>1. out' \in Result
    BY <1>16, ResultType DEF ToolTimesOut
  <2> QED
    BY <1>16, <2>1 DEF ToolTimesOut
<1>17. CASE ObserveFailure
  BY <1>17 DEF ObserveFailure
<1>18. CASE ObserveSuccess
  BY <1>18 DEF ObserveSuccess
<1>19. CASE JudgedHonest
  BY <1>19 DEF JudgedHonest
<1>20. CASE JudgedDishonest
  BY <1>20 DEF JudgedDishonest
<1>21. CASE JudgedEgo
  <2>1. lowered <= failures
    BY <1>21 DEF JudgedEgo, TrustIsContingent
  <2> QED
    BY <1>21, <2>1 DEF JudgedEgo
<1>22. CASE RecordViolation
  BY <1>22 DEF RecordViolation
<1>23. CASE ViolationUnrecorded
  BY <1>23 DEF ViolationUnrecorded
<1>24. CASE Finish
  BY <1>24 DEF Finish
<1>25. CASE Reflect
  BY <1>25 DEF Reflect
<1>26. CASE RecordRun
  BY <1>26 DEF RecordRun
<1>27. CASE UNCHANGED vars
  BY <1>27 DEF vars
<1> QED
  BY <1>1, <1>2, <1>3, <1>4, <1>5, <1>6, <1>7, <1>8, <1>9, <1>10, <1>11, <1>12, <1>13,
     <1>14, <1>15, <1>16, <1>17, <1>18, <1>19, <1>20, <1>21, <1>22, <1>23, <1>24, <1>25, <1>26,
     <1>27 DEF Next, Proceed, Gate, Permit, Judge

(* Every move of the run is in the table, but for the one to DENIED, and
   what the run leaves behind is left behind at its end. *)
LEMMA NextControl ==
    ASSUME IndInv, [Next]_vars
    PROVE  (ControlInv /\ RaisedOnlyForHuman)'
<1> USE DEF IndInv, TypeOK, ControlInv, RaisedOnlyForHuman, Running, States, PCs, Terminal,
            TransitionThen, Transitions, Refuse, Leave, CountFailure, Reject, counters,
            traces, Current, Ended
<1>1. CASE Start
  BY <1>1 DEF Start
<1>2. CASE MakePlan
  BY <1>2 DEF MakePlan
<1>3. CASE Tick
  BY <1>3 DEF Tick
<1>4. CASE LoyaltyRejects
  BY <1>4 DEF LoyaltyRejects
<1>5. CASE PluralismRejects
  BY <1>5 DEF PluralismRejects
<1>6. CASE DevotionRejects
  BY <1>6 DEF DevotionRejects
<1>7. CASE Admit
  BY <1>7 DEF Admit
<1>8. CASE LeaveLoop
  BY <1>8 DEF LeaveLoop
<1>9. CASE TakeStep
  <2>1. Current.tool # NoTool => Current.tool \in Tools
    BY <1>9, CurrentIsStep DEF TakeStep
  <2> QED
    BY <1>9, <2>1 DEF TakeStep
<1>10. CASE PermitDenies
  BY <1>10 DEF PermitDenies
<1>11. CASE PermitApproves
  BY <1>11 DEF PermitApproves
<1>12. CASE PermitNeedsHuman
  <2>1. at \in Needing
    BY <1>12 DEF PermitNeedsHuman, Needing, NeedsApproval
  <2>2. Needing' = Needing
    BY <1>12 DEF PermitNeedsHuman, Needing, NeedsApproval
  <2> QED
    BY <1>12, <2>1, <2>2 DEF PermitNeedsHuman
<1>13. CASE StepWithoutEffect
  BY <1>13 DEF StepWithoutEffect
<1>14. CASE StartTool
  BY <1>14 DEF StartTool
<1>15. CASE ToolReturns
  BY <1>15 DEF ToolReturns
<1>16. CASE ToolTimesOut
  BY <1>16 DEF ToolTimesOut
<1>17. CASE ObserveFailure
  BY <1>17 DEF ObserveFailure
<1>18. CASE ObserveSuccess
  BY <1>18 DEF ObserveSuccess
<1>19. CASE JudgedHonest
  BY <1>19 DEF JudgedHonest
<1>20. CASE JudgedDishonest
  BY <1>20 DEF JudgedDishonest
<1>21. CASE JudgedEgo
  BY <1>21 DEF JudgedEgo
<1>22. CASE RecordViolation
  BY <1>22 DEF RecordViolation
<1>23. CASE ViolationUnrecorded
  BY <1>23 DEF ViolationUnrecorded
<1>24. CASE Finish
  BY <1>24 DEF Finish
<1>25. CASE Reflect
  BY <1>25 DEF Reflect
<1>26. CASE RecordRun
  BY <1>26 DEF RecordRun
<1>27. CASE UNCHANGED vars
  BY <1>27 DEF vars, Needing, NeedsApproval
<1> QED
  BY <1>1, <1>2, <1>3, <1>4, <1>5, <1>6, <1>7, <1>8, <1>9, <1>10, <1>11, <1>12, <1>13,
     <1>14, <1>15, <1>16, <1>17, <1>18, <1>19, <1>20, <1>21, <1>22, <1>23, <1>24, <1>25, <1>26,
     <1>27 DEF Next, Proceed, Gate, Permit, Judge

(* Tools start in plan order, and only in a devoted plan without consent. *)
LEMMA NextOrder ==
    ASSUME IndInv, [Next]_vars
    PROVE  OrderInv'
<1> USE DEF IndInv, TypeOK, ControlInv, OrderInv, Running, TransitionThen, Transitions,
            Refuse, Leave, CountFailure, Reject, counters, traces, Current, Needing,
            NeedsApproval
<1>1. CASE Start
  BY <1>1 DEF Start
<1>2. CASE MakePlan
  BY <1>2 DEF MakePlan
<1>3. CASE Tick
  BY <1>3 DEF Tick
<1>4. CASE LoyaltyRejects
  BY <1>4 DEF LoyaltyRejects
<1>5. CASE PluralismRejects
  BY <1>5 DEF PluralismRejects
<1>6. CASE DevotionRejects
  BY <1>6 DEF DevotionRejects
<1>7. CASE Admit
  BY <1>7 DEF Admit
<1>8. CASE LeaveLoop
  BY <1>8 DEF LeaveLoop
<1>9. CASE TakeStep
  BY <1>9 DEF TakeStep
<1>10. CASE PermitDenies
  BY <1>10 DEF PermitDenies
<1>11. CASE PermitApproves
  BY <1>11 DEF PermitApproves
<1>12. CASE PermitNeedsHuman
  BY <1>12 DEF PermitNeedsHuman
<1>13. CASE StepWithoutEffect
  BY <1>13 DEF StepWithoutEffect
<1>14. CASE StartTool
  BY <1>14 DEF StartTool
<1>15. CASE ToolReturns
  BY <1>15 DEF ToolReturns
<1>16. CASE ToolTimesOut
  BY <1>16 DEF ToolTimesOut
<1>17. CASE ObserveFailure
  BY <1>17 DEF ObserveFailure
<1>18. CASE ObserveSuccess
  BY <1>18 DEF ObserveSuccess
<1>19. CASE JudgedHonest
  BY <1>19 DEF JudgedHonest
<1>20. CASE JudgedDishonest
  BY <1>20 DEF JudgedDishonest
<1>21. CASE JudgedEgo
  BY <1>21 DEF JudgedEgo
<1>22. CASE RecordViolation
  BY <1>22 DEF RecordViolation
<1>23. CASE ViolationUnrecorded
  BY <1>23 DEF ViolationUnrecorded
<1>24. CASE Finish
  BY <1>24 DEF Finish
<1>25. CASE Reflect
  BY <1>25 DEF Reflect
<1>26. CASE RecordRun
  BY <1>26 DEF RecordRun
<1>27. CASE UNCHANGED vars
  BY <1>27 DEF vars
<1> QED
  BY <1>1, <1>2, <1>3, <1>4, <1>5, <1>6, <1>7, <1>8, <1>9, <1>10, <1>11, <1>12, <1>13,
     <1>14, <1>15, <1>16, <1>17, <1>18, <1>19, <1>20, <1>21, <1>22, <1>23, <1>24, <1>25, <1>26,
     <1>27 DEF Next, Proceed, Gate, Permit, Judge

(* A call is counted before the tool starts, a failure before the run goes
   on, and the trust is lowered at most once for each. *)
LEMMA NextBudget ==
    ASSUME IndInv, [Next]_vars
    PROVE  BudgetInv'
<1> USE DEF IndInv, TypeOK, ControlInv, OrderInv, BudgetInv, TrustIsContingent, Running,
            TransitionThen, Refuse, Leave, CountFailure, Reject, counters, traces, Current
<1>1. CASE Start
  BY <1>1 DEF Start
<1>2. CASE MakePlan
  BY <1>2 DEF MakePlan
<1>3. CASE Tick
  BY <1>3 DEF Tick
<1>4. CASE LoyaltyRejects
  BY <1>4 DEF LoyaltyRejects
<1>5. CASE PluralismRejects
  BY <1>5 DEF PluralismRejects
<1>6. CASE DevotionRejects
  BY <1>6 DEF DevotionRejects
<1>7. CASE Admit
  BY <1>7 DEF Admit
<1>8. CASE LeaveLoop
  BY <1>8 DEF LeaveLoop
<1>9. CASE TakeStep
  <2>1. Cardinality(started) \in Nat
    BY FS_CardinalityType
  <2>2. calls' \in {calls, calls + 1} /\ goal \notin Exclusive
    BY <1>9 DEF TakeStep
  <2>3. pc' \in {"permit", "execute"} /\ Current'.tool # NoTool => calls' = calls + 1
    BY <1>9 DEF TakeStep
  <2> QED
    BY <1>9, <2>1, <2>2, <2>3 DEF TakeStep
<1>10. CASE PermitDenies
  BY <1>10 DEF PermitDenies
<1>11. CASE PermitApproves
  BY <1>11 DEF PermitApproves
<1>12. CASE PermitNeedsHuman
  BY <1>12 DEF PermitNeedsHuman
<1>13. CASE StepWithoutEffect
  BY <1>13 DEF StepWithoutEffect
<1>14. CASE StartTool
  <2>1. at \notin started
    BY <1>14 DEF StartTool
  <2>2. IsFiniteSet(started') /\ Cardinality(started') = Cardinality(started) + 1
    BY <1>14, <2>1, FS_AddElement DEF StartTool
  <2>3. Current.tool # NoTool
    BY <1>14 DEF StartTool
  <2>4. Cardinality(started) < calls /\ Cardinality(started) \in Nat
    BY <1>14, <2>3, FS_CardinalityType DEF StartTool
  <2> QED
    BY <1>14, <2>2, <2>4 DEF StartTool
<1>15. CASE ToolReturns
  BY <1>15 DEF ToolReturns
<1>16. CASE ToolTimesOut
  BY <1>16 DEF ToolTimesOut
<1>17. CASE ObserveFailure
  BY <1>17 DEF ObserveFailure
<1>18. CASE ObserveSuccess
  BY <1>18 DEF ObserveSuccess
<1>19. CASE JudgedHonest
  BY <1>19 DEF JudgedHonest
<1>20. CASE JudgedDishonest
  BY <1>20 DEF JudgedDishonest
<1>21. CASE JudgedEgo
  BY <1>21 DEF JudgedEgo
<1>22. CASE RecordViolation
  BY <1>22 DEF RecordViolation
<1>23. CASE ViolationUnrecorded
  BY <1>23 DEF ViolationUnrecorded
<1>24. CASE Finish
  BY <1>24 DEF Finish, Transitions
<1>25. CASE Reflect
  BY <1>25 DEF Reflect
<1>26. CASE RecordRun
  BY <1>26 DEF RecordRun
<1>27. CASE UNCHANGED vars
  BY <1>27 DEF vars
<1> QED
  BY <1>1, <1>2, <1>3, <1>4, <1>5, <1>6, <1>7, <1>8, <1>9, <1>10, <1>11, <1>12, <1>13,
     <1>14, <1>15, <1>16, <1>17, <1>18, <1>19, <1>20, <1>21, <1>22, <1>23, <1>24, <1>25, <1>26,
     <1>27 DEF Next, Proceed, Gate, Permit, Judge

(* The invariant holds throughout. *)
THEOREM LoyalInvariance == Spec => []IndInv
<1>1. IndInv /\ [Next]_vars => IndInv'
  BY NextType, NextControl, NextOrder, NextBudget DEF IndInv
<1> QED
  BY InitIndInv, <1>1, PTL DEF Spec

(* Types and limits hold however many steps the gate injects. *)
THEOREM LoyalTypeCorrect == Spec => []TypeOK
BY LoyalInvariance, PTL DEF IndInv

(* An exception leaves run() only where a human was needed, or where a
   violation could not be recorded. *)
THEOREM LoyalRaiseSafety == Spec => []RaisedOnlyForHuman
BY LoyalInvariance, PTL DEF IndInv

(* A run that returns reports its state and leaves one experience; one that
   raises leaves neither experience nor record. *)
THEOREM LoyalMemory == Spec => []ReturnedRunIsRemembered
<1>1. IndInv => ReturnedRunIsRemembered
  BY DEF IndInv, ControlInv, ReturnedRunIsRemembered
<1> QED
  BY LoyalInvariance, <1>1, PTL

(* Trust is lowered for what it is contingent on, and no more often. *)
THEOREM LoyalTrust == Spec => []TrustIsContingent
BY LoyalInvariance, PTL DEF IndInv, BudgetInv

-----------------------------------------------------------------------------
(* The run keeps the promise of GatedRun, with no operator in it.            *)

(* The steps that start nothing and do not settle the plan. *)
LEMMA QuietStep ==
    ASSUME started' = started, Committed' = Committed, Phase' \in {Phase, "over"}
    PROVE  [Promise!Next]_(Promise!vars)
<1>1. CASE Phase' = Phase
  BY <1>1 DEF Promise!vars
<1>2. CASE Phase' = "over"
  BY <1>2 DEF Promise!Next, Promise!End
<1> QED
  BY <1>1, <1>2

(* What needs consent depends on the plan, its alignment and on whether the
   plan is settled. *)
LEMMA CommittedFixed ==
    ASSUME plan' = plan, align' = align,
           state' \in {"CREATED", "PLANNING"} <=> state \in {"CREATED", "PLANNING"}
    PROVE  Committed' = Committed
BY DEF Committed, Needing, NeedsApproval

(* A step that settles the plan, by admitting or refusing it. *)
LEMMA SettlingStep ==
    ASSUME TypeOK, TypeOK', state = "PLANNING", started = {}, started' = {},
           Phase = "open", Phase' = "open"
    PROVE  [Promise!Next]_(Promise!vars)
<1>1. Committed = {}
  BY DEF Committed
<1>2. Committed' \in SUBSET Nat
  <2>1. DOMAIN plan' \in SUBSET Nat
    BY DEF TypeOK
  <2> QED
    BY <2>1 DEF Committed, Needing
<1> QED
  BY <1>1, <1>2 DEF Promise!Next, Promise!Commit

(* Every step of the run is a step of the promise or invisible there. *)
LEMMA Simulation ==
    ASSUME IndInv, IndInv', [Next]_vars
    PROVE  [Promise!Next]_(Promise!vars)
<1> USE DEF IndInv
<1>1. CASE Start
  <2>1. Committed = {} /\ Committed' = {}
    BY <1>1 DEF Start, TransitionThen, Transitions, Committed, ControlInv
  <2> QED
    BY <1>1, <2>1, QuietStep DEF Start, TransitionThen, Phase, Ended
<1>2. CASE MakePlan
  BY <1>2, SettlingStep
     DEF MakePlan, Refuse, TransitionThen, Transitions, Phase, Ended, ControlInv
<1>3. CASE LoyaltyRejects \/ DevotionRejects \/ Admit
  BY <1>3, SettlingStep
     DEF LoyaltyRejects, DevotionRejects, Admit, Refuse, TransitionThen, Transitions, Phase,
         Ended, ControlInv
<1>4. CASE PluralismRejects \/ Tick
  BY <1>4, QuietStep, CommittedFixed DEF PluralismRejects, Tick, Phase, Ended
<1>5. CASE LeaveLoop \/ TakeStep
  BY <1>5, QuietStep, CommittedFixed DEF LeaveLoop, TakeStep, Leave, Phase, Ended
<1>6. CASE PermitDenies \/ PermitApproves \/ PermitNeedsHuman
  <2>1. state' = state
    BY <1>6 DEF PermitDenies, PermitApproves, PermitNeedsHuman, TransitionThen, Transitions,
                ControlInv, Running
  <2> QED
    BY <1>6, <2>1, QuietStep, CommittedFixed
       DEF PermitDenies, PermitApproves, PermitNeedsHuman, TransitionThen, CountFailure, Leave,
           Phase, Ended
<1>7. CASE StepWithoutEffect \/ ToolReturns \/ ToolTimesOut
  BY <1>7, QuietStep, CommittedFixed
     DEF StepWithoutEffect, ToolReturns, ToolTimesOut, Phase, Ended
<1>8. CASE StartTool
  <2>1. Phase = "open" /\ Phase' = "open" /\ Committed' = Committed
    BY <1>8, CommittedFixed DEF StartTool, Phase, Ended
  <2>2. at \in Nat /\ started' = started \cup {at} /\ \A e \in started : e < at
    BY <1>8 DEF StartTool, TypeOK, OrderInv
  <2>3. at \notin Committed
    BY <1>8 DEF StartTool, OrderInv, Committed
  <2>4. Cardinality(started) < MaxToolCalls
    <3>1. Current.tool # NoTool
      BY <1>8 DEF StartTool
    <3>2. IsFiniteSet(started) /\ Cardinality(started) < calls
      BY <1>8, <3>1 DEF StartTool, BudgetInv
    <3>3. Cardinality(started) \in Nat
      BY <3>2, FS_CardinalityType
    <3>4. calls \in 0..MaxToolCalls /\ MaxToolCalls \in Nat
      BY DEF TypeOK
    <3> QED
      BY <3>2, <3>3, <3>4
  <2>5. Promise!Cardinality(started) = Cardinality(started)
    BY DEF Cardinality, Promise!Cardinality
  <2> QED
    BY <2>1, <2>2, <2>3, <2>4, <2>5 DEF Promise!Next, Promise!Perform
<1>9. CASE ObserveFailure \/ ObserveSuccess
  <2>1. state' \notin {"CREATED", "PLANNING"} /\ state \notin {"CREATED", "PLANNING"}
    BY <1>9 DEF ObserveFailure, ObserveSuccess, TransitionThen, ControlInv, Running
  <2> QED
    BY <1>9, <2>1, QuietStep, CommittedFixed
       DEF ObserveFailure, ObserveSuccess, CountFailure, Leave, TransitionThen, Phase, Ended
<1>10. CASE JudgedHonest \/ JudgedDishonest \/ JudgedEgo
  <2>1. state' \notin {"CREATED", "PLANNING"} /\ state \notin {"CREATED", "PLANNING"}
    BY <1>10 DEF JudgedHonest, JudgedDishonest, JudgedEgo, Reject, TransitionThen, ControlInv
  <2> QED
    BY <1>10, <2>1, QuietStep, CommittedFixed
       DEF JudgedHonest, JudgedDishonest, JudgedEgo, Reject, Leave, TransitionThen, Phase,
           Ended
<1>11. CASE RecordViolation
  <2>1. CASE state = "PLANNING"
    BY <1>11, <2>1, SettlingStep
       DEF RecordViolation, Refuse, TransitionThen, Transitions, Phase, Ended, ControlInv
  <2>2. CASE state = "VERIFYING"
    <3>1. state' \notin {"CREATED", "PLANNING"}
      BY <1>11, <2>2 DEF RecordViolation, Reject, TransitionThen
    <3> QED
      BY <1>11, <2>2, <3>1, QuietStep, CommittedFixed
         DEF RecordViolation, Reject, Leave, TransitionThen, Phase, Ended
  <2> QED
    BY <1>11, <2>1, <2>2 DEF RecordViolation
<1>12. CASE ViolationUnrecorded \/ Reflect \/ RecordRun
  BY <1>12, QuietStep, CommittedFixed
     DEF ViolationUnrecorded, Reflect, RecordRun, Phase, Ended
<1>13. CASE Finish
  <2>1. state' \notin {"CREATED", "PLANNING"} /\ state \notin {"CREATED", "PLANNING"}
    BY <1>13 DEF Finish, TransitionThen, ControlInv
  <2> QED
    BY <1>13, <2>1, QuietStep, CommittedFixed DEF Finish, TransitionThen, Phase, Ended
<1>14. CASE UNCHANGED vars
  BY <1>14, QuietStep, CommittedFixed DEF vars, Phase, Ended
<1> QED
  BY <1>1, <1>2, <1>3, <1>4, <1>5, <1>6, <1>7, <1>8, <1>9, <1>10, <1>11, <1>12, <1>13,
     <1>14 DEF Next, Proceed, Gate, Permit, Judge

(* Whatever is injected, tools start in plan order, once each, within the
   budget, and none the policy asks for unless the plan was devoted. *)
THEOREM LoyalKeepsPromise == Spec => DevotedRefinement
<1>1. Init => Promise!Init
  BY DEF Init, Promise!Init, Phase, Ended, Committed
<1>2. IndInv /\ IndInv' /\ [Next]_vars => [Promise!Next]_(Promise!vars)
  BY Simulation
<1> QED
  BY LoyalInvariance, <1>1, <1>2, PTL DEF Spec, DevotedRefinement, Promise!Spec

-----------------------------------------------------------------------------
(* Past the loyalty gate.                                                    *)

Disclosing(p) == Has(p, "stop") /\ Has(p, "verify") /\ ~Concealing(p)

PlanDiscloses == plan # <<>> => Disclosing(plan)

(* Whatever the planner returned, the plan a loyal run is carrying out has a
   stop and a verification, and no material step without an evidence step:
   nothing the run does later takes one out. *)
THEOREM LoyalPlansDisclose == Spec => []PlanDiscloses
<1>1. Init => PlanDiscloses
  BY DEF Init, PlanDiscloses
<1>2. IndInv /\ PlanDiscloses /\ [Next]_vars => PlanDiscloses'
  <2> SUFFICES ASSUME IndInv, PlanDiscloses, [Next]_vars PROVE PlanDiscloses'
    OBVIOUS
  <2>1. CASE MakePlan
    <3>1. PICK p \in PlansFor[goal] : plan' = plan \/ plan' = Guarded(p)
      BY <2>1 DEF MakePlan
    <3>2. p \in Seq(Step)
      BY <3>1 DEF IndInv, TypeOK
    <3>3. Disclosing(Guarded(p))
      BY <3>2, GuardedPlan DEF Disclosing
    <3> QED
      BY <3>1, <3>3 DEF PlanDiscloses
  <2>2. CASE plan' = plan
    BY <2>2 DEF PlanDiscloses
  <2>3. plan' = plan \/ MakePlan
    BY DEF Next, Proceed, Gate, Permit, Judge, Start, Tick, LoyaltyRejects,
           PluralismRejects, DevotionRejects, Admit, LeaveLoop, TakeStep, PermitDenies,
           PermitApproves, PermitNeedsHuman, StepWithoutEffect, StartTool, ToolReturns,
           ToolTimesOut, ObserveFailure, ObserveSuccess, JudgedHonest, JudgedDishonest,
           JudgedEgo, RecordViolation, ViolationUnrecorded, Finish, Reflect, RecordRun, vars
  <2> QED
    BY <2>1, <2>2, <2>3
<1> QED
  BY <1>1, <1>2, LoyalInvariance, PTL DEF Spec
-----------------------------------------------------------------------------
(* No material step is performed without the evidence step.                  *)

(* A plan has its stop at its end, or was cut off before it.                 *)
EndsInStop(p) ==
    /\ \A k \in DOMAIN p : p[k].action = "stop" => p[k] = Stop /\ k = Len(p)
    /\ Has(p, "stop") \/ Len(p) >= MaxSteps

PlannersStop == \A g \in Goals : \A p \in PlansFor[g] : p = <<>> \/ EndsInStop(p)

(* Nothing but the end of the plan, or the step limit, is a stop.            *)
StopsLate(p) ==
    \A k \in DOMAIN p :
       p[k].action = "stop" => p[k] = Stop /\ (k = Len(p) \/ k > MaxSteps)

(* A plan that has a stop gets no other one.                                 *)
LEMMA NoSecondStop ==
    ASSUME NEW p, Has(p, "stop")
    PROVE  \A k \in 1..Len(Injected(p)) : Injected(p)[k] \in {Verify, RecordEvidence}
<1> DEFINE T == {Verify, RecordEvidence}
           V == OneIf(~Has(p, "verify"), Verify)
           W == OneIf(Concealing(p), RecordEvidence)
<1>1. Injected(p) = (<<>> \o V) \o W
  BY DEF Injected, OneIf
<1>2. <<>> \in Seq(T) /\ V \in Seq(T) /\ W \in Seq(T)
  <2>1. ASSUME NEW c, NEW step \in T PROVE OneIf(c, step) \in Seq(T)
    <3>1. CASE c
      BY <3>1 DEF OneIf
    <3>2. CASE ~c
      BY <3>2 DEF OneIf
    <3> QED
      BY <3>1, <3>2
  <2>2. Verify \in T /\ RecordEvidence \in T
    OBVIOUS
  <2> HIDE DEF T
  <2> QED
    BY <2>1, <2>2
<1> HIDE DEF T, V, W
<1>3. <<>> \o V \in Seq(T)
  BY <1>2, Concatenation
<1>4. (<<>> \o V) \o W \in Seq(T)
  BY <1>2, <1>3, Concatenation
<1>5. \A k \in 1..Len(Injected(p)) : Injected(p)[k] \in T
  BY <1>1, <1>4
<1> QED
  BY <1>5 DEF T

(* Behind the loyalty gate a plan that ended in its stop still does.         *)
LEMMA GuardedStops ==
    ASSUME NEW S, {Stop, Verify, RecordEvidence} \subseteq S, NEW p \in Seq(S), EndsInStop(p)
    PROVE  StopsLate(Guarded(p))
<1> DEFINE b == Injected(p)
           n == FirstStop(p)
           G == Guarded(p)
           T == {Stop, Verify, RecordEvidence}
<1>1. b \in Seq(T) /\ b \in Seq(S)
  <2>1. b \in Seq(T) /\ T \subseteq S
    BY InjectedSteps
  <2> HIDE DEF T, b
  <2> QED
    BY <2>1
<1>2. /\ n \in 1..(Len(p) + 1) /\ Len(p) \in Nat /\ Len(b) \in Nat
      /\ n \in DOMAIN p => p[n].action = "stop"
      /\ \A j \in 1..(n - 1) : p[j].action # "stop"
  BY <1>1, FirstStopExists
<1>3. /\ G \in Seq(S) /\ Len(G) = Len(p) + Len(b)
      /\ \A i \in 1..(n - 1) : G[i] = p[i]
      /\ \A i \in 1..Len(b) : G[n - 1 + i] = b[i]
      /\ \A i \in n..Len(p) : G[Len(b) + i] = p[i]
  <2>1. G = InsertAtStop(p, b)
    BY DEF Guarded
  <2> HIDE DEF b, G, n, T
  <2>2. /\ InsertAtStop(p, b) \in Seq(S)
        /\ Len(InsertAtStop(p, b)) = Len(p) + Len(b)
        /\ \A i \in 1..(FirstStop(p) - 1) : InsertAtStop(p, b)[i] = p[i]
        /\ \A i \in 1..Len(b) : InsertAtStop(p, b)[FirstStop(p) - 1 + i] = b[i]
        /\ \A i \in FirstStop(p)..Len(p) : InsertAtStop(p, b)[Len(b) + i] = p[i]
    <3>1. b \in Seq(S) /\ p \in Seq(S)
      BY <1>1
    <3> QED
      BY ONLY <3>1, InsertionKeeps, Zenon
  <2> QED
    BY <2>1, <2>2 DEF n
<1>4. Verify.action # "stop" /\ RecordEvidence.action # "stop"
  BY DEF Verify, RecordEvidence, PlanStep
<1>5. Has(p, "stop") => \A i \in 1..Len(b) : b[i] \in {Verify, RecordEvidence}
  BY NoSecondStop
<1>6. \A i \in 1..Len(b) : b[i] \in T
  BY <1>1
<1>7. /\ \A k \in 1..Len(p) : p[k].action = "stop" => p[k] = Stop /\ k = Len(p)
      /\ Has(p, "stop") \/ Len(p) >= MaxSteps
      /\ Has(p, "stop") <=> \E k \in 1..Len(p) : p[k].action = "stop"
  BY <1>2 DEF EndsInStop, Has
<1> HIDE DEF b, n, G
<1> SUFFICES ASSUME NEW k \in 1..(Len(p) + Len(b)), G[k].action = "stop"
             PROVE  G[k] = Stop /\ (k = Len(G) \/ k > MaxSteps)
  BY <1>2, <1>3 DEF StopsLate, G
<1>8. CASE Has(p, "stop")
  <2>1. n = Len(p)
    BY <1>2, <1>7, <1>8
  <2>2. ~(k < n)
    BY <1>2, <1>3
  <2>3. ~(k < n + Len(b))
    <3> SUFFICES ASSUME k < n + Len(b) PROVE FALSE
      OBVIOUS
    <3>1. k - n + 1 \in 1..Len(b) /\ n - 1 + (k - n + 1) = k
      BY <1>2, <2>2
    <3>2. G[k] = b[k - n + 1]
      BY <1>3, <3>1
    <3> QED
      BY <1>4, <1>5, <1>8, <3>1, <3>2
  <2>4. k = Len(b) + Len(p) /\ Len(p) \in n..Len(p) /\ Len(p) \in 1..Len(p)
    <3>1. /\ n \in Nat /\ n >= 1 /\ Len(p) \in Nat /\ Len(b) \in Nat
          /\ k \in Nat /\ k <= Len(p) + Len(b)
      BY <1>2
    <3> QED
      BY <2>1, <2>3, <3>1
  <2>5. G[k] = p[Len(p)]
    BY <1>3, <2>4
  <2> QED
    BY <1>2, <1>3, <1>7, <2>4, <2>5
<1>9. CASE ~Has(p, "stop")
  <2>1. n = Len(p) + 1
    BY <1>2, <1>7, <1>9
  <2>2. ~(k < n)
    BY <1>2, <1>3
  <2>3. k - n + 1 \in 1..Len(b) /\ n - 1 + (k - n + 1) = k
    <3>1. /\ n \in Nat /\ Len(p) \in Nat /\ Len(b) \in Nat
          /\ k \in Nat /\ k <= Len(p) + Len(b)
      BY <1>2
    <3> QED
      BY <2>1, <2>2, <3>1
  <2>4. G[k] = b[k - n + 1]
    BY <1>3, <2>3
  <2>5. G[k] = Stop
    BY <1>4, <1>6, <2>3, <2>4
  <2> QED
    BY <1>2, <1>7, <1>9, <2>1, <2>2, <2>5
<1> QED
  BY <1>8, <1>9

(* How far the run is in its plan, and that it has every tool of the plan    *)
(* behind it when it completes with steps to spare.                          *)
ProgressInv ==
    /\ pc \in {"idle", "plan", "gates", "loop"} => steps = at - 1
    /\ \/ pc \in {"permit", "execute", "tool", "observe", "judge"}
       \/ pc = "violation" /\ state = "VERIFYING"
       => steps = at
    /\ pc \in {"finish", "reflect", "record", "returned"} /\ verdict = "COMPLETED"
       /\ steps < MaxSteps
       => \A j \in DOMAIN plan : plan[j].tool # NoTool => j < at

PlanStops == plan # <<>> => StopsLate(plan)

DisclosureInv == PlanDiscloses /\ PlanStops /\ ProgressInv

LEMMA DisclosureInit == Init => DisclosureInv
BY DEF Init, DisclosureInv, PlanDiscloses, PlanStops, ProgressInv

LEMMA NextPlan ==
    ASSUME PlannersStop, IndInv, PlanStops, [Next]_vars
    PROVE  PlanStops'
<1>1. CASE MakePlan
  <2>1. PICK p \in PlansFor[goal] : plan' = plan \/ (p # <<>> /\ plan' = Guarded(p))
    BY <1>1 DEF MakePlan
  <2>2. CASE plan' = plan
    BY <2>2 DEF PlanStops
  <2>3. CASE p # <<>> /\ plan' = Guarded(p)
    <3>1. p \in Seq(Step) /\ EndsInStop(p)
      BY <2>1, <2>3 DEF IndInv, TypeOK, PlannersStop
    <3>2. {Stop, Verify, RecordEvidence} \subseteq Step
      BY DEF Stop, Verify, RecordEvidence, PlanStep, Step, Actions, ToolActions
    <3>3. StopsLate(Guarded(p))
      BY <3>1, <3>2, GuardedStops
    <3> QED
      BY <2>3, <3>3 DEF PlanStops
  <2> QED
    BY <2>1, <2>2, <2>3
<1>2. CASE plan' = plan
  BY <1>2 DEF PlanStops
<1>3. plan' = plan \/ MakePlan
  BY DEF Next, Proceed, Gate, Permit, Judge, Start, Tick, LoyaltyRejects,
         PluralismRejects, DevotionRejects, Admit, LeaveLoop, TakeStep, PermitDenies,
         PermitApproves, PermitNeedsHuman, StepWithoutEffect, StartTool, ToolReturns,
         ToolTimesOut, ObserveFailure, ObserveSuccess, JudgedHonest, JudgedDishonest,
         JudgedEgo, RecordViolation, ViolationUnrecorded, Finish, Reflect, RecordRun, vars
<1> QED
  BY <1>1, <1>2, <1>3

LEMMA NextProgress ==
    ASSUME IndInv, PlanStops, ProgressInv, [Next]_vars
    PROVE  ProgressInv'
<1> USE DEF IndInv, TypeOK, ControlInv, ProgressInv, Running, States, PCs, Terminal,
            TransitionThen, Transitions, Refuse, Leave, CountFailure, Reject, counters,
            traces
<1>1. CASE Start
  BY <1>1 DEF Start
<1>2. CASE MakePlan
  BY <1>2 DEF MakePlan
<1>3. CASE Tick
  BY <1>3 DEF Tick
<1>4. CASE LoyaltyRejects
  BY <1>4 DEF LoyaltyRejects
<1>5. CASE PluralismRejects
  BY <1>5 DEF PluralismRejects
<1>6. CASE DevotionRejects
  BY <1>6 DEF DevotionRejects
<1>7. CASE Admit
  BY <1>7 DEF Admit
<1>8. CASE LeaveLoop
  <2>1. CASE at > Len(plan)
    <3>1. \A j \in DOMAIN plan : j < at
      BY <2>1
    <3>2. pc' = "finish" /\ UNCHANGED <<plan, at, steps>>
      BY <1>8 DEF LeaveLoop
    <3> QED
      BY <3>1, <3>2
  <2>2. CASE at <= Len(plan) /\ late
    <3>1. pc' = "finish" /\ verdict' = "TIMED_OUT"
      BY <1>8, <2>2 DEF LeaveLoop
    <3> QED
      BY <3>1
  <2>3. CASE at <= Len(plan) /\ (Current.action = "stop" \/ steps >= MaxSteps)
    <3>1. steps = at - 1 /\ pc' = "finish" /\ UNCHANGED <<plan, at, steps>>
      BY <1>8 DEF LeaveLoop
    <3>2. ASSUME steps < MaxSteps, NEW j \in DOMAIN plan, plan[j].tool # NoTool
          PROVE  j < at
      <4>1. at \in DOMAIN plan /\ plan[at].action = "stop" /\ at <= MaxSteps
        BY <2>3, <3>1, <3>2 DEF Current
      <4>2. plan[at] = Stop /\ at = Len(plan)
        BY <4>1 DEF PlanStops, StopsLate
      <4>3. j # at
        BY <3>2, <4>2 DEF Stop, PlanStep
      <4> QED
        BY <4>2, <4>3
    <3> QED
      BY <3>1, <3>2
  <2> QED
    BY <1>8, <2>1, <2>2, <2>3 DEF LeaveLoop
<1>9. CASE TakeStep
  BY <1>9 DEF TakeStep
<1>10. CASE PermitDenies
  BY <1>10 DEF PermitDenies
<1>11. CASE PermitApproves
  BY <1>11 DEF PermitApproves
<1>12. CASE PermitNeedsHuman
  BY <1>12 DEF PermitNeedsHuman
<1>13. CASE StepWithoutEffect
  BY <1>13 DEF StepWithoutEffect
<1>14. CASE StartTool
  BY <1>14 DEF StartTool
<1>15. CASE ToolReturns
  BY <1>15 DEF ToolReturns
<1>16. CASE ToolTimesOut
  BY <1>16 DEF ToolTimesOut
<1>17. CASE ObserveFailure
  BY <1>17 DEF ObserveFailure
<1>18. CASE ObserveSuccess
  BY <1>18 DEF ObserveSuccess
<1>19. CASE JudgedHonest
  BY <1>19 DEF JudgedHonest
<1>20. CASE JudgedDishonest
  <2>1. pc = "judge" /\ Reject /\ UNCHANGED <<plan, steps, calls, started>>
    BY <1>20 DEF JudgedDishonest
  <2>2. CASE failures + 1 > MaxFailures
    BY <2>1, <2>2
  <2>3. CASE ~(failures + 1 > MaxFailures)
    <3>1. at' = at + 1 /\ pc' \in {"loop", "raised"} /\ steps = at
      BY <2>1, <2>3
    <3> QED
      BY <2>1, <3>1, SMTT(30)
  <2> QED
    BY <2>2, <2>3
<1>21. CASE JudgedEgo
  BY <1>21 DEF JudgedEgo
<1>22. CASE RecordViolation
  BY <1>22, SMTT(30) DEF RecordViolation
<1>23. CASE ViolationUnrecorded
  BY <1>23 DEF ViolationUnrecorded
<1>24. CASE Finish
  BY <1>24 DEF Finish
<1>25. CASE Reflect
  BY <1>25 DEF Reflect
<1>26. CASE RecordRun
  BY <1>26 DEF RecordRun
<1>27. CASE UNCHANGED vars
  BY <1>27 DEF vars
<1> QED
  BY <1>1, <1>2, <1>3, <1>4, <1>5, <1>6, <1>7, <1>8, <1>9, <1>10, <1>11, <1>12, <1>13,
     <1>14, <1>15, <1>16, <1>17, <1>18, <1>19, <1>20, <1>21, <1>22, <1>23, <1>24, <1>25, <1>26,
     <1>27 DEF Next, Proceed, Gate, Permit, Judge

LEMMA DisclosureSuffices == IndInv /\ DisclosureInv => MaterialIsDisclosed
<1> SUFFICES ASSUME IndInv, DisclosureInv, pc = "returned", verdict = "COMPLETED",
                    steps < MaxSteps, NEW k \in started, plan[k].tool \in Material
             PROVE  \E j \in 1..(at - 1) : plan[j].tool = "evidence.query"
  BY DEF MaterialIsDisclosed
<1>1. k \in DOMAIN plan /\ plan # <<>> /\ plan \in Seq(Step) /\ at \in Nat
  BY DEF IndInv, TypeOK
<1>2. PICK j \in DOMAIN plan : plan[j].tool = "evidence.query"
  BY <1>1 DEF DisclosureInv, PlanDiscloses, Disclosing, Concealing, Uses
<1>3. j < at
  BY <1>2 DEF DisclosureInv, ProgressInv
<1>4. j \in 1..(at - 1)
  BY <1>1, <1>3
<1> QED
  BY <1>2, <1>4

(* A loyal run that completes with steps to spare, and started a material    *)
(* operation, has come past the evidence step: MaterialIsDisclosed, of every *)
(* run whose planner ends its plans in their stop or has them cut off.       *)
THEOREM LoyalRunsDisclose ==
    ASSUME PlannersStop
    PROVE  Spec => []MaterialIsDisclosed
<1>1. IndInv /\ PlanDiscloses /\ PlanStops /\ ProgressInv /\ [Next]_vars
         => PlanStops' /\ ProgressInv'
  BY NextPlan, NextProgress
<1>2. Init => PlanStops /\ ProgressInv
  BY DisclosureInit DEF DisclosureInv
<1>3. IndInv /\ PlanDiscloses /\ PlanStops /\ ProgressInv => MaterialIsDisclosed
  BY DisclosureSuffices DEF DisclosureInv
<1> QED
  BY <1>1, <1>2, <1>3, LoyalInvariance, LoyalPlansDisclose, PTL DEF Spec

-----------------------------------------------------------------------------
(* The plans of the predictive planner end in their stop, or are cut off.    *)

LEMMA AtMostIs ==
    ASSUME NEW S, NEW s \in Seq(S), NEW n \in Nat
    PROVE  /\ AtMost(s, n) \in Seq(S)
           /\ Len(AtMost(s, n)) = IF Len(s) < n THEN Len(s) ELSE n
           /\ \A i \in 1..Len(AtMost(s, n)) : AtMost(s, n)[i] = s[i]
<1> DEFINE m == IF Len(s) < n THEN Len(s) ELSE n
<1>1. m \in 0..Len(s) /\ AtMost(s, n) = SubSeq(s, 1, m)
  BY DEF AtMost
<1> HIDE DEF m
<1>2. SubSeq(s, 1, m) \in Seq(S)
  BY <1>1
<1>3. Len(SubSeq(s, 1, m)) = m
  BY <1>1
<1>4. \A i \in 1..m : SubSeq(s, 1, m)[i] = s[i]
  BY <1>1
<1> QED
  BY <1>1, <1>2, <1>3, <1>4 DEF m

(* Cutting a plan at the step limit.                                         *)
LEMMA CutStops ==
    ASSUME NEW S, NEW q \in Seq(S), EndsInStop(q)
    PROVE  AtMost(q, MaxSteps) \in Seq(S) /\ EndsInStop(AtMost(q, MaxSteps))
<1> DEFINE r == AtMost(q, MaxSteps)
<1>1. /\ r \in Seq(S) /\ Len(r) = (IF Len(q) < MaxSteps THEN Len(q) ELSE MaxSteps)
      /\ \A i \in 1..Len(r) : r[i] = q[i]
      /\ Len(q) \in Nat /\ MaxSteps \in Nat
  <2>1. q \in Seq(S) /\ MaxSteps \in Nat
    BY PlanningAssumption
  <2> QED
    BY <2>1, AtMostIs
<1> HIDE DEF r
<1>2. ASSUME NEW k \in DOMAIN r, r[k].action = "stop" PROVE r[k] = Stop /\ k = Len(r)
  <2>1. k \in 1..Len(r) /\ k \in 1..Len(q) /\ q[k].action = "stop"
    BY <1>1, <1>2
  <2>2. q[k] = Stop /\ k = Len(q)
    BY <2>1 DEF EndsInStop
  <2> QED
    BY <1>1, <2>1, <2>2
<1>3. Has(r, "stop") \/ Len(r) >= MaxSteps
  <2>1. CASE Len(q) < MaxSteps
    <3>1. PICK k \in 1..Len(q) : q[k].action = "stop"
      BY <1>1, <2>1 DEF EndsInStop, Has
    <3>2. k \in DOMAIN r /\ r[k].action = "stop"
      BY <1>1, <2>1, <3>1
    <3> QED
      BY <3>2 DEF Has
  <2>2. CASE ~(Len(q) < MaxSteps)
    BY <1>1, <2>2
  <2> QED
    BY <2>1, <2>2
<1> QED
  BY <1>1, <1>2, <1>3 DEF EndsInStop, r

(* Steps that are no stop, and then the stop.                                *)
LEMMA StopBehind ==
    ASSUME NEW S, NEW s \in Seq(S), \A k \in 1..Len(s) : s[k].action # "stop"
    PROVE  s \o <<Stop>> \in Seq(S \cup {Stop}) /\ EndsInStop(s \o <<Stop>>)
<1> DEFINE q == s \o <<Stop>>
           T == S \cup {Stop}
<1>1. s \in Seq(T) /\ <<Stop>> \in Seq(T) /\ Len(<<Stop>>) = 1 /\ <<Stop>>[1] = Stop
  OBVIOUS
<1> HIDE DEF T
<1>2. /\ q \in Seq(T) /\ Len(q) = Len(s) + 1 /\ Len(s) \in Nat
      /\ \A i \in 1..Len(s) : q[i] = s[i]
      /\ \A i \in 1..1 : q[Len(s) + i] = <<Stop>>[i]
  <2>1. /\ s \o <<Stop>> \in Seq(T) /\ Len(s \o <<Stop>>) = Len(s) + Len(<<Stop>>)
        /\ Len(s) \in Nat
        /\ \A i \in 1..Len(s) : (s \o <<Stop>>)[i] = s[i]
        /\ \A i \in 1..Len(<<Stop>>) : (s \o <<Stop>>)[Len(s) + i] = <<Stop>>[i]
    <3>1. s \in Seq(T) /\ <<Stop>> \in Seq(T)
      BY <1>1
    <3> QED
      BY ONLY <3>1, Concatenation
  <2> QED
    BY <1>1, <2>1
<1> HIDE DEF q
<1>3. q[Len(s) + 1] = Stop
  BY <1>1, <1>2
<1>4. ASSUME NEW k \in DOMAIN q, q[k].action = "stop" PROVE q[k] = Stop /\ k = Len(q)
  <2>1. k \in 1..(Len(s) + 1)
    BY <1>2
  <2>2. k \notin 1..Len(s)
    BY <1>2, <1>4
  <2>3. k = Len(s) + 1
    BY <1>2, <2>1, <2>2
  <2> QED
    BY <1>2, <1>3, <2>3
<1>5. Len(s) + 1 \in DOMAIN q /\ q[Len(s) + 1].action = "stop"
  BY <1>2, <1>3 DEF Stop, PlanStep
<1> QED
  BY <1>2, <1>4, <1>5 DEF EndsInStop, Has, q, T

(* Steps that are put before the stop, or behind a plan that was cut off.    *)
LEMMA InsertionStops ==
    ASSUME NEW S, NEW p \in Seq(S), NEW step \in S, step.action # "stop", EndsInStop(p)
    PROVE  InsertAtStop(p, <<step>>) \in Seq(S) /\ EndsInStop(InsertAtStop(p, <<step>>))
<1> DEFINE n == FirstStop(p)
           G == InsertAtStop(p, <<step>>)
           b == <<step>>
<1>1. p \in Seq(S) /\ b \in Seq(S) /\ Len(b) = 1 /\ b[1] = step
  OBVIOUS
<1> HIDE DEF b
<1>2. /\ InsertAtStop(p, b) \in Seq(S)
      /\ Len(InsertAtStop(p, b)) = Len(p) + Len(b)
      /\ \A i \in 1..(FirstStop(p) - 1) : InsertAtStop(p, b)[i] = p[i]
      /\ \A i \in 1..Len(b) : InsertAtStop(p, b)[FirstStop(p) - 1 + i] = b[i]
      /\ \A i \in FirstStop(p)..Len(p) : InsertAtStop(p, b)[Len(b) + i] = p[i]
  <2>1. p \in Seq(S) /\ b \in Seq(S)
    BY <1>1
  <2> QED
    BY ONLY <2>1, InsertionKeeps
<1>3. /\ n \in 1..(Len(p) + 1) /\ Len(p) \in Nat
      /\ n \in DOMAIN p => p[n].action = "stop"
      /\ \A j \in 1..(n - 1) : p[j].action # "stop"
  BY FirstStopExists
<1>4. /\ G \in Seq(S) /\ Len(G) = Len(p) + 1
      /\ \A i \in 1..(n - 1) : G[i] = p[i]
      /\ \A i \in n..Len(p) : G[1 + i] = p[i]
  BY <1>1, <1>2 DEF b
<1>5. G[n] = step
  <2>1. n - 1 + 1 = n /\ 1 \in 1..Len(b)
    BY <1>1, <1>3
  <2>2. InsertAtStop(p, b)[n - 1 + 1] = b[1]
    BY <1>2, <2>1
  <2> QED
    BY <1>1, <2>1, <2>2 DEF b
<1> HIDE DEF G, n
<1>6. MaxSteps \in Nat
  BY PlanningAssumption
<1>7. ASSUME NEW k \in DOMAIN G, G[k].action = "stop" PROVE G[k] = Stop /\ k = Len(G)
  <2>1. k \in 1..(Len(p) + 1)
    BY <1>4
  <2>2. k # n /\ ~(k < n)
    BY <1>3, <1>4, <1>5, <1>7, <2>1
  <2>3. k - 1 \in n..Len(p) /\ 1 + (k - 1) = k /\ k - 1 \in DOMAIN p
    <3>1. /\ n \in Nat /\ n >= 1 /\ Len(p) \in Nat
          /\ k \in Nat /\ k <= Len(p) + 1 /\ k # n /\ ~(k < n)
      BY <1>3, <2>1, <2>2
    <3>2. k - 1 \in n..Len(p) /\ 1 + (k - 1) = k /\ k - 1 \in 1..Len(p)
      BY <3>1
    <3> QED
      BY <3>2
  <2>4. G[k] = p[k - 1]
    BY <1>4, <2>3
  <2>5. p[k - 1] = Stop /\ k - 1 = Len(p)
    BY <1>7, <2>3, <2>4 DEF EndsInStop
  <2> QED
    BY <1>4, <2>1, <2>4, <2>5
<1>8. Has(G, "stop") \/ Len(G) >= MaxSteps
  <2>1. CASE Has(p, "stop")
    <3>1. PICK k \in 1..Len(p) : p[k].action = "stop"
      BY <2>1 DEF Has
    <3>2. k \in n..Len(p)
      BY <1>3, <3>1
    <3>3. 1 + k \in DOMAIN G /\ G[1 + k].action = "stop"
      BY <1>3, <1>4, <3>1, <3>2
    <3> QED
      BY <3>3 DEF Has
  <2>2. CASE Len(p) >= MaxSteps
    BY <1>3, <1>4, <1>6, <2>2
  <2> QED
    BY <2>1, <2>2 DEF EndsInStop
<1> QED
  BY <1>4, <1>7, <1>8 DEF EndsInStop, G

Quiet == [action : Actions \ {"stop", "other"}, tool : Available \cup {NoTool,
             "memory.search", "evidence.query"}]

LEMMA QuietSteps ==
    /\ {Retrieve, Verify, RecordEvidence} \subseteq Quiet /\ Slots \ {Stop} \subseteq Quiet
    /\ \A tool \in Available : PlanStep("execute", tool) \in Quiet
    /\ \A step \in Quiet : step.action # "stop"
BY DEF Quiet, Retrieve, Verify, RecordEvidence, PlanStep, Slots, Stop, Actions, ToolActions

LEMMA QuietConcatenation ==
    ASSUME NEW s \in Seq(Quiet), NEW t \in Seq(Quiet)
    PROVE  s \o t \in Seq(Quiet)
BY ONLY s \in Seq(Quiet), t \in Seq(Quiet), Concatenation

LEMMA QuietThenStop ==
    ASSUME NEW s \in Seq(Quiet)
    PROVE  LET r == AtMost(s \o <<Stop>>, MaxSteps) IN
           r \in Seq(Quiet \cup {Stop}) /\ EndsInStop(r)
<1>1. \A k \in 1..Len(s) : s[k].action # "stop"
  BY QuietSteps
<1>2. s \o <<Stop>> \in Seq(Quiet \cup {Stop}) /\ EndsInStop(s \o <<Stop>>)
  <2> HIDE DEF Quiet
  <2> QED
    BY <1>1, StopBehind
<1> DEFINE q == s \o <<Stop>>
           T == Quiet \cup {Stop}
<1>3. q \in Seq(T) /\ EndsInStop(q)
  BY <1>2
<1> HIDE DEF q, T
<1>4. AtMost(q, MaxSteps) \in Seq(T) /\ EndsInStop(AtMost(q, MaxSteps))
  BY ONLY <1>3, CutStops
<1> QED
  BY <1>4 DEF q, T

LEMMA RulePlanStops ==
    ASSUME NEW g
    PROVE  RulePlan(g) \in Seq(Quiet \cup {Stop}) /\ EndsInStop(RulePlan(g))
<1>1. ToolSteps(g) \in Seq(Quiet)
  <2>1. CASE Matches(g) # {}
    <3>1. FirstMatch(g) \in Matches(g)
      <4>1. PICK i \in Matches(g) : \A j \in Matches(g) : i <= j
        <5>1. Matches(g) \in SUBSET Nat
          BY DEF Matches, Vocabulary
        <5> QED
          BY <2>1, <5>1, LeastNumber
      <4> QED
        BY <4>1 DEF FirstMatch
    <3>2. Vocabulary[FirstMatch(g)][2] \in Available
      BY <3>1 DEF Matches
    <3>3. PlanStep("execute", Vocabulary[FirstMatch(g)][2]) \in Quiet
      BY <3>2, QuietSteps
    <3> QED
      BY <2>1, <3>3 DEF ToolSteps
  <2>2. CASE Matches(g) = {} /\ "system.capabilities" \in Available
    BY <2>2, QuietSteps DEF ToolSteps
  <2>3. CASE Matches(g) = {} /\ "system.capabilities" \notin Available
    BY <2>3 DEF ToolSteps
  <2> QED
    BY <2>1, <2>2, <2>3
<1> DEFINE body == (<<Retrieve>> \o ToolSteps(g)) \o <<Verify, RecordEvidence>>
<1>2. body \in Seq(Quiet)
  <2>1. <<Retrieve>> \in Seq(Quiet) /\ <<Verify, RecordEvidence>> \in Seq(Quiet)
    BY QuietSteps
  <2> QED
    BY <1>1, <2>1, QuietConcatenation
<1>3. (<<Retrieve>> \o ToolSteps(g)) \o <<Verify, RecordEvidence, Stop>> = body \o <<Stop>>
  <2> DEFINE u == <<Retrieve>> \o ToolSteps(g)
  <2>1. <<Verify, RecordEvidence, Stop>> = <<Verify, RecordEvidence>> \o <<Stop>>
    OBVIOUS
  <2> QED
    BY <1>1, <2>1
<1> HIDE DEF body
<1> QED
  BY <1>2, <1>3, QuietThenStop DEF RulePlan

LEMMA CompliantStops ==
    ASSUME NEW p \in Seq(Quiet \cup {Stop}), EndsInStop(p)
    PROVE  EndsInStop(Compliant(p))
<1> DEFINE T == Quiet \cup {Stop}
           v == IF Has(p, "verify") THEN p ELSE InsertAtStop(p, <<Verify>>)
<1>1. /\ Verify \in T /\ RecordEvidence \in T
      /\ Verify.action # "stop" /\ RecordEvidence.action # "stop"
  BY QuietSteps
<1>2. p \in Seq(T)
  OBVIOUS
<1> HIDE DEF T
<1>3. \A q \in Seq(T), step \in {Verify, RecordEvidence} :
         EndsInStop(q) => InsertAtStop(q, <<step>>) \in Seq(T)
                             /\ EndsInStop(InsertAtStop(q, <<step>>))
  <2> SUFFICES ASSUME NEW q \in Seq(T), NEW step \in {Verify, RecordEvidence}, EndsInStop(q)
               PROVE  InsertAtStop(q, <<step>>) \in Seq(T)
                         /\ EndsInStop(InsertAtStop(q, <<step>>))
    OBVIOUS
  <2>1. q \in Seq(T) /\ step \in T /\ step.action # "stop" /\ EndsInStop(q)
    BY <1>1
  <2> QED
    BY ONLY <2>1, InsertionStops
<1>4. v \in Seq(T) /\ EndsInStop(v)
  BY <1>2, <1>3
<1> HIDE DEF v
<1>5. Compliant(p) = IF Uses(v, "evidence.query") THEN v
                     ELSE InsertAtStop(v, <<RecordEvidence>>)
  BY DEF Compliant, v
<1>6. Verify \in {Verify, RecordEvidence} /\ RecordEvidence \in {Verify, RecordEvidence}
  OBVIOUS
<1>7. InsertAtStop(v, <<RecordEvidence>>) \in Seq(T)
         /\ EndsInStop(InsertAtStop(v, <<RecordEvidence>>))
  BY ONLY <1>3, <1>4, <1>6
<1> QED
  BY <1>4, <1>5, <1>7

LEMMA LookedQuiet ==
    ASSUME NEW r \in Seq(Quiet)
    PROVE  UpToStop(r) \in Seq(Quiet)
<1> DEFINE top == AtMost(r, TopK)
           n == FirstStop(top)
<1>1. r \in Seq(Quiet) /\ TopK \in Nat
  BY PlanningAssumption DEF TopK
<1>2. top \in Seq(Quiet)
  BY ONLY <1>1, AtMostIs
<1> HIDE DEF top
<1>3. n \in 1..(Len(top) + 1)
  BY ONLY <1>2, FirstStopExists
<1> HIDE DEF n
<1>4. SubSeq(top, 1, n - 1) \in Seq(Quiet)
  <2> HIDE DEF Quiet
  <2> QED
    BY <1>2, <1>3
<1> QED
  BY <1>4 DEF UpToStop, top, n

LEMMA TakenQuiet ==
    ASSUME NEW s \in Seq(Quiet)
    PROVE  Taken(s) \in Seq(Quiet)
<1> DEFINE D == {Retrieve}
<1>1. s \in Seq(Quiet)
  OBVIOUS
<1>2. Room \in Nat
  <2>1. Len(Opening) \in Nat
    BY DEF Opening
  <2> QED
    BY <2>1, PlanningAssumption DEF Room
<1> HIDE DEF D
<1>3. Without(s, D) \in Seq(Quiet)
  BY ONLY <1>1, WithoutKeepsOrder
<1>4. AtMost(Without(s, D), Room) \in Seq(Quiet)
  BY ONLY <1>2, <1>3, AtMostIs
<1> QED
  BY <1>4 DEF Taken, D

LEMMA RankedStops ==
    ASSUME NEW taken \in Seq(Quiet)
    PROVE  EndsInStop(RankedPlan(taken))
<1> DEFINE body == Opening \o taken
           most == IF Len(body) < MaxSteps THEN Append(body, Verify) ELSE body
<1>1. Opening \in Seq(Quiet)
  BY QuietSteps DEF Opening
<1>2. RankedPlan(taken) = AtMost(most \o <<Stop>>, MaxSteps)
  BY DEF RankedPlan
<1>3. body \in Seq(Quiet)
  BY <1>1, QuietConcatenation
<1> HIDE DEF body
<1>4. Append(body, Verify) \in Seq(Quiet)
  BY <1>3, QuietSteps
<1>5. most \in Seq(Quiet)
  BY <1>3, <1>4
<1> HIDE DEF most
<1> QED
  BY <1>2, <1>5, QuietThenStop

(* Every plan the predictive planner can return ends in its one stop, or was *)
(* cut off at the step limit - the rule plan it falls back to, and the one   *)
(* it completes for the loyalty gate, among them.                            *)
THEOREM PredictivePlansEnd == \A g : \A p \in PredictivePlans(g) : EndsInStop(p)
<1> DEFINE Rankings == UNION {{r \in [1..n -> Slots \ {Stop}] :
                                 \A i, j \in 1..n : r[i] = r[j] => i = j} :
                               n \in 0..(MaxSteps - 1)}
           Looked == {UpToStop(r) : r \in Rankings}
           Ranked == {RankedPlan(taken) : taken \in {Taken(slots) : slots \in Looked}}
<1>1. ASSUME NEW r \in Rankings PROVE r \in Seq(Quiet)
  <2>1. PICK n \in 0..(MaxSteps - 1) : r \in [1..n -> Slots \ {Stop}]
    BY <1>1
  <2>2. r \in [1..n -> Quiet] /\ n \in Nat
    BY <2>1, QuietSteps
  <2> HIDE DEF Quiet
  <2> QED
    BY <2>2
<1> SUFFICES ASSUME NEW g, NEW p \in PredictivePlans(g) PROVE EndsInStop(p)
  OBVIOUS
<1>2. p \in Ranked \/ p = RulePlan(g) \/ p = Compliant(RulePlan(g))
  BY DEF PredictivePlans
<1> HIDE DEF Rankings
<1>3. CASE p \in Ranked
  <2>1. PICK r \in Rankings : p = RankedPlan(Taken(UpToStop(r)))
    BY <1>3
  <2> QED
    BY <1>1, <2>1, LookedQuiet, TakenQuiet, RankedStops
<1>4. CASE p = RulePlan(g)
  BY <1>4, RulePlanStops
<1>5. CASE p = Compliant(RulePlan(g))
  BY <1>5, RulePlanStops, CompliantStops
<1> QED
  BY <1>2, <1>3, <1>4, <1>5

(* So every loyal run of a plan of the predictive planner, or of no plan,    *)
(* discloses its material steps.                                             *)
THEOREM PredictiveRunsDisclose ==
    ASSUME \A g \in Goals : PlansFor[g] \subseteq PredictivePlans(g) \cup {<<>>}
    PROVE  Spec => []MaterialIsDisclosed
BY PredictivePlansEnd, LoyalRunsDisclose DEF PlannersStop
=============================================================================
