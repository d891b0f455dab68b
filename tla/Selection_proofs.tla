-------------------------- MODULE Selection_proofs --------------------------
(***************************************************************************)
(* What is left of a sequence, and that it stays in order.  The proofs     *)
(* about the queue of the bridge, the lock of the MCP client and the rate  *)
(* limiter of the gateway rest on these lemmas.                            *)
(***************************************************************************)
EXTENDS Selection, WellFoundedInduction, SequenceTheorems, TLAPS

(* A nonempty set of numbers has a least one. *)
LEMMA LeastNumber ==
    ASSUME NEW T \in SUBSET Nat, T # {}
    PROVE  \E n \in T : \A m \in T : n <= m
<1>1. PICK n \in T : \A m \in T : <<m, n>> \notin OpToRel(<, Nat)
  BY NatLessThanWellFounded, WFMin
<1>2. \A m \in T : ~(m < n)
  BY <1>1, Zenon DEF OpToRel
<1>3. \A m \in T : n <= m
  BY <1>2
<1> QED
  BY <1>3

(* Where the elements of two sequences are in their concatenation. *)
LEMMA Concatenation ==
    ASSUME NEW S, NEW s \in Seq(S), NEW t \in Seq(S)
    PROVE  /\ s \o t \in Seq(S) /\ Len(s \o t) = Len(s) + Len(t)
           /\ Len(s) \in Nat /\ Len(t) \in Nat
           /\ \A i \in 1..Len(s) : (s \o t)[i] = s[i]
           /\ \A i \in 1..Len(t) : (s \o t)[Len(s) + i] = t[i]
<1>1. /\ s \o t \in Seq(S) /\ Len(s \o t) = Len(s) + Len(t)
      /\ \A i \in 1..(Len(s) + Len(t)) :
            (s \o t)[i] = IF i <= Len(s) THEN s[i] ELSE t[i - Len(s)]
  BY ConcatProperties
<1>2. Len(s) \in Nat /\ Len(t) \in Nat
  OBVIOUS
<1>3. ASSUME NEW i \in 1..Len(s) PROVE (s \o t)[i] = s[i]
  <2>1. i \in 1..(Len(s) + Len(t)) /\ i <= Len(s)
    BY <1>2
  <2> QED
    BY <1>1, <2>1
<1>4. ASSUME NEW i \in 1..Len(t) PROVE (s \o t)[Len(s) + i] = t[i]
  <2>1. /\ Len(s) + i \in 1..(Len(s) + Len(t)) /\ ~(Len(s) + i <= Len(s))
        /\ (Len(s) + i) - Len(s) = i
    BY <1>2
  <2>2. (s \o t)[Len(s) + i] = t[(Len(s) + i) - Len(s)]
    BY <1>1, <2>1
  <2> QED
    BY <2>1, <2>2
<1> QED
  BY <1>1, <1>2, <1>3, <1>4

(* The recursion has a solution, whatever the sequence and the values. *)
LEMMA WithoutIsDefined ==
    ASSUME NEW S, NEW s \in Seq(S), NEW D
    PROVE  \E f : /\ DOMAIN f = 0..Len(s) /\ f[0] = <<>> /\ Without(s, D) = f[Len(s)]
                  /\ \A i \in 1..Len(s) :
                        f[i] = IF s[i] \in D THEN f[i - 1] ELSE Append(f[i - 1], s[i])
<1> DEFINE V(g, i) == IF i = 0 THEN <<>>
                      ELSE IF s[i] \in D THEN g[i - 1] ELSE Append(g[i - 1], s[i])
           Defined(n) == \E g : g = [i \in 0..n |-> V(g, i)]
           Bad == {n \in Nat : ~Defined(n)}
<1>1. Defined(0)
  <2> DEFINE g == [i \in 0..0 |-> <<>>]
  <2>1. g = [i \in 0..0 |-> V(g, i)]
    OBVIOUS
  <2> QED
    BY <2>1
<1>2. ASSUME NEW n \in Nat, Defined(n) PROVE Defined(n + 1)
  <2>1. PICK f : f = [i \in 0..n |-> V(f, i)]
    BY <1>2
  <2> DEFINE g == [i \in 0..(n + 1) |-> IF i = n + 1 THEN V(f, n + 1) ELSE f[i]]
  <2>2. ASSUME NEW i \in 0..(n + 1) PROVE g[i] = V(g, i)
    <3>1. CASE i = 0
      BY <3>1, <2>1
    <3>2. CASE i # 0
      <4>1. i - 1 \in 0..n /\ i - 1 \in 0..(n + 1) /\ i - 1 # n + 1 /\ g[i - 1] = f[i - 1]
        BY <3>2
      <4>2. V(g, i) = V(f, i)
        BY <3>2, <4>1
      <4>3. g[i] = V(f, i)
        <5>1. CASE i = n + 1
          BY <5>1
        <5>2. CASE i # n + 1
          <6>1. i \in 0..n /\ g[i] = f[i]
            BY <5>2
          <6>2. f[i] = V(f, i)
            BY <2>1, <6>1
          <6> QED
            BY <6>1, <6>2
        <5> QED
          BY <5>1, <5>2
      <4> QED
        BY <4>2, <4>3
    <3> QED
      BY <3>1, <3>2
  <2>3. g = [i \in 0..(n + 1) |-> V(g, i)]
    BY <2>2
  <2> QED
    BY <2>3
<1>3. \A n \in Nat : Defined(n)
  <2> SUFFICES ASSUME Bad # {} PROVE FALSE
    OBVIOUS
  <2> HIDE DEF Defined
  <2>1. PICK n \in Bad : \A m \in Bad : n <= m
    BY LeastNumber
  <2>2. n \in Nat /\ n # 0 /\ n - 1 \in Nat /\ n - 1 \notin Bad /\ (n - 1) + 1 = n
    BY <1>1, <2>1
  <2>3. Defined(n - 1)
    BY <2>2
  <2> QED
    BY <1>2, <2>1, <2>2, <2>3
<1> DEFINE F == CHOOSE g : g = [i \in 0..Len(s) |-> V(g, i)]
<1>4. F = [i \in 0..Len(s) |-> V(F, i)]
  <2>1. Len(s) \in Nat
    OBVIOUS
  <2> QED
    BY <1>3, <2>1
<1>5. Without(s, D) = F[Len(s)]
  BY Zenon DEF Without
<1> HIDE DEF F
<1>6. Len(s) \in Nat
  OBVIOUS
<1>7. DOMAIN F = 0..Len(s) /\ F[0] = <<>>
  BY <1>4, <1>6
<1>8. ASSUME NEW i \in 1..Len(s)
      PROVE  F[i] = IF s[i] \in D THEN F[i - 1] ELSE Append(F[i - 1], s[i])
  <2>1. i \in 0..Len(s) /\ i # 0
    BY <1>6
  <2>2. F[i] = V(F, i)
    BY <1>4, <2>1
  <2> QED
    BY <2>1, <2>2
<1> QED
  BY <1>5, <1>7, <1>8

(* e says where the values that are left were: in the same order, every one  *)
(* that is not in D and no other.                                            *)
Places(s, D, e) ==
    /\ e \in [1..Len(Without(s, D)) -> 1..Len(s)]
    /\ \A i, j \in 1..Len(Without(s, D)) : i < j => e[i] < e[j]
    /\ \A i \in 1..Len(Without(s, D)) : Without(s, D)[i] = s[e[i]] /\ s[e[i]] \notin D
    /\ \A k \in 1..Len(s) : s[k] \notin D => \E i \in 1..Len(Without(s, D)) : e[i] = k

LEMMA WithoutKeepsOrder ==
    ASSUME NEW S, NEW s \in Seq(S), NEW D
    PROVE  Without(s, D) \in Seq(S) /\ \E e : Places(s, D, e)
<1> DEFINE PlacesTo(r, n, e) ==
              /\ e \in [1..Len(r) -> 1..n]
              /\ \A i, j \in 1..Len(r) : i < j => e[i] < e[j]
              /\ \A i \in 1..Len(r) : r[i] = s[e[i]] /\ s[e[i]] \notin D
              /\ \A k \in 1..n : s[k] \notin D => \E i \in 1..Len(r) : e[i] = k
<1>1. PICK f : /\ DOMAIN f = 0..Len(s) /\ f[0] = <<>> /\ Without(s, D) = f[Len(s)]
               /\ \A i \in 1..Len(s) :
                     f[i] = IF s[i] \in D THEN f[i - 1] ELSE Append(f[i - 1], s[i])
  BY WithoutIsDefined
<1> DEFINE Good(n) == f[n] \in Seq(S) /\ \E e : PlacesTo(f[n], n, e)
           Bad == {n \in Nat : n <= Len(s) /\ ~Good(n)}
<1>2. Len(s) \in Nat
  OBVIOUS
<1>3. Good(0)
  <2>1. f[0] \in Seq(S) /\ Len(f[0]) = 0
    BY <1>1
  <2>2. PlacesTo(f[0], 0, [i \in 1..0 |-> i])
    BY <2>1
  <2> QED
    BY <2>1, <2>2
<1>4. ASSUME NEW n \in 1..Len(s), Good(n - 1) PROVE Good(n)
  <2> DEFINE r == f[n - 1]
  <2>1. r \in Seq(S) /\ Len(r) \in Nat /\ n - 1 \in Nat /\ n \in Nat /\ s[n] \in S
    BY <1>4, <1>2
  <2>2. PICK e : PlacesTo(r, n - 1, e)
    BY <1>4
  <2>3. CASE s[n] \in D
    <3>1. f[n] = r
      BY <1>1, <2>3
    <3> HIDE DEF r
    <3>2. PlacesTo(r, n, e)
      <4>1. \A k \in 1..n : k \in 1..(n - 1) \/ k = n
        BY <2>1
      <4>2. \A k \in 1..n : s[k] \notin D => \E i \in 1..Len(r) : e[i] = k
        BY <2>2, <2>3, <4>1
      <4>3. e \in [1..Len(r) -> 1..n]
        BY <2>1, <2>2
      <4> QED
        BY <2>2, <4>2, <4>3
    <3> HIDE DEF PlacesTo
    <3> QED
      BY <2>1, <3>1, <3>2
  <2>4. CASE s[n] \notin D
    <3> DEFINE t == Append(r, s[n])
               m == Len(r) + 1
               d == [i \in 1..m |-> IF i = m THEN n ELSE e[i]]
    <3>1. f[n] = t
      BY <1>1, <2>4
    <3> HIDE DEF r
    <3>2. /\ t \in Seq(S) /\ Len(t) = m /\ m \in Nat /\ t[m] = s[n]
          /\ \A i \in 1..Len(r) : t[i] = r[i]
      BY <2>1, AppendProperties
    <3> HIDE DEF t
    <3>3. \A i \in 1..m : i = m \/ (i # m /\ i \in 1..Len(r) /\ e[i] \in 1..(n - 1))
      <4>1. e \in [1..Len(r) -> 1..(n - 1)] /\ Len(r) \in Nat
        BY <2>1, <2>2
      <4>2. \A i \in 1..m : i = m \/ (i # m /\ i \in 1..Len(r))
        BY <4>1
      <4> HIDE DEF PlacesTo
      <4> QED
        BY <4>1, <4>2
    <3>4. d \in [1..m -> 1..n]
      BY <2>1, <3>3
    <3>5. ASSUME NEW i \in 1..m, NEW j \in 1..m, i < j PROVE d[i] < d[j]
      <4>1. i # m /\ i \in 1..Len(r) /\ e[i] \in 1..(n - 1) /\ d[i] = e[i]
        BY <3>3, <3>5, <2>1
      <4>2. CASE j = m
        BY <4>1, <4>2, <2>1
      <4>3. CASE j # m
        BY <4>1, <4>3, <3>3, <3>5, <2>2
      <4> QED
        BY <4>2, <4>3
    <3>6. ASSUME NEW i \in 1..m PROVE t[i] = s[d[i]] /\ s[d[i]] \notin D
      <4>1. CASE i = m
        BY <4>1, <3>2, <2>4
      <4>2. CASE i # m
        BY <4>2, <3>2, <3>3, <2>2
      <4> QED
        BY <4>1, <4>2
    <3>7. ASSUME NEW k \in 1..n, s[k] \notin D PROVE \E i \in 1..m : d[i] = k
      <4>1. CASE k = n
        <5>1. m \in 1..m /\ d[m] = n
          BY <3>2, <2>1
        <5> QED
          BY <4>1, <5>1
      <4>2. CASE k # n
        <5>1. k \in 1..(n - 1)
          BY <4>2, <2>1
        <5>2. PICK i \in 1..Len(r) : e[i] = k
          BY <2>2, <3>7, <5>1
        <5>3. i \in 1..m /\ i # m /\ d[i] = e[i]
          BY <2>1
        <5> QED
          BY <5>2, <5>3
      <4> QED
        BY <4>1, <4>2
    <3> HIDE DEF d
    <3>8. PlacesTo(t, n, d)
      BY <3>2, <3>4, <3>5, <3>6, <3>7
    <3> HIDE DEF PlacesTo
    <3> QED
      BY <3>1, <3>2, <3>8
  <2> QED
    BY <2>3, <2>4
<1>5. Good(Len(s))
  <2> SUFFICES ASSUME Bad # {} PROVE FALSE
    BY <1>2
  <2> HIDE DEF Good
  <2>1. PICK n \in Bad : \A m \in Bad : n <= m
    BY LeastNumber
  <2>2. n \in 1..Len(s) /\ n - 1 \in Nat /\ n - 1 <= Len(s) /\ n - 1 \notin Bad
    BY <1>2, <1>3, <2>1
  <2>3. Good(n - 1)
    BY <2>2
  <2> QED
    BY <1>4, <2>1, <2>2, <2>3
<1>6. PICK e : PlacesTo(f[Len(s)], Len(s), e)
  BY <1>5
<1>7. Places(s, D, e)
  BY <1>1, <1>6 DEF Places
<1> QED
  BY <1>1, <1>5, <1>7

(* When all that is taken out is in front, the rest is left as it was. *)
LEMMA WithoutFront ==
    ASSUME NEW S, NEW s \in Seq(S), NEW D, NEW f \in 1..(Len(s) + 1),
           \A k \in 1..Len(s) : s[k] \in D <=> k < f
    PROVE  /\ Without(s, D) \in Seq(S) /\ Len(Without(s, D)) = Len(s) - f + 1
           /\ \A i \in 1..(Len(s) - f + 1) : Without(s, D)[i] = s[f + i - 1]
<1>1. PICK g : /\ DOMAIN g = 0..Len(s) /\ g[0] = <<>> /\ Without(s, D) = g[Len(s)]
               /\ \A i \in 1..Len(s) :
                     g[i] = IF s[i] \in D THEN g[i - 1] ELSE Append(g[i - 1], s[i])
  BY WithoutIsDefined
<1> DEFINE Left(n) == IF n < f THEN 0 ELSE n - f + 1
           Good(n) == /\ g[n] \in Seq(S) /\ Len(g[n]) = Left(n)
                      /\ \A i \in 1..Left(n) : g[n][i] = s[f + i - 1]
           Bad == {n \in Nat : n <= Len(s) /\ ~Good(n)}
<1>2. Len(s) \in Nat /\ f \in Nat \ {0} /\ f <= Len(s) + 1
  OBVIOUS
<1>3. Good(0)
  <2>1. Left(0) = 0 /\ g[0] = <<>> /\ 1..0 = {}
    BY <1>1, <1>2
  <2> QED
    BY <2>1
<1>4. ASSUME NEW n \in 1..Len(s), Good(n - 1) PROVE Good(n)
  <2> DEFINE r == g[n - 1]
  <2>1. n \in Nat /\ n - 1 \in Nat /\ s[n] \in S /\ (s[n] \in D <=> n < f)
    BY <1>2
  <2>2. r \in Seq(S) /\ Len(r) = Left(n - 1) /\ \A i \in 1..Left(n - 1) : r[i] = s[f + i - 1]
    BY <1>4
  <2>3. CASE n < f
    <3>1. g[n] = r /\ Left(n) = 0 /\ Left(n - 1) = 0
      BY <1>1, <1>2, <2>1, <2>3
    <3> HIDE DEF r
    <3> QED
      BY <2>2, <3>1
  <2>4. CASE ~(n < f)
    <3>1. g[n] = Append(r, s[n])
      BY <1>1, <2>1, <2>4
    <3>2. Left(n) = n - f + 1 /\ Left(n - 1) = n - f /\ n - f \in Nat
      BY <1>2, <2>1, <2>4
    <3> HIDE DEF r, Left
    <3>3. /\ Append(r, s[n]) \in Seq(S) /\ Len(Append(r, s[n])) = n - f + 1
          /\ \A i \in 1..(n - f) : Append(r, s[n])[i] = r[i]
          /\ Append(r, s[n])[n - f + 1] = s[n]
      <4>1. Len(r) = n - f
        BY <2>2, <3>2
      <4>2. /\ Append(r, s[n]) \in Seq(S) /\ Len(Append(r, s[n])) = Len(r) + 1
            /\ \A i \in 1..Len(r) : Append(r, s[n])[i] = r[i]
            /\ Append(r, s[n])[Len(r) + 1] = s[n]
        BY <2>1, <2>2, AppendProperties
      <4> QED
        BY <4>1, <4>2
    <3>4. ASSUME NEW i \in 1..(n - f + 1) PROVE g[n][i] = s[f + i - 1]
      <4>1. CASE i \in 1..(n - f)
        BY <2>2, <3>1, <3>2, <3>3, <4>1
      <4>2. CASE i = n - f + 1
        <5>1. f + i - 1 = n
          BY <1>2, <2>1, <4>2
        <5> QED
          BY <3>1, <3>3, <4>2, <5>1
      <4> QED
        BY <1>2, <2>1, <4>1, <4>2
    <3> QED
      BY <3>1, <3>2, <3>3, <3>4
  <2> QED
    BY <2>3, <2>4
<1>5. Good(Len(s))
  <2> SUFFICES ASSUME ~Good(Len(s)) PROVE FALSE
    OBVIOUS
  <2> HIDE DEF Good
  <2>1. Bad \in SUBSET Nat /\ Len(s) \in Bad
    BY <1>2
  <2>2. PICK n \in Bad : \A m \in Bad : n <= m
    <3> HIDE DEF Bad
    <3> QED
      BY <2>1, LeastNumber
  <2>3. n \in 1..Len(s) /\ n - 1 \in Nat /\ n - 1 <= Len(s) /\ n - 1 \notin Bad
    BY <1>2, <1>3, <2>2
  <2>4. Good(n - 1)
    BY <2>3
  <2> QED
    BY <1>4, <2>2, <2>3, <2>4
<1>6. Left(Len(s)) = Len(s) - f + 1
  BY <1>2
<1> HIDE DEF Left
<1> QED
  BY <1>1, <1>5, <1>6
=============================================================================
