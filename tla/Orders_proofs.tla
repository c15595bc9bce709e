---------------------------- MODULE Orders_proofs ----------------------------
(***************************************************************************)
(* Facts about numbers, orders and steps that the proofs about several     *)
(* components rest on: a set of numbers has a least one, what is computed  *)
(* step by step exists and stays where each step leaves it, and each place *)
(* in an order of a finite set is taken.                                   *)
(***************************************************************************)
EXTENDS Integers, FiniteSetTheorems, WellFoundedInduction, TLAPS

-----------------------------------------------------------------------------
(* A set of naturals that is not empty has a least element.                *)
LEMMA LeastElement ==
  ASSUME NEW T \in SUBSET Nat, T # {}
  PROVE  \E x \in T : \A y \in T : x <= y
<1> DEFINE Less == {ss \in Nat \X Nat : ss[1] < ss[2]}
<1>1. IsWellFoundedOn(Less, Nat)
  BY NatLessThanWellFounded DEF OpToRel
<1>2. PICK x \in T : \A y \in T : ~ (<<y, x>> \in Less)
  BY <1>1, WFMin
<1>3. \A y \in T : y < x => <<y, x>> \in Less
  <2> TAKE y \in T
  <2> HAVE y < x
  <2>1. <<y, x>> \in Nat \X Nat /\ <<y, x>>[1] = y /\ <<y, x>>[2] = x
    OBVIOUS
  <2> QED
    BY <2>1
<1>4. \A y \in T : ~ (y < x)
  BY <1>2, <1>3
<1> QED
  BY <1>4

(* What is computed in n steps, one from the other, stays where each step  *)
(* leaves it.                                                              *)
IsIterated(f, n, v0, step) ==
  /\ DOMAIN f = 0..n /\ f[0] = v0
  /\ \A k \in 1..n : f[k] = step[<<k, f[k - 1]>>]

LEMMA Iterated ==
  ASSUME NEW n \in Nat, NEW V, NEW v0 \in V[0], NEW step,
         \A k \in 1..n : \A v \in V[k - 1] : step[<<k, v>>] \in V[k]
  PROVE  /\ \E f : f = [k \in 0..n |-> f[k]] /\ IsIterated(f, n, v0, step)
         /\ \A f : IsIterated(f, n, v0, step) => \A k \in 0..n : f[k] \in V[k]
<1> DEFINE Upto(m, f) == f = [k \in 0..m |-> f[k]] /\ IsIterated(f, m, v0, step)
           Fails == {m \in 0..n : ~ \E f : Upto(m, f)}
<1>1. ASSUME NEW m \in Nat, m < n, NEW f, Upto(m, f) PROVE \E g : Upto(m + 1, g)
  <2>1. PICK g : g = [k \in 0..(m + 1) |-> IF k = m + 1 THEN step[<<m + 1, f[m]>>] ELSE f[k]]
    OBVIOUS
  <2>2. g[0] = v0
    <3>1. 0 \in 0..(m + 1) /\ 0 # m + 1
      OBVIOUS
    <3> QED
      BY <1>1, <2>1, <3>1 DEF IsIterated
  <2>3. ASSUME NEW k \in 1..(m + 1) PROVE g[k] = step[<<k, g[k - 1]>>]
    <3>1. k - 1 \in 0..(m + 1) /\ k - 1 # m + 1 /\ k \in 0..(m + 1)
      OBVIOUS
    <3>2. g[k - 1] = f[k - 1]
      BY <2>1, <3>1
    <3>3. CASE k = m + 1
      <4>1. k - 1 = m
        BY <3>3
      <4> QED
        BY <2>1, <3>1, <3>2, <3>3, <4>1
    <3>4. CASE k # m + 1
      <4>1. k \in 1..m
        BY <3>4
      <4>2. g[k] = f[k] /\ f[k] = step[<<k, f[k - 1]>>]
        BY <1>1, <2>1, <3>1, <3>4, <4>1 DEF IsIterated
      <4> QED
        BY <3>2, <4>2
    <3> QED
      BY <3>3, <3>4
  <2>4. DOMAIN g = 0..(m + 1)
    BY <2>1
  <2>5. g = [k \in 0..(m + 1) |-> g[k]]
    BY <2>1
  <2> QED
    BY <2>2, <2>3, <2>4, <2>5 DEF IsIterated
<1>2. Fails = {}
  <2> SUFFICES ASSUME Fails # {} PROVE FALSE
    OBVIOUS
  <2>1. Fails \in SUBSET Nat
    OBVIOUS
  <2>2. PICK m \in Fails : \A j \in Fails : m <= j
    <3> HIDE DEF Fails
    <3> QED
      BY <2>1, LeastElement
  <2>3. m # 0
    <3>1. PICK f : f = [k \in 0..0 |-> v0]
      OBVIOUS
    <3>2. DOMAIN f = 0..0 /\ f[0] = v0 /\ f = [k \in 0..0 |-> f[k]]
      BY <3>1
    <3>3. IsIterated(f, 0, v0, step)
      BY <3>2 DEF IsIterated
    <3> QED
      BY <2>2, <3>2, <3>3
  <2>4. m - 1 \in 0..n /\ ~ (m <= m - 1) /\ m - 1 \in Nat /\ (m - 1) + 1 = m /\ m - 1 < n
    <3>1. m \in 0..n
      BY <2>2
    <3> QED
      BY ONLY <2>3, <3>1, n \in Nat
  <2>5. PICK f : Upto(m - 1, f)
    BY <2>2, <2>4
  <2>6. \E g : Upto((m - 1) + 1, g)
    <3> HIDE DEF Upto
    <3> QED
      BY <1>1, <2>4, <2>5
  <2> QED
    BY <2>2, <2>4, <2>6
<1>3. ASSUME NEW f, IsIterated(f, n, v0, step) PROVE \A k \in 0..n : f[k] \in V[k]
  <2> DEFINE Out == {k \in 0..n : f[k] \notin V[k]}
  <2> SUFFICES ASSUME Out # {} PROVE FALSE
    OBVIOUS
  <2>1. Out \in SUBSET Nat
    OBVIOUS
  <2>2. PICK k \in Out : \A j \in Out : k <= j
    <3> HIDE DEF Out
    <3> QED
      BY <2>1, LeastElement
  <2>3. k # 0
    BY <1>3, <2>2 DEF IsIterated
  <2>4. k \in 1..n /\ k - 1 \in 0..n /\ ~ (k <= k - 1)
    BY <2>2, <2>3
  <2>5. f[k - 1] \in V[k - 1]
    BY <2>2, <2>4
  <2> QED
    BY <1>3, <2>2, <2>4, <2>5 DEF IsIterated
<1> QED
  BY <1>2, <1>3

LEMMA StaysIn ==
  ASSUME NEW n \in Nat, NEW V, NEW f, f[0] \in V[0],
         \A k \in 1..n : f[k - 1] \in V[k - 1] => f[k] \in V[k]
  PROVE  \A k \in 0..n : f[k] \in V[k]
<1> DEFINE Out == {k \in 0..n : f[k] \notin V[k]}
<1> SUFFICES ASSUME Out # {} PROVE FALSE
  OBVIOUS
<1>1. Out \in SUBSET Nat
  OBVIOUS
<1>2. PICK k \in Out : \A j \in Out : k <= j
  <2> HIDE DEF Out
  <2> QED
    BY <1>1, LeastElement
<1>3. k # 0
  BY <1>2
<1>4. k \in 1..n /\ k - 1 \in 0..n /\ ~ (k <= k - 1)
  BY <1>2, <1>3
<1>5. f[k - 1] \in V[k - 1]
  BY <1>2, <1>4
<1> QED
  BY <1>2, <1>4, <1>5

IsRun(f, n, v0, step, V) ==
  /\ f = [k \in 0..n |-> f[k]] /\ f[0] = v0
  /\ \A k \in 1..n : f[k] = step[<<k, f[k - 1]>>]
  /\ \A k \in 0..n : f[k] \in V[k]
LEMMA IteratedExists ==
  ASSUME NEW n \in Nat, NEW V, NEW v0 \in V[0], NEW step,
         \A k \in 1..n : \A v \in V[k - 1] : step[<<k, v>>] \in V[k]
  PROVE  \E f : IsRun(f, n, v0, step, V)
<1>1. PICK f : f = [k \in 0..n |-> f[k]] /\ IsIterated(f, n, v0, step)
  BY Iterated
<1>2. \A k \in 0..n : f[k] \in V[k]
  BY <1>1, Iterated
<1> QED
  BY <1>1, <1>2 DEF IsIterated, IsRun

-----------------------------------------------------------------------------
(* The elements of a finite set in an order: each place is taken once.     *)
TotalOrder(R, S) ==
  /\ \A x \in S : <<x, x>> \notin R
  /\ \A x, y \in S : x = y \/ <<x, y>> \in R \/ <<y, x>> \in R
  /\ \A x, y, z \in S : <<x, y>> \in R /\ <<y, z>> \in R => <<x, z>> \in R
Behind(R, S, x) == {y \in S : <<y, x>> \in R}

LEMMA Places ==
  ASSUME NEW S, IsFiniteSet(S), NEW R, TotalOrder(R, S)
  PROVE  /\ Cardinality(S) \in Nat
         /\ \A x \in S : Cardinality(Behind(R, S, x)) \in 0..(Cardinality(S) - 1)
         /\ \A x, z \in S : <<x, z>> \in R <=>
              Cardinality(Behind(R, S, x)) < Cardinality(Behind(R, S, z))
         /\ \A x, z \in S :
              Cardinality(Behind(R, S, x)) = Cardinality(Behind(R, S, z)) => x = z
         /\ \A i \in 0..(Cardinality(S) - 1) : \E x \in S : Cardinality(Behind(R, S, x)) = i
<1> DEFINE below == [x \in S |-> Behind(R, S, x)]
<1>0. /\ \A x \in S : below[x] = {y \in S : <<y, x>> \in R} /\ below[x] = Behind(R, S, x)
      /\ Cardinality(S) \in Nat
  BY FS_CardinalityType DEF Behind
<1> HIDE DEF below
<1>1. ASSUME NEW x \in S PROVE Cardinality(below[x]) \in 0..(Cardinality(S) - 1)
  <2>0. below[x] = {y \in S : <<y, x>> \in R} /\ <<x, x>> \notin R
    BY <1>0, <1>1 DEF TotalOrder
  <2>1. below[x] \in SUBSET S /\ x \notin below[x]
    BY ONLY <2>0
  <2>2. /\ IsFiniteSet(below[x]) /\ Cardinality(below[x]) <= Cardinality(S)
        /\ Cardinality(below[x]) # Cardinality(S)
    BY <1>1, <2>1, FS_Subset, FS_CardinalityType
  <2>3. Cardinality(below[x]) \in Nat
    BY <2>2, FS_CardinalityType
  <2> QED
    BY <1>0, <2>2, <2>3
<1>2. ASSUME NEW x \in S, NEW z \in S, <<x, z>> \in R
      PROVE  Cardinality(below[x]) < Cardinality(below[z])
  <2>1. below[x] \in SUBSET below[z]
    BY <1>0, <1>2 DEF TotalOrder
  <2>2. x \in below[z] /\ x \notin below[x]
    <3>1. /\ below[x] = {y \in S : <<y, x>> \in R} /\ <<x, x>> \notin R
          /\ below[z] = {y \in S : <<y, z>> \in R}
      BY <1>0, <1>2 DEF TotalOrder
    <3> QED
      BY ONLY <3>1, <1>2
  <2>3. IsFiniteSet(below[z])
    <3>1. below[z] \in SUBSET S
      BY <1>0, <1>2
    <3> QED
      BY <3>1, FS_Subset
  <2>4. /\ Cardinality(below[x]) # Cardinality(below[z])
        /\ Cardinality(below[x]) <= Cardinality(below[z])
    BY <2>1, <2>2, <2>3, FS_Subset
  <2> QED
    BY <1>1, <2>4
<1>3. ASSUME NEW x \in S, NEW z \in S, Cardinality(below[x]) = Cardinality(below[z])
      PROVE  x = z
  <2>1. x = z \/ <<x, z>> \in R \/ <<z, x>> \in R
    BY <1>3 DEF TotalOrder
  <2> QED
    BY <1>1, <1>2, <1>3, <2>1
<1>4. ASSUME NEW x \in S, NEW z \in S, Cardinality(below[x]) < Cardinality(below[z])
      PROVE  <<x, z>> \in R
  <2>1. x = z \/ <<x, z>> \in R \/ <<z, x>> \in R
    BY <1>4 DEF TotalOrder
  <2>2. Cardinality(below[x]) \in Int /\ Cardinality(below[z]) \in Int
    BY <1>1
  <2>3. x # z
    BY <1>4, <2>2
  <2>4. CASE <<z, x>> \in R
    <3>1. Cardinality(below[z]) < Cardinality(below[x])
      BY <1>2, <2>4
    <3> QED
      BY <1>4, <2>2, <3>1
  <2> QED
    BY <2>1, <2>3, <2>4
<1>5. ASSUME NEW i \in 0..(Cardinality(S) - 1)
      PROVE  \E x \in S : Cardinality(below[x]) = i
  <2>1. PICK n \in Nat : n = Cardinality(S)
    BY <1>0
  <2>2. PICK c : c = [x \in S |-> Cardinality(below[x])]
    OBVIOUS
  <2>3. c \in Injection(S, 0..(n - 1))
    BY <1>1, <1>3, <2>1, <2>2 DEF Injection, IsInjective
  <2>4. IsFiniteSet(0..(n - 1)) /\ Cardinality(0..(n - 1)) = n
    <3>1. 0 \in Int /\ n - 1 \in Int /\ (0 > n - 1 => n = 0) /\ (n - 1) - 0 + 1 = n
      BY <2>1
    <3> QED
      BY <3>1, FS_Interval
  <2>5. c \in Surjection(S, 0..(n - 1))
    BY <2>1, <2>3, <2>4, FS_Injection
  <2> QED
    BY <1>5, <2>1, <2>2, <2>5 DEF Surjection
<1> QED
  BY <1>0, <1>1, <1>2, <1>3, <1>4, <1>5

LEMMA PlaceTaken ==
  ASSUME NEW S, IsFiniteSet(S), NEW R, TotalOrder(R, S), NEW i \in 0..(Cardinality(S) - 1)
  PROVE  \E x \in S : Cardinality(Behind(R, S, x)) = i
BY Places

(* Numbers in their order.                                                 *)
Smaller(S) == {e \in S \X S : e[1] < e[2]}

LEMMA NumbersOrdered ==
  ASSUME NEW S \in SUBSET Int
  PROVE  TotalOrder(Smaller(S), S) /\ \A x \in S : Behind(Smaller(S), S, x) = {y \in S : y < x}
<1>1. \A x, y \in S : <<x, y>> \in Smaller(S) <=> x < y
  <2> TAKE x \in S, y \in S
  <2>1. <<x, y>> \in S \X S /\ <<x, y>>[1] = x /\ <<x, y>>[2] = y
    OBVIOUS
  <2> QED
    BY <2>1 DEF Smaller
<1>2. \A x \in S : Behind(Smaller(S), S, x) = {y \in S : y < x}
  BY <1>1 DEF Behind
<1>3. PICK R : R = Smaller(S)
  OBVIOUS
<1>4. \A x, y \in S : <<x, y>> \in R <=> x < y
  BY <1>1, <1>3
<1>5. (\A x \in S : <<x, x>> \notin R) /\ \A x, y \in S : x = y \/ <<x, y>> \in R \/ <<y, x>> \in R
  BY <1>4
<1>6. \A x, y, z \in S : <<x, y>> \in R /\ <<y, z>> \in R => <<x, z>> \in R
  <2> TAKE x \in S, y \in S, z \in S
  <2>1. (<<x, y>> \in R <=> x < y) /\ (<<y, z>> \in R <=> y < z) /\ (<<x, z>> \in R <=> x < z)
    BY <1>4
  <2> QED
    BY <2>1
<1>7. TotalOrder(R, S)
  BY <1>5, <1>6 DEF TotalOrder
<1> QED
  BY <1>2, <1>3, <1>7
=============================================================================
