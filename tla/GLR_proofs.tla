----------------------------- MODULE GLR_proofs -----------------------------
(***************************************************************************)
(* Proofs about the parser core, for all tables that are made from items,  *)
(* all texts and all user actions, either in a build that checks its       *)
(* assertions (~ NDebug) or for a grammar without hidden left recursion:   *)
(* otherwise the mini-LR core can go on where PoppedLinkUnshared is false, *)
(* and the counts are wrong from there on.                                 *)
(***************************************************************************)
EXTENDS GLRProperties, Orders_proofs, SequenceTheorems

-----------------------------------------------------------------------------
(* Stacks: what a list holds, how often, and which links there are and     *)
(* where they lead, when a node is added or removed or gains a link.       *)
(* Nothing here is about a state: the stacks and lists are constants.      *)
Elems(list) == {list[i] : i \in DOMAIN list}

(* How often n is on a list.                                               *)
Occ(n, list) == Cardinality(PlacesOf(n, list))
OneIf(b) == IF b THEN 1 ELSE 0

(* The shape of a stack: the nodes that the links of each node lead to.    *)
Shape(ns) ==
  [n \in DOMAIN ns |-> [k \in DOMAIN ns[n].sibs |-> ns[n].sibs[k].sib]]
IsShape(w) ==
  /\ w = [n \in DOMAIN w |-> w[n]]
  /\ DOMAIN w \in SUBSET NodeId /\ IsFiniteSet(DOMAIN w)
  /\ \A n \in DOMAIN w : w[n] \in Seq(NodeId)

LinksOf(w) == UNION {{<<n, k>> : k \in DOMAIN w[n]} : n \in DOMAIN w}
Into(w, n) == {link \in LinksOf(w) : w[link[1]][link[2]] = n}
In(w, n) == Cardinality(Into(w, n))

-----------------------------------------------------------------------------
(* Lists.                                                                  *)
LEMMA SeqWithin ==
  ASSUME NEW S, NEW T, NEW s \in Seq(S), \A i \in DOMAIN s : s[i] \in T
  PROVE  s \in Seq(T)
<1>1. DOMAIN s = 1..Len(s) /\ Len(s) \in Nat /\ s = [i \in 1..Len(s) |-> s[i]]
  OBVIOUS
<1> QED
  BY <1>1

LEMMA PlacesFinite ==
  ASSUME NEW S, NEW list \in Seq(S), NEW n
  PROVE  /\ PlacesOf(n, list) \subseteq 1..Len(list)
         /\ IsFiniteSet(PlacesOf(n, list))
         /\ Occ(n, list) \in Nat
<1>1. PlacesOf(n, list) \subseteq 1..Len(list) /\ Len(list) \in Nat
  BY DEF PlacesOf
<1>2. IsFiniteSet(1..Len(list))
  BY <1>1, FS_Interval
<1>3. IsFiniteSet(PlacesOf(n, list))
  BY <1>1, <1>2, FS_Subset
<1> QED
  BY <1>1, <1>3, FS_CardinalityType DEF Occ

LEMMA OccEmpty ==
  ASSUME NEW n
  PROVE  Occ(n, << >>) = 0
<1>1. PlacesOf(n, << >>) = {}
  BY DEF PlacesOf
<1> QED
  BY <1>1, FS_EmptySet DEF Occ

LEMMA OccOne ==
  ASSUME NEW n, NEW x
  PROVE  Occ(n, <<x>>) = OneIf(n = x)
<1>1. CASE n = x
  <2>1. PlacesOf(n, <<x>>) = {1}
    BY <1>1 DEF PlacesOf
  <2> QED
    BY <1>1, <2>1, FS_Singleton DEF Occ, OneIf
<1>2. CASE n # x
  <2>1. PlacesOf(n, <<x>>) = {}
    BY <1>2 DEF PlacesOf
  <2> QED
    BY <1>2, <2>1, FS_EmptySet DEF Occ, OneIf
<1> QED
  BY <1>1, <1>2

LEMMA OccConcat ==
  ASSUME NEW S, NEW s \in Seq(S), NEW t \in Seq(S), NEW n
  PROVE  Occ(n, s \o t) = Occ(n, s) + Occ(n, t)
<1> DEFINE U == {Len(s) + i : i \in PlacesOf(n, t)}
           f == [i \in PlacesOf(n, t) |-> Len(s) + i]
<1>1. /\ PlacesOf(n, s) \subseteq 1..Len(s) /\ PlacesOf(n, t) \subseteq 1..Len(t)
      /\ IsFiniteSet(PlacesOf(n, s)) /\ IsFiniteSet(PlacesOf(n, t))
      /\ Len(s) \in Nat /\ Len(t) \in Nat
  BY PlacesFinite
<1>2. f \in Bijection(PlacesOf(n, t), U)
  BY <1>1 DEF Bijection, Injection, Surjection, IsInjective
<1>3. IsFiniteSet(U) /\ Cardinality(U) = Cardinality(PlacesOf(n, t))
  BY <1>1, <1>2, FS_Bijection DEF ExistsBijection
<1>4. PlacesOf(n, s \o t) = PlacesOf(n, s) \cup U
  <2>1. /\ DOMAIN (s \o t) = 1..(Len(s) + Len(t))
        /\ \A i \in 1..(Len(s) + Len(t)) :
             (s \o t)[i] = IF i <= Len(s) THEN s[i] ELSE t[i - Len(s)]
    OBVIOUS
  <2>2. ASSUME NEW i \in PlacesOf(n, s \o t) PROVE i \in PlacesOf(n, s) \cup U
    <3>1. i \in 1..(Len(s) + Len(t)) /\ (s \o t)[i] = n
      BY <2>1 DEF PlacesOf
    <3>2. CASE i <= Len(s)
      <4>1. i \in DOMAIN s /\ s[i] = n
        BY <2>1, <3>1, <3>2, <1>1
      <4> QED
        BY <4>1 DEF PlacesOf
    <3>3. CASE ~ (i <= Len(s))
      <4>1. i - Len(s) \in DOMAIN t /\ t[i - Len(s)] = n
        BY <2>1, <3>1, <3>3, <1>1
      <4>2. i - Len(s) \in PlacesOf(n, t) /\ i = Len(s) + (i - Len(s))
        BY <4>1, <3>1, <1>1 DEF PlacesOf
      <4> QED
        BY <4>2
    <3> QED
      BY <3>2, <3>3
  <2>3. ASSUME NEW i \in PlacesOf(n, s) PROVE i \in PlacesOf(n, s \o t)
    <3>1. i \in 1..Len(s) /\ s[i] = n
      BY <1>1 DEF PlacesOf
    <3> QED
      BY <2>1, <3>1, <1>1 DEF PlacesOf
  <2>4. ASSUME NEW j \in PlacesOf(n, t) PROVE Len(s) + j \in PlacesOf(n, s \o t)
    <3>1. j \in 1..Len(t) /\ t[j] = n
      BY <1>1 DEF PlacesOf
    <3>2. Len(s) + j \in 1..(Len(s) + Len(t)) /\ (s \o t)[Len(s) + j] = t[j]
      BY <2>1, <3>1, <1>1
    <3> QED
      BY <2>1, <3>1, <3>2 DEF PlacesOf
  <2> QED
    BY <2>2, <2>3, <2>4
<1>5. PlacesOf(n, s) \cap U = {}
  BY <1>1
<1> HIDE DEF U
<1>6. Cardinality(PlacesOf(n, s) \cup U) =
        Cardinality(PlacesOf(n, s)) + Cardinality(U) - Cardinality(PlacesOf(n, s) \cap U)
  BY <1>1, <1>3, FS_Union
<1>7. Cardinality(PlacesOf(n, s) \cap U) = 0
  BY <1>5, FS_EmptySet
<1>8. Cardinality(PlacesOf(n, s)) \in Nat /\ Cardinality(PlacesOf(n, t)) \in Nat
  BY <1>1, FS_CardinalityType
<1> QED
  BY <1>3, <1>4, <1>6, <1>7, <1>8 DEF Occ

LEMMA OccAppend ==
  ASSUME NEW S, NEW s \in Seq(S), NEW x \in S, NEW n
  PROVE  Occ(n, Append(s, x)) = Occ(n, s) + OneIf(n = x)
<1>1. Append(s, x) = s \o <<x>> /\ <<x>> \in Seq(S)
  OBVIOUS
<1>2. Occ(n, s \o <<x>>) = Occ(n, s) + Occ(n, <<x>>)
  BY <1>1, OccConcat
<1> QED
  BY <1>1, <1>2, OccOne

LEMMA OccTail ==
  ASSUME NEW S, NEW s \in Seq(S), s # << >>, NEW n
  PROVE  Occ(n, s) = OneIf(n = Head(s)) + Occ(n, Tail(s))
<1>1. s = <<Head(s)>> \o Tail(s) /\ <<Head(s)>> \in Seq(S) /\ Tail(s) \in Seq(S)
  OBVIOUS
<1>2. Occ(n, <<Head(s)>> \o Tail(s)) = Occ(n, <<Head(s)>>) + Occ(n, Tail(s))
  BY <1>1, OccConcat
<1>3. Occ(n, <<Head(s)>>) = OneIf(n = Head(s))
  BY OccOne
<1> QED
  BY <1>1, <1>2, <1>3

LEMMA OccFront ==
  ASSUME NEW S, NEW s \in Seq(S), s # << >>, NEW n
  PROVE  Occ(n, s) = Occ(n, SubSeq(s, 1, Len(s) - 1)) + OneIf(n = s[Len(s)])
<1> DEFINE t == SubSeq(s, 1, Len(s) - 1)
<1>1. t \in Seq(S) /\ s[Len(s)] \in S /\ Len(s) \in Nat \ {0}
  <2>1. Len(s) \in Nat \ {0}
    OBVIOUS
  <2>2. Len(s) \in 1..Len(s) /\ s[Len(s)] \in S
    BY <2>1
  <2>3. \A i \in 1..(Len(s) - 1) : s[i] \in S
    BY <2>1
  <2>4. t \in Seq(S)
    BY <2>1, <2>3
  <2> QED
    BY <2>1, <2>2, <2>4
<1>2. Len(t) = Len(s) - 1 /\ \A i \in 1..(Len(s) - 1) : t[i] = s[i]
  <2>1. PICK l \in Nat : l = Len(s) - 1
    BY <1>1
  <2>2. Len(SubSeq(s, 1, l)) = l /\ \A i \in 1..l : SubSeq(s, 1, l)[i] = s[i]
    BY <2>1
  <2> QED
    BY <2>1, <2>2
<1>3. s = Append(t, s[Len(s)])
  <2> HIDE DEF t
  <2>1. Append(t, s[Len(s)]) \in Seq(S) /\ Len(Append(t, s[Len(s)])) = Len(s)
    BY <1>1, <1>2
  <2>2. ASSUME NEW i \in 1..Len(s) PROVE s[i] = Append(t, s[Len(s)])[i]
    BY <1>1, <1>2
  <2> QED
    BY <2>1, <2>2
<1> HIDE DEF t
<1>4. Occ(n, Append(t, s[Len(s)])) = Occ(n, t) + OneIf(n = s[Len(s)])
  BY <1>1, OccAppend
<1> QED
  BY <1>3, <1>4 DEF t

(* The links of a node are dropped in the opposite order.                  *)
LEMMA OccReversed ==
  ASSUME NEW S, NEW s \in Seq(S), NEW n
  PROVE  Occ(n, [k \in 1..Len(s) |-> s[Len(s) + 1 - k]]) = Occ(n, s)
<1> DEFINE r == [k \in 1..Len(s) |-> s[Len(s) + 1 - k]]
           f == [k \in PlacesOf(n, s) |-> Len(s) + 1 - k]
<1>1. Len(s) \in Nat /\ PlacesOf(n, s) \subseteq 1..Len(s) /\ IsFiniteSet(PlacesOf(n, s))
  BY PlacesFinite
<1>2. \A k \in 1..Len(s) : /\ Len(s) + 1 - k \in 1..Len(s)
                           /\ Len(s) + 1 - (Len(s) + 1 - k) = k
  BY <1>1
<1>3. \A k \in 1..Len(s) : k \in PlacesOf(n, r) <=> Len(s) + 1 - k \in PlacesOf(n, s)
  BY <1>1, <1>2 DEF PlacesOf
<1>4. PlacesOf(n, r) \subseteq 1..Len(s)
  BY DEF PlacesOf
<1> HIDE DEF r
<1>5. \A k \in PlacesOf(n, s) : Len(s) + 1 - k \in PlacesOf(n, r)
  BY <1>1, <1>2, <1>3
<1>6. f \in Bijection(PlacesOf(n, s), PlacesOf(n, r))
  <2>1. f \in [PlacesOf(n, s) -> PlacesOf(n, r)]
    BY <1>5
  <2>2. \A j, k \in PlacesOf(n, s) : f[j] = f[k] => j = k
    BY <1>1
  <2>3. \A k \in PlacesOf(n, r) : \E j \in PlacesOf(n, s) : f[j] = k
    <3>1. ASSUME NEW k \in PlacesOf(n, r)
          PROVE  Len(s) + 1 - k \in PlacesOf(n, s) /\ f[Len(s) + 1 - k] = k
      BY <1>1, <1>2, <1>3, <1>4
    <3> QED
      BY <3>1
  <2> QED
    BY <2>1, <2>2, <2>3 DEF Bijection, Injection, Surjection, IsInjective
<1>7. Cardinality(PlacesOf(n, r)) = Cardinality(PlacesOf(n, s))
  BY <1>1, <1>6, FS_Bijection DEF ExistsBijection
<1> QED
  BY <1>7 DEF Occ, r

LEMMA OccPositive ==
  ASSUME NEW S, NEW s \in Seq(S), NEW n
  PROVE  n \in Elems(s) <=> Occ(n, s) # 0
<1>1. n \in Elems(s) <=> PlacesOf(n, s) # {}
  BY DEF Elems, PlacesOf
<1> QED
  BY <1>1, PlacesFinite, FS_EmptySet DEF Occ

-----------------------------------------------------------------------------
(* Links.                                                                  *)
LEMMA LinksAre ==
  ASSUME NEW w, NEW link
  PROVE  link \in LinksOf(w) <=>
           \E n \in DOMAIN w : \E k \in DOMAIN w[n] : link = <<n, k>>
BY DEF LinksOf

LEMMA LinksFinite ==
  ASSUME NEW w, IsShape(w)
  PROVE  /\ IsFiniteSet(LinksOf(w))
         /\ \A n : IsFiniteSet(Into(w, n)) /\ In(w, n) \in Nat
<1> DEFINE L(n) == {<<n, k>> : k \in DOMAIN w[n]}
           T == {L(n) : n \in DOMAIN w}
           f == [n \in DOMAIN w |-> L(n)]
<1>1. IsFiniteSet(DOMAIN w) /\ \A n \in DOMAIN w : w[n] \in Seq(NodeId)
  BY DEF IsShape
<1>2. IsFiniteSet(T)
  <2>1. f \in Surjection(DOMAIN w, T)
    BY DEF Surjection
  <2> QED
    BY <1>1, <2>1, FS_Surjection
<1>3. \A n \in DOMAIN w : IsFiniteSet(L(n))
  <2> SUFFICES ASSUME NEW n \in DOMAIN w PROVE IsFiniteSet(L(n))
    OBVIOUS
  <2>1. DOMAIN w[n] = 1..Len(w[n]) /\ Len(w[n]) \in Nat
    BY <1>1
  <2>2. IsFiniteSet(DOMAIN w[n])
    BY <2>1, FS_Interval
  <2>3. [k \in DOMAIN w[n] |-> <<n, k>>] \in Surjection(DOMAIN w[n], L(n))
    BY DEF Surjection
  <2> QED
    BY <2>2, <2>3, FS_Surjection
<1>4. \A S \in T : IsFiniteSet(S)
  BY <1>3
<1>5. LinksOf(w) = UNION T
  BY DEF LinksOf
<1>6. IsFiniteSet(LinksOf(w))
  <2> HIDE DEF T
  <2> QED
    BY <1>2, <1>4, <1>5, FS_UNION
<1>7. \A n : IsFiniteSet(Into(w, n))
  BY <1>6, FS_Subset DEF Into
<1> QED
  BY <1>6, <1>7, FS_CardinalityType DEF In

LEMMA InPositive ==
  ASSUME NEW w, IsShape(w), NEW n
  PROVE  In(w, n) = 0 <=> \A m \in DOMAIN w : \A k \in DOMAIN w[m] : w[m][k] # n
<1>1. In(w, n) = 0 <=> Into(w, n) = {}
  BY LinksFinite, FS_EmptySet DEF In
<1>2. Into(w, n) = {} <=> \A m \in DOMAIN w : \A k \in DOMAIN w[m] : w[m][k] # n
  <2>1. ASSUME Into(w, n) # {}
        PROVE  \E m \in DOMAIN w : \E k \in DOMAIN w[m] : w[m][k] = n
    <3>1. PICK link \in LinksOf(w) : w[link[1]][link[2]] = n
      BY <2>1 DEF Into
    <3> QED
      BY <3>1, LinksAre
  <2>2. ASSUME NEW m \in DOMAIN w, NEW k \in DOMAIN w[m], w[m][k] = n
        PROVE  <<m, k>> \in Into(w, n)
    BY <2>2, LinksAre DEF Into
  <2> QED
    BY <2>1, <2>2
<1> QED
  BY <1>1, <1>2

(* Link j of x is new in w2, and leads to left.                            *)
HasAlso(w2, w, x, j, left) ==
  /\ <<x, j>> \notin LinksOf(w)
  /\ LinksOf(w2) = LinksOf(w) \cup {<<x, j>>}
  /\ w2[x][j] = left
  /\ \A m \in DOMAIN w : \A k \in DOMAIN w[m] : w2[m][k] = w[m][k]

LEMMA OneLinkMore ==
  ASSUME NEW w, IsShape(w), NEW w2, NEW x, NEW j, NEW left,
         HasAlso(w2, w, x, j, left)
  PROVE  /\ \A n : In(w2, n) = In(w, n) + OneIf(n = left)
         /\ Cardinality(LinksOf(w2)) = Cardinality(LinksOf(w)) + 1
<1>1. \A link \in LinksOf(w) : w2[link[1]][link[2]] = w[link[1]][link[2]]
  BY LinksAre DEF HasAlso
<1>2. \A n : Into(w2, n) = IF n = left THEN Into(w, n) \cup {<<x, j>>} ELSE Into(w, n)
  BY <1>1 DEF Into, HasAlso
<1>3. \A n : <<x, j>> \notin Into(w, n)
  BY DEF Into, HasAlso
<1>4. ASSUME NEW n PROVE In(w2, n) = In(w, n) + OneIf(n = left)
  <2>1. IsFiniteSet(Into(w, n)) /\ In(w, n) \in Nat
    BY LinksFinite
  <2>2. CASE n = left
    <3>1. Into(w2, n) = Into(w, n) \cup {<<x, j>>}
      BY <1>2, <2>2
    <3>2. Cardinality(Into(w, n) \cup {<<x, j>>}) = Cardinality(Into(w, n)) + 1
      BY <1>3, <2>1, FS_AddElement
    <3> QED
      BY <2>2, <3>1, <3>2 DEF In, OneIf
  <2>3. CASE n # left
    <3>1. Into(w2, n) = Into(w, n)
      BY <1>2, <2>3
    <3> QED
      BY <2>1, <2>3, <3>1 DEF In, OneIf
  <2> QED
    BY <2>2, <2>3
<1>5. Cardinality(LinksOf(w2)) = Cardinality(LinksOf(w)) + 1
  BY LinksFinite, FS_AddElement DEF HasAlso
<1> QED
  BY <1>4, <1>5

(* A node is put on top of another one.                                    *)
LEMMA LinksGrown ==
  ASSUME NEW w, IsShape(w), NEW x \in NodeId, x \notin DOMAIN w, NEW left \in NodeId,
         NEW w2, w2 = With(w, x, <<left>>)
  PROVE  /\ LinksOf(w2) = LinksOf(w) \cup {<<x, 1>>}
         /\ \A n : In(w2, n) = In(w, n) + OneIf(n = left)
         /\ Cardinality(LinksOf(w2)) = Cardinality(LinksOf(w)) + 1
<1>2. /\ DOMAIN w2 = DOMAIN w \cup {x} /\ w2[x] = <<left>>
      /\ \A n \in DOMAIN w : w2[n] = w[n]
  BY DEF With
<1>3. DOMAIN w2[x] = {1} /\ w2[x][1] = left
  BY <1>2
<1>4. <<x, 1>> \notin LinksOf(w)
  BY LinksAre
<1>5. LinksOf(w2) = LinksOf(w) \cup {<<x, 1>>}
  <2>1. LinksOf(w2) = UNION {{<<n, k>> : k \in DOMAIN w2[n]} : n \in DOMAIN w \cup {x}}
    BY <1>2 DEF LinksOf
  <2>2. \A n \in DOMAIN w : {<<n, k>> : k \in DOMAIN w2[n]} = {<<n, k>> : k \in DOMAIN w[n]}
    BY <1>2
  <2>3. {<<x, k>> : k \in DOMAIN w2[x]} = {<<x, 1>>}
    BY <1>3
  <2> QED
    BY <2>1, <2>2, <2>3 DEF LinksOf
<1>6. \A m \in DOMAIN w : \A k \in DOMAIN w[m] : w2[m][k] = w[m][k]
  BY <1>2
<1>7. HasAlso(w2, w, x, 1, left)
  BY <1>3, <1>4, <1>5, <1>6 DEF HasAlso
<1> QED
  BY <1>5, <1>7, OneLinkMore

(* A node gains a link.                                                    *)
LEMMA LinksAppended ==
  ASSUME NEW w, IsShape(w), NEW x \in DOMAIN w, NEW left \in NodeId,
         NEW w2, w2 = With(w, x, Append(w[x], left))
  PROVE  /\ LinksOf(w2) = LinksOf(w) \cup {<<x, Len(w[x]) + 1>>}
         /\ \A n : In(w2, n) = In(w, n) + OneIf(n = left)
         /\ Cardinality(LinksOf(w2)) = Cardinality(LinksOf(w)) + 1
<1>1. PICK j : j = Len(w[x]) + 1
  OBVIOUS
<1>2. /\ w[x] \in Seq(NodeId) /\ x \in NodeId /\ Append(w[x], left) \in Seq(NodeId)
  BY DEF IsShape
<1>3. /\ DOMAIN w2 = DOMAIN w /\ w2[x] = Append(w[x], left)
      /\ \A n \in DOMAIN w : n # x => w2[n] = w[n]
  BY DEF With
<1>4. /\ DOMAIN w[x] = 1..Len(w[x]) /\ DOMAIN w2[x] = 1..j /\ Len(w[x]) \in Nat
      /\ w2[x][j] = left /\ \A k \in 1..Len(w[x]) : w2[x][k] = w[x][k]
  BY <1>1, <1>2, <1>3
<1>5. DOMAIN w2[x] = DOMAIN w[x] \cup {j} /\ j \notin DOMAIN w[x]
  BY <1>1, <1>4
<1>6. <<x, j>> \notin LinksOf(w)
  BY <1>5, LinksAre
<1>7. LinksOf(w2) = LinksOf(w) \cup {<<x, j>>}
  <2>1. ASSUME NEW link \in LinksOf(w2) PROVE link \in LinksOf(w) \cup {<<x, j>>}
    <3>1. PICK n, k : n \in DOMAIN w2 /\ k \in DOMAIN w2[n] /\ link = <<n, k>>
      BY LinksAre
    <3>2. CASE n # x
      BY <1>3, <3>1, <3>2, LinksAre
    <3>3. CASE n = x
      BY <1>5, <3>1, <3>3, LinksAre
    <3> QED
      BY <3>2, <3>3
  <2>2. ASSUME NEW link \in LinksOf(w) PROVE link \in LinksOf(w2)
    <3>1. PICK n, k : n \in DOMAIN w /\ k \in DOMAIN w[n] /\ link = <<n, k>>
      BY LinksAre
    <3>2. n \in DOMAIN w2 /\ k \in DOMAIN w2[n]
      BY <1>3, <1>5, <3>1
    <3> QED
      BY <3>1, <3>2, LinksAre
  <2>3. <<x, j>> \in LinksOf(w2)
    BY <1>3, <1>5, LinksAre
  <2> QED
    BY <2>1, <2>2, <2>3
<1>8. \A m \in DOMAIN w : \A k \in DOMAIN w[m] : w2[m][k] = w[m][k]
  BY <1>3, <1>4
<1>9. HasAlso(w2, w, x, j, left)
  BY <1>4, <1>6, <1>7, <1>8 DEF HasAlso
<1>10. /\ \A n : In(w2, n) = In(w, n) + OneIf(n = left)
       /\ Cardinality(LinksOf(w2)) = Cardinality(LinksOf(w)) + 1
  BY <1>9, OneLinkMore
<1> QED
  BY <1>1, <1>7, <1>10

(* A node is removed, with its links.                                      *)
LEMMA LinksDropped ==
  ASSUME NEW w, IsShape(w), NEW x \in DOMAIN w, NEW w2, w2 = Without(w, x)
  PROVE  /\ IsShape(w2)
         /\ \A n : In(w, n) = In(w2, n) + Occ(n, w[x])
         /\ Cardinality(LinksOf(w)) = Cardinality(LinksOf(w2)) + Len(w[x])
<1>1. /\ DOMAIN w2 = DOMAIN w \ {x} /\ w2 = [n \in DOMAIN w2 |-> w2[n]]
      /\ \A n \in DOMAIN w2 : w2[n] = w[n]
  BY DEF Without
<1>2. w[x] \in Seq(NodeId) /\ DOMAIN w[x] = 1..Len(w[x]) /\ Len(w[x]) \in Nat
  BY DEF IsShape
<1>3. IsShape(w2)
  <2>1. IsFiniteSet(DOMAIN w2)
    BY <1>1, FS_Subset DEF IsShape
  <2> QED
    BY <1>1, <2>1 DEF IsShape
<1> DEFINE L == {<<x, k>> : k \in DOMAIN w[x]}
           At(n) == {<<x, k>> : k \in PlacesOf(n, w[x])}
<1>4. LinksOf(w) = LinksOf(w2) \cup L /\ LinksOf(w2) \cap L = {}
  <2>1. ASSUME NEW link \in LinksOf(w) PROVE link \in LinksOf(w2) \cup L
    <3>1. PICK n, k : n \in DOMAIN w /\ k \in DOMAIN w[n] /\ link = <<n, k>>
      BY LinksAre
    <3> QED
      BY <1>1, <3>1, LinksAre
  <2>2. ASSUME NEW link \in LinksOf(w2) PROVE link \in LinksOf(w) /\ link \notin L
    <3>1. PICK n, k : n \in DOMAIN w2 /\ k \in DOMAIN w2[n] /\ link = <<n, k>>
      BY LinksAre
    <3> QED
      BY <1>1, <3>1, LinksAre
  <2>3. L \subseteq LinksOf(w)
    BY LinksAre
  <2> QED
    BY <2>1, <2>2, <2>3
<1>5. ASSUME NEW n
      PROVE Into(w, n) = Into(w2, n) \cup At(n) /\ Into(w2, n) \cap At(n) = {}
  <2>1. \A link \in LinksOf(w2) : w2[link[1]][link[2]] = w[link[1]][link[2]]
    BY <1>1, LinksAre
  <2>2. At(n) = {link \in L : w[link[1]][link[2]] = n}
    BY DEF PlacesOf
  <2> QED
    BY <1>4, <2>1, <2>2 DEF Into
<1>5a. IsFiniteSet(DOMAIN w[x]) /\ Cardinality(DOMAIN w[x]) = Len(w[x])
  <2>1. PICK l \in Nat : l = Len(w[x])
    BY <1>2
  <2>2. IsFiniteSet(1..l) /\ Cardinality(1..l) = l
    BY FS_Interval
  <2> QED
    BY <1>2, <2>1, <2>2
<1>6. ASSUME NEW S, S \subseteq DOMAIN w[x]
      PROVE  LET K == {<<x, k>> : k \in S} IN
             IsFiniteSet(K) /\ Cardinality(K) = Cardinality(S) /\ IsFiniteSet(S)
  <2> DEFINE K == {<<x, k>> : k \in S}
             f == [k \in S |-> <<x, k>>]
  <2>1. IsFiniteSet(S)
    BY <1>5a, <1>6, FS_Subset
  <2>2. f \in Bijection(S, K)
    BY DEF Bijection, Injection, Surjection, IsInjective
  <2>3. IsFiniteSet(K) /\ Cardinality(K) = Cardinality(S)
    BY <2>1, <2>2, FS_Bijection DEF ExistsBijection
  <2> QED
    BY <2>1, <2>3
<1>7. IsFiniteSet(L) /\ Cardinality(L) = Len(w[x])
  BY <1>5a, <1>6
<1>8. ASSUME NEW n PROVE IsFiniteSet(At(n)) /\ Cardinality(At(n)) = Occ(n, w[x])
  BY <1>6 DEF PlacesOf, Occ
<1> HIDE DEF L, At
<1>9. ASSUME NEW A, NEW B, IsFiniteSet(A), IsFiniteSet(B), A \cap B = {}
      PROVE  Cardinality(A \cup B) = Cardinality(A) + Cardinality(B)
  <2>1. Cardinality(A \cup B) = Cardinality(A) + Cardinality(B) - Cardinality(A \cap B)
    BY <1>9, FS_Union
  <2>2. Cardinality(A \cap B) = 0
    BY <1>9, FS_EmptySet
  <2>3. Cardinality(A) \in Nat /\ Cardinality(B) \in Nat
    BY <1>9, FS_CardinalityType
  <2> QED
    BY <2>1, <2>2, <2>3
<1>10. ASSUME NEW n PROVE In(w, n) = In(w2, n) + Occ(n, w[x])
  <2>1. IsFiniteSet(Into(w2, n))
    BY <1>3, LinksFinite
  <2> QED
    BY <1>5, <1>8, <1>9, <2>1 DEF In
<1>11. Cardinality(LinksOf(w)) = Cardinality(LinksOf(w2)) + Len(w[x])
  <2>1. IsFiniteSet(LinksOf(w2))
    BY <1>3, LinksFinite
  <2> QED
    BY <1>4, <1>7, <1>9, <2>1
<1> QED
  BY <1>3, <1>10, <1>11

-----------------------------------------------------------------------------
(* Stacks: a shape w and the states s of its nodes.                        *)
Linked(w) ==
  /\ IsShape(w)
  /\ \A n \in DOMAIN w : \A k \in DOMAIN w[n] : w[n][k] \in DOMAIN w

(* The stack is a graph of paths of the automaton, from one bottom node.   *)
OnAutomaton(w, s) ==
  /\ s \in [DOMAIN w -> StateId]
  /\ \A n \in DOMAIN w : \A k \in DOMAIN w[n] : Leads(s[w[n][k]], s[n])
  /\ \A n \in DOMAIN w : w[n] = << >> <=> s[n] = StartState
  /\ \A m, n \in DOMAIN w : s[m] = StartState /\ s[n] = StartState => m = n
  /\ \A n \in DOMAIN w : \A j, k \in DOMAIN w[n] : w[n][j] = w[n][k] => j = k

LEMMA NeverToStart ==
  ASSUME NEW s \in StateId, NEW t \in StateId, Leads(s, t)
  PROVE  t # StartState
BY ItemsAssumption

LEMMA StackPushed ==
  ASSUME NEW w, NEW s, Linked(w), OnAutomaton(w, s),
         NEW x \in NodeId, x \notin DOMAIN w, NEW left \in DOMAIN w,
         NEW t \in StateId, Leads(s[left], t),
         NEW w2, w2 = With(w, x, <<left>>), NEW s2, s2 = With(s, x, t)
  PROVE  /\ Linked(w2) /\ OnAutomaton(w2, s2)
         /\ \A n : In(w2, n) = In(w, n) + OneIf(n = left)
         /\ In(w, x) = 0
         /\ Cardinality(LinksOf(w2)) = Cardinality(LinksOf(w)) + 1
<1>1. /\ IsShape(w) /\ left \in NodeId /\ DOMAIN w \subseteq NodeId
      /\ s \in [DOMAIN w -> StateId]
  BY DEF Linked, IsShape, OnAutomaton
<1>2. /\ DOMAIN w2 = DOMAIN w \cup {x} /\ w2[x] = <<left>>
      /\ w2 = [n \in DOMAIN w2 |-> w2[n]]
      /\ \A n \in DOMAIN w : w2[n] = w[n]
  BY DEF With
<1>3. /\ s2 \in [DOMAIN w2 -> StateId] /\ s2[x] = t
      /\ \A n \in DOMAIN w : s2[n] = s[n]
  BY <1>1, <1>2 DEF With
<1>4. Linked(w2)
  <2>1. IsFiniteSet(DOMAIN w2)
    BY <1>1, <1>2, FS_AddElement DEF IsShape
  <2>2. ASSUME NEW n \in DOMAIN w2 PROVE w2[n] \in Seq(NodeId)
    <3>1. <<left>> \in Seq(NodeId)
      BY <1>1
    <3> QED
      BY <1>1, <1>2, <3>1 DEF IsShape
  <2>3. \A n \in DOMAIN w2 : \A k \in DOMAIN w2[n] : w2[n][k] \in DOMAIN w2
    BY <1>2 DEF Linked
  <2> QED
    BY <1>1, <1>2, <2>1, <2>2, <2>3 DEF Linked, IsShape
<1>5. OnAutomaton(w2, s2)
  <2>1. DOMAIN w2[x] = {1} /\ w2[x][1] = left /\ w2[x] # << >>
    BY <1>2
  <2>2. ASSUME NEW n \in DOMAIN w2, NEW k \in DOMAIN w2[n] PROVE Leads(s2[w2[n][k]], s2[n])
    <3>1. CASE n = x
      BY <1>3, <2>1, <3>1
    <3>2. CASE n # x
      <4>1. n \in DOMAIN w /\ k \in DOMAIN w[n] /\ w2[n][k] = w[n][k] /\ w[n][k] \in DOMAIN w
        BY <1>2, <3>2 DEF Linked
      <4> QED
        BY <1>3, <4>1 DEF OnAutomaton
    <3> QED
      BY <3>1, <3>2
  <2>3. t # StartState
    BY <1>1, NeverToStart
  <2>4. \A n \in DOMAIN w2 : w2[n] = << >> <=> s2[n] = StartState
    BY <1>2, <1>3, <2>1, <2>3 DEF OnAutomaton
  <2>5. \A m, n \in DOMAIN w2 : s2[m] = StartState /\ s2[n] = StartState => m = n
    BY <1>2, <1>3, <2>3 DEF OnAutomaton
  <2>6. \A n \in DOMAIN w2 : \A j, k \in DOMAIN w2[n] : w2[n][j] = w2[n][k] => j = k
    BY <1>2, <2>1 DEF OnAutomaton
  <2> QED
    BY <1>3, <2>2, <2>4, <2>5, <2>6 DEF OnAutomaton
<1>6. In(w, x) = 0
  BY <1>1, InPositive DEF Linked
<1> QED
  BY <1>1, <1>4, <1>5, <1>6, LinksGrown

LEMMA StackAppended ==
  ASSUME NEW w, NEW s, Linked(w), OnAutomaton(w, s),
         NEW x \in DOMAIN w, w[x] # << >>, NEW left \in DOMAIN w,
         Leads(s[left], s[x]), \A k \in DOMAIN w[x] : w[x][k] # left,
         NEW w2, w2 = With(w, x, Append(w[x], left))
  PROVE  /\ Linked(w2) /\ OnAutomaton(w2, s)
         /\ \A n : In(w2, n) = In(w, n) + OneIf(n = left)
         /\ Cardinality(LinksOf(w2)) = Cardinality(LinksOf(w)) + 1
<1>1. /\ IsShape(w) /\ left \in NodeId /\ DOMAIN w \subseteq NodeId
      /\ w[x] \in Seq(NodeId) /\ Append(w[x], left) \in Seq(NodeId)
  BY DEF Linked, IsShape
<1>2. /\ DOMAIN w2 = DOMAIN w /\ w2[x] = Append(w[x], left)
      /\ w2 = [n \in DOMAIN w2 |-> w2[n]]
      /\ \A n \in DOMAIN w : n # x => w2[n] = w[n]
  BY DEF With
<1>3. PICK j : j = Len(w[x]) + 1
  OBVIOUS
<1>4. /\ DOMAIN w2[x] = DOMAIN w[x] \cup {j} /\ j \notin DOMAIN w[x]
      /\ w2[x][j] = left /\ w2[x] # << >>
      /\ \A k \in DOMAIN w[x] : w2[x][k] = w[x][k]
  BY <1>1, <1>2, <1>3
<1>5. Linked(w2)
  <2>1. \A n \in DOMAIN w2 : w2[n] \in Seq(NodeId)
    BY <1>1, <1>2 DEF IsShape
  <2>2. ASSUME NEW n \in DOMAIN w2, NEW k \in DOMAIN w2[n] PROVE w2[n][k] \in DOMAIN w2
    BY <1>2, <1>4 DEF Linked
  <2> QED
    BY <1>1, <1>2, <2>1, <2>2 DEF Linked, IsShape
<1>6. OnAutomaton(w2, s)
  <2>1. ASSUME NEW n \in DOMAIN w2, NEW k \in DOMAIN w2[n] PROVE Leads(s[w2[n][k]], s[n])
    BY <1>2, <1>4 DEF OnAutomaton
  <2>2. \A n \in DOMAIN w2 : w2[n] = << >> <=> s[n] = StartState
    BY <1>2, <1>4 DEF OnAutomaton
  <2>3. ASSUME NEW n \in DOMAIN w2, NEW i \in DOMAIN w2[n], NEW k \in DOMAIN w2[n],
               w2[n][i] = w2[n][k]
        PROVE  i = k
    BY <1>2, <1>4, <2>3 DEF OnAutomaton
  <2> QED
    BY <1>2, <2>1, <2>2, <2>3 DEF OnAutomaton
<1> QED
  BY <1>1, <1>5, <1>6, LinksAppended

LEMMA StackDropped ==
  ASSUME NEW w, NEW s, Linked(w), OnAutomaton(w, s),
         NEW x \in DOMAIN w, In(w, x) = 0,
         NEW w2, w2 = Without(w, x), NEW s2, s2 = Without(s, x)
  PROVE  /\ Linked(w2) /\ OnAutomaton(w2, s2)
         /\ \A n : In(w, n) = In(w2, n) + Occ(n, w[x])
         /\ Cardinality(LinksOf(w)) = Cardinality(LinksOf(w2)) + Len(w[x])
<1>1. IsShape(w) /\ s \in [DOMAIN w -> StateId]
  BY DEF Linked, OnAutomaton
<1>2. DOMAIN w2 = DOMAIN w \ {x} /\ \A n \in DOMAIN w2 : w2[n] = w[n]
  BY DEF Without
<1>3. s2 \in [DOMAIN w2 -> StateId] /\ \A n \in DOMAIN w2 : s2[n] = s[n]
  BY <1>1, <1>2 DEF Without
<1>4. \A n \in DOMAIN w : \A k \in DOMAIN w[n] : w[n][k] # x
  BY <1>1, InPositive
<1>5. \A n \in DOMAIN w2 : \A k \in DOMAIN w2[n] : w2[n][k] \in DOMAIN w2
  BY <1>2, <1>4 DEF Linked
<1>6. Linked(w2)
  BY <1>1, <1>5, LinksDropped DEF Linked
<1>7. OnAutomaton(w2, s2)
  <2>1. ASSUME NEW n \in DOMAIN w2, NEW k \in DOMAIN w2[n] PROVE Leads(s2[w2[n][k]], s2[n])
    BY <1>2, <1>3, <1>5 DEF OnAutomaton
  <2> QED
    BY <1>2, <1>3, <2>1 DEF OnAutomaton
<1> QED
  BY <1>1, <1>6, <1>7, LinksDropped

LEMMA StackStarted ==
  ASSUME NEW e, DOMAIN e = {}, NEW f, DOMAIN f = {}, NEW x \in NodeId,
         NEW w, w = With(e, x, << >>), NEW s, s = With(f, x, StartState)
  PROVE  Linked(w) /\ OnAutomaton(w, s) /\ (\A n : In(w, n) = 0) /\ LinksOf(w) = {}
<1>2. /\ DOMAIN w = {x} /\ w[x] = << >> /\ DOMAIN w[x] = {}
      /\ w = [n \in DOMAIN w |-> w[n]]
  BY DEF With
<1>3. s \in [DOMAIN w -> StateId] /\ s[x] = StartState
  BY <1>2, TablesAssumption DEF With
<1>4. Linked(w)
  <2>1. IsFiniteSet(DOMAIN w)
    BY <1>2, FS_Singleton
  <2>2. << >> \in Seq(NodeId)
    OBVIOUS
  <2>3. \A n \in DOMAIN w : w[n] \in Seq(NodeId)
    BY <1>2, <2>2
  <2>4. DOMAIN w \in SUBSET NodeId
    BY <1>2
  <2>5. \A n \in DOMAIN w : \A k \in DOMAIN w[n] : w[n][k] \in DOMAIN w
    BY <1>2
  <2> QED
    BY <1>2, <2>1, <2>3, <2>4, <2>5 DEF Linked, IsShape
<1>5. OnAutomaton(w, s)
  BY <1>2, <1>3 DEF OnAutomaton
<1>6. \A n : In(w, n) = 0
  BY <1>2, <1>4, InPositive DEF Linked
<1>7. LinksOf(w) = {}
  BY <1>2 DEF LinksOf
<1> QED
  BY <1>4, <1>5, <1>6, <1>7

-----------------------------------------------------------------------------
(* Depths: d is what the nodes of w have recorded.                         *)
DepthIn(w, d, n) ==
  CASE w[n] = << >> -> 1
    [] Len(w[n]) = 1 -> d[w[n][1]] + 1
    [] OTHER -> 0
Settled(w, d, n) == d[n] = DepthIn(w, d, n)

(* A node stays settled while it, its links and the depth of the node      *)
(* under it stay.                                                          *)
LEMMA StaysSettled ==
  ASSUME NEW w, Linked(w), NEW d, NEW n \in DOMAIN w, NEW w2, NEW d2,
         Settled(w, d, n), w2[n] = w[n], d2[n] = d[n],
         \A k \in DOMAIN w[n] : d2[w[n][k]] = d[w[n][k]]
  PROVE  Settled(w2, d2, n)
<1>1. w[n] \in Seq(NodeId)
  BY DEF Linked, IsShape
<1>2. Len(w[n]) = 1 => 1 \in DOMAIN w[n]
  BY <1>1
<1> QED
  BY <1>2 DEF Settled, DepthIn

LEMMA SettledPushed ==
  ASSUME NEW w, Linked(w), NEW d, d \in [DOMAIN w -> Nat], NEW x, x \notin DOMAIN w,
         NEW left \in DOMAIN w,
         NEW w2, w2 = With(w, x, <<left>>), NEW d2, d2 = With(d, x, d[left] + 1)
  PROVE  /\ Settled(w2, d2, x)
         /\ \A n \in DOMAIN w : Settled(w, d, n) => Settled(w2, d2, n)
<1>1. /\ w2[x] = <<left>> /\ \A n \in DOMAIN w : w2[n] = w[n]
      /\ d2[x] = d[left] + 1 /\ \A n \in DOMAIN w : d2[n] = d[n]
  BY DEF With
<1>2. Settled(w2, d2, x)
  <2>1. Len(<<left>>) = 1 /\ <<left>> # << >> /\ <<left>>[1] = left
    OBVIOUS
  <2> QED
    BY <1>1, <2>1 DEF Settled, DepthIn
<1>3. ASSUME NEW n \in DOMAIN w, Settled(w, d, n) PROVE Settled(w2, d2, n)
  <2>1. \A k \in DOMAIN w[n] : d2[w[n][k]] = d[w[n][k]]
    BY <1>1 DEF Linked
  <2>2. w2[n] = w[n] /\ d2[n] = d[n]
    BY <1>1
  <2> QED
    BY <1>3, <2>1, <2>2, StaysSettled
<1> QED
  BY <1>2, <1>3

LEMMA SettledAppended ==
  ASSUME NEW w, Linked(w), NEW d, d \in [DOMAIN w -> Nat],
         NEW x \in DOMAIN w, w[x] # << >>, NEW left \in DOMAIN w,
         NEW w2, w2 = With(w, x, Append(w[x], left)), NEW d2, d2 = With(d, x, 0)
  PROVE  /\ Settled(w2, d2, x)
         /\ \A n \in DOMAIN w :
              Settled(w, d, n) /\ n # x /\ (\A k \in DOMAIN w[n] : w[n][k] # x) =>
                Settled(w2, d2, n)
<1>1. /\ w2[x] = Append(w[x], left) /\ \A n \in DOMAIN w : n # x => w2[n] = w[n]
      /\ d2[x] = 0 /\ \A n \in DOMAIN w : n # x => d2[n] = d[n]
  BY DEF With
<1>2. Settled(w2, d2, x)
  <2>1. w[x] \in Seq(NodeId) /\ left \in NodeId
    BY DEF Linked, IsShape
  <2>2. Len(w2[x]) > 1 /\ w2[x] # << >>
    BY <1>1, <2>1
  <2> QED
    BY <1>1, <2>2 DEF Settled, DepthIn
<1>3. ASSUME NEW n \in DOMAIN w, Settled(w, d, n), n # x, \A k \in DOMAIN w[n] : w[n][k] # x
      PROVE  Settled(w2, d2, n)
  <2>1. \A k \in DOMAIN w[n] : d2[w[n][k]] = d[w[n][k]]
    BY <1>1, <1>3 DEF Linked
  <2>2. w2[n] = w[n] /\ d2[n] = d[n]
    BY <1>1, <1>3
  <2> QED
    BY <1>3, <2>1, <2>2, StaysSettled
<1> QED
  BY <1>2, <1>3

LEMMA SettledDropped ==
  ASSUME NEW w, Linked(w), NEW d, d \in [DOMAIN w -> Nat], NEW x \in DOMAIN w, In(w, x) = 0,
         NEW w2, w2 = Without(w, x), NEW d2, d2 = Without(d, x)
  PROVE  \A n \in DOMAIN w2 : Settled(w, d, n) => Settled(w2, d2, n)
<1>1. /\ DOMAIN w2 = DOMAIN w \ {x} /\ \A n \in DOMAIN w2 : w2[n] = w[n]
      /\ \A n \in DOMAIN w2 : d2[n] = d[n]
  BY DEF Without
<1>2. \A n \in DOMAIN w : \A k \in DOMAIN w[n] : w[n][k] # x
  BY InPositive DEF Linked
<1> SUFFICES ASSUME NEW n \in DOMAIN w2, Settled(w, d, n) PROVE Settled(w2, d2, n)
  OBVIOUS
<1>3. n \in DOMAIN w /\ w2[n] = w[n] /\ d2[n] = d[n]
  BY <1>1
<1>4. \A k \in DOMAIN w[n] : d2[w[n][k]] = d[w[n][k]]
  BY <1>1, <1>2 DEF Linked
<1> QED
  BY <1>3, <1>4, StaysSettled

-----------------------------------------------------------------------------
(* Paths.                                                                  *)

(* The links form a path that starts at n.                                 *)
PathIn(w, n, links) ==
  \A i \in DOMAIN links :
    /\ links[i] \in LinksOf(w)
    /\ w[links[i][1]][links[i][2]] = IF i = 1 THEN n ELSE links[i - 1][1]

LEMMA PathStays ==
  ASSUME NEW w, NEW w2, NEW n, NEW links, PathIn(w, n, links),
         LinksOf(w) \subseteq LinksOf(w2),
         \A link \in LinksOf(w) : w2[link[1]][link[2]] = w[link[1]][link[2]]
  PROVE  PathIn(w2, n, links)
BY DEF PathIn

LEMMA PathExtended ==
  ASSUME NEW w, NEW n \in DOMAIN w, NEW k \in DOMAIN w[n],
         NEW S, NEW links \in Seq(S), <<n, k>> \in S, PathIn(w, n, links)
  PROVE  PathIn(w, w[n][k], <<<<n, k>>>> \o links)
<1> DEFINE all == <<<<n, k>>>> \o links
<1>1. <<<<n, k>>>> \in Seq(S) /\ Len(links) \in Nat /\ Len(<<<<n, k>>>>) = 1
  OBVIOUS
<1>2. /\ DOMAIN all = 1..(Len(links) + 1) /\ all[1] = <<n, k>>
      /\ \A i \in 1..(Len(links) + 1) : i # 1 => all[i] = links[i - 1]
  BY <1>1
<1> HIDE DEF all
<1>3. ASSUME NEW i \in DOMAIN all
      PROVE  /\ all[i] \in LinksOf(w)
             /\ w[all[i][1]][all[i][2]] = IF i = 1 THEN w[n][k] ELSE all[i - 1][1]
  <2>1. CASE i = 1
    BY <1>2, <2>1, LinksAre
  <2>2. CASE i # 1
    <3>1. i - 1 \in DOMAIN links /\ all[i] = links[i - 1] /\ i - 1 \in Nat
      BY <1>1, <1>2, <1>3, <2>2
    <3>2. CASE i = 2
      <4>1. all[i - 1][1] = n /\ i - 1 = 1
        BY <1>2, <3>2
      <4> QED
        BY <2>2, <3>1, <4>1 DEF PathIn
    <3>3. CASE i # 2
      <4>1. all[i - 1] = links[i - 1 - 1] /\ i - 1 # 1
        BY <1>1, <1>2, <1>3, <2>2, <3>3
      <4> QED
        BY <2>2, <3>1, <4>1 DEF PathIn
    <3> QED
      BY <3>2, <3>3
  <2> QED
    BY <2>1, <2>2
<1> QED
  BY <1>3 DEF PathIn, all

-----------------------------------------------------------------------------
(* What a stack records, field by field.                                   *)
IsStack(ns) == DOMAIN ns \in SUBSET NodeId /\ IsFiniteSet(DOMAIN ns) /\ ns \in [DOMAIN ns -> StackNode]

SibsOf(r) == [k \in DOMAIN r.sibs |-> r.sibs[k].sib]
States(ns) == [n \in DOMAIN ns |-> ns[n].state]
Counts(ns) == [n \in DOMAIN ns |-> ns[n].referenceCount]
Depths(ns) == [n \in DOMAIN ns |-> ns[n].determinDepth]
ColumnsOf(ns) == [n \in DOMAIN ns |-> ns[n].column]

(* ns2 records the same as ns, but for the semantic values.                *)
SameViews(ns2, ns) ==
  /\ Shape(ns2) = Shape(ns) /\ States(ns2) = States(ns)
  /\ Counts(ns2) = Counts(ns) /\ Depths(ns2) = Depths(ns)
  /\ ColumnsOf(ns2) = ColumnsOf(ns)

LEMMA StackTypes ==
  ASSUME NEW ns, IsStack(ns)
  PROVE  /\ IsShape(Shape(ns)) /\ DOMAIN Shape(ns) = DOMAIN ns
         /\ States(ns) \in [DOMAIN ns -> StateId] /\ Counts(ns) \in [DOMAIN ns -> Nat]
         /\ Depths(ns) \in [DOMAIN ns -> Nat] /\ ColumnsOf(ns) \in [DOMAIN ns -> Nat]
<1>1. DOMAIN Shape(ns) = DOMAIN ns /\ Shape(ns) = [n \in DOMAIN Shape(ns) |-> Shape(ns)[n]]
  BY DEF Shape
<1>2. ASSUME NEW n \in DOMAIN ns PROVE Shape(ns)[n] \in Seq(NodeId)
  <2>1. ns[n].sibs \in Seq(SiblingLink)
    BY DEF IsStack, StackNode
  <2>2. DOMAIN ns[n].sibs = 1..Len(ns[n].sibs) /\ Len(ns[n].sibs) \in Nat
        /\ \A k \in DOMAIN ns[n].sibs : ns[n].sibs[k] \in SiblingLink
    BY <2>1
  <2>3. \A k \in 1..Len(ns[n].sibs) : ns[n].sibs[k].sib \in NodeId
    BY <2>2 DEF SiblingLink
  <2>4. Shape(ns)[n] = [k \in 1..Len(ns[n].sibs) |-> ns[n].sibs[k].sib]
    BY <2>2 DEF Shape
  <2> QED
    BY <2>2, <2>3, <2>4
<1>3. IsShape(Shape(ns))
  BY <1>1, <1>2 DEF IsShape, IsStack
<1> QED
  BY <1>1, <1>3 DEF IsStack, StackNode, States, Counts, Depths, ColumnsOf

LEMMA ShapeAt ==
  ASSUME NEW ns, NEW n \in DOMAIN ns, IsStack(ns)
  PROVE  /\ DOMAIN Shape(ns)[n] = DOMAIN ns[n].sibs /\ Len(Shape(ns)[n]) = Len(ns[n].sibs)
         /\ Shape(ns)[n] = << >> <=> ns[n].sibs = << >>
         /\ \A k \in DOMAIN ns[n].sibs : Shape(ns)[n][k] = ns[n].sibs[k].sib
         /\ States(ns)[n] = ns[n].state /\ Counts(ns)[n] = ns[n].referenceCount
         /\ Depths(ns)[n] = ns[n].determinDepth /\ ColumnsOf(ns)[n] = ns[n].column
<1>1. Shape(ns)[n] \in Seq(NodeId) /\ ns[n].sibs \in Seq(SiblingLink)
  BY StackTypes DEF IsStack, StackNode, IsShape
<1>2. /\ DOMAIN Shape(ns)[n] = DOMAIN ns[n].sibs
      /\ \A k \in DOMAIN ns[n].sibs : Shape(ns)[n][k] = ns[n].sibs[k].sib
  BY DEF Shape
<1> QED
  BY <1>1, <1>2 DEF States, Counts, Depths, ColumnsOf

(* ns2 is ns with a node x that r describes.                               *)
HasNode(ns2, ns, x, r) ==
  /\ IsStack(ns2) /\ DOMAIN ns2 = DOMAIN ns \cup {x}
  /\ Shape(ns2) = With(Shape(ns), x, SibsOf(r))
  /\ States(ns2) = With(States(ns), x, r.state)
  /\ Counts(ns2) = With(Counts(ns), x, r.referenceCount)
  /\ Depths(ns2) = With(Depths(ns), x, r.determinDepth)
  /\ ColumnsOf(ns2) = With(ColumnsOf(ns), x, r.column)

LEMMA ViewsWith ==
  ASSUME NEW ns, IsStack(ns), NEW x \in NodeId, NEW r \in StackNode, NEW ns2, ns2 = With(ns, x, r)
  PROVE  HasNode(ns2, ns, x, r)
<1>1. /\ DOMAIN ns2 = DOMAIN ns \cup {x} /\ ns2[x] = r
      /\ ns2 = [n \in DOMAIN ns2 |-> ns2[n]]
      /\ \A n \in DOMAIN ns : n # x => ns2[n] = ns[n]
  BY DEF With
<1>2. IsStack(ns2)
  <2>1. IsFiniteSet(DOMAIN ns2)
    BY <1>1, FS_AddElement DEF IsStack
  <2>2. \A n \in DOMAIN ns2 : ns2[n] \in StackNode
    BY <1>1 DEF IsStack
  <2> QED
    BY <1>1, <2>1, <2>2 DEF IsStack
<1>3. Shape(ns2) = With(Shape(ns), x, SibsOf(r))
  BY <1>1 DEF Shape, With, SibsOf
<1>4. States(ns2) = With(States(ns), x, r.state)
  BY <1>1 DEF States, With
<1>5. Counts(ns2) = With(Counts(ns), x, r.referenceCount)
  BY <1>1 DEF Counts, With
<1>6. Depths(ns2) = With(Depths(ns), x, r.determinDepth)
  BY <1>1 DEF Depths, With
<1>7. ColumnsOf(ns2) = With(ColumnsOf(ns), x, r.column)
  BY <1>1 DEF ColumnsOf, With
<1> QED
  BY <1>1, <1>2, <1>3, <1>4, <1>5, <1>6, <1>7 DEF HasNode

LEMMA ViewsWithout ==
  ASSUME NEW ns, IsStack(ns), NEW x, NEW ns2, ns2 = Without(ns, x)
  PROVE  /\ IsStack(ns2) /\ DOMAIN ns2 = DOMAIN ns \ {x}
         /\ Shape(ns2) = Without(Shape(ns), x) /\ States(ns2) = Without(States(ns), x)
         /\ Counts(ns2) = Without(Counts(ns), x) /\ Depths(ns2) = Without(Depths(ns), x)
         /\ ColumnsOf(ns2) = Without(ColumnsOf(ns), x)
<1>1. /\ DOMAIN ns2 = DOMAIN ns \ {x} /\ ns2 = [n \in DOMAIN ns2 |-> ns2[n]]
      /\ \A n \in DOMAIN ns2 : ns2[n] = ns[n]
  BY DEF Without
<1>2. IsStack(ns2)
  <2>1. IsFiniteSet(DOMAIN ns2)
    BY <1>1, FS_Subset DEF IsStack
  <2>2. \A n \in DOMAIN ns2 : ns2[n] \in StackNode
    BY <1>1 DEF IsStack
  <2> QED
    BY <1>1, <2>1, <2>2 DEF IsStack
<1>3. Shape(ns2) = Without(Shape(ns), x)
  BY <1>1 DEF Shape, Without
<1>4. States(ns2) = Without(States(ns), x)
  BY <1>1 DEF States, Without
<1>5. Counts(ns2) = Without(Counts(ns), x)
  BY <1>1 DEF Counts, Without
<1>6. Depths(ns2) = Without(Depths(ns), x)
  BY <1>1 DEF Depths, Without
<1>7. ColumnsOf(ns2) = Without(ColumnsOf(ns), x)
  BY <1>1 DEF ColumnsOf, Without
<1> QED
  BY <1>1, <1>2, <1>3, <1>4, <1>5, <1>6, <1>7

(* The counts, the depths and the links of a node in place.                *)
LEMMA ViewsIncRefCt ==
  ASSUME NEW ns, IsStack(ns), NEW x \in DOMAIN ns, NEW ns2, ns2 = IncRefCt(ns, x)
  PROVE  /\ IsStack(ns2) /\ DOMAIN ns2 = DOMAIN ns
         /\ Shape(ns2) = Shape(ns) /\ States(ns2) = States(ns)
         /\ Counts(ns2) = With(Counts(ns), x, Counts(ns)[x] + 1)
         /\ Depths(ns2) = Depths(ns) /\ ColumnsOf(ns2) = ColumnsOf(ns)
<1>1. ns[x] \in StackNode
  BY DEF IsStack
<1>2. [ns[x] EXCEPT !.referenceCount = @ + 1] \in StackNode
  BY <1>1 DEF StackNode
<1>3. /\ DOMAIN ns2 = DOMAIN ns /\ ns2[x] = [ns[x] EXCEPT !.referenceCount = @ + 1]
      /\ ns2 = [n \in DOMAIN ns2 |-> ns2[n]]
      /\ \A n \in DOMAIN ns : n # x => ns2[n] = ns[n]
  BY DEF IncRefCt, IsStack
<1>4. /\ ns2[x].sibs = ns[x].sibs /\ ns2[x].state = ns[x].state
      /\ ns2[x].referenceCount = ns[x].referenceCount + 1
      /\ ns2[x].determinDepth = ns[x].determinDepth /\ ns2[x].column = ns[x].column
  BY <1>1, <1>3 DEF StackNode
<1>5. IsStack(ns2)
  BY <1>2, <1>3 DEF IsStack
<1>6. Shape(ns2) = Shape(ns)
  <2>1. \A n \in DOMAIN ns : ns2[n].sibs = ns[n].sibs
    BY <1>3, <1>4
  <2> QED
    BY <1>3, <2>1 DEF Shape
<1>7. States(ns2) = States(ns) /\ Depths(ns2) = Depths(ns) /\ ColumnsOf(ns2) = ColumnsOf(ns)
  BY <1>3, <1>4 DEF States, Depths, ColumnsOf
<1>8. Counts(ns2) = With(Counts(ns), x, Counts(ns)[x] + 1)
  BY <1>3, <1>4 DEF Counts, With
<1> QED
  BY <1>3, <1>5, <1>6, <1>7, <1>8

CountDropped(ns, x) == [ns EXCEPT ![x].referenceCount = @ - 1]

LEMMA ViewsCountDropped ==
  ASSUME NEW ns, IsStack(ns), NEW x \in DOMAIN ns, ns[x].referenceCount > 1,
         NEW ns2, ns2 = CountDropped(ns, x)
  PROVE  /\ IsStack(ns2) /\ DOMAIN ns2 = DOMAIN ns
         /\ Shape(ns2) = Shape(ns) /\ States(ns2) = States(ns)
         /\ Counts(ns2) = With(Counts(ns), x, Counts(ns)[x] - 1)
         /\ Depths(ns2) = Depths(ns) /\ ColumnsOf(ns2) = ColumnsOf(ns)
<1>1. ns[x] \in StackNode
  BY DEF IsStack
<1>2. [ns[x] EXCEPT !.referenceCount = @ - 1] \in StackNode
  BY <1>1 DEF StackNode
<1>3. /\ DOMAIN ns2 = DOMAIN ns /\ ns2[x] = [ns[x] EXCEPT !.referenceCount = @ - 1]
      /\ ns2 = [n \in DOMAIN ns2 |-> ns2[n]]
      /\ \A n \in DOMAIN ns : n # x => ns2[n] = ns[n]
  BY DEF IsStack, CountDropped
<1>4. /\ ns2[x].sibs = ns[x].sibs /\ ns2[x].state = ns[x].state
      /\ ns2[x].referenceCount = ns[x].referenceCount - 1
      /\ ns2[x].determinDepth = ns[x].determinDepth /\ ns2[x].column = ns[x].column
  BY <1>1, <1>3 DEF StackNode
<1>5. IsStack(ns2)
  BY <1>2, <1>3 DEF IsStack
<1>6. Shape(ns2) = Shape(ns)
  <2>1. \A n \in DOMAIN ns : ns2[n].sibs = ns[n].sibs
    BY <1>3, <1>4
  <2> QED
    BY <1>3, <2>1 DEF Shape
<1>7. States(ns2) = States(ns) /\ Depths(ns2) = Depths(ns) /\ ColumnsOf(ns2) = ColumnsOf(ns)
  BY <1>3, <1>4 DEF States, Depths, ColumnsOf
<1>8. Counts(ns2) = With(Counts(ns), x, Counts(ns)[x] - 1)
  BY <1>3, <1>4 DEF Counts, With
<1> QED
  BY <1>3, <1>5, <1>6, <1>7, <1>8

DepthSet(ns, x, d) == [ns EXCEPT ![x].determinDepth = d]

LEMMA ViewsDepthSet ==
  ASSUME NEW ns, IsStack(ns), NEW x \in DOMAIN ns, NEW d \in Nat,
         NEW ns2, ns2 = DepthSet(ns, x, d)
  PROVE  /\ IsStack(ns2) /\ DOMAIN ns2 = DOMAIN ns
         /\ Shape(ns2) = Shape(ns) /\ States(ns2) = States(ns) /\ Counts(ns2) = Counts(ns)
         /\ Depths(ns2) = With(Depths(ns), x, d) /\ ColumnsOf(ns2) = ColumnsOf(ns)
<1>1. ns[x] \in StackNode
  BY DEF IsStack
<1>2. [ns[x] EXCEPT !.determinDepth = d] \in StackNode
  BY <1>1 DEF StackNode
<1>3. /\ DOMAIN ns2 = DOMAIN ns /\ ns2[x] = [ns[x] EXCEPT !.determinDepth = d]
      /\ ns2 = [n \in DOMAIN ns2 |-> ns2[n]]
      /\ \A n \in DOMAIN ns : n # x => ns2[n] = ns[n]
  BY DEF IsStack, DepthSet
<1>4. /\ ns2[x].sibs = ns[x].sibs /\ ns2[x].state = ns[x].state
      /\ ns2[x].referenceCount = ns[x].referenceCount
      /\ ns2[x].determinDepth = d /\ ns2[x].column = ns[x].column
  BY <1>1, <1>3 DEF StackNode
<1>5. IsStack(ns2)
  BY <1>2, <1>3 DEF IsStack
<1>6. Shape(ns2) = Shape(ns)
  <2>1. \A n \in DOMAIN ns : ns2[n].sibs = ns[n].sibs
    BY <1>3, <1>4
  <2> QED
    BY <1>3, <2>1 DEF Shape
<1>7. States(ns2) = States(ns) /\ Counts(ns2) = Counts(ns) /\ ColumnsOf(ns2) = ColumnsOf(ns)
  BY <1>3, <1>4 DEF States, Counts, ColumnsOf
<1>8. Depths(ns2) = With(Depths(ns), x, d)
  BY <1>3, <1>4 DEF Depths, With
<1> QED
  BY <1>3, <1>5, <1>6, <1>7, <1>8

LEMMA ShapeChanged ==
  ASSUME NEW ns, NEW ns2, NEW x \in DOMAIN ns, DOMAIN ns2 = DOMAIN ns,
         \A n \in DOMAIN ns : n # x => ns2[n] = ns[n]
  PROVE  Shape(ns2) = With(Shape(ns), x, SibsOf(ns2[x]))
<1>1. DOMAIN ns2 = DOMAIN ns \cup {x}
  OBVIOUS
<1>2. DOMAIN Shape(ns) = DOMAIN ns
  BY DEF Shape
<1> QED
  BY <1>1, <1>2 DEF Shape, With, SibsOf

(* A link more, as addAdditionalSiblingLink leaves it.                     *)
LinkAdded(ns, x, left, v) ==
  [ns EXCEPT ![x].sibs = Append(@, NewLink(left, v)), ![x].determinDepth = 0]

LEMMA ViewsLinkAdded ==
  ASSUME NEW ns, IsStack(ns), NEW x \in DOMAIN ns, NEW left \in NodeId, NEW v \in SVal,
         NEW ns2, ns2 = LinkAdded(ns, x, left, v)
  PROVE  /\ IsStack(ns2) /\ DOMAIN ns2 = DOMAIN ns
         /\ Shape(ns2) = With(Shape(ns), x, Append(Shape(ns)[x], left))
         /\ States(ns2) = States(ns) /\ Counts(ns2) = Counts(ns)
         /\ Depths(ns2) = With(Depths(ns), x, 0) /\ ColumnsOf(ns2) = ColumnsOf(ns)
<1> DEFINE sibs == Append(ns[x].sibs, NewLink(left, v))
<1>1. ns[x] \in StackNode /\ ns[x].sibs \in Seq(SiblingLink)
  BY DEF IsStack, StackNode
<1>2. NewLink(left, v) \in SiblingLink /\ NewLink(left, v).sib = left
  BY DEF NewLink, SiblingLink
<1>3. sibs \in Seq(SiblingLink)
  BY <1>1, <1>2
<1>4. [ns[x] EXCEPT !.sibs = sibs, !.determinDepth = 0] \in StackNode
  <2> HIDE DEF sibs
  <2> QED
    BY <1>1, <1>3 DEF StackNode
<1>5. /\ DOMAIN ns2 = DOMAIN ns
      /\ ns2[x] = [ns[x] EXCEPT !.sibs = sibs, !.determinDepth = 0]
      /\ ns2 = [n \in DOMAIN ns2 |-> ns2[n]]
      /\ \A n \in DOMAIN ns : n # x => ns2[n] = ns[n]
  BY <1>1 DEF IsStack, StackNode, LinkAdded
<1>6. /\ ns2[x].sibs = sibs /\ ns2[x].state = ns[x].state
      /\ ns2[x].referenceCount = ns[x].referenceCount
      /\ ns2[x].determinDepth = 0 /\ ns2[x].column = ns[x].column
  <2> HIDE DEF sibs
  <2> QED
    BY <1>1, <1>5 DEF StackNode
<1>7. IsStack(ns2)
  BY <1>4, <1>5 DEF IsStack
<1>8. SibsOf(ns2[x]) = Append(Shape(ns)[x], left)
  <2>1. Shape(ns)[x] \in Seq(NodeId) /\ Len(Shape(ns)[x]) = Len(ns[x].sibs)
        /\ \A k \in DOMAIN ns[x].sibs : Shape(ns)[x][k] = ns[x].sibs[k].sib
    BY StackTypes, ShapeAt DEF IsShape
  <2>2. PICK l \in Nat : l = Len(ns[x].sibs)
    BY <1>1
  <2>3. /\ DOMAIN sibs = 1..(l + 1) /\ sibs[l + 1] = NewLink(left, v)
        /\ \A k \in 1..l : sibs[k] = ns[x].sibs[k]
    BY <1>1, <2>2
  <2>4. Append(Shape(ns)[x], left) \in Seq(NodeId)
    BY <2>1
  <2>5. DOMAIN Append(Shape(ns)[x], left) = 1..(l + 1)
    BY <2>1, <2>2
  <2>6. \A k \in 1..(l + 1) : sibs[k].sib = Append(Shape(ns)[x], left)[k]
    <3>1. DOMAIN ns[x].sibs = 1..l
      BY <1>1, <2>2
    <3> QED
      BY <1>2, <2>1, <2>2, <2>3, <3>1
  <2>7. Append(Shape(ns)[x], left) =
          [k \in DOMAIN Append(Shape(ns)[x], left) |-> Append(Shape(ns)[x], left)[k]]
    BY <2>4
  <2> HIDE DEF sibs
  <2>8. SibsOf(ns2[x]) = [k \in 1..(l + 1) |-> sibs[k].sib]
    BY <1>6, <2>3 DEF SibsOf
  <2> QED
    BY <2>5, <2>6, <2>7, <2>8
<1>9. Shape(ns2) = With(Shape(ns), x, SibsOf(ns2[x]))
  <2>1. DOMAIN ns2 = DOMAIN ns /\ \A n \in DOMAIN ns : n # x => ns2[n] = ns[n]
    BY <1>5
  <2> QED
    BY <2>1, ShapeChanged
<1>10. States(ns2) = States(ns) /\ Counts(ns2) = Counts(ns) /\ ColumnsOf(ns2) = ColumnsOf(ns)
  BY <1>5, <1>6 DEF States, Counts, ColumnsOf
<1>11. Depths(ns2) = With(Depths(ns), x, 0)
  <2>1. /\ DOMAIN ns2 = DOMAIN ns /\ ns2[x].determinDepth = 0
        /\ \A n \in DOMAIN ns : n # x => ns2[n] = ns[n]
    BY <1>5, <1>6
  <2> QED
    BY <2>1 DEF Depths, With
<1> QED
  BY <1>5, <1>7, <1>8, <1>9, <1>10, <1>11

(* The semantic values of the links make no difference.                    *)
LEMMA ViewsValuesChanged ==
  ASSUME NEW ns, NEW ns2, DOMAIN ns2 = DOMAIN ns,
         \A n \in DOMAIN ns :
           /\ ns2[n].state = ns[n].state /\ ns2[n].referenceCount = ns[n].referenceCount
           /\ ns2[n].determinDepth = ns[n].determinDepth /\ ns2[n].column = ns[n].column
           /\ DOMAIN ns2[n].sibs = DOMAIN ns[n].sibs
           /\ \A k \in DOMAIN ns[n].sibs : ns2[n].sibs[k].sib = ns[n].sibs[k].sib
  PROVE  SameViews(ns2, ns)
<1>1. Shape(ns2) = Shape(ns)
  BY DEF Shape
<1>2. /\ States(ns2) = States(ns) /\ Counts(ns2) = Counts(ns) /\ Depths(ns2) = Depths(ns)
      /\ ColumnsOf(ns2) = ColumnsOf(ns)
  BY DEF States, Counts, Depths, ColumnsOf
<1> QED
  BY <1>1, <1>2 DEF SameViews

(* The pool has an identity left.                                          *)
LEMMA FreshNodeIsNew ==
  ASSUME IsStack(node)
  PROVE  FreshNode \in NodeId /\ FreshNode \notin Live
<1>1. PICK c : c = Cardinality(Live)
  OBVIOUS
<1>2. c \in Nat /\ IsFiniteSet(Live)
  BY <1>1, FS_CardinalityType DEF IsStack, Live
<1>3. IsFiniteSet(1..(c + 1)) /\ Cardinality(1..(c + 1)) = c + 1
  <2>1. PICK e \in Nat : e = c + 1
    BY <1>2
  <2>2. IsFiniteSet(1..e) /\ Cardinality(1..e) = e
    BY <2>1, <1>2, FS_Interval
  <2> QED
    BY <2>1, <2>2
<1>4. ~ (1..(c + 1) \subseteq Live)
  <2>1. 1..(c + 1) \subseteq Live => Cardinality(1..(c + 1)) <= Cardinality(Live)
    BY <1>2, FS_Subset
  <2> QED
    BY <1>1, <1>2, <1>3, <2>1
<1>5. \E n \in 1..(Cardinality(Live) + 1) : n \notin Live
  BY <1>1, <1>4
<1>6. FreshNode \in 1..(c + 1) /\ FreshNode \notin Live
  BY <1>1, <1>5 DEF FreshNode, Live
<1> QED
  BY <1>2, <1>6 DEF NodeId

-----------------------------------------------------------------------------
(* The three ways in which a stack changes: a node is put on top of another*)
(* one, a node gains a link, and a node without links to it goes.          *)
IsSound(ns) ==
  IsStack(ns) /\ Linked(Shape(ns)) /\ OnAutomaton(Shape(ns), States(ns))

Grown(ns2, ns, x, left, state, column) ==
  /\ IsSound(ns2) /\ DOMAIN ns2 = DOMAIN ns \cup {x} /\ DOMAIN Shape(ns2) = DOMAIN ns2
  /\ Shape(ns2)[x] = <<left>> /\ States(ns2)[x] = state /\ Counts(ns2)[x] = 1
  /\ ColumnsOf(ns2)[x] = column
  /\ \A n \in DOMAIN ns :
       /\ Shape(ns2)[n] = Shape(ns)[n] /\ States(ns2)[n] = States(ns)[n]
       /\ Counts(ns2)[n] = Counts(ns)[n] /\ Depths(ns2)[n] = Depths(ns)[n]
       /\ ColumnsOf(ns2)[n] = ColumnsOf(ns)[n]
  /\ \A n : In(Shape(ns2), n) = In(Shape(ns), n) + OneIf(n = left)
  /\ In(Shape(ns), x) = 0 /\ In(Shape(ns2), x) = 0
  /\ Cardinality(LinksOf(Shape(ns2))) = Cardinality(LinksOf(Shape(ns))) + 1
  /\ Settled(Shape(ns2), Depths(ns2), x)
  /\ \A n \in DOMAIN ns : Settled(Shape(ns), Depths(ns), n) =>
       Settled(Shape(ns2), Depths(ns2), n)

LEMMA StackGrows ==
  ASSUME NEW ns, IsSound(ns), NEW x \in NodeId, x \notin DOMAIN ns,
         NEW left \in DOMAIN ns, NEW state \in StateId, Leads(States(ns)[left], state),
         NEW v \in SVal, NEW column \in Nat,
         NEW ns2, ns2 = With(ns, x,
           [state |-> state, sibs |-> <<NewLink(left, v)>>, referenceCount |-> 1,
            determinDepth |-> ns[left].determinDepth + 1, column |-> column])
  PROVE  Grown(ns2, ns, x, left, state, column)
<1>1. PICK d : d = ns[left].determinDepth
  OBVIOUS
<1>2. /\ IsStack(ns) /\ d \in Nat /\ d = Depths(ns)[left] /\ left \in NodeId
      /\ DOMAIN Shape(ns) = DOMAIN ns /\ Depths(ns) \in [DOMAIN ns -> Nat]
      /\ Counts(ns) \in [DOMAIN ns -> Nat] /\ ColumnsOf(ns) \in [DOMAIN ns -> Nat]
  <2>1. IsStack(ns)
    BY DEF IsSound
  <2>2. d \in Nat /\ left \in NodeId
    BY <1>1, <2>1 DEF IsStack, StackNode
  <2> QED
    BY <1>1, <2>1, <2>2, ShapeAt, StackTypes
<1>3. PICK r : r = [state |-> state, sibs |-> <<NewLink(left, v)>>, referenceCount |-> 1,
                    determinDepth |-> d + 1, column |-> column]
  OBVIOUS
<1>4. PICK link : link = NewLink(left, v)
  OBVIOUS
<1>5. link \in SiblingLink /\ link.sib = left
  BY <1>2, <1>4 DEF NewLink, SiblingLink
<1>6. r \in StackNode /\ SibsOf(r) = <<left>>
  <2>1. PICK e : e = d + 1
    OBVIOUS
  <2>2. <<link>> \in Seq(SiblingLink) /\ e \in Nat
    BY <1>2, <1>5, <2>1
  <2>3. r = [state |-> state, sibs |-> <<link>>, referenceCount |-> 1,
             determinDepth |-> e, column |-> column]
    BY <1>3, <1>4, <2>1
  <2>4. r \in StackNode
    BY <2>2, <2>3 DEF StackNode
  <2>5. r.sibs = <<link>>
    BY <2>3
  <2>6. SibsOf(r) = [k \in DOMAIN <<link>> |-> <<link>>[k].sib]
    BY <2>5 DEF SibsOf
  <2> QED
    BY <1>5, <2>4, <2>6
<1>7. HasNode(ns2, ns, x, r)
  BY <1>1, <1>2, <1>3, <1>6, ViewsWith
<1>8. /\ IsStack(ns2) /\ DOMAIN ns2 = DOMAIN ns \cup {x} /\ DOMAIN Shape(ns2) = DOMAIN ns2
      /\ Shape(ns2) = With(Shape(ns), x, <<left>>)
      /\ States(ns2) = With(States(ns), x, state)
      /\ Counts(ns2) = With(Counts(ns), x, 1)
      /\ Depths(ns2) = With(Depths(ns), x, Depths(ns)[left] + 1)
      /\ ColumnsOf(ns2) = With(ColumnsOf(ns), x, column)
  <2>1. r.state = state /\ r.referenceCount = 1 /\ r.determinDepth = d + 1 /\ r.column = column
    BY <1>3
  <2> QED
    BY <1>2, <1>6, <1>7, <2>1, StackTypes DEF HasNode
<1>9. /\ Linked(Shape(ns2)) /\ OnAutomaton(Shape(ns2), States(ns2))
      /\ \A n : In(Shape(ns2), n) = In(Shape(ns), n) + OneIf(n = left)
      /\ In(Shape(ns), x) = 0
      /\ Cardinality(LinksOf(Shape(ns2))) = Cardinality(LinksOf(Shape(ns))) + 1
  BY <1>2, <1>8, StackPushed DEF IsSound
<1>10. /\ Settled(Shape(ns2), Depths(ns2), x)
       /\ \A n \in DOMAIN ns : Settled(Shape(ns), Depths(ns), n) =>
            Settled(Shape(ns2), Depths(ns2), n)
  BY <1>2, <1>8, SettledPushed DEF IsSound
<1>11. In(Shape(ns2), x) = 0
  BY <1>9 DEF OneIf
<1>12. /\ Shape(ns2)[x] = <<left>>
       /\ \A n \in DOMAIN ns : Shape(ns2)[n] = Shape(ns)[n]
  BY <1>2, <1>8 DEF With
<1>13. /\ States(ns2)[x] = state
       /\ \A n \in DOMAIN ns : States(ns2)[n] = States(ns)[n]
  BY <1>8 DEF With, States
<1>14. /\ Counts(ns2)[x] = 1 /\ ColumnsOf(ns2)[x] = column
       /\ \A n \in DOMAIN ns :
            /\ Counts(ns2)[n] = Counts(ns)[n] /\ Depths(ns2)[n] = Depths(ns)[n]
            /\ ColumnsOf(ns2)[n] = ColumnsOf(ns)[n]
  BY <1>2, <1>8 DEF With
<1> QED
  BY <1>8, <1>9, <1>10, <1>11, <1>12, <1>13, <1>14 DEF Grown, IsSound

(* The links and where they lead when all nodes stay.                      *)
LEMMA LinksStay ==
  ASSUME NEW w, NEW w2, DOMAIN w \subseteq DOMAIN w2, \A n \in DOMAIN w : w2[n] = w[n]
  PROVE  /\ LinksOf(w) \subseteq LinksOf(w2)
         /\ \A link \in LinksOf(w) : w2[link[1]][link[2]] = w[link[1]][link[2]]
<1> SUFFICES ASSUME NEW link \in LinksOf(w)
             PROVE  link \in LinksOf(w2) /\ w2[link[1]][link[2]] = w[link[1]][link[2]]
  OBVIOUS
<1>1. PICK n, k : n \in DOMAIN w /\ k \in DOMAIN w[n] /\ link = <<n, k>>
  BY LinksAre
<1>2. n \in DOMAIN w2 /\ k \in DOMAIN w2[n]
  BY <1>1
<1> QED
  BY <1>1, <1>2, LinksAre

Widened(ns2, ns, x, left) ==
  /\ IsSound(ns2) /\ DOMAIN ns2 = DOMAIN ns /\ DOMAIN Shape(ns2) = DOMAIN ns2
  /\ Shape(ns2)[x] = Append(Shape(ns)[x], left)
  /\ \A n \in DOMAIN ns : n # x => Shape(ns2)[n] = Shape(ns)[n]
  /\ States(ns2) = States(ns) /\ Counts(ns2) = Counts(ns)
  /\ ColumnsOf(ns2) = ColumnsOf(ns)
  /\ \A n : In(Shape(ns2), n) = In(Shape(ns), n) + OneIf(n = left)
  /\ LinksOf(Shape(ns2)) = LinksOf(Shape(ns)) \cup {<<x, Len(Shape(ns)[x]) + 1>>}
  /\ \A link \in LinksOf(Shape(ns)) :
       Shape(ns2)[link[1]][link[2]] = Shape(ns)[link[1]][link[2]]
  /\ Cardinality(LinksOf(Shape(ns2))) = Cardinality(LinksOf(Shape(ns))) + 1
  /\ Settled(Shape(ns2), Depths(ns2), x)
  /\ \A n \in DOMAIN ns :
       Settled(Shape(ns), Depths(ns), n) /\ n # x
           /\ (\A k \in DOMAIN Shape(ns)[n] : Shape(ns)[n][k] # x) =>
         Settled(Shape(ns2), Depths(ns2), n)

LEMMA StackWidens ==
  ASSUME NEW ns, IsSound(ns), NEW x \in DOMAIN ns, Shape(ns)[x] # << >>,
         NEW left \in DOMAIN ns, Leads(States(ns)[left], States(ns)[x]),
         \A k \in DOMAIN Shape(ns)[x] : Shape(ns)[x][k] # left,
         NEW v \in SVal, NEW ns2, ns2 = LinkAdded(ns, x, left, v)
  PROVE  Widened(ns2, ns, x, left)
<1>1. /\ IsStack(ns) /\ left \in NodeId /\ DOMAIN Shape(ns) = DOMAIN ns
      /\ IsShape(Shape(ns)) /\ Depths(ns) \in [DOMAIN ns -> Nat]
      /\ Linked(Shape(ns)) /\ OnAutomaton(Shape(ns), States(ns))
  BY StackTypes DEF IsSound, IsStack
<1>2. /\ IsStack(ns2) /\ DOMAIN ns2 = DOMAIN ns
      /\ Shape(ns2) = With(Shape(ns), x, Append(Shape(ns)[x], left))
      /\ States(ns2) = States(ns) /\ Counts(ns2) = Counts(ns)
      /\ Depths(ns2) = With(Depths(ns), x, 0) /\ ColumnsOf(ns2) = ColumnsOf(ns)
  BY <1>1, ViewsLinkAdded
<1>3. /\ Linked(Shape(ns2)) /\ OnAutomaton(Shape(ns2), States(ns))
      /\ \A n : In(Shape(ns2), n) = In(Shape(ns), n) + OneIf(n = left)
      /\ Cardinality(LinksOf(Shape(ns2))) = Cardinality(LinksOf(Shape(ns))) + 1
  BY <1>1, <1>2, StackAppended
<1>4. LinksOf(Shape(ns2)) = LinksOf(Shape(ns)) \cup {<<x, Len(Shape(ns)[x]) + 1>>}
  BY <1>1, <1>2, LinksAppended
<1>5. /\ Settled(Shape(ns2), Depths(ns2), x)
      /\ \A n \in DOMAIN ns :
           Settled(Shape(ns), Depths(ns), n) /\ n # x
               /\ (\A k \in DOMAIN Shape(ns)[n] : Shape(ns)[n][k] # x) =>
             Settled(Shape(ns2), Depths(ns2), n)
  BY <1>1, <1>2, SettledAppended
<1>6. /\ DOMAIN Shape(ns2) = DOMAIN ns2 /\ Shape(ns2)[x] = Append(Shape(ns)[x], left)
      /\ \A n \in DOMAIN ns : n # x => Shape(ns2)[n] = Shape(ns)[n]
  BY <1>1, <1>2 DEF With
<1>7. ASSUME NEW link \in LinksOf(Shape(ns))
      PROVE  Shape(ns2)[link[1]][link[2]] = Shape(ns)[link[1]][link[2]]
  <2>1. PICK n, k : n \in DOMAIN ns /\ k \in DOMAIN Shape(ns)[n] /\ link = <<n, k>>
    BY <1>1, LinksAre
  <2>2. CASE n # x
    BY <1>6, <2>1, <2>2
  <2>3. CASE n = x
    <3>1. Shape(ns)[x] \in Seq(NodeId) /\ k \in 1..Len(Shape(ns)[x])
      BY <1>1, <2>1, <2>3 DEF IsShape
    <3>2. Append(Shape(ns)[x], left)[k] = Shape(ns)[x][k]
      BY <1>1, <3>1
    <3> QED
      BY <1>6, <2>1, <2>3, <3>2
  <2> QED
    BY <2>2, <2>3
<1> QED
  BY <1>2, <1>3, <1>4, <1>5, <1>6, <1>7 DEF Widened, IsSound

Shrunk(ns2, ns, x) ==
  /\ IsSound(ns2) /\ DOMAIN ns2 = DOMAIN ns \ {x} /\ DOMAIN Shape(ns2) = DOMAIN ns2
  /\ \A n \in DOMAIN ns2 :
       /\ Shape(ns2)[n] = Shape(ns)[n] /\ States(ns2)[n] = States(ns)[n]
       /\ Counts(ns2)[n] = Counts(ns)[n] /\ Depths(ns2)[n] = Depths(ns)[n]
       /\ ColumnsOf(ns2)[n] = ColumnsOf(ns)[n]
  /\ \A n \in DOMAIN ns : \A k \in DOMAIN Shape(ns)[n] : Shape(ns)[n][k] # x
  /\ \A n : In(Shape(ns), n) = In(Shape(ns2), n) + Occ(n, Shape(ns)[x])
  /\ Cardinality(LinksOf(Shape(ns))) = Cardinality(LinksOf(Shape(ns2))) + Len(Shape(ns)[x])
  /\ \A n \in DOMAIN ns2 : Settled(Shape(ns), Depths(ns), n) =>
       Settled(Shape(ns2), Depths(ns2), n)

LEMMA StackShrinks ==
  ASSUME NEW ns, IsSound(ns), NEW x \in DOMAIN ns, In(Shape(ns), x) = 0,
         NEW ns2, ns2 = Without(ns, x)
  PROVE  Shrunk(ns2, ns, x)
<1>1. /\ IsStack(ns) /\ DOMAIN Shape(ns) = DOMAIN ns /\ IsShape(Shape(ns))
      /\ Depths(ns) \in [DOMAIN ns -> Nat]
      /\ Linked(Shape(ns)) /\ OnAutomaton(Shape(ns), States(ns))
  BY StackTypes DEF IsSound
<1>2. /\ IsStack(ns2) /\ DOMAIN ns2 = DOMAIN ns \ {x}
      /\ Shape(ns2) = Without(Shape(ns), x) /\ States(ns2) = Without(States(ns), x)
      /\ Counts(ns2) = Without(Counts(ns), x) /\ Depths(ns2) = Without(Depths(ns), x)
      /\ ColumnsOf(ns2) = Without(ColumnsOf(ns), x)
  BY <1>1, ViewsWithout
<1>3. /\ Linked(Shape(ns2)) /\ OnAutomaton(Shape(ns2), States(ns2))
      /\ \A n : In(Shape(ns), n) = In(Shape(ns2), n) + Occ(n, Shape(ns)[x])
      /\ Cardinality(LinksOf(Shape(ns))) = Cardinality(LinksOf(Shape(ns2))) + Len(Shape(ns)[x])
  BY <1>1, <1>2, StackDropped
<1>4. \A n \in DOMAIN Shape(ns2) : Settled(Shape(ns), Depths(ns), n) =>
        Settled(Shape(ns2), Depths(ns2), n)
  BY <1>1, <1>2, SettledDropped
<1>5. DOMAIN Shape(ns2) = DOMAIN ns2
  BY <1>2, StackTypes
<1>6. \A n \in DOMAIN ns2 : Shape(ns2)[n] = Shape(ns)[n] /\ States(ns2)[n] = States(ns)[n]
  BY <1>1, <1>2 DEF Without, States
<1>7. \A n \in DOMAIN ns2 :
        /\ Counts(ns2)[n] = Counts(ns)[n] /\ Depths(ns2)[n] = Depths(ns)[n]
        /\ ColumnsOf(ns2)[n] = ColumnsOf(ns)[n]
  BY <1>1, <1>2 DEF Without, Counts, Depths, ColumnsOf
<1>8. \A n \in DOMAIN ns : \A k \in DOMAIN Shape(ns)[n] : Shape(ns)[n][k] # x
  BY <1>1, InPositive
<1> QED
  BY <1>2, <1>3, <1>4, <1>5, <1>6, <1>7, <1>8 DEF Shrunk, IsSound

(* The value of a link is replaced.                                        *)
ValueSet(ns, x, k, v) == [ns EXCEPT ![x].sibs[k].sval = v]

LEMMA ViewsValueSet ==
  ASSUME NEW ns, IsStack(ns), NEW x \in DOMAIN ns, NEW k \in DOMAIN ns[x].sibs, NEW v \in SVal,
         NEW ns2, ns2 = ValueSet(ns, x, k, v)
  PROVE  IsStack(ns2) /\ DOMAIN ns2 = DOMAIN ns /\ SameViews(ns2, ns)
<1>1. PICK r : r = ns[x]
  OBVIOUS
<1>2. r \in StackNode /\ r.sibs \in Seq(SiblingLink) /\ k \in DOMAIN r.sibs
  BY <1>1 DEF IsStack, StackNode
<1>3. r.sibs[k] \in SiblingLink /\ DOMAIN r.sibs = 1..Len(r.sibs) /\ Len(r.sibs) \in Nat
      /\ \A j \in DOMAIN r.sibs : r.sibs[j] \in SiblingLink
  BY <1>2
<1>4. PICK l : l = [r.sibs[k] EXCEPT !.sval = v]
  OBVIOUS
<1>5. l \in SiblingLink /\ l.sib = r.sibs[k].sib
  BY <1>3, <1>4 DEF SiblingLink
<1>6. PICK sibs : sibs = [r.sibs EXCEPT ![k] = l]
  OBVIOUS
<1>7. sibs \in Seq(SiblingLink) /\ DOMAIN sibs = DOMAIN r.sibs
      /\ \A j \in DOMAIN r.sibs : sibs[j].sib = r.sibs[j].sib
  <2>1. DOMAIN sibs = DOMAIN r.sibs /\ sibs[k] = l
        /\ \A j \in DOMAIN r.sibs : j # k => sibs[j] = r.sibs[j]
    BY <1>2, <1>6
  <2>2. sibs \in Seq(SiblingLink)
    BY <1>2, <1>5, <1>6
  <2>3. sibs[k].sib = r.sibs[k].sib
    BY <1>5, <2>1
  <2> QED
    BY <2>1, <2>2, <2>3
<1>8. ns2 = [ns EXCEPT ![x] = [r EXCEPT !.sibs = sibs]]
  BY <1>1, <1>4, <1>6 DEF ValueSet
<1>9. PICK q : q = [r EXCEPT !.sibs = sibs]
  OBVIOUS
<1>10. /\ q \in StackNode /\ q.sibs = sibs /\ q.state = r.state
       /\ q.referenceCount = r.referenceCount /\ q.determinDepth = r.determinDepth
       /\ q.column = r.column
  BY <1>2, <1>7, <1>9 DEF StackNode
<1>11. /\ DOMAIN ns2 = DOMAIN ns /\ ns2[x] = q /\ ns2 = [n \in DOMAIN ns2 |-> ns2[n]]
       /\ \A n \in DOMAIN ns : n # x => ns2[n] = ns[n]
  BY <1>8, <1>9 DEF IsStack
<1>12. IsStack(ns2)
  BY <1>10, <1>11 DEF IsStack
<1>13. SameViews(ns2, ns)
  <2>1. ASSUME NEW n \in DOMAIN ns
        PROVE  /\ ns2[n].state = ns[n].state /\ ns2[n].referenceCount = ns[n].referenceCount
               /\ ns2[n].determinDepth = ns[n].determinDepth /\ ns2[n].column = ns[n].column
               /\ DOMAIN ns2[n].sibs = DOMAIN ns[n].sibs
               /\ \A j \in DOMAIN ns[n].sibs : ns2[n].sibs[j].sib = ns[n].sibs[j].sib
    <3>1. CASE n = x
      BY <1>1, <1>7, <1>10, <1>11, <3>1
    <3>2. CASE n # x
      BY <1>11, <3>2
    <3> QED
      BY <3>1, <3>2
  <2> QED
    BY <1>11, <2>1, ViewsValuesChanged
<1> QED
  BY <1>11, <1>12, <1>13

-----------------------------------------------------------------------------
(* The search of insertPathCopy finds its place.                           *)
LEMMA InsertionPointFound ==
  ASSUME NEW Elem, NEW q \in Seq(Elem), NEW p
  PROVE  LET i == InsertionPoint(q, p) IN
           /\ i \in 1..(Len(q) + 1)
           /\ \A j \in 1..(i - 1) : ~ GoesBefore(p, q[j])
           /\ i <= Len(q) => GoesBefore(p, q[i])
<1> DEFINE T == {i \in 1..(Len(q) + 1) : i <= Len(q) => GoesBefore(p, q[i])}
<1>1. Len(q) \in Nat
  OBVIOUS
<1>2. Len(q) + 1 \in T /\ T \in SUBSET Nat
  BY <1>1
<1>3. PICK i \in T : \A j \in T : i <= j
  BY <1>2, LeastElement
<1>4. \A j \in 1..(i - 1) : ~ GoesBefore(p, q[j])
  BY <1>1, <1>3
<1>5. /\ i \in 1..(Len(q) + 1)
      /\ \A j \in 1..(i - 1) : ~ GoesBefore(p, q[j])
      /\ i <= Len(q) => GoesBefore(p, q[i])
  BY <1>3, <1>4
<1> QED
  BY <1>5 DEF InsertionPoint

(* The list that results: the paths before the insertion point, the new    *)
(* one, and the others moved by one.                                       *)
LEMMA InsertPathCopyShape ==
  ASSUME NEW Elem, NEW q \in Seq(Elem), NEW p \in Elem
  PROVE  LET r == InsertPathCopy(q, p)
             i == InsertionPoint(q, p)
         IN  /\ r \in Seq(Elem) /\ Len(r) = Len(q) + 1
             /\ i \in 1..(Len(q) + 1)
             /\ \A k \in 1..(i - 1) : r[k] = q[k] /\ k \in 1..Len(q)
             /\ r[i] = p
             /\ \A k \in (i + 1)..(Len(q) + 1) :
                  r[k] = q[k - 1] /\ k - 1 \in 1..Len(q)
<1> DEFINE i == InsertionPoint(q, p)
           r == InsertPathCopy(q, p)
<1>1. Len(q) \in Nat /\ i \in 1..(Len(q) + 1)
  BY InsertionPointFound
<1>2. r = [k \in 1..(Len(q) + 1) |->
             IF k < i THEN q[k] ELSE IF k = i THEN p ELSE q[k - 1]]
  BY DEF InsertPathCopy
<1> HIDE DEF i, r
<1>3. \A k \in 1..(Len(q) + 1) : r[k] \in Elem
  BY <1>1, <1>2
<1>4. r \in [1..(Len(q) + 1) -> Elem]
  BY <1>2, <1>3
<1>5. r \in Seq(Elem) /\ Len(r) = Len(q) + 1
  BY <1>1, <1>4
<1>6. /\ \A k \in 1..(i - 1) : r[k] = q[k] /\ k \in 1..Len(q)
      /\ r[i] = p
      /\ \A k \in (i + 1)..(Len(q) + 1) :
           r[k] = q[k - 1] /\ k - 1 \in 1..Len(q)
  BY <1>1, <1>2
<1> QED
  BY <1>1, <1>5, <1>6 DEF i, r

-----------------------------------------------------------------------------

(* What the lexer and the user's actions answer is a semantic value.       *)
UserValues ==
  /\ \A x \in TermIndex : TokenVal(x) \in SVal
  /\ \A p \in ProdIndex : \A svals \in Seq(SVal) : ReductionAction(p, svals) \in SVal
  /\ \A a, b \in SVal : MergeAlternativeParses(a, b) \in SVal

-----------------------------------------------------------------------------
(* The inductive invariant.                                                *)

(* What the lists hold at each point of glrParse.                          *)
Phases ==
  /\ pc \notin {"pop", "aborted"} => reduction = NoReduction
  /\ pc \notin {"reduce", "settle"} =>
       pathQueue = << >> /\ frames = << >> /\ requests = << >>
  /\ pc # "settle" => depthSweep = NoSweep
  /\ pc # "shift" => prevTopmost = << >>
  /\ pc \notin {"shift", "release"} => decs = << >>
  /\ pc \in {"token", "mini-LR", "pop", "reduce", "settle", "next", "cleanup"} =>
       topmostParsers # << >>
  /\ pc \in {"pop", "aborted"} => Len(topmostParsers) = 1
  /\ pc = "idle" => node = << >> /\ globalNodeColumn = 0
  /\ pc \in {"idle", "release", "accepted"} => topmostParsers = << >>
  /\ pc \in {"release", "accepted"} <=> treeTop # << >>
  /\ Len(treeTop) <= 1

StackSound == Linked(Shape(node)) /\ OnAutomaton(Shape(node), States(node))

(* RefCountExact, of the shape.                                            *)
Counted ==
  /\ Elems(topmostParsers) \subseteq Live /\ Elems(prevTopmost) \subseteq Live
  /\ Elems(decs) \subseteq Live
  /\ \A n \in Live :
       Counts(node)[n] =
         In(Shape(node), n) + Occ(n, topmostParsers) + Occ(n, prevTopmost)
           + Occ(n, decs)

DifferentStates(s, list) ==
  \A i, j \in DOMAIN list : s[list[i]] = s[list[j]] => i = j
UniqueTops == DifferentStates(States(node), topmostParsers)

(* Nothing leads to the parsers on top, but in the middle of the reductions*)
(* those may lead to each other.                                           *)
NotLinked(w, list) ==
  \A n \in DOMAIN w : \A k \in DOMAIN w[n] : w[n][k] \notin Elems(list)
LinkedWithin(w, list) ==
  \A n \in DOMAIN w : \A k \in DOMAIN w[n] :
    w[n][k] \in Elems(list) => n \in Elems(list)
TopsUnlinked ==
  /\ pc \in {"token", "mini-LR", "pop", "shift", "next", "cleanup"} =>
       NotLinked(Shape(node), topmostParsers)
  /\ pc \in {"reduce", "settle"} => LinkedWithin(Shape(node), topmostParsers)
  /\ pc = "shift" => Elems(topmostParsers) \cap Elems(prevTopmost) = {}

(* While the depths are recomputed only parsers on top may have a wrong    *)
(* one, and only those that this sweep has not passed without a change.    *)
Settling ==
  /\ pc # "settle" => \A n \in Live : Settled(Shape(node), Depths(node), n)
  /\ pc = "settle" =>
       /\ \A n \in Live : n \notin Elems(topmostParsers) =>
            Settled(Shape(node), Depths(node), n)
       /\ ~ depthSweep.changes =>
            \A i \in DOMAIN topmostParsers :
              i < depthSweep.next =>
                Settled(Shape(node), Depths(node), topmostParsers[i])

TopColumns ==
  pc \notin {"pop", "aborted"} =>
    \A n \in Elems(topmostParsers) : ColumnsOf(node)[n] = globalNodeColumn

(* The reduction of the mini-LR core can be finished.                      *)
LeftToPop == ProdInfo[reduction.prod].rhsLen - Len(reduction.toPass)
Popping ==
  pc \in {"pop", "aborted"} =>
    /\ reduction.prod # FinalProduction
    /\ 0 <= LeftToPop /\ LeftToPop <= Depths(node)[TopParser]
    /\ <<reduction.prod, LeftToPop>> \in Items[States(node)[TopParser]]

(* The reductions that are being looked for or wait can be made.           *)
GoodFrame(f, ns) ==
  /\ f.currentNode \in DOMAIN ns
  /\ f.prod # FinalProduction
  /\ <<f.prod, f.popsRemaining>> \in Items[States(ns)[f.currentNode]]
  /\ PathIn(Shape(ns), f.currentNode, f.sibLinks)
GoodPath(p, ns) ==
  /\ p.leftEdge \in DOMAIN ns
  /\ p.prod # FinalProduction
  /\ <<p.prod, 0>> \in Items[States(ns)[p.leftEdge]]
  /\ p.startColumn = ColumnsOf(ns)[p.leftEdge]
  /\ PathIn(Shape(ns), p.leftEdge, p.sibLinks)
Enumerated ==
  /\ \A i \in DOMAIN requests : requests[i].parser \in Live
  /\ \A i \in DOMAIN frames : GoodFrame(frames[i], node)
  /\ \A i \in DOMAIN pathQueue : GoodPath(pathQueue[i], node)

(* The parsers that shift, and those that the new ones lead to, are in     *)
(* different states; the link whose value is duplicated is there.          *)
Shifts ==
  pc = "shift" =>
    /\ DifferentStates(States(node), prevTopmost)
    /\ \A m \in Elems(prevTopmost) : \A n \in Elems(topmostParsers) :
         \A k \in DOMAIN Shape(node)[n] :
           States(node)[m] # States(node)[Shape(node)[n][k]]
    /\ lastShiftLink # NoLink => lastShiftLink \in LinksOf(Shape(node))
                                 /\ lastShiftLink[1] \in Elems(topmostParsers)

(* The token that ends the parse leads to the state of the final item, over*)
(* one link.                                                               *)
AtEnd ==
  /\ pc \notin {"idle", "token"} => lexer.internalType = ToInternalType[lexer.type]
  /\ pc \in {"shift", "next", "cleanup"} /\ lexer.type = 0 =>
       \A n \in Elems(topmostParsers) :
         /\ <<FinalProduction, 2>> \in Items[States(node)[n]]
         /\ Len(Shape(node)[n]) = 1
  /\ pc = "cleanup" => lexer.type = 0

IInv ==
  /\ TypeOK /\ Phases /\ StackSound /\ Counted /\ UniqueTops /\ TopsUnlinked
  /\ Settling /\ TopColumns /\ Popping /\ Enumerated /\ Shifts /\ AtEnd

-----------------------------------------------------------------------------
LEMMA NodeIsStack ==
  ASSUME TypeOK
  PROVE  IsStack(node) /\ DOMAIN Shape(node) = Live
BY StackTypes DEF TypeOK, IsStack, Live

LEMMA Start == ASSUME Init PROVE IInv
<1>1. node = << >> /\ DOMAIN << >> = {}
  BY DEF Init
<1>2. TypeOK
  <2>1. IsFiniteSet(Live) /\ Live \in SUBSET NodeId /\ node \in [Live -> StackNode]
    BY <1>1, FS_EmptySet DEF Live
  <2>2. lexer \in [type : TermIndex, internalType : TermIndex]
    BY TablesAssumption DEF Init
  <2>3. reduction \in [prod : ProdIndex, toPass : Seq(SVal)]
    BY TablesAssumption DEF Init, NoReduction
  <2>4. depthSweep \in [next : NodeId, changes : BOOLEAN]
    BY DEF Init, NoSweep, NodeId
  <2> QED
    BY <2>1, <2>2, <2>3, <2>4 DEF Init, TypeOK
<1>3. Phases
  BY DEF Init, Phases
<1>4. DOMAIN Shape(node) = {} /\ DOMAIN States(node) = {} /\ Live = {}
  BY <1>1 DEF Shape, States, Live
<1>5. StackSound
  <2>1. IsShape(Shape(node)) /\ States(node) \in [{} -> StateId]
    BY <1>1, <1>2, <1>4, NodeIsStack, StackTypes
  <2> QED
    BY <1>4, <2>1 DEF StackSound, Linked, OnAutomaton
<1>6. Elems(topmostParsers) = {} /\ Elems(prevTopmost) = {} /\ Elems(decs) = {}
  BY DEF Init, Elems
<1>7. Counted
  BY <1>4, <1>6 DEF Counted
<1>8. UniqueTops /\ TopsUnlinked /\ TopColumns
  BY <1>6 DEF Init, UniqueTops, DifferentStates, TopsUnlinked, TopColumns
<1>9. Settling
  BY <1>4 DEF Init, Settling
<1>10. Popping /\ Enumerated /\ Shifts /\ AtEnd
  BY DEF Init, Popping, Enumerated, Shifts, AtEnd
<1> QED
  BY <1>2, <1>3, <1>5, <1>7, <1>8, <1>9, <1>10 DEF IInv

-----------------------------------------------------------------------------
(* The steps that leave the stack and the lists of its nodes alone.        *)
SameLists == UNCHANGED <<node, topmostParsers, prevTopmost, decs>>

LEMMA SameStack ==
  ASSUME IInv, SameLists
  PROVE  StackSound' /\ Counted' /\ UniqueTops'
BY DEF IInv, SameLists, StackSound, Counted, UniqueTops, Live

LEMMA TakeTokenKeeps ==
  ASSUME IInv, TakeToken
  PROVE  IInv'
<1>1. StackSound' /\ Counted' /\ UniqueTops'
  BY SameStack DEF TakeToken, SameLists, stackVars
<1>2. TypeOK'
  <2>1. savedTokens \in Seq(TermIndex) /\ TypeOK
    BY DEF IInv, TypeOK
  <2>2. Pieces \in Seq(TermIndex) /\ Pieces # << >>
    <3>1. CASE position <= Len(text)
      <4>1. text \in Seq(Lexeme) /\ position \in 1..Len(text)
        BY <2>1, <3>1 DEF TypeOK
      <4>2. text[position] \in Lexeme
        BY <4>1
      <4> QED
        BY <3>1, <4>2, LexerAssumption DEF Pieces
    <3>2. CASE ~ (position <= Len(text))
      BY <3>2, TablesAssumption DEF Pieces
    <3> QED
      BY <3>1, <3>2
  <2>3. PICK pieces : pieces = IF savedTokens # << >> THEN savedTokens ELSE Pieces
    OBVIOUS
  <2>4. pieces \in Seq(TermIndex) /\ pieces # << >>
    BY <2>1, <2>2, <2>3
  <2>5. Head(pieces) \in TermIndex /\ Tail(pieces) \in Seq(TermIndex)
    BY <2>4
  <2>6. ToInternalType[Head(pieces)] \in TermIndex
    BY <2>5, LexerAssumption
  <2>7. /\ lexer' = [type |-> Head(pieces), internalType |-> ToInternalType[Head(pieces)]]
        /\ savedTokens' = Tail(pieces)
    BY <2>3 DEF TakeToken
  <2>8. /\ lexer' \in [type : TermIndex, internalType : TermIndex]
        /\ savedTokens' \in Seq(TermIndex)
    BY <2>5, <2>6, <2>7
  <2> QED
    BY <2>1, <2>8 DEF TakeToken, TypeOK, stackVars, workVars, resultVars, Live
<1>3. Phases'
  BY DEF IInv, TakeToken, Phases, stackVars, workVars, resultVars
<1>4. TopsUnlinked' /\ TopColumns'
  BY DEF IInv, TakeToken, TopsUnlinked, TopColumns, stackVars
<1>5. Settling'
  BY DEF IInv, TakeToken, Settling, stackVars, workVars, Live
<1>6. Popping' /\ Enumerated' /\ Shifts' /\ AtEnd'
  <2>1. pc' = "mini-LR" /\ pathQueue = << >> /\ frames = << >> /\ requests = << >>
        /\ UNCHANGED <<pathQueue, frames, requests>>
    BY DEF IInv, TakeToken, Phases, workVars
  <2>2. lexer'.internalType = ToInternalType[lexer'.type]
    BY DEF TakeToken
  <2> QED
    BY <2>1, <2>2 DEF Popping, Enumerated, Shifts, AtEnd
<1> QED
  BY <1>1, <1>2, <1>3, <1>4, <1>5, <1>6 DEF IInv

LEMMA StutterKeeps ==
  ASSUME IInv, UNCHANGED vars
  PROVE  IInv'
<1>1. /\ UNCHANGED <<pc, text, position, savedTokens, lexer>>
      /\ UNCHANGED <<node, topmostParsers, prevTopmost, globalNodeColumn>>
      /\ UNCHANGED <<reduction, pathQueue, frames, requests, depthSweep>>
      /\ UNCHANGED <<lastShiftLink, decs, owned, yieldThenMergeCt, treeTop>>
  BY DEF vars, lexVars, stackVars, workVars, resultVars
<1>2. StackSound' /\ Counted' /\ UniqueTops'
  BY <1>1, SameStack DEF SameLists
<1>3. TypeOK' /\ Phases'
  BY <1>1 DEF IInv, TypeOK, Phases, Live
<1>4. TopsUnlinked' /\ Settling' /\ TopColumns' /\ Popping'
  BY <1>1 DEF IInv, TopsUnlinked, Settling, TopColumns, Popping, LeftToPop, TopParser, Live
<1>5. Enumerated' /\ Shifts' /\ AtEnd'
  BY <1>1 DEF IInv, Enumerated, GoodFrame, GoodPath, Shifts, AtEnd, Live
<1> QED
  BY <1>2, <1>3, <1>4, <1>5 DEF IInv

LEMMA MiniLRErrorKeeps ==
  ASSUME IInv, MiniLRError
  PROVE  IInv'
<1>1. StackSound' /\ Counted' /\ UniqueTops'
  BY SameStack DEF MiniLRError, SameLists, stackVars
<1>2. TypeOK'
  BY DEF IInv, TypeOK, MiniLRError, lexVars, stackVars, workVars, resultVars, Live, Final
<1>3. Phases'
  BY DEF IInv, MiniLRError, Phases, stackVars, workVars, resultVars
<1>4. TopsUnlinked' /\ Settling' /\ TopColumns'
  BY DEF IInv, MiniLRError, TopsUnlinked, Settling, TopColumns, stackVars, Live
<1>5. Popping' /\ Enumerated' /\ Shifts' /\ AtEnd'
  BY DEF IInv, MiniLRError, Phases, Popping, Enumerated, Shifts, AtEnd, workVars, lexVars
<1> QED
  BY <1>1, <1>2, <1>3, <1>4, <1>5 DEF IInv

(* The parser on top, when there is one.                                   *)
LEMMA OnTop ==
  ASSUME IInv, Len(topmostParsers) = 1
  PROVE  /\ TopParser \in Live /\ TopParser \in NodeId /\ topmostParsers = <<TopParser>>
         /\ Elems(topmostParsers) = {TopParser}
         /\ States(node)[TopParser] = node[TopParser].state
         /\ node[TopParser].state \in StateId
<1>1. topmostParsers \in Seq(NodeId)
  BY DEF IInv, TypeOK
<1>2. topmostParsers = <<TopParser>> /\ Elems(topmostParsers) = {TopParser}
  BY <1>1 DEF TopParser, Elems
<1>3. TopParser \in Live
  BY <1>2 DEF IInv, Counted
<1> QED
  BY <1>1, <1>2, <1>3 DEF IInv, TypeOK, StackNode, States, Live

LEMMA MiniLRReduceKeeps ==
  ASSUME IInv, MiniLRReduce
  PROVE  IInv'
<1>1. StackSound' /\ Counted' /\ UniqueTops'
  BY SameStack DEF MiniLRReduce, SameLists, stackVars
<1>2. /\ TypeOK /\ Len(topmostParsers) = 1 /\ UNCHANGED <<node, topmostParsers>>
      /\ lexer.internalType \in TermIndex
  BY DEF IInv, MiniLRReduce, TypeOK, OneParser, stackVars
<1>3. PICK p, s : p = MiniLRAction(TopParser).reds[1] /\ s = node[TopParser].state
  OBVIOUS
<1>4. /\ p \in ProdIndex /\ s \in StateId /\ s = States(node)[TopParser]
      /\ p # FinalProduction /\ <<p, ProdInfo[p].rhsLen>> \in Items[s]
      /\ ProdInfo[p].rhsLen \in Nat
      /\ ProdInfo[p].rhsLen <= Depths(node)[TopParser]
  <2>1. ActionTable[s][lexer.internalType] \in ActionEntry /\ s \in StateId
        /\ s = States(node)[TopParser] /\ TopParser \in Live
    BY <1>2, <1>3, OnTop, TablesAssumption
  <2>2. /\ ActionTable[s][lexer.internalType].reds \in Seq(ProdIndex)
        /\ Len(ActionTable[s][lexer.internalType].reds) = 1
        /\ p = ActionTable[s][lexer.internalType].reds[1]
    BY <1>3, <2>1 DEF ActionEntry, MiniLRReduce, CanReduceUnambiguously, IsReduceAction, MiniLRAction
  <2>3. 1 \in DOMAIN ActionTable[s][lexer.internalType].reds
    BY <2>2
  <2>4. p \in ProdIndex /\ p # FinalProduction /\ <<p, ProdInfo[p].rhsLen>> \in Items[s]
    BY <1>2, <2>1, <2>2, <2>3, ItemsAssumption
  <2>5. ProdInfo[p].rhsLen \in Nat
    BY <2>4, ProdInfoAssumption
  <2>6. ProdInfo[p].rhsLen <= node[TopParser].determinDepth
    BY <1>3 DEF MiniLRReduce, CanReduceUnambiguously
  <2> QED
    BY <2>1, <2>4, <2>5, <2>6 DEF Depths, Live
<1>5. reduction' = [prod |-> p, toPass |-> << >>] /\ pc' = "pop"
  BY <1>3 DEF MiniLRReduce
<1>6. TypeOK'
  <2>1. << >> \in Seq(SVal)
    OBVIOUS
  <2>2. reduction' \in [prod : ProdIndex, toPass : Seq(SVal)]
    BY <1>4, <1>5, <2>1
  <2> QED
    BY <1>2, <1>5, <2>2 DEF TypeOK, MiniLRReduce, lexVars, stackVars, workVars, resultVars, Live
<1>7. Phases'
  BY <1>2 DEF IInv, MiniLRReduce, Phases, stackVars, workVars, resultVars
<1>8. TopsUnlinked' /\ Settling' /\ TopColumns'
  BY DEF IInv, MiniLRReduce, TopsUnlinked, Settling, TopColumns, stackVars, Live
<1>9. Popping'
  <2>1. reduction'.prod = p /\ Len(reduction'.toPass) = 0
    BY <1>5
  <2> QED
    BY <1>2, <1>4, <2>1 DEF Popping, LeftToPop, TopParser
<1>10. Enumerated' /\ Shifts' /\ AtEnd'
  BY <1>5 DEF IInv, MiniLRReduce, Phases, Enumerated, Shifts, AtEnd, workVars, lexVars
<1> QED
  BY <1>1, <1>6, <1>7, <1>8, <1>9, <1>10 DEF IInv

LEMMA MiniLRPopAssertFailsKeeps ==
  ASSUME IInv, MiniLRPopAssertFails
  PROVE  IInv'
<1>1. StackSound' /\ Counted' /\ UniqueTops'
  BY SameStack DEF MiniLRPopAssertFails, SameLists, stackVars
<1>2. TypeOK'
  BY DEF IInv, TypeOK, MiniLRPopAssertFails, lexVars, stackVars, workVars, resultVars, Live, Final
<1>3. Phases'
  BY DEF IInv, MiniLRPopAssertFails, Phases, stackVars, workVars, resultVars
<1>4. TopsUnlinked' /\ Settling' /\ TopColumns'
  BY DEF IInv, MiniLRPopAssertFails, TopsUnlinked, Settling, TopColumns, stackVars, Live
<1>5. Popping'
  BY DEF IInv, MiniLRPopAssertFails, Popping, LeftToPop, TopParser, stackVars
<1>6. Enumerated' /\ Shifts' /\ AtEnd'
  BY DEF IInv, MiniLRPopAssertFails, Phases, Enumerated, Shifts, AtEnd, workVars, lexVars
<1> QED
  BY <1>1, <1>2, <1>3, <1>4, <1>5, <1>6 DEF IInv

LEMMA FallBackKeeps ==
  ASSUME IInv, FallBack
  PROVE  IInv'
<1>1. StackSound' /\ Counted' /\ UniqueTops'
  BY SameStack DEF FallBack, SameLists, stackVars
<1>2. topmostParsers \in Seq(NodeId) /\ Elems(topmostParsers) \subseteq Live
  BY DEF IInv, TypeOK, Counted
<1>3. /\ DOMAIN requests' = DOMAIN topmostParsers
      /\ \A i \in DOMAIN topmostParsers :
           requests'[i] = [parser |-> topmostParsers[i], mustUseLink |-> NoLink]
      /\ requests' = [i \in DOMAIN topmostParsers |-> requests'[i]]
  BY DEF FallBack, EnqueueAll
<1>4. requests' \in Seq(Request) /\ \A i \in DOMAIN requests' : requests'[i].parser \in Live
  <2>1. DOMAIN topmostParsers = 1..Len(topmostParsers) /\ Len(topmostParsers) \in Nat
    BY <1>2
  <2>2. \A i \in DOMAIN topmostParsers : topmostParsers[i] \in NodeId /\ topmostParsers[i] \in Live
    BY <1>2 DEF Elems
  <2>3. \A i \in DOMAIN topmostParsers : requests'[i] \in Request
    BY <1>3, <2>2 DEF Request
  <2> QED
    BY <1>3, <2>1, <2>2, <2>3
<1>5. TypeOK'
  BY <1>4 DEF IInv, TypeOK, FallBack, lexVars, stackVars, resultVars, Live
<1>6. Phases'
  BY DEF IInv, FallBack, Phases, stackVars, resultVars
<1>7. TopsUnlinked' /\ Settling' /\ TopColumns'
  BY DEF IInv, FallBack, TopsUnlinked, NotLinked, LinkedWithin, Settling, TopColumns, stackVars, Live
<1>8. Enumerated'
  BY <1>4 DEF IInv, FallBack, Phases, Enumerated, stackVars, Live
<1>9. Popping' /\ Shifts' /\ AtEnd'
  BY DEF IInv, FallBack, Popping, Shifts, AtEnd, lexVars
<1> QED
  BY <1>1, <1>5, <1>6, <1>7, <1>8, <1>9 DEF IInv

LEMMA ShiftsDoneKeeps ==
  ASSUME IInv, ShiftsDone
  PROVE  IInv'
<1>1. StackSound' /\ Counted' /\ UniqueTops'
  BY SameStack DEF ShiftsDone, SameLists, stackVars
<1>2. TypeOK'
  BY DEF IInv, TypeOK, ShiftsDone, lexVars, stackVars, workVars, resultVars, Live, Final
<1>3. Phases'
  BY DEF IInv, ShiftsDone, Phases, stackVars, workVars, resultVars
<1>4. TopsUnlinked' /\ Settling' /\ TopColumns'
  BY DEF IInv, ShiftsDone, TopsUnlinked, Settling, TopColumns, stackVars, Live
<1>5. Popping' /\ Enumerated' /\ Shifts'
  BY DEF IInv, ShiftsDone, Phases, Popping, Enumerated, Shifts, workVars, lexVars
<1>6. AtEnd'
  BY DEF IInv, ShiftsDone, AtEnd, lexVars, stackVars
<1> QED
  BY <1>1, <1>2, <1>3, <1>4, <1>5, <1>6 DEF IInv

LEMMA NextTokenKeeps ==
  ASSUME IInv, NextToken
  PROVE  IInv'
<1>1. StackSound' /\ Counted' /\ UniqueTops'
  BY SameStack DEF NextToken, SameLists, stackVars
<1>2. TypeOK'
  <2>1. TypeOK /\ position' \in Nat \ {0} /\ owned' \in Int
    BY DEF IInv, TypeOK, NextToken
  <2>2. pc' \in {"cleanup", "token"}
    BY DEF NextToken
  <2> QED
    BY <2>1, <2>2 DEF TypeOK, NextToken, stackVars, workVars, resultVars, Live
<1>3. Phases'
  BY DEF IInv, NextToken, Phases, stackVars, workVars, resultVars
<1>4. TopsUnlinked' /\ Settling' /\ TopColumns'
  BY DEF IInv, NextToken, TopsUnlinked, Settling, TopColumns, stackVars, Live
<1>5. Popping' /\ Enumerated' /\ Shifts'
  BY DEF IInv, NextToken, Phases, Popping, Enumerated, Shifts, workVars
<1>6. AtEnd'
  BY DEF IInv, NextToken, AtEnd, stackVars
<1> QED
  BY <1>1, <1>2, <1>3, <1>4, <1>5, <1>6 DEF IInv

LEMMA AcceptKeeps ==
  ASSUME IInv, Accept
  PROVE  IInv'
<1>1. StackSound' /\ Counted' /\ UniqueTops'
  BY SameStack DEF Accept, SameLists, stackVars
<1>2. TypeOK'
  BY DEF IInv, TypeOK, Accept, lexVars, stackVars, workVars, resultVars, Live, Final
<1>3. Phases'
  BY DEF IInv, Accept, Phases, stackVars, workVars, resultVars
<1>4. TopsUnlinked' /\ Settling' /\ TopColumns'
  BY DEF IInv, Accept, TopsUnlinked, Settling, TopColumns, stackVars, Live
<1>5. Popping' /\ Enumerated' /\ Shifts' /\ AtEnd'
  BY DEF IInv, Accept, Phases, Popping, Enumerated, Shifts, AtEnd, workVars, lexVars
<1> QED
  BY <1>1, <1>2, <1>3, <1>4, <1>5 DEF IInv

LEMMA SettleSweepDoneKeeps ==
  ASSUME IInv, SettleSweepDone
  PROVE  IInv'
<1>1. StackSound' /\ Counted' /\ UniqueTops'
  BY SameStack DEF SettleSweepDone, SameLists, stackVars
<1>2. TypeOK'
  <2>1. NoSweep \in [next : NodeId, changes : BOOLEAN]
    BY DEF NoSweep, NodeId
  <2> QED
    BY <2>1 DEF IInv, TypeOK, SettleSweepDone, lexVars, stackVars, resultVars, Live
<1>3. Phases'
  BY DEF IInv, SettleSweepDone, Phases, stackVars, resultVars
<1>4. TopsUnlinked' /\ TopColumns'
  BY DEF IInv, SettleSweepDone, TopsUnlinked, TopColumns, stackVars
<1>5. Settling'
  <2>1. UNCHANGED <<node, topmostParsers>> /\ Live' = Live
    BY DEF SettleSweepDone, stackVars, Live
  <2>2. CASE depthSweep.changes
    <3>1. pc' = "settle" /\ depthSweep' = [next |-> 1, changes |-> FALSE]
      BY <2>2 DEF SettleSweepDone, NoSweep
    <3>2. \A i \in DOMAIN topmostParsers : ~ (i < depthSweep'.next)
      <4>1. topmostParsers \in Seq(NodeId) /\ depthSweep'.next = 1
        BY <3>1 DEF IInv, TypeOK
      <4> QED
        BY <4>1
    <3> QED
      BY <2>1, <3>1, <3>2 DEF IInv, SettleSweepDone, Settling
  <2>3. CASE ~ depthSweep.changes
    <3>1. /\ pc' = "reduce" /\ pc = "settle"
          /\ topmostParsers \in Seq(NodeId) /\ depthSweep.next \in NodeId
          /\ depthSweep.next > Len(topmostParsers)
      BY <2>3 DEF SettleSweepDone, IInv, TypeOK
    <3>2. \A i \in DOMAIN topmostParsers : i < depthSweep.next
      BY <3>1 DEF NodeId
    <3>3. \A i \in DOMAIN topmostParsers :
            Settled(Shape(node), Depths(node), topmostParsers[i])
      BY <2>3, <3>1, <3>2 DEF IInv, Settling
    <3>4. \A n \in Live : Settled(Shape(node), Depths(node), n)
      BY <3>1, <3>3 DEF IInv, Settling, Elems
    <3> QED
      BY <2>1, <3>1, <3>4 DEF Settling
  <2> QED
    BY <2>2, <2>3
<1>6. Enumerated'
  BY DEF IInv, SettleSweepDone, Enumerated, GoodFrame, GoodPath, stackVars, Live
<1>7. Popping' /\ Shifts' /\ AtEnd'
  BY DEF IInv, SettleSweepDone, Popping, Shifts, AtEnd, lexVars
<1> QED
  BY <1>1, <1>2, <1>3, <1>4, <1>5, <1>6, <1>7 DEF IInv

LEMMA EnqueueReductionsKeeps ==
  ASSUME IInv, EnqueueReductions
  PROVE  IInv'
<1>1. StackSound' /\ Counted' /\ UniqueTops'
  BY SameStack DEF EnqueueReductions, SameLists, stackVars
<1>2. /\ TypeOK /\ UNCHANGED <<node, pathQueue>> /\ Live' = Live
      /\ requests \in Seq(Request) /\ requests # << >> /\ requests' = Tail(requests)
      /\ lexer.type \in TermIndex
  BY DEF IInv, EnqueueReductions, TypeOK, stackVars, Live
<1>3. /\ Tail(requests) \in Seq(Request) /\ 1 \in DOMAIN requests
      /\ Head(requests) = requests[1] /\ requests[1] \in Request
      /\ \A i \in DOMAIN Tail(requests) : i + 1 \in DOMAIN requests
                                          /\ Tail(requests)[i] = requests[i + 1]
  BY <1>2
<1>4. PICK n : n = Head(requests).parser
  OBVIOUS
<1>5. n \in NodeId /\ n \in Live /\ Head(requests).mustUseLink \in LinkRef \cup {NoLink}
  BY <1>3, <1>4 DEF IInv, Enumerated, Request
<1>6. PICK s : s = node[n].state
  OBVIOUS
<1>7. s \in StateId /\ s = States(node)[n]
  BY <1>2, <1>5, <1>6 DEF TypeOK, StackNode, States, Live
<1>8. PICK reds : reds = ActionTable[s][lexer.type].reds
  OBVIOUS
<1>9. /\ reds \in Seq(ProdIndex)
      /\ \A i \in DOMAIN reds : /\ reds[i] # FinalProduction
                                /\ <<reds[i], ProdInfo[reds[i]].rhsLen>> \in Items[s]
  <2>1. ActionTable[s][lexer.type] \in ActionEntry
    BY <1>2, <1>7, TablesAssumption
  <2> QED
    BY <1>2, <1>7, <1>8, <2>1, ItemsAssumption DEF ActionEntry
<1>10. reds = GetActionEntry(n).reds
  BY <1>6, <1>8 DEF GetActionEntry
<1>11. /\ frames' = [i \in DOMAIN reds |-> frames'[i]] /\ DOMAIN frames' = DOMAIN reds
       /\ \A i \in DOMAIN reds :
            frames'[i] = [prod |-> reds[i], popsRemaining |-> ProdInfo[reds[i]].rhsLen,
                          currentNode |-> n, sibLinks |-> << >>,
                          mustUseLink |-> Head(requests).mustUseLink]
  BY <1>4, <1>10 DEF EnqueueReductions
<1>12. ASSUME NEW i \in DOMAIN reds
       PROVE  frames'[i] \in Frame /\ GoodFrame(frames'[i], node)
  <2>1. reds[i] \in ProdIndex /\ ProdInfo[reds[i]].rhsLen \in Nat
    BY <1>9, ProdInfoAssumption
  <2>2. << >> \in Seq(LinkRef) /\ PathIn(Shape(node), n, << >>)
    BY DEF PathIn
  <2>3. PICK f : f = [prod |-> reds[i], popsRemaining |-> ProdInfo[reds[i]].rhsLen,
                      currentNode |-> n, sibLinks |-> << >>,
                      mustUseLink |-> Head(requests).mustUseLink]
    OBVIOUS
  <2>4. f \in Frame
    BY <1>5, <2>1, <2>2, <2>3 DEF Frame
  <2>5. /\ f.prod = reds[i] /\ f.popsRemaining = ProdInfo[reds[i]].rhsLen
        /\ f.currentNode = n /\ f.sibLinks = << >>
    BY <2>3
  <2>6. GoodFrame(f, node)
    BY <1>5, <1>7, <1>9, <2>2, <2>5 DEF GoodFrame, Live
  <2> QED
    BY <1>11, <2>3, <2>4, <2>6
<1>13. frames' \in Seq(Frame)
  BY <1>9, <1>11, <1>12
<1>14. TypeOK'
  BY <1>2, <1>3, <1>13 DEF TypeOK, EnqueueReductions, lexVars, stackVars, resultVars
<1>15. Enumerated'
  <2>1. \A i \in DOMAIN requests' : requests'[i].parser \in Live
    BY <1>2, <1>3 DEF IInv, Enumerated
  <2> QED
    BY <1>2, <1>11, <1>12, <2>1 DEF IInv, Enumerated
<1>16. Phases' /\ TopsUnlinked' /\ Settling' /\ TopColumns'
  BY DEF IInv, EnqueueReductions, Phases, TopsUnlinked, Settling, TopColumns, stackVars,
         resultVars, Live
<1>17. Popping' /\ Shifts' /\ AtEnd'
  BY DEF IInv, EnqueueReductions, Popping, Shifts, AtEnd, lexVars
<1> QED
  BY <1>1, <1>14, <1>15, <1>16, <1>17 DEF IInv

(* One symbol back.                                                        *)
LEMMA ItemBefore ==
  ASSUME NEW s \in StateId, NEW t \in StateId, Leads(s, t),
         NEW p, NEW d \in Nat, d > 0, <<p, d>> \in Items[t]
  PROVE  <<p, d - 1>> \in Items[s]
<1>1. PICK i \in Items[t] : i = <<p, d>>
  OBVIOUS
<1>2. i[2] > 0 => <<i[1], i[2] - 1>> \in Items[s]
  BY <1>1, ItemsAssumption
<1> QED
  BY <1>1, <1>2

LEMMA LinkBack ==
  ASSUME IInv, NEW n \in Live, NEW k \in DOMAIN Shape(node)[n]
  PROVE  /\ Shape(node)[n][k] \in Live /\ Shape(node)[n][k] \in NodeId /\ k \in NodeId
         /\ <<n, k>> \in LinkRef
         /\ k \in DOMAIN node[n].sibs /\ Shape(node)[n][k] = node[n].sibs[k].sib
         /\ node[n].sibs[k].sval \in SVal
         /\ States(node)[n] \in StateId /\ States(node)[Shape(node)[n][k]] \in StateId
         /\ Leads(States(node)[Shape(node)[n][k]], States(node)[n])
<1>1. IsStack(node) /\ DOMAIN Shape(node) = Live /\ DOMAIN node = Live
  BY NodeIsStack DEF IInv, Live
<1>2. /\ Shape(node)[n][k] \in Live
      /\ Leads(States(node)[Shape(node)[n][k]], States(node)[n])
      /\ States(node) \in [Live -> StateId]
  BY <1>1 DEF IInv, StackSound, Linked, OnAutomaton
<1>3. k \in DOMAIN node[n].sibs /\ Shape(node)[n][k] = node[n].sibs[k].sib
  BY <1>1, ShapeAt
<1>4. node[n].sibs \in Seq(SiblingLink) /\ n \in NodeId
  BY <1>1 DEF IsStack, StackNode
<1>5. k \in 1..Len(node[n].sibs) /\ node[n].sibs[k] \in SiblingLink
  BY <1>3, <1>4
<1>6. k \in NodeId /\ node[n].sibs[k].sval \in SVal
  BY <1>5 DEF NodeId, SiblingLink
<1> QED
  BY <1>1, <1>2, <1>3, <1>4, <1>6 DEF LinkRef, IsStack

(* A node that an item was reached over has a link.                        *)
LEMMA HasLink ==
  ASSUME IInv, NEW n \in Live, NEW p, NEW d \in Nat, d > 0,
         <<p, d>> \in Items[States(node)[n]]
  PROVE  Shape(node)[n] # << >> /\ 1 \in DOMAIN Shape(node)[n]
<1>1. DOMAIN Shape(node) = Live /\ IsStack(node)
  BY NodeIsStack DEF IInv
<1>2. States(node)[n] # StartState
  <2>1. \A i \in Items[StartState] : i[2] = 0
    BY ItemsAssumption
  <2> QED
    BY <2>1
<1>3. Shape(node)[n] # << >> /\ Shape(node)[n] \in Seq(NodeId)
  BY <1>1, <1>2, StackTypes DEF IInv, StackSound, OnAutomaton, IsShape
<1> QED
  BY <1>3

LEMMA ExtendPathKeeps ==
  ASSUME IInv, ExtendPath
  PROVE  IInv'
<1>1. StackSound' /\ Counted' /\ UniqueTops'
  BY SameStack DEF ExtendPath, SameLists, stackVars
<1>2. /\ TypeOK /\ UNCHANGED <<node, pathQueue, requests>> /\ Live' = Live
      /\ frames \in Seq(Frame) /\ frames # << >>
  BY DEF IInv, ExtendPath, TypeOK, stackVars, Live
<1>3. /\ Tail(frames) \in Seq(Frame) /\ 1 \in DOMAIN frames
      /\ Head(frames) = frames[1] /\ frames[1] \in Frame
      /\ \A i \in DOMAIN Tail(frames) : i + 1 \in DOMAIN frames
                                        /\ Tail(frames)[i] = frames[i + 1]
  BY <1>2
<1>4. PICK f, n : f = Head(frames) /\ n = f.currentNode
  OBVIOUS
<1>5. /\ f \in Frame /\ GoodFrame(f, node) /\ n \in Live /\ n \in NodeId
      /\ f.popsRemaining \in Nat /\ f.popsRemaining > 0
  BY <1>3, <1>4 DEF IInv, Enumerated, GoodFrame, Frame, ExtendPath, Live
<1>6. PICK sibs, len : sibs = node[n].sibs /\ len = Len(node[n].sibs)
  OBVIOUS
<1>7. len \in Nat /\ sibs \in Seq(SiblingLink) /\ DOMAIN sibs = 1..len
      /\ DOMAIN Shape(node)[n] = 1..len
  <2>1. IsStack(node) /\ n \in DOMAIN node
    BY <1>2, <1>5, NodeIsStack DEF Live
  <2>2. sibs \in Seq(SiblingLink)
    BY <1>6, <2>1 DEF IsStack, StackNode
  <2> QED
    BY <1>6, <2>1, <2>2, ShapeAt
<1>8. ASSUME NEW k \in 1..len
      PROVE  /\ CollectPathLink(f, k) \in Frame
             /\ GoodFrame(CollectPathLink(f, k), node)
  <2>1. PICK m : m = Shape(node)[n][k]
    OBVIOUS
  <2>2. /\ m \in Live /\ m \in NodeId /\ m = node[n].sibs[k].sib /\ <<n, k>> \in LinkRef
        /\ States(node)[n] \in StateId /\ States(node)[m] \in StateId
        /\ Leads(States(node)[m], States(node)[n])
    BY <1>5, <1>7, <2>1, LinkBack
  <2>3. PICK g : g = CollectPathLink(f, k)
    OBVIOUS
  <2>4. g = [f EXCEPT !.popsRemaining = @ - 1, !.currentNode = m,
                      !.sibLinks = <<<<n, k>>>> \o @,
                      !.mustUseLink = IF <<n, k>> = @ THEN NoLink ELSE @]
    BY <1>4, <2>2, <2>3 DEF CollectPathLink
  <2>5. <<<<n, k>>>> \o f.sibLinks \in Seq(LinkRef)
    <3>1. f.sibLinks \in Seq(LinkRef) /\ <<<<n, k>>>> \in Seq(LinkRef)
      BY <1>5, <2>2 DEF Frame
    <3> QED
      BY <3>1
  <2>6. PICK links, must : /\ links = <<<<n, k>>>> \o f.sibLinks
                           /\ must = IF <<n, k>> = f.mustUseLink THEN NoLink ELSE f.mustUseLink
    OBVIOUS
  <2>7. links \in Seq(LinkRef) /\ must \in LinkRef \cup {NoLink}
    BY <1>5, <2>5, <2>6 DEF Frame
  <2>8. g = [f EXCEPT !.popsRemaining = f.popsRemaining - 1, !.currentNode = m,
                      !.sibLinks = links, !.mustUseLink = must]
    BY <1>5, <2>4, <2>6 DEF Frame
  <2>9. g \in Frame /\ g.popsRemaining = f.popsRemaining - 1 /\ g.currentNode = m
        /\ g.sibLinks = links /\ g.prod = f.prod
    <3>1. PICK c \in Nat : c = f.popsRemaining - 1
      BY <1>5
    <3>2. g = [f EXCEPT !.popsRemaining = c, !.currentNode = m, !.sibLinks = links,
                        !.mustUseLink = must]
      BY <2>8, <3>1
    <3>3. f = [prod |-> f.prod, popsRemaining |-> f.popsRemaining,
               currentNode |-> f.currentNode, sibLinks |-> f.sibLinks,
               mustUseLink |-> f.mustUseLink] /\ f.prod \in ProdIndex
      BY <1>5 DEF Frame
    <3>4. g = [prod |-> f.prod, popsRemaining |-> c, currentNode |-> m,
               sibLinks |-> links, mustUseLink |-> must]
      BY <3>2, <3>3
    <3>5. [prod |-> f.prod, popsRemaining |-> c, currentNode |-> m, sibLinks |-> links,
           mustUseLink |-> must] \in Frame
      BY <2>2, <2>7, <3>3 DEF Frame
    <3> QED
      BY <3>1, <3>4, <3>5
  <2>10. <<f.prod, f.popsRemaining - 1>> \in Items[States(node)[m]]
    <3>1. <<f.prod, f.popsRemaining>> \in Items[States(node)[n]]
      BY <1>4, <1>5 DEF GoodFrame
    <3> QED
      BY <1>5, <2>2, <3>1, ItemBefore
  <2>11. PathIn(Shape(node), m, links)
    <3>1. /\ n \in DOMAIN Shape(node) /\ k \in DOMAIN Shape(node)[n]
          /\ f.sibLinks \in Seq(LinkRef) /\ PathIn(Shape(node), n, f.sibLinks)
      BY <1>2, <1>4, <1>5, <1>7, NodeIsStack DEF GoodFrame, Frame
    <3>2. PathIn(Shape(node), Shape(node)[n][k], <<<<n, k>>>> \o f.sibLinks)
      BY <2>2, <3>1, PathExtended
    <3> QED
      BY <2>1, <2>6, <3>2
  <2>12. GoodFrame(g, node)
    BY <1>5, <2>2, <2>9, <2>10, <2>11 DEF GoodFrame, Live
  <2> QED
    BY <2>3, <2>9, <2>12
<1>9. PICK new : new = [i \in DOMAIN IterationOrder(n) |-> CollectPathLink(f, IterationOrder(n)[i])]
  OBVIOUS
<1>10. frames' = new \o Tail(frames)
  BY <1>4, <1>9 DEF ExtendPath
<1>11. DOMAIN IterationOrder(n) = 1..len /\ \A i \in 1..len : IterationOrder(n)[i] \in 1..len
  BY <1>6, <1>7 DEF IterationOrder
<1>12. /\ new \in Seq(Frame) /\ DOMAIN new = 1..len
       /\ \A i \in DOMAIN new : new[i] \in Frame /\ GoodFrame(new[i], node)
  <2>1. \A i \in 1..len : new[i] \in Frame /\ GoodFrame(new[i], node)
    BY <1>8, <1>9, <1>11
  <2>2. new = [i \in 1..len |-> new[i]]
    BY <1>9, <1>11
  <2> QED
    BY <1>7, <2>1, <2>2
<1>13. frames' \in Seq(Frame) /\ \A i \in DOMAIN frames' : GoodFrame(frames'[i], node)
  <2> DEFINE Good == {g \in Frame : GoodFrame(g, node)}
  <2>1. \A i \in DOMAIN Tail(frames) : Tail(frames)[i] \in Good
    <3>1. \A i \in DOMAIN frames : frames[i] \in Good
      BY <1>2 DEF IInv, Enumerated
    <3> QED
      BY <1>3, <3>1
  <2>2. \A i \in DOMAIN new : new[i] \in Good
    BY <1>12
  <2>3. \A e \in Good : e \in Frame /\ GoodFrame(e, node)
    OBVIOUS
  <2> HIDE DEF Good
  <2>4. Tail(frames) \in Seq(Good) /\ new \in Seq(Good)
    BY <1>3, <1>12, <2>1, <2>2, SeqWithin
  <2>5. frames' \in Seq(Good)
    BY <1>10, <2>4
  <2>6. \A i \in DOMAIN frames' : frames'[i] \in Good
    BY <2>5
  <2> QED
    BY <2>3, <2>5, <2>6
<1>14. TypeOK'
  BY <1>2, <1>13 DEF TypeOK, ExtendPath, lexVars, stackVars, resultVars
<1>15. Enumerated'
  BY <1>2, <1>13 DEF IInv, Enumerated
<1>16. Phases' /\ TopsUnlinked' /\ Settling' /\ TopColumns'
  BY DEF IInv, ExtendPath, Phases, TopsUnlinked, Settling, TopColumns, stackVars,
         resultVars, Live
<1>17. Popping' /\ Shifts' /\ AtEnd'
  BY DEF IInv, ExtendPath, Popping, Shifts, AtEnd, lexVars
<1> QED
  BY <1>1, <1>14, <1>15, <1>16, <1>17 DEF IInv

LEMMA FinishPathKeeps ==
  ASSUME IInv, FinishPath
  PROVE  IInv'
<1>1. StackSound' /\ Counted' /\ UniqueTops'
  BY SameStack DEF FinishPath, SameLists, stackVars
<1>2. /\ TypeOK /\ UNCHANGED <<node, requests>> /\ Live' = Live
      /\ frames \in Seq(Frame) /\ frames # << >> /\ frames' = Tail(frames)
      /\ pathQueue \in Seq(Path)
  BY DEF IInv, FinishPath, TypeOK, stackVars, Live
<1>3. /\ Tail(frames) \in Seq(Frame) /\ 1 \in DOMAIN frames
      /\ Head(frames) = frames[1] /\ frames[1] \in Frame
      /\ \A i \in DOMAIN Tail(frames) : i + 1 \in DOMAIN frames
                                        /\ Tail(frames)[i] = frames[i + 1]
  BY <1>2
<1>4. PICK f, n : f = Head(frames) /\ n = f.currentNode
  OBVIOUS
<1>5. /\ f \in Frame /\ GoodFrame(f, node) /\ n \in Live /\ n \in NodeId
      /\ f.popsRemaining = 0
  BY <1>3, <1>4 DEF IInv, Enumerated, GoodFrame, Frame, FinishPath, Live
<1>6. PICK p : p = [prod |-> f.prod, leftEdge |-> n, startColumn |-> node[n].column,
                    sibLinks |-> f.sibLinks]
  OBVIOUS
<1>7. p \in Path /\ GoodPath(p, node)
  <2>1. IsStack(node) /\ n \in DOMAIN node
    BY <1>2, <1>5, NodeIsStack DEF Live
  <2>2. PICK c : c = node[n].column
    OBVIOUS
  <2>3. c \in Nat /\ c = ColumnsOf(node)[n]
    BY <2>1, <2>2 DEF IsStack, StackNode, ColumnsOf
  <2>4. f.prod \in ProdIndex /\ f.sibLinks \in Seq(LinkRef)
    BY <1>5 DEF Frame
  <2>5. p.prod = f.prod /\ p.leftEdge = n /\ p.startColumn = c /\ p.sibLinks = f.sibLinks
    BY <1>6, <2>2
  <2>6. p \in Path
    BY <1>5, <1>6, <2>2, <2>3, <2>4 DEF Path
  <2>7. <<f.prod, 0>> \in Items[States(node)[n]] /\ f.prod # FinalProduction
        /\ PathIn(Shape(node), n, f.sibLinks)
    BY <1>4, <1>5 DEF GoodFrame
  <2> QED
    BY <2>1, <2>3, <2>5, <2>6, <2>7 DEF GoodPath
<1>8. pathQueue' \in Seq(Path) /\ \A i \in DOMAIN pathQueue' : GoodPath(pathQueue'[i], node)
  <2> DEFINE Good == {q \in Path : GoodPath(q, node)}
  <2>1. \A i \in DOMAIN pathQueue : pathQueue[i] \in Good
    BY <1>2 DEF IInv, Enumerated
  <2>2. p \in Good /\ \A e \in Good : e \in Path /\ GoodPath(e, node)
    BY <1>7
  <2> HIDE DEF Good
  <2>3. pathQueue \in Seq(Good)
    BY <1>2, <2>1, SeqWithin
  <2>4. InsertPathCopy(pathQueue, p) \in Seq(Good)
    BY <2>2, <2>3, InsertPathCopyShape
  <2>5. pathQueue' = InsertPathCopy(pathQueue, p) \/ pathQueue' = pathQueue
    BY <1>4, <1>6 DEF FinishPath
  <2>6. pathQueue' \in Seq(Good)
    BY <2>3, <2>4, <2>5
  <2>7. \A i \in DOMAIN pathQueue' : pathQueue'[i] \in Good
    BY <2>6
  <2>8. pathQueue' \in Seq(Path)
    BY <2>2, <2>6, <2>7, SeqWithin
  <2> QED
    BY <2>2, <2>7, <2>8
<1>9. TypeOK'
  BY <1>2, <1>3, <1>8 DEF TypeOK, FinishPath, lexVars, stackVars, resultVars
<1>10. Enumerated'
  <2>1. \A i \in DOMAIN frames' : GoodFrame(frames'[i], node)
    BY <1>2, <1>3 DEF IInv, Enumerated
  <2> QED
    BY <1>2, <1>8, <2>1 DEF IInv, Enumerated
<1>11. Phases' /\ TopsUnlinked' /\ Settling' /\ TopColumns'
  BY DEF IInv, FinishPath, Phases, TopsUnlinked, Settling, TopColumns, stackVars,
         resultVars, Live
<1>12. Popping' /\ Shifts' /\ AtEnd'
  BY DEF IInv, FinishPath, Popping, Shifts, AtEnd, lexVars
<1> QED
  BY <1>1, <1>9, <1>10, <1>11, <1>12 DEF IInv

-----------------------------------------------------------------------------
(* The steps that only move references between the lists.                  *)
LEMMA ElemsEmpty == Elems(<< >>) = {}
BY DEF Elems

LEMMA StartShiftsKeeps ==
  ASSUME IInv, StartShifts
  PROVE  IInv'
<1>1. /\ TypeOK /\ UNCHANGED node /\ Live' = Live
      /\ pc = "reduce" /\ pc' = "shift"
      /\ prevTopmost = << >> /\ decs = << >> /\ decs' = << >>
      /\ topmostParsers' = << >> /\ prevTopmost' = topmostParsers
      /\ frames' = << >> /\ requests' = << >> /\ pathQueue' = << >>
  BY DEF IInv, StartShifts, Phases, workVars, Live
<1>2. TypeOK'
  <2>1. globalNodeColumn' \in Nat /\ prevTopmost' \in Seq(NodeId)
        /\ topmostParsers' \in Seq(NodeId)
    BY <1>1 DEF TypeOK, StartShifts
  <2> QED
    BY <1>1, <2>1 DEF TypeOK, StartShifts, lexVars, workVars, resultVars
<1>3. StackSound'
  BY <1>1 DEF IInv, StackSound
<1>4. Counted'
  <2>1. ASSUME NEW n \in Live
        PROVE  Counts(node)[n] = In(Shape(node), n) + Occ(n, topmostParsers') + Occ(n, prevTopmost')
                                   + Occ(n, decs')
    <3>1. Counts(node)[n] = In(Shape(node), n) + Occ(n, topmostParsers) + Occ(n, << >>)
                              + Occ(n, << >>)
      BY <1>1 DEF IInv, Counted
    <3>2. Occ(n, << >>) = 0 /\ Occ(n, topmostParsers) \in Nat /\ In(Shape(node), n) \in Nat
      BY <1>1, OccEmpty, PlacesFinite, LinksFinite, NodeIsStack, StackTypes DEF TypeOK
    <3> QED
      BY <1>1, <3>1, <3>2
  <2> QED
    BY <1>1, <2>1, ElemsEmpty DEF IInv, Counted
<1>5. UniqueTops' /\ TopsUnlinked' /\ TopColumns' /\ AtEnd'
  <2>1. Elems(topmostParsers') = {} /\ DOMAIN topmostParsers' = {}
    BY <1>1, ElemsEmpty
  <2> QED
    BY <1>1, <2>1 DEF IInv, StartShifts, UniqueTops, DifferentStates, TopsUnlinked, NotLinked,
       TopColumns, AtEnd, lexVars
<1>6. Settling'
  BY <1>1 DEF IInv, Settling
<1>7. Shifts'
  BY <1>1, ElemsEmpty DEF IInv, StartShifts, UniqueTops, Shifts
<1>8. Popping' /\ Enumerated'
  BY <1>1 DEF Popping, Enumerated
<1>9. Phases'
  BY <1>1 DEF IInv, StartShifts, Phases, workVars, resultVars
<1> QED
  BY <1>2, <1>3, <1>4, <1>5, <1>6, <1>7, <1>8, <1>9 DEF IInv

(* The parser that is next to shift.                                       *)
LEMMA NextToShift ==
  ASSUME IInv, Shifting
  PROVE  /\ LeftSibling \in Live /\ LeftSibling \in NodeId /\ LeftSibling \in Elems(prevTopmost)
         /\ PrevTopmostPopped \in Seq(NodeId)
         /\ Elems(PrevTopmostPopped) \subseteq Elems(prevTopmost)
         /\ DOMAIN PrevTopmostPopped \subseteq DOMAIN prevTopmost
         /\ \A i \in DOMAIN PrevTopmostPopped : PrevTopmostPopped[i] = prevTopmost[i]
         /\ \A n : Occ(n, prevTopmost) = Occ(n, PrevTopmostPopped) + OneIf(n = LeftSibling)
         /\ DifferentStates(States(node), PrevTopmostPopped)
         /\ \A m \in Elems(PrevTopmostPopped) : States(node)[m] # States(node)[LeftSibling]
<1>1. prevTopmost \in Seq(NodeId) /\ prevTopmost # << >> /\ pc = "shift"
  BY DEF IInv, TypeOK, Shifting
<1>2. PICK l : l = Len(prevTopmost)
  OBVIOUS
<1>3. l \in Nat /\ l > 0 /\ l \in DOMAIN prevTopmost /\ l - 1 \in Nat
      /\ DOMAIN prevTopmost = 1..l /\ LeftSibling = prevTopmost[l]
  BY <1>1, <1>2 DEF LeftSibling
<1>4. PICK e : e = l - 1
  OBVIOUS
<1>5. PrevTopmostPopped = SubSeq(prevTopmost, 1, e) /\ e \in Nat /\ e < l
  BY <1>2, <1>3, <1>4 DEF PrevTopmostPopped
<1>6. /\ PrevTopmostPopped \in Seq(NodeId) /\ DOMAIN PrevTopmostPopped = 1..e
      /\ \A i \in 1..e : PrevTopmostPopped[i] = prevTopmost[i] /\ i \in 1..l /\ i # l
  <2>1. \A i \in 1..e : prevTopmost[i] \in NodeId
    BY <1>1, <1>3, <1>5
  <2>2. /\ SubSeq(prevTopmost, 1, e) \in Seq(NodeId) /\ Len(SubSeq(prevTopmost, 1, e)) = e
        /\ \A i \in 1..e : SubSeq(prevTopmost, 1, e)[i] = prevTopmost[i]
    BY <1>1, <1>5, <2>1
  <2>3. DOMAIN PrevTopmostPopped = 1..e
    BY <1>5, <2>2
  <2>4. \A i \in 1..e : i \in 1..l /\ i # l
    BY <1>3, <1>5
  <2> QED
    BY <1>5, <2>2, <2>3, <2>4
<1>7. LeftSibling \in Elems(prevTopmost) /\ LeftSibling \in Live /\ LeftSibling \in NodeId
  BY <1>1, <1>3 DEF Elems, IInv, Counted
<1>8. Elems(PrevTopmostPopped) \subseteq Elems(prevTopmost)
  BY <1>3, <1>6 DEF Elems
<1>9. ASSUME NEW n PROVE Occ(n, prevTopmost) = Occ(n, PrevTopmostPopped) + OneIf(n = LeftSibling)
  <2>1. Occ(n, prevTopmost) = Occ(n, SubSeq(prevTopmost, 1, Len(prevTopmost) - 1))
                                + OneIf(n = prevTopmost[Len(prevTopmost)])
    BY <1>1, OccFront
  <2> QED
    BY <2>1 DEF LeftSibling, PrevTopmostPopped
<1>10. DifferentStates(States(node), prevTopmost)
  BY <1>1 DEF IInv, Shifts
<1>11. DifferentStates(States(node), PrevTopmostPopped)
  BY <1>3, <1>6, <1>10 DEF DifferentStates
<1>12. \A m \in Elems(PrevTopmostPopped) : States(node)[m] # States(node)[LeftSibling]
  BY <1>3, <1>6, <1>10 DEF DifferentStates, Elems
<1> QED
  BY <1>3, <1>6, <1>7, <1>8, <1>9, <1>11, <1>12

LEMMA ShiftDiesKeeps ==
  ASSUME IInv, ShiftDies
  PROVE  IInv'
<1>1. /\ TypeOK /\ UNCHANGED <<node, topmostParsers>> /\ Live' = Live
      /\ pc = "shift" /\ pc' = "shift" /\ Shifting
      /\ decs = << >> /\ decs' = <<LeftSibling>> /\ prevTopmost' = PrevTopmostPopped
  BY DEF IInv, ShiftDies, Shifting, Live
<1>2. TypeOK'
  BY <1>1, NextToShift DEF TypeOK, ShiftDies, lexVars, workVars, resultVars
<1>3. StackSound' /\ UniqueTops'
  BY <1>1 DEF IInv, StackSound, UniqueTops
<1>4. Counted'
  <2>1. Elems(decs') = {LeftSibling}
    BY <1>1 DEF Elems
  <2>2. ASSUME NEW n \in Live
        PROVE  Counts(node)[n] = In(Shape(node), n) + Occ(n, topmostParsers)
                                   + Occ(n, PrevTopmostPopped) + Occ(n, decs')
    <3>1. Counts(node)[n] = In(Shape(node), n) + Occ(n, topmostParsers) + Occ(n, prevTopmost)
                              + Occ(n, << >>)
      BY <1>1 DEF IInv, Counted
    <3>2. /\ Occ(n, << >>) = 0 /\ Occ(n, <<LeftSibling>>) = OneIf(n = LeftSibling)
          /\ Occ(n, prevTopmost) = Occ(n, PrevTopmostPopped) + OneIf(n = LeftSibling)
      BY <1>1, OccEmpty, OccOne, NextToShift
    <3>3. /\ In(Shape(node), n) \in Nat /\ Occ(n, topmostParsers) \in Nat
          /\ Occ(n, PrevTopmostPopped) \in Nat /\ OneIf(n = LeftSibling) \in Nat
      BY <1>1, PlacesFinite, LinksFinite, NodeIsStack, StackTypes, NextToShift DEF TypeOK, OneIf
    <3> QED
      BY <1>1, <3>1, <3>2, <3>3
  <2> QED
    BY <1>1, <2>1, <2>2, NextToShift DEF IInv, Counted
<1>5. TopsUnlinked' /\ TopColumns' /\ AtEnd'
  BY <1>1, NextToShift DEF IInv, ShiftDies, TopsUnlinked, TopColumns, AtEnd, lexVars
<1>6. Settling' /\ Popping' /\ Enumerated'
  BY <1>1 DEF IInv, ShiftDies, Phases, Settling, Popping, Enumerated, workVars
<1>7. Shifts'
  BY <1>1, NextToShift DEF IInv, ShiftDies, Shifts
<1>8. Phases'
  BY <1>1 DEF IInv, ShiftDies, Phases, workVars, resultVars
<1> QED
  BY <1>2, <1>3, <1>4, <1>5, <1>6, <1>7, <1>8 DEF IInv

(* What the final production is reduced from.                              *)
LEMMA AtTheFinalProduction ==
  ASSUME IInv, pc = "cleanup", Len(topmostParsers) = 1
  PROVE  LET last == node[TopParser].sibs[1]
             something == node[last.sib].sibs[1]
         IN  /\ Len(node[TopParser].sibs) = 1
             /\ last.sib \in Live
             /\ <<FinalProduction, 1>> \in Items[States(node)[last.sib]]
             /\ last.sval \in SVal /\ something.sval \in SVal
<1>1. /\ TopParser \in Live /\ Elems(topmostParsers) = {TopParser}
      /\ IsStack(node) /\ DOMAIN Shape(node) = Live /\ DOMAIN node = Live
  BY OnTop, NodeIsStack DEF IInv, Live
<1>2. lexer.type = 0 /\ <<FinalProduction, 2>> \in Items[States(node)[TopParser]]
      /\ Len(Shape(node)[TopParser]) = 1
  BY <1>1 DEF IInv, AtEnd
<1>3. 1 \in DOMAIN Shape(node)[TopParser]
  BY <1>1, <1>2, HasLink
<1>4. PICK m : m = Shape(node)[TopParser][1]
  OBVIOUS
<1>5. /\ m \in Live /\ m = node[TopParser].sibs[1].sib
      /\ node[TopParser].sibs[1].sval \in SVal
      /\ States(node)[TopParser] \in StateId /\ States(node)[m] \in StateId
      /\ Leads(States(node)[m], States(node)[TopParser])
  BY <1>1, <1>3, <1>4, LinkBack
<1>6. <<FinalProduction, 1>> \in Items[States(node)[m]]
  <2>1. <<FinalProduction, 2 - 1>> \in Items[States(node)[m]]
    BY <1>2, <1>5, ItemBefore
  <2> QED
    BY <2>1
<1>7. 1 \in DOMAIN Shape(node)[m]
  BY <1>5, <1>6, HasLink
<1>8. node[m].sibs[1].sval \in SVal
  BY <1>5, <1>7, LinkBack
<1>9. Len(node[TopParser].sibs) = 1
  BY <1>1, <1>2, ShapeAt
<1> QED
  BY <1>5, <1>6, <1>8, <1>9

LEMMA CleanupAfterParseKeeps ==
  ASSUME UserValues, IInv, CleanupAfterParse
  PROVE  IInv'
<1>1. /\ TypeOK /\ UNCHANGED <<node, prevTopmost, globalNodeColumn, reduction>> /\ Live' = Live
      /\ UNCHANGED <<pathQueue, frames, requests, depthSweep, lexer>>
      /\ pc = "cleanup" /\ prevTopmost = << >> /\ decs = << >> /\ treeTop = << >>
      /\ pathQueue = << >> /\ frames = << >> /\ requests = << >>
      /\ reduction = NoReduction /\ depthSweep = NoSweep
  BY DEF IInv, CleanupAfterParse, Phases, workVars, lexVars, Live
<1>2. CASE Len(topmostParsers) # 1
  <2>1. pc' = "rejected" /\ UNCHANGED <<topmostParsers, decs, owned, treeTop>>
    BY <1>2 DEF CleanupAfterParse
  <2>2. StackSound' /\ Counted' /\ UniqueTops'
    BY <1>1, <2>1, SameStack DEF SameLists
  <2>3. TypeOK'
    BY <1>1, <2>1 DEF TypeOK, CleanupAfterParse, lexVars, workVars, Final
  <2>4. Phases'
    BY <1>1, <2>1 DEF IInv, Phases
  <2>5. TopsUnlinked' /\ TopColumns' /\ Settling' /\ AtEnd'
    BY <1>1, <2>1 DEF IInv, TopsUnlinked, TopColumns, Settling, AtEnd
  <2>6. Popping' /\ Enumerated' /\ Shifts'
    BY <1>1, <2>1 DEF Popping, Enumerated, Shifts
  <2> QED
    BY <2>2, <2>3, <2>4, <2>5, <2>6 DEF IInv
<1>3. CASE Len(topmostParsers) = 1
  <2>1. PICK last, something : /\ last = node[TopParser].sibs[1]
                               /\ something = node[last.sib].sibs[1]
    OBVIOUS
  <2>2. last.sval \in SVal /\ something.sval \in SVal
    BY <1>1, <1>3, <2>1, AtTheFinalProduction
  <2>3. PICK tree : tree = ReductionAction(FinalProduction, <<something.sval, last.sval>>)
    OBVIOUS
  <2>4. tree \in SVal
    <3>1. <<something.sval, last.sval>> \in Seq(SVal)
      BY <2>2
    <3> QED
      BY <2>3, <3>1, TablesAssumption DEF UserValues
  <2>5. /\ treeTop' = <<tree>> /\ owned' = owned + 1 /\ decs' = topmostParsers
        /\ topmostParsers' = << >> /\ pc' = "release"
    BY <1>3, <2>1, <2>3 DEF CleanupAfterParse, TopParser
  <2>6. TypeOK'
    <3>1. treeTop' \in Seq(SVal) /\ owned' \in Int /\ topmostParsers' \in Seq(NodeId)
          /\ decs' \in Seq(NodeId)
      BY <1>1, <2>4, <2>5 DEF TypeOK
    <3> QED
      BY <1>1, <2>5, <3>1 DEF TypeOK, CleanupAfterParse, lexVars, workVars
  <2>7. StackSound'
    BY <1>1 DEF IInv, StackSound
  <2>8. Counted'
    <3>1. ASSUME NEW n \in Live
          PROVE  Counts(node)[n] = In(Shape(node), n) + Occ(n, << >>) + Occ(n, prevTopmost)
                                     + Occ(n, topmostParsers)
      <4>1. Counts(node)[n] = In(Shape(node), n) + Occ(n, topmostParsers) + Occ(n, << >>)
                                + Occ(n, << >>)
        BY <1>1 DEF IInv, Counted
      <4>2. Occ(n, << >>) = 0 /\ Occ(n, topmostParsers) \in Nat /\ In(Shape(node), n) \in Nat
        BY <1>1, OccEmpty, PlacesFinite, LinksFinite, NodeIsStack, StackTypes DEF TypeOK
      <4> QED
        BY <1>1, <4>1, <4>2
    <3> QED
      BY <1>1, <2>5, <3>1, ElemsEmpty DEF IInv, Counted
  <2>9. Phases'
    <3>1. Len(treeTop') = 1 /\ treeTop' # << >>
      BY <2>5
    <3> QED
      BY <1>1, <2>5, <3>1 DEF Phases
  <2>10. UniqueTops' /\ TopsUnlinked' /\ TopColumns' /\ AtEnd' /\ Settling'
    <3>1. Elems(topmostParsers') = {} /\ DOMAIN topmostParsers' = {}
      BY <2>5, ElemsEmpty
    <3> QED
      BY <1>1, <2>5, <3>1 DEF IInv, UniqueTops, DifferentStates, TopsUnlinked, TopColumns,
         AtEnd, Settling
  <2>11. Popping' /\ Enumerated' /\ Shifts'
    BY <1>1, <2>5 DEF Popping, Enumerated, Shifts
  <2> QED
    BY <2>6, <2>7, <2>8, <2>9, <2>10, <2>11 DEF IInv
<1> QED
  BY <1>2, <1>3

-----------------------------------------------------------------------------
(* The steps that change the stack.                                        *)
(* The stack of a state, as the lemmas about stacks take it.               *)
LEMMA StackIsSound ==
  ASSUME IInv
  PROVE  /\ IsSound(node) /\ IsStack(node) /\ DOMAIN Shape(node) = Live /\ DOMAIN node = Live
         /\ IsShape(Shape(node)) /\ Linked(Shape(node))
         /\ OnAutomaton(Shape(node), States(node))
         /\ \A n : In(Shape(node), n) \in Nat
         /\ \A n : Occ(n, topmostParsers) \in Nat /\ Occ(n, prevTopmost) \in Nat
                   /\ Occ(n, decs) \in Nat
BY NodeIsStack, StackTypes, PlacesFinite, LinksFinite
   DEF IInv, TypeOK, StackSound, IsSound, Live

LEMMA SoundNext ==
  ASSUME IsSound(node')
  PROVE  /\ StackSound' /\ DOMAIN Shape(node') = Live'
         /\ Live' \in SUBSET NodeId /\ IsFiniteSet(Live') /\ node' \in [Live' -> StackNode]
         /\ IsShape(Shape(node')) /\ \A n : In(Shape(node'), n) \in Nat
BY StackTypes, LinksFinite DEF IsSound, IsStack, StackSound, Live

(* Where a parser on top is referred to from nowhere else.                 *)
LEMMA TopIsFree ==
  ASSUME IInv, NEW x \in Elems(topmostParsers), NotLinked(Shape(node), topmostParsers)
  PROVE  In(Shape(node), x) = 0
BY StackIsSound, InPositive DEF NotLinked

(* What a step does to the shape of the stack: how many links it gains, and*)
(* that the nodes that stay keep their state and column, their links too if*)
(* they are below the current token, and are still referred to.            *)
StackChanges(gain) ==
  /\ Cardinality(LinksOf(Shape(node'))) = Cardinality(LinksOf(Shape(node))) + gain
  /\ \A n \in Live \cap Live' :
       /\ States(node')[n] = States(node)[n] /\ ColumnsOf(node')[n] = ColumnsOf(node)[n]
       /\ ColumnsOf(node)[n] < globalNodeColumn => Shape(node')[n] = Shape(node)[n]
  /\ \A n \in Live' : (n \in Live => Counts(node)[n] > 0) => Counts(node')[n] > 0

(* A step that makes no node and no link, and one that makes a link, from a*)
(* node that it may also make.                                             *)
NoGain == Live' \subseteq Live /\ \A n \in Live' : Shape(node')[n] = Shape(node)[n]
Gain(x, left, state, column) ==
  /\ x \in Live' /\ left \in Live /\ Live \subseteq Live' /\ Live' \subseteq Live \cup {x}
  /\ States(node')[x] = state /\ ColumnsOf(node')[x] = column
  /\ \A n \in Live' : \A k \in DOMAIN Shape(node')[n] :
       \/ n \in Live /\ k \in DOMAIN Shape(node)[n] /\ Shape(node')[n][k] = Shape(node)[n][k]
       \/ n = x /\ Shape(node')[n][k] = left

LEMMA SameChanges ==
  ASSUME IInv, DOMAIN node' = Live, Shape(node') = Shape(node), States(node') = States(node),
         ColumnsOf(node') = ColumnsOf(node),
         \A n \in Live : Counts(node)[n] > 0 => Counts(node')[n] > 0
  PROVE  StackChanges(0) /\ NoGain
<1>1. Cardinality(LinksOf(Shape(node))) \in Nat
  BY StackIsSound, LinksFinite, FS_CardinalityType
<1> QED
  BY <1>1 DEF StackChanges, NoGain, Live

LEMMA SameViewsChanges ==
  ASSUME IInv, SameViews(node', node)
  PROVE  StackChanges(0) /\ NoGain
<1>1. DOMAIN node' = Live
  BY DEF SameViews, Shape, Live
<1> QED
  BY <1>1, SameChanges DEF SameViews

LEMMA GrownChanges ==
  ASSUME IInv, NEW ns, DOMAIN ns = Live, Shape(ns) = Shape(node), States(ns) = States(node),
         ColumnsOf(ns) = ColumnsOf(node),
         \A n \in Live : Counts(node)[n] > 0 => Counts(ns)[n] > 0,
         NEW x, x \notin Live, NEW left \in Live, NEW state, NEW column,
         Grown(node', ns, x, left, state, column)
  PROVE  StackChanges(1) /\ Gain(x, left, state, column)
<1>1. /\ Live' = Live \cup {x} /\ DOMAIN Shape(node) = Live
      /\ \A n \in Live : /\ Shape(node')[n] = Shape(node)[n] /\ States(node')[n] = States(node)[n]
                         /\ ColumnsOf(node')[n] = ColumnsOf(node)[n]
                         /\ Counts(node')[n] = Counts(ns)[n]
      /\ Shape(node')[x] = <<left>> /\ Counts(node')[x] = 1
  BY StackIsSound DEF Grown, Live
<1>2. StackChanges(1)
  BY <1>1 DEF Grown, StackChanges
<1>3. ASSUME NEW n \in Live', NEW k \in DOMAIN Shape(node')[n]
      PROVE  \/ n \in Live /\ k \in DOMAIN Shape(node)[n]
                           /\ Shape(node')[n][k] = Shape(node)[n][k]
             \/ n = x /\ Shape(node')[n][k] = left
  <2>1. CASE n \in Live
    BY <1>1, <1>3, <2>1
  <2>2. CASE n = x
    <3>1. \A j \in DOMAIN <<left>> : <<left>>[j] = left
      OBVIOUS
    <3> QED
      BY <1>1, <1>3, <2>2, <3>1
  <2> QED
    BY <1>1, <2>1, <2>2
<1> QED
  BY <1>1, <1>2, <1>3 DEF Grown, Gain

LEMMA WidenedChanges ==
  ASSUME IInv, NEW ns, DOMAIN ns = Live, Shape(ns) = Shape(node), States(ns) = States(node),
         ColumnsOf(ns) = ColumnsOf(node),
         \A n \in Live : Counts(node)[n] > 0 => Counts(ns)[n] > 0,
         NEW x \in Elems(topmostParsers), NEW left \in Live, Widened(node', ns, x, left),
         pc \notin {"pop", "aborted"}
  PROVE  StackChanges(1) /\ Gain(x, left, States(node)[x], globalNodeColumn)
<1>1. ColumnsOf(node)[x] = globalNodeColumn /\ globalNodeColumn \in Nat /\ x \in Live
  BY DEF IInv, TopColumns, TypeOK, Counted
<1>2. /\ Live' = Live /\ DOMAIN Shape(node) = Live /\ left \in NodeId
      /\ Shape(node)[x] \in Seq(NodeId)
  BY <1>1, StackIsSound DEF Widened, Live, IsShape
<1>3. StackChanges(1)
  BY <1>1, <1>2 DEF Widened, StackChanges
<1>4. ASSUME NEW n \in Live', NEW k \in DOMAIN Shape(node')[n]
      PROVE  \/ n \in Live /\ k \in DOMAIN Shape(node)[n]
                           /\ Shape(node')[n][k] = Shape(node)[n][k]
             \/ n = x /\ Shape(node')[n][k] = left
  <2>1. CASE n # x
    BY <1>2, <1>4, <2>1 DEF Widened
  <2>2. CASE n = x
    <3>1. PICK links \in Seq(NodeId) : links = Shape(node)[x]
      BY <1>2
    <3>2. k \in DOMAIN Append(links, left) /\ Shape(node')[n] = Append(links, left)
      BY <1>4, <2>2, <3>1 DEF Widened
    <3>3. \/ k \in DOMAIN links /\ Append(links, left)[k] = links[k]
          \/ Append(links, left)[k] = left
      BY <1>2, <3>1, <3>2
    <3> QED
      BY <1>2, <2>2, <3>1, <3>2, <3>3
  <2> QED
    BY <2>1, <2>2
<1> QED
  BY <1>1, <1>2, <1>3, <1>4 DEF Widened, Gain

LEMMA ShrunkChanges ==
  ASSUME IInv, NEW x \in Live, Shrunk(node', node, x), NEW len, len = Len(Shape(node)[x])
  PROVE  StackChanges(-len) /\ NoGain
<1>1. /\ Cardinality(LinksOf(Shape(node))) \in Nat /\ len \in Nat
      /\ Cardinality(LinksOf(Shape(node'))) \in Nat
  BY StackIsSound, LinksFinite, FS_CardinalityType, SoundNext DEF Shrunk, IsShape
<1>2. Cardinality(LinksOf(Shape(node))) = Cardinality(LinksOf(Shape(node'))) + len
  BY DEF Shrunk
<1>3. Live' \subseteq Live /\ \A n \in Live' :
        /\ Shape(node')[n] = Shape(node)[n] /\ States(node')[n] = States(node)[n]
        /\ Counts(node')[n] = Counts(node)[n] /\ ColumnsOf(node')[n] = ColumnsOf(node)[n]
  BY DEF Shrunk, Live
<1>4. Cardinality(LinksOf(Shape(node'))) = Cardinality(LinksOf(Shape(node))) + (-len)
  <2>1. PICK c \in Nat, d \in Nat : /\ c = Cardinality(LinksOf(Shape(node)))
                                    /\ d = Cardinality(LinksOf(Shape(node')))
    BY <1>1
  <2>2. c = d + len
    BY <1>2, <2>1
  <2> QED
    BY <2>1, <2>2
<1> QED
  BY <1>3, <1>4 DEF StackChanges, NoGain

(* The bottom of the stack.                                                *)
LEMMA GlrParseKeeps ==
  ASSUME IInv, GlrParse
  PROVE  /\ IInv' /\ StackChanges(0)
         /\ \A n \in Live' : Shape(node')[n] = << >> /\ ColumnsOf(node')[n] = 0
<1>1. PICK x : x = FreshNode
  OBVIOUS
<1>2. PICK r : r = [state |-> StartState, sibs |-> << >>, referenceCount |-> 1,
                    determinDepth |-> 1, column |-> 0]
  OBVIOUS
<1>3. /\ IsStack(node) /\ x \in NodeId /\ r \in StackNode
      /\ node' = With(node, x, r) /\ topmostParsers' = <<x>>
  <2>1. << >> \in Seq(SiblingLink)
    OBVIOUS
  <2>2. r \in StackNode
    BY <1>2, <2>1, TablesAssumption DEF StackNode
  <2> QED
    BY <1>1, <1>2, <2>2, NodeIsStack, FreshNodeIsNew DEF IInv, GlrParse
<1>4. /\ pc = "idle" /\ pc' = "token" /\ DOMAIN node = {} /\ globalNodeColumn = 0
      /\ UNCHANGED <<globalNodeColumn, prevTopmost, decs, reduction, treeTop>>
      /\ UNCHANGED <<pathQueue, frames, requests, depthSweep>>
      /\ prevTopmost = << >> /\ decs = << >>
  BY DEF IInv, Phases, GlrParse, workVars, resultVars
<1>5. /\ IsStack(node') /\ DOMAIN node' = {x} /\ Live' = {x}
      /\ Shape(node') = With(Shape(node), x, SibsOf(r))
      /\ States(node') = With(States(node), x, StartState)
      /\ Counts(node') = With(Counts(node), x, 1)
      /\ Depths(node') = With(Depths(node), x, 1)
      /\ ColumnsOf(node') = With(ColumnsOf(node), x, 0)
  <2>1. HasNode(node', node, x, r)
    BY <1>3, ViewsWith
  <2>2. /\ r.state = StartState /\ r.referenceCount = 1 /\ r.determinDepth = 1
        /\ r.column = 0
    BY <1>2
  <2> QED
    BY <1>4, <2>1, <2>2 DEF HasNode, Live
<1>6. SibsOf(r) = << >>
  BY <1>2 DEF SibsOf
<1>7. /\ Linked(Shape(node')) /\ OnAutomaton(Shape(node'), States(node'))
      /\ (\A n : In(Shape(node'), n) = 0) /\ LinksOf(Shape(node')) = {}
  <2>1. DOMAIN Shape(node) = {} /\ DOMAIN States(node) = {}
    BY <1>4 DEF Shape, States
  <2> QED
    BY <1>3, <1>5, <1>6, <2>1, StackStarted
<1>8. /\ Shape(node')[x] = << >> /\ DOMAIN Shape(node') = {x} /\ Counts(node')[x] = 1
      /\ Depths(node')[x] = 1 /\ ColumnsOf(node')[x] = 0
  <2>1. DOMAIN Shape(node) = {} /\ DOMAIN Counts(node) = {} /\ DOMAIN Depths(node) = {}
        /\ DOMAIN ColumnsOf(node) = {}
    BY <1>4 DEF Shape, Counts, Depths, ColumnsOf
  <2> QED
    BY <1>5, <1>6, <2>1 DEF With
<1>9. TypeOK'
  <2>1. text' \in Seq(Lexeme) /\ position' \in Nat \ {0} /\ topmostParsers' \in Seq(NodeId)
        /\ owned' \in Int
    BY <1>3, LexerAssumption DEF GlrParse
  <2>2. /\ Live' \in SUBSET NodeId /\ IsFiniteSet(Live') /\ node' \in [Live' -> StackNode]
    BY <1>5 DEF IsStack
  <2> QED
    BY <1>4, <2>1, <2>2 DEF IInv, TypeOK, GlrParse, workVars, resultVars
<1>10. Phases'
  BY <1>3, <1>4 DEF IInv, Phases
<1>11. StackSound'
  BY <1>7 DEF StackSound
<1>12. Elems(topmostParsers') = {x} /\ DOMAIN topmostParsers' = {1}
  BY <1>3 DEF Elems
<1>13. Counted'
  <2>1. Occ(x, <<x>>) = 1 /\ Occ(x, << >>) = 0 /\ In(Shape(node'), x) = 0
    BY <1>7, OccOne, OccEmpty DEF OneIf
  <2> QED
    BY <1>3, <1>4, <1>5, <1>8, <1>12, <2>1, ElemsEmpty DEF Counted
<1>14. UniqueTops' /\ TopColumns'
  BY <1>4, <1>8, <1>12 DEF UniqueTops, DifferentStates, TopColumns
<1>15. TopsUnlinked'
  <2>1. DOMAIN Shape(node')[x] = {}
    BY <1>8
  <2> QED
    BY <1>4, <1>8, <2>1 DEF TopsUnlinked, NotLinked
<1>16. Settling'
  BY <1>4, <1>5, <1>8 DEF Settling, Settled, DepthIn
<1>17. Popping' /\ Enumerated' /\ Shifts' /\ AtEnd'
  BY <1>4 DEF IInv, Phases, Popping, Enumerated, Shifts, AtEnd
<1>18. StackChanges(0)
  <2>1. LinksOf(Shape(node)) = {} /\ Live = {}
    BY <1>4 DEF LinksOf, Shape, Live
  <2>2. Cardinality(LinksOf(Shape(node'))) = Cardinality(LinksOf(Shape(node)))
        /\ Cardinality(LinksOf(Shape(node))) = 0
    BY <1>7, <2>1, FS_EmptySet
  <2> QED
    BY <1>5, <1>8, <2>1, <2>2 DEF StackChanges
<1>19. \A n \in Live' : Shape(node')[n] = << >> /\ ColumnsOf(node')[n] = 0
  BY <1>5, <1>8
<1> QED
  BY <1>19, <1>9, <1>10, <1>11, <1>13, <1>14, <1>15, <1>16, <1>17, <1>18 DEF IInv

(* The link that is popped is the only reference to the node under it.     *)
PopSafe == ~ NDebug \/ PoppedLinkUnshared

(* The deterministic depth says that the parser has one link.              *)
LEMMA OneToPop ==
  ASSUME IInv, pc = "pop", StillToPop
  PROVE  LET x == TopParser
             left == PoppedLink.sib
         IN  /\ reduction.prod \in ProdIndex /\ reduction.prod # FinalProduction
             /\ reduction.toPass \in Seq(SVal) /\ LeftToPop \in Nat /\ LeftToPop > 0
             /\ LeftToPop <= Depths(node)[x]
             /\ <<reduction.prod, LeftToPop>> \in Items[States(node)[x]]
             /\ Shape(node)[x] # << >> /\ 1 \in DOMAIN Shape(node)[x]
             /\ left = Shape(node)[x][1] /\ left \in Live /\ left \in NodeId
             /\ PoppedLink.sval \in SVal
             /\ States(node)[x] \in StateId /\ States(node)[left] \in StateId
             /\ Leads(States(node)[left], States(node)[x])
             /\ Depths(node)[x] \in Nat /\ Depths(node)[left] \in Nat
             /\ Depths(node)[x] = Depths(node)[left] + 1
             /\ Shape(node)[x] = <<left>>
<1>1. PICK x, left : x = TopParser /\ left = PoppedLink.sib
  OBVIOUS
<1>2. TypeOK /\ x \in Live /\ topmostParsers = <<x>> /\ Len(topmostParsers) = 1
  BY <1>1, OnTop DEF IInv, Phases
<1>3. PICK p, d : p = reduction.prod /\ d = LeftToPop
  OBVIOUS
<1>4. /\ p \in ProdIndex /\ reduction.toPass \in Seq(SVal) /\ d \in Nat /\ d > 0
      /\ d <= Depths(node)[x] /\ <<p, d>> \in Items[States(node)[x]] /\ p # FinalProduction
  <2>1. p \in ProdIndex /\ reduction.toPass \in Seq(SVal)
    BY <1>2, <1>3 DEF TypeOK
  <2>2. Len(reduction.toPass) < ProdInfo[p].rhsLen /\ ProdInfo[p].rhsLen \in Nat
    BY <1>3, <2>1, ProdInfoAssumption DEF StillToPop
  <2>3. d = ProdInfo[p].rhsLen - Len(reduction.toPass) /\ Len(reduction.toPass) \in Nat
    BY <1>3, <2>1 DEF LeftToPop
  <2> QED
    BY <1>1, <1>2, <1>3, <2>1, <2>2, <2>3 DEF IInv, Popping
<1>5. Settled(Shape(node), Depths(node), x)
  BY <1>2 DEF IInv, Settling
<1>6. Shape(node)[x] # << >> /\ 1 \in DOMAIN Shape(node)[x]
  BY <1>2, <1>4, HasLink
<1>7. /\ left = Shape(node)[x][1] /\ left \in Live /\ left \in NodeId
      /\ PoppedLink.sval \in SVal
      /\ States(node)[x] \in StateId /\ States(node)[left] \in StateId
      /\ Leads(States(node)[left], States(node)[x])
  BY <1>1, <1>2, <1>6, LinkBack DEF PoppedLink
<1>8. Depths(node)[x] \in Nat /\ Depths(node)[left] \in Nat
  BY <1>2, <1>7, StackIsSound, StackTypes
<1>9. Len(Shape(node)[x]) = 1 /\ Depths(node)[x] = Depths(node)[left] + 1
  BY <1>4, <1>5, <1>6, <1>7, <1>8 DEF Settled, DepthIn
<1>10. Shape(node)[x] = <<left>>
  <2>1. Shape(node)[x] \in Seq(NodeId)
    BY <1>2, StackIsSound DEF IsShape
  <2> QED
    BY <1>7, <1>9, <2>1
<1> QED
  BY <1>1, <1>3, <1>4, <1>6, <1>7, <1>8, <1>9, <1>10

LEMMA MiniLRPopKeeps ==
  ASSUME PopSafe, IInv, MiniLRPop
  PROVE  IInv' /\ StackChanges(-1) /\ NoGain
<1>1. PICK x, left : x = TopParser /\ left = PoppedLink.sib
  OBVIOUS
<1>2. /\ TypeOK /\ pc = "pop" /\ pc' = "pop" /\ topmostParsers = <<x>> /\ x \in Live
      /\ Elems(topmostParsers) = {x} /\ Len(topmostParsers) = 1
      /\ prevTopmost = << >> /\ decs = << >> /\ UNCHANGED <<prevTopmost, decs, lexer>>
      /\ pathQueue = << >> /\ frames = << >> /\ requests = << >>
      /\ UNCHANGED <<pathQueue, frames, requests, depthSweep, treeTop, globalNodeColumn>>
  BY <1>1, OnTop DEF IInv, MiniLRPop, Phases, lexVars, workVars, resultVars
<1>3. PICK p, d : p = reduction.prod /\ d = LeftToPop
  OBVIOUS
<1>4. /\ p \in ProdIndex /\ reduction.toPass \in Seq(SVal) /\ d \in Nat /\ d > 0
      /\ d <= Depths(node)[x] /\ <<p, d>> \in Items[States(node)[x]] /\ p # FinalProduction
  BY <1>1, <1>2, <1>3, OneToPop DEF MiniLRPop
<1>5. /\ NotLinked(Shape(node), topmostParsers)
      /\ \A n \in Live : Settled(Shape(node), Depths(node), n)
  BY <1>2 DEF IInv, TopsUnlinked, Settling
<1>6. Shape(node)[x] # << >> /\ 1 \in DOMAIN Shape(node)[x]
  BY <1>1, <1>2, OneToPop DEF MiniLRPop
<1>7. /\ left = Shape(node)[x][1] /\ left \in Live /\ left \in NodeId
      /\ PoppedLink.sval \in SVal
      /\ States(node)[x] \in StateId /\ States(node)[left] \in StateId
      /\ Leads(States(node)[left], States(node)[x])
  BY <1>1, <1>2, OneToPop DEF MiniLRPop
<1>8. Depths(node)[x] \in Nat /\ Depths(node)[left] \in Nat
  BY <1>1, <1>2, OneToPop DEF MiniLRPop
<1>9. Len(Shape(node)[x]) = 1 /\ Depths(node)[x] = Depths(node)[left] + 1
  <2>1. Len(<<left>>) = 1
    OBVIOUS
  <2> QED
    BY <1>1, <1>2, <2>1, OneToPop DEF MiniLRPop
<1>10. Shape(node)[x] = <<left>>
  BY <1>1, <1>2, OneToPop DEF MiniLRPop
<1>11. In(Shape(node), x) = 0 /\ node' = Without(node, x)
  BY <1>1, <1>2, <1>5, TopIsFree DEF MiniLRPop
<1>12. Shrunk(node', node, x)
  BY <1>2, <1>11, StackIsSound, StackShrinks
<1>13. /\ Live' = Live \ {x} /\ left # x /\ left \in Live'
       /\ topmostParsers' = <<left>> /\ Elems(topmostParsers') = {left}
  <2>1. left # x
    BY <1>2, <1>6, <1>7, StackIsSound, <1>12 DEF Shrunk
  <2>2. topmostParsers' = <<left>>
    BY <1>1 DEF MiniLRPop
  <2>3. Elems(<<left>>) = {left}
    BY DEF Elems
  <2> QED
    BY <1>7, <1>12, <2>1, <2>2, <2>3 DEF Shrunk, Live
<1>14. /\ StackSound' /\ DOMAIN Shape(node') = Live'
       /\ Live' \in SUBSET NodeId /\ IsFiniteSet(Live') /\ node' \in [Live' -> StackNode]
       /\ \A n : In(Shape(node'), n) \in Nat
  BY <1>12, SoundNext DEF Shrunk
<1>15. \A n \in Live' :
         /\ Shape(node')[n] = Shape(node)[n] /\ States(node')[n] = States(node)[n]
         /\ Counts(node')[n] = Counts(node)[n] /\ Depths(node')[n] = Depths(node)[n]
         /\ In(Shape(node), n) = In(Shape(node'), n) + OneIf(n = left)
  <2>1. \A n : Occ(n, <<left>>) = OneIf(n = left)
    BY OccOne
  <2> QED
    BY <1>10, <1>12, <2>1 DEF Shrunk, Live
<1>16. In(Shape(node'), left) = 0
  <2>1. node[left].referenceCount = 1
    BY <1>1, <1>2 DEF MiniLRPop, PopSafe, PoppedLinkUnshared
  <2>2. Counts(node)[left] = 1
    BY <1>7, <2>1, StackIsSound, ShapeAt
  <2>3. Counts(node)[left] = In(Shape(node), left) + Occ(left, <<x>>) + Occ(left, << >>)
                               + Occ(left, << >>)
    BY <1>2, <1>7 DEF IInv, Counted
  <2>4. Occ(left, <<x>>) = 0 /\ Occ(left, << >>) = 0
    BY <1>13, OccOne, OccEmpty DEF OneIf
  <2>5. In(Shape(node), left) = In(Shape(node'), left) + 1
    BY <1>13, <1>15 DEF OneIf
  <2> QED
    BY <1>14, <2>2, <2>3, <2>4, <2>5
<1>17. Counted'
  <2>1. ASSUME NEW n \in Live'
        PROVE  Counts(node')[n] = In(Shape(node'), n) + Occ(n, <<left>>) + Occ(n, << >>)
                                    + Occ(n, << >>)
    <3>1. Counts(node)[n] = In(Shape(node), n) + Occ(n, <<x>>) + Occ(n, << >>) + Occ(n, << >>)
      BY <1>2, <1>13 DEF IInv, Counted
    <3>2. Occ(n, <<x>>) = 0 /\ Occ(n, << >>) = 0 /\ Occ(n, <<left>>) = OneIf(n = left)
      BY <1>13, OccOne, OccEmpty DEF OneIf
    <3>3. OneIf(n = left) \in Nat
      BY DEF OneIf
    <3> QED
      BY <1>14, <1>15, <3>1, <3>2, <3>3
  <2> QED
    BY <1>2, <1>13, <2>1, ElemsEmpty DEF Counted
<1>18. TypeOK'
  <2>1. topmostParsers' \in Seq(NodeId)
    BY <1>7, <1>13
  <2>2. reduction' = [reduction EXCEPT !.toPass = <<PoppedLink.sval>> \o @]
    BY DEF MiniLRPop
  <2>3. <<PoppedLink.sval>> \o reduction.toPass \in Seq(SVal)
    BY <1>4, <1>7
  <2>4. reduction' \in [prod : ProdIndex, toPass : Seq(SVal)]
    BY <1>2, <2>2, <2>3 DEF TypeOK
  <2> QED
    BY <1>2, <1>14, <2>1, <2>4 DEF TypeOK, MiniLRPop, lexVars, workVars, resultVars
<1>19. Phases'
  <2>1. Len(<<left>>) = 1 /\ <<left>> # << >>
    OBVIOUS
  <2> QED
    BY <1>2, <1>13, <2>1 DEF IInv, Phases, MiniLRPop, resultVars
<1>20. UniqueTops'
  BY <1>13 DEF UniqueTops, DifferentStates
<1>21. TopsUnlinked'
  <2>1. \A n \in DOMAIN Shape(node') : \A k \in DOMAIN Shape(node')[n] : Shape(node')[n][k] # left
    BY <1>14, <1>16, InPositive DEF StackSound, Linked
  <2> QED
    BY <1>2, <1>13, <2>1 DEF TopsUnlinked, NotLinked
<1>22. Settling'
  BY <1>2, <1>5, <1>12, <1>13 DEF Settling, Shrunk, Live
<1>23. Popping'
  <2>1. /\ reduction'.prod = p
        /\ ProdInfo[p].rhsLen - Len(reduction'.toPass) = d - 1
    <3>1. Len(<<PoppedLink.sval>> \o reduction.toPass) = Len(reduction.toPass) + 1
      BY <1>4, <1>7
    <3>2. reduction'.prod = p /\ reduction'.toPass = <<PoppedLink.sval>> \o reduction.toPass
      BY <1>2, <1>3 DEF MiniLRPop, TypeOK
    <3>3. ProdInfo[p].rhsLen \in Nat /\ Len(reduction.toPass) \in Nat
      BY <1>4, ProdInfoAssumption
    <3>4. d = ProdInfo[p].rhsLen - Len(reduction.toPass)
      BY <1>3 DEF LeftToPop
    <3> QED
      BY <3>1, <3>2, <3>3, <3>4
  <2>2. <<p, d - 1>> \in Items[States(node)[left]]
    BY <1>4, <1>7, ItemBefore
  <2>3. TopParser' = left /\ d - 1 <= Depths(node')[left] /\ 0 <= d - 1
        /\ States(node')[left] = States(node)[left]
    BY <1>4, <1>8, <1>9, <1>13, <1>15 DEF TopParser
  <2> QED
    BY <1>4, <2>1, <2>2, <2>3 DEF Popping, LeftToPop
<1>24. TopColumns' /\ Enumerated' /\ Shifts' /\ AtEnd'
  BY <1>2 DEF IInv, TopColumns, Enumerated, Shifts, AtEnd
<1>25. StackChanges(-1) /\ NoGain
  BY <1>2, <1>9, <1>12, ShrunkChanges
<1> QED
  BY <1>14, <1>17, <1>18, <1>19, <1>20, <1>21, <1>22, <1>23, <1>24, <1>25 DEF IInv

(* The mini-LR core puts a node on its only parser.                        *)
Pushed(x, state, column) ==
  /\ x \in NodeId /\ x \notin Live /\ Live' = Live \cup {x}
  /\ Elems(topmostParsers') = {x} /\ topmostParsers' \in Seq(NodeId)
  /\ Grown(node', node, x, TopParser, state, column)
  /\ StackSound' /\ Counted' /\ UniqueTops' /\ NotLinked(Shape(node'), topmostParsers')
  /\ Live' \in SUBSET NodeId /\ IsFiniteSet(Live') /\ node' \in [Live' -> StackNode]
  /\ \A n \in Live' : Settled(Shape(node'), Depths(node'), n)

LEMMA OnePushed ==
  ASSUME IInv, pc \in {"pop", "mini-LR"}, Len(topmostParsers) = 1,
         NEW x, x = FreshNode,
         NEW state \in StateId, Leads(States(node)[TopParser], state), NEW v \in SVal,
         NEW column \in Nat, node' = With(node, FreshNode, NodeOn(TopParser, state, v, column)),
         topmostParsers' = <<FreshNode>>, UNCHANGED <<prevTopmost, decs>>
  PROVE  /\ Pushed(x, state, column) /\ StackChanges(1)
         /\ Gain(x, TopParser, state, column)
<1>1. PICK top : top = TopParser
  OBVIOUS
<1>2. /\ topmostParsers = <<top>> /\ top \in Live /\ Elems(topmostParsers) = {top}
      /\ prevTopmost = << >> /\ decs = << >> /\ prevTopmost' = << >> /\ decs' = << >>
  BY <1>1, OnTop DEF IInv, Phases
<1>3. x \in NodeId /\ x \notin Live /\ IsSound(node) /\ DOMAIN node = Live
  BY StackIsSound, FreshNodeIsNew
<1>4. Grown(node', node, x, top, state, column)
  BY <1>1, <1>2, <1>3, StackGrows DEF NodeOn
<1>5. /\ StackSound' /\ DOMAIN Shape(node') = Live' /\ Live' = Live \cup {x}
      /\ Live' \in SUBSET NodeId /\ IsFiniteSet(Live') /\ node' \in [Live' -> StackNode]
      /\ \A n : In(Shape(node'), n) \in Nat
  BY <1>3, <1>4, SoundNext DEF Grown, Live
<1>6. Elems(topmostParsers') = {x} /\ topmostParsers' = <<x>>
  <2>1. Elems(<<x>>) = {x}
    BY DEF Elems
  <2> QED
    BY <2>1
<1>7. Counted'
  <2>1. ASSUME NEW n \in Live'
        PROVE  Counts(node')[n] = In(Shape(node'), n) + Occ(n, <<x>>) + Occ(n, << >>)
                                    + Occ(n, << >>)
    <3>1. /\ Occ(n, << >>) = 0 /\ Occ(n, <<x>>) = OneIf(n = x) /\ Occ(n, <<top>>) = OneIf(n = top)
          /\ OneIf(n = x) \in Nat /\ OneIf(n = top) \in Nat
      BY OccOne, OccEmpty DEF OneIf
    <3>2. CASE n = x
      <4>1. Counts(node')[x] = 1 /\ In(Shape(node'), x) = 0 /\ OneIf(n = x) = 1
        BY <1>4, <3>2 DEF Grown, OneIf
      <4> QED
        BY <3>1, <3>2, <4>1
    <3>3. CASE n # x
      <4>1. n \in Live /\ OneIf(n = x) = 0
        BY <1>5, <3>3 DEF OneIf
      <4>2. Counts(node)[n] = In(Shape(node), n) + Occ(n, <<top>>) + Occ(n, << >>) + Occ(n, << >>)
        BY <1>2, <4>1 DEF IInv, Counted
      <4>3. /\ Counts(node')[n] = Counts(node)[n]
            /\ In(Shape(node'), n) = In(Shape(node), n) + OneIf(n = top)
        BY <1>3, <1>4, <4>1 DEF Grown
      <4>4. In(Shape(node), n) \in Nat
        BY StackIsSound
      <4> QED
        BY <3>1, <4>1, <4>2, <4>3, <4>4
    <3> QED
      BY <3>2, <3>3
  <2> QED
    BY <1>2, <1>5, <1>6, <2>1, ElemsEmpty DEF Counted
<1>8. UniqueTops'
  BY <1>6 DEF UniqueTops, DifferentStates
<1>9. NotLinked(Shape(node'), topmostParsers')
  <2>1. In(Shape(node'), x) = 0
    BY <1>4 DEF Grown
  <2> QED
    BY <1>5, <1>6, <2>1, InPositive DEF NotLinked, StackSound, Linked
<1>10. \A n \in Live' : Settled(Shape(node'), Depths(node'), n)
  <2>1. \A n \in Live : Settled(Shape(node), Depths(node), n)
    BY DEF IInv, Settling
  <2> QED
    BY <1>3, <1>4, <1>5, <2>1 DEF Grown
<1>11. topmostParsers' \in Seq(NodeId)
  BY <1>3, <1>6
<1>12. StackChanges(1) /\ Gain(x, top, state, column)
  BY <1>2, <1>3, <1>4, GrownChanges
<1> QED
  BY <1>1, <1>3, <1>4, <1>5, <1>6, <1>7, <1>8, <1>9, <1>10, <1>11, <1>12 DEF Pushed

LEMMA MiniLRPushKeeps ==
  ASSUME UserValues, IInv, MiniLRPush
  PROVE  /\ IInv' /\ StackChanges(1)
         /\ Gain(FreshNode, TopParser, GotoState(TopParser, reduction.prod), globalNodeColumn)
<1>1. PICK x, top, p, v : /\ x = FreshNode /\ top = TopParser /\ p = reduction.prod
                          /\ v = ReductionAction(reduction.prod, reduction.toPass)
  OBVIOUS
<1>2. /\ TypeOK /\ pc = "pop" /\ Len(topmostParsers) = 1 /\ top \in Live
      /\ States(node)[top] = node[top].state /\ node[top].state \in StateId
      /\ prevTopmost = << >> /\ decs = << >> /\ UNCHANGED <<prevTopmost, decs, lexer>>
      /\ pathQueue = << >> /\ frames = << >> /\ requests = << >>
      /\ UNCHANGED <<pathQueue, frames, requests, depthSweep, treeTop, globalNodeColumn>>
  BY <1>1, OnTop DEF IInv, MiniLRPush, Phases, lexVars, workVars, resultVars
<1>3. /\ p \in ProdIndex /\ reduction.toPass \in Seq(SVal) /\ p # FinalProduction
      /\ <<p, 0>> \in Items[States(node)[top]]
  <2>1. p \in ProdIndex /\ reduction.toPass \in Seq(SVal)
    BY <1>1, <1>2 DEF TypeOK
  <2>2. /\ ~ (Len(reduction.toPass) < ProdInfo[p].rhsLen) /\ ProdInfo[p].rhsLen \in Nat
        /\ Len(reduction.toPass) \in Nat
    BY <1>1, <2>1, ProdInfoAssumption DEF MiniLRPush, StillToPop
  <2>3. p # FinalProduction /\ 0 <= LeftToPop /\ <<p, LeftToPop>> \in Items[States(node)[top]]
    BY <1>1, <1>2 DEF IInv, Popping
  <2>4. LeftToPop = 0
    BY <1>1, <2>2, <2>3 DEF LeftToPop
  <2> QED
    BY <2>1, <2>3, <2>4
<1>4. PICK a, t : a = ProdInfo[p].lhsIndex /\ t = GotoTable[node[top].state][a]
  OBVIOUS
<1>5. t \in StateId /\ a \in NtIndex /\ Leads(States(node)[top], t)
  <2>1. a \in NtIndex
    BY <1>3, <1>4, ProdInfoAssumption
  <2>2. PICK i \in Items[States(node)[top]] : i = <<p, 0>>
    BY <1>3
  <2>3. t \in StateId
    BY <1>2, <1>3, <1>4, <2>2, ItemsAssumption
  <2> QED
    BY <1>2, <1>4, <2>1, <2>3 DEF Leads
<1>6. v \in SVal
  BY <1>1, <1>3 DEF UserValues
<1>7. /\ node' = With(node, FreshNode, NodeOn(TopParser, t, v, globalNodeColumn))
      /\ topmostParsers' = <<FreshNode>> /\ globalNodeColumn \in Nat
  BY <1>1, <1>2, <1>4 DEF MiniLRPush, GotoState, TypeOK
<1>8. /\ Pushed(x, t, globalNodeColumn) /\ StackChanges(1)
      /\ Gain(x, TopParser, t, globalNodeColumn)
  BY <1>1, <1>2, <1>5, <1>6, <1>7, OnePushed
<1>9. pc' \in {"mini-LR", "rejected"} /\ reduction' = NoReduction /\ topmostParsers' # << >>
  <2>1. <<FreshNode>> # << >>
    OBVIOUS
  <2> QED
    BY <1>7, <2>1 DEF MiniLRPush
<1>10. TypeOK'
  <2>1. /\ reduction' \in [prod : ProdIndex, toPass : Seq(SVal)]
        /\ owned' \in Int
    <3>1. Len(reduction.toPass) \in Nat /\ owned \in Int /\ << >> \in Seq(SVal)
      BY <1>2, <1>3 DEF TypeOK
    <3> QED
      BY <1>9, <3>1, TablesAssumption DEF MiniLRPush, NoReduction
  <2> QED
    BY <1>2, <1>8, <1>9, <2>1 DEF TypeOK, MiniLRPush, Pushed, lexVars, workVars, resultVars, Final
<1>11. Phases'
  BY <1>2, <1>9 DEF IInv, Phases, MiniLRPush, resultVars
<1>12. StackSound' /\ Counted' /\ UniqueTops' /\ TopsUnlinked' /\ Settling'
  BY <1>8, <1>9 DEF Pushed, TopsUnlinked, Settling
<1>13. TopColumns'
  BY <1>2, <1>8, <1>9 DEF Pushed, TopColumns, Grown
<1>14. Popping' /\ Enumerated' /\ Shifts' /\ AtEnd'
  BY <1>2, <1>9 DEF IInv, Popping, Enumerated, Shifts, AtEnd
<1>15. t = GotoState(TopParser, reduction.prod)
  BY <1>1, <1>4 DEF GotoState
<1> QED
  BY <1>1, <1>8, <1>10, <1>11, <1>12, <1>13, <1>14, <1>15 DEF IInv

(* A shift on the token that ends the parse.                               *)
LEMMA EndState ==
  ASSUME NEW s \in StateId, NEW x \in {0, ToInternalType[0]},
         ActionTable[s][x].shift # NoState
  PROVE  <<FinalProduction, 2>> \in Items[ActionTable[s][x].shift]
BY FinalItemsAssumption

LEMMA MiniLRShiftKeeps ==
  ASSUME UserValues, IInv, MiniLRShift
  PROVE  /\ IInv' /\ StackChanges(1)
         /\ \E state : Gain(FreshNode, TopParser, state, globalNodeColumn + 1)
<1>1. PICK x, top, v, c : /\ x = FreshNode /\ top = TopParser /\ v = TokenVal(lexer.type)
                          /\ c = globalNodeColumn + 1
  OBVIOUS
<1>2. /\ TypeOK /\ pc = "mini-LR" /\ pc' = "next" /\ Len(topmostParsers) = 1 /\ top \in Live
      /\ States(node)[top] = node[top].state /\ node[top].state \in StateId
      /\ prevTopmost = << >> /\ decs = << >> /\ UNCHANGED <<prevTopmost, decs, lexer>>
      /\ pathQueue = << >> /\ frames = << >> /\ requests = << >>
      /\ UNCHANGED <<pathQueue, frames, requests, depthSweep, treeTop, reduction>>
      /\ globalNodeColumn' = c /\ c \in Nat
      /\ lexer.type \in TermIndex /\ lexer.internalType \in TermIndex
      /\ lexer.internalType = ToInternalType[lexer.type]
  BY <1>1, OnTop DEF IInv, MiniLRShift, OneParser, Phases, TypeOK, AtEnd, lexVars, workVars,
                     resultVars
<1>3. PICK t : t = ActionTable[node[top].state][lexer.internalType].shift
  OBVIOUS
<1>4. t \in StateId /\ Leads(States(node)[top], t)
  <2>1. ActionTable[node[top].state][lexer.internalType] \in ActionEntry
    BY <1>2, TablesAssumption
  <2>2. t # NoState
    BY <1>1, <1>3 DEF MiniLRShift, IsShiftAction, MiniLRAction
  <2> QED
    BY <1>2, <1>3, <2>1, <2>2 DEF ActionEntry, Leads
<1>5. v \in SVal
  BY <1>1, <1>2 DEF UserValues
<1>6. /\ node' = With(node, FreshNode, NodeOn(TopParser, t, v, c))
      /\ topmostParsers' = <<FreshNode>>
  BY <1>1, <1>3 DEF MiniLRShift, MiniLRAction
<1>7. Pushed(x, t, c) /\ StackChanges(1) /\ Gain(x, TopParser, t, c)
  BY <1>1, <1>2, <1>4, <1>5, <1>6, OnePushed
<1>8. topmostParsers' # << >>
  BY <1>6
<1>9. TypeOK'
  BY <1>2, <1>7 DEF TypeOK, MiniLRShift, Pushed, lexVars, workVars, resultVars
<1>10. Phases'
  BY <1>2, <1>8 DEF IInv, Phases
<1>11. StackSound' /\ Counted' /\ UniqueTops' /\ TopsUnlinked' /\ Settling'
  BY <1>2, <1>7 DEF Pushed, TopsUnlinked, Settling
<1>12. TopColumns'
  BY <1>2, <1>7 DEF Pushed, TopColumns, Grown
<1>13. AtEnd'
  <2>1. ASSUME lexer.type = 0 PROVE <<FinalProduction, 2>> \in Items[t]
    <3>1. lexer.internalType = ToInternalType[0] /\ t # NoState
      BY <1>2, <1>4, <2>1, TablesAssumption
    <3> QED
      BY <1>2, <1>3, <3>1, EndState
  <2>2. Elems(topmostParsers') = {x} /\ States(node')[x] = t /\ Shape(node')[x] = <<top>>
    BY <1>1, <1>7 DEF Pushed, Grown
  <2>3. Len(<<top>>) = 1
    OBVIOUS
  <2> QED
    BY <1>2, <2>1, <2>2, <2>3 DEF AtEnd
<1>14. Popping' /\ Enumerated' /\ Shifts'
  BY <1>2 DEF IInv, Popping, Enumerated, Shifts
<1> QED
  BY <1>1, <1>7, <1>9, <1>10, <1>11, <1>12, <1>13, <1>14 DEF IInv

-----------------------------------------------------------------------------
(* The reductions of the nondeterministic core.                            *)

(* What a path needs of the stack is kept.                                 *)
Kept(ns2, ns) ==
  /\ DOMAIN ns \subseteq DOMAIN ns2
  /\ \A n \in DOMAIN ns : /\ States(ns2)[n] = States(ns)[n]
                          /\ ColumnsOf(ns2)[n] = ColumnsOf(ns)[n]
  /\ LinksOf(Shape(ns)) \subseteq LinksOf(Shape(ns2))
  /\ \A link \in LinksOf(Shape(ns)) :
       Shape(ns2)[link[1]][link[2]] = Shape(ns)[link[1]][link[2]]

LEMMA PathKept ==
  ASSUME NEW ns, NEW ns2, Kept(ns2, ns), NEW p, GoodPath(p, ns)
  PROVE  GoodPath(p, ns2)
<1>1. PathIn(Shape(ns2), p.leftEdge, p.sibLinks)
  BY PathStays DEF GoodPath, Kept
<1> QED
  BY <1>1 DEF GoodPath, Kept

LEMMA NextPathGood ==
  ASSUME IInv, CanReduce
  PROVE  /\ NextPath \in Path /\ GoodPath(NextPath, node)
         /\ Tail(pathQueue) \in Seq(Path)
         /\ \A i \in DOMAIN Tail(pathQueue) : GoodPath(Tail(pathQueue)[i], node)
<1>1. pathQueue \in Seq(Path) /\ pathQueue # << >>
  BY DEF IInv, TypeOK, CanReduce
<1>2. /\ Tail(pathQueue) \in Seq(Path) /\ 1 \in DOMAIN pathQueue
      /\ Head(pathQueue) = pathQueue[1] /\ pathQueue[1] \in Path
      /\ \A i \in DOMAIN Tail(pathQueue) : i + 1 \in DOMAIN pathQueue
                                           /\ Tail(pathQueue)[i] = pathQueue[i + 1]
  BY <1>1
<1>3. \A i \in DOMAIN pathQueue : GoodPath(pathQueue[i], node)
  BY DEF IInv, Enumerated
<1> QED
  BY <1>2, <1>3 DEF NextPath

LEMMA Reduction ==
  ASSUME UserValues, IInv, CanReduce
  PROVE  NextReduction \in SVal
<1>1. PICK links : links = NextPath.sibLinks
  OBVIOUS
<1>2. /\ links \in Seq(LinkRef) /\ NextPath.prod \in ProdIndex
      /\ PathIn(Shape(node), NextPath.leftEdge, links)
  BY <1>1, NextPathGood DEF Path, GoodPath
<1>3. ASSUME NEW i \in DOMAIN links
      PROVE  node[links[i][1]].sibs[links[i][2]].sval \in SVal
  <2>1. links[i] \in LinksOf(Shape(node)) /\ DOMAIN Shape(node) = Live
    BY <1>2, StackIsSound DEF PathIn
  <2>2. PICK n, k : n \in Live /\ k \in DOMAIN Shape(node)[n] /\ links[i] = <<n, k>>
    BY <2>1, LinksAre
  <2> QED
    BY <2>2, LinkBack
<1>4. PICK svals : svals = [i \in DOMAIN links |-> node[links[i][1]].sibs[links[i][2]].sval]
  OBVIOUS
<1>5. svals \in Seq(SVal)
  <2>1. DOMAIN links = 1..Len(links) /\ Len(links) \in Nat
    BY <1>2
  <2> QED
    BY <1>3, <1>4, <2>1
<1>6. NextReduction = ReductionAction(NextPath.prod, svals)
  BY <1>1, <1>4 DEF NextReduction
<1> QED
  BY <1>2, <1>5, <1>6 DEF UserValues

(* Only the values of links are touched when a path yields them.           *)
LEMMA Yields ==
  ASSUME IInv
  PROVE  IsStack(Yielded) /\ DOMAIN Yielded = Live /\ SameViews(Yielded, node)
<1>1. IsStack(node) /\ DOMAIN node = Live
  BY StackIsSound
<1>2. DOMAIN Yielded = Live /\ Yielded = [n \in Live |-> Yielded[n]]
  BY <1>1 DEF Yielded
<1>3. ASSUME NEW n \in Live
      PROVE  /\ Yielded[n] \in StackNode
             /\ Yielded[n].state = node[n].state
             /\ Yielded[n].referenceCount = node[n].referenceCount
             /\ Yielded[n].determinDepth = node[n].determinDepth
             /\ Yielded[n].column = node[n].column
             /\ DOMAIN Yielded[n].sibs = DOMAIN node[n].sibs
             /\ \A k \in DOMAIN node[n].sibs : Yielded[n].sibs[k].sib = node[n].sibs[k].sib
  <2>1. PICK r : r = node[n]
    OBVIOUS
  <2>2. r \in StackNode /\ r.sibs \in Seq(SiblingLink)
    BY <1>1, <2>1 DEF IsStack, StackNode
  <2>3. PICK sibs : sibs = [k \in DOMAIN r.sibs |->
                       [r.sibs[k] EXCEPT !.yielded =
                          r.sibs[k].yielded \/ \E i \in DOMAIN NextPath.sibLinks :
                                                 NextPath.sibLinks[i] = <<n, k>>]]
    OBVIOUS
  <2>4. Yielded[n] = [r EXCEPT !.sibs = sibs]
    <3>1. Yielded[n] =
            [node[n] EXCEPT !.sibs =
               [k \in DOMAIN node[n].sibs |->
                  [node[n].sibs[k] EXCEPT !.yielded =
                     node[n].sibs[k].yielded \/ \E i \in DOMAIN NextPath.sibLinks :
                                                  NextPath.sibLinks[i] = <<n, k>>]]]
      BY <1>1 DEF Yielded
    <3> QED
      BY <2>1, <2>3, <3>1
  <2>5. DOMAIN r.sibs = 1..Len(r.sibs) /\ Len(r.sibs) \in Nat
        /\ \A k \in DOMAIN r.sibs : r.sibs[k] \in SiblingLink
    BY <2>2
  <2>6. DOMAIN sibs = DOMAIN r.sibs
        /\ \A k \in DOMAIN r.sibs : sibs[k] \in SiblingLink /\ sibs[k].sib = r.sibs[k].sib
    <3>1. ASSUME NEW k \in DOMAIN r.sibs
          PROVE  sibs[k] \in SiblingLink /\ sibs[k].sib = r.sibs[k].sib
      <4>1. PICK b \in BOOLEAN : b = (r.sibs[k].yielded
                 \/ \E i \in DOMAIN NextPath.sibLinks : NextPath.sibLinks[i] = <<n, k>>)
        OBVIOUS
      <4>2. sibs[k] = [r.sibs[k] EXCEPT !.yielded = b]
        BY <2>3, <2>5, <4>1 DEF SiblingLink
      <4> QED
        BY <2>5, <4>2 DEF SiblingLink
    <3> QED
      BY <2>3, <3>1
  <2>7. sibs \in Seq(SiblingLink)
    <3>1. sibs = [k \in 1..Len(r.sibs) |-> sibs[k]]
      BY <2>3, <2>5
    <3> QED
      BY <2>5, <2>6, <3>1
  <2>8. Yielded[n] \in StackNode /\ Yielded[n].sibs = sibs
        /\ Yielded[n].state = r.state /\ Yielded[n].referenceCount = r.referenceCount
        /\ Yielded[n].determinDepth = r.determinDepth /\ Yielded[n].column = r.column
    BY <2>2, <2>4, <2>7 DEF StackNode
  <2> QED
    BY <2>1, <2>6, <2>8
<1>4. IsStack(Yielded)
  BY <1>1, <1>2, <1>3 DEF IsStack
<1>5. SameViews(Yielded, node)
  BY <1>1, <1>2, <1>3, ViewsValuesChanged
<1> QED
  BY <1>2, <1>4, <1>5

(* A path is taken off the worklist and the stack stays, but for values.   *)
LEMMA OnlyValuesKeep ==
  ASSUME IInv, CanReduce, IsStack(node'), SameViews(node', node),
         pathQueue' = Tail(pathQueue),
         UNCHANGED <<pc, topmostParsers, prevTopmost, decs, globalNodeColumn, frames, requests>>,
         UNCHANGED <<depthSweep, reduction, lexer, treeTop>>
  PROVE  /\ Live' = Live /\ node' \in [Live -> StackNode] /\ pathQueue' \in Seq(Path)
         /\ Phases' /\ StackSound' /\ Counted' /\ UniqueTops' /\ TopsUnlinked'
         /\ Settling' /\ TopColumns' /\ Popping' /\ Enumerated' /\ Shifts' /\ AtEnd'
<1>1. /\ Shape(node') = Shape(node) /\ States(node') = States(node)
      /\ Counts(node') = Counts(node) /\ Depths(node') = Depths(node)
      /\ ColumnsOf(node') = ColumnsOf(node)
  BY DEF SameViews
<1>2. Live' = Live /\ DOMAIN node' = Live /\ node' \in [Live -> StackNode]
  <2>1. DOMAIN Shape(node') = DOMAIN node' /\ DOMAIN Shape(node) = DOMAIN node
    BY DEF Shape
  <2> QED
    BY <1>1, <2>1 DEF Live, IsStack
<1>3. pc = "reduce" /\ frames = << >> /\ requests = << >>
  BY DEF CanReduce
<1>4. Phases'
  BY <1>3 DEF IInv, Phases
<1>5. StackSound' /\ Counted' /\ UniqueTops' /\ TopsUnlinked' /\ Settling' /\ TopColumns'
  BY <1>1, <1>2 DEF IInv, StackSound, Counted, UniqueTops, TopsUnlinked, Settling, TopColumns
<1>6. Popping' /\ Shifts' /\ AtEnd'
  BY <1>3 DEF IInv, Popping, Shifts, AtEnd
<1>7. pathQueue' \in Seq(Path) /\ \A i \in DOMAIN pathQueue' : GoodPath(pathQueue'[i], node')
  <2>1. Kept(node', node)
    BY <1>1, <1>2 DEF Kept, Live
  <2> QED
    BY <2>1, NextPathGood, PathKept
<1>8. Enumerated'
  BY <1>3, <1>7 DEF Enumerated
<1> QED
  BY <1>2, <1>4, <1>5, <1>6, <1>7, <1>8

LEMMA ReduceCancelledKeeps ==
  ASSUME IInv, ReduceCancelled
  PROVE  IInv' /\ StackChanges(0) /\ NoGain
<1>1. /\ CanReduce /\ pathQueue' = Tail(pathQueue) /\ TypeOK
      /\ IsStack(node') /\ SameViews(node', node)
      /\ UNCHANGED <<pc, topmostParsers, prevTopmost, decs, globalNodeColumn, frames, requests>>
      /\ UNCHANGED <<depthSweep, reduction, lexer, treeTop>>
  BY Yields DEF IInv, ReduceCancelled, lexVars, resultVars
<1>2. /\ Live' = Live /\ node' \in [Live -> StackNode] /\ pathQueue' \in Seq(Path)
      /\ Phases' /\ StackSound' /\ Counted' /\ UniqueTops' /\ TopsUnlinked'
      /\ Settling' /\ TopColumns' /\ Popping' /\ Enumerated' /\ Shifts' /\ AtEnd'
  BY <1>1, OnlyValuesKeep
<1>3. TypeOK'
  BY <1>1, <1>2 DEF TypeOK, ReduceCancelled, lexVars, resultVars
<1>4. StackChanges(0) /\ NoGain
  BY <1>1, SameViewsChanges
<1> QED
  BY <1>2, <1>3, <1>4 DEF IInv

(* The parser in a state, when there is one.                               *)
LEMMA FindTopmost ==
  ASSUME IInv, NEW s
  PROVE  /\ FindTopmostParser(s) # Null =>
              /\ FindTopmostParser(s) \in Elems(topmostParsers)
              /\ States(node)[FindTopmostParser(s)] = s
         /\ FindTopmostParser(s) = Null =>
              \A n \in Elems(topmostParsers) : States(node)[n] # s
<1>1. topmostParsers \in Seq(NodeId) /\ Elems(topmostParsers) \subseteq Live /\ DOMAIN node = Live
  BY StackIsSound DEF IInv, TypeOK, Counted
<1>2. PICK at : at = {i \in DOMAIN topmostParsers : node[topmostParsers[i]].state = s}
  OBVIOUS
<1>3. FindTopmostParser(s) =
        IF at = {} THEN Null
        ELSE topmostParsers[CHOOSE i \in at : \A j \in at : i <= j]
  BY <1>2 DEF FindTopmostParser
<1>4. \A n \in Elems(topmostParsers) : States(node)[n] = node[n].state /\ n \in NodeId
  BY <1>1 DEF States, Elems
<1>5. CASE at = {}
  <2>1. \A n \in Elems(topmostParsers) : States(node)[n] # s
    BY <1>2, <1>4, <1>5 DEF Elems
  <2> QED
    BY <1>3, <1>5, <2>1
<1>6. CASE at # {}
  <2>1. at \subseteq Nat
    BY <1>1, <1>2
  <2>2. PICK i : i = CHOOSE m \in at : \A j \in at : m <= j
    OBVIOUS
  <2>3. i \in at
    BY <1>6, <2>1, <2>2, LeastElement
  <2>4. topmostParsers[i] \in Elems(topmostParsers) /\ node[topmostParsers[i]].state = s
    BY <1>2, <2>3 DEF Elems
  <2>5. FindTopmostParser(s) = topmostParsers[i]
    BY <1>3, <1>6, <2>2
  <2> QED
    BY <1>1, <1>4, <2>4, <2>5 DEF NodeId, Null
<1> QED
  BY <1>5, <1>6

LEMMA ReduceMergeKeeps ==
  ASSUME UserValues, IInv, ReduceMerge
  PROVE  IInv' /\ StackChanges(0) /\ NoGain
<1>1. PICK x, k, v : /\ x = RightSibling /\ k = (CHOOSE j \in SibLinks : TRUE)
                     /\ v = MergeAlternativeParses(Yielded[x].sibs[k].sval, NextReduction)
  OBVIOUS
<1>2. /\ CanReduce /\ pathQueue' = Tail(pathQueue) /\ TypeOK
      /\ UNCHANGED <<pc, topmostParsers, prevTopmost, decs, globalNodeColumn, frames, requests>>
      /\ UNCHANGED <<depthSweep, reduction, lexer, treeTop>>
  BY DEF IInv, ReduceMerge, lexVars
<1>3. /\ IsStack(Yielded) /\ DOMAIN Yielded = Live /\ SameViews(Yielded, node)
      /\ IsStack(node) /\ DOMAIN node = Live
  BY Yields, StackIsSound
<1>4. x \in Live
  BY <1>1, FindTopmost DEF ReduceMerge, RightSibling, IInv, Counted
<1>5. k \in DOMAIN Yielded[x].sibs
  <2>1. k \in DOMAIN node[x].sibs
    BY <1>1 DEF ReduceMerge, SibLinks, LinksTo
  <2> QED
    BY <1>3, <1>4, <2>1, ShapeAt DEF SameViews
<1>6. v \in SVal
  <2>1. Yielded[x].sibs \in Seq(SiblingLink)
    BY <1>3, <1>4 DEF IsStack, StackNode
  <2>2. Yielded[x].sibs[k] \in SiblingLink
    BY <1>5, <2>1
  <2> QED
    BY <1>1, <1>2, <2>2, Reduction DEF UserValues, SiblingLink
<1>7. node' = [Yielded EXCEPT ![x].sibs[k].sval = v] \/ node' = Yielded
  BY <1>1 DEF ReduceMerge
<1>8. IsStack(node') /\ SameViews(node', node)
  <2>1. CASE node' = Yielded
    BY <1>3, <2>1
  <2>2. CASE node' = [Yielded EXCEPT ![x].sibs[k].sval = v]
    <3>1. IsStack(node') /\ SameViews(node', Yielded)
      BY <1>3, <1>4, <1>5, <1>6, <2>2, ViewsValueSet DEF ValueSet
    <3> QED
      BY <1>3, <3>1 DEF SameViews
  <2> QED
    BY <1>7, <2>1, <2>2
<1>9. /\ Live' = Live /\ node' \in [Live -> StackNode] /\ pathQueue' \in Seq(Path)
      /\ Phases' /\ StackSound' /\ Counted' /\ UniqueTops' /\ TopsUnlinked'
      /\ Settling' /\ TopColumns' /\ Popping' /\ Enumerated' /\ Shifts' /\ AtEnd'
  BY <1>2, <1>8, OnlyValuesKeep
<1>10. TypeOK'
  <2>1. yieldThenMergeCt' \in Nat
    BY <1>2 DEF TypeOK, ReduceMerge
  <2> QED
    BY <1>2, <1>9, <2>1 DEF TypeOK, ReduceMerge, lexVars
<1>11. StackChanges(0) /\ NoGain
  BY <1>8, SameViewsChanges
<1> QED
  BY <1>9, <1>10, <1>11 DEF IInv

(* A parser more on a list.                                                *)
LEMMA OneMoreParser ==
  ASSUME NEW list, list \in Seq(NodeId), NEW x \in NodeId, NEW s, NEW s2,
         DifferentStates(s, list), \A n \in Elems(list) : s2[n] = s[n] /\ s2[n] # s2[x]
  PROVE  /\ Append(list, x) \in Seq(NodeId) /\ Append(list, x) # << >>
         /\ Elems(Append(list, x)) = Elems(list) \cup {x}
         /\ DifferentStates(s2, Append(list, x))
<1>1. PICK l \in Nat : l = Len(list)
  OBVIOUS
<1>2. PICK longer : longer = Append(list, x)
  OBVIOUS
<1>3. /\ longer \in Seq(NodeId) /\ longer # << >> /\ DOMAIN list = 1..l /\ DOMAIN longer = 1..(l + 1)
      /\ longer[l + 1] = x /\ \A i \in 1..l : longer[i] = list[i]
  BY <1>1, <1>2
<1>4. Elems(longer) = Elems(list) \cup {x}
  <2>1. \A i \in 1..(l + 1) : i \in 1..l \/ i = l + 1
    OBVIOUS
  <2>2. Elems(longer) \subseteq Elems(list) \cup {x}
    BY <1>3, <2>1 DEF Elems
  <2>3. \A i \in 1..l : i \in 1..(l + 1)
    OBVIOUS
  <2>4. l + 1 \in 1..(l + 1)
    OBVIOUS
  <2>5. Elems(list) \cup {x} \subseteq Elems(longer)
    BY <1>3, <2>3, <2>4 DEF Elems
  <2> QED
    BY <2>2, <2>5
<1>5. ASSUME NEW i \in DOMAIN longer, NEW j \in DOMAIN longer, s2[longer[i]] = s2[longer[j]]
      PROVE  i = j
  <2>1. \A m \in 1..l : list[m] \in Elems(list)
    BY <1>3 DEF Elems
  <2>2. CASE i \in 1..l /\ j \in 1..l
    BY <1>3, <1>5, <2>1, <2>2 DEF DifferentStates
  <2>3. CASE i \in 1..l /\ j = l + 1
    BY <1>3, <1>5, <2>1, <2>3
  <2>4. CASE i = l + 1 /\ j \in 1..l
    BY <1>3, <1>5, <2>1, <2>4
  <2>5. CASE i = l + 1 /\ j = l + 1
    BY <2>5
  <2> QED
    BY <1>3, <2>2, <2>3, <2>4, <2>5
<1> QED
  BY <1>2, <1>3, <1>4, <1>5 DEF DifferentStates

LEMMA NextGoto ==
  ASSUME IInv, CanReduce
  PROVE  /\ NextPath.leftEdge \in Live /\ RightState \in StateId
         /\ Leads(States(node)[NextPath.leftEdge], RightState)
<1>1. PICK p, left, s : /\ p = NextPath.prod /\ left = NextPath.leftEdge
                        /\ s = node[left].state
  OBVIOUS
<1>2. /\ p \in ProdIndex /\ left \in Live /\ p # FinalProduction
      /\ <<p, 0>> \in Items[States(node)[left]]
  BY <1>1, NextPathGood DEF Path, GoodPath, Live
<1>3. s \in StateId /\ s = States(node)[left]
  BY <1>1, <1>2, StackIsSound DEF IsStack, StackNode, States
<1>4. PICK a, t : a = ProdInfo[p].lhsIndex /\ t = GotoTable[s][a]
  OBVIOUS
<1>5. a \in NtIndex
  BY <1>2, <1>4, ProdInfoAssumption
<1>6. PICK i \in Items[s] : i = <<p, 0>>
  BY <1>2, <1>3
<1>7. t \in StateId
  BY <1>2, <1>3, <1>4, <1>6, ItemsAssumption
<1>8. RightState = t
  BY <1>1, <1>4 DEF RightState, GotoState
<1> QED
  BY <1>1, <1>2, <1>3, <1>4, <1>5, <1>7, <1>8 DEF Leads

(* The stack once the path has yielded and its left edge has a reference   *)
(* more.                                                                   *)
LEMMA Referred ==
  ASSUME IInv, NEW left \in Live, NEW ns, ns = IncRefCt(Yielded, left)
  PROVE  /\ IsSound(ns) /\ DOMAIN ns = Live
         /\ Shape(ns) = Shape(node) /\ States(ns) = States(node)
         /\ Depths(ns) = Depths(node) /\ ColumnsOf(ns) = ColumnsOf(node)
         /\ \A n \in Live : Counts(ns)[n] = Counts(node)[n] + OneIf(n = left)
<1>1. /\ IsStack(Yielded) /\ DOMAIN Yielded = Live /\ SameViews(Yielded, node)
      /\ IsSound(node) /\ DOMAIN node = Live
  BY Yields, StackIsSound
<1>2. /\ IsStack(ns) /\ DOMAIN ns = Live
      /\ Shape(ns) = Shape(node) /\ States(ns) = States(node)
      /\ Counts(ns) = With(Counts(node), left, Counts(node)[left] + 1)
      /\ Depths(ns) = Depths(node) /\ ColumnsOf(ns) = ColumnsOf(node)
  BY <1>1, ViewsIncRefCt DEF SameViews
<1>3. Counts(node) \in [Live -> Nat]
  BY <1>1, StackTypes DEF IsSound
<1>4. ASSUME NEW n \in Live PROVE Counts(ns)[n] = Counts(node)[n] + OneIf(n = left)
  <2>1. Counts(ns)[n] = IF n = left THEN Counts(node)[left] + 1 ELSE Counts(node)[n]
    BY <1>2, <1>3 DEF With
  <2> QED
    BY <1>3, <2>1 DEF OneIf
<1> QED
  BY <1>1, <1>2, <1>4 DEF IsSound

LEMMA ReduceNewParserKeeps ==
  ASSUME UserValues, IInv, ReduceNewParser
  PROVE  /\ IInv' /\ StackChanges(1)
         /\ Gain(FreshNode, NextPath.leftEdge, RightState, globalNodeColumn)
         /\ FreshNode \notin Live /\ Live' = Live \cup {FreshNode}
         /\ Shape(node')[FreshNode] = <<NextPath.leftEdge>>
         /\ States(node')[FreshNode] = RightState
         /\ \A n \in Live : Shape(node')[n] = Shape(node)[n]
                            /\ States(node')[n] = States(node)[n]
<1>1. PICK x, left, t, v, c : /\ x = FreshNode /\ left = NextPath.leftEdge /\ t = RightState
                              /\ v = NextReduction /\ c = globalNodeColumn
  OBVIOUS
<1>2. PICK ns : ns = IncRefCt(Yielded, left)
  OBVIOUS
<1>3. /\ TypeOK /\ CanReduce /\ pc = "reduce" /\ pc' = "reduce"
      /\ frames = << >> /\ requests = << >> /\ frames' = << >>
      /\ requests' = <<[parser |-> x, mustUseLink |-> NoLink]>>
      /\ pathQueue' = Tail(pathQueue)
      /\ prevTopmost = << >> /\ decs = << >> /\ prevTopmost' = << >> /\ decs' = << >>
      /\ UNCHANGED <<globalNodeColumn, reduction, depthSweep, lexer, treeTop>>
      /\ topmostParsers' = Append(topmostParsers, x) /\ topmostParsers \in Seq(NodeId)
      /\ c \in Nat
  BY <1>1 DEF IInv, ReduceNewParser, CanReduce, Phases, TypeOK, lexVars, resultVars
<1>4. /\ left \in Live /\ t \in StateId /\ Leads(States(node)[left], t) /\ v \in SVal
  BY <1>1, <1>3, NextGoto, Reduction
<1>5. /\ IsSound(ns) /\ DOMAIN ns = Live
      /\ Shape(ns) = Shape(node) /\ States(ns) = States(node)
      /\ Depths(ns) = Depths(node) /\ ColumnsOf(ns) = ColumnsOf(node)
      /\ \A n \in Live : Counts(ns)[n] = Counts(node)[n] + OneIf(n = left)
  BY <1>2, <1>4, Referred
<1>6. x \in NodeId /\ x \notin Live /\ Elems(topmostParsers) \subseteq Live
      /\ DOMAIN Shape(node) = Live
  BY <1>1, StackIsSound, FreshNodeIsNew DEF IInv, Counted
<1>7. Grown(node', ns, x, left, t, c)
  <2>1. ns[left].determinDepth = node[left].determinDepth
    <3>1. Depths(ns)[left] = ns[left].determinDepth /\ Depths(node)[left] = node[left].determinDepth
      BY <1>4, <1>5, ShapeAt, StackIsSound DEF IsSound
    <3> QED
      BY <1>5, <3>1
  <2>2. node' = With(ns, x, [state |-> t, sibs |-> <<NewLink(left, v)>>, referenceCount |-> 1,
                             determinDepth |-> ns[left].determinDepth + 1, column |-> c])
    BY <1>1, <1>2, <2>1 DEF ReduceNewParser, NodeOn
  <2> QED
    BY <1>3, <1>4, <1>5, <1>6, <2>2, StackGrows
<1>8. /\ StackSound' /\ DOMAIN Shape(node') = Live' /\ Live' = Live \cup {x}
      /\ Live' \in SUBSET NodeId /\ IsFiniteSet(Live') /\ node' \in [Live' -> StackNode]
      /\ \A n : In(Shape(node'), n) \in Nat
  BY <1>5, <1>7, SoundNext DEF Grown, Live
<1>9. \A n \in Live :
        /\ Shape(node')[n] = Shape(node)[n] /\ States(node')[n] = States(node)[n]
        /\ ColumnsOf(node')[n] = ColumnsOf(node)[n]
        /\ Counts(node')[n] = Counts(node)[n] + OneIf(n = left)
        /\ Settled(Shape(node), Depths(node), n) => Settled(Shape(node'), Depths(node'), n)
  BY <1>5, <1>7 DEF Grown
<1>10. \A n \in Elems(topmostParsers) : States(node)[n] # t
  BY <1>1, FindTopmost DEF ReduceNewParser, RightSibling
<1>11. /\ topmostParsers' \in Seq(NodeId) /\ topmostParsers' # << >>
       /\ Elems(topmostParsers') = Elems(topmostParsers) \cup {x}
       /\ UniqueTops'
  <2>1. DifferentStates(States(node), topmostParsers)
    BY DEF IInv, UniqueTops
  <2>2. \A n \in Elems(topmostParsers) : States(node')[n] = States(node)[n]
                                         /\ States(node')[n] # States(node')[x]
    BY <1>6, <1>7, <1>9, <1>10 DEF Grown
  <2> QED
    BY <1>3, <1>6, <2>1, <2>2, OneMoreParser DEF UniqueTops
<1>12. Counted'
  <2>1. ASSUME NEW n \in Live'
        PROVE  Counts(node')[n] = In(Shape(node'), n) + Occ(n, topmostParsers') + Occ(n, << >>)
                                    + Occ(n, << >>)
    <3>1. /\ Occ(n, << >>) = 0 /\ Occ(n, topmostParsers') = Occ(n, topmostParsers) + OneIf(n = x)
          /\ OneIf(n = x) \in Nat /\ OneIf(n = left) \in Nat
          /\ In(Shape(node'), n) = In(Shape(node), n) + OneIf(n = left)
      BY <1>3, <1>5, <1>6, <1>7, OccEmpty, OccAppend DEF OneIf, Grown
    <3>2. CASE n = x
      <4>1. Counts(node')[x] = 1 /\ In(Shape(node'), x) = 0 /\ OneIf(n = x) = 1
        BY <1>7, <3>2 DEF Grown, OneIf
      <4>2. Occ(x, topmostParsers) = 0
        BY <1>3, <1>6, OccPositive
      <4> QED
        BY <3>1, <3>2, <4>1, <4>2
    <3>3. CASE n # x
      <4>1. n \in Live /\ OneIf(n = x) = 0
        BY <1>8, <3>3 DEF OneIf
      <4>2. Counts(node)[n] = In(Shape(node), n) + Occ(n, topmostParsers) + Occ(n, << >>)
                                + Occ(n, << >>)
        BY <1>3, <4>1 DEF IInv, Counted
      <4>3. In(Shape(node), n) \in Nat /\ Occ(n, topmostParsers) \in Nat
        BY StackIsSound
      <4> QED
        BY <1>9, <3>1, <4>1, <4>2, <4>3
    <3> QED
      BY <3>2, <3>3
  <2> QED
    BY <1>3, <1>6, <1>8, <1>11, <2>1, ElemsEmpty DEF Counted
<1>13. TopsUnlinked'
  <2>1. LinkedWithin(Shape(node), topmostParsers)
    BY <1>3 DEF IInv, TopsUnlinked
  <2>2. ASSUME NEW n \in Live', NEW k \in DOMAIN Shape(node')[n],
               Shape(node')[n][k] \in Elems(topmostParsers')
        PROVE  n \in Elems(topmostParsers')
    <3>1. CASE n = x
      BY <1>11, <3>1
    <3>2. CASE n # x
      <4>1. n \in Live /\ k \in DOMAIN Shape(node)[n] /\ Shape(node')[n][k] = Shape(node)[n][k]
        BY <1>8, <1>9, <2>2, <3>2
      <4>2. Shape(node)[n][k] # x
        BY <1>6, <4>1, LinkBack
      <4> QED
        BY <1>6, <1>11, <2>1, <2>2, <4>1, <4>2 DEF LinkedWithin
    <3> QED
      BY <3>1, <3>2
  <2>3. LinkedWithin(Shape(node'), topmostParsers')
    BY <1>8, <2>2 DEF LinkedWithin
  <2> QED
    BY <1>3, <2>3 DEF TopsUnlinked
<1>14. Settling'
  <2>1. \A n \in Live : Settled(Shape(node), Depths(node), n)
    BY <1>3 DEF IInv, Settling
  <2>2. \A n \in Live' : Settled(Shape(node'), Depths(node'), n)
    BY <1>7, <1>8, <1>9, <2>1 DEF Grown
  <2> QED
    BY <1>3, <2>2 DEF Settling
<1>15. TopColumns'
  <2>1. \A n \in Elems(topmostParsers) : ColumnsOf(node)[n] = c
    BY <1>1, <1>3 DEF IInv, TopColumns
  <2>2. ColumnsOf(node')[x] = c
    BY <1>7 DEF Grown
  <2> QED
    BY <1>1, <1>3, <1>6, <1>9, <1>11, <2>1, <2>2 DEF TopColumns
<1>16. pathQueue' \in Seq(Path) /\ \A i \in DOMAIN pathQueue' : GoodPath(pathQueue'[i], node')
  <2>1. Kept(node', node)
    BY <1>6, <1>8, <1>9, LinksStay DEF Kept, Live
  <2> QED
    BY <1>3, <2>1, NextPathGood, PathKept
<1>17. requests' \in Seq(Request) /\ \A i \in DOMAIN requests' : requests'[i].parser = x
  <2>1. PICK r : r = [parser |-> x, mustUseLink |-> NoLink]
    OBVIOUS
  <2>2. r \in Request /\ r.parser = x
    BY <1>6, <2>1 DEF Request
  <2>3. requests' = <<r>>
    BY <1>3, <2>1
  <2> QED
    BY <2>2, <2>3
<1>18. Enumerated'
  BY <1>3, <1>8, <1>16, <1>17 DEF Enumerated
<1>19. TypeOK'
  <2>1. owned' \in Int
    BY <1>3 DEF TypeOK, ReduceNewParser
  <2> QED
    BY <1>3, <1>8, <1>11, <1>16, <1>17, <2>1 DEF TypeOK, ReduceNewParser, lexVars, resultVars
<1>20. Phases'
  BY <1>3, <1>11 DEF IInv, Phases
<1>21. Popping' /\ Shifts' /\ AtEnd'
  BY <1>3 DEF IInv, Popping, Shifts, AtEnd
<1>22. StackChanges(1) /\ Gain(x, left, t, c)
  <2>1. \A n \in Live : Counts(node)[n] > 0 => Counts(ns)[n] > 0
    <3>1. \A n \in Live : Counts(node)[n] \in Nat
      BY StackIsSound, StackTypes
    <3> QED
      BY <1>5, <3>1 DEF OneIf
  <2> QED
    BY <1>4, <1>5, <1>6, <1>7, <2>1, GrownChanges
<1>23. /\ x \notin Live /\ Live' = Live \cup {x} /\ Shape(node')[x] = <<left>>
       /\ States(node')[x] = t
       /\ \A n \in Live : Shape(node')[n] = Shape(node)[n] /\ States(node')[n] = States(node)[n]
  BY <1>6, <1>7, <1>8, <1>9 DEF Grown
<1>24. IInv'
  BY <1>8, <1>11, <1>12, <1>13, <1>14, <1>15, <1>18, <1>19, <1>20, <1>21 DEF IInv
<1> QED
  BY <1>1, <1>22, <1>23, <1>24

(* computeDeterminDepth, of the shape and the recorded depths.             *)
LEMMA DepthComputed ==
  ASSUME IInv, NEW x \in Live
  PROVE  /\ ComputeDeterminDepth(x) = DepthIn(Shape(node), Depths(node), x)
         /\ ComputeDeterminDepth(x) \in Nat
<1>1. PICK d, s, dep : d = ComputeDeterminDepth(x) /\ s = Shape(node) /\ dep = Depths(node)
  OBVIOUS
<1>2. /\ IsStack(node) /\ DOMAIN s = Live /\ DOMAIN node = Live /\ IsShape(s) /\ Linked(s)
      /\ dep \in [Live -> Nat]
  BY <1>1, StackIsSound, StackTypes
<1>3. /\ s[x] \in Seq(NodeId) /\ (s[x] = << >> <=> node[x].sibs = << >>)
      /\ Len(s[x]) = Len(node[x].sibs)
  BY <1>1, <1>2, ShapeAt DEF IsShape
<1>4. CASE Len(s[x]) = 1
  <2>1. 1 \in DOMAIN s[x] /\ 1 \in DOMAIN node[x].sibs
    BY <1>1, <1>2, <1>3, <1>4, ShapeAt
  <2>2. s[x][1] \in Live /\ s[x][1] = node[x].sibs[1].sib
    BY <1>1, <1>2, <2>1, ShapeAt DEF Linked
  <2>3. dep[s[x][1]] = node[s[x][1]].determinDepth /\ dep[s[x][1]] \in Nat
    BY <1>1, <1>2, <2>2, ShapeAt
  <2>4. d = node[node[x].sibs[1].sib].determinDepth + 1
    BY <1>1, <1>3, <1>4 DEF ComputeDeterminDepth
  <2>5. DepthIn(s, dep, x) = dep[s[x][1]] + 1
    BY <1>3, <1>4 DEF DepthIn
  <2> QED
    BY <1>1, <2>2, <2>3, <2>4, <2>5
<1>5. CASE Len(s[x]) # 1
  BY <1>1, <1>3, <1>5 DEF ComputeDeterminDepth, DepthIn
<1> QED
  BY <1>4, <1>5

LEMMA SettleParserKeeps ==
  ASSUME IInv, SettleParser
  PROVE  IInv' /\ StackChanges(0) /\ NoGain
<1>1. PICK i, x, d, s, dep : /\ i = depthSweep.next /\ x = topmostParsers[depthSweep.next]
                             /\ d = ComputeDeterminDepth(x) /\ s = Shape(node)
                             /\ dep = Depths(node)
  OBVIOUS
<1>2. /\ TypeOK /\ pc = "settle" /\ pc' = "settle" /\ i \in NodeId /\ i <= Len(topmostParsers)
      /\ topmostParsers \in Seq(NodeId) /\ UNCHANGED <<topmostParsers, prevTopmost, decs>>
      /\ UNCHANGED <<pathQueue, frames, requests, globalNodeColumn, reduction, lexer, treeTop>>
  BY <1>1 DEF IInv, SettleParser, TypeOK, lexVars, resultVars
<1>3. i \in DOMAIN topmostParsers /\ i \in Nat /\ x \in Elems(topmostParsers) /\ x \in Live
  <2>1. i \in DOMAIN topmostParsers /\ i \in Nat
    BY <1>2 DEF NodeId
  <2> QED
    BY <1>1, <2>1 DEF Elems, IInv, Counted
<1>4. /\ IsStack(node) /\ DOMAIN s = Live /\ DOMAIN node = Live /\ IsShape(s) /\ Linked(s)
      /\ dep \in [Live -> Nat]
  BY <1>1, StackIsSound, StackTypes
<1>5. d = DepthIn(s, dep, x) /\ d \in Nat
  BY <1>1, <1>3, DepthComputed
<1>6. node' = DepthSet(node, x, d)
  BY <1>1 DEF SettleParser, DepthSet
<1>7. /\ IsStack(node') /\ DOMAIN node' = Live
      /\ Shape(node') = s /\ States(node') = States(node) /\ Counts(node') = Counts(node)
      /\ Depths(node') = With(dep, x, d) /\ ColumnsOf(node') = ColumnsOf(node)
  BY <1>1, <1>3, <1>4, <1>5, <1>6, ViewsDepthSet
<1>8. PICK dep2 : dep2 = Depths(node')
  OBVIOUS
<1>9. dep2[x] = d /\ \A n \in Live : n # x => dep2[n] = dep[n]
  BY <1>3, <1>4, <1>7, <1>8 DEF With
<1>10. Live' = Live
  BY <1>7 DEF Live
<1>11. PICK b \in BOOLEAN : b = (depthSweep.changes \/ d # node[x].determinDepth)
  OBVIOUS
<1>12. /\ depthSweep' \in [next : NodeId, changes : BOOLEAN]
       /\ depthSweep'.next = i + 1 /\ depthSweep'.changes = b
  <2>1. depthSweep' = [depthSweep EXCEPT !.next = i + 1, !.changes = b]
    BY <1>1, <1>2, <1>11 DEF SettleParser, TypeOK
  <2>2. depthSweep = [next |-> i, changes |-> depthSweep.changes]
    BY <1>1, <1>2 DEF TypeOK
  <2>3. depthSweep' = [next |-> i + 1, changes |-> b]
    BY <2>1, <2>2
  <2>4. i + 1 \in NodeId
    BY <1>3 DEF NodeId
  <2> QED
    BY <2>3, <2>4
<1>13. TypeOK'
  BY <1>2, <1>7, <1>10, <1>12 DEF TypeOK, SettleParser, IsStack, lexVars, resultVars
<1>14. Phases'
  BY <1>2 DEF IInv, Phases
<1>15. StackSound' /\ Counted' /\ UniqueTops' /\ TopsUnlinked' /\ TopColumns'
  BY <1>1, <1>2, <1>7, <1>10 DEF IInv, StackSound, Counted, UniqueTops, TopsUnlinked, TopColumns
<1>16. Settling'
  <2>1. ASSUME NEW n \in Live, n \notin Elems(topmostParsers) PROVE Settled(s, dep2, n)
    <3>1. Settled(s, dep, n) /\ n # x
      BY <1>1, <1>2, <1>3, <2>1 DEF IInv, Settling
    <3>2. \A k \in DOMAIN s[n] : s[n][k] \in Live /\ s[n][k] # x
      BY <1>1, <1>2, <1>3, <1>4, <2>1 DEF IInv, TopsUnlinked, LinkedWithin, Linked
    <3>3. dep2[n] = dep[n] /\ \A k \in DOMAIN s[n] : dep2[s[n][k]] = dep[s[n][k]]
      BY <1>9, <3>1, <3>2
    <3> QED
      BY <1>4, <3>1, <3>3, StaysSettled
  <2>2. ASSUME ~ b, NEW j \in DOMAIN topmostParsers, j < i + 1
        PROVE  Settled(s, dep2, topmostParsers[j])
    <3>1. ~ depthSweep.changes /\ d = node[x].determinDepth
      BY <1>11, <2>2
    <3>2. dep[x] = d
      BY <1>1, <1>3, <1>4, <3>1, ShapeAt
    <3>3. dep2 = dep
      BY <1>3, <1>4, <1>7, <1>8, <3>2 DEF With
    <3>4. CASE j < i
      BY <1>1, <1>2, <3>1, <3>3, <3>4 DEF IInv, Settling
    <3>5. CASE j = i
      BY <1>1, <1>5, <3>2, <3>3, <3>5 DEF Settled
    <3>6. j \in Nat
      BY <1>2
    <3> QED
      BY <1>3, <2>2, <3>4, <3>5, <3>6
  <2> QED
    BY <1>2, <1>7, <1>8, <1>10, <1>12, <2>1, <2>2 DEF Settling
<1>17. Enumerated'
  BY <1>2, <1>7, <1>10, <1>1, <1>4 DEF IInv, Enumerated, GoodFrame, GoodPath
<1>18. Popping' /\ Shifts' /\ AtEnd'
  BY <1>2 DEF IInv, Popping, Shifts, AtEnd
<1>19. StackChanges(0) /\ NoGain
  BY <1>1, <1>7, SameChanges
<1> QED
  BY <1>13, <1>14, <1>15, <1>16, <1>17, <1>18, <1>19 DEF IInv

LEMMA ReduceAddLinkKeeps ==
  ASSUME UserValues, IInv, ReduceAddLink
  PROVE  /\ IInv' /\ StackChanges(1)
         /\ Gain(RightSibling, NextPath.leftEdge, RightState, globalNodeColumn)
         /\ Live' = Live /\ States(node') = States(node)
         /\ Shape(node')[RightSibling] = Append(Shape(node)[RightSibling], NextPath.leftEdge)
         /\ \A n \in Live : n # RightSibling => Shape(node')[n] = Shape(node)[n]
<1>1. PICK x, left, v : x = RightSibling /\ left = NextPath.leftEdge /\ v = NextReduction
  OBVIOUS
<1>2. PICK ns : ns = IncRefCt(Yielded, left)
  OBVIOUS
<1>3. /\ TypeOK /\ CanReduce /\ pc = "reduce" /\ frames = << >> /\ requests = << >>
      /\ pathQueue' = Tail(pathQueue) /\ depthSweep = NoSweep
      /\ prevTopmost = << >> /\ decs = << >>
      /\ UNCHANGED <<topmostParsers, prevTopmost, decs, frames, depthSweep>>
      /\ UNCHANGED <<globalNodeColumn, reduction, lexer, treeTop>>
      /\ topmostParsers \in Seq(NodeId)
  BY DEF IInv, ReduceAddLink, CanReduce, Phases, TypeOK, lexVars, resultVars
<1>4. /\ x \in Elems(topmostParsers) /\ States(node)[x] = RightState /\ x \in Live
      /\ x \in NodeId
  BY <1>1, FindTopmost, StackIsSound DEF ReduceAddLink, RightSibling, IInv, Counted, IsStack
<1>5. /\ left \in Live /\ v \in SVal /\ States(node)[x] \in StateId
      /\ Leads(States(node)[left], States(node)[x]) /\ States(node)[left] \in StateId
  BY <1>1, <1>3, <1>4, NextGoto, Reduction, StackIsSound, StackTypes
<1>6. /\ IsSound(ns) /\ DOMAIN ns = Live
      /\ Shape(ns) = Shape(node) /\ States(ns) = States(node)
      /\ Depths(ns) = Depths(node) /\ ColumnsOf(ns) = ColumnsOf(node)
      /\ \A n \in Live : Counts(ns)[n] = Counts(node)[n] + OneIf(n = left)
  BY <1>2, <1>5, Referred
<1>7. Shape(node)[x] # << >> /\ \A k \in DOMAIN Shape(node)[x] : Shape(node)[x][k] # left
  <2>1. States(node)[x] # StartState
    BY <1>5, NeverToStart
  <2>2. \A k \in DOMAIN node[x].sibs : node[x].sibs[k].sib # left
    BY <1>1 DEF ReduceAddLink, SibLinks, LinksTo
  <2> QED
    BY <1>4, <2>1, <2>2, StackIsSound, ShapeAt DEF OnAutomaton
<1>8. Widened(node', ns, x, left)
  <2>1. node' = LinkAdded(ns, x, left, v)
    BY <1>1, <1>2 DEF ReduceAddLink, AddAdditionalLink, LinkAdded
  <2> QED
    BY <1>4, <1>5, <1>6, <1>7, <2>1, StackWidens
<1>9. /\ StackSound' /\ DOMAIN Shape(node') = Live' /\ Live' = Live
      /\ Live' \in SUBSET NodeId /\ IsFiniteSet(Live') /\ node' \in [Live' -> StackNode]
      /\ \A n : In(Shape(node'), n) \in Nat
      /\ States(node') = States(node) /\ ColumnsOf(node') = ColumnsOf(node)
      /\ \A n \in Live : Counts(node')[n] = Counts(node)[n] + OneIf(n = left)
  BY <1>6, <1>8, SoundNext DEF Widened, Live
<1>10. Counted'
  <2>1. ASSUME NEW n \in Live
        PROVE  Counts(node')[n] = In(Shape(node'), n) + Occ(n, topmostParsers)
                                    + Occ(n, prevTopmost) + Occ(n, decs)
    <3>1. Counts(node)[n] = In(Shape(node), n) + Occ(n, topmostParsers) + Occ(n, prevTopmost)
                              + Occ(n, decs)
      BY DEF IInv, Counted
    <3>2. In(Shape(node'), n) = In(Shape(node), n) + OneIf(n = left) /\ OneIf(n = left) \in Nat
      BY <1>6, <1>8 DEF Widened, OneIf
    <3> QED
      BY <1>9, <3>1, <3>2, StackIsSound
  <2> QED
    BY <1>3, <1>9, <2>1 DEF IInv, Counted
<1>11. \A n \in Live : n # x => Shape(node')[n] = Shape(node)[n]
  BY <1>6, <1>8 DEF Widened
<1>12. TopsUnlinked' /\ pc' \in {"reduce", "settle"}
  <2>1. LinkedWithin(Shape(node), topmostParsers)
    BY <1>3 DEF IInv, TopsUnlinked
  <2>2. LinkedWithin(Shape(node'), topmostParsers)
    BY <1>4, <1>9, <1>11, <2>1, StackIsSound DEF LinkedWithin
  <2>3. pc' \in {"reduce", "settle"}
    BY DEF ReduceAddLink
  <2> QED
    BY <1>3, <2>2, <2>3 DEF TopsUnlinked
<1>13. ASSUME NEW n \in Live, \A k \in DOMAIN Shape(node)[n] : Shape(node)[n][k] # x
       PROVE  Settled(Shape(node'), Depths(node'), n)
  <2>1. Settled(Shape(node), Depths(node), n)
    BY <1>3 DEF IInv, Settling
  <2> QED
    BY <1>6, <1>8, <1>13, <2>1 DEF Widened
<1>14. Settling'
  <2>1. CASE pc' = "settle"
    <3>1. ASSUME NEW n \in Live, n \notin Elems(topmostParsers)
          PROVE  Settled(Shape(node'), Depths(node'), n)
      <4>1. \A k \in DOMAIN Shape(node)[n] : Shape(node)[n][k] # x
        BY <1>3, <1>4, <3>1, StackIsSound DEF IInv, TopsUnlinked, LinkedWithin
      <4> QED
        BY <1>13, <4>1
    <3>2. \A i \in DOMAIN topmostParsers : ~ (i < depthSweep'.next)
      BY <1>3 DEF NoSweep
    <3> QED
      BY <1>3, <1>9, <2>1, <3>1, <3>2 DEF Settling
  <2>2. CASE pc' # "settle"
    <3>1. ~ (node'[x].referenceCount > 1)
      <4>1. node' = AddAdditionalLink(Yielded, x, left, v)
            /\ pc' = IF NeedsSettling(node', x) THEN "settle" ELSE "reduce"
        BY <1>1 DEF ReduceAddLink
      <4> QED
        BY <2>2, <4>1 DEF NeedsSettling
    <3>2. Counts(node')[x] = node'[x].referenceCount /\ Counts(node')[x] \in Nat
      <4>1. IsStack(node') /\ x \in DOMAIN node'
        BY <1>4, <1>6, <1>8 DEF Widened, IsSound
      <4> QED
        BY <4>1, ShapeAt, StackTypes
    <3>3. Occ(x, topmostParsers) # 0
      BY <1>3, <1>4, OccPositive
    <3>4. Counts(node')[x] = In(Shape(node'), x) + Occ(x, topmostParsers)
                               + Occ(x, prevTopmost) + Occ(x, decs)
      BY <1>3, <1>4, <1>9, <1>10 DEF Counted
    <3>5. In(Shape(node'), x) = 0
      BY <1>9, <3>1, <3>2, <3>3, <3>4, StackIsSound
    <3>6. In(Shape(node), x) = 0
      <4>1. In(Shape(node'), x) = In(Shape(node), x) + OneIf(x = left) /\ OneIf(x = left) \in Nat
        BY <1>6, <1>8 DEF Widened, OneIf
      <4> QED
        BY <3>5, <4>1, StackIsSound
    <3>7. \A n \in Live : \A k \in DOMAIN Shape(node)[n] : Shape(node)[n][k] # x
      BY <3>6, InPositive, StackIsSound
    <3> QED
      BY <1>9, <1>13, <2>2, <3>7 DEF Settling
  <2> QED
    BY <2>1, <2>2
<1>15. UniqueTops' /\ TopColumns'
  BY <1>3, <1>9, <1>12 DEF IInv, UniqueTops, TopColumns
<1>16. pathQueue' \in Seq(Path) /\ \A i \in DOMAIN pathQueue' : GoodPath(pathQueue'[i], node')
  <2>1. /\ LinksOf(Shape(node)) \subseteq LinksOf(Shape(node'))
        /\ \A link \in LinksOf(Shape(node)) :
             Shape(node')[link[1]][link[2]] = Shape(node)[link[1]][link[2]]
    BY <1>6, <1>8 DEF Widened
  <2>2. Kept(node', node)
    BY <1>9, <2>1 DEF Kept, Live
  <2> QED
    BY <1>3, <2>2, NextPathGood, PathKept
<1>17. /\ requests' \in Seq(Request)
       /\ \A i \in DOMAIN requests' : requests'[i].parser \in Live
  <2>1. PICK link : link = <<x, Len(node[x].sibs) + 1>>
    OBVIOUS
  <2>2. link \in LinkRef
    <3>1. node[x].sibs \in Seq(SiblingLink)
      BY <1>4, StackIsSound DEF IsStack, StackNode
    <3>2. Len(node[x].sibs) + 1 \in NodeId
      BY <3>1 DEF NodeId
    <3> QED
      BY <1>4, <2>1, <3>2 DEF LinkRef
  <2>3. requests' = [i \in DOMAIN topmostParsers |->
                       [parser |-> topmostParsers[i], mustUseLink |-> link]]
    BY <1>1, <2>1 DEF ReduceAddLink, EnqueueAll
  <2>4. DOMAIN topmostParsers = 1..Len(topmostParsers) /\ Len(topmostParsers) \in Nat
    BY <1>3
  <2>5. \A i \in DOMAIN topmostParsers : topmostParsers[i] \in NodeId /\ topmostParsers[i] \in Live
    BY <1>3 DEF IInv, Counted, Elems
  <2>6. \A i \in DOMAIN topmostParsers :
          requests'[i] \in Request /\ requests'[i].parser \in Live
    BY <2>2, <2>3, <2>5 DEF Request
  <2>7. DOMAIN requests' = 1..Len(topmostParsers)
        /\ requests' = [i \in 1..Len(topmostParsers) |-> requests'[i]]
    BY <2>3, <2>4
  <2> QED
    BY <2>4, <2>6, <2>7
<1>18. Enumerated'
  BY <1>3, <1>9, <1>16, <1>17 DEF Enumerated
<1>19. TypeOK'
  <2>1. owned' \in Int
    BY <1>3 DEF TypeOK, ReduceAddLink
  <2> QED
    BY <1>3, <1>9, <1>12, <1>16, <1>17, <2>1 DEF TypeOK, ReduceAddLink, lexVars, resultVars
<1>20. Phases'
  BY <1>3, <1>12 DEF IInv, Phases
<1>21. Popping' /\ Shifts' /\ AtEnd'
  BY <1>3, <1>12 DEF IInv, Popping, Shifts, AtEnd
<1>22. StackChanges(1) /\ Gain(x, left, States(node)[x], globalNodeColumn)
  <2>1. \A n \in Live : Counts(node)[n] > 0 => Counts(ns)[n] > 0
    <3>1. \A n \in Live : Counts(node)[n] \in Nat
      BY StackIsSound, StackTypes
    <3> QED
      BY <1>6, <3>1 DEF OneIf
  <2> QED
    BY <1>3, <1>4, <1>5, <1>6, <1>8, <2>1, WidenedChanges
<1>23. /\ Live' = Live /\ States(node') = States(node)
       /\ Shape(node')[x] = Append(Shape(node)[x], left)
       /\ \A n \in Live : n # x => Shape(node')[n] = Shape(node)[n]
  BY <1>6, <1>8, <1>9, <1>11 DEF Widened
<1>24. IInv'
  BY <1>9, <1>10, <1>12, <1>14, <1>15, <1>18, <1>19, <1>20, <1>21 DEF IInv
<1> QED
  BY <1>1, <1>4, <1>22, <1>23, <1>24

-----------------------------------------------------------------------------
(* The shifts.                                                             *)

(* Where the parser that is next shifts to, and the value of the link.     *)
LEMMA ShiftsTo ==
  ASSUME UserValues, IInv, Shifting, ShiftState # NoState
  PROVE  /\ ShiftState \in StateId /\ Leads(States(node)[LeftSibling], ShiftState)
         /\ ShiftValue \in SVal
         /\ lexer.type = 0 => <<FinalProduction, 2>> \in Items[ShiftState]
         /\ OwnedAfterShift \in Int
<1>1. TypeOK /\ lexer.type \in TermIndex /\ owned \in Int /\ pc = "shift"
  BY DEF IInv, TypeOK, Shifting
<1>2. PICK left, s, t : left = LeftSibling /\ s = node[left].state /\ t = ShiftState
  OBVIOUS
<1>3. left \in Live /\ s \in StateId /\ s = States(node)[left]
  BY <1>2, NextToShift, StackIsSound DEF IsStack, StackNode, States
<1>4. t = ActionTable[s][lexer.type].shift
  BY <1>2 DEF ShiftState, GetActionEntry
<1>5. t \in StateId
  <2>1. ActionTable[s][lexer.type] \in ActionEntry
    BY <1>1, <1>3, TablesAssumption
  <2> QED
    BY <1>2, <1>4, <2>1 DEF ActionEntry
<1>6. Leads(s, t)
  BY <1>1, <1>4 DEF Leads
<1>7. lexer.type = 0 => <<FinalProduction, 2>> \in Items[t]
  BY <1>2, <1>3, <1>4, EndState
<1>8. ShiftValue \in SVal
  <2>1. CASE lastShiftLink = NoLink
    BY <1>1, <2>1 DEF ShiftValue, UserValues
  <2>2. CASE lastShiftLink # NoLink
    <3>1. lastShiftLink \in LinksOf(Shape(node)) /\ DOMAIN Shape(node) = Live
      BY <1>1, <2>2, StackIsSound DEF IInv, Shifts
    <3>2. PICK n, k : n \in Live /\ k \in DOMAIN Shape(node)[n] /\ lastShiftLink = <<n, k>>
      BY <3>1, LinksAre
    <3>3. node[n].sibs[k].sval \in SVal
      BY <3>2, LinkBack
    <3> QED
      BY <2>2, <3>2, <3>3 DEF ShiftValue
  <2> QED
    BY <2>1, <2>2
<1>9. OwnedAfterShift \in Int
  BY <1>1 DEF OwnedAfterShift
<1> QED
  BY <1>2, <1>3, <1>5, <1>6, <1>7, <1>8, <1>9

LEMMA ShiftToNewKeeps ==
  ASSUME UserValues, IInv, ShiftToNew
  PROVE  /\ IInv' /\ StackChanges(1)
         /\ Gain(FreshNode, LeftSibling, ShiftState, globalNodeColumn)
<1>1. PICK x, left, t, v, c : /\ x = FreshNode /\ left = LeftSibling /\ t = ShiftState
                              /\ v = ShiftValue /\ c = globalNodeColumn
  OBVIOUS
<1>2. PICK popped : popped = PrevTopmostPopped
  OBVIOUS
<1>3. /\ TypeOK /\ Shifting /\ ShiftState # NoState /\ pc = "shift" /\ pc' = "shift"
      /\ decs = << >> /\ decs' = << >> /\ prevTopmost' = popped
      /\ topmostParsers' = Append(topmostParsers, x) /\ topmostParsers \in Seq(NodeId)
      /\ lastShiftLink' = <<x, 1>> /\ owned' = OwnedAfterShift
      /\ pathQueue = << >> /\ frames = << >> /\ requests = << >>
      /\ UNCHANGED <<pathQueue, frames, requests, depthSweep>>
      /\ UNCHANGED <<globalNodeColumn, reduction, lexer, treeTop>>
      /\ c \in Nat
  BY <1>1, <1>2 DEF IInv, ShiftToNew, Shifting, Phases, TypeOK, lexVars, workVars, resultVars
<1>4. /\ t \in StateId /\ Leads(States(node)[left], t) /\ v \in SVal /\ OwnedAfterShift \in Int
      /\ lexer.type = 0 => <<FinalProduction, 2>> \in Items[t]
  BY <1>1, <1>3, ShiftsTo
<1>5. /\ left \in Live /\ left \in Elems(prevTopmost) /\ popped \in Seq(NodeId)
      /\ Elems(popped) \subseteq Elems(prevTopmost)
      /\ \A n : Occ(n, prevTopmost) = Occ(n, popped) + OneIf(n = left)
      /\ DifferentStates(States(node), popped)
      /\ \A m \in Elems(popped) : States(node)[m] # States(node)[left]
  BY <1>1, <1>2, <1>3, NextToShift
<1>6. x \in NodeId /\ x \notin Live /\ Elems(topmostParsers) \subseteq Live
      /\ Elems(prevTopmost) \subseteq Live /\ DOMAIN Shape(node) = Live
  BY <1>1, StackIsSound, FreshNodeIsNew DEF IInv, Counted
<1>7. Grown(node', node, x, left, t, c)
  <2>1. node' = With(node, x, [state |-> t, sibs |-> <<NewLink(left, v)>>, referenceCount |-> 1,
                               determinDepth |-> node[left].determinDepth + 1, column |-> c])
    BY <1>1 DEF ShiftToNew, NodeOn
  <2> QED
    BY <1>3, <1>4, <1>5, <1>6, <2>1, StackIsSound, StackGrows
<1>8. /\ StackSound' /\ DOMAIN Shape(node') = Live' /\ Live' = Live \cup {x}
      /\ Live' \in SUBSET NodeId /\ IsFiniteSet(Live') /\ node' \in [Live' -> StackNode]
      /\ \A n : In(Shape(node'), n) \in Nat
  BY <1>7, SoundNext, StackIsSound DEF Grown, Live
<1>9. \A n \in Live :
        /\ Shape(node')[n] = Shape(node)[n] /\ States(node')[n] = States(node)[n]
        /\ ColumnsOf(node')[n] = ColumnsOf(node)[n] /\ Counts(node')[n] = Counts(node)[n]
        /\ Settled(Shape(node), Depths(node), n) => Settled(Shape(node'), Depths(node'), n)
  BY <1>7, StackIsSound DEF Grown
<1>10. \A n \in Elems(topmostParsers) : States(node)[n] # t
  BY <1>1, FindTopmost DEF ShiftToNew, ShiftTarget
<1>11. /\ topmostParsers' \in Seq(NodeId)
       /\ Elems(topmostParsers') = Elems(topmostParsers) \cup {x}
       /\ UniqueTops'
  <2>1. DifferentStates(States(node), topmostParsers)
    BY DEF IInv, UniqueTops
  <2>2. \A n \in Elems(topmostParsers) : States(node')[n] = States(node)[n]
                                         /\ States(node')[n] # States(node')[x]
    BY <1>6, <1>7, <1>9, <1>10 DEF Grown
  <2> QED
    BY <1>3, <1>6, <2>1, <2>2, OneMoreParser DEF UniqueTops
<1>12. Counted'
  <2>1. ASSUME NEW n \in Live'
        PROVE  Counts(node')[n] = In(Shape(node'), n) + Occ(n, topmostParsers') + Occ(n, popped)
                                    + Occ(n, << >>)
    <3>1. /\ Occ(n, << >>) = 0 /\ Occ(n, topmostParsers') = Occ(n, topmostParsers) + OneIf(n = x)
          /\ OneIf(n = x) \in Nat /\ OneIf(n = left) \in Nat
          /\ In(Shape(node'), n) = In(Shape(node), n) + OneIf(n = left)
          /\ Occ(n, popped) \in Nat
      BY <1>3, <1>5, <1>6, <1>7, OccEmpty, OccAppend, PlacesFinite DEF OneIf, Grown
    <3>2. CASE n = x
      <4>1. Counts(node')[x] = 1 /\ In(Shape(node'), x) = 0 /\ OneIf(n = x) = 1
        BY <1>7, <3>2 DEF Grown, OneIf
      <4>2. Occ(x, topmostParsers) = 0 /\ Occ(x, popped) = 0
        BY <1>3, <1>5, <1>6, OccPositive
      <4> QED
        BY <3>1, <3>2, <4>1, <4>2
    <3>3. CASE n # x
      <4>1. n \in Live /\ OneIf(n = x) = 0
        BY <1>8, <3>3 DEF OneIf
      <4>2. Counts(node)[n] = In(Shape(node), n) + Occ(n, topmostParsers) + Occ(n, prevTopmost)
                                + Occ(n, << >>)
        BY <1>3, <4>1 DEF IInv, Counted
      <4>3. In(Shape(node), n) \in Nat /\ Occ(n, topmostParsers) \in Nat
            /\ Occ(n, prevTopmost) = Occ(n, popped) + OneIf(n = left)
        BY <1>5, StackIsSound
      <4> QED
        BY <1>9, <3>1, <4>1, <4>2, <4>3
    <3> QED
      BY <3>2, <3>3
  <2> QED
    BY <1>3, <1>5, <1>6, <1>8, <1>11, <2>1, ElemsEmpty DEF Counted
<1>13. TopsUnlinked'
  <2>1. /\ NotLinked(Shape(node), topmostParsers)
        /\ Elems(topmostParsers) \cap Elems(prevTopmost) = {}
    BY <1>3 DEF IInv, TopsUnlinked
  <2>2. ASSUME NEW n \in Live', NEW k \in DOMAIN Shape(node')[n]
        PROVE  Shape(node')[n][k] \notin Elems(topmostParsers')
    <3>1. CASE n = x
      <4>1. Shape(node')[n][k] = left
        <5>1. Shape(node')[n] = <<left>>
          BY <1>7, <3>1 DEF Grown
        <5> QED
          BY <5>1
      <4> QED
        BY <1>5, <1>6, <1>11, <2>1, <4>1
    <3>2. CASE n # x
      <4>1. n \in Live /\ k \in DOMAIN Shape(node)[n] /\ Shape(node')[n][k] = Shape(node)[n][k]
        BY <1>8, <1>9, <3>2
      <4>2. Shape(node)[n][k] # x
        BY <1>6, <4>1, LinkBack
      <4> QED
        BY <1>6, <1>11, <2>1, <4>1, <4>2 DEF NotLinked
    <3> QED
      BY <3>1, <3>2
  <2>3. NotLinked(Shape(node'), topmostParsers')
    BY <1>8, <2>2 DEF NotLinked
  <2>4. Elems(topmostParsers') \cap Elems(prevTopmost') = {}
    BY <1>3, <1>5, <1>6, <1>11, <2>1
  <2> QED
    BY <1>3, <2>3, <2>4 DEF TopsUnlinked
<1>14. Settling'
  <2>1. \A n \in Live : Settled(Shape(node), Depths(node), n)
    BY <1>3 DEF IInv, Settling
  <2>2. \A n \in Live' : Settled(Shape(node'), Depths(node'), n)
    BY <1>7, <1>8, <1>9, <2>1 DEF Grown
  <2> QED
    BY <1>3, <2>2 DEF Settling
<1>15. TopColumns'
  <2>1. \A n \in Elems(topmostParsers) : ColumnsOf(node)[n] = c
    BY <1>1, <1>3 DEF IInv, TopColumns
  <2>2. ColumnsOf(node')[x] = c
    BY <1>7 DEF Grown
  <2> QED
    BY <1>1, <1>3, <1>6, <1>9, <1>11, <2>1, <2>2 DEF TopColumns
<1>16. Shape(node')[x] = <<left>> /\ States(node')[x] = t /\ DOMAIN <<left>> = {1}
       /\ <<left>>[1] = left /\ Len(<<left>>) = 1
  BY <1>7 DEF Grown
<1>17. Shifts'
  <2>1. DifferentStates(States(node'), popped)
    <3>1. \A i \in DOMAIN popped : popped[i] \in Live
      BY <1>5, <1>6 DEF Elems
    <3> QED
      BY <1>5, <1>9, <3>1 DEF DifferentStates
  <2>2. ASSUME NEW m \in Elems(popped), NEW n \in Elems(topmostParsers'),
               NEW k \in DOMAIN Shape(node')[n]
        PROVE  States(node')[m] # States(node')[Shape(node')[n][k]]
    <3>1. m \in Live /\ m \in Elems(prevTopmost) /\ States(node')[m] = States(node)[m]
      BY <1>5, <1>6, <1>9
    <3>2. CASE n = x
      <4>1. Shape(node')[n][k] = left
        BY <1>16, <3>2
      <4> QED
        BY <1>5, <1>9, <3>1, <4>1
    <3>3. CASE n # x
      <4>1. n \in Elems(topmostParsers) /\ n \in Live /\ k \in DOMAIN Shape(node)[n]
            /\ Shape(node')[n][k] = Shape(node)[n][k]
        BY <1>6, <1>9, <1>11, <3>3
      <4>2. Shape(node)[n][k] \in Live
        BY <4>1, LinkBack
      <4>3. States(node)[m] # States(node)[Shape(node)[n][k]]
        BY <1>3, <3>1, <4>1 DEF IInv, Shifts
      <4> QED
        BY <1>9, <3>1, <4>1, <4>2, <4>3
    <3> QED
      BY <3>2, <3>3
  <2>3. <<x, 1>> \in LinksOf(Shape(node')) /\ <<x, 1>>[1] \in Elems(topmostParsers')
    BY <1>8, <1>11, <1>16, LinksAre
  <2> QED
    BY <1>3, <2>1, <2>2, <2>3 DEF Shifts
<1>18. AtEnd'
  BY <1>3, <1>4, <1>6, <1>9, <1>11, <1>16 DEF IInv, AtEnd
<1>19. Popping' /\ Enumerated'
  BY <1>3 DEF Popping, Enumerated
<1>20. TypeOK'
  <2>1. lastShiftLink' \in LinkRef
    <3>1. 1 \in NodeId
      BY DEF NodeId
    <3> QED
      BY <1>3, <1>6, <3>1 DEF LinkRef
  <2> QED
    BY <1>3, <1>4, <1>5, <1>8, <1>11, <2>1 DEF TypeOK, ShiftToNew, lexVars, workVars, resultVars
<1>21. Phases'
  BY <1>3 DEF IInv, Phases
<1>22. StackChanges(1) /\ Gain(x, left, t, c)
  BY <1>5, <1>6, <1>7, StackIsSound, GrownChanges
<1> QED
  BY <1>1, <1>8, <1>11, <1>12, <1>13, <1>14, <1>15, <1>17, <1>18, <1>19, <1>20, <1>21, <1>22 DEF IInv

(* Two parsers that shift the last token to the same state would both be in*)
(* the one state of the item before it.                                    *)
LEMMA OneParserShiftsTheEnd ==
  ASSUME IInv, Shifting, NEW x \in Elems(topmostParsers), NEW t \in StateId,
         States(node)[x] = t, Leads(States(node)[LeftSibling], t),
         <<FinalProduction, 2>> \in Items[t]
  PROVE  FALSE
<1>1. PICK left : left = LeftSibling
  OBVIOUS
<1>2. /\ left \in Live /\ left \in Elems(prevTopmost) /\ x \in Live /\ pc = "shift"
      /\ States(node)[left] \in StateId
  BY <1>1, NextToShift, StackIsSound, StackTypes DEF IInv, Counted, Shifting
<1>3. 1 \in DOMAIN Shape(node)[x]
  BY <1>2, HasLink
<1>4. PICK m : m = Shape(node)[x][1]
  OBVIOUS
<1>5. m \in Live /\ States(node)[m] \in StateId /\ Leads(States(node)[m], t)
  BY <1>2, <1>3, <1>4, LinkBack
<1>6. /\ <<FinalProduction, 1>> \in Items[States(node)[m]]
      /\ <<FinalProduction, 1>> \in Items[States(node)[left]]
  <2>1. /\ <<FinalProduction, 2 - 1>> \in Items[States(node)[m]]
        /\ <<FinalProduction, 2 - 1>> \in Items[States(node)[left]]
    BY <1>1, <1>2, <1>5, ItemBefore
  <2> QED
    BY <2>1
<1>7. States(node)[m] = States(node)[left]
  <2>1. PICK d : d = 1
    OBVIOUS
  <2>2. d \in 0..2
    BY <2>1
  <2> QED
    BY <1>2, <1>5, <1>6, <2>1, <2>2, FinalItemsAssumption
<1>8. States(node)[left] # States(node)[m]
  BY <1>2, <1>3, <1>4 DEF IInv, Shifts
<1> QED
  BY <1>7, <1>8

LEMMA ShiftToExistingKeeps ==
  ASSUME UserValues, IInv, ShiftToExisting
  PROVE  /\ IInv' /\ StackChanges(1)
         /\ Gain(ShiftTarget, LeftSibling, ShiftState, globalNodeColumn)
<1>1. PICK x, left, t, v : /\ x = ShiftTarget /\ left = LeftSibling /\ t = ShiftState
                           /\ v = ShiftValue
  OBVIOUS
<1>2. PICK popped : popped = PrevTopmostPopped
  OBVIOUS
<1>3. /\ TypeOK /\ Shifting /\ ShiftState # NoState /\ pc = "shift" /\ pc' = "shift"
      /\ decs = << >> /\ decs' = << >> /\ prevTopmost' = popped
      /\ UNCHANGED topmostParsers /\ topmostParsers \in Seq(NodeId)
      /\ lastShiftLink' = <<x, Len(node[x].sibs) + 1>> /\ owned' = OwnedAfterShift
      /\ pathQueue = << >> /\ frames = << >> /\ requests = << >>
      /\ UNCHANGED <<pathQueue, frames, requests, depthSweep>>
      /\ UNCHANGED <<globalNodeColumn, reduction, lexer, treeTop>>
  BY <1>1, <1>2 DEF IInv, ShiftToExisting, Shifting, Phases, TypeOK, lexVars, workVars, resultVars
<1>4. /\ t \in StateId /\ Leads(States(node)[left], t) /\ v \in SVal /\ OwnedAfterShift \in Int
      /\ lexer.type = 0 => <<FinalProduction, 2>> \in Items[t]
  BY <1>1, <1>3, ShiftsTo
<1>5. /\ left \in Live /\ left \in Elems(prevTopmost) /\ popped \in Seq(NodeId)
      /\ Elems(popped) \subseteq Elems(prevTopmost)
      /\ \A n : Occ(n, prevTopmost) = Occ(n, popped) + OneIf(n = left)
      /\ DifferentStates(States(node), popped)
  BY <1>1, <1>2, <1>3, NextToShift
<1>6. /\ x \in Elems(topmostParsers) /\ x \in Live /\ x \in NodeId /\ States(node)[x] = t
      /\ Elems(topmostParsers) \subseteq Live
      /\ Elems(prevTopmost) \subseteq Live /\ DOMAIN Shape(node) = Live
  BY <1>1, FindTopmost, StackIsSound DEF ShiftToExisting, ShiftTarget, IInv, Counted, IsStack
<1>7. /\ NotLinked(Shape(node), topmostParsers)
      /\ Elems(topmostParsers) \cap Elems(prevTopmost) = {}
      /\ \A m \in Elems(prevTopmost) : \A n \in Elems(topmostParsers) :
           \A k \in DOMAIN Shape(node)[n] : States(node)[m] # States(node)[Shape(node)[n][k]]
  BY <1>3 DEF IInv, TopsUnlinked, Shifts
<1>8. Shape(node)[x] # << >> /\ \A k \in DOMAIN Shape(node)[x] : Shape(node)[x][k] # left
  <2>1. t # StartState
    BY <1>4, <1>5, NeverToStart, StackIsSound, StackTypes
  <2> QED
    BY <1>5, <1>6, <1>7, <2>1, StackIsSound DEF OnAutomaton
<1>9. Widened(node', node, x, left)
  <2>1. node' = LinkAdded(node, x, left, v)
    BY <1>1 DEF ShiftToExisting, LinkAdded
  <2> QED
    BY <1>4, <1>5, <1>6, <1>8, <2>1, StackIsSound, StackWidens
<1>10. /\ StackSound' /\ DOMAIN Shape(node') = Live' /\ Live' = Live
       /\ Live' \in SUBSET NodeId /\ IsFiniteSet(Live') /\ node' \in [Live' -> StackNode]
       /\ \A n : In(Shape(node'), n) \in Nat
       /\ States(node') = States(node) /\ ColumnsOf(node') = ColumnsOf(node)
       /\ Counts(node') = Counts(node)
  BY <1>9, SoundNext, StackIsSound DEF Widened, Live
<1>11. \A n \in Live : \A k \in DOMAIN Shape(node')[n] :
         \/ k \in DOMAIN Shape(node)[n] /\ Shape(node')[n][k] = Shape(node)[n][k]
         \/ n = x /\ Shape(node')[n][k] = left
  <2> SUFFICES ASSUME NEW n \in Live, NEW k \in DOMAIN Shape(node')[n]
               PROVE  \/ k \in DOMAIN Shape(node)[n] /\ Shape(node')[n][k] = Shape(node)[n][k]
                      \/ n = x /\ Shape(node')[n][k] = left
    OBVIOUS
  <2>1. CASE n # x
    BY <1>9, <2>1, StackIsSound DEF Widened
  <2>2. CASE n = x
    <3>1. PICK links : links = Shape(node)[x]
      OBVIOUS
    <3>2. links \in Seq(NodeId) /\ left \in NodeId
      BY <1>5, <1>6, <3>1, StackIsSound DEF IsShape
    <3>3. k \in DOMAIN Append(links, left) /\ Shape(node')[n] = Append(links, left)
      BY <1>9, <2>2, <3>1 DEF Widened
    <3>4. \/ k \in DOMAIN links /\ Append(links, left)[k] = links[k]
          \/ Append(links, left)[k] = left
      BY <3>2, <3>3
    <3> QED
      BY <2>2, <3>1, <3>3, <3>4
  <2> QED
    BY <2>1, <2>2
<1>12. Counted'
  <2>1. ASSUME NEW n \in Live
        PROVE  Counts(node)[n] = In(Shape(node'), n) + Occ(n, topmostParsers) + Occ(n, popped)
                                    + Occ(n, << >>)
    <3>1. /\ Occ(n, << >>) = 0 /\ OneIf(n = left) \in Nat /\ Occ(n, popped) \in Nat
          /\ In(Shape(node'), n) = In(Shape(node), n) + OneIf(n = left)
      BY <1>5, <1>9, OccEmpty, PlacesFinite DEF OneIf, Widened
    <3>2. Counts(node)[n] = In(Shape(node), n) + Occ(n, topmostParsers) + Occ(n, prevTopmost)
                              + Occ(n, << >>)
      BY <1>3 DEF IInv, Counted
    <3>3. In(Shape(node), n) \in Nat /\ Occ(n, topmostParsers) \in Nat
          /\ Occ(n, prevTopmost) = Occ(n, popped) + OneIf(n = left)
      BY <1>5, StackIsSound
    <3> QED
      BY <3>1, <3>2, <3>3
  <2> QED
    BY <1>3, <1>5, <1>6, <1>10, <2>1, ElemsEmpty DEF Counted
<1>13. TopsUnlinked'
  <2>1. NotLinked(Shape(node'), topmostParsers)
    BY <1>5, <1>6, <1>7, <1>10, <1>11 DEF NotLinked
  <2> QED
    BY <1>3, <1>5, <1>7, <2>1 DEF TopsUnlinked
<1>14. Settling'
  <2>1. \A n \in Live : Settled(Shape(node), Depths(node), n)
    BY <1>3 DEF IInv, Settling
  <2>2. \A n \in Live : \A k \in DOMAIN Shape(node)[n] : Shape(node)[n][k] # x
    BY <1>6, <1>7 DEF NotLinked
  <2>3. \A n \in Live : Settled(Shape(node'), Depths(node'), n)
    BY <1>9, <2>1, <2>2, StackIsSound DEF Widened
  <2> QED
    BY <1>3, <1>10, <2>3 DEF Settling
<1>15. UniqueTops' /\ TopColumns'
  BY <1>3, <1>10 DEF IInv, UniqueTops, TopColumns
<1>16. Shifts'
  <2>1. \A m \in Elems(popped) : \A n \in Elems(topmostParsers) :
          \A k \in DOMAIN Shape(node')[n] : States(node)[m] # States(node)[Shape(node')[n][k]]
    BY <1>2, <1>3, <1>5, <1>6, <1>7, <1>11, <1>1, NextToShift
  <2>2. <<x, Len(node[x].sibs) + 1>> \in LinksOf(Shape(node'))
    <3>1. Len(node[x].sibs) = Len(Shape(node)[x])
      BY <1>6, StackIsSound, ShapeAt
    <3> QED
      BY <1>9, <3>1 DEF Widened
  <2> QED
    BY <1>3, <1>5, <1>6, <1>10, <2>1, <2>2 DEF Shifts
<1>17. AtEnd'
  <2>1. lexer.type # 0
    BY <1>1, <1>3, <1>4, <1>6, OneParserShiftsTheEnd
  <2> QED
    BY <1>3, <2>1 DEF IInv, AtEnd
<1>18. Popping' /\ Enumerated'
  BY <1>3 DEF Popping, Enumerated
<1>19. TypeOK'
  <2>1. lastShiftLink' \in LinkRef
    <3>1. node[x].sibs \in Seq(SiblingLink)
      BY <1>6, StackIsSound DEF IsStack, StackNode
    <3>2. Len(node[x].sibs) + 1 \in NodeId
      BY <3>1 DEF NodeId
    <3> QED
      BY <1>3, <1>6, <3>2 DEF LinkRef
  <2> QED
    BY <1>3, <1>4, <1>5, <1>10, <2>1 DEF TypeOK, ShiftToExisting, lexVars, workVars, resultVars
<1>20. Phases'
  BY <1>3 DEF IInv, Phases
<1>21. StackChanges(1) /\ Gain(x, left, t, globalNodeColumn)
  BY <1>3, <1>5, <1>6, <1>9, StackIsSound, WidenedChanges
<1> QED
  BY <1>1, <1>10, <1>12, <1>13, <1>14, <1>15, <1>16, <1>17, <1>18, <1>19, <1>20, <1>21 DEF IInv

-----------------------------------------------------------------------------
(* References that are dropped.                                            *)
LEMMA DropReferenceKeeps ==
  ASSUME IInv, DropReference
  PROVE  IInv' /\ StackChanges(0) /\ NoGain
<1>1. PICK x, rest : x = Head(decs) /\ rest = Tail(decs)
  OBVIOUS
<1>2. /\ TypeOK /\ decs \in Seq(NodeId) /\ decs # << >> /\ decs' = rest
      /\ pc \in {"shift", "release"} /\ UNCHANGED <<pc, topmostParsers, prevTopmost>>
      /\ UNCHANGED <<pathQueue, frames, requests, depthSweep>>
      /\ pathQueue = << >> /\ frames = << >> /\ requests = << >>
      /\ UNCHANGED <<globalNodeColumn, reduction, lexer, treeTop, lastShiftLink>>
  BY <1>1 DEF IInv, DropReference, Phases, TypeOK, lexVars, workVars, resultVars
<1>3. /\ x \in Elems(decs) /\ x \in Live /\ rest \in Seq(NodeId)
      /\ Elems(rest) \subseteq Elems(decs)
      /\ \A n : Occ(n, decs) = OneIf(n = x) + Occ(n, rest)
  <2>1. 1 \in DOMAIN decs /\ x = decs[1] /\ rest \in Seq(NodeId)
        /\ \A i \in DOMAIN rest : i + 1 \in DOMAIN decs /\ rest[i] = decs[i + 1]
    BY <1>1, <1>2
  <2>2. x \in Elems(decs) /\ Elems(rest) \subseteq Elems(decs)
    BY <2>1 DEF Elems
  <2> QED
    BY <1>1, <1>2, <2>1, <2>2, OccTail DEF IInv, Counted
<1>4. IsStack(node) /\ DOMAIN node = Live /\ Counts(node) \in [Live -> Nat]
  BY StackIsSound, StackTypes
<1>5. /\ IsStack(node') /\ DOMAIN node' = Live
      /\ Shape(node') = Shape(node) /\ States(node') = States(node)
      /\ Counts(node') = With(Counts(node), x, Counts(node)[x] - 1)
      /\ Depths(node') = Depths(node) /\ ColumnsOf(node') = ColumnsOf(node)
  <2>1. node[x].referenceCount > 1 /\ node' = CountDropped(node, x)
    BY <1>1 DEF DropReference, CountDropped
  <2> QED
    BY <1>3, <1>4, <2>1, ViewsCountDropped
<1>6. Live' = Live /\ node' \in [Live -> StackNode]
  BY <1>5 DEF Live, IsStack
<1>7. \A n \in Live : Counts(node')[n] = Counts(node)[n] - OneIf(n = x)
  <2>1. \A n \in Live : Counts(node')[n] = IF n = x THEN Counts(node)[x] - 1 ELSE Counts(node)[n]
    BY <1>3, <1>4, <1>5 DEF With
  <2> QED
    BY <1>4, <2>1 DEF OneIf
<1>8. Counted'
  <2>1. ASSUME NEW n \in Live
        PROVE  Counts(node')[n] = In(Shape(node), n) + Occ(n, topmostParsers)
                                    + Occ(n, prevTopmost) + Occ(n, rest)
    <3>1. Counts(node)[n] = In(Shape(node), n) + Occ(n, topmostParsers) + Occ(n, prevTopmost)
                              + Occ(n, decs)
      BY DEF IInv, Counted
    <3>2. Occ(n, rest) \in Nat /\ OneIf(n = x) \in Nat
      BY <1>3, PlacesFinite DEF OneIf
    <3> QED
      BY <1>3, <1>7, <3>1, <3>2, StackIsSound
  <2> QED
    BY <1>2, <1>3, <1>5, <1>6, <2>1 DEF IInv, Counted
<1>9. TypeOK'
  BY <1>2, <1>3, <1>6 DEF TypeOK, DropReference, lexVars, workVars, resultVars
<1>10. Phases'
  BY <1>2 DEF IInv, Phases
<1>11. StackSound' /\ UniqueTops' /\ TopsUnlinked' /\ Settling' /\ TopColumns'
  BY <1>2, <1>5, <1>6 DEF IInv, StackSound, UniqueTops, TopsUnlinked, Settling, TopColumns
<1>12. Popping' /\ Enumerated'
  BY <1>2 DEF Popping, Enumerated
<1>13. Shifts' /\ AtEnd'
  BY <1>2, <1>5 DEF IInv, Shifts, AtEnd
<1>14. StackChanges(0) /\ NoGain
  <2>1. Counts(node)[x] > 1
    BY <1>1, <1>3, <1>4, ShapeAt DEF DropReference
  <2>2. \A n \in Live : Counts(node)[n] > 0 => Counts(node')[n] > 0
    BY <1>4, <1>7, <2>1 DEF OneIf
  <2> QED
    BY <1>5, <2>2, SameChanges
<1> QED
  BY <1>8, <1>9, <1>10, <1>11, <1>12, <1>13, <1>14 DEF IInv

LEMMA FreeNodeKeeps ==
  ASSUME IInv, FreeNode
  PROVE  IInv' /\ StackChanges(-Len(node[Head(decs)].sibs)) /\ NoGain
<1>1. PICK x, rest, w : x = Head(decs) /\ rest = Tail(decs) /\ w = Shape(node)
  OBVIOUS
<1>2. /\ TypeOK /\ decs \in Seq(NodeId) /\ decs # << >>
      /\ pc \in {"shift", "release"} /\ UNCHANGED <<pc, topmostParsers, prevTopmost>>
      /\ topmostParsers \in Seq(NodeId) /\ prevTopmost \in Seq(NodeId)
      /\ UNCHANGED <<pathQueue, frames, requests, depthSweep>>
      /\ pathQueue = << >> /\ frames = << >> /\ requests = << >>
      /\ UNCHANGED <<globalNodeColumn, reduction, lexer, treeTop, lastShiftLink>>
      /\ node' = Without(node, x)
  BY <1>1 DEF IInv, FreeNode, Phases, TypeOK, lexVars, workVars, resultVars
<1>3. /\ x \in Live /\ rest \in Seq(NodeId) /\ Elems(rest) \subseteq Elems(decs)
      /\ \A n : Occ(n, decs) = OneIf(n = x) + Occ(n, rest)
  <2>1. 1 \in DOMAIN decs /\ x = decs[1] /\ rest \in Seq(NodeId)
        /\ \A i \in DOMAIN rest : i + 1 \in DOMAIN decs /\ rest[i] = decs[i + 1]
    BY <1>1, <1>2
  <2>2. x \in Elems(decs) /\ Elems(rest) \subseteq Elems(decs)
    BY <2>1 DEF Elems
  <2> QED
    BY <1>1, <1>2, <2>1, <2>2, OccTail DEF IInv, Counted
<1>4. /\ IsSound(node) /\ IsStack(node) /\ DOMAIN node = Live /\ DOMAIN w = Live
      /\ w[x] \in Seq(NodeId) /\ Linked(w)
  BY <1>1, <1>3, StackIsSound DEF IsShape
<1>5. /\ In(w, x) = 0 /\ Occ(x, topmostParsers) = 0 /\ Occ(x, prevTopmost) = 0
      /\ Occ(x, rest) = 0
  <2>1. Counts(node)[x] = 1
    BY <1>1, <1>3, <1>4, ShapeAt DEF FreeNode
  <2>2. Counts(node)[x] = In(w, x) + Occ(x, topmostParsers) + Occ(x, prevTopmost)
                            + Occ(x, decs)
    BY <1>1, <1>3 DEF IInv, Counted
  <2>3. Occ(x, decs) = 1 + Occ(x, rest) /\ Occ(x, rest) \in Nat
    BY <1>3, PlacesFinite DEF OneIf
  <2>4. In(w, x) \in Nat /\ Occ(x, topmostParsers) \in Nat /\ Occ(x, prevTopmost) \in Nat
    BY <1>1, StackIsSound
  <2> QED
    BY <2>1, <2>2, <2>3, <2>4
<1>6. Shrunk(node', node, x)
  BY <1>1, <1>2, <1>3, <1>4, <1>5, StackShrinks
<1>7. /\ StackSound' /\ DOMAIN Shape(node') = Live' /\ Live' = Live \ {x}
      /\ Live' \in SUBSET NodeId /\ IsFiniteSet(Live') /\ node' \in [Live' -> StackNode]
      /\ \A n : In(Shape(node'), n) \in Nat
  BY <1>4, <1>6, SoundNext DEF Shrunk, Live
<1>8. /\ \A n \in Live' :
           /\ Shape(node')[n] = w[n] /\ States(node')[n] = States(node)[n]
           /\ ColumnsOf(node')[n] = ColumnsOf(node)[n] /\ Counts(node')[n] = Counts(node)[n]
           /\ Settled(w, Depths(node), n) => Settled(Shape(node'), Depths(node'), n)
      /\ \A n : In(w, n) = In(Shape(node'), n) + Occ(n, w[x])
      /\ \A n \in Live : \A k \in DOMAIN w[n] : w[n][k] # x /\ w[n][k] \in Live'
  BY <1>1, <1>4, <1>6, <1>7 DEF Shrunk, Live, Linked
<1>9. /\ Elems(topmostParsers) \subseteq Live' /\ Elems(prevTopmost) \subseteq Live'
      /\ Elems(rest) \subseteq Live'
  <2>1. x \notin Elems(topmostParsers) /\ x \notin Elems(prevTopmost) /\ x \notin Elems(rest)
    BY <1>2, <1>3, <1>5, OccPositive
  <2> QED
    BY <1>3, <1>7, <2>1 DEF IInv, Counted
<1>10. PICK r : r = [k \in 1..Len(w[x]) |-> w[x][Len(w[x]) + 1 - k]]
  OBVIOUS
<1>11. decs' = r \o rest
  <2>1. PICK len : len = Len(w[x])
    OBVIOUS
  <2>2. /\ len \in Nat /\ len = Len(node[x].sibs) /\ DOMAIN node[x].sibs = 1..len
        /\ \A k \in 1..len : w[x][k] = node[x].sibs[k].sib
    BY <1>1, <1>3, <1>4, <2>1, ShapeAt
  <2>3. \A k \in 1..len : len + 1 - k \in 1..len
    BY <2>2
  <2>4. r = [k \in 1..len |-> node[x].sibs[len + 1 - k].sib]
    BY <1>10, <2>1, <2>2, <2>3
  <2>5. decs' = [k \in 1..Len(node[x].sibs) |->
                   node[x].sibs[Len(node[x].sibs) + 1 - k].sib] \o rest
    BY <1>1 DEF FreeNode
  <2> QED
    BY <2>2, <2>4, <2>5
<1>12. r \in Seq(Live') /\ r \in Seq(NodeId)
  <2>1. PICK len \in Nat : len = Len(w[x])
    BY <1>4
  <2>2. DOMAIN w[x] = 1..len /\ \A k \in 1..len : len + 1 - k \in 1..len
    BY <1>4, <2>1
  <2>3. \A k \in 1..len : w[x][len + 1 - k] \in Live'
    BY <1>3, <1>8, <2>2
  <2>4. r = [k \in 1..len |-> w[x][len + 1 - k]]
    BY <1>10, <2>1
  <2>5. r \in Seq(Live')
    BY <2>3, <2>4
  <2> QED
    BY <1>7, <2>3, <2>4, <2>5
<1>13. decs' \in Seq(NodeId) /\ Elems(decs') \subseteq Live'
  <2>1. \A i \in DOMAIN rest : rest[i] \in Live'
    BY <1>9 DEF Elems
  <2>2. rest \in Seq(Live')
    BY <1>3, <2>1, SeqWithin
  <2>3. decs' \in Seq(Live') /\ decs' \in Seq(NodeId)
    BY <1>3, <1>11, <1>12, <2>2
  <2>4. \A i \in DOMAIN decs' : decs'[i] \in Live'
    BY <2>3
  <2> QED
    BY <2>3, <2>4 DEF Elems
<1>14. \A n : Occ(n, decs') = Occ(n, w[x]) + Occ(n, rest)
  <2> TAKE n
  <2>1. Occ(n, r \o rest) = Occ(n, r) + Occ(n, rest)
    BY <1>3, <1>12, OccConcat
  <2>2. Occ(n, [k \in 1..Len(w[x]) |-> w[x][Len(w[x]) + 1 - k]]) = Occ(n, w[x])
    BY <1>4, OccReversed
  <2> QED
    BY <1>10, <1>11, <2>1, <2>2
<1>15. Counted'
  <2>1. ASSUME NEW n \in Live'
        PROVE  Counts(node')[n] = In(Shape(node'), n) + Occ(n, topmostParsers)
                                    + Occ(n, prevTopmost) + Occ(n, decs')
    <3>1. Counts(node)[n] = In(w, n) + Occ(n, topmostParsers) + Occ(n, prevTopmost)
                              + Occ(n, decs)
      BY <1>1, <1>7 DEF IInv, Counted
    <3>2. Occ(n, decs) = Occ(n, rest)
      <4>1. OneIf(n = x) = 0 /\ Occ(n, rest) \in Nat
        BY <1>3, <1>7, PlacesFinite DEF OneIf
      <4> QED
        BY <1>3, <4>1
    <3>3. Occ(n, rest) \in Nat /\ Occ(n, w[x]) \in Nat
      BY <1>3, <1>4, PlacesFinite
    <3> QED
      BY <1>7, <1>8, <1>14, <3>1, <3>2, <3>3, StackIsSound
  <2> QED
    BY <1>2, <1>9, <1>13, <2>1 DEF Counted
<1>16. TypeOK'
  <2>1. owned' \in Int
    <3>1. node[x].sibs \in Seq(SiblingLink)
      BY <1>3, <1>4 DEF IsStack, StackNode
    <3>2. Len(node[x].sibs) \in Nat /\ owned' = owned - Len(node[x].sibs) /\ owned \in Int
      BY <1>1, <1>2, <3>1 DEF FreeNode, TypeOK
    <3> QED
      BY <3>2
  <2> QED
    BY <1>2, <1>7, <1>13, <2>1 DEF TypeOK, FreeNode, lexVars, workVars, resultVars
<1>17. Phases'
  BY <1>2 DEF IInv, Phases
<1>18. UniqueTops'
  <2>1. \A i \in DOMAIN topmostParsers : topmostParsers[i] \in Live'
    BY <1>9 DEF Elems
  <2> QED
    BY <1>2, <1>8, <2>1 DEF IInv, UniqueTops, DifferentStates
<1>19. TopsUnlinked'
  <2>1. CASE pc = "shift"
    BY <1>1, <1>2, <1>4, <1>7, <1>8, <2>1 DEF IInv, TopsUnlinked, NotLinked
  <2>2. CASE pc = "release"
    BY <1>2, <2>2 DEF TopsUnlinked
  <2> QED
    BY <1>2, <2>1, <2>2
<1>20. Settling'
  BY <1>1, <1>2, <1>7, <1>8 DEF IInv, Settling
<1>21. TopColumns'
  BY <1>2, <1>8, <1>9 DEF IInv, TopColumns
<1>22. Shifts'
  <2>1. CASE pc = "shift"
    <3>1. DifferentStates(States(node'), prevTopmost)
      <4>1. \A i \in DOMAIN prevTopmost : prevTopmost[i] \in Live'
        BY <1>9 DEF Elems
      <4> QED
        BY <1>8, <2>1, <4>1 DEF IInv, Shifts, DifferentStates
    <3>2. ASSUME NEW m \in Elems(prevTopmost), NEW n \in Elems(topmostParsers),
                 NEW k \in DOMAIN Shape(node')[n]
          PROVE  States(node')[m] # States(node')[Shape(node')[n][k]]
      <4>1. m \in Live' /\ n \in Live' /\ Shape(node')[n] = w[n] /\ k \in DOMAIN w[n] /\ n \in Live
        BY <1>7, <1>8, <1>9
      <4>2. w[n][k] \in Live'
        BY <1>8, <4>1
      <4>3. States(node)[m] # States(node)[w[n][k]]
        BY <1>1, <2>1, <4>1 DEF IInv, Shifts
      <4> QED
        BY <1>8, <4>1, <4>2, <4>3
    <3>3. ASSUME lastShiftLink # NoLink
          PROVE  lastShiftLink \in LinksOf(Shape(node')) /\ lastShiftLink[1] \in Elems(topmostParsers)
      <4>1. lastShiftLink \in LinksOf(w) /\ lastShiftLink[1] \in Elems(topmostParsers)
        BY <1>1, <2>1, <3>3 DEF IInv, Shifts
      <4>2. PICK n, k : n \in Live /\ k \in DOMAIN w[n] /\ lastShiftLink = <<n, k>>
        BY <1>4, <4>1, LinksAre
      <4>3. n \in Live' /\ k \in DOMAIN Shape(node')[n]
        BY <1>8, <1>9, <4>1, <4>2
      <4> QED
        BY <1>7, <4>1, <4>2, <4>3, LinksAre
    <3> QED
      BY <1>2, <3>1, <3>2, <3>3 DEF Shifts
  <2>2. CASE pc = "release"
    BY <1>2, <2>2 DEF Shifts
  <2> QED
    BY <1>2, <2>1, <2>2
<1>23. AtEnd'
  BY <1>1, <1>2, <1>8, <1>9 DEF IInv, AtEnd
<1>24. Popping' /\ Enumerated'
  BY <1>2 DEF Popping, Enumerated
<1>25. StackChanges(-Len(node[Head(decs)].sibs)) /\ NoGain
  <2>1. Len(node[x].sibs) = Len(Shape(node)[x])
    BY <1>3, StackIsSound, ShapeAt
  <2> QED
    BY <1>1, <1>3, <1>6, <2>1, ShrunkChanges
<1> QED
  BY <1>7, <1>15, <1>16, <1>17, <1>18, <1>19, <1>20, <1>21, <1>22, <1>23, <1>24, <1>25 DEF IInv

-----------------------------------------------------------------------------
LEMMA ReturnKeeps ==
  ASSUME IInv, Return
  PROVE  IInv'
<1>1. /\ TypeOK /\ pc' = "idle" /\ node' = << >> /\ topmostParsers' = << >>
      /\ prevTopmost' = << >> /\ globalNodeColumn' = 0 /\ treeTop' = << >>
      /\ reduction' = NoReduction /\ pathQueue' = << >> /\ frames' = << >>
      /\ requests' = << >> /\ depthSweep' = NoSweep /\ decs' = << >>
      /\ lexer' = [type |-> 0, internalType |-> 0] /\ text' = << >> /\ position' = 1
      /\ savedTokens' = << >> /\ owned' = 0 /\ lastShiftLink' = NoLink
      /\ yieldThenMergeCt' = yieldThenMergeCt
  BY DEF IInv, Return, Phases, workVars
<1>2. /\ Live' = {} /\ DOMAIN Shape(node') = {} /\ DOMAIN States(node') = {}
      /\ IsFiniteSet(Live') /\ Live' \in SUBSET NodeId /\ node' \in [Live' -> StackNode]
  BY <1>1, FS_EmptySet DEF Live, Shape, States
<1>3. TypeOK'
  <2>1. lexer' \in [type : TermIndex, internalType : TermIndex]
    BY <1>1, TablesAssumption
  <2>2. reduction' \in [prod : ProdIndex, toPass : Seq(SVal)]
    BY <1>1, TablesAssumption DEF NoReduction
  <2>3. depthSweep' \in [next : NodeId, changes : BOOLEAN]
    BY <1>1 DEF NoSweep, NodeId
  <2> QED
    BY <1>1, <1>2, <2>1, <2>2, <2>3 DEF TypeOK
<1>4. Phases'
  BY <1>1 DEF Phases
<1>5. StackSound'
  <2>1. IsShape(Shape(node')) /\ States(node') \in [{} -> StateId]
    <3>1. IsStack(node')
      BY <1>2 DEF IsStack, Live
    <3> QED
      BY <1>2, <3>1, StackTypes DEF Live
  <2> QED
    BY <1>2, <2>1 DEF StackSound, Linked, OnAutomaton
<1>6. Counted' /\ UniqueTops' /\ TopsUnlinked' /\ TopColumns'
  BY <1>1, <1>2, ElemsEmpty DEF Counted, UniqueTops, DifferentStates, TopsUnlinked, TopColumns
<1>7. Settling' /\ Popping' /\ Enumerated' /\ Shifts' /\ AtEnd'
  BY <1>1, <1>2 DEF Settling, Popping, Enumerated, Shifts, AtEnd
<1> QED
  BY <1>3, <1>4, <1>5, <1>6, <1>7 DEF IInv

-----------------------------------------------------------------------------
LEMMA ParseKeeps ==
  ASSUME UserValues, PopSafe, IInv, Parse
  PROVE  IInv'
<1>1. CASE MiniLR
  BY <1>1, MiniLRErrorKeeps, MiniLRReduceKeeps, MiniLRPopKeeps, MiniLRPopAssertFailsKeeps,
     MiniLRPushKeeps, MiniLRShiftKeeps, FallBackKeeps DEF MiniLR
<1>2. CASE Enumerate
  BY <1>2, EnqueueReductionsKeeps, ExtendPathKeeps, FinishPathKeeps DEF Enumerate
<1>3. CASE Reduce
  BY <1>3, ReduceCancelledKeeps, ReduceMergeKeeps, ReduceAddLinkKeeps,
     ReduceNewParserKeeps, SettleParserKeeps, SettleSweepDoneKeeps DEF Reduce
<1>4. CASE Shift
  BY <1>4, StartShiftsKeeps, ShiftDiesKeeps, ShiftToNewKeeps, ShiftToExistingKeeps,
     ShiftsDoneKeeps DEF Shift
<1>5. CASE Release
  BY <1>5, DropReferenceKeeps, FreeNodeKeeps DEF Release
<1>6. CASE TakeToken \/ NextToken \/ CleanupAfterParse \/ Accept
  BY <1>6, TakeTokenKeeps, NextTokenKeeps, CleanupAfterParseKeeps, AcceptKeeps
<1> QED
  BY <1>1, <1>2, <1>3, <1>4, <1>5, <1>6 DEF Parse

LEMMA StepKeeps ==
  ASSUME UserValues, PopSafe, IInv, [Next]_vars
  PROVE  IInv'
<1>1. CASE GlrParse
  BY <1>1, GlrParseKeeps
<1>2. CASE Parse
  BY <1>2, ParseKeeps
<1>3. CASE Return
  BY <1>3, ReturnKeeps
<1>4. CASE Aborted \/ UNCHANGED vars
  BY <1>4, StutterKeeps DEF Aborted
<1> QED
  BY <1>1, <1>2, <1>3, <1>4 DEF Next

-----------------------------------------------------------------------------
(* The end of a parse.  A stack whose links led round in a circle would    *)
(* keep itself alive.  They do not: a link leads to an earlier column, or  *)
(* within a column to where something empty began, and without hidden left *)
(* recursion only so many of those can follow each other.                  *)
Below(empty, ns, m, n) ==
  \/ ColumnsOf(ns)[m] < ColumnsOf(ns)[n]
  \/ /\ ColumnsOf(ns)[m] = ColumnsOf(ns)[n]
     /\ \E a \in empty : GotoTable[States(ns)[m]][a] = States(ns)[n]

Downhill(empty) ==
  /\ \A n \in Live : Counts(node)[n] > 0 /\ ColumnsOf(node)[n] <= globalNodeColumn
  /\ \A n \in Live : \A k \in DOMAIN Shape(node)[n] :
       Below(empty, node, Shape(node)[n][k], n)

(* A reduction that has come back to a node of the current column has      *)
(* nothing left but what is empty.                                         *)
FrameIn(rest, ns, f, column) ==
  ColumnsOf(ns)[f.currentNode] = column => <<f.prod, f.popsRemaining>> \in rest
PathFrom(rest, p, column) == p.startColumn = column => <<p.prod, 0>> \in rest

Working(rest) ==
  /\ pc = "shift" => \A n \in Elems(prevTopmost) : ColumnsOf(node)[n] < globalNodeColumn
  /\ pc = "pop" => /\ ColumnsOf(node)[TopParser] = globalNodeColumn =>
                        <<reduction.prod, LeftToPop>> \in rest
  /\ \A i \in DOMAIN frames : FrameIn(rest, node, frames[i], globalNodeColumn)
  /\ \A i \in DOMAIN pathQueue : PathFrom(rest, pathQueue[i], globalNodeColumn)

LEMMA ColumnTypes ==
  ASSUME IInv
  PROVE  globalNodeColumn \in Nat /\ \A n \in Live : ColumnsOf(node)[n] \in Nat
BY StackIsSound, StackTypes DEF IInv, TypeOK, IsStack, StackNode, ColumnsOf

LEMMA NoGainDownhill ==
  ASSUME IInv, IInv', NEW empty, Downhill(empty), NEW gain, StackChanges(gain), NoGain,
         globalNodeColumn' = globalNodeColumn
  PROVE  Downhill(empty)'
<1>1. ASSUME NEW n \in Live'
      PROVE  /\ Counts(node')[n] > 0 /\ ColumnsOf(node')[n] <= globalNodeColumn'
             /\ \A k \in DOMAIN Shape(node')[n] : Below(empty, node', Shape(node')[n][k], n)
  <2>1. /\ n \in Live /\ States(node')[n] = States(node)[n]
        /\ ColumnsOf(node')[n] = ColumnsOf(node)[n] /\ Shape(node')[n] = Shape(node)[n]
    BY DEF NoGain, StackChanges
  <2>2. Counts(node')[n] > 0 /\ ColumnsOf(node')[n] <= globalNodeColumn'
    BY <2>1 DEF Downhill, StackChanges
  <2>3. ASSUME NEW k \in DOMAIN Shape(node')[n]
        PROVE  Below(empty, node', Shape(node')[n][k], n)
    <3>1. PICK m : m = Shape(node')[n][k]
      OBVIOUS
    <3>2. Shape(node')[n][k] \in Live'
      BY <1>1, <2>3, SoundNext DEF IInv, StackSound, Linked, Live, Shape
    <3>3. m \in Live /\ States(node')[m] = States(node)[m]
          /\ ColumnsOf(node')[m] = ColumnsOf(node)[m]
      BY <3>1, <3>2 DEF NoGain, StackChanges
    <3>4. Below(empty, node, m, n)
      BY <2>1, <2>3, <3>1 DEF Downhill
    <3> QED
      BY <2>1, <3>1, <3>3, <3>4 DEF Below
  <2> QED
    BY <2>2, <2>3
<1> QED
  BY <1>1 DEF Downhill

LEMMA GainDownhill ==
  ASSUME IInv, IInv', NEW empty, Downhill(empty), NEW gain, StackChanges(gain),
         NEW x, NEW left, NEW state, NEW column, Gain(x, left, state, column),
         column <= globalNodeColumn', globalNodeColumn <= globalNodeColumn',
         \/ ColumnsOf(node)[left] < column
         \/ /\ ColumnsOf(node)[left] = column
            /\ \E a \in empty : GotoTable[States(node)[left]][a] = state
  PROVE  Downhill(empty)'
<1>1. ASSUME NEW n \in Live \cap Live'
      PROVE  /\ States(node')[n] = States(node)[n] /\ ColumnsOf(node')[n] = ColumnsOf(node)[n]
  BY DEF StackChanges
<1>2. ASSUME NEW n \in Live'
      PROVE  /\ Counts(node')[n] > 0 /\ ColumnsOf(node')[n] <= globalNodeColumn'
             /\ \A k \in DOMAIN Shape(node')[n] : Below(empty, node', Shape(node')[n][k], n)
  <2>1. Counts(node')[n] > 0
    BY DEF Downhill, StackChanges
  <2>2. ColumnsOf(node')[n] <= globalNodeColumn'
    <3>1. CASE n = x
      BY <3>1 DEF Gain
    <3>2. CASE n # x
      <4>1. n \in Live /\ ColumnsOf(node')[n] = ColumnsOf(node)[n]
        BY <1>1, <3>2 DEF Gain
      <4>2. ColumnsOf(node)[n] <= globalNodeColumn
        BY <4>1 DEF Downhill
      <4>3. globalNodeColumn' \in Nat
        BY DEF IInv, TypeOK
      <4> QED
        BY <4>1, <4>2, <4>3, ColumnTypes
    <3> QED
      BY <3>1, <3>2
  <2>3. ASSUME NEW k \in DOMAIN Shape(node')[n]
        PROVE  Below(empty, node', Shape(node')[n][k], n)
    <3>1. CASE /\ n \in Live /\ k \in DOMAIN Shape(node)[n]
               /\ Shape(node')[n][k] = Shape(node)[n][k]
      <4>1. PICK m : m = Shape(node)[n][k]
        OBVIOUS
      <4>2. m \in Live
        BY <3>1, <4>1, LinkBack
      <4>3. m \in Live \cap Live' /\ n \in Live \cap Live'
        BY <3>1, <4>2 DEF Gain
      <4>4. Below(empty, node, m, n)
        BY <3>1, <4>1 DEF Downhill
      <4>5. Below(empty, node', m, n)
        BY <1>1, <4>3, <4>4 DEF Below
      <4> QED
        BY <3>1, <4>1, <4>5
    <3>2. CASE n = x /\ Shape(node')[n][k] = left
      <4>1. left \in Live \cap Live' /\ States(node')[x] = state /\ ColumnsOf(node')[x] = column
        BY DEF Gain
      <4>2. Below(empty, node', left, x)
        BY <1>1, <4>1 DEF Below
      <4> QED
        BY <3>2, <4>2
    <3> QED
      BY <2>3, <3>1, <3>2 DEF Gain
  <2> QED
    BY <2>1, <2>2, <2>3
<1> QED
  BY <1>2 DEF Downhill

LEMMA CountsFinite ==
  ASSUME IInv
  PROVE  /\ Cardinality(LinksOf(Shape(node))) \in Nat /\ Len(reduction.toPass) \in Nat
         /\ Len(treeTop) \in Nat /\ reduction.toPass \in Seq(SVal) /\ owned \in Int
BY StackIsSound, LinksFinite, FS_CardinalityType DEF IInv, TypeOK

LEMMA OneMoreToPass ==
  ASSUME IInv, MiniLRPop
  PROVE  Len(reduction'.toPass) = Len(reduction.toPass) + 1
<1>1. PICK v, s : v = PoppedLink.sval /\ s = reduction.toPass
  OBVIOUS
<1>2. reduction'.toPass = <<v>> \o s
  BY <1>1 DEF MiniLRPop, IInv, TypeOK
<1>3. PICK T : s \in Seq(T) /\ v \in T
  <2>1. s \in Seq(SVal \cup {v}) /\ v \in SVal \cup {v}
    <3>1. s \in Seq(SVal) /\ \A i \in DOMAIN s : s[i] \in SVal \cup {v}
      BY <1>1, CountsFinite
    <3> QED
      BY <3>1, SeqWithin
  <2> QED
    BY <2>1
<1>4. Len(<<v>> \o s) = Len(s) + 1
  BY <1>3
<1> QED
  BY <1>1, <1>2, <1>4

(* A link back within the current column.                                  *)
LEMMA EmptyBack ==
  ASSUME IInv, NEW empty, NEW rest, NEW height, NoEmptyLoop(empty, rest, height),
         Downhill(empty), NEW n \in Live, NEW k \in DOMAIN Shape(node)[n],
         NEW p, NEW d \in Nat, d > 0, <<p, d>> \in Items[States(node)[n]],
         ColumnsOf(node)[n] = globalNodeColumn => <<p, d>> \in rest,
         ColumnsOf(node)[Shape(node)[n][k]] = globalNodeColumn
  PROVE  <<p, d - 1>> \in rest
<1>1. PICK m : m = Shape(node)[n][k]
  OBVIOUS
<1>2. m \in Live /\ States(node)[m] \in StateId /\ States(node)[n] \in StateId
  BY <1>1, LinkBack
<1>3. Below(empty, node, m, n) /\ ColumnsOf(node)[n] <= globalNodeColumn
  BY <1>1 DEF Downhill
<1>4. /\ ColumnsOf(node)[n] = globalNodeColumn
      /\ \E a \in empty : GotoTable[States(node)[m]][a] = States(node)[n]
  BY <1>1, <1>2, <1>3, ColumnTypes DEF Below
<1>5. PICK a \in empty : GotoTable[States(node)[m]][a] = States(node)[n]
  BY <1>4
<1>6. \A i \in Items[States(node)[n]] : i \in rest /\ i[2] > 0 => <<i[1], i[2] - 1>> \in rest
  BY <1>2, <1>5 DEF NoEmptyLoop
<1>7. PICK i \in Items[States(node)[n]] : i = <<p, d>> /\ i[1] = p /\ i[2] = d
  OBVIOUS
<1> QED
  BY <1>4, <1>6, <1>7

(* What has to be shown where the next step is one of these.               *)
LEMMA WorkingElsewhere ==
  ASSUME IInv', NEW rest, pc' \notin {"shift", "pop", "reduce", "settle"}
  PROVE  Working(rest)'
BY DEF IInv, Phases, Working

LEMMA WorkingInPop ==
  ASSUME IInv', NEW rest, pc' = "pop",
         ColumnsOf(node')[TopParser'] = globalNodeColumn' => <<reduction'.prod, LeftToPop'>> \in rest
  PROVE  Working(rest)'
BY DEF IInv, Phases, Working

LEMMA WorkingInShift ==
  ASSUME IInv', NEW rest, pc' = "shift",
         \A n \in Elems(prevTopmost') : ColumnsOf(node')[n] < globalNodeColumn'
  PROVE  Working(rest)'
BY DEF IInv, Phases, Working

(* The mini-LR core.                                                       *)
LEMMA MiniLRReduceDown ==
  ASSUME NEW empty, NEW rest, NEW height, NoEmptyLoop(empty, rest, height),
         IInv, Downhill(empty), MiniLRReduce
  PROVE  Downhill(empty)' /\ Working(rest)'
<1>1. IInv' /\ UNCHANGED <<node, globalNodeColumn>> /\ pc' = "pop"
  BY MiniLRReduceKeeps DEF MiniLRReduce, stackVars
<1>2. Downhill(empty)'
  BY <1>1 DEF Downhill, Live
<1>3. reduction'.toPass = << >> /\ reduction'.prod \in ProdIndex /\ reduction'.prod # FinalProduction
  BY <1>1 DEF IInv, Popping, TypeOK, MiniLRReduce
<1>4. LeftToPop' = ProdInfo[reduction'.prod].rhsLen
  <2>1. LeftToPop' = ProdInfo[reduction'.prod].rhsLen - Len(reduction'.toPass)
    BY DEF LeftToPop
  <2>2. Len(reduction'.toPass) = 0 /\ ProdInfo[reduction'.prod].rhsLen \in Nat
    BY <1>3, ProdInfoAssumption
  <2> QED
    BY <2>1, <2>2
<1>5. <<reduction'.prod, LeftToPop'>> \in rest
  BY <1>3, <1>4 DEF NoEmptyLoop
<1> QED
  BY <1>1, <1>2, <1>5, WorkingInPop

LEMMA MiniLRPopDown ==
  ASSUME PopSafe, NEW empty, NEW rest, NEW height, NoEmptyLoop(empty, rest, height),
         IInv, Downhill(empty), Working(rest), MiniLRPop
  PROVE  Downhill(empty)' /\ Working(rest)'
<1>1. IInv' /\ StackChanges(-1) /\ NoGain
  BY MiniLRPopKeeps
<1>2. /\ pc = "pop" /\ pc' = "pop" /\ globalNodeColumn' = globalNodeColumn
      /\ reduction'.prod = reduction.prod /\ topmostParsers' = <<PoppedLink.sib>>
  BY DEF MiniLRPop, IInv, TypeOK
<1>3. Downhill(empty)'
  BY <1>1, <1>2, NoGainDownhill
<1>4. PICK d \in Nat : d = LeftToPop /\ d > 0 /\ LeftToPop' = d - 1
  <2>1. PICK r, l : r = ProdInfo[reduction.prod].rhsLen /\ l = Len(reduction.toPass)
    OBVIOUS
  <2>2. r \in Nat /\ l \in Nat /\ LeftToPop = r - l /\ l < r
    BY <2>1, ProdInfoAssumption DEF IInv, TypeOK, LeftToPop, MiniLRPop, StillToPop
  <2>3. LeftToPop' = r - (l + 1)
    BY <1>2, <2>1, OneMoreToPass DEF LeftToPop
  <2>4. r - l \in Nat /\ r - l > 0 /\ r - (l + 1) = (r - l) - 1
    BY <2>2
  <2> QED
    BY <2>2, <2>3, <2>4
<1>5. /\ TopParser \in Live /\ <<reduction.prod, d>> \in Items[States(node)[TopParser]]
      /\ ColumnsOf(node)[TopParser] = globalNodeColumn => <<reduction.prod, d>> \in rest
  BY <1>2, <1>4, OnTop DEF IInv, Popping, Phases, Working
<1>6. 1 \in DOMAIN Shape(node)[TopParser]
  BY <1>4, <1>5, HasLink
<1>7. Shape(node)[TopParser][1] = PoppedLink.sib
  BY <1>5, <1>6, LinkBack DEF PoppedLink
<1>8. TopParser' = Shape(node)[TopParser][1]
  BY <1>2, <1>7 DEF TopParser
<1>9. ASSUME ColumnsOf(node')[TopParser'] = globalNodeColumn'
      PROVE  <<reduction'.prod, LeftToPop'>> \in rest
  <2>1. TopParser' \in Live'
    BY <1>1, <1>2 DEF IInv, Counted, Elems, TopParser
  <2>2. ColumnsOf(node')[TopParser'] = ColumnsOf(node)[TopParser']
    BY <1>1, <2>1 DEF NoGain, StackChanges
  <2>3. ColumnsOf(node)[Shape(node)[TopParser][1]] = globalNodeColumn
    BY <1>2, <1>8, <1>9, <2>2
  <2> QED
    BY <1>2, <1>4, <1>5, <1>6, <2>3, EmptyBack
<1> QED
  BY <1>1, <1>2, <1>3, <1>9, WorkingInPop

LEMMA MiniLRPushDown ==
  ASSUME UserValues, NEW empty, NEW rest, NEW height, NoEmptyLoop(empty, rest, height),
         IInv, Downhill(empty), Working(rest), MiniLRPush
  PROVE  Downhill(empty)' /\ Working(rest)'
<1>1. PICK top, p, state : /\ top = TopParser /\ p = reduction.prod
                           /\ state = GotoState(TopParser, reduction.prod)
  OBVIOUS
<1>2. IInv' /\ StackChanges(1) /\ Gain(FreshNode, top, state, globalNodeColumn)
  BY <1>1, MiniLRPushKeeps
<1>3. /\ pc = "pop" /\ pc' \in {"mini-LR", "rejected"} /\ globalNodeColumn' = globalNodeColumn
  BY DEF MiniLRPush
<1>4. top \in Live /\ p \in ProdIndex /\ p # FinalProduction
  BY <1>1, <1>3, OnTop DEF IInv, Phases, Popping, TypeOK
<1>5. LeftToPop = 0
  <2>1. PICK l \in Nat, m \in Nat : l = Len(reduction.toPass) /\ m = ProdInfo[p].rhsLen
    BY <1>4, CountsFinite, ProdInfoAssumption
  <2>2. LeftToPop = m - l
    BY <1>1, <2>1 DEF LeftToPop
  <2>3. 0 <= LeftToPop
    BY <1>3 DEF IInv, Phases, Popping
  <2>4. ~ (l < m)
    BY <1>1, <2>1 DEF MiniLRPush, StillToPop
  <2> QED
    BY <2>1, <2>2, <2>3, <2>4
<1>6. ASSUME ColumnsOf(node)[top] = globalNodeColumn
      PROVE  \E a \in empty : GotoTable[States(node)[top]][a] = state
  <2>1. ProdInfo[p].lhsIndex \in empty
    BY <1>1, <1>3, <1>4, <1>5, <1>6 DEF Working, NoEmptyLoop
  <2>2. state = GotoTable[States(node)[top]][ProdInfo[p].lhsIndex]
    BY <1>1, <1>4, StackIsSound DEF GotoState, States
  <2> QED
    BY <2>1, <2>2
<1>7. ColumnsOf(node)[top] <= globalNodeColumn /\ ColumnsOf(node)[top] \in Nat
      /\ globalNodeColumn \in Nat
  BY <1>4, ColumnTypes DEF Downhill
<1>8. Downhill(empty)'
  BY <1>2, <1>3, <1>6, <1>7, GainDownhill
<1> QED
  BY <1>2, <1>3, <1>8, WorkingElsewhere

LEMMA MiniLRShiftDown ==
  ASSUME UserValues, NEW empty, NEW rest, IInv, Downhill(empty), MiniLRShift
  PROVE  Downhill(empty)' /\ Working(rest)'
<1>1. PICK state : Gain(FreshNode, TopParser, state, globalNodeColumn + 1)
  BY MiniLRShiftKeeps
<1>2. IInv' /\ StackChanges(1)
  BY MiniLRShiftKeeps
<1>3. pc' = "next" /\ globalNodeColumn' = globalNodeColumn + 1
  BY DEF MiniLRShift
<1>4. TopParser \in Live
  BY OnTop DEF MiniLRShift, OneParser
<1>5. PICK c \in Nat, g \in Nat : c = ColumnsOf(node)[TopParser] /\ g = globalNodeColumn /\ c <= g
  BY <1>4, ColumnTypes DEF Downhill
<1>6. c < g + 1 /\ g + 1 <= g + 1 /\ g <= g + 1
  BY <1>5
<1>7. Downhill(empty)'
  BY <1>1, <1>2, <1>3, <1>5, <1>6, GainDownhill
<1> QED
  BY <1>2, <1>3, <1>7, WorkingElsewhere

(* The enumeration of paths.                                               *)
LEMMA EnqueueReductionsDown ==
  ASSUME NEW empty, NEW rest, NEW height, NoEmptyLoop(empty, rest, height),
         IInv, Downhill(empty), Working(rest), EnqueueReductions
  PROVE  Downhill(empty)' /\ Working(rest)'
<1>1. IInv' /\ UNCHANGED <<pc, node, globalNodeColumn, pathQueue>> /\ pc = "reduce"
  BY EnqueueReductionsKeeps DEF EnqueueReductions, stackVars
<1>2. Downhill(empty)'
  BY <1>1 DEF Downhill, Live
<1>3. ASSUME NEW i \in DOMAIN frames'
      PROVE  <<frames'[i].prod, frames'[i].popsRemaining>> \in rest
  <2>1. frames'[i].prod \in ProdIndex /\ frames'[i].prod # FinalProduction
    <3>1. frames' \in Seq(Frame)
      BY <1>1 DEF IInv, TypeOK
    <3>2. GoodFrame(frames'[i], node')
      BY <1>1, <1>3 DEF IInv, Enumerated
    <3>3. frames'[i] \in Frame
      BY <1>3, <3>1
    <3> QED
      BY <3>2, <3>3 DEF GoodFrame, Frame
  <2>2. frames'[i].popsRemaining = ProdInfo[frames'[i].prod].rhsLen
    BY <1>3 DEF EnqueueReductions
  <2> QED
    BY <2>1, <2>2 DEF NoEmptyLoop
<1> QED
  BY <1>1, <1>2, <1>3 DEF Working, FrameIn

LEMMA ExtendPathDown ==
  ASSUME NEW empty, NEW rest, NEW height, NoEmptyLoop(empty, rest, height),
         IInv, Downhill(empty), Working(rest), ExtendPath
  PROVE  Downhill(empty)' /\ Working(rest)'
<1>1. /\ UNCHANGED <<pc, node, globalNodeColumn, pathQueue>> /\ pc = "reduce"
      /\ frames \in Seq(Frame) /\ frames # << >>
  BY DEF ExtendPath, stackVars, IInv, TypeOK
<1>2. Downhill(empty)'
  BY <1>1 DEF Downhill, Live
<1>3. PICK f, n : f = Head(frames) /\ n = f.currentNode
  OBVIOUS
<1>4. /\ f = frames[1] /\ 1 \in DOMAIN frames /\ f \in Frame /\ Tail(frames) \in Seq(Frame)
      /\ \A i \in DOMAIN Tail(frames) : i + 1 \in DOMAIN frames
                                        /\ Tail(frames)[i] = frames[i + 1]
  BY <1>1, <1>3
<1>5. /\ n \in Live /\ f.popsRemaining \in Nat /\ f.popsRemaining > 0
      /\ <<f.prod, f.popsRemaining>> \in Items[States(node)[n]]
      /\ FrameIn(rest, node, f, globalNodeColumn)
  BY <1>3, <1>4 DEF IInv, Enumerated, GoodFrame, Frame, ExtendPath, Working, Live
<1>6. PICK len \in Nat : /\ len = Len(node[n].sibs) /\ DOMAIN Shape(node)[n] = 1..len
  <2>1. IsStack(node) /\ n \in DOMAIN node
    BY <1>5, StackIsSound
  <2>2. node[n].sibs \in Seq(SiblingLink)
    BY <2>1 DEF IsStack, StackNode
  <2>3. DOMAIN node[n].sibs = 1..Len(node[n].sibs) /\ Len(node[n].sibs) \in Nat
    BY <2>2
  <2> QED
    BY <2>1, <2>3, ShapeAt
<1>7. ASSUME NEW k \in 1..len
      PROVE  FrameIn(rest, node, CollectPathLink(f, k), globalNodeColumn)
  <2>1. PICK g : g = CollectPathLink(f, k)
    OBVIOUS
  <2>2. g.prod = f.prod /\ g.popsRemaining = f.popsRemaining - 1
        /\ g.currentNode = node[n].sibs[k].sib
    BY <1>3, <1>4, <2>1 DEF CollectPathLink, Frame
  <2>3. g.currentNode = Shape(node)[n][k] /\ k \in DOMAIN Shape(node)[n]
    BY <1>5, <1>6, <1>7, <2>2, LinkBack
  <2>4. ColumnsOf(node)[n] = globalNodeColumn => <<f.prod, f.popsRemaining>> \in rest
    BY <1>3, <1>5 DEF FrameIn
  <2>5. ASSUME ColumnsOf(node)[g.currentNode] = globalNodeColumn
        PROVE  <<f.prod, f.popsRemaining - 1>> \in rest
    BY <1>5, <2>3, <2>4, <2>5, EmptyBack
  <2> QED
    BY <2>1, <2>2, <2>5 DEF FrameIn
<1>8. PICK new : new = [i \in DOMAIN IterationOrder(n) |-> CollectPathLink(f, IterationOrder(n)[i])]
  OBVIOUS
<1>9. frames' = new \o Tail(frames)
  BY <1>3, <1>8 DEF ExtendPath
<1>10. DOMAIN IterationOrder(n) = 1..len /\ \A i \in 1..len : IterationOrder(n)[i] \in 1..len
  BY <1>6 DEF IterationOrder
<1>11. DOMAIN new = 1..len /\ \A i \in 1..len : FrameIn(rest, node, new[i], globalNodeColumn)
  BY <1>7, <1>8, <1>10
<1>12. \A i \in DOMAIN frames' : FrameIn(rest, node, frames'[i], globalNodeColumn)
  <2> DEFINE Good == {g \in Frame \cup {new[i] : i \in 1..len} :
                        FrameIn(rest, node, g, globalNodeColumn)}
  <2>1. \A i \in DOMAIN Tail(frames) : Tail(frames)[i] \in Good
    <3>1. \A i \in DOMAIN frames : frames[i] \in Good
      BY <1>1 DEF Working
    <3> QED
      BY <1>4, <3>1
  <2>2. \A i \in 1..len : new[i] \in Good
    BY <1>11
  <2>3. \A e \in Good : FrameIn(rest, node, e, globalNodeColumn)
    OBVIOUS
  <2> HIDE DEF Good
  <2>4. new = [i \in 1..len |-> new[i]]
    BY <1>8, <1>10
  <2>5. Tail(frames) \in Seq(Good)
    BY <1>4, <2>1, SeqWithin
  <2>6. new \in Seq(Good)
    BY <2>2, <2>4
  <2>7. frames' \in Seq(Good)
    BY <1>9, <2>5, <2>6
  <2> QED
    BY <2>3, <2>7
<1> QED
  BY <1>1, <1>2, <1>12 DEF Working

LEMMA FinishPathDown ==
  ASSUME NEW empty, NEW rest, IInv, Downhill(empty), Working(rest), FinishPath
  PROVE  Downhill(empty)' /\ Working(rest)'
<1>1. /\ UNCHANGED <<pc, node, globalNodeColumn>> /\ pc = "reduce"
      /\ frames \in Seq(Frame) /\ frames # << >> /\ frames' = Tail(frames)
      /\ pathQueue \in Seq(Path)
  BY DEF FinishPath, stackVars, IInv, TypeOK
<1>2. Downhill(empty)'
  BY <1>1 DEF Downhill, Live
<1>3. PICK f : f = Head(frames)
  OBVIOUS
<1>4. /\ f = frames[1] /\ 1 \in DOMAIN frames
      /\ \A i \in DOMAIN Tail(frames) : i + 1 \in DOMAIN frames
                                        /\ Tail(frames)[i] = frames[i + 1]
  BY <1>1, <1>3
<1>5. FrameIn(rest, node, f, globalNodeColumn) /\ f.popsRemaining = 0 /\ f.currentNode \in Live
  BY <1>3, <1>4 DEF IInv, Enumerated, GoodFrame, FinishPath, Working, Live
<1>6. PICK p : p = [prod |-> f.prod, leftEdge |-> f.currentNode,
                    startColumn |-> node[f.currentNode].column, sibLinks |-> f.sibLinks]
  OBVIOUS
<1>7. PathFrom(rest, p, globalNodeColumn)
  <2>1. ColumnsOf(node)[f.currentNode] = node[f.currentNode].column
    BY <1>5 DEF ColumnsOf, Live
  <2> QED
    BY <1>5, <1>6, <2>1 DEF FrameIn, PathFrom
<1>8. \A i \in DOMAIN pathQueue' : PathFrom(rest, pathQueue'[i], globalNodeColumn)
  <2> DEFINE Good == {q \in Path \cup {p} : PathFrom(rest, q, globalNodeColumn)}
  <2>1. \A i \in DOMAIN pathQueue : pathQueue[i] \in Good
    BY <1>1 DEF Working
  <2>2. p \in Good /\ \A e \in Good : PathFrom(rest, e, globalNodeColumn)
    BY <1>7
  <2> HIDE DEF Good
  <2>3. pathQueue \in Seq(Good)
    BY <1>1, <2>1, SeqWithin
  <2>4. InsertPathCopy(pathQueue, p) \in Seq(Good)
    BY <2>2, <2>3, InsertPathCopyShape
  <2>5. pathQueue' = InsertPathCopy(pathQueue, p) \/ pathQueue' = pathQueue
    BY <1>3, <1>6 DEF FinishPath
  <2>6. pathQueue' \in Seq(Good)
    BY <2>3, <2>4, <2>5
  <2> QED
    BY <2>2, <2>6
<1> QED
  BY <1>1, <1>2, <1>4, <1>8 DEF Working

(* The reductions.                                                         *)
LEMMA WorklistTaken ==
  ASSUME NEW rest, IInv, Working(rest), CanReduce, frames' = frames, pathQueue' = Tail(pathQueue),
         globalNodeColumn' = globalNodeColumn, pc' \in {"reduce", "settle"}
  PROVE  Working(rest)' /\ PathFrom(rest, NextPath, globalNodeColumn)
<1>1. pathQueue \in Seq(Path) /\ pathQueue # << >> /\ frames = << >>
  BY DEF IInv, TypeOK, CanReduce
<1>2. /\ 1 \in DOMAIN pathQueue /\ Head(pathQueue) = pathQueue[1]
      /\ \A i \in DOMAIN Tail(pathQueue) : i + 1 \in DOMAIN pathQueue
                                           /\ Tail(pathQueue)[i] = pathQueue[i + 1]
  BY <1>1
<1> QED
  BY <1>1, <1>2 DEF Working, NextPath

LEMMA ReductionAtColumn ==
  ASSUME NEW empty, NEW rest, NEW height, NoEmptyLoop(empty, rest, height),
         IInv, CanReduce, PathFrom(rest, NextPath, globalNodeColumn),
         ColumnsOf(node)[NextPath.leftEdge] = globalNodeColumn
  PROVE  \E a \in empty : GotoTable[States(node)[NextPath.leftEdge]][a] = RightState
<1>1. PICK p, left : p = NextPath.prod /\ left = NextPath.leftEdge
  OBVIOUS
<1>2. /\ p \in ProdIndex /\ p # FinalProduction /\ left \in Live
      /\ NextPath.startColumn = ColumnsOf(node)[left]
  BY <1>1, NextPathGood DEF GoodPath, Path, Live
<1>3. ProdInfo[p].lhsIndex \in empty
  BY <1>1, <1>2 DEF PathFrom, NoEmptyLoop
<1>4. RightState = GotoTable[States(node)[left]][ProdInfo[p].lhsIndex]
  BY <1>1, <1>2 DEF RightState, GotoState, States, Live
<1> QED
  BY <1>1, <1>3, <1>4

LEMMA ReduceDown ==
  ASSUME UserValues, NEW empty, NEW rest, NEW height, NoEmptyLoop(empty, rest, height),
         IInv, Downhill(empty), Working(rest), Reduce
  PROVE  Downhill(empty)' /\ Working(rest)'
<1>1. CASE ReduceCancelled \/ ReduceMerge
  <2>1. IInv' /\ StackChanges(0) /\ NoGain
    BY <1>1, ReduceCancelledKeeps, ReduceMergeKeeps
  <2>2. /\ CanReduce /\ frames' = frames /\ pathQueue' = Tail(pathQueue)
        /\ globalNodeColumn' = globalNodeColumn /\ pc' \in {"reduce", "settle"}
    BY <1>1 DEF ReduceCancelled, ReduceMerge, CanReduce
  <2> QED
    BY <2>1, <2>2, NoGainDownhill, WorklistTaken
<1>2. CASE ReduceAddLink \/ ReduceNewParser
  <2>1. PICK x, left, state : /\ IInv' /\ StackChanges(1) /\ left = NextPath.leftEdge
                              /\ state = RightState /\ Gain(x, left, state, globalNodeColumn)
    BY <1>2, ReduceAddLinkKeeps, ReduceNewParserKeeps
  <2>2. /\ CanReduce /\ frames' = frames /\ pathQueue' = Tail(pathQueue)
        /\ globalNodeColumn' = globalNodeColumn /\ pc' \in {"reduce", "settle"}
    BY <1>2 DEF ReduceAddLink, ReduceNewParser, CanReduce
  <2>3. Working(rest)' /\ PathFrom(rest, NextPath, globalNodeColumn)
    BY <2>2, WorklistTaken
  <2>4. left \in Live
    BY <2>1 DEF Gain
  <2>5. ColumnsOf(node)[left] <= globalNodeColumn /\ ColumnsOf(node)[left] \in Nat
        /\ globalNodeColumn \in Nat
    BY <2>4, ColumnTypes DEF Downhill
  <2>6. ColumnsOf(node)[left] = globalNodeColumn =>
          \E a \in empty : GotoTable[States(node)[left]][a] = state
    BY <2>1, <2>2, <2>3, ReductionAtColumn
  <2>7. Downhill(empty)'
    BY <2>1, <2>2, <2>5, <2>6, GainDownhill
  <2> QED
    BY <2>3, <2>7
<1>3. CASE SettleParser
  <2>1. IInv' /\ StackChanges(0) /\ NoGain
    BY <1>3, SettleParserKeeps
  <2>2. UNCHANGED <<pc, frames, pathQueue, globalNodeColumn>> /\ pc = "settle"
    BY <1>3 DEF SettleParser
  <2>3. \A i \in DOMAIN frames : FrameIn(rest, node', frames[i], globalNodeColumn)
    <3>1. ASSUME NEW i \in DOMAIN frames
          PROVE  FrameIn(rest, node', frames[i], globalNodeColumn)
      <4>1. frames[i].currentNode \in Live'
        BY <2>1, <2>2 DEF IInv, Enumerated, GoodFrame, Live
      <4>2. ColumnsOf(node')[frames[i].currentNode] = ColumnsOf(node)[frames[i].currentNode]
        BY <2>1, <4>1 DEF NoGain, StackChanges
      <4> QED
        BY <4>2 DEF Working, FrameIn
    <3> QED
      BY <3>1
  <2>4. Working(rest)'
    BY <2>2, <2>3 DEF Working
  <2> QED
    BY <2>1, <2>2, <2>4, NoGainDownhill
<1>4. CASE SettleSweepDone
  <2>1. UNCHANGED <<node, frames, pathQueue, globalNodeColumn>> /\ pc' \in {"reduce", "settle"}
    BY <1>4 DEF SettleSweepDone, stackVars
  <2> QED
    BY <2>1 DEF Downhill, Working, Live
<1> QED
  BY <1>1, <1>2, <1>3, <1>4 DEF Reduce

(* The shifts.                                                             *)
LEMMA ShiftDown ==
  ASSUME UserValues, NEW empty, NEW rest, IInv, IInv', Downhill(empty), Working(rest), Shift
  PROVE  Downhill(empty)' /\ Working(rest)'
<1>1. CASE StartShifts
  <2>1. /\ pc = "reduce" /\ pc' = "shift" /\ globalNodeColumn' = globalNodeColumn + 1
        /\ node' = node /\ prevTopmost' = topmostParsers
    BY <1>1 DEF StartShifts
  <2>2. PICK g \in Nat : g = globalNodeColumn
    BY ColumnTypes
  <2>3. ASSUME NEW n \in Live PROVE ColumnsOf(node)[n] <= g + 1
    <3>1. PICK c \in Nat : c = ColumnsOf(node)[n] /\ c <= g
      BY <2>2, ColumnTypes DEF Downhill
    <3> QED
      BY <3>1
  <2>4. Downhill(empty)'
    BY <2>1, <2>2, <2>3 DEF Downhill, Live
  <2>5. \A n \in Elems(prevTopmost') : ColumnsOf(node')[n] < globalNodeColumn'
    BY <2>1, <2>2 DEF IInv, TopColumns
  <2> QED
    BY <2>1, <2>4, <2>5, WorkingInShift
<1>2. CASE ShiftDies
  <2>1. /\ pc = "shift" /\ UNCHANGED <<pc, node, globalNodeColumn>>
        /\ Shifting /\ prevTopmost' = PrevTopmostPopped
    BY <1>2 DEF ShiftDies, Shifting
  <2>2. \A n \in Elems(prevTopmost') : ColumnsOf(node')[n] < globalNodeColumn'
    BY <2>1, NextToShift DEF Working
  <2> QED
    BY <2>1, <2>2, WorkingInShift DEF Downhill, Live
<1>3. CASE ShiftToNew \/ ShiftToExisting
  <2>1. PICK x, left, state : /\ StackChanges(1) /\ left = LeftSibling
                              /\ Gain(x, left, state, globalNodeColumn)
    BY <1>3, ShiftToNewKeeps, ShiftToExistingKeeps
  <2>2. /\ pc = "shift" /\ UNCHANGED <<pc, globalNodeColumn>>
        /\ Shifting /\ prevTopmost' = PrevTopmostPopped
    BY <1>3 DEF ShiftToNew, ShiftToExisting, Shifting
  <2>3. ColumnsOf(node)[left] < globalNodeColumn /\ globalNodeColumn \in Nat
    BY <2>1, <2>2, NextToShift, ColumnTypes DEF Working
  <2>4. Downhill(empty)'
    BY <2>1, <2>2, <2>3, GainDownhill
  <2>5. ASSUME NEW n \in Elems(prevTopmost')
        PROVE  ColumnsOf(node')[n] < globalNodeColumn'
    <3>1. n \in Live' /\ n \in Elems(prevTopmost)
      BY <2>2, <2>5, NextToShift DEF IInv, Counted
    <3>2. n \in Live \cap Live'
      BY <3>1 DEF IInv, Counted
    <3>3. ColumnsOf(node')[n] = ColumnsOf(node)[n]
      BY <2>1, <3>2 DEF StackChanges
    <3> QED
      BY <2>2, <3>1, <3>3 DEF Working
  <2> QED
    BY <2>2, <2>4, <2>5, WorkingInShift
<1>4. CASE ShiftsDone
  <2>1. UNCHANGED <<node, globalNodeColumn>> /\ pc' \in {"rejected", "next"}
    BY <1>4 DEF ShiftsDone, stackVars
  <2> QED
    BY <2>1, WorkingElsewhere DEF Downhill, Live
<1> QED
  BY <1>1, <1>2, <1>3, <1>4 DEF Shift

LEMMA ReleaseDown ==
  ASSUME NEW empty, NEW rest, IInv, IInv', Downhill(empty), Working(rest), Release
  PROVE  Downhill(empty)' /\ Working(rest)'
<1>1. PICK gain : StackChanges(gain) /\ NoGain
  BY DropReferenceKeeps, FreeNodeKeeps DEF Release
<1>2. /\ UNCHANGED <<pc, globalNodeColumn, prevTopmost>> /\ pc \in {"shift", "release"}
  BY DEF Release, DropReference, FreeNode, IInv, Phases
<1>3. Downhill(empty)'
  BY <1>1, <1>2, NoGainDownhill
<1>4. CASE pc = "shift"
  <2>1. ASSUME NEW n \in Elems(prevTopmost')
        PROVE  ColumnsOf(node')[n] < globalNodeColumn'
    <3>1. n \in Live'
      BY <2>1 DEF IInv, Counted
    <3>2. ColumnsOf(node')[n] = ColumnsOf(node)[n]
      BY <1>1, <3>1 DEF NoGain, StackChanges
    <3> QED
      BY <1>2, <1>4, <2>1, <3>2 DEF Working
  <2> QED
    BY <1>2, <1>3, <1>4, <2>1, WorkingInShift
<1>5. CASE pc = "release"
  BY <1>2, <1>3, <1>5, WorkingElsewhere
<1> QED
  BY <1>2, <1>4, <1>5

LEMMA StepDown ==
  ASSUME UserValues, PopSafe, NEW empty, NEW rest, NEW height,
         NoEmptyLoop(empty, rest, height), IInv, Downhill(empty), Working(rest), [Next]_vars
  PROVE  Downhill(empty)' /\ Working(rest)'
<1>0. IInv'
  BY StepKeeps
<1>1. CASE GlrParse
  <2>1. \A n \in Live' : Shape(node')[n] = << >> /\ ColumnsOf(node')[n] = 0
    BY <1>1, GlrParseKeeps
  <2>2. StackChanges(0) /\ Live = {} /\ globalNodeColumn' = 0 /\ pc' = "token"
    BY <1>1, GlrParseKeeps DEF GlrParse, IInv, Phases, Live
  <2>3. \A n \in Live' : Counts(node')[n] > 0
    BY <2>2 DEF StackChanges
  <2>4. Downhill(empty)'
    BY <2>1, <2>2, <2>3 DEF Downhill
  <2> QED
    BY <1>0, <2>2, <2>4, WorkingElsewhere
<1>2. CASE \/ TakeToken \/ MiniLRError \/ MiniLRPopAssertFails \/ NextToken
           \/ CleanupAfterParse \/ Accept
  <2>1. UNCHANGED <<node, globalNodeColumn>> /\ pc' \notin {"shift", "pop", "reduce", "settle"}
    BY <1>2 DEF TakeToken, MiniLRError, MiniLRPopAssertFails, NextToken, CleanupAfterParse,
       Accept, stackVars
  <2> QED
    BY <1>0, <2>1, WorkingElsewhere DEF Downhill, Live
<1>3. CASE FallBack
  <2>1. UNCHANGED <<node, globalNodeColumn, frames, pathQueue>> /\ pc = "mini-LR" /\ pc' = "reduce"
    BY <1>3 DEF FallBack, stackVars
  <2>2. frames = << >> /\ pathQueue = << >>
    BY <2>1 DEF IInv, Phases
  <2> QED
    BY <2>1, <2>2 DEF Downhill, Working, Live
<1>4. CASE MiniLRReduce \/ MiniLRPop \/ MiniLRPush \/ MiniLRShift
  BY <1>4, MiniLRReduceDown, MiniLRPopDown, MiniLRPushDown, MiniLRShiftDown
<1>5. CASE Enumerate
  BY <1>5, EnqueueReductionsDown, ExtendPathDown, FinishPathDown DEF Enumerate
<1>6. CASE Reduce \/ Shift \/ Release
  BY <1>0, <1>6, ReduceDown, ShiftDown, ReleaseDown
<1>7. CASE Return
  <2>1. Live' = {} /\ pc' = "idle"
    BY <1>7 DEF Return, Live
  <2> QED
    BY <1>0, <2>1, WorkingElsewhere DEF Downhill
<1>8. CASE Aborted \/ UNCHANGED vars
  <2>1. UNCHANGED <<pc, node, globalNodeColumn, reduction, topmostParsers, prevTopmost,
                    frames, pathQueue>>
    BY <1>8 DEF Aborted, vars, stackVars, workVars
  <2>2. LeftToPop' = LeftToPop /\ TopParser' = TopParser
    BY <2>1 DEF LeftToPop, TopParser
  <2> QED
    BY <2>1, <2>2 DEF Downhill, Working, Live
<1> QED
  BY <1>1, <1>2, <1>3, <1>4, <1>5, <1>6, <1>7, <1>8 DEF Next, Parse, MiniLR

(* A link leads to a node that ranks under the one that owns it: it is of  *)
(* an earlier column, or of the same and more that is empty can follow it. *)
Under(height, m, n) ==
  \/ ColumnsOf(node)[m] < ColumnsOf(node)[n]
  \/ /\ ColumnsOf(node)[m] = ColumnsOf(node)[n]
     /\ height[States(node)[n]] < height[States(node)[m]]

LEMMA LinkUnder ==
  ASSUME NEW empty, NEW rest, NEW height, NoEmptyLoop(empty, rest, height),
         IInv, Downhill(empty), NEW n \in Live, NEW k \in DOMAIN Shape(node)[n]
  PROVE  Under(height, Shape(node)[n][k], n)
<1>1. PICK m : m = Shape(node)[n][k]
  OBVIOUS
<1>2. m \in Live /\ States(node)[m] \in StateId /\ States(node)[n] \in StateId
  BY <1>1, LinkBack
<1>3. Below(empty, node, m, n)
  BY <1>1 DEF Downhill
<1>4. \A a \in empty : GotoTable[States(node)[m]][a] = States(node)[n] =>
        height[States(node)[n]] < height[States(node)[m]]
  BY <1>2 DEF NoEmptyLoop
<1> QED
  BY <1>1, <1>3, <1>4 DEF Below, Under

(* Among some nodes there is one under none of them.                       *)
LEMMA HighestNode ==
  ASSUME IInv, NEW height \in [StateId -> Nat], NEW T \in SUBSET Live, T # {},
         \A n \in Live : ColumnsOf(node)[n] <= globalNodeColumn
  PROVE  \E q \in T : \A r \in T : ~ Under(height, q, r)
<1>0. PICK c : c = ColumnsOf(node)
  OBVIOUS
<1>1. PICK g \in Nat : g = globalNodeColumn
  BY ColumnTypes
<1>2. \A n \in T : c[n] \in Nat /\ c[n] <= g
  BY <1>0, <1>1, ColumnTypes
<1>3. PICK top \in T : \A n \in T : c[n] <= c[top]
  <2>1. \A n \in T : g - c[n] \in Nat
    BY <1>2
  <2>2. {g - c[n] : n \in T} \in SUBSET Nat /\ {g - c[n] : n \in T} # {}
    BY <2>1
  <2>3. PICK d \in {g - c[n] : n \in T} : \A e \in {g - c[n] : n \in T} : d <= e
    BY <2>2, LeastElement
  <2>4. PICK n \in T : d = g - c[n]
    BY <2>3
  <2>5. \A m \in T : g - c[n] <= g - c[m]
    BY <2>3, <2>4
  <2>6. \A m \in T : c[m] <= c[n]
    BY <1>2, <2>5
  <2> QED
    BY <2>6
<1>4. PICK h : h = [n \in Live |-> height[States(node)[n]]]
  OBVIOUS
<1>5. \A n \in T : h[n] \in Nat /\ h[n] = height[States(node)[n]]
  BY <1>4, StackIsSound DEF OnAutomaton
<1>6. PICK q \in T : c[q] = c[top] /\ \A n \in T : c[n] = c[top] => h[q] <= h[n]
  <2> DEFINE Last == {n \in T : c[n] = c[top]}
  <2>1. {h[n] : n \in Last} \in SUBSET Nat /\ h[top] \in {h[n] : n \in Last}
    BY <1>5
  <2>2. PICK d \in {h[n] : n \in Last} : \A e \in {h[n] : n \in Last} : d <= e
    BY <2>1, LeastElement
  <2> QED
    BY <2>2
<1>7. ASSUME NEW r \in T, Under(height, q, r) PROVE FALSE
  <2>1. c[q] < c[r] \/ (c[q] = c[r] /\ h[r] < h[q])
    BY <1>0, <1>5, <1>7 DEF Under
  <2>2. c[r] = c[top] /\ h[r] < h[q]
    BY <1>2, <1>3, <1>6, <2>1
  <2> QED
    BY <1>5, <1>6, <2>2
<1> QED
  BY <1>7

(* A stack that nothing but its own links refers to is empty.              *)
LEMMA NothingLinked ==
  ASSUME NEW empty, NEW rest, NEW height, NoEmptyLoop(empty, rest, height),
         IInv, Downhill(empty), \A n \in Live : In(Shape(node), n) > 0
  PROVE  Live = {}
<1> SUFFICES ASSUME Live # {} PROVE FALSE
  OBVIOUS
<1>1. PICK q \in Live : \A r \in Live : ~ Under(height, q, r)
  BY HighestNode DEF Downhill, NoEmptyLoop
<1>2. PICK n \in Live : \E k \in DOMAIN Shape(node)[n] : Shape(node)[n][k] = q
  BY InPositive, StackIsSound
<1> QED
  BY <1>1, <1>2, LinkUnder

(* When the mini-LR core pops, the only parser has one link, and the node  *)
(* under it no other: the nodes above that one have to be led to as well.  *)
LEMMA PoppedIsUnshared ==
  ASSUME NEW empty, NEW rest, NEW height, NoEmptyLoop(empty, rest, height),
         IInv, Downhill(empty)
  PROVE  PoppedLinkUnshared
<1> SUFFICES ASSUME pc = "pop", StillToPop PROVE node[PoppedLink.sib].referenceCount = 1
  BY DEF PoppedLinkUnshared
<1>1. PICK x, left : x = TopParser /\ left = PoppedLink.sib
  OBVIOUS
<1>2. /\ x \in Live /\ left \in Live /\ Shape(node)[x] = <<left>> /\ left # x
      /\ topmostParsers = <<x>> /\ prevTopmost = << >> /\ decs = << >>
  <2>1. topmostParsers = <<TopParser>> /\ TopParser \in Live
    BY OnTop DEF IInv, Phases
  <2>2. NotLinked(Shape(node), topmostParsers) /\ prevTopmost = << >> /\ decs = << >>
    BY DEF IInv, TopsUnlinked, Phases
  <2>3. left # x
    BY <1>1, <2>1, <2>2, OneToPop, StackIsSound DEF NotLinked, Elems
  <2> QED
    BY <1>1, <2>1, <2>2, <2>3, OneToPop
<1>3. \A n \in Live : Counts(node)[n] = In(Shape(node), n) + OneIf(n = x) + 0 + 0
  BY <1>2, OccOne, OccEmpty DEF IInv, Counted
<1>4. PICK c, h : c = ColumnsOf(node) /\ h = [n \in Live |-> height[States(node)[n]]]
  OBVIOUS
<1>5. /\ \A n \in Live : c[n] \in Nat /\ h[n] \in Nat
      /\ \A m, n \in Live : Under(height, m, n) <=> c[m] < c[n] \/ (c[m] = c[n] /\ h[n] < h[m])
  BY <1>4, ColumnTypes, StackIsSound DEF OnAutomaton, NoEmptyLoop, Under
<1>6. DOMAIN <<left>> = {1} /\ <<left>>[1] = left
  OBVIOUS
<1> DEFINE T == {n \in Live : n # x /\ Under(height, left, n)}
<1>7. T = {}
  <2> SUFFICES ASSUME T # {} PROVE FALSE
    OBVIOUS
  <2>1. PICK q \in T : \A r \in T : ~ Under(height, q, r)
    BY HighestNode DEF Downhill, NoEmptyLoop
  <2>2. In(Shape(node), q) > 0
    BY <1>3, <2>1, StackIsSound DEF Downhill, OneIf
  <2>3. PICK r \in Live : \E k \in DOMAIN Shape(node)[r] : Shape(node)[r][k] = q
    BY <2>2, InPositive, StackIsSound
  <2>4. Under(height, q, r) /\ Under(height, left, q) /\ q \in Live
    BY <2>1, <2>3, LinkUnder
  <2>5. Under(height, left, r)
    BY <1>2, <1>5, <2>3, <2>4
  <2>6. r = x
    BY <2>1, <2>3, <2>4, <2>5
  <2>7. q = left
    BY <1>2, <1>6, <2>3, <2>6
  <2> QED
    BY <1>2, <1>5, <2>4, <2>7
<1>8. Into(Shape(node), left) = {<<x, 1>>}
  <2>1. <<x, 1>> \in Into(Shape(node), left)
    BY <1>2, <1>6, StackIsSound, LinksAre DEF Into
  <2>2. ASSUME NEW n \in Live, NEW k \in DOMAIN Shape(node)[n], Shape(node)[n][k] = left
        PROVE  <<n, k>> = <<x, 1>>
    <3>1. n = x
      BY <1>7, <2>2, LinkUnder
    <3> QED
      BY <1>2, <1>6, <2>2, <3>1
  <2>3. ASSUME NEW link \in Into(Shape(node), left) PROVE link = <<x, 1>>
    <3>1. link \in LinksOf(Shape(node)) /\ Shape(node)[link[1]][link[2]] = left
      BY DEF Into
    <3>2. \E n \in Live : \E k \in DOMAIN Shape(node)[n] : link = <<n, k>>
      BY <3>1, StackIsSound DEF LinksOf
    <3> QED
      BY <2>2, <3>1, <3>2
  <2> QED
    BY <2>1, <2>3
<1>9. In(Shape(node), left) = 1
  BY <1>8, FS_Singleton DEF In
<1>10. Counts(node)[left] = 1
  BY <1>2, <1>3, <1>9 DEF OneIf
<1> QED
  BY <1>1, <1>2, <1>10, StackIsSound DEF Counts

-----------------------------------------------------------------------------
(* In a build that checks its assertions no shared link is popped because  *)
(* the program stops; without hidden left recursion there is none.         *)
NoHiddenLeftRecursion == \E empty, rest, height : NoEmptyLoop(empty, rest, height)
AssertedOrNoLoop == ~ NDebug \/ NoHiddenLeftRecursion

(* Without hidden left recursion the mini-LR core owns what it pops: the   *)
(* nodes it takes off the stack have one link, from the node above, so the *)
(* xassertdb of its pop loop holds, in a build that checks it or not.      *)
THEOREM PoppedAlwaysUnshared ==
  ASSUME UserValues, NEW empty, NEW rest, NEW height, NoEmptyLoop(empty, rest, height)
  PROVE  Spec => [](IInv /\ Downhill(empty) /\ PoppedLinkUnshared)
<1>1. Init => IInv /\ Downhill(empty) /\ Working(rest)
  <2>1. Init => Downhill(empty)
    BY DEF Init, Downhill, Live
  <2>2. Init => Working(rest)
    BY DEF Init, Working
  <2> QED
    BY <2>1, <2>2, Start
<1>2. IInv /\ Downhill(empty) => PoppedLinkUnshared
  BY PoppedIsUnshared
<1>3. IInv /\ Downhill(empty) /\ Working(rest) /\ [Next]_vars
        => (IInv /\ Downhill(empty) /\ Working(rest))'
  BY <1>2, StepKeeps, StepDown DEF PopSafe
<1> QED
  BY <1>1, <1>2, <1>3, PTL DEF Spec

(* Whatever the grammar, the text and the user's actions: the parser core  *)
(* (glr.cc) keeps its stack in order at every step of every parse, if it is*)
(* built to check its assertions or if the grammar is without hidden left  *)
(* recursion; IInv says in which order.                                    *)
THEOREM StackInOrder ==
  ASSUME UserValues, AssertedOrNoLoop
  PROVE  Spec => [](IInv /\ PopSafe)
<1>1. CASE ~ NDebug
  <2>1. Init => IInv
    BY Start
  <2>2. PopSafe
    BY <1>1 DEF PopSafe
  <2>3. IInv /\ [Next]_vars => IInv'
    BY <2>2, StepKeeps
  <2> QED
    BY <2>1, <2>2, <2>3, PTL DEF Spec
<1>2. CASE NoHiddenLeftRecursion
  <2>1. PICK empty, rest, height : NoEmptyLoop(empty, rest, height)
    BY <1>2 DEF NoHiddenLeftRecursion
  <2>2. Spec => [](IInv /\ Downhill(empty) /\ PoppedLinkUnshared)
    BY <2>1, PoppedAlwaysUnshared
  <2>3. PoppedLinkUnshared => PopSafe
    BY DEF PopSafe
  <2> QED
    BY <2>2, <2>3, PTL
<1> QED
  BY <1>1, <1>2 DEF AssertedOrNoLoop

-----------------------------------------------------------------------------
(* What the invariant means for the stack as the code has it.              *)
LEMMA LinksAreOfShape ==
  ASSUME IInv
  PROVE  /\ Links = LinksOf(Shape(node))
         /\ \A link \in Links : Target(link) = Shape(node)[link[1]][link[2]]
<1>1. /\ DOMAIN Shape(node) = Live
      /\ \A n \in Live : DOMAIN Shape(node)[n] = DOMAIN node[n].sibs
      /\ \A n \in Live : \A k \in DOMAIN node[n].sibs : Shape(node)[n][k] = node[n].sibs[k].sib
  BY StackIsSound, ShapeAt
<1>2. Links = LinksOf(Shape(node))
  BY <1>1 DEF Links, LinksOf
<1>3. ASSUME NEW link \in Links PROVE Target(link) = Shape(node)[link[1]][link[2]]
  <2>1. PICK n, k : n \in Live /\ k \in DOMAIN node[n].sibs /\ link = <<n, k>>
    BY DEF Links
  <2> QED
    BY <1>1, <2>1 DEF Target
<1> QED
  BY <1>2, <1>3

LEMMA StatesDiffer == ASSUME IInv PROVE UniqueState
<1>1. ASSUME NEW i \in DOMAIN topmostParsers
      PROVE  node[topmostParsers[i]].state = States(node)[topmostParsers[i]]
  <2>1. topmostParsers[i] \in Live
    BY DEF IInv, Counted, Elems
  <2> QED
    BY <2>1, StackIsSound, ShapeAt
<1> QED
  BY <1>1 DEF IInv, UniqueTops, DifferentStates, UniqueState

LEMMA CountsAreExact == ASSUME IInv PROVE RefCountExact
<1>1. /\ Links = LinksOf(Shape(node)) /\ DOMAIN Shape(node) = Live
      /\ \A link \in Links : Target(link) = Shape(node)[link[1]][link[2]]
  BY LinksAreOfShape, StackIsSound
<1>2. ASSUME NEW link \in Links PROVE Target(link) \in Live
  <2>1. PICK n, k : n \in Live /\ k \in DOMAIN Shape(node)[n] /\ link = <<n, k>>
    BY <1>1, LinksAre
  <2>2. Shape(node)[n][k] \in Live
    BY <1>1, <2>1, StackIsSound DEF Linked
  <2> QED
    BY <1>1, <2>1, <2>2
<1>3. \A list \in {topmostParsers, prevTopmost, decs} : \A i \in DOMAIN list : list[i] \in Live
  BY DEF IInv, Counted, Elems
<1>4. ASSUME NEW n \in Live
      PROVE  node[n].referenceCount = Cardinality({link \in Links : Target(link) = n})
               + Occ(n, topmostParsers) + Occ(n, prevTopmost) + Occ(n, decs)
  <2>1. {link \in Links : Target(link) = n} = Into(Shape(node), n)
    BY <1>1 DEF Into
  <2>2. Counts(node)[n] = node[n].referenceCount
    BY StackIsSound, ShapeAt
  <2> QED
    BY <2>1, <2>2 DEF IInv, Counted, In
<1> QED
  BY <1>2, <1>3, <1>4 DEF RefCountExact, Occ

LEMMA DepthsAreExact == ASSUME IInv PROVE DeterminDepthExact
<1>1. ASSUME pc # "settle", NEW n \in Live
      PROVE  node[n].determinDepth = ComputeDeterminDepth(n)
  <2>1. Settled(Shape(node), Depths(node), n)
    BY <1>1 DEF IInv, Settling
  <2>2. Depths(node)[n] = node[n].determinDepth
    BY StackIsSound, ShapeAt
  <2> QED
    BY <2>1, <2>2, DepthComputed DEF Settled
<1> QED
  BY <1>1 DEF DeterminDepthExact

LEMMA PathsExist == ASSUME IInv PROVE QueuedPathsExist
<1>1. ASSUME NEW q \in DOMAIN pathQueue, NEW p, p = pathQueue[q]
      PROVE  /\ p.leftEdge \in Live /\ p.startColumn = node[p.leftEdge].column
             /\ \A i \in DOMAIN p.sibLinks :
                  /\ p.sibLinks[i] \in Links
                  /\ Target(p.sibLinks[i]) =
                       IF i = 1 THEN p.leftEdge ELSE p.sibLinks[i - 1][1]
  <2>1. GoodPath(p, node)
    BY <1>1 DEF IInv, Enumerated
  <2>2. p.leftEdge \in Live /\ ColumnsOf(node)[p.leftEdge] = node[p.leftEdge].column
    BY <2>1, StackIsSound, ShapeAt DEF GoodPath
  <2> QED
    BY <2>1, <2>2, LinksAreOfShape DEF GoodPath, PathIn
<1> QED
  BY <1>1 DEF QueuedPathsExist

-----------------------------------------------------------------------------
(* The assertions.  What is dropped while tokens are shifted is below the  *)
(* new parsers, so the count of each of those is still the one it was made *)
(* with.                                                                   *)
DroppedAreOld ==
  pc = "shift" => Elems(decs) \cap Elems(topmostParsers) = {}

LEMMA DroppedStayOld ==
  ASSUME IInv, DroppedAreOld, [Next]_vars
  PROVE  DroppedAreOld'
<1>1. CASE StartShifts
  <2>1. topmostParsers' = << >>
    BY <1>1 DEF StartShifts
  <2> QED
    BY <2>1, ElemsEmpty DEF DroppedAreOld
<1>2. CASE ShiftDies
  <2>1. /\ pc = "shift" /\ prevTopmost \in Seq(NodeId) /\ prevTopmost # << >>
        /\ decs' = <<LeftSibling>> /\ UNCHANGED topmostParsers
    BY <1>2 DEF IInv, TypeOK, ShiftDies, Shifting
  <2>2. Len(prevTopmost) \in DOMAIN prevTopmost
    BY <2>1
  <2>3. LeftSibling \in Elems(prevTopmost) /\ Elems(decs') = {LeftSibling}
    BY <2>1, <2>2 DEF LeftSibling, Elems
  <2> QED
    BY <2>1, <2>3 DEF IInv, TopsUnlinked, DroppedAreOld
<1>3. CASE ShiftToNew \/ ShiftToExisting
  <2>1. decs' = << >>
    BY <1>3 DEF ShiftToNew, ShiftToExisting, Shifting
  <2> QED
    BY <2>1, ElemsEmpty DEF DroppedAreOld
<1>4. CASE DropReference
  <2>1. decs \in Seq(NodeId) /\ decs # << >> /\ decs' = Tail(decs)
        /\ UNCHANGED <<pc, topmostParsers>>
    BY <1>4 DEF IInv, TypeOK, DropReference
  <2>2. \A i \in DOMAIN decs' : i + 1 \in DOMAIN decs /\ decs'[i] = decs[i + 1]
    BY <2>1
  <2> QED
    BY <2>1, <2>2 DEF DroppedAreOld, Elems
<1>5. CASE FreeNode
  <2>1. PICK x, rest, len : x = Head(decs) /\ rest = Tail(decs) /\ len = Len(node[x].sibs)
    OBVIOUS
  <2>2. /\ decs \in Seq(NodeId) /\ decs # << >> /\ rest \in Seq(NodeId)
        /\ UNCHANGED <<pc, topmostParsers>> /\ x = decs[1] /\ 1 \in DOMAIN decs
        /\ \A i \in DOMAIN rest : i + 1 \in DOMAIN decs /\ rest[i] = decs[i + 1]
    BY <1>5, <2>1 DEF IInv, TypeOK, FreeNode
  <2>3. x \in Live /\ node[x].sibs \in Seq(SiblingLink) /\ len \in Nat
        /\ DOMAIN node[x].sibs = 1..len
    <3>1. x \in Live
      BY <2>2 DEF IInv, Counted, Elems
    <3> QED
      BY <2>1, <3>1, StackIsSound DEF IsStack, StackNode
  <2>4. PICK r : r = [k \in 1..len |-> node[x].sibs[len + 1 - k].sib]
    OBVIOUS
  <2>5. \A k \in 1..len : len + 1 - k \in 1..len
    BY <2>3
  <2>6. SUFFICES ASSUME pc = "shift" PROVE \A i \in DOMAIN decs' : decs'[i] \notin Elems(topmostParsers)
    BY <2>2 DEF DroppedAreOld, Elems
  <2>7. \A k \in 1..len : r[k] \notin Elems(topmostParsers)
    <3>1. \A k \in 1..len : node[x].sibs[k].sib \notin Elems(topmostParsers)
      BY <2>3, <2>6, ShapeAt, StackIsSound DEF IInv, TopsUnlinked, NotLinked
    <3> QED
      BY <2>4, <2>5, <3>1
  <2>8. \A i \in DOMAIN rest : rest[i] \notin Elems(topmostParsers)
    BY <2>2, <2>6 DEF DroppedAreOld, Elems
  <2>9. r \in Seq(NodeId) /\ Len(r) = len
    <3>1. PICK sibs : sibs = node[x].sibs
      OBVIOUS
    <3>2. \A k \in 1..len : sibs[k] \in SiblingLink
      BY <2>3, <3>1
    <3>3. \A k \in 1..len : r[k] \in NodeId
      BY <2>4, <2>5, <3>1, <3>2 DEF SiblingLink
    <3>4. r = [k \in 1..len |-> r[k]]
      BY <2>4
    <3> QED
      BY <2>3, <3>3, <3>4
  <2>10. decs' = r \o rest
    BY <1>5, <2>1, <2>4 DEF FreeNode
  <2>11. \A i \in DOMAIN decs' :
           \/ i \in 1..len /\ decs'[i] = r[i]
           \/ i - len \in DOMAIN rest /\ decs'[i] = rest[i - len]
    BY <2>2, <2>3, <2>9, <2>10
  <2> QED
    BY <2>7, <2>8, <2>11
<1>6. CASE pc' # "shift"
  BY <1>6 DEF DroppedAreOld
<1>7. CASE UNCHANGED vars
  BY <1>7 DEF DroppedAreOld, vars, stackVars
<1>8. ASSUME Next, pc' = "shift"
      PROVE  \/ StartShifts \/ ShiftDies \/ ShiftToNew \/ ShiftToExisting
             \/ DropReference \/ FreeNode \/ UNCHANGED vars
  <2>1. pc = "shift" \/ StartShifts
    <3>1. ~ (GlrParse \/ TakeToken \/ MiniLR \/ NextToken \/ CleanupAfterParse \/ Accept \/ Return)
      BY <1>8 DEF GlrParse, TakeToken, MiniLR, MiniLRError, MiniLRReduce, MiniLRPop,
         MiniLRPopAssertFails, MiniLRPush, MiniLRShift, FallBack, NextToken,
         CleanupAfterParse, Accept, Return
    <3>2. ~ (Reduce \/ Enumerate)
      BY <1>8 DEF Reduce, ReduceCancelled, ReduceMerge, ReduceAddLink, ReduceNewParser,
         SettleParser, SettleSweepDone, Enumerate, EnqueueReductions, ExtendPath,
         FinishPath, CanReduce
    <3>3. Aborted => UNCHANGED pc
      BY DEF Aborted, vars
    <3> QED
      BY <1>8, <3>1, <3>2, <3>3 DEF Next, Parse, Shift, ShiftDies, ShiftToNew,
         ShiftToExisting, Shifting, ShiftsDone, Release, DropReference, FreeNode
  <2>2. CASE pc = "shift"
    BY <1>8, <2>2 DEF Next, GlrParse, Parse, TakeToken, MiniLR, MiniLRError, MiniLRReduce,
       MiniLRPop, MiniLRPopAssertFails, MiniLRPush, MiniLRShift, FallBack, Enumerate,
       EnqueueReductions, ExtendPath, FinishPath, Reduce, CanReduce, ReduceCancelled,
       ReduceMerge, ReduceAddLink, ReduceNewParser, SettleParser, SettleSweepDone, Shift,
       ShiftsDone, Release, NextToken, CleanupAfterParse, Accept, Return, Aborted
  <2> QED
    BY <2>1, <2>2
<1> QED
  BY <1>1, <1>2, <1>3, <1>4, <1>5, <1>6, <1>7, <1>8

(* A parser on top that nothing leads to or is about to drop.              *)
LEMMA ReferredToOnce ==
  ASSUME IInv, NEW i \in DOMAIN topmostParsers, NotLinked(Shape(node), topmostParsers),
         Elems(topmostParsers) \cap Elems(prevTopmost) = {},
         Elems(topmostParsers) \cap Elems(decs) = {}
  PROVE  node[topmostParsers[i]].referenceCount = 1
<1>1. PICK x : x = topmostParsers[i]
  OBVIOUS
<1>2. x \in Elems(topmostParsers) /\ x \in Live /\ node[x].referenceCount = Counts(node)[x]
  <2>1. x \in Elems(topmostParsers) /\ x \in Live
    BY <1>1 DEF Elems, IInv, Counted
  <2> QED
    BY <2>1, StackIsSound, ShapeAt
<1>3. In(Shape(node), x) = 0
  BY <1>2, TopIsFree
<1>4. Occ(x, prevTopmost) = 0 /\ Occ(x, decs) = 0
  BY <1>2, OccPositive DEF IInv, TypeOK
<1>5. Occ(x, topmostParsers) = 1
  <2>1. PlacesOf(x, topmostParsers) = {i}
    BY <1>1 DEF IInv, UniqueTops, DifferentStates, PlacesOf
  <2> QED
    BY <2>1, FS_Singleton DEF Occ
<1>6. Counts(node)[x] = In(Shape(node), x) + Occ(x, topmostParsers) + Occ(x, prevTopmost)
                          + Occ(x, decs)
  BY <1>2 DEF IInv, Counted
<1> QED
  BY <1>1, <1>2, <1>3, <1>4, <1>5, <1>6

(* At the end one parser is left, and the start symbol is under it, each   *)
(* with one link.                                                          *)
LEMMA OneParseAtTheEnd ==
  ASSUME IInv, pc = "cleanup"
  PROVE  /\ Len(topmostParsers) = 1
         /\ Len(node[TopParser].sibs) = 1
         /\ Len(node[node[TopParser].sibs[1].sib].sibs) = 1
<1>1. topmostParsers \in Seq(NodeId) /\ topmostParsers # << >> /\ lexer.type = 0
  BY DEF IInv, TypeOK, Phases, AtEnd
<1>2. Len(topmostParsers) = 1
  <2>1. \A i \in DOMAIN topmostParsers :
          /\ topmostParsers[i] \in Live /\ States(node)[topmostParsers[i]] \in StateId
          /\ <<FinalProduction, 2>> \in Items[States(node)[topmostParsers[i]]]
    BY <1>1, StackIsSound DEF IInv, AtEnd, Elems, Counted, OnAutomaton
  <2>2. \A i, j \in DOMAIN topmostParsers : i = j
    BY <2>1, FinalItemsAssumption DEF IInv, UniqueTops, DifferentStates
  <2>3. Len(topmostParsers) \in Nat /\ DOMAIN topmostParsers = 1..Len(topmostParsers)
        /\ Len(topmostParsers) # 0
    BY <1>1
  <2>4. 1 \in DOMAIN topmostParsers /\ Len(topmostParsers) \in DOMAIN topmostParsers
    BY <2>3
  <2> QED
    BY <2>2, <2>4
<1>3. PICK m : m = node[TopParser].sibs[1].sib
  OBVIOUS
<1>4. /\ Len(node[TopParser].sibs) = 1 /\ m \in Live
      /\ <<FinalProduction, 1>> \in Items[States(node)[m]]
  BY <1>2, <1>3, AtTheFinalProduction
<1>5. PICK w : w = Shape(node)
  OBVIOUS
<1>6. w[m] \in Seq(NodeId) /\ 1 \in DOMAIN w[m] /\ OnAutomaton(w, States(node)) /\ Linked(w)
      /\ DOMAIN w = Live
  BY <1>4, <1>5, HasLink, StackIsSound DEF IsShape
<1>7. \A k \in DOMAIN w[m] : w[m][k] \in Live /\ States(node)[w[m][k]] = StartState
  <2> TAKE k \in DOMAIN w[m]
  <2>1. PICK l : l = w[m][k]
    OBVIOUS
  <2>2. /\ l \in Live /\ States(node)[m] \in StateId /\ States(node)[l] \in StateId
        /\ Leads(States(node)[l], States(node)[m])
    BY <1>4, <1>5, <2>1, LinkBack
  <2>3. <<FinalProduction, 1 - 1>> \in Items[States(node)[l]]
    BY <1>4, <2>2, ItemBefore
  <2>4. States(node)[l] = StartState
    BY <2>2, <2>3, FinalItemsAssumption
  <2> QED
    BY <2>1, <2>2, <2>4
<1>8. \A j, k \in DOMAIN w[m] : j = k
  <2>1. \A j, k \in DOMAIN w[m] : w[m][j] = w[m][k]
    BY <1>6, <1>7 DEF OnAutomaton
  <2> QED
    BY <1>4, <1>6, <2>1 DEF OnAutomaton
<1>9. Len(w[m]) = 1
  <2>1. DOMAIN w[m] = 1..Len(w[m]) /\ Len(w[m]) \in Nat /\ Len(w[m]) # 0
    BY <1>6
  <2>2. Len(w[m]) \in DOMAIN w[m]
    BY <2>1
  <2> QED
    BY <1>6, <1>8, <2>2
<1>10. Len(node[m].sibs) = 1
  BY <1>4, <1>5, <1>9, StackIsSound, ShapeAt
<1> QED
  BY <1>2, <1>3, <1>4, <1>10

LEMMA AssertionsAreTrue ==
  ASSUME IInv, DroppedAreOld
  PROVE  AssertionsHold
<1>1. ASSUME pc = "mini-LR", OneParser PROVE node[TopParser].referenceCount = 1
  <2>1. prevTopmost = << >> /\ decs = << >> /\ 1 \in DOMAIN topmostParsers
    BY <1>1, OnTop DEF IInv, Phases, OneParser
  <2>2. NotLinked(Shape(node), topmostParsers)
    BY <1>1 DEF IInv, TopsUnlinked
  <2> QED
    BY <2>1, <2>2, ElemsEmpty, ReferredToOnce DEF TopParser
<1>2. ASSUME pc = "shift", NEW i \in DOMAIN topmostParsers
      PROVE  node[topmostParsers[i]].referenceCount = 1
  BY <1>2, ReferredToOnce DEF IInv, TopsUnlinked, DroppedAreOld
<1>3. ASSUME pc = "reduce", frames # << >>, Head(frames).popsRemaining > 0
      PROVE  node[Head(frames).currentNode].sibs # << >>
  <2>1. PICK f : f = Head(frames)
    OBVIOUS
  <2>2. f \in Frame /\ GoodFrame(f, node)
    <3>1. frames \in Seq(Frame) /\ 1 \in DOMAIN frames /\ f = frames[1]
      BY <1>3, <2>1 DEF IInv, TypeOK
    <3> QED
      BY <3>1 DEF IInv, Enumerated
  <2>3. /\ f.currentNode \in Live /\ f.popsRemaining \in Nat
        /\ <<f.prod, f.popsRemaining>> \in Items[States(node)[f.currentNode]]
    BY <2>2 DEF GoodFrame, Frame, Live
  <2>4. Shape(node)[f.currentNode] # << >>
    BY <1>3, <2>1, <2>3, HasLink
  <2> QED
    BY <2>1, <2>3, <2>4, StackIsSound, ShapeAt
<1>4. ASSUME pc = "cleanup"
      PROVE  /\ Len(topmostParsers) = 1
             /\ Len(node[TopParser].sibs) = 1
             /\ Len(node[node[TopParser].sibs[1].sib].sibs) = 1
  BY <1>4, OneParseAtTheEnd
<1> QED
  BY <1>1, <1>2, <1>3, <1>4 DEF AssertionsHold

-----------------------------------------------------------------------------
(* The types of the variables.                                             *)
THEOREM StackTypesCorrect ==
  ASSUME UserValues, AssertedOrNoLoop
  PROVE  Spec => []TypeOK
<1>1. IInv => TypeOK
  BY DEF IInv
<1> QED
  BY <1>1, StackInOrder, PTL

(* The unique-state property of glr.cc: findTopmostParser finds the only   *)
(* parser in a state.                                                      *)
THEOREM StatesAlwaysUnique ==
  ASSUME UserValues, AssertedOrNoLoop
  PROVE  Spec => []UniqueState
<1>1. IInv => UniqueState
  BY StatesDiffer
<1> QED
  BY <1>1, StackInOrder, PTL

(* referenceCount counts what refers to a stack node, through every way    *)
(* glr.cc raises it, lowers it or, in the mini-LR core, leaves it.         *)
THEOREM CountsAlwaysExact ==
  ASSUME UserValues, AssertedOrNoLoop
  PROVE  Spec => []RefCountExact
<1>1. IInv => RefCountExact
  BY CountsAreExact
<1> QED
  BY <1>1, StackInOrder, PTL

(* determinDepth is what computeDeterminDepth would answer, and the loop   *)
(* over the parsers that recomputes it ends with that.                     *)
THEOREM DepthsAlwaysExact ==
  ASSUME UserValues, AssertedOrNoLoop
  PROVE  Spec => []DeterminDepthExact
<1>1. IInv => DeterminDepthExact
  BY DepthsAreExact
<1> QED
  BY <1>1, StackInOrder, PTL

(* The pointers to links and nodes that ReductionPathQueue keeps without a *)
(* reference never dangle.                                                 *)
THEOREM QueuedPathsAlwaysExist ==
  ASSUME UserValues, AssertedOrNoLoop
  PROVE  Spec => []QueuedPathsExist
<1>1. IInv => QueuedPathsExist
  BY PathsExist
<1> QED
  BY <1>1, StackInOrder, PTL

(* No assertion of the nondeterministic core fails, nor the one before the *)
(* mini-LR core reduces.                                                   *)
THEOREM AssertionsAlwaysHold ==
  ASSUME UserValues, AssertedOrNoLoop
  PROVE  Spec => []AssertionsHold
<1>1. Init => DroppedAreOld
  BY DEF Init, DroppedAreOld
<1>2. IInv /\ DroppedAreOld /\ [Next]_vars => DroppedAreOld'
  BY DroppedStayOld
<1>3. IInv /\ DroppedAreOld => AssertionsHold
  BY AssertionsAreTrue
<1> QED
  BY <1>1, <1>2, <1>3, StackInOrder, PTL DEF Spec

-----------------------------------------------------------------------------
(* The steps that do not touch a stack node.                               *)
LEMMA OtherwiseNodesStay ==
  ASSUME Next
  PROVE  \/ GlrParse \/ MiniLRPop \/ MiniLRPush \/ MiniLRShift
         \/ ReduceCancelled \/ ReduceMerge \/ ReduceAddLink \/ ReduceNewParser
         \/ SettleParser \/ ShiftToNew \/ ShiftToExisting
         \/ DropReference \/ FreeNode \/ Return
         \/ UNCHANGED node
<1>1. TakeToken \/ NextToken \/ CleanupAfterParse \/ Accept \/ Aborted => UNCHANGED node
  BY DEF TakeToken, NextToken, CleanupAfterParse, Accept, Aborted, vars, stackVars
<1>2. MiniLRError \/ MiniLRReduce \/ MiniLRPopAssertFails \/ FallBack => UNCHANGED node
  BY DEF MiniLRError, MiniLRReduce, MiniLRPopAssertFails, FallBack, stackVars
<1>3. Enumerate \/ SettleSweepDone => UNCHANGED node
  BY DEF Enumerate, EnqueueReductions, ExtendPath, FinishPath, SettleSweepDone, stackVars
<1>4. StartShifts \/ ShiftDies \/ ShiftsDone => UNCHANGED node
  BY DEF StartShifts, ShiftDies, ShiftsDone, stackVars
<1> QED
  BY <1>1, <1>2, <1>3, <1>4 DEF Next, Parse, MiniLR, Reduce, Shift, Release

LEMMA ShapeFrozen ==
  ASSUME IInv, IInv', NEW gain, StackChanges(gain)
  PROVE  \A n \in Live \cap DOMAIN node' :
           node[n].column < globalNodeColumn =>
             /\ node'[n].state = node[n].state
             /\ DOMAIN node'[n].sibs = DOMAIN node[n].sibs
             /\ \A k \in DOMAIN node[n].sibs : node'[n].sibs[k].sib = node[n].sibs[k].sib
<1>1. IsStack(node') /\ IsStack(node) /\ DOMAIN node' = Live' /\ DOMAIN node = Live
  BY StackIsSound DEF IInv, TypeOK, IsStack, Live
<1>2. ASSUME NEW n \in Live, n \in Live', node[n].column < globalNodeColumn
      PROVE  Shape(node')[n] = Shape(node)[n] /\ States(node')[n] = States(node)[n]
  <2>1. ColumnsOf(node)[n] = node[n].column
    BY <1>1, ShapeAt
  <2> QED
    BY <1>2, <2>1 DEF StackChanges
<1>3. ASSUME NEW n \in Live
      PROVE  /\ DOMAIN Shape(node)[n] = DOMAIN node[n].sibs
             /\ \A k \in DOMAIN node[n].sibs : Shape(node)[n][k] = node[n].sibs[k].sib
             /\ States(node)[n] = node[n].state
  BY <1>1, ShapeAt
<1>4. ASSUME NEW n \in Live'
      PROVE  /\ DOMAIN Shape(node')[n] = DOMAIN node'[n].sibs
             /\ \A k \in DOMAIN node'[n].sibs : Shape(node')[n][k] = node'[n].sibs[k].sib
             /\ States(node')[n] = node'[n].state
  BY <1>1, ShapeAt
<1> QED
  BY <1>1, <1>2, <1>3, <1>4

(* Below the current token the stack stays as it is: what the reductions   *)
(* and shifts of one token change are the parsers of its own column.       *)
THEOREM OldNodesStayFrozen ==
  ASSUME UserValues, AssertedOrNoLoop
  PROVE  Spec => OldNodesFrozen
<1> DEFINE Stays ==
      \A n \in Live \cap DOMAIN node' :
        node[n].column < globalNodeColumn =>
          /\ node'[n].state = node[n].state
          /\ DOMAIN node'[n].sibs = DOMAIN node[n].sibs
          /\ \A k \in DOMAIN node[n].sibs : node'[n].sibs[k].sib = node[n].sibs[k].sib
<1>1. IInv /\ PopSafe /\ IInv' /\ [Next]_vars => [Stays]_vars
  <2> SUFFICES ASSUME IInv, PopSafe, IInv', Next PROVE Stays
    OBVIOUS
  <2>1. CASE \/ GlrParse \/ MiniLRPop \/ MiniLRPush \/ MiniLRShift
             \/ ReduceCancelled \/ ReduceMerge \/ ReduceAddLink \/ ReduceNewParser
             \/ SettleParser \/ ShiftToNew \/ ShiftToExisting
             \/ DropReference \/ FreeNode
    <3>1. \E gain : StackChanges(gain)
      BY <2>1, GlrParseKeeps, MiniLRPopKeeps, MiniLRPushKeeps, MiniLRShiftKeeps,
         ReduceCancelledKeeps, ReduceMergeKeeps, ReduceAddLinkKeeps, ReduceNewParserKeeps,
         SettleParserKeeps, ShiftToNewKeeps, ShiftToExistingKeeps, DropReferenceKeeps,
         FreeNodeKeeps
    <3> QED
      BY <3>1, ShapeFrozen
  <2>2. CASE Return
    <3>1. DOMAIN node' = {}
      BY <2>2 DEF Return
    <3> QED
      BY <3>1
  <2>3. CASE UNCHANGED node
    BY <2>3
  <2> QED
    BY <2>1, <2>2, <2>3, OtherwiseNodesStay
<1> QED
  BY <1>1, StackInOrder, PTL DEF Spec, OldNodesFrozen

-----------------------------------------------------------------------------
(* The values.  A lexeme that is split into pieces has one value for all of*)
(* them, which is then owned more than once; here no lexeme is split.      *)
OnePiece == \A l \in Lexeme : Len(Reclassify[l]) = 1

ValueCount ==
  Cardinality(LinksOf(Shape(node))) + Len(reduction.toPass) + Len(treeTop)
    + (IF TokenUnclaimed THEN 1 ELSE 0)

(* The first shift of a token takes its value.                             *)
Owning ==
  /\ savedTokens = << >>
  /\ pc = "shift" /\ lastShiftLink = NoLink => topmostParsers = << >>
  /\ pc \notin {"idle", "rejected", "aborted"} => owned = ValueCount

LEMMA NoReductionIsEmpty == Len(NoReduction.toPass) = 0
BY DEF NoReduction

(* The steps of the mini-LR core that change the stack.                    *)
LEMMA MiniLRPopOwns ==
  ASSUME PopSafe, IInv, Owning, MiniLRPop
  PROVE  Owning'
<1>1. StackChanges(-1) /\ reduction' \in [prod : ProdIndex, toPass : Seq(SVal)]
  BY MiniLRPopKeeps DEF IInv, TypeOK
<1>2. /\ pc = "pop" /\ pc' = "pop" /\ UNCHANGED <<owned, treeTop, savedTokens>>
  BY DEF MiniLRPop, lexVars, resultVars
<1>3. Len(reduction'.toPass) = Len(reduction.toPass) + 1
  BY OneMoreToPass
<1> QED
  BY <1>1, <1>2, <1>3, CountsFinite DEF Owning, ValueCount, TokenUnclaimed, StackChanges

LEMMA MiniLRPushOwns ==
  ASSUME UserValues, IInv, Owning, MiniLRPush
  PROVE  Owning'
<1>1. StackChanges(1)
  BY MiniLRPushKeeps
<1>2. /\ pc = "pop" /\ pc' \in {"mini-LR", "rejected"} /\ UNCHANGED <<treeTop, savedTokens>>
      /\ reduction' = NoReduction /\ owned' = owned - Len(reduction.toPass) + 1
  BY DEF MiniLRPush, lexVars, resultVars
<1>3. ASSUME pc' = "mini-LR" PROVE owned' = ValueCount'
  <2>1. owned = Cardinality(LinksOf(Shape(node))) + Len(reduction.toPass) + Len(treeTop) + 1
    BY <1>2 DEF Owning, ValueCount, TokenUnclaimed
  <2>2. ValueCount' = Cardinality(LinksOf(Shape(node'))) + Len(reduction'.toPass)
                        + Len(treeTop') + 1
    BY <1>3 DEF ValueCount, TokenUnclaimed
  <2>3. PICK c \in Nat, l \in Nat, d \in Nat :
          /\ c = Cardinality(LinksOf(Shape(node))) /\ l = Len(reduction.toPass)
          /\ d = Len(treeTop)
    BY CountsFinite
  <2>4. Cardinality(LinksOf(Shape(node'))) = c + 1
    BY <1>1, <2>3 DEF StackChanges
  <2>5. owned = c + l + d + 1 /\ ValueCount' = c + 1 + 0 + d + 1
    BY <1>2, <2>1, <2>2, <2>3, <2>4, NoReductionIsEmpty
  <2>6. PICK o \in Int : o = owned
    BY CountsFinite
  <2>7. owned' = o - l + 1 /\ o = c + l + d + 1
    BY <1>2, <2>3, <2>5, <2>6
  <2> QED
    BY <2>5, <2>7
<1> QED
  BY <1>2, <1>3 DEF Owning

LEMMA MiniLRShiftOwns ==
  ASSUME UserValues, IInv, Owning, MiniLRShift
  PROVE  Owning'
<1>1. StackChanges(1)
  BY MiniLRShiftKeeps
<1>2. /\ pc = "mini-LR" /\ pc' = "next" /\ UNCHANGED <<treeTop, savedTokens, reduction, owned>>
  BY DEF MiniLRShift, lexVars, resultVars
<1> QED
  BY <1>1, <1>2, CountsFinite DEF Owning, ValueCount, TokenUnclaimed, StackChanges

(* The steps of the nondeterministic core.                                 *)
LEMMA ReduceOwns ==
  ASSUME UserValues, IInv, Owning, Reduce
  PROVE  Owning'
<1>1. CASE ReduceCancelled \/ ReduceMerge \/ SettleParser
  <2>1. StackChanges(0)
    BY <1>1, ReduceCancelledKeeps, ReduceMergeKeeps, SettleParserKeeps
  <2>2. /\ pc \in {"reduce", "settle"} /\ pc' = pc
        /\ UNCHANGED <<treeTop, savedTokens, reduction, owned>>
    BY <1>1 DEF ReduceCancelled, ReduceMerge, SettleParser, CanReduce, lexVars, resultVars
  <2> QED
    BY <2>1, <2>2, CountsFinite DEF Owning, ValueCount, TokenUnclaimed, StackChanges
<1>2. CASE ReduceAddLink \/ ReduceNewParser
  <2>1. StackChanges(1)
    BY <1>2, ReduceAddLinkKeeps, ReduceNewParserKeeps
  <2>2. /\ pc = "reduce" /\ pc' \in {"reduce", "settle"} /\ owned' = owned + 1
        /\ UNCHANGED <<treeTop, savedTokens, reduction>>
    BY <1>2 DEF ReduceAddLink, ReduceNewParser, CanReduce, lexVars, resultVars
  <2>3. owned = Cardinality(LinksOf(Shape(node))) + Len(reduction.toPass) + Len(treeTop) + 1
    BY <2>2 DEF Owning, ValueCount, TokenUnclaimed
  <2>4. ValueCount' = Cardinality(LinksOf(Shape(node'))) + Len(reduction'.toPass)
                        + Len(treeTop') + 1
    BY <2>2 DEF ValueCount, TokenUnclaimed
  <2>5. PICK c \in Nat, l \in Nat, d \in Nat :
          /\ c = Cardinality(LinksOf(Shape(node))) /\ l = Len(reduction.toPass)
          /\ d = Len(treeTop)
    BY CountsFinite
  <2>6. Cardinality(LinksOf(Shape(node'))) = c + 1
    BY <2>1, <2>5 DEF StackChanges
  <2>7. owned' = c + l + d + 1 + 1 /\ ValueCount' = c + 1 + l + d + 1
    BY <2>2, <2>3, <2>4, <2>5, <2>6
  <2>8. owned' = ValueCount'
    BY <2>7
  <2> QED
    BY <2>2, <2>8 DEF Owning
<1>3. CASE SettleSweepDone
  <2>1. /\ pc = "settle" /\ pc' \in {"reduce", "settle"}
        /\ UNCHANGED <<treeTop, savedTokens, reduction, owned, node>>
    BY <1>3 DEF SettleSweepDone, lexVars, resultVars, stackVars
  <2> QED
    BY <2>1 DEF Owning, ValueCount, TokenUnclaimed
<1> QED
  BY <1>1, <1>2, <1>3 DEF Reduce

LEMMA ShiftOwns ==
  ASSUME UserValues, IInv, Owning, Shift
  PROVE  Owning'
<1>1. CASE StartShifts
  <2>1. /\ pc = "reduce" /\ pc' = "shift" /\ lastShiftLink' = NoLink /\ topmostParsers' = << >>
        /\ UNCHANGED <<treeTop, savedTokens, reduction, owned, node>>
    BY <1>1 DEF StartShifts, lexVars, resultVars
  <2> QED
    BY <2>1 DEF Owning, ValueCount, TokenUnclaimed
<1>2. CASE ShiftDies
  <2>1. UNCHANGED <<pc, topmostParsers, lastShiftLink, treeTop, savedTokens, reduction, owned, node>>
    BY <1>2 DEF ShiftDies, lexVars, resultVars
  <2> QED
    BY <2>1 DEF Owning, ValueCount, TokenUnclaimed
<1>3. CASE ShiftToNew \/ ShiftToExisting
  <2>1. StackChanges(1)
    BY <1>3, ShiftToNewKeeps, ShiftToExistingKeeps
  <2>2. /\ pc = "shift" /\ pc' = "shift" /\ UNCHANGED <<treeTop, savedTokens, reduction>>
        /\ owned' = IF lastShiftLink = NoLink THEN owned ELSE owned + 1
    BY <1>3 DEF ShiftToNew, ShiftToExisting, Shifting, OwnedAfterShift, lexVars, resultVars
  <2>3. lastShiftLink' # NoLink
    <3>1. lastShiftLink'[1] \in NodeId
      <4>1. CASE ShiftToNew
        BY <4>1, StackIsSound, FreshNodeIsNew DEF ShiftToNew
      <4>2. CASE ShiftToExisting
        <5>1. ShiftTarget \in Elems(topmostParsers)
          BY <4>2, FindTopmost DEF ShiftToExisting, ShiftTarget
        <5> QED
          BY <4>2, <5>1, StackIsSound DEF ShiftToExisting, IInv, Counted, IsStack
      <4> QED
        BY <1>3, <4>1, <4>2
    <3>2. NoLink[1] = 0
      BY DEF NoLink, Null
    <3> QED
      BY <3>1, <3>2 DEF NodeId
  <2> QED
    BY <2>1, <2>2, <2>3, CountsFinite DEF Owning, ValueCount, TokenUnclaimed, StackChanges
<1>4. CASE ShiftsDone
  <2>1. /\ pc = "shift" /\ pc' = (IF topmostParsers = << >> THEN "rejected" ELSE "next")
        /\ UNCHANGED <<treeTop, savedTokens, reduction, owned, node>>
    BY <1>4 DEF ShiftsDone, lexVars, resultVars, stackVars
  <2> QED
    BY <2>1 DEF Owning, ValueCount, TokenUnclaimed
<1> QED
  BY <1>1, <1>2, <1>3, <1>4 DEF Shift

LEMMA ReleaseOwns ==
  ASSUME IInv, Owning, Release
  PROVE  Owning'
<1>1. CASE DropReference
  <2>1. StackChanges(0)
    BY <1>1, DropReferenceKeeps
  <2>2. UNCHANGED <<pc, topmostParsers, lastShiftLink, treeTop, savedTokens, reduction, owned>>
    BY <1>1 DEF DropReference, lexVars, resultVars
  <2> QED
    BY <2>1, <2>2, CountsFinite DEF Owning, ValueCount, TokenUnclaimed, StackChanges
<1>2. CASE FreeNode
  <2>1. PICK len : len = Len(node[Head(decs)].sibs)
    OBVIOUS
  <2>2. StackChanges(-len) /\ len \in Nat
    <3>1. 1 \in DOMAIN decs /\ Head(decs) = decs[1] /\ decs[1] \in Live
      <4>1. decs \in Seq(NodeId) /\ decs # << >>
        BY <1>2 DEF FreeNode, IInv, TypeOK
      <4>2. 1 \in DOMAIN decs /\ Head(decs) = decs[1]
        BY <4>1
      <4> QED
        BY <4>2 DEF IInv, Counted, Elems
    <3>2. node[Head(decs)].sibs \in Seq(SiblingLink)
      BY <3>1, StackIsSound DEF IsStack, StackNode
    <3> QED
      BY <1>2, <2>1, <3>2, FreeNodeKeeps
  <2>3. /\ UNCHANGED <<pc, topmostParsers, lastShiftLink, treeTop, savedTokens, reduction>>
        /\ owned' = owned - len
    BY <1>2, <2>1 DEF FreeNode, lexVars, resultVars
  <2> QED
    BY <2>2, <2>3, CountsFinite DEF Owning, ValueCount, TokenUnclaimed, StackChanges
<1> QED
  BY <1>1, <1>2 DEF Release

(* The steps that start and end a token or a parse.                        *)
LEMMA GlrParseOwns ==
  ASSUME IInv, Owning, GlrParse
  PROVE  Owning'
<1>1. Cardinality(LinksOf(Shape(node))) = 0
  <2>1. DOMAIN Shape(node) = {}
    BY DEF IInv, Phases, GlrParse, Shape
  <2>2. LinksOf(Shape(node)) = {}
    BY <2>1 DEF LinksOf
  <2> QED
    BY <2>2, FS_EmptySet
<1>2. Cardinality(LinksOf(Shape(node'))) = 0
  BY <1>1, GlrParseKeeps DEF StackChanges
<1>3. /\ pc' = "token" /\ owned' = 1 /\ savedTokens' = savedTokens
      /\ Len(reduction'.toPass) = 0 /\ Len(treeTop') = 0
  BY NoReductionIsEmpty DEF IInv, Phases, GlrParse, resultVars
<1> QED
  BY <1>2, <1>3 DEF Owning, ValueCount, TokenUnclaimed

LEMMA TakeTokenOwns ==
  ASSUME OnePiece, IInv, Owning, TakeToken
  PROVE  Owning'
<1>1. Pieces # << >> /\ Tail(Pieces) = << >>
  <2>1. CASE position <= Len(text)
    <3>1. text[position] \in Lexeme
      BY <2>1 DEF IInv, TypeOK
    <3>2. /\ Reclassify[text[position]] \in Seq(TermIndex)
          /\ Len(Reclassify[text[position]]) = 1
      BY <3>1, LexerAssumption DEF OnePiece
    <3>3. PICK q \in Seq(TermIndex) : q = Reclassify[text[position]]
      BY <3>2
    <3>4. q # << >> /\ Tail(q) = << >>
      <4>1. Len(q) = 1
        BY <3>2, <3>3
      <4>2. q # << >>
        BY <4>1, EmptySeq
      <4>3. Tail(q) \in Seq(TermIndex) /\ Len(Tail(q)) = Len(q) - 1
        BY <3>3, <4>2, HeadTailProperties
      <4>4. Len(Tail(q)) = 0
        BY <4>1, <4>3
      <4> QED
        BY <4>2, <4>3, <4>4, EmptySeq
    <3> QED
      BY <2>1, <3>3, <3>4 DEF Pieces
  <2>2. CASE ~ (position <= Len(text))
    BY <2>2 DEF Pieces
  <2> QED
    BY <2>1, <2>2
<1>2. savedTokens' = << >>
  BY <1>1 DEF Owning, TakeToken
<1>3. pc = "token" /\ pc' = "mini-LR" /\ UNCHANGED <<node, reduction, owned, treeTop>>
  BY DEF TakeToken, stackVars, resultVars
<1> QED
  BY <1>2, <1>3 DEF Owning, ValueCount, TokenUnclaimed

LEMMA MiniLROwns ==
  ASSUME UserValues, PopSafe, IInv, Owning, MiniLR
  PROVE  Owning'
<1>1. CASE MiniLRPop \/ MiniLRPush \/ MiniLRShift
  BY <1>1, MiniLRPopOwns, MiniLRPushOwns, MiniLRShiftOwns
<1>2. CASE MiniLRError \/ MiniLRPopAssertFails
  <2>1. pc' \in {"rejected", "aborted"} /\ savedTokens' = savedTokens
    BY <1>2 DEF MiniLRError, MiniLRPopAssertFails, lexVars
  <2> QED
    BY <2>1 DEF Owning
<1>3. CASE MiniLRReduce
  <2>1. /\ pc = "mini-LR" /\ pc' = "pop" /\ UNCHANGED <<savedTokens, node, owned, treeTop>>
        /\ Len(reduction'.toPass) = 0
    BY <1>3 DEF MiniLRReduce, lexVars, stackVars, resultVars
  <2>2. Len(reduction.toPass) = 0
    BY <2>1, NoReductionIsEmpty DEF IInv, Phases
  <2> QED
    BY <2>1, <2>2 DEF Owning, ValueCount, TokenUnclaimed
<1>4. CASE FallBack
  <2>1. /\ pc = "mini-LR" /\ pc' = "reduce"
        /\ UNCHANGED <<savedTokens, node, reduction, owned, treeTop>>
    BY <1>4 DEF FallBack, lexVars, stackVars, resultVars
  <2> QED
    BY <2>1 DEF Owning, ValueCount, TokenUnclaimed
<1> QED
  BY <1>1, <1>2, <1>3, <1>4 DEF MiniLR

LEMMA NextTokenOwns ==
  ASSUME IInv, Owning, NextToken
  PROVE  Owning'
<1>1. /\ pc = "next" /\ savedTokens = << >> /\ UNCHANGED <<savedTokens, node, reduction, treeTop>>
      /\ IF lexer.type = 0 THEN pc' = "cleanup" /\ owned' = owned
                           ELSE pc' = "token" /\ owned' = owned + 1
  BY DEF Owning, NextToken, stackVars, resultVars
<1>2. PICK c \in Nat, l \in Nat, d \in Nat :
        /\ c = Cardinality(LinksOf(Shape(node))) /\ l = Len(reduction.toPass)
        /\ d = Len(treeTop)
  BY CountsFinite
<1>3. owned = c + l + d + 0
  BY <1>1, <1>2 DEF Owning, ValueCount, TokenUnclaimed
<1>4. ValueCount' = c + l + d + (IF pc' = "token" THEN 1 ELSE 0)
  BY <1>1, <1>2 DEF ValueCount, TokenUnclaimed
<1>5. owned' = ValueCount'
  BY <1>1, <1>3, <1>4
<1> QED
  BY <1>1, <1>5 DEF Owning

LEMMA CleanupAfterParseOwns ==
  ASSUME IInv, Owning, CleanupAfterParse
  PROVE  Owning'
<1>1. pc = "cleanup" /\ UNCHANGED <<savedTokens, node, reduction>>
  BY DEF CleanupAfterParse, lexVars
<1>2. CASE Len(topmostParsers) # 1
  <2>1. pc' = "rejected"
    BY <1>2 DEF CleanupAfterParse
  <2> QED
    BY <1>1, <2>1 DEF Owning
<1>3. CASE Len(topmostParsers) = 1
  <2>1. pc' = "release" /\ owned' = owned + 1 /\ Len(treeTop') = 1
    BY <1>3 DEF CleanupAfterParse
  <2>2. Len(treeTop) = 0
    BY <1>1 DEF IInv, Phases
  <2>3. PICK c \in Nat, l \in Nat :
          c = Cardinality(LinksOf(Shape(node))) /\ l = Len(reduction.toPass)
    BY CountsFinite
  <2>4. owned = c + l + 0 + 0
    BY <1>1, <2>2, <2>3 DEF Owning, ValueCount, TokenUnclaimed
  <2>5. ValueCount' = c + l + 1 + 0
    BY <1>1, <2>1, <2>3 DEF ValueCount, TokenUnclaimed
  <2>6. owned' = ValueCount'
    BY <2>1, <2>4, <2>5
  <2> QED
    BY <1>1, <2>1, <2>6 DEF Owning
<1> QED
  BY <1>2, <1>3

LEMMA StepOwns ==
  ASSUME UserValues, PopSafe, OnePiece, IInv, Owning, [Next]_vars
  PROVE  Owning'
<1>1. CASE Enumerate
  <2>1. /\ pc = "reduce" /\ pc' = pc
        /\ UNCHANGED <<savedTokens, node, reduction, owned, treeTop>>
    BY <1>1 DEF Enumerate, EnqueueReductions, ExtendPath, FinishPath, lexVars, stackVars, resultVars
  <2> QED
    BY <2>1 DEF Owning, ValueCount, TokenUnclaimed
<1>2. CASE Accept
  <2>1. /\ pc = "release" /\ pc' = "accepted"
        /\ UNCHANGED <<savedTokens, node, reduction, owned, treeTop>>
    BY <1>2 DEF Accept, lexVars, stackVars, resultVars
  <2> QED
    BY <2>1 DEF Owning, ValueCount, TokenUnclaimed
<1>3. CASE Return
  BY <1>3 DEF Return, Owning
<1>4. CASE Aborted \/ UNCHANGED vars
  <2>1. UNCHANGED <<pc, lastShiftLink, topmostParsers, savedTokens, node, reduction, owned, treeTop>>
    BY <1>4 DEF Aborted, vars, lexVars, stackVars, resultVars
  <2> QED
    BY <2>1 DEF Owning, ValueCount, TokenUnclaimed
<1>5. CASE GlrParse \/ TakeToken \/ MiniLR
  BY <1>5, GlrParseOwns, TakeTokenOwns, MiniLROwns
<1>6. CASE Reduce \/ Shift \/ Release
  BY <1>6, ReduceOwns, ShiftOwns, ReleaseOwns
<1>7. CASE NextToken \/ CleanupAfterParse
  BY <1>7, NextTokenOwns, CleanupAfterParseOwns
<1> QED
  BY <1>1, <1>2, <1>3, <1>4, <1>5, <1>6, <1>7 DEF Next, Parse

(* No value is lost and none is used twice, whatever the user's actions    *)
(* answer and however the parses fork and meet, when no lexeme is split    *)
(* into pieces: what the code owns in between is one value per link of the *)
(* stack, and those on their way.                                          *)
THEOREM ValuesAlwaysOwnedOnce ==
  ASSUME UserValues, AssertedOrNoLoop, OnePiece
  PROVE  Spec => []ValuesOwnedOnce
<1>1. Init => Owning
  BY DEF Init, Owning
<1>2. IInv /\ PopSafe /\ Owning /\ [Next]_vars => Owning'
  BY StepOwns
<1>3. IInv /\ Owning => ValuesOwnedOnce
  BY LinksAreOfShape DEF Owning, ValueCount, ValuesOwnedOnce
<1> QED
  BY <1>1, <1>2, <1>3, StackInOrder, PTL DEF Spec

-----------------------------------------------------------------------------
LEMMA AllReleased ==
  ASSUME NEW empty, NEW rest, NEW height, NoEmptyLoop(empty, rest, height),
         IInv, Owning, Downhill(empty)
  PROVE  EverythingReleased
<1> SUFFICES ASSUME pc = "accepted" PROVE node = << >> /\ owned = 1
  BY DEF EverythingReleased
<1>1. topmostParsers = << >> /\ prevTopmost = << >> /\ decs = << >> /\ reduction = NoReduction
      /\ treeTop # << >> /\ Len(treeTop) <= 1
  BY DEF IInv, Phases
<1>2. ASSUME NEW n \in Live PROVE In(Shape(node), n) > 0
  <2>1. Occ(n, topmostParsers) = 0 /\ Occ(n, prevTopmost) = 0 /\ Occ(n, decs) = 0
    BY <1>1, OccEmpty
  <2>2. Counts(node)[n] = In(Shape(node), n)
    BY <2>1, StackIsSound DEF IInv, Counted
  <2> QED
    BY <2>2 DEF Downhill
<1>3. Live = {}
  BY <1>2, NothingLinked
<1>4. node = << >>
  BY <1>3, StackIsSound DEF IsStack
<1>5. Cardinality(LinksOf(Shape(node))) = 0
  <2>1. LinksOf(Shape(node)) = {}
    BY <1>3, StackIsSound DEF LinksOf
  <2> QED
    BY <2>1, FS_EmptySet
<1>6. Len(treeTop) = 1
  <2>1. treeTop \in Seq(SVal)
    BY DEF IInv, TypeOK
  <2>2. PICK l \in Nat \ {0} : l = Len(treeTop)
    BY <1>1, <2>1, EmptySeq
  <2>3. l <= 1
    BY <1>1, <2>2
  <2> QED
    BY <2>2, <2>3
<1>7. owned = 1
  BY <1>1, <1>5, <1>6, NoReductionIsEmpty DEF Owning, ValueCount, TokenUnclaimed
<1> QED
  BY <1>4, <1>7

(* A parse that accepts its text gives everything back, whatever the user's*)
(* actions answer and however often the stack forked: glrParse returns with*)
(* no stack node left and the tree as the only value.  It is about grammars*)
(* without hidden left recursion and lexemes that are not split.           *)
THEOREM EverythingAlwaysReleased ==
  ASSUME UserValues, NoHiddenLeftRecursion, OnePiece
  PROVE  Spec => []EverythingReleased
<1>1. PICK empty, rest, height : NoEmptyLoop(empty, rest, height)
  BY DEF NoHiddenLeftRecursion
<1>2. Spec => [](IInv /\ Downhill(empty) /\ PoppedLinkUnshared)
  BY <1>1, PoppedAlwaysUnshared
<1>3. Init => Owning
  BY DEF Init, Owning
<1>4. IInv /\ PoppedLinkUnshared /\ Owning /\ [Next]_vars => Owning'
  BY StepOwns DEF PopSafe
<1>5. IInv /\ Owning /\ Downhill(empty) => EverythingReleased
  BY <1>1, AllReleased
<1> QED
  BY <1>2, <1>3, <1>4, <1>5, PTL DEF Spec

-----------------------------------------------------------------------------
(* The worklist misses no reduction: whenever it is empty every parser on  *)
(* top has made each of its reductions over each path of the stack, though *)
(* a new link has made it look only at the paths that use that link.       *)

(* A walk down the stack over d links: the nodes nd[0] to nd[d], and the   *)
(* positions of the links between them.                                    *)
Walk(w, nd, k, d) ==
  /\ \A i \in 0..d : nd[i] \in DOMAIN w
  /\ \A i \in 1..d : k[i] \in DOMAIN w[nd[i - 1]] /\ w[nd[i - 1]][k[i]] = nd[i]

(* A search that has come i links far finds the walk, if the link it must  *)
(* use is still to come.                                                   *)
MayUse(must, nd, k, i, d) ==
  must = NoLink \/ \E j \in (i + 1)..d : must = <<nd[j - 1], k[j]>>

(* The reduction is made, waits, or will be found: a search is on the walk,*)
(* or has yet to start.                                                    *)
Made(p, left) ==
  \E m \in Elems(topmostParsers) :
    /\ States(node)[m] = GotoTable[States(node)[left]][ProdInfo[p].lhsIndex]
    /\ \E j \in DOMAIN Shape(node)[m] : Shape(node)[m][j] = left
Waiting(p, left) ==
  \E q \in DOMAIN pathQueue : pathQueue[q].prod = p /\ pathQueue[q].leftEdge = left
FollowedBy(f, p, nd, k, d) ==
  /\ f.prod = p /\ f.popsRemaining \in 0..d
  /\ f.currentNode = nd[d - f.popsRemaining]
  /\ MayUse(f.mustUseLink, nd, k, d - f.popsRemaining, d)
Followed(p, nd, k, d) == \E f \in DOMAIN frames : FollowedBy(frames[f], p, nd, k, d)
Requested(nd, k, d) ==
  \E r \in DOMAIN requests :
    requests[r].parser = nd[0] /\ MayUse(requests[r].mustUseLink, nd, k, 0, d)

Sought(p, nd, k, d) ==
  Made(p, nd[d]) \/ Waiting(p, nd[d]) \/ Followed(p, nd, k, d) \/ Requested(nd, k, d)

Reductions(n) == LET reds == GetActionEntry(n).reds IN {reds[r] : r \in DOMAIN reds}

AllSought ==
  pc \in {"reduce", "settle"} =>
    \A nd, k :
      nd[0] \in Elems(topmostParsers) =>
        \A p \in Reductions(nd[0]) :
          Walk(Shape(node), nd, k, ProdInfo[p].rhsLen) =>
            Sought(p, nd, k, ProdInfo[p].rhsLen)

-----------------------------------------------------------------------------
(* What the parsers on top can reduce by.                                  *)
LEMMA ReductionsKnown ==
  ASSUME IInv, NEW n \in Elems(topmostParsers)
  PROVE  /\ n \in Live /\ Reductions(n) \subseteq ProdIndex
         /\ \A p \in Reductions(n) : ProdInfo[p].rhsLen \in Nat
<1>1. n \in Live /\ node[n].state \in StateId /\ lexer.type \in TermIndex
  BY DEF IInv, Counted, TypeOK, StackNode
<1>2. ActionTable[node[n].state][lexer.type].reds \in Seq(ProdIndex)
  BY <1>1, TablesAssumption DEF ActionEntry
<1>3. Reductions(n) \subseteq ProdIndex
  BY <1>2 DEF Reductions, GetActionEntry
<1> QED
  BY <1>1, <1>3, ProdInfoAssumption

(* Where the stack and the token stay, so do the walks and what is made.   *)
LEMMA SameSearch ==
  ASSUME IInv, AllSought, pc \in {"reduce", "settle"},
         IsStack(node'), DOMAIN node' = Live, SameViews(node', node),
         UNCHANGED <<topmostParsers, lexer>>,
         \A p, nd, k : \A d \in Nat :
           /\ nd[0] \in Elems(topmostParsers) /\ p \in Reductions(nd[0])
           /\ d = ProdInfo[p].rhsLen /\ Walk(Shape(node), nd, k, d)
           /\ Sought(p, nd, k, d)
           => Sought(p, nd, k, d)'
  PROVE  AllSought'
<1> SUFFICES ASSUME NEW nd, NEW k, nd[0] \in Elems(topmostParsers'),
                    NEW p \in Reductions(nd[0])',
                    Walk(Shape(node'), nd, k, ProdInfo[p].rhsLen)
             PROVE  Sought(p, nd, k, ProdInfo[p].rhsLen)'
  BY DEF AllSought
<1>1. nd[0] \in Elems(topmostParsers) /\ nd[0] \in Live
  BY ReductionsKnown
<1>2. node'[nd[0]].state = node[nd[0]].state
  <2>1. States(node')[nd[0]] = States(node)[nd[0]]
    BY DEF SameViews
  <2> QED
    BY <1>1, <2>1, StackIsSound, ShapeAt
<1>3. p \in Reductions(nd[0])
  BY <1>2 DEF Reductions, GetActionEntry
<1>4. Walk(Shape(node), nd, k, ProdInfo[p].rhsLen) /\ ProdInfo[p].rhsLen \in Nat
  BY <1>1, <1>3, ReductionsKnown DEF SameViews
<1>5. Sought(p, nd, k, ProdInfo[p].rhsLen)
  BY <1>1, <1>3, <1>4 DEF AllSought
<1> QED
  BY <1>1, <1>3, <1>4, <1>5

LEMMA OtherThanHead ==
  ASSUME NEW S, NEW s \in Seq(S), s # << >>
  PROVE  /\ 1 \in DOMAIN s /\ Head(s) = s[1]
         /\ \A r \in DOMAIN s :
              r # 1 => r - 1 \in DOMAIN Tail(s) /\ Tail(s)[r - 1] = s[r]
<1>1. PICK l \in Nat : l = Len(s)
  OBVIOUS
<1>2. PICK t : t = Tail(s)
  OBVIOUS
<1>3. /\ DOMAIN s = 1..l /\ l > 0 /\ t \in Seq(S) /\ Len(t) = l - 1
      /\ \A i \in 1..(l - 1) : t[i] = s[i + 1]
  BY <1>1, <1>2
<1>4. DOMAIN t = 1..(l - 1)
  BY <1>3
<1>5. ASSUME NEW r \in DOMAIN s, r # 1
      PROVE  r - 1 \in DOMAIN t /\ t[r - 1] = s[r]
  <2>1. r - 1 \in 1..(l - 1) /\ (r - 1) + 1 = r
    BY <1>1, <1>3, <1>5
  <2> QED
    BY <1>3, <1>4, <2>1
<1>6. 1 \in DOMAIN s /\ Head(s) = s[1]
  BY <1>1, <1>3
<1> QED
  BY <1>2, <1>5, <1>6

(* Where only the search goes on.                                          *)
LEMMA SearchGoesOn ==
  ASSUME IInv, AllSought, pc \in {"reduce", "settle"}, UNCHANGED <<node, topmostParsers, lexer>>,
         \A p, nd, k : \A d \in Nat :
           /\ nd[0] \in Elems(topmostParsers) /\ p \in Reductions(nd[0])
           /\ d = ProdInfo[p].rhsLen /\ Walk(Shape(node), nd, k, d)
           => /\ Waiting(p, nd[d]) => Waiting(p, nd[d])'
              /\ Followed(p, nd, k, d) => Sought(p, nd, k, d)'
              /\ Requested(nd, k, d) => Sought(p, nd, k, d)'
  PROVE  AllSought'
<1>1. IsStack(node') /\ DOMAIN node' = Live /\ SameViews(node', node)
  BY StackIsSound DEF SameViews
<1>2. \A p, left : Made(p, left) => Made(p, left)'
  BY DEF Made
<1>3. \A p, nd, k : \A d \in Nat :
        /\ nd[0] \in Elems(topmostParsers) /\ p \in Reductions(nd[0])
        /\ d = ProdInfo[p].rhsLen /\ Walk(Shape(node), nd, k, d)
        /\ Sought(p, nd, k, d)
        => Sought(p, nd, k, d)'
  BY <1>2 DEF Sought
<1> QED
  BY <1>1, <1>3, SameSearch

LEMMA FallBackSeeks ==
  ASSUME IInv, FallBack
  PROVE  AllSought'
<1> SUFFICES ASSUME NEW nd, NEW k, nd[0] \in Elems(topmostParsers')
             PROVE  \A d : Requested(nd, k, d)'
  BY DEF AllSought, Sought
<1>1. topmostParsers' = topmostParsers
  BY DEF FallBack, stackVars
<1>2. PICK i \in DOMAIN topmostParsers : topmostParsers[i] = nd[0]
  BY <1>1 DEF Elems
<1>3. i \in DOMAIN requests' /\ requests'[i] = [parser |-> nd[0], mustUseLink |-> NoLink]
  BY <1>2 DEF FallBack, EnqueueAll
<1> QED
  BY <1>3 DEF Requested, MayUse

LEMMA EnqueueReductionsSeeks ==
  ASSUME IInv, AllSought, EnqueueReductions
  PROVE  AllSought'
<1>1. /\ pc = "reduce" /\ UNCHANGED <<node, topmostParsers, lexer, pathQueue>>
      /\ requests \in Seq(Request) /\ requests # << >> /\ requests' = Tail(requests)
      /\ frames = << >>
  BY DEF IInv, EnqueueReductions, TypeOK, stackVars, lexVars
<1>2. /\ 1 \in DOMAIN requests /\ Head(requests) = requests[1]
      /\ \A r \in DOMAIN requests :
           r # 1 => r - 1 \in DOMAIN Tail(requests) /\ Tail(requests)[r - 1] = requests[r]
  BY <1>1, OtherThanHead
<1>3. ASSUME NEW p, NEW nd, NEW k, NEW d \in Nat, p \in Reductions(nd[0]),
             d = ProdInfo[p].rhsLen, requests[1].parser = nd[0],
             MayUse(requests[1].mustUseLink, nd, k, 0, d)
      PROVE  Followed(p, nd, k, d)'
  <2>1. PICK reds, must : reds = GetActionEntry(nd[0]).reds /\ must = requests[1].mustUseLink
    OBVIOUS
  <2>2. PICK r \in DOMAIN reds : reds[r] = p
    BY <1>3, <2>1 DEF Reductions
  <2>3. frames' = [i \in DOMAIN reds |->
                     [prod |-> reds[i], popsRemaining |-> ProdInfo[reds[i]].rhsLen,
                      currentNode |-> nd[0], sibLinks |-> << >>, mustUseLink |-> must]]
    BY <1>2, <1>3, <2>1 DEF EnqueueReductions
  <2>4. /\ r \in DOMAIN frames' /\ frames'[r].prod = p /\ frames'[r].popsRemaining = d
        /\ frames'[r].currentNode = nd[0] /\ frames'[r].mustUseLink = must
    BY <1>3, <2>2, <2>3
  <2>5. d \in 0..d /\ d - d = 0
    OBVIOUS
  <2>6. FollowedBy(frames'[r], p, nd, k, d)
    BY <1>3, <2>1, <2>4, <2>5 DEF FollowedBy
  <2> QED
    BY <2>4, <2>6 DEF Followed
<1>4. ASSUME NEW p, NEW nd, NEW k, NEW d \in Nat, p \in Reductions(nd[0]),
             d = ProdInfo[p].rhsLen, Requested(nd, k, d)
      PROVE  Sought(p, nd, k, d)'
  <2>1. PICK r \in DOMAIN requests : /\ requests[r].parser = nd[0]
                                     /\ MayUse(requests[r].mustUseLink, nd, k, 0, d)
    BY <1>4 DEF Requested
  <2>2. CASE r = 1
    BY <1>3, <1>4, <2>1, <2>2 DEF Sought
  <2>3. CASE r # 1
    <3>1. Requested(nd, k, d)'
      BY <1>1, <1>2, <2>1, <2>3 DEF Requested
    <3> QED
      BY <3>1 DEF Sought
  <2> QED
    BY <2>2, <2>3
<1>5. \A p, nd, k : \A d \in Nat : ~ Followed(p, nd, k, d)
  BY <1>1 DEF Followed
<1>6. \A p, left : Waiting(p, left) => Waiting(p, left)'
  BY <1>1 DEF Waiting
<1> QED
  BY <1>1, <1>4, <1>5, <1>6, SearchGoesOn

(* A search goes on over each link of the node that it has come to.        *)
LEMMA LinkFollowed ==
  ASSUME NEW f, NEW p, NEW nd, NEW k, NEW d \in Nat, FollowedBy(f, p, nd, k, d),
         f = [prod |-> f.prod, popsRemaining |-> f.popsRemaining, currentNode |-> f.currentNode,
              sibLinks |-> f.sibLinks, mustUseLink |-> f.mustUseLink],
         f.popsRemaining > 0, NEW i, i = d - f.popsRemaining + 1,
         node[f.currentNode].sibs[k[i]].sib = nd[i]
  PROVE  FollowedBy(CollectPathLink(f, k[i]), p, nd, k, d)
<1>1. PICK g, pops, must : /\ g = CollectPathLink(f, k[i]) /\ pops = f.popsRemaining
                           /\ must = f.mustUseLink
  OBVIOUS
<1>2. PICK link : link = <<nd[i - 1], k[i]>>
  OBVIOUS
<1>3. /\ f.prod = p /\ pops \in 0..d /\ pops > 0 /\ i = d - pops + 1 /\ i \in 1..d
      /\ i - 1 = d - pops /\ f.currentNode = nd[i - 1] /\ MayUse(must, nd, k, i - 1, d)
      /\ pops - 1 \in 0..d /\ d - (pops - 1) = i
  BY <1>1 DEF FollowedBy
<1>4. g.prod = p /\ g.popsRemaining = pops - 1 /\ g.currentNode = nd[i]
      /\ g.mustUseLink = IF link = must THEN NoLink ELSE must
  BY <1>1, <1>2, <1>3 DEF CollectPathLink
<1>5. MayUse(g.mustUseLink, nd, k, i, d)
  <2>1. CASE g.mustUseLink = NoLink
    BY <2>1 DEF MayUse
  <2>2. CASE g.mustUseLink # NoLink
    <3>1. g.mustUseLink = must /\ must # NoLink /\ link # must
      BY <1>4, <2>2
    <3>2. PICK j \in i..d : must = <<nd[j - 1], k[j]>>
      BY <1>3, <3>1 DEF MayUse
    <3>3. j # i
      BY <1>2, <3>1, <3>2
    <3>4. j \in (i + 1)..d
      BY <1>3, <3>2, <3>3
    <3> QED
      BY <3>1, <3>2, <3>4 DEF MayUse
  <2> QED
    BY <2>1, <2>2
<1> QED
  BY <1>1, <1>3, <1>4, <1>5 DEF FollowedBy

LEMMA ExtendPathSeeks ==
  ASSUME IInv, AllSought, ExtendPath
  PROVE  AllSought'
<1>1. /\ pc = "reduce" /\ UNCHANGED <<node, topmostParsers, lexer, pathQueue, requests>>
      /\ frames \in Seq(Frame) /\ frames # << >>
  BY DEF IInv, ExtendPath, TypeOK, stackVars, lexVars
<1>2. PICK f, n, rest, l : /\ f = Head(frames) /\ n = f.currentNode /\ rest = Tail(frames)
                           /\ l = Len(node[n].sibs)
  OBVIOUS
<1>3. /\ 1 \in DOMAIN frames /\ f = frames[1] /\ f \in Frame /\ rest \in Seq(Frame)
      /\ \A i \in DOMAIN frames : i # 1 => i - 1 \in DOMAIN rest /\ rest[i - 1] = frames[i]
  <2>1. /\ 1 \in DOMAIN frames /\ Head(frames) = frames[1]
        /\ \A i \in DOMAIN frames :
             i # 1 => i - 1 \in DOMAIN Tail(frames) /\ Tail(frames)[i - 1] = frames[i]
    BY <1>1, OtherThanHead
  <2>2. Tail(frames) \in Seq(Frame) /\ frames[1] \in Frame
    BY <1>1, <2>1
  <2> QED
    BY <1>2, <2>1, <2>2
<1>4. n \in Live /\ f.popsRemaining \in Nat /\ f.popsRemaining > 0
  BY <1>2, <1>3 DEF IInv, Enumerated, GoodFrame, Frame, ExtendPath, Live
<1>5. /\ node[n].sibs \in Seq(SiblingLink) /\ l \in Nat /\ DOMAIN node[n].sibs = 1..l
      /\ DOMAIN Shape(node)[n] = 1..l
      /\ \A j \in 1..l : Shape(node)[n][j] = node[n].sibs[j].sib
  <2>1. node[n].sibs \in Seq(SiblingLink)
    BY <1>4, StackIsSound DEF IsStack, StackNode
  <2> QED
    BY <1>2, <1>4, <2>1, StackIsSound, ShapeAt
<1>6. PICK order : order = IterationOrder(n)
  OBVIOUS
<1>7. order = [j \in 1..l |-> IF j = 1 THEN 1 ELSE l + 2 - j]
  BY <1>2, <1>6 DEF IterationOrder
<1>8. \A j \in 1..l : \E a \in 1..l : order[a] = j
  <2> SUFFICES ASSUME NEW j \in 1..l PROVE \E a \in 1..l : order[a] = j
    OBVIOUS
  <2>1. CASE j = 1
    BY <1>5, <1>7, <2>1
  <2>2. CASE j # 1
    <3>1. l + 2 - j \in 1..l /\ l + 2 - j # 1 /\ l + 2 - (l + 2 - j) = j
      BY <1>5, <2>2
    <3> QED
      BY <1>7, <3>1
  <2> QED
    BY <2>1, <2>2
<1>9. PICK new : new = [a \in 1..l |-> CollectPathLink(f, order[a])]
  OBVIOUS
<1>10. frames' = new \o rest
  BY <1>2, <1>6, <1>7, <1>9 DEF ExtendPath
<1>11. PICK m \in Nat : m = Len(rest)
  BY <1>3
<1>12. /\ Len(new) = l /\ DOMAIN rest = 1..m /\ DOMAIN frames' = 1..(l + m)
       /\ \A a \in 1..l : frames'[a] = new[a]
       /\ \A i \in 1..m : frames'[l + i] = rest[i]
  <2>1. new \in Seq({new[a] : a \in 1..l}) /\ Len(new) = l
    BY <1>5, <1>9
  <2> QED
    BY <1>3, <1>5, <1>9, <1>10, <1>11, <2>1
<1>13. ASSUME NEW p, NEW nd, NEW k, NEW d \in Nat, Walk(Shape(node), nd, k, d),
              Followed(p, nd, k, d)
       PROVE  Followed(p, nd, k, d)'
  <2>1. PICK i \in DOMAIN frames : FollowedBy(frames[i], p, nd, k, d)
    BY <1>13 DEF Followed
  <2>2. CASE i = 1
    <3>1. PICK e : e = d - f.popsRemaining + 1
      OBVIOUS
    <3>2. FollowedBy(f, p, nd, k, d) /\ n = nd[e - 1] /\ e \in 1..d
      <4>1. PICK pops \in Nat : pops = f.popsRemaining
        BY <1>4
      <4>2. FollowedBy(f, p, nd, k, d)
        BY <1>3, <2>1, <2>2
      <4>3. pops \in 0..d /\ n = nd[d - pops]
        BY <1>2, <4>1, <4>2 DEF FollowedBy
      <4>4. pops > 0 /\ e = d - pops + 1
        BY <1>4, <3>1, <4>1
      <4>5. e - 1 = d - pops /\ e \in 1..d
        BY <4>3, <4>4
      <4> QED
        BY <4>2, <4>3, <4>5
    <3>3. k[e] \in 1..l /\ node[n].sibs[k[e]].sib = nd[e]
      BY <1>5, <1>13, <3>2 DEF Walk
    <3>4. FollowedBy(CollectPathLink(f, k[e]), p, nd, k, d)
      BY <1>2, <1>3, <1>4, <3>1, <3>2, <3>3, LinkFollowed DEF Frame
    <3>5. PICK a \in 1..l : order[a] = k[e]
      BY <1>8, <3>3
    <3>6. a \in DOMAIN frames' /\ frames'[a] = CollectPathLink(f, k[e])
      BY <1>5, <1>9, <1>11, <1>12, <3>5
    <3>7. FollowedBy(frames'[a], p, nd, k, d)
      BY <3>4, <3>6
    <3> QED
      BY <3>6, <3>7 DEF Followed
  <2>3. CASE i # 1
    <3>1. i - 1 \in 1..m /\ frames'[l + (i - 1)] = frames[i]
      BY <1>3, <1>12, <2>3
    <3>2. l + (i - 1) \in DOMAIN frames'
      BY <1>5, <1>11, <1>12, <3>1
    <3>3. FollowedBy(frames'[l + (i - 1)], p, nd, k, d)
      BY <2>1, <3>1
    <3> QED
      BY <3>2, <3>3 DEF Followed
  <2> QED
    BY <2>2, <2>3
<1>14. \A p, left : Waiting(p, left) => Waiting(p, left)'
  BY <1>1 DEF Waiting
<1>15. \A nd, k, d : Requested(nd, k, d) => Requested(nd, k, d)'
  BY <1>1 DEF Requested
<1> QED
  BY <1>1, <1>13, <1>14, <1>15, SearchGoesOn DEF Sought

(* The worklist holds what is inserted, and what it held.                  *)
LEMMA Inserted ==
  ASSUME NEW S, NEW s \in Seq(S), NEW e \in S, NEW r, r = InsertPathCopy(s, e)
  PROVE  /\ \E i \in DOMAIN r : r[i] = e
         /\ \A i \in DOMAIN s : \E j \in DOMAIN r : r[j] = s[i]
<1>0. PICK at : at = InsertionPoint(s, e)
  OBVIOUS
<1>1. PICK l \in Nat : l = Len(s)
  OBVIOUS
<1>2. /\ r \in Seq(S) /\ Len(r) = l + 1 /\ at \in 1..(l + 1)
      /\ \A k \in 1..(at - 1) : r[k] = s[k]
      /\ r[at] = e
      /\ \A k \in (at + 1)..(l + 1) : r[k] = s[k - 1]
  <2> DEFINE q == InsertPathCopy(s, e)
             i == InsertionPoint(s, e)
  <2>1. /\ q \in Seq(S) /\ Len(q) = Len(s) + 1
        /\ i \in 1..(Len(s) + 1)
        /\ \A k \in 1..(i - 1) : q[k] = s[k] /\ k \in 1..Len(s)
        /\ q[i] = e
        /\ \A k \in (i + 1)..(Len(s) + 1) : q[k] = s[k - 1] /\ k - 1 \in 1..Len(s)
    BY InsertPathCopyShape
  <2> QED
    BY <1>0, <1>1, <2>1
<1>3. DOMAIN r = 1..(l + 1) /\ DOMAIN s = 1..l
  BY <1>1, <1>2
<1>4. ASSUME NEW i \in 1..l PROVE \E j \in 1..(l + 1) : r[j] = s[i]
  <2>1. CASE i < at
    <3>1. i \in 1..(at - 1) /\ i \in 1..(l + 1)
      BY <1>2, <2>1
    <3> QED
      BY <1>2, <3>1
  <2>2. CASE ~ (i < at)
    <3>1. i + 1 \in (at + 1)..(l + 1) /\ i + 1 \in 1..(l + 1) /\ (i + 1) - 1 = i
      BY <1>2, <2>2
    <3> QED
      BY <1>2, <3>1
  <2> QED
    BY <2>1, <2>2
<1> QED
  BY <1>2, <1>3, <1>4

LEMMA FinishPathSeeks ==
  ASSUME IInv, AllSought, FinishPath
  PROVE  AllSought'
<1>1. /\ pc = "reduce" /\ UNCHANGED <<node, topmostParsers, lexer, requests>>
      /\ frames \in Seq(Frame) /\ frames # << >> /\ frames' = Tail(frames)
      /\ pathQueue \in Seq(Path)
  BY DEF IInv, FinishPath, TypeOK, stackVars, lexVars
<1>2. PICK f : f = Head(frames)
  OBVIOUS
<1>3. /\ 1 \in DOMAIN frames /\ f = frames[1] /\ f \in Frame /\ f.popsRemaining = 0
      /\ \A i \in DOMAIN frames :
           i # 1 => i - 1 \in DOMAIN Tail(frames) /\ Tail(frames)[i - 1] = frames[i]
  <2>1. 1 \in DOMAIN frames /\ Head(frames) = frames[1]
    BY <1>1, OtherThanHead
  <2>2. frames[1] \in Frame
    BY <1>1, <2>1
  <2>3. f.popsRemaining = 0
    BY <1>2 DEF FinishPath
  <2> QED
    BY <1>1, <1>2, <2>1, <2>2, <2>3, OtherThanHead
<1>4. PICK new : new = [prod |-> f.prod, leftEdge |-> f.currentNode,
                        startColumn |-> node[f.currentNode].column, sibLinks |-> f.sibLinks]
  OBVIOUS
<1>5. pathQueue' = IF f.mustUseLink = NoLink THEN InsertPathCopy(pathQueue, new) ELSE pathQueue
  BY <1>2, <1>4 DEF FinishPath
<1>6. PICK q : q = InsertPathCopy(pathQueue, new)
  OBVIOUS
<1>7. /\ \E i \in DOMAIN q : q[i] = new
      /\ \A i \in DOMAIN pathQueue : \E j \in DOMAIN q : q[j] = pathQueue[i]
  <2> DEFINE All == Path \cup {new}
  <2>1. pathQueue \in Seq(All)
    BY <1>1, SeqWithin
  <2> HIDE DEF All
  <2>2. new \in All
    BY DEF All
  <2> QED
    BY <1>6, <2>1, <2>2, Inserted
<1>8. ASSUME NEW p, NEW left, Waiting(p, left)
      PROVE  Waiting(p, left)'
  BY <1>5, <1>6, <1>7, <1>8 DEF Waiting
<1>9. ASSUME NEW p, NEW nd, NEW k, NEW d \in Nat, Followed(p, nd, k, d)
      PROVE  Sought(p, nd, k, d)'
  <2>1. PICK i \in DOMAIN frames : FollowedBy(frames[i], p, nd, k, d)
    BY <1>9 DEF Followed
  <2>2. CASE i = 1
    <3>1. f.prod = p /\ f.currentNode = nd[d] /\ f.mustUseLink = NoLink
      <4>1. f.prod = p /\ d - 0 = d /\ f.currentNode = nd[d] /\ MayUse(f.mustUseLink, nd, k, d, d)
        BY <1>3, <2>1, <2>2 DEF FollowedBy
      <4>2. (d + 1)..d = {}
        OBVIOUS
      <4> QED
        BY <4>1, <4>2 DEF MayUse
    <3>2. Waiting(p, nd[d])'
      BY <1>4, <1>5, <1>6, <1>7, <3>1 DEF Waiting
    <3> QED
      BY <3>2 DEF Sought
  <2>3. CASE i # 1
    <3>1. Followed(p, nd, k, d)'
      BY <1>1, <1>3, <2>1, <2>3 DEF Followed
    <3> QED
      BY <3>1 DEF Sought
  <2> QED
    BY <2>2, <2>3
<1>10. \A nd, k, d : Requested(nd, k, d) => Requested(nd, k, d)'
  BY <1>1 DEF Requested
<1> QED
  BY <1>1, <1>8, <1>9, <1>10, SearchGoesOn DEF Sought

-----------------------------------------------------------------------------
(* What a parser that stays can reduce by.                                 *)
LEMMA RedsStay ==
  ASSUME IInv, IsStack(node'), lexer' = lexer, NEW n \in Live, n \in DOMAIN node',
         States(node')[n] = States(node)[n]
  PROVE  Reductions(n)' = Reductions(n)
<1>1. node'[n].state = node[n].state
  BY StackIsSound, ShapeAt
<1> QED
  BY <1>1 DEF Reductions, GetActionEntry

(* The path that is taken from the worklist is reduced, and what was made  *)
(* or waits is still made or waits.                                        *)
LEMMA ReductionsStay ==
  ASSUME IInv, AllSought, CanReduce, pathQueue' = Tail(pathQueue), lexer' = lexer,
         IsStack(node'), DOMAIN node' = Live', Live \subseteq Live',
         Elems(topmostParsers) \subseteq Elems(topmostParsers)',
         \A n \in Live : States(node')[n] = States(node)[n],
         \A n \in Live : \A j \in DOMAIN Shape(node)[n] :
           j \in DOMAIN Shape(node')[n] /\ Shape(node')[n][j] = Shape(node)[n][j],
         NEW made, NEW left, made = NextPath.prod, left = NextPath.leftEdge, Made(made, left)',
         NEW nd, NEW k, nd[0] \in Elems(topmostParsers), NEW p \in Reductions(nd[0])',
         Walk(Shape(node), nd, k, ProdInfo[p].rhsLen)
  PROVE  Sought(p, nd, k, ProdInfo[p].rhsLen)'
<1>1. /\ pc = "reduce" /\ frames = << >> /\ requests = << >>
      /\ pathQueue \in Seq(Path) /\ pathQueue # << >>
  BY DEF IInv, TypeOK, CanReduce
<1>2. nd[0] \in Live
  BY ReductionsKnown
<1>4. p \in Reductions(nd[0])
  BY <1>2, RedsStay
<1>5. PICK d \in Nat : d = ProdInfo[p].rhsLen
  BY <1>4, ReductionsKnown
<1>6. nd[d] \in Live
  <2>1. d \in 0..d
    OBVIOUS
  <2> QED
    BY <1>5, <2>1, StackIsSound DEF Walk
<1>7. Made(p, nd[d]) \/ Waiting(p, nd[d])
  <2>1. Sought(p, nd, k, d)
    BY <1>1, <1>4, <1>5 DEF AllSought
  <2> QED
    BY <1>1, <2>1 DEF Sought, Followed, Requested
<1>8. CASE Made(p, nd[d])
  <2>1. PICK m \in Elems(topmostParsers) :
          /\ States(node)[m] = GotoTable[States(node)[nd[d]]][ProdInfo[p].lhsIndex]
          /\ \E j \in DOMAIN Shape(node)[m] : Shape(node)[m][j] = nd[d]
    BY <1>8 DEF Made
  <2>2. m \in Live /\ m \in Elems(topmostParsers')
    BY ReductionsKnown
  <2>3. Made(p, nd[d])'
    BY <1>6, <2>1, <2>2 DEF Made
  <2> QED
    BY <1>5, <2>3 DEF Sought
<1>9. CASE Waiting(p, nd[d])
  <2>1. PICK q \in DOMAIN pathQueue : pathQueue[q].prod = p /\ pathQueue[q].leftEdge = nd[d]
    BY <1>9 DEF Waiting
  <2>2. CASE q = 1
    <3>1. made = p /\ left = nd[d]
      BY <1>1, <2>1, <2>2 DEF NextPath
    <3>2. Made(p, nd[d])'
      BY <3>1
    <3> QED
      BY <1>5, <3>2 DEF Sought
  <2>3. CASE q # 1
    <3>1. q - 1 \in DOMAIN Tail(pathQueue) /\ Tail(pathQueue)[q - 1] = pathQueue[q]
      BY <1>1, <2>3, OtherThanHead
    <3>2. Waiting(p, nd[d])'
      BY <2>1, <3>1 DEF Waiting
    <3> QED
      BY <1>5, <3>2 DEF Sought
  <2> QED
    BY <2>2, <2>3
<1> QED
  BY <1>7, <1>8, <1>9

LEMMA NextGotoIs ==
  ASSUME IInv, CanReduce
  PROVE  /\ NextPath.leftEdge \in Live
         /\ RightState =
              GotoTable[States(node)[NextPath.leftEdge]][ProdInfo[NextPath.prod].lhsIndex]
<1>1. NextPath.leftEdge \in Live
  BY NextPathGood DEF GoodPath, Live
<1>2. States(node)[NextPath.leftEdge] = node[NextPath.leftEdge].state
  BY <1>1, StackIsSound, ShapeAt
<1> QED
  BY <1>1, <1>2 DEF RightState, GotoState

LEMMA ReduceMergeSeeks ==
  ASSUME UserValues, IInv, AllSought, ReduceMerge
  PROVE  AllSought'
<1>1. PICK x, left, p : x = RightSibling /\ left = NextPath.leftEdge /\ p = NextPath.prod
  OBVIOUS
<1>2. /\ CanReduce /\ pathQueue' = Tail(pathQueue) /\ lexer' = lexer
      /\ topmostParsers' = topmostParsers /\ DOMAIN node' = DOMAIN node /\ pc = "reduce"
  BY DEF ReduceMerge, lexVars, Yielded, CanReduce
<1>3. /\ IsStack(node') /\ DOMAIN node' = Live' /\ Live' = Live
      /\ DOMAIN Shape(node) = Live /\ DOMAIN Shape(node') = Live
      /\ \A n \in Live : Shape(node')[n] = Shape(node)[n] /\ States(node')[n] = States(node)[n]
  <2>1. IInv' /\ StackChanges(0) /\ NoGain
    BY ReduceMergeKeeps
  <2>2. IsStack(node') /\ DOMAIN node' = Live' /\ DOMAIN Shape(node') = Live'
    BY <2>1, StackTypes DEF IInv, TypeOK, IsStack, Live
  <2> QED
    BY <1>2, <2>1, <2>2, StackIsSound DEF StackChanges, NoGain
<1>4. Made(p, left)'
  <2>1. x \in Elems(topmostParsers) /\ x \in Live /\ States(node)[x] = RightState
    BY <1>1, FindTopmost DEF ReduceMerge, RightSibling, IInv, Counted
  <2>2. PICK j \in DOMAIN node[x].sibs : node[x].sibs[j].sib = left
    BY <1>1 DEF ReduceMerge, SibLinks, LinksTo
  <2>3. j \in DOMAIN Shape(node)[x] /\ Shape(node)[x][j] = left
    BY <2>1, <2>2, StackIsSound, ShapeAt
  <2>4. left \in Live /\ RightState = GotoTable[States(node)[left]][ProdInfo[p].lhsIndex]
    BY <1>1, <1>2, NextGotoIs
  <2> QED
    BY <1>2, <1>3, <2>1, <2>3, <2>4 DEF Made
<1> SUFFICES ASSUME NEW nd, NEW k, nd[0] \in Elems(topmostParsers'),
                    NEW q \in Reductions(nd[0])',
                    Walk(Shape(node'), nd, k, ProdInfo[q].rhsLen)
             PROVE  Sought(q, nd, k, ProdInfo[q].rhsLen)'
  BY DEF AllSought
<1>5. Walk(Shape(node), nd, k, ProdInfo[q].rhsLen)
  <2>1. PICK d \in Nat : d = ProdInfo[q].rhsLen
    BY <1>2, <1>3, ReductionsKnown, RedsStay
  <2>2. \A i \in 1..d : i - 1 \in 0..d
    BY <2>1
  <2> QED
    BY <1>3, <2>1, <2>2 DEF Walk
<1> QED
  BY <1>1, <1>2, <1>3, <1>4, <1>5, ReductionsStay

(* A new link has every parser search again, for the walks over that link. *)
LEMMA ReduceAddLinkSeeks ==
  ASSUME UserValues, IInv, AllSought, ReduceAddLink
  PROVE  AllSought'
<1>1. PICK x, left, p, link : /\ x = RightSibling /\ left = NextPath.leftEdge
                              /\ p = NextPath.prod /\ link = <<x, Len(Shape(node)[x]) + 1>>
  OBVIOUS
<1>2. /\ CanReduce /\ pathQueue' = Tail(pathQueue) /\ lexer' = lexer
      /\ topmostParsers' = topmostParsers /\ pc = "reduce"
  BY DEF ReduceAddLink, lexVars, CanReduce
<1>3. x \in Elems(topmostParsers) /\ x \in Live /\ States(node)[x] = RightState
  BY <1>1, FindTopmost DEF ReduceAddLink, RightSibling, IInv, Counted
<1>4. left \in Live /\ RightState = GotoTable[States(node)[left]][ProdInfo[p].lhsIndex]
  BY <1>1, <1>2, NextGotoIs
<1>5. /\ IsStack(node') /\ DOMAIN node' = Live' /\ Live' = Live
      /\ DOMAIN Shape(node) = Live /\ DOMAIN Shape(node') = Live
      /\ States(node') = States(node)
      /\ Shape(node')[x] = Append(Shape(node)[x], left)
      /\ \A n \in Live : n # x => Shape(node')[n] = Shape(node)[n]
  <2>1. /\ IInv' /\ Live' = Live /\ States(node') = States(node)
        /\ Shape(node')[x] = Append(Shape(node)[x], left)
        /\ \A n \in Live : n # x => Shape(node')[n] = Shape(node)[n]
    BY <1>1, ReduceAddLinkKeeps
  <2>2. IsStack(node') /\ DOMAIN node' = Live' /\ DOMAIN Shape(node') = Live'
    BY <2>1, StackTypes DEF IInv, TypeOK, IsStack, Live
  <2> QED
    BY <2>1, <2>2, StackIsSound
<1>6. PICK len \in Nat : len = Len(Shape(node)[x])
  BY <1>3, StackIsSound DEF IsShape
<1>7. /\ DOMAIN Shape(node)[x] = 1..len /\ DOMAIN Shape(node')[x] = 1..(len + 1)
      /\ Shape(node')[x][len + 1] = left
      /\ \A j \in 1..len : Shape(node')[x][j] = Shape(node)[x][j]
  <2>1. Shape(node)[x] \in Seq(NodeId) /\ left \in NodeId
    BY <1>3, <1>4, StackIsSound DEF IsShape
  <2> QED
    BY <1>5, <1>6, <2>1
<1>8. \A n \in Live : \A j \in DOMAIN Shape(node)[n] :
        j \in DOMAIN Shape(node')[n] /\ Shape(node')[n][j] = Shape(node)[n][j]
  <2>1. \A j \in 1..len : j \in 1..(len + 1)
    OBVIOUS
  <2> QED
    BY <1>5, <1>7, <2>1
<1>9. Made(p, left)'
  <2>1. len + 1 \in DOMAIN Shape(node')[x] /\ Shape(node')[x][len + 1] = left
    BY <1>7
  <2> QED
    BY <1>2, <1>3, <1>4, <1>5, <2>1 DEF Made
<1>10. \A n \in Elems(topmostParsers) :
         \E r \in DOMAIN requests' : requests'[r] = [parser |-> n, mustUseLink |-> link]
  <2>1. link = <<RightSibling, Len(node[RightSibling].sibs) + 1>>
    BY <1>1, <1>3, StackIsSound, ShapeAt
  <2>2. requests' = [i \in DOMAIN topmostParsers |->
                       [parser |-> topmostParsers[i], mustUseLink |-> link]]
    BY <2>1 DEF ReduceAddLink, EnqueueAll
  <2> QED
    BY <2>2 DEF Elems
<1> SUFFICES ASSUME NEW nd, NEW k, nd[0] \in Elems(topmostParsers'),
                    NEW q \in Reductions(nd[0])',
                    Walk(Shape(node'), nd, k, ProdInfo[q].rhsLen)
             PROVE  Sought(q, nd, k, ProdInfo[q].rhsLen)'
  BY DEF AllSought
<1>11. PICK d \in Nat : d = ProdInfo[q].rhsLen
  BY <1>2, <1>5, ReductionsKnown, RedsStay
<1>12. \A i \in 1..d : i - 1 \in 0..d
  BY <1>11
<1>13. CASE \A i \in 1..d : k[i] \in DOMAIN Shape(node)[nd[i - 1]]
  <2>1. Walk(Shape(node), nd, k, ProdInfo[q].rhsLen)
    BY <1>5, <1>8, <1>11, <1>12, <1>13 DEF Walk
  <2> QED
    BY <1>1, <1>2, <1>5, <1>8, <1>9, <2>1, ReductionsStay
<1>14. CASE \E i \in 1..d : k[i] \notin DOMAIN Shape(node)[nd[i - 1]]
  <2>1. PICK i \in 1..d : k[i] \notin DOMAIN Shape(node)[nd[i - 1]]
    BY <1>14
  <2>2. nd[i - 1] \in Live /\ k[i] \in DOMAIN Shape(node')[nd[i - 1]]
    BY <1>5, <1>11, <1>12 DEF Walk
  <2>3. nd[i - 1] = x
    BY <1>5, <2>1, <2>2
  <2>4. k[i] = len + 1
    BY <1>6, <1>7, <2>1, <2>2, <2>3
  <2>5. link = <<nd[i - 1], k[i]>> /\ i \in (0 + 1)..d
    BY <1>1, <1>6, <2>3, <2>4
  <2>6. MayUse(link, nd, k, 0, d)
    BY <2>5 DEF MayUse
  <2>7. Requested(nd, k, d)'
    BY <1>2, <1>10, <2>6 DEF Requested
  <2> QED
    BY <1>11, <2>7 DEF Sought
<1> QED
  BY <1>13, <1>14

(* Nothing leads to a new parser, so that only its own reductions are new. *)
LEMMA ReduceNewParserSeeks ==
  ASSUME UserValues, IInv, AllSought, ReduceNewParser
  PROVE  AllSought'
<1>1. PICK x, left, p, t : /\ x = FreshNode /\ left = NextPath.leftEdge
                           /\ p = NextPath.prod /\ t = RightState
  OBVIOUS
<1>2. /\ CanReduce /\ pathQueue' = Tail(pathQueue) /\ lexer' = lexer /\ pc = "reduce"
      /\ topmostParsers' = Append(topmostParsers, x)
      /\ requests' = <<[parser |-> x, mustUseLink |-> NoLink]>>
  BY <1>1 DEF ReduceNewParser, lexVars, CanReduce
<1>3. left \in Live /\ t = GotoTable[States(node)[left]][ProdInfo[p].lhsIndex]
  BY <1>1, <1>2, NextGotoIs
<1>4. /\ IsStack(node') /\ DOMAIN node' = Live'
      /\ x \notin Live /\ Live' = Live \cup {x}
      /\ DOMAIN Shape(node) = Live /\ DOMAIN Shape(node') = Live'
      /\ Shape(node')[x] = <<left>> /\ States(node')[x] = t
      /\ \A n \in Live : Shape(node')[n] = Shape(node)[n] /\ States(node')[n] = States(node)[n]
  <2>1. /\ IInv' /\ x \notin Live /\ Live' = Live \cup {x}
        /\ Shape(node')[x] = <<left>> /\ States(node')[x] = t
        /\ \A n \in Live : /\ Shape(node')[n] = Shape(node)[n]
                           /\ States(node')[n] = States(node)[n]
    BY <1>1, ReduceNewParserKeeps
  <2>2. IsStack(node') /\ DOMAIN node' = Live' /\ DOMAIN Shape(node') = Live'
    BY <2>1, StackTypes DEF IInv, TypeOK, IsStack, Live
  <2> QED
    BY <2>1, <2>2, StackIsSound
<1>5. Elems(topmostParsers') = Elems(topmostParsers) \cup {x}
  <2>1. PICK l \in Nat : l = Len(topmostParsers)
    BY DEF IInv, TypeOK
  <2>2. PICK longer : longer = topmostParsers'
    OBVIOUS
  <2>3. /\ DOMAIN topmostParsers = 1..l /\ DOMAIN longer = 1..(l + 1) /\ longer[l + 1] = x
        /\ \A i \in 1..l : longer[i] = topmostParsers[i]
    BY <1>2, <2>1, <2>2 DEF IInv, TypeOK
  <2>4. /\ \A i \in 1..(l + 1) : i \in 1..l \/ i = l + 1
        /\ \A i \in 1..l : i \in 1..(l + 1)
        /\ l + 1 \in 1..(l + 1)
    OBVIOUS
  <2>5. Elems(longer) = Elems(topmostParsers) \cup {x}
    BY <2>3, <2>4 DEF Elems
  <2> QED
    BY <2>2, <2>5
<1>6. Made(p, left)'
  <2>1. x \in Elems(topmostParsers)'
    BY <1>5
  <2>2. 1 \in DOMAIN <<left>> /\ <<left>>[1] = left
    OBVIOUS
  <2> QED
    BY <1>3, <1>4, <2>1, <2>2 DEF Made
<1> SUFFICES ASSUME NEW nd, NEW k, nd[0] \in Elems(topmostParsers'),
                    NEW q \in Reductions(nd[0])',
                    Walk(Shape(node'), nd, k, ProdInfo[q].rhsLen)
             PROVE  Sought(q, nd, k, ProdInfo[q].rhsLen)'
  BY DEF AllSought
<1>7. CASE nd[0] = x
  <2>1. \A d : Requested(nd, k, d)'
    BY <1>2, <1>7 DEF Requested, MayUse
  <2> QED
    BY <2>1 DEF Sought
<1>8. CASE nd[0] # x
  <2>1. nd[0] \in Elems(topmostParsers) /\ nd[0] \in Live
    BY <1>5, <1>8, ReductionsKnown
  <2>2. PICK d \in Nat : d = ProdInfo[q].rhsLen
    BY <1>2, <1>4, <2>1, ReductionsKnown, RedsStay
  <2>3. \A i \in 0..d : nd[i] \in Live
    <3> DEFINE T == {i \in 0..d : nd[i] \notin Live}
    <3> SUFFICES ASSUME T # {} PROVE FALSE
      OBVIOUS
    <3>1. T \in SUBSET Nat
      OBVIOUS
    <3>2. PICK i \in T : \A j \in T : i <= j
      BY <3>1, LeastElement
    <3>3. i # 0 /\ i \in 1..d /\ i - 1 \in 0..d /\ ~ (i <= i - 1)
      BY <2>1, <3>2
    <3>4. nd[i - 1] \in Live
      BY <3>2, <3>3
    <3>5. k[i] \in DOMAIN Shape(node)[nd[i - 1]] /\ Shape(node)[nd[i - 1]][k[i]] = nd[i]
      BY <1>4, <2>2, <3>3, <3>4 DEF Walk
    <3>6. nd[i] \in Live
      BY <3>4, <3>5, LinkBack
    <3> QED
      BY <3>2, <3>6
  <2>4. \A i \in 1..d : i - 1 \in 0..d
    BY <2>2
  <2>5. Walk(Shape(node), nd, k, ProdInfo[q].rhsLen)
    BY <1>4, <2>2, <2>3, <2>4 DEF Walk
  <2> QED
    BY <1>1, <1>2, <1>4, <1>5, <1>6, <2>1, <2>5, ReductionsStay
<1> QED
  BY <1>7, <1>8

(* The steps that recompute depths leave the search alone.                 *)
LEMMA SettleSeeks ==
  ASSUME IInv, AllSought, SettleParser \/ SettleSweepDone
  PROVE  AllSought'
<1>1. /\ pc = "settle" /\ UNCHANGED <<topmostParsers, lexer, pathQueue, frames, requests>>
      /\ DOMAIN node' = DOMAIN node
  BY DEF SettleParser, SettleSweepDone, stackVars, lexVars
<1>2. /\ IsStack(node') /\ DOMAIN node' = Live' /\ Live' = Live
      /\ DOMAIN Shape(node) = Live /\ DOMAIN Shape(node') = Live
      /\ \A n \in Live : Shape(node')[n] = Shape(node)[n] /\ States(node')[n] = States(node)[n]
  <2>1. CASE SettleParser
    <3>1. IInv' /\ StackChanges(0) /\ NoGain
      BY <2>1, SettleParserKeeps
    <3>2. IsStack(node') /\ DOMAIN node' = Live' /\ DOMAIN Shape(node') = Live'
      BY <3>1, StackTypes DEF IInv, TypeOK, IsStack, Live
    <3> QED
      BY <1>1, <3>1, <3>2, StackIsSound DEF StackChanges, NoGain
  <2>2. CASE SettleSweepDone
    <3>1. node' = node
      BY <2>2 DEF SettleSweepDone, stackVars
    <3> QED
      BY <3>1, StackIsSound DEF Live
  <2> QED
    BY <2>1, <2>2
<1> SUFFICES ASSUME NEW nd, NEW k, nd[0] \in Elems(topmostParsers'),
                    NEW p \in Reductions(nd[0])',
                    Walk(Shape(node'), nd, k, ProdInfo[p].rhsLen)
             PROVE  Sought(p, nd, k, ProdInfo[p].rhsLen)'
  BY DEF AllSought
<1>3. nd[0] \in Elems(topmostParsers) /\ nd[0] \in Live
  BY <1>1, ReductionsKnown
<1>4. p \in Reductions(nd[0])
  BY <1>1, <1>2, <1>3, RedsStay
<1>5. PICK d \in Nat : d = ProdInfo[p].rhsLen
  BY <1>3, <1>4, ReductionsKnown
<1>6. \A i \in 1..d : i - 1 \in 0..d
  BY <1>5
<1>7. Walk(Shape(node), nd, k, d)
  BY <1>2, <1>5, <1>6 DEF Walk
<1>8. Sought(p, nd, k, d)
  BY <1>1, <1>3, <1>4, <1>5, <1>7 DEF AllSought
<1>9. nd[d] \in Live
  <2>1. d \in 0..d
    OBVIOUS
  <2> QED
    BY <1>2, <1>7, <2>1 DEF Walk
<1>10. Made(p, nd[d]) => Made(p, nd[d])'
  <2>1. Elems(topmostParsers) \subseteq Live
    BY DEF IInv, Counted
  <2> QED
    BY <1>1, <1>2, <1>9, <2>1 DEF Made
<1>11. /\ Waiting(p, nd[d]) => Waiting(p, nd[d])'
       /\ Followed(p, nd, k, d) => Followed(p, nd, k, d)'
       /\ Requested(nd, k, d) => Requested(nd, k, d)'
  BY <1>1 DEF Waiting, Followed, Requested
<1> QED
  BY <1>5, <1>8, <1>10, <1>11 DEF Sought

-----------------------------------------------------------------------------
(* Every step.  The search begins with FallBack, and a token's shifts and  *)
(* the mini-LR core leave nothing to seek.                                 *)
LEMMA SearchElsewhere ==
  ASSUME pc' \notin {"reduce", "settle"}
  PROVE  AllSought'
BY DEF AllSought

LEMMA StepSeeks ==
  ASSUME UserValues, FALSE \notin KeepNontermValue, IInv, AllSought, [Next]_vars
  PROVE  AllSought'
<1>1. CASE GlrParse \/ TakeToken \/ NextToken \/ CleanupAfterParse \/ Accept \/ Return
  <2>1. pc' \notin {"reduce", "settle"}
    BY <1>1 DEF GlrParse, TakeToken, NextToken, CleanupAfterParse, Accept, Return
  <2> QED
    BY <2>1, SearchElsewhere
<1>2. CASE MiniLR
  <2>1. CASE FallBack
    BY <2>1, FallBackSeeks
  <2>2. CASE ~ FallBack
    <3>1. pc' \notin {"reduce", "settle"}
      BY <1>2, <2>2 DEF MiniLR, MiniLRError, MiniLRReduce, MiniLRPop, MiniLRPopAssertFails,
                        MiniLRPush, MiniLRShift
    <3> QED
      BY <3>1, SearchElsewhere
  <2> QED
    BY <2>1, <2>2
<1>3. CASE Enumerate
  BY <1>3, EnqueueReductionsSeeks, ExtendPathSeeks, FinishPathSeeks DEF Enumerate
<1>4. CASE Reduce
  <2>1. ~ ReduceCancelled
    BY DEF ReduceCancelled
  <2> QED
    BY <1>4, <2>1, ReduceMergeSeeks, ReduceAddLinkSeeks, ReduceNewParserSeeks, SettleSeeks
       DEF Reduce
<1>5. CASE Shift
  <2>1. pc' \notin {"reduce", "settle"}
    BY <1>5 DEF Shift, StartShifts, ShiftDies, ShiftToNew, ShiftToExisting, ShiftsDone, Shifting
  <2> QED
    BY <2>1, SearchElsewhere
<1>6. CASE Release
  <2>1. decs # << >> /\ pc' = pc
    BY <1>6 DEF Release, DropReference, FreeNode
  <2>2. pc \notin {"reduce", "settle"}
    BY <2>1 DEF IInv, Phases
  <2> QED
    BY <2>1, <2>2, SearchElsewhere
<1>7. CASE Aborted \/ UNCHANGED vars
  <2>1. UNCHANGED vars
    BY <1>7 DEF Aborted
  <2>2. UNCHANGED <<pc, node, topmostParsers, lexer, pathQueue, frames, requests>>
    BY <2>1 DEF vars, lexVars, stackVars, workVars
  <2>3. /\ \A p, left : Made(p, left) <=> Made(p, left)'
        /\ \A p, left : Waiting(p, left) <=> Waiting(p, left)'
        /\ \A p, nd, k, d : Followed(p, nd, k, d) <=> Followed(p, nd, k, d)'
        /\ \A nd, k, d : Requested(nd, k, d) <=> Requested(nd, k, d)'
    BY <2>2 DEF Made, Waiting, Followed, Requested
  <2>4. \A p, nd, k, d : Sought(p, nd, k, d) <=> Sought(p, nd, k, d)'
    BY <2>3 DEF Sought
  <2>5. \A n : Reductions(n) = Reductions(n)'
    BY <2>2 DEF Reductions, GetActionEntry
  <2> QED
    BY <2>2, <2>4, <2>5 DEF AllSought
<1> QED
  BY <1>1, <1>2, <1>3, <1>4, <1>5, <1>6, <1>7 DEF Next, Parse

-----------------------------------------------------------------------------
(* The nodes that LeftEdges finds are the ends of the walks.               *)
IsBack(f, n, len) ==
  f = [i \in 0..len |->
         IF i = 0 THEN {n}
         ELSE {Target(l) : l \in {m \in Links : m[1] \in f[i - 1]}}]

Ends(n, d) == {x \in Live : \E nd, k : nd[0] = n /\ Walk(Shape(node), nd, k, d) /\ nd[d] = x}

(* A walk goes on over a link of its end, and over no other.               *)
LEMMA EndsFurther ==
  ASSUME IInv, NEW n \in Live, NEW d \in Nat
  PROVE  /\ Ends(n, 0) = {n}
         /\ Ends(n, d + 1) = {Target(l) : l \in {m \in Links : m[1] \in Ends(n, d)}}
<1>1. /\ DOMAIN Shape(node) = Live
      /\ \A link \in Links : Target(link) = Shape(node)[link[1]][link[2]]
      /\ \A link : link \in Links <=>
           \E x \in Live : \E j \in DOMAIN Shape(node)[x] : link = <<x, j>>
  BY StackIsSound, LinksAreOfShape DEF LinksOf
<1>2. \A x \in Live : \A j \in DOMAIN Shape(node)[x] : Shape(node)[x][j] \in Live
  BY LinkBack
<1>3. Ends(n, 0) = {n}
  <2>1. /\ 0..0 = {0} /\ 1..0 = {}
    OBVIOUS
  <2>2. Walk(Shape(node), [i \in {0} |-> n], << >>, 0)
    BY <1>1, <2>1 DEF Walk
  <2>3. [i \in {0} |-> n][0] = n
    OBVIOUS
  <2>4. n \in Ends(n, 0)
    BY <2>2, <2>3 DEF Ends
  <2> QED
    BY <2>4 DEF Ends
<1>4. ASSUME NEW x \in Ends(n, d + 1)
      PROVE  \E l \in Links : l[1] \in Ends(n, d) /\ Target(l) = x
  <2>1. PICK nd, k : nd[0] = n /\ Walk(Shape(node), nd, k, d + 1) /\ nd[d + 1] = x
    BY DEF Ends
  <2>2. /\ d + 1 \in 1..(d + 1) /\ (d + 1) - 1 = d /\ d \in 0..(d + 1)
        /\ \A i \in 0..d : i \in 0..(d + 1)
        /\ \A i \in 1..d : i \in 1..(d + 1)
    OBVIOUS
  <2>3. nd[d] \in Live /\ k[d + 1] \in DOMAIN Shape(node)[nd[d]]
        /\ Shape(node)[nd[d]][k[d + 1]] = x
    BY <1>1, <2>1, <2>2 DEF Walk
  <2>4. Walk(Shape(node), nd, k, d)
    BY <2>1, <2>2 DEF Walk
  <2>5. nd[d] \in Ends(n, d)
    BY <2>1, <2>3, <2>4 DEF Ends
  <2>6. PICK l : l = <<nd[d], k[d + 1]>>
    OBVIOUS
  <2>7. l \in Links /\ l[1] = nd[d] /\ Target(l) = x
    BY <1>1, <2>3, <2>6
  <2> QED
    BY <2>5, <2>7
<1>5. ASSUME NEW l \in Links, l[1] \in Ends(n, d)
      PROVE  Target(l) \in Ends(n, d + 1)
  <2>1. PICK y, j : /\ y \in Live /\ j \in DOMAIN Shape(node)[y] /\ l = <<y, j>>
                    /\ Target(l) = Shape(node)[y][j] /\ Target(l) \in Live
    BY <1>1, <1>2
  <2>2. PICK nd, k : nd[0] = n /\ Walk(Shape(node), nd, k, d) /\ nd[d] = y
    BY <1>5, <2>1 DEF Ends
  <2>3. PICK nd2, k2 : /\ nd2 = [i \in 0..(d + 1) |-> IF i = d + 1 THEN Target(l) ELSE nd[i]]
                       /\ k2 = [i \in 1..(d + 1) |-> IF i = d + 1 THEN j ELSE k[i]]
    OBVIOUS
  <2>4. /\ nd2[0] = n /\ nd2[d + 1] = Target(l) /\ nd2[d] = y /\ k2[d + 1] = j
        /\ \A i \in 0..d : nd2[i] = nd[i]
        /\ \A i \in 1..d : k2[i] = k[i]
    BY <2>2, <2>3
  <2>5. /\ \A i \in 0..(d + 1) : i = d + 1 \/ i \in 0..d
        /\ \A i \in 1..(d + 1) : i = d + 1 \/ i \in 1..d
        /\ \A i \in 1..d : i \in 0..d /\ i - 1 \in 0..d
        /\ (d + 1) - 1 = d
    OBVIOUS
  <2>6. \A i \in 0..(d + 1) : nd2[i] \in DOMAIN Shape(node)
    BY <1>1, <2>1, <2>2, <2>4, <2>5 DEF Walk
  <2>7. \A i \in 1..(d + 1) : /\ k2[i] \in DOMAIN Shape(node)[nd2[i - 1]]
                              /\ Shape(node)[nd2[i - 1]][k2[i]] = nd2[i]
    <3> SUFFICES ASSUME NEW i \in 1..(d + 1)
                 PROVE  /\ k2[i] \in DOMAIN Shape(node)[nd2[i - 1]]
                        /\ Shape(node)[nd2[i - 1]][k2[i]] = nd2[i]
      OBVIOUS
    <3>1. CASE i = d + 1
      BY <2>1, <2>4, <2>5, <3>1
    <3>2. CASE i \in 1..d
      BY <2>2, <2>4, <2>5, <3>2 DEF Walk
    <3> QED
      BY <2>5, <3>1, <3>2
  <2>8. Walk(Shape(node), nd2, k2, d + 1)
    BY <2>6, <2>7 DEF Walk
  <2> QED
    BY <2>1, <2>4, <2>8 DEF Ends
<1> QED
  BY <1>3, <1>4, <1>5

LEMMA LeftEdgesAreEnds ==
  ASSUME IInv, NEW n \in Live, NEW len \in Nat
  PROVE  LeftEdges(n, len) = Ends(n, len)
<1>1. PICK f : f = [i \in 0..len |-> Ends(n, i)]
  OBVIOUS
<1>2. IsBack(f, n, len)
  <2>1. ASSUME NEW i \in 0..len
        PROVE  Ends(n, i) = IF i = 0 THEN {n}
                            ELSE {Target(l) : l \in {m \in Links : m[1] \in f[i - 1]}}
    <3>1. CASE i = 0
      BY <3>1, EndsFurther
    <3>2. CASE i # 0
      <4>1. i - 1 \in Nat /\ i - 1 \in 0..len /\ (i - 1) + 1 = i
        BY <3>2
      <4>2. f[i - 1] = Ends(n, i - 1)
        BY <1>1, <4>1
      <4>3. Ends(n, (i - 1) + 1) = {Target(l) : l \in {m \in Links : m[1] \in Ends(n, i - 1)}}
        BY <4>1, EndsFurther
      <4> QED
        BY <3>2, <4>1, <4>2, <4>3
    <3> QED
      BY <3>1, <3>2
  <2> QED
    BY <1>1, <2>1 DEF IsBack
<1>3. PICK g : IsBack(g, n, len) /\ LeftEdges(n, len) = g[len]
  <2>1. LeftEdges(n, len) = (CHOOSE h : IsBack(h, n, len))[len]
    BY DEF LeftEdges, IsBack
  <2>2. IsBack((CHOOSE h : IsBack(h, n, len)), n, len)
    BY <1>2
  <2> QED
    BY <2>1, <2>2
<1>4. \A i \in 0..len : g[i] = f[i]
  <2> DEFINE T == {i \in 0..len : g[i] # f[i]}
  <2> SUFFICES ASSUME T # {} PROVE FALSE
    OBVIOUS
  <2>1. T \in SUBSET Nat
    OBVIOUS
  <2>2. PICK i \in T : \A j \in T : i <= j
    BY <2>1, LeastElement
  <2>3. /\ g[i] = IF i = 0 THEN {n} ELSE {Target(l) : l \in {m \in Links : m[1] \in g[i - 1]}}
        /\ f[i] = IF i = 0 THEN {n} ELSE {Target(l) : l \in {m \in Links : m[1] \in f[i - 1]}}
    BY <1>2, <1>3, <2>2 DEF IsBack
  <2>4. i # 0
    BY <2>2, <2>3
  <2>5. i - 1 \in 0..len /\ ~ (i <= i - 1)
    BY <2>2, <2>4
  <2>6. g[i - 1] = f[i - 1]
    BY <2>2, <2>5
  <2> QED
    BY <2>2, <2>3, <2>4, <2>6
<1>5. len \in 0..len
  OBVIOUS
<1> QED
  BY <1>1, <1>3, <1>4, <1>5

-----------------------------------------------------------------------------
(* With nothing left to do, what was sought is made.                       *)
LEMMA SoughtIsMade ==
  ASSUME IInv, AllSought
  PROVE  ReductionsComplete
<1> SUFFICES ASSUME pc = "reduce", frames = << >>, requests = << >>, pathQueue = << >>,
                    NEW i \in DOMAIN topmostParsers,
                    NEW r \in DOMAIN GetActionEntry(topmostParsers[i]).reds,
                    NEW left \in LeftEdges(topmostParsers[i],
                               ProdInfo[GetActionEntry(topmostParsers[i]).reds[r]].rhsLen)
             PROVE  \E j \in DOMAIN topmostParsers :
                      /\ node[topmostParsers[j]].state =
                           GotoState(left, GetActionEntry(topmostParsers[i]).reds[r])
                      /\ LinksTo(topmostParsers[j], left) # {}
  BY Zenon DEF ReductionsComplete
<1>0. PICK n, p : n = topmostParsers[i] /\ p = GetActionEntry(n).reds[r]
  OBVIOUS
<1>1. n \in Elems(topmostParsers) /\ p \in Reductions(n)
  BY <1>0 DEF Elems, Reductions
<1>2. n \in Live /\ ProdInfo[p].rhsLen \in Nat
  BY <1>1, ReductionsKnown
<1>3. PICK d \in Nat : d = ProdInfo[p].rhsLen
  BY <1>2
<1>4. left \in Live /\ \E nd, k : nd[0] = n /\ Walk(Shape(node), nd, k, d) /\ nd[d] = left
  BY <1>0, <1>2, <1>3, LeftEdgesAreEnds DEF Ends
<1>5. PICK nd, k : nd[0] = n /\ Walk(Shape(node), nd, k, d) /\ nd[d] = left
  BY <1>4
<1>6. Sought(p, nd, k, d)
  BY <1>1, <1>3, <1>5 DEF AllSought
<1>7. Made(p, left)
  BY <1>5, <1>6 DEF Sought, Waiting, Followed, Requested
<1>8. PICK m \in Elems(topmostParsers) :
        /\ States(node)[m] = GotoTable[States(node)[left]][ProdInfo[p].lhsIndex]
        /\ \E j \in DOMAIN Shape(node)[m] : Shape(node)[m][j] = left
  BY <1>7 DEF Made
<1>9. m \in Live
  BY DEF IInv, Counted
<1>10. /\ node[m].state = GotoState(left, p)
       /\ LinksTo(m, left) # {}
  <2>1. /\ States(node)[m] = node[m].state /\ States(node)[left] = node[left].state
        /\ DOMAIN Shape(node)[m] = DOMAIN node[m].sibs
        /\ \A j \in DOMAIN node[m].sibs : Shape(node)[m][j] = node[m].sibs[j].sib
    BY <1>4, <1>9, StackIsSound, ShapeAt
  <2> QED
    BY <1>8, <2>1 DEF GotoState, LinksTo
<1> QED
  BY <1>0, <1>8, <1>10 DEF Elems

(* Whenever the worklist is empty, every parser on top has made each of its*)
(* reductions over each path of the stack, though a new link has the       *)
(* parsers look only at the paths that use it: the parser for the result   *)
(* exists and is linked to the left edge.  A reduction that the user       *)
(* refuses leaves no trace on the stack, so none is refused here.          *)
THEOREM ReductionsAlwaysComplete ==
  ASSUME UserValues, AssertedOrNoLoop, FALSE \notin KeepNontermValue
  PROVE  Spec => []ReductionsComplete
<1>1. Init => AllSought
  BY DEF Init, AllSought
<1>2. IInv /\ AllSought /\ [Next]_vars => AllSought'
  BY StepSeeks
<1>3. IInv /\ AllSought => ReductionsComplete
  BY SoughtIsMade
<1> QED
  BY <1>1, <1>2, <1>3, StackInOrder, PTL DEF Spec
=============================================================================
