-------------------------- MODULE ItemSets_proofs --------------------------
(***************************************************************************)
(* Proofs about the grammar analysis up to the numbered item sets, for     *)
(* every set of grammars and every order of the hash tables: the grammar   *)
(* that is analysed is sound, First, Follow and the item sets are of their *)
(* types, what a state has is passed on to the states it has transitions   *)
(* to, and each state gets a number of its own.                            *)
(***************************************************************************)
EXTENDS GrammarProperties, Orders_proofs

-----------------------------------------------------------------------------
(* Lists, whatever they hold.                                              *)
IsList(f) == f \in Seq(ToSymbolSet(f))

LEMMA IsSequence ==
  ASSUME NEW S, NEW n \in Nat, NEW f \in [1..n -> S]
  PROVE  f \in Seq(S) /\ Len(f) = n
OBVIOUS

LEMMA ListLength ==
  ASSUME NEW f, IsList(f)
  PROVE  Len(f) \in Nat /\ DOMAIN f = 1..Len(f) /\ f = [i \in 1..Len(f) |-> f[i]]
BY DEF IsList

LEMMA IsAList ==
  ASSUME NEW n \in Nat, NEW f, f = [i \in 1..n |-> f[i]]
  PROVE  IsList(f) /\ Len(f) = n /\ DOMAIN f = 1..n
<1>1. f \in [1..n -> ToSymbolSet(f)] /\ DOMAIN f = 1..n
  BY DEF ToSymbolSet
<1> QED
  BY <1>1, IsSequence DEF IsList

LEMMA FiniteImage ==
  ASSUME NEW S, IsFiniteSet(S), NEW f, S = DOMAIN f
  PROVE  IsFiniteSet({f[x] : x \in S})
<1> DEFINE T == {f[x] : x \in S}
           g == [x \in S |-> f[x]]
<1>1. g \in Surjection(S, T)
  BY DEF Surjection
<1> QED
  BY <1>1, FS_Surjection

LEMMA ListIsFinite ==
  ASSUME NEW f, IsList(f)
  PROVE  IsFiniteSet(ToSymbolSet(f))
<1>1. Len(f) \in Nat /\ DOMAIN f = 1..Len(f)
  BY ListLength
<1>2. IsFiniteSet(1..Len(f))
  BY <1>1, FS_Interval
<1> QED
  BY <1>1, <1>2, FiniteImage DEF ToSymbolSet

LEMMA Concatenated ==
  ASSUME NEW f, NEW g, IsList(f), IsList(g)
  PROVE  /\ IsList(f \o g)
         /\ ToSymbolSet(f \o g) = ToSymbolSet(f) \cup ToSymbolSet(g)
         /\ Len(f \o g) = Len(f) + Len(g)
<1>1. PICK m \in Nat, n \in Nat : m = Len(f) /\ n = Len(g)
  BY ListLength
<1>2. /\ DOMAIN f = 1..m /\ f = [i \in 1..m |-> f[i]]
      /\ DOMAIN g = 1..n /\ g = [i \in 1..n |-> g[i]]
  BY <1>1, ListLength
<1> DEFINE S == ToSymbolSet(f) \cup ToSymbolSet(g)
<1>3. (\A i \in 1..m : f[i] \in S) /\ (\A i \in 1..n : g[i] \in S)
  BY <1>2 DEF ToSymbolSet
<1>4. f \in Seq(S) /\ g \in Seq(S)
  <2> HIDE DEF S
  <2>1. f \in [1..m -> S] /\ g \in [1..n -> S]
    BY <1>2, <1>3
  <2> QED
    BY <2>1, IsSequence
<1>5. PICK h : h = f \o g
  OBVIOUS
<1>6. /\ h \in Seq(S) /\ Len(h) = m + n /\ DOMAIN h = 1..(m + n)
      /\ \A i \in 1..m : h[i] = f[i]
      /\ \A i \in 1..n : h[m + i] = g[i]
  <2> HIDE DEF S
  <2>1. h \in Seq(S) /\ Len(h) = m + n
    BY <1>1, <1>4, <1>5
  <2>2. \A i \in 1..m : h[i] = f[i]
    BY <1>1, <1>4, <1>5
  <2>3. ASSUME NEW i \in 1..n PROVE h[m + i] = g[i]
    <3>1. m + i \in 1..(m + n) /\ ~ (m + i <= m) /\ m + i - m = i
      BY <2>3
    <3> QED
      BY <1>1, <1>4, <1>5, <3>1
  <2> QED
    BY <2>1, <2>2, <2>3
<1>7. \A i \in 1..m : i \in 1..(m + n)
  OBVIOUS
<1>8. \A i \in 1..n : m + i \in 1..(m + n)
  OBVIOUS
<1>9. \A i \in 1..(m + n) : i \in 1..m \/ (i - m \in 1..n /\ i = m + (i - m))
  OBVIOUS
<1>10. ToSymbolSet(h) = S
  <2>1. ASSUME NEW i \in 1..(m + n) PROVE h[i] \in S
    <3> HIDE DEF S
    <3> QED
      BY <1>6, <2>1
  <2>2. ASSUME NEW i \in 1..m PROVE f[i] \in ToSymbolSet(h)
    BY <1>6, <1>7, <2>2 DEF ToSymbolSet
  <2>3. ASSUME NEW i \in 1..n PROVE g[i] \in ToSymbolSet(h)
    <3>1. g[i] = h[m + i] /\ m + i \in DOMAIN h
      BY <1>6, <1>8, <2>3
    <3> QED
      BY <3>1 DEF ToSymbolSet
  <2>4. S \subseteq ToSymbolSet(h)
    BY <1>2, <2>2, <2>3 DEF ToSymbolSet
  <2>5. ToSymbolSet(h) \subseteq S
    BY <1>6, <2>1 DEF ToSymbolSet
  <2> QED
    BY <2>4, <2>5
<1> QED
  BY <1>1, <1>5, <1>6, <1>10 DEF IsList

LEMMA ConcatenatedAt ==
  ASSUME NEW f, NEW g, IsList(f), IsList(g)
  PROVE  /\ \A i \in DOMAIN f : (f \o g)[i] = f[i]
         /\ \A i \in DOMAIN g : (f \o g)[Len(f) + i] = g[i]
<1>1. PICK m \in Nat, n \in Nat : m = Len(f) /\ n = Len(g)
  BY ListLength
<1>2. /\ DOMAIN f = 1..m /\ f = [i \in 1..m |-> f[i]]
      /\ DOMAIN g = 1..n /\ g = [i \in 1..n |-> g[i]]
  BY <1>1, ListLength
<1>3. PICK S : S = ToSymbolSet(f) \cup ToSymbolSet(g)
  OBVIOUS
<1>4. (\A i \in 1..m : f[i] \in S) /\ (\A i \in 1..n : g[i] \in S)
  BY <1>2, <1>3 DEF ToSymbolSet
<1>5. f \in [1..m -> S] /\ g \in [1..n -> S]
  BY <1>2, <1>4
<1>6. f \in Seq(S) /\ g \in Seq(S)
  BY <1>5, IsSequence
<1>7. \A i \in 1..m : (f \o g)[i] = f[i]
  BY <1>1, <1>6
<1>8. ASSUME NEW i \in 1..n PROVE (f \o g)[m + i] = g[i]
  <2>1. m + i \in 1..(m + n) /\ ~ (m + i <= m) /\ m + i - m = i
    BY <1>8
  <2> QED
    BY <1>1, <1>6, <2>1
<1> QED
  BY <1>1, <1>2, <1>7, <1>8

-----------------------------------------------------------------------------
(* Least and greatest numbers.                                             *)
LEMMA MinIs ==
  ASSUME NEW T \in SUBSET Nat, T # {}
  PROVE  Min(T) \in T /\ \A y \in T : Min(T) <= y
BY LeastElement DEF Min

LEMMA MaxIs ==
  ASSUME NEW n \in Nat, NEW T \in SUBSET (0..n), T # {}
  PROVE  Max(T) \in T /\ \A y \in T : y <= Max(T)
<1> DEFINE U == {n - x : x \in T}
<1>1. U \in SUBSET Nat /\ U # {}
  <2>1. \A x \in T : n - x \in Nat
    OBVIOUS
  <2>2. PICK x \in T : TRUE
    OBVIOUS
  <2>3. n - x \in U
    BY <2>2
  <2> QED
    BY <2>1, <2>3
<1>2. PICK u \in U : \A v \in U : u <= v
  BY <1>1, LeastElement
<1>3. PICK x \in T : u = n - x
  BY <1>2
<1>4. \A y \in T : x >= y
  <2> TAKE y \in T
  <2>1. n - x <= n - y
    BY <1>2, <1>3
  <2> QED
    BY <2>1
<1>5. Max(T) \in T /\ \A y \in T : Max(T) >= y
  BY <1>4 DEF Max
<1> QED
  BY <1>5

-----------------------------------------------------------------------------
(* The elements of a finite set in an order.                               *)
NumberAt(S, i) == CHOOSE x \in S : Cardinality({y \in S : y < x}) = i - 1

InOrderOf(r, S, R) ==
  /\ r = [i \in 1..Cardinality(S) |-> r[i]]
  /\ \A i \in 1..Cardinality(S) : \A x \in S :
       Cardinality(Behind(R, S, x)) = i - 1 =>
         r[i] \in S /\ Cardinality(Behind(R, S, r[i])) = i - 1

LEMMA OrderListed ==
  ASSUME NEW S, IsFiniteSet(S), NEW R, TotalOrder(R, S), NEW r, InOrderOf(r, S, R)
  PROVE  /\ r \in Seq(S) /\ Len(r) = Cardinality(S) /\ DOMAIN r = 1..Cardinality(S)
         /\ ToSymbolSet(r) = S
         /\ \A i, j \in DOMAIN r : r[i] = r[j] => i = j
         /\ \A i, j \in DOMAIN r : i < j <=> <<r[i], r[j]>> \in R
         /\ \A i \in DOMAIN r : Cardinality(Behind(R, S, r[i])) = i - 1
<1>1. PICK n \in Nat : n = Cardinality(S)
  BY FS_CardinalityType
<1>2. PICK c : c = [x \in S |-> Cardinality(Behind(R, S, x))]
  OBVIOUS
<1>3. /\ \A x \in S : c[x] \in 0..(n - 1)
      /\ \A x, z \in S : <<x, z>> \in R <=> c[x] < c[z]
      /\ \A x, z \in S : c[x] = c[z] => x = z
      /\ \A i \in 0..(n - 1) : \E x \in S : c[x] = i
  BY <1>1, <1>2, Places
<1>4. ASSUME NEW i \in 1..n PROVE r[i] \in S /\ c[r[i]] = i - 1
  <2>1. i - 1 \in 0..(n - 1)
    OBVIOUS
  <2>2. PICK x \in S : c[x] = i - 1
    BY <1>3, <2>1
  <2>3. Cardinality(Behind(R, S, x)) = i - 1
    BY <1>2, <2>2
  <2>4. r[i] \in S /\ Cardinality(Behind(R, S, r[i])) = i - 1
    BY <1>1, <2>2, <2>3 DEF InOrderOf
  <2> QED
    BY <1>2, <2>4
<1>5. r = [i \in 1..n |-> r[i]]
  BY <1>1 DEF InOrderOf
<1>6. DOMAIN r = 1..n /\ r \in Seq(S) /\ Len(r) = n
  <2>1. r \in [1..n -> S]
    BY <1>4, <1>5
  <2>2. r \in Seq(S) /\ Len(r) = n
    BY <2>1, IsSequence
  <2> QED
    BY <2>1, <2>2
<1>7. ToSymbolSet(r) = S
  <2>1. ASSUME NEW x \in S PROVE \E i \in 1..n : r[i] = x
    <3>1. c[x] \in 0..(n - 1) /\ c[x] + 1 \in 1..n /\ (c[x] + 1) - 1 = c[x]
      BY <1>3
    <3>2. r[c[x] + 1] \in S /\ c[r[c[x] + 1]] = c[x]
      BY <1>4, <3>1
    <3> QED
      BY <1>3, <3>1, <3>2
  <2>2. {r[i] : i \in 1..n} \subseteq S
    BY <1>4
  <2>3. S \subseteq {r[i] : i \in 1..n}
    BY <2>1
  <2> QED
    BY <1>6, <2>2, <2>3 DEF ToSymbolSet
<1>8. ASSUME NEW i \in 1..n, NEW j \in 1..n
      PROVE  (r[i] = r[j] => i = j) /\ (i < j <=> <<r[i], r[j]>> \in R)
  <2>1. /\ r[i] \in S /\ c[r[i]] = i - 1
        /\ r[j] \in S /\ c[r[j]] = j - 1
    BY <1>4
  <2>2. <<r[i], r[j]>> \in R <=> c[r[i]] < c[r[j]]
    BY <1>3, <2>1
  <2> QED
    BY <2>1, <2>2
<1> QED
  BY <1>1, <1>2, <1>4, <1>6, <1>7, <1>8

-----------------------------------------------------------------------------
(* Numbers in their order, and what a list has at some places.             *)
LEMMA NumbersListed ==
  ASSUME NEW S \in SUBSET Int, IsFiniteSet(S),
         NEW r, r = [i \in 1..Cardinality(S) |-> NumberAt(S, i)]
  PROVE  /\ r \in Seq(S) /\ Len(r) = Cardinality(S) /\ DOMAIN r = 1..Cardinality(S)
         /\ ToSymbolSet(r) = S
         /\ \A i, j \in DOMAIN r : r[i] = r[j] => i = j
         /\ \A i, j \in DOMAIN r : i < j <=> r[i] < r[j]
         /\ \A i \in DOMAIN r : Cardinality({y \in S : y < r[i]}) = i - 1
<1>1. PICK R : R = Smaller(S)
  OBVIOUS
<1>2. TotalOrder(R, S) /\ \A x \in S : Behind(R, S, x) = {y \in S : y < x}
  BY <1>1, NumbersOrdered
<1>3. InOrderOf(r, S, R)
  <2>1. r = [i \in 1..Cardinality(S) |-> r[i]]
    OBVIOUS
  <2>2. ASSUME NEW i \in 1..Cardinality(S), NEW x \in S, Cardinality(Behind(R, S, x)) = i - 1
        PROVE  r[i] \in S /\ Cardinality(Behind(R, S, r[i])) = i - 1
    <3>1. Cardinality({y \in S : y < x}) = i - 1
      BY <1>2, <2>2
    <3>2. NumberAt(S, i) \in S /\ Cardinality({y \in S : y < NumberAt(S, i)}) = i - 1
      BY <3>1 DEF NumberAt
    <3>3. r[i] = NumberAt(S, i)
      OBVIOUS
    <3> QED
      BY <1>2, <3>2, <3>3
  <2> QED
    BY <2>1, <2>2 DEF InOrderOf
<1>4. /\ r \in Seq(S) /\ Len(r) = Cardinality(S) /\ DOMAIN r = 1..Cardinality(S)
      /\ ToSymbolSet(r) = S
      /\ \A i, j \in DOMAIN r : r[i] = r[j] => i = j
      /\ \A i, j \in DOMAIN r : i < j <=> <<r[i], r[j]>> \in R
      /\ \A i \in DOMAIN r : Cardinality(Behind(R, S, r[i])) = i - 1
  BY <1>2, <1>3, OrderListed
<1>5. \A i \in DOMAIN r : r[i] \in S
  BY <1>4 DEF ToSymbolSet
<1>6. \A i, j \in DOMAIN r : <<r[i], r[j]>> \in R <=> r[i] < r[j]
  <2> TAKE i \in DOMAIN r, j \in DOMAIN r
  <2>1. PICK x \in S, y \in S : x = r[i] /\ y = r[j]
    BY <1>5
  <2>2. <<x, y>> \in S \X S /\ <<x, y>>[1] = x /\ <<x, y>>[2] = y
    OBVIOUS
  <2> QED
    BY <1>1, <2>1, <2>2 DEF Smaller
<1> QED
  BY <1>2, <1>4, <1>5, <1>6

NumberList(K) == [i \in 1..Cardinality(K) |-> NumberAt(K, i)]

LEMMA SelectedAt ==
  ASSUME NEW K, NEW seq
  PROVE  /\ Selected(seq, K) = [k \in 1..Cardinality(K) |-> Selected(seq, K)[k]]
         /\ \A k \in 1..Cardinality(K) : Selected(seq, K)[k] = seq[NumberList(K)[k]]
<1>1. InOrder(K, LAMBDA i, j : i < j) = NumberList(K)
  BY DEF InOrder, NumberAt, NumberList
<1>2. Selected(seq, K) = [k \in DOMAIN NumberList(K) |-> seq[NumberList(K)[k]]]
  BY <1>1 DEF Selected
<1>3. DOMAIN NumberList(K) = 1..Cardinality(K)
  BY DEF NumberList
<1> QED
  BY <1>2, <1>3

LEMMA SelectedIs ==
  ASSUME NEW K \in SUBSET Int, IsFiniteSet(K), NEW seq
  PROVE  /\ IsList(Selected(seq, K)) /\ Len(Selected(seq, K)) = Cardinality(K)
         /\ DOMAIN Selected(seq, K) = 1..Cardinality(K) /\ Cardinality(K) \in Nat
         /\ ToSymbolSet(Selected(seq, K)) = {seq[k] : k \in K}
<1>0. PICK at : at = NumberList(K)
  OBVIOUS
<1>1. at = [i \in 1..Cardinality(K) |-> NumberAt(K, i)]
  BY <1>0 DEF NumberList
<1>2. PICK n \in Nat : n = Cardinality(K)
  BY FS_CardinalityType
<1>3. DOMAIN at = 1..n /\ ToSymbolSet(at) = K
  <2>1. ToSymbolSet(at) = K /\ DOMAIN at = 1..Cardinality(K)
    BY <1>1, NumbersListed
  <2> QED
    BY <1>2, <2>1
<1>4. PICK r : r = Selected(seq, K)
  OBVIOUS
<1>5. r = [k \in 1..n |-> r[k]] /\ \A k \in 1..n : r[k] = seq[at[k]]
  BY <1>0, <1>2, <1>4, SelectedAt
<1>6. IsList(r) /\ Len(r) = n /\ DOMAIN r = 1..n
  BY <1>5, IsAList
<1>7. ToSymbolSet(r) = {seq[k] : k \in K}
  <2>1. K = {at[k] : k \in 1..n}
    BY <1>3 DEF ToSymbolSet
  <2> QED
    BY <1>5, <1>6, <2>1 DEF ToSymbolSet
<1> QED
  BY <1>2, <1>4, <1>6, <1>7

LEMMA SelectedEnd ==
  ASSUME NEW a \in Nat, NEW n \in Nat, a <= n, NEW seq
  PROVE  Selected(seq, (a + 1)..n) = [k \in 1..(n - a) |-> seq[a + k]]
<1>1. PICK K : K = (a + 1)..n
  OBVIOUS
<1>2. K \in SUBSET Int /\ IsFiniteSet(K) /\ Cardinality(K) = n - a
  <2>1. a + 1 \in Int /\ n \in Int /\ (a + 1 > n => n - a = 0) /\ n - (a + 1) + 1 = n - a
    OBVIOUS
  <2>2. IsFiniteSet(K) /\ Cardinality(K) = n - a
    BY <1>1, <2>1, FS_Interval
  <2> QED
    BY <1>1, <2>2
<1>0. PICK at : at = NumberList(K)
  OBVIOUS
<1>3. at = [i \in 1..Cardinality(K) |-> NumberAt(K, i)]
  BY <1>0 DEF NumberList
<1>4. /\ DOMAIN at = 1..(n - a) /\ ToSymbolSet(at) = K
      /\ \A i \in DOMAIN at : Cardinality({y \in K : y < at[i]}) = i - 1
  <2>1. K \in SUBSET Int /\ IsFiniteSet(K) /\ at = [i \in 1..Cardinality(K) |-> NumberAt(K, i)]
    BY <1>2, <1>3
  <2>2. /\ DOMAIN at = 1..Cardinality(K) /\ ToSymbolSet(at) = K
        /\ \A i \in DOMAIN at : Cardinality({y \in K : y < at[i]}) = i - 1
    BY ONLY <2>1, NumbersListed
  <2> QED
    BY <1>2, <2>2
<1>5. ASSUME NEW i \in 1..(n - a) PROVE at[i] = a + i
  <2>1. PICK x \in K : x = at[i]
    BY <1>4 DEF ToSymbolSet
  <2>2. {y \in K : y < x} = (a + 1)..(x - 1)
    BY <1>1
  <2>3. a + 1 \in Int /\ x - 1 \in Int /\ a + 1 <= x /\ (a + 1 > x - 1 => x - 1 - a = 0)
        /\ (x - 1) - (a + 1) + 1 = x - 1 - a
    BY <1>1
  <2>4. Cardinality((a + 1)..(x - 1)) = x - 1 - a
    BY <2>3, FS_Interval
  <2>5. x - 1 - a = i - 1
    BY <1>4, <2>1, <2>2, <2>4
  <2> QED
    BY <1>1, <2>1, <2>5
<1>6. PICK r : r = Selected(seq, K)
  OBVIOUS
<1>7. r = [k \in 1..(n - a) |-> r[k]]
  BY <1>0, <1>2, <1>6, SelectedAt
<1>8. \A k \in 1..(n - a) : r[k] = seq[at[k]]
  BY <1>0, <1>2, <1>6, SelectedAt
<1> QED
  BY <1>1, <1>5, <1>6, <1>7, <1>8

-----------------------------------------------------------------------------
(* The grammar that is analysed.                                           *)
SymbolIn(terms, nonterms, x) ==
  /\ x \in Int
  /\ IF IsTerminal(x) THEN TermIndex(x) \in 0..(terms - 1)
                      ELSE NtIndex(x) \in 1..(nonterms - 1)

(* The start symbol has production 1 and no other, and is on no right-hand *)
(* side.                                                                   *)
SoundGrammar(g) ==
  /\ g.terms \in Nat /\ g.nonterms \in Nat \ {0}
  /\ IsList(g.prods) /\ 1 \in DOMAIN g.prods
  /\ \A p \in DOMAIN g.prods :
       /\ g.prods[p].lhs \in 0..(g.nonterms - 1) /\ (g.prods[p].lhs = 0 <=> p = 1)
       /\ g.prods[p].prec \in Nat
       /\ IsList(g.prods[p].rhs)
       /\ \A i \in DOMAIN g.prods[p].rhs : SymbolIn(g.terms, g.nonterms, g.prods[p].rhs[i])
  /\ \A t \in 0..(g.terms - 1) :
       g.tokens[t + 1].prec \in Nat /\ g.tokens[t + 1].assoc \in Associativity

LEMMA NewIndexIs ==
  ASSUME NEW K \in SUBSET Int, IsFiniteSet(K)
  PROVE  /\ Cardinality(K) \in Nat
         /\ \A x \in K : NewIndex(K, x) \in 0..(Cardinality(K) - 1)
         /\ \A x, y \in K : x < y <=> NewIndex(K, x) < NewIndex(K, y)
         /\ \A i \in 0..(Cardinality(K) - 1) : \E x \in K : NewIndex(K, x) = i
<1>1. PICK R : R = Smaller(K)
  OBVIOUS
<1>2. TotalOrder(R, K) /\ \A x \in K : Behind(R, K, x) = {y \in K : y < x}
  BY <1>1, NumbersOrdered
<1>3. \A x \in K : NewIndex(K, x) = Cardinality(Behind(R, K, x))
  BY <1>2 DEF NewIndex
<1>4. \A x, y \in K : <<x, y>> \in R <=> x < y
  <2> TAKE x \in K, y \in K
  <2>1. <<x, y>> \in K \X K /\ <<x, y>>[1] = x /\ <<x, y>>[2] = y
    OBVIOUS
  <2> QED
    BY <1>1, <2>1 DEF Smaller
<1>5. PICK c : c = [x \in K |-> Cardinality(Behind(R, K, x))]
  OBVIOUS
<1>6. /\ \A x \in K : c[x] \in 0..(Cardinality(K) - 1)
      /\ \A x, z \in K : <<x, z>> \in R <=> c[x] < c[z]
      /\ \A i \in 0..(Cardinality(K) - 1) : \E x \in K : c[x] = i
  <2>1. IsFiniteSet(K) /\ TotalOrder(R, K)
    BY <1>2
  <2>2. \A x \in K : Cardinality(Behind(R, K, x)) \in 0..(Cardinality(K) - 1)
    BY ONLY <2>1, Places
  <2>3. \A x, z \in K : <<x, z>> \in R <=>
          Cardinality(Behind(R, K, x)) < Cardinality(Behind(R, K, z))
    BY ONLY <2>1, Places
  <2>4. \A i \in 0..(Cardinality(K) - 1) : \E x \in K : Cardinality(Behind(R, K, x)) = i
    <3>1. PICK S : S = K
      OBVIOUS
    <3>2. IsFiniteSet(S) /\ TotalOrder(R, S)
      BY <2>1, <3>1
    <3>3. \A i \in 0..(Cardinality(S) - 1) : \E x \in S : Cardinality(Behind(R, S, x)) = i
      BY ONLY <3>2, PlaceTaken
    <3> QED
      BY <3>1, <3>3
  <2> QED
    BY ONLY <1>5, <2>2, <2>3, <2>4
<1>7. \A x \in K : c[x] = NewIndex(K, x)
  BY <1>3, <1>5
<1>8. \A x, y \in K : x < y <=> c[x] < c[y]
  BY <1>4, <1>6
<1>9. Cardinality(K) \in Nat
  BY FS_CardinalityType
<1> QED
  BY <1>6, <1>7, <1>8, <1>9

(* What is reached in as many rounds as there are nonterminals is closed.  *)
Reaches(g, S) == {NtIndex(x) : x \in {y \in UsedBy(g, S) : ~ IsTerminal(y)}}

LEMMA InputIs ==
  ASSUME NEW g \in Input
  PROVE  /\ g.terms \in Nat /\ g.nonterms \in Nat \ {0}
         /\ \E n \in Nat \ {0} : n = Len(g.prods) /\ DOMAIN g.prods = 1..n
         /\ g.prods[1].lhs = 0
         /\ \A i \in DOMAIN g.prods :
              /\ g.prods[i].lhs \in Nat /\ g.prods[i].prec \in Nat
              /\ g.prods[i].rhs \in Seq(Int)
              /\ g.prods[i].forbid \in SUBSET Nat
              /\ i # 1 => g.prods[i].lhs \in 1..(g.nonterms - 1)
         /\ DOMAIN g.tokens = 1..g.terms
         /\ \A t \in DOMAIN g.tokens : g.tokens[t].prec \in Nat /\ g.tokens[t].assoc \in Associativity
<1>1. /\ g.terms \in Nat /\ g.nonterms \in Nat \ {0}
      /\ g.prods \in Seq([lhs : Nat, rhs : Seq(Int), prec : Nat, forbid : SUBSET Nat])
      /\ g.tokens \in Seq([prec : Nat, assoc : Associativity])
      /\ g.prods # << >> /\ g.prods[1].lhs = 0 /\ Len(g.tokens) = g.terms
      /\ \A i \in DOMAIN g.prods :
           i > 1 => g.prods[i].lhs \in 1..(g.nonterms - 1)
  BY DEF Input
<1>2. PICK n \in Nat : n = Len(g.prods) /\ DOMAIN g.prods = 1..n
  BY <1>1
<1>3. n # 0
  BY <1>1, <1>2
<1>4. \A i \in DOMAIN g.prods :
        g.prods[i] \in [lhs : Nat, rhs : Seq(Int), prec : Nat, forbid : SUBSET Nat]
  <2>1. PICK S, f : /\ S = [lhs : Nat, rhs : Seq(Int), prec : Nat, forbid : SUBSET Nat]
                    /\ f = g.prods
    OBVIOUS
  <2>2. f \in Seq(S)
    BY <1>1, <2>1
  <2>3. \A i \in DOMAIN f : f[i] \in S
    BY ONLY <2>2
  <2> QED
    BY <2>1, <2>3
<1>5. \A i \in DOMAIN g.prods :
        /\ g.prods[i].lhs \in Nat /\ g.prods[i].prec \in Nat
        /\ g.prods[i].rhs \in Seq(Int) /\ g.prods[i].forbid \in SUBSET Nat
  BY <1>4
<1>6. \A i \in DOMAIN g.prods : i # 1 => g.prods[i].lhs \in 1..(g.nonterms - 1)
  <2> TAKE i \in DOMAIN g.prods
  <2> HAVE i # 1
  <2>1. i > 1
    BY <1>2
  <2> QED
    BY <1>1, <2>1
<1>7. DOMAIN g.tokens = 1..g.terms /\ \A t \in DOMAIN g.tokens :
        g.tokens[t] \in [prec : Nat, assoc : Associativity]
  <2>1. PICK S, f : S = [prec : Nat, assoc : Associativity] /\ f = g.tokens
    OBVIOUS
  <2>2. f \in Seq(S) /\ Len(f) = g.terms
    BY <1>1, <2>1
  <2>3. DOMAIN f = 1..Len(f) /\ \A t \in DOMAIN f : f[t] \in S
    BY ONLY <2>2
  <2> QED
    BY <2>1, <2>2, <2>3
<1>8. \A t \in DOMAIN g.tokens : g.tokens[t].prec \in Nat /\ g.tokens[t].assoc \in Associativity
  BY <1>7
<1> QED
  BY <1>1, <1>2, <1>3, <1>5, <1>6, <1>7, <1>8

LEMMA UsedByIs ==
  ASSUME NEW g \in Input, NEW S
  PROVE  /\ \A x \in UsedBy(g, S) :
              /\ x \in Int
              /\ IF IsTerminal(x) THEN TermIndex(x) \in 0..(g.terms - 1)
                                  ELSE NtIndex(x) \in 1..(g.nonterms - 1)
         /\ \A i \in DOMAIN g.prods : g.prods[i].lhs \in S =>
              \A j \in DOMAIN g.prods[i].rhs : g.prods[i].rhs[j] \in UsedBy(g, S)
<1>1. ASSUME NEW i \in DOMAIN g.prods, NEW j \in DOMAIN g.prods[i].rhs
      PROVE  /\ g.prods[i].rhs[j] \in Int
             /\ IF IsTerminal(g.prods[i].rhs[j])
                THEN TermIndex(g.prods[i].rhs[j]) \in 0..(g.terms - 1)
                ELSE NtIndex(g.prods[i].rhs[j]) \in 1..(g.nonterms - 1)
  <2>1. g.prods[i].rhs \in Seq(Int)
    BY InputIs
  <2>2. g.prods[i].rhs[j] \in Int
    BY <2>1
  <2> QED
    BY <2>2 DEF Input
<1>2. \A i \in DOMAIN g.prods : g.prods[i].lhs \in S =>
        \A j \in DOMAIN g.prods[i].rhs : g.prods[i].rhs[j] \in UsedBy(g, S)
  BY DEF UsedBy, ToSymbolSet
<1>3. ASSUME NEW x \in UsedBy(g, S)
      PROVE  \E i \in DOMAIN g.prods : \E j \in DOMAIN g.prods[i].rhs : x = g.prods[i].rhs[j]
  BY DEF UsedBy, ToSymbolSet
<1> QED
  BY <1>1, <1>2, <1>3

LEMMA ReachableIs ==
  ASSUME NEW g \in Input
  PROVE  /\ ReachableNonterms(g) \in SUBSET (0..(g.nonterms - 1))
         /\ 0 \in ReachableNonterms(g)
         /\ Reaches(g, ReachableNonterms(g)) \subseteq ReachableNonterms(g)
<1> DEFINE N == g.nonterms
           All0 == 0..(N - 1)
           More(S) == S \cup Reaches(g, S)
           Good(k) == {S \in SUBSET All0 : 0 \in S /\
                         (Reaches(g, S) \subseteq S \/ Cardinality(S) >= k + 1)}
           V == [k \in 0..N |-> Good(k)]
           step == [e \in (1..N) \X SUBSET All0 |-> More(e[2])]
<1>1. N \in Nat \ {0} /\ IsFiniteSet(All0) /\ Cardinality(All0) = N
  <2>1. N \in Nat \ {0}
    BY InputIs
  <2>2. 0 \in Int /\ N - 1 \in Int /\ ~ (0 > N - 1) /\ (N - 1) - 0 + 1 = N
    BY <2>1
  <2> QED
    BY <2>1, <2>2, FS_Interval
<1>2. \A S : Reaches(g, S) \subseteq 1..(N - 1)
  BY UsedByIs DEF Reaches
<1>3. {0} \in V[0]
  <2>0. Cardinality({0}) = 1
    BY FS_Singleton
  <2>1. {0} \in SUBSET All0 /\ Cardinality({0}) >= 0 + 1
    BY <1>1, <2>0
  <2>2. 0 \in 0..N
    BY <1>1
  <2> QED
    BY <2>1, <2>2
<1>4. ASSUME NEW k \in 1..N, NEW S \in V[k - 1] PROVE step[<<k, S>>] \in V[k]
  <2>1. k - 1 \in 0..N /\ k \in 0..N /\ (k - 1) + 1 = k
    BY <1>1
  <2>2. /\ S \in SUBSET All0 /\ 0 \in S
        /\ Reaches(g, S) \subseteq S \/ Cardinality(S) >= k
    BY <2>1
  <2>3. step[<<k, S>>] = More(S)
    <3>1. <<k, S>> \in (1..N) \X SUBSET All0
      BY <2>2
    <3> QED
      BY <3>1
  <2>4. More(S) \in SUBSET All0 /\ 0 \in More(S)
    <3>1. Reaches(g, S) \in SUBSET All0
      <4>1. Reaches(g, S) \subseteq 1..(N - 1)
        BY <1>2
      <4>2. 1..(N - 1) \subseteq All0
        BY <1>1
      <4> QED
        BY <4>1, <4>2
    <3> QED
      BY <2>2, <3>1
  <2>5. CASE Reaches(g, S) \subseteq S
    <3>1. More(S) = S
      BY <2>5
    <3> QED
      BY <2>1, <2>2, <2>3, <2>5, <3>1
  <2>6. CASE ~ (Reaches(g, S) \subseteq S)
    <3>1. IsFiniteSet(More(S))
      BY <1>1, <2>4, FS_Subset
    <3>2. S \in SUBSET More(S) /\ S # More(S)
      BY <2>6
    <3>3. /\ Cardinality(S) <= Cardinality(More(S)) /\ Cardinality(S) # Cardinality(More(S))
          /\ Cardinality(S) \in Nat /\ Cardinality(More(S)) \in Nat
      BY <3>1, <3>2, FS_Subset, FS_CardinalityType
    <3>4. Cardinality(More(S)) >= k + 1
      BY <2>2, <2>6, <3>3
    <3> QED
      BY <2>1, <2>3, <2>4, <3>4
  <2> QED
    BY <2>5, <2>6
<1>5. N \in Nat
  BY <1>1
<1>6. /\ \E f : f = [k \in 0..N |-> f[k]] /\ IsIterated(f, N, {0}, step)
      /\ \A f : IsIterated(f, N, {0}, step) => \A k \in 0..N : f[k] \in V[k]
  <2> HIDE DEF V, step, N
  <2> QED
    BY <1>3, <1>4, <1>5, Iterated
<1> DEFINE IsReach(f) == f = [n \in 0..N |-> IF n = 0 THEN {0} ELSE f[n - 1] \cup
               {NtIndex(x) : x \in {y \in UsedBy(g, f[n - 1]) : ~ IsTerminal(y)}}]
<1>7. ASSUME NEW f, f = [k \in 0..N |-> f[k]], IsIterated(f, N, {0}, step) PROVE IsReach(f)
  <2>1. ASSUME NEW n \in 0..N, n # 0 PROVE f[n] = f[n - 1] \cup Reaches(g, f[n - 1])
    <3>1. n \in 1..N /\ n - 1 \in 0..N
      BY <1>1, <2>1
    <3>2. f[n - 1] \in SUBSET All0
      BY <1>6, <1>7, <3>1
    <3>3. <<n, f[n - 1]>> \in (1..N) \X SUBSET All0
      BY <3>1, <3>2
    <3> QED
      BY <1>7, <3>1, <3>3 DEF IsIterated
  <2>2. f[0] = {0}
    BY <1>7 DEF IsIterated
  <2> QED
    BY <1>7, <2>1, <2>2 DEF Reaches
<1>8. ASSUME NEW f, IsReach(f) PROVE f[N] \in V[N]
  <2>1. DOMAIN f = 0..N /\ f[0] = {0}
    BY <1>1, <1>8
  <2>2. ASSUME NEW k \in 1..N PROVE f[k] = More(f[k - 1])
    <3>1. k \in 0..N /\ k # 0
      BY <1>1
    <3> QED
      BY <1>8, <3>1 DEF Reaches
  <2>3. \A k \in 0..N : f[k] \in SUBSET All0
    <3> DEFINE W == [k \in 0..N |-> SUBSET All0]
    <3> DEFINE Out == {k \in 0..N : f[k] \notin SUBSET All0}
    <3> SUFFICES ASSUME Out # {} PROVE FALSE
      OBVIOUS
    <3>1. Out \in SUBSET Nat
      OBVIOUS
    <3>2. PICK k \in Out : \A j \in Out : k <= j
      <4> HIDE DEF Out
      <4> QED
        BY <3>1, LeastElement
    <3>3. k # 0
      BY <1>1, <2>1, <3>2
    <3>4. k \in 1..N /\ k - 1 \in 0..N /\ ~ (k <= k - 1)
      BY <1>1, <3>2, <3>3
    <3>5. f[k - 1] \in SUBSET All0
      BY <3>2, <3>4
    <3>6. More(f[k - 1]) \in SUBSET All0
      BY <1>1, <1>2, <3>5
    <3> QED
      BY <2>2, <3>2, <3>4, <3>6
  <2>4. IsIterated(f, N, {0}, step)
    <3>1. ASSUME NEW k \in 1..N PROVE f[k] = step[<<k, f[k - 1]>>]
      <4>1. f[k - 1] \in SUBSET All0
        <5>1. k - 1 \in 0..N
          BY <1>1
        <5> QED
          BY <2>3, <5>1
      <4>2. <<k, f[k - 1]>> \in (1..N) \X SUBSET All0
        BY <4>1
      <4> QED
        BY <2>2, <4>2
    <3> QED
      BY <2>1, <3>1 DEF IsIterated
  <2>5. N \in 0..N
    BY <1>1
  <2> QED
    BY <1>6, <2>4, <2>5
<1>9. PICK f : IsReach(f) /\ ReachableNonterms(g) = f[N]
  <2>1. ReachableNonterms(g) = (CHOOSE f : IsReach(f))[N]
    BY DEF ReachableNonterms
  <2>2. \E f : IsReach(f)
    BY <1>6, <1>7
  <2> HIDE DEF IsReach
  <2> QED
    BY <2>1, <2>2
<1>10. f[N] \in Good(N)
  <2>1. N \in 0..N
    BY <1>1
  <2> QED
    BY <1>8, <1>9, <2>1
<1>11. ~ (Cardinality(f[N]) >= N + 1)
  <2>1. f[N] \in SUBSET All0
    BY <1>10
  <2>2. Cardinality(f[N]) <= N /\ Cardinality(f[N]) \in Nat
    BY <1>1, <2>1, FS_Subset, FS_CardinalityType
  <2> QED
    BY <1>1, <2>2
<1> QED
  BY <1>9, <1>10, <1>11

Kept(g) == {i \in DOMAIN g.prods : g.prods[i].lhs \in ReachableNonterms(g)}
NewSymbol(g, x) ==
  IF IsTerminal(x) THEN TermId(NewIndex(ReachableTerms(g), TermIndex(x)))
                   ELSE NontermId(NewIndex(ReachableNonterms(g), NtIndex(x)))
Unchanged(g) ==
  ReachableTerms(g) = 0..(g.terms - 1) /\ ReachableNonterms(g) = 0..(g.nonterms - 1)
NewProd(g, p) ==
  [lhs |-> NewIndex(ReachableNonterms(g), p.lhs),
   rhs |-> [i \in DOMAIN p.rhs |-> NewSymbol(g, p.rhs[i])],
   prec |-> p.prec,
   forbid |-> IF Unchanged(g) THEN p.forbid ELSE ForbidConverted(p.forbid, ReachableTerms(g))]
OldTerm(g, i) == CHOOSE t \in ReachableTerms(g) : NewIndex(ReachableTerms(g), t) = i - 1

LEMMA InitialIs ==
  ASSUME NEW g
  PROVE  /\ InitializeAuxData(g).terms = Cardinality(ReachableTerms(g))
         /\ InitializeAuxData(g).nonterms = Cardinality(ReachableNonterms(g))
         /\ InitializeAuxData(g).prods =
              [i \in DOMAIN Selected(g.prods, Kept(g)) |->
                 NewProd(g, Selected(g.prods, Kept(g))[i])]
         /\ InitializeAuxData(g).tokens =
              [i \in 1..Cardinality(ReachableTerms(g)) |-> g.tokens[OldTerm(g, i) + 1]]
         /\ InitializeAuxData(g).subsets =
              {<<NewIndex(ReachableNonterms(g), e[1]), NewIndex(ReachableNonterms(g), e[2])>> :
                 e \in g.subsets \cap (ReachableNonterms(g) \X ReachableNonterms(g))}
BY DEF InitializeAuxData, Kept, NewProd, NewSymbol, Unchanged, OldTerm

LEMMA TermsReached ==
  ASSUME NEW g \in Input
  PROVE  /\ ReachableTerms(g) \in SUBSET (0..(g.terms - 1))
         /\ IsFiniteSet(ReachableTerms(g)) /\ IsFiniteSet(ReachableNonterms(g))
         /\ ReachableTerms(g) \in SUBSET Int /\ ReachableNonterms(g) \in SUBSET Int
<1>1. ReachableTerms(g) \in SUBSET (0..(g.terms - 1))
  BY UsedByIs DEF ReachableTerms
<1>2. ReachableNonterms(g) \in SUBSET (0..(g.nonterms - 1))
  BY ReachableIs
<1>3. IsFiniteSet(0..(g.terms - 1)) /\ IsFiniteSet(0..(g.nonterms - 1))
  <2>1. 0 \in Int /\ g.terms - 1 \in Int /\ g.nonterms - 1 \in Int
    BY InputIs
  <2> QED
    BY <2>1, FS_Interval
<1>4. 0..(g.terms - 1) \in SUBSET Int /\ 0..(g.nonterms - 1) \in SUBSET Int
  OBVIOUS
<1> QED
  BY <1>1, <1>2, <1>3, <1>4, FS_Subset

(* The productions that are left, the first of which is the first.         *)
LEMMA KeptAre ==
  ASSUME NEW g \in Input
  PROVE  /\ IsList(Selected(g.prods, Kept(g))) /\ 1 \in DOMAIN Selected(g.prods, Kept(g))
         /\ Kept(g) \in SUBSET Int /\ IsFiniteSet(Kept(g))
         /\ \A i \in DOMAIN Selected(g.prods, Kept(g)) :
              \E k \in Kept(g) : /\ Selected(g.prods, Kept(g))[i] = g.prods[k]
                                 /\ k = 1 <=> i = 1
<1>1. PICK K : K = Kept(g)
  OBVIOUS
<1>2. PICK n \in Nat \ {0} : DOMAIN g.prods = 1..n
  BY InputIs
<1>3. 1 \in K /\ K \in SUBSET (1..n)
  <2>1. g.prods[1].lhs = 0 /\ 0 \in ReachableNonterms(g)
    BY InputIs, ReachableIs
  <2> QED
    BY <1>1, <1>2, <2>1 DEF Kept
<1>4. K \in SUBSET Int /\ IsFiniteSet(K)
  <2>1. IsFiniteSet(1..n) /\ 1..n \in SUBSET Int
    BY <1>2, FS_Interval
  <2>2. IsFiniteSet(K)
    BY <1>3, <2>1, FS_Subset
  <2> QED
    BY <1>3, <2>1, <2>2
<1>5. PICK at : at = NumberList(K)
  OBVIOUS
<1>6. PICK c \in Nat : c = Cardinality(K)
  BY <1>4, FS_CardinalityType
<1>7. /\ DOMAIN at = 1..c /\ ToSymbolSet(at) = K
      /\ \A i, j \in DOMAIN at : i < j <=> at[i] < at[j]
  <2>1. at = [i \in 1..Cardinality(K) |-> NumberAt(K, i)]
    BY <1>5 DEF NumberList
  <2>2. DOMAIN at = 1..Cardinality(K) /\ ToSymbolSet(at) = K
    BY <1>4, <2>1, NumbersListed
  <2>3. \A i, j \in DOMAIN at : i < j <=> at[i] < at[j]
    BY <1>4, <2>1, NumbersListed
  <2> QED
    BY <1>6, <2>2, <2>3
<1>8. \A i \in 1..c : at[i] \in K
  BY <1>7 DEF ToSymbolSet
<1>9. PICK j \in 1..c : at[j] = 1
  BY <1>3, <1>7 DEF ToSymbolSet
<1>10. ASSUME NEW i \in 1..c PROVE at[i] = 1 <=> i = 1
  <2>1. 1 \in 1..c
    BY <1>9
  <2>2. at[1] \in 1..n /\ at[i] \in 1..n
    BY <1>3, <1>8, <2>1
  <2>3. ~ (1 < j)
    <3>1. 1 < j <=> at[1] < at[j]
      BY <1>7, <2>1
    <3> QED
      BY <1>9, <2>2, <3>1
  <2>4. j = 1
    BY <2>3
  <2>5. 1 < i <=> at[1] < at[i]
    BY <1>7, <2>1
  <2> QED
    BY <1>9, <2>2, <2>4, <2>5
<1>11. PICK r : r = Selected(g.prods, K)
  OBVIOUS
<1>12. IsList(r) /\ DOMAIN r = 1..c
  BY <1>4, <1>6, <1>11, SelectedIs
<1>13. \A i \in 1..c : r[i] = g.prods[at[i]]
  BY <1>5, <1>6, <1>11, SelectedAt
<1>14. 1 \in 1..c
  BY <1>9
<1> QED
  BY <1>1, <1>4, <1>8, <1>10, <1>11, <1>12, <1>13, <1>14

LEMMA NewSymbolIn ==
  ASSUME NEW g \in Input, NEW i \in Kept(g), NEW j \in DOMAIN g.prods[i].rhs
  PROVE  SymbolIn(Cardinality(ReachableTerms(g)), Cardinality(ReachableNonterms(g)),
                  NewSymbol(g, g.prods[i].rhs[j]))
<1>1. PICK x : x = g.prods[i].rhs[j]
  OBVIOUS
<1>2. PICK T, N : T = ReachableTerms(g) /\ N = ReachableNonterms(g)
  OBVIOUS
<1>3. PICK c \in Nat, d \in Nat : c = Cardinality(T) /\ d = Cardinality(N)
  BY <1>2, TermsReached, FS_CardinalityType
<1>4. x \in UsedBy(g, N)
  BY <1>1, <1>2, UsedByIs DEF Kept
<1>5. CASE IsTerminal(x)
  <2>1. TermIndex(x) \in T
    BY <1>2, <1>4, <1>5 DEF ReachableTerms
  <2>2. NewIndex(T, TermIndex(x)) \in 0..(c - 1)
    BY <1>2, <1>3, <2>1, TermsReached, NewIndexIs
  <2>3. PICK m \in 0..(c - 1) : m = NewIndex(T, TermIndex(x))
    BY <2>2
  <2>4. NewSymbol(g, x) = m + 1
    BY <1>2, <1>5, <2>3 DEF NewSymbol, TermId
  <2>5. SymbolIn(c, d, m + 1)
    BY DEF SymbolIn, IsTerminal, TermIndex
  <2> QED
    BY <1>1, <1>2, <1>3, <2>4, <2>5
<1>6. CASE ~ IsTerminal(x)
  <2>1. NtIndex(x) \in N /\ 0 \in N
    BY <1>2, <1>4, <1>6, ReachableIs DEF Reaches
  <2>2. NtIndex(x) \in 1..(g.nonterms - 1)
    BY <1>4, <1>6, UsedByIs
  <2>3. NewIndex(N, NtIndex(x)) \in 0..(d - 1) /\ NewIndex(N, 0) \in 0..(d - 1)
    BY <1>2, <1>3, <2>1, TermsReached, NewIndexIs
  <2>4. NewIndex(N, 0) < NewIndex(N, NtIndex(x))
    <3>1. 0 < NtIndex(x) <=> NewIndex(N, 0) < NewIndex(N, NtIndex(x))
      BY <1>2, <2>1, TermsReached, NewIndexIs
    <3> QED
      BY <2>2, <3>1
  <2>5. PICK m \in 1..(d - 1) : m = NewIndex(N, NtIndex(x))
    BY <2>3, <2>4
  <2>6. NewSymbol(g, x) = - m - 1
    BY <1>2, <1>6, <2>5 DEF NewSymbol, NontermId
  <2>7. SymbolIn(c, d, - m - 1)
    BY DEF SymbolIn, IsTerminal, NtIndex
  <2> QED
    BY <1>1, <1>2, <1>3, <2>6, <2>7
<1> QED
  BY <1>5, <1>6

LEMMA GrammarIsSound ==
  ASSUME NEW g \in Input
  PROVE  SoundGrammar(InitializeAuxData(g))
<1>1. PICK a : a = InitializeAuxData(g)
  OBVIOUS
<1>2. PICK T, N : T = ReachableTerms(g) /\ N = ReachableNonterms(g)
  OBVIOUS
<1>3. PICK c \in Nat, d \in Nat : c = Cardinality(T) /\ d = Cardinality(N)
  BY <1>2, TermsReached, FS_CardinalityType
<1>4. PICK r : r = Selected(g.prods, Kept(g))
  OBVIOUS
<1>5. /\ IsList(r) /\ 1 \in DOMAIN r
      /\ \A i \in DOMAIN r : \E k \in Kept(g) : r[i] = g.prods[k] /\ (k = 1 <=> i = 1)
  BY <1>4, KeptAre
<1>6. /\ a.terms = c /\ a.nonterms = d
      /\ a.prods = [i \in DOMAIN r |-> NewProd(g, r[i])]
      /\ a.tokens = [i \in 1..c |-> g.tokens[OldTerm(g, i) + 1]]
  BY <1>1, <1>2, <1>3, <1>4, InitialIs
<1>7. d # 0 /\ NewIndex(N, 0) = 0
  <2>1. 0 \in N /\ N \in SUBSET (0..(g.nonterms - 1))
    BY <1>2, ReachableIs
  <2>2. NewIndex(N, 0) \in 0..(d - 1)
    BY <1>2, <1>3, <2>1, TermsReached, NewIndexIs
  <2>3. {k \in N : k < 0} = {}
    <3>1. \A k \in 0..(g.nonterms - 1) : ~ (k < 0)
      OBVIOUS
    <3> QED
      BY ONLY <2>1, <3>1
  <2>4. NewIndex(N, 0) = 0
    BY <2>3, FS_EmptySet DEF NewIndex
  <2> QED
    BY <2>2, <2>4
<1>8. IsList(a.prods) /\ 1 \in DOMAIN a.prods /\ DOMAIN a.prods = DOMAIN r
  <2>1. PICK n \in Nat : DOMAIN r = 1..n
    BY <1>5, ListLength
  <2>2. PICK f : f = a.prods
    OBVIOUS
  <2>3. DOMAIN f = 1..n /\ f = [i \in 1..n |-> f[i]]
    BY <1>6, <2>1, <2>2
  <2>4. IsList(f)
    BY <2>3, IsAList
  <2> QED
    BY <1>5, <2>1, <2>2, <2>3, <2>4
<1>9. ASSUME NEW p \in DOMAIN a.prods
      PROVE  /\ a.prods[p].lhs \in 0..(d - 1) /\ (a.prods[p].lhs = 0 <=> p = 1)
             /\ a.prods[p].prec \in Nat
             /\ IsList(a.prods[p].rhs)
             /\ \A i \in DOMAIN a.prods[p].rhs : SymbolIn(c, d, a.prods[p].rhs[i])
  <2>1. PICK k \in Kept(g) : r[p] = g.prods[k] /\ (k = 1 <=> p = 1)
    BY <1>5, <1>8
  <2>2. a.prods[p] = NewProd(g, g.prods[k])
    BY <1>6, <1>8, <2>1
  <2>3. /\ a.prods[p].lhs = NewIndex(N, g.prods[k].lhs)
        /\ a.prods[p].rhs = [i \in DOMAIN g.prods[k].rhs |-> NewSymbol(g, g.prods[k].rhs[i])]
        /\ a.prods[p].prec = g.prods[k].prec
    BY <1>2, <2>2 DEF NewProd
  <2>4. k \in DOMAIN g.prods /\ g.prods[k].lhs \in N
    BY <1>2 DEF Kept
  <2>5. a.prods[p].lhs \in 0..(d - 1)
    BY <1>2, <1>3, <2>3, <2>4, TermsReached, NewIndexIs
  <2>6. a.prods[p].lhs = 0 <=> p = 1
    <3>1. CASE k = 1
      <4>1. g.prods[k].lhs = 0
        BY <3>1, InputIs
      <4> QED
        BY <1>7, <2>1, <2>3, <3>1, <4>1
    <3>2. CASE k # 1
      <4>1. g.prods[k].lhs \in 1..(g.nonterms - 1) /\ 0 \in N
        BY <1>2, <2>4, <3>2, InputIs, ReachableIs
      <4>2. 0 < g.prods[k].lhs <=> NewIndex(N, 0) < NewIndex(N, g.prods[k].lhs)
        BY <1>2, <2>4, <4>1, TermsReached, NewIndexIs
      <4>3. NewIndex(N, g.prods[k].lhs) # 0
        BY <1>7, <2>3, <2>5, <4>1, <4>2
      <4> QED
        BY <2>1, <2>3, <3>2, <4>3
    <3> QED
      BY <3>1, <3>2
  <2>7. a.prods[p].prec \in Nat
    BY <2>3, <2>4, InputIs
  <2>8. IsList(a.prods[p].rhs)
    <3>1. PICK n \in Nat : DOMAIN g.prods[k].rhs = 1..n
      <4>1. g.prods[k].rhs \in Seq(Int)
        BY <2>4, InputIs
      <4> QED
        BY <4>1
    <3>2. PICK f : f = a.prods[p].rhs
      OBVIOUS
    <3>3. f = [i \in 1..n |-> f[i]]
      BY <2>3, <3>1, <3>2
    <3> QED
      BY <3>2, <3>3, IsAList
  <2>9. \A i \in DOMAIN a.prods[p].rhs : SymbolIn(c, d, a.prods[p].rhs[i])
    BY <1>2, <1>3, <2>3, NewSymbolIn
  <2> QED
    BY <2>5, <2>6, <2>7, <2>8, <2>9
<1>10. ASSUME NEW t \in 0..(c - 1)
       PROVE  a.tokens[t + 1].prec \in Nat /\ a.tokens[t + 1].assoc \in Associativity
  <2>1. \E x \in T : NewIndex(T, x) = t
    BY <1>2, <1>3, TermsReached, NewIndexIs
  <2>2. t + 1 \in 1..c /\ (t + 1) - 1 = t
    OBVIOUS
  <2>3. OldTerm(g, t + 1) \in T
    BY <1>2, <2>1, <2>2 DEF OldTerm
  <2>4. PICK o \in 0..(g.terms - 1) : o = OldTerm(g, t + 1)
    BY <1>2, <2>3, TermsReached
  <2>5. a.tokens[t + 1] = g.tokens[o + 1] /\ o + 1 \in 1..g.terms
    BY <1>6, <2>2, <2>4, InputIs
  <2> QED
    BY <2>5, InputIs
<1> QED
  BY <1>1, <1>6, <1>7, <1>8, <1>9, <1>10 DEF SoundGrammar

-----------------------------------------------------------------------------
(* The elements of a set in the order of their ranks.                      *)
Ranks(rank, S) ==
  (\A x \in S : rank[x] \in Int) /\ (\A x, y \in S : rank[x] = rank[y] => x = y)
Below(S, rank, x) == {y \in S : rank[y] < rank[x]}
Lists(r, S, rank) ==
  /\ IsList(r) /\ Len(r) = Cardinality(S)
  /\ \A i \in 1..Cardinality(S) : \A x \in S :
       Cardinality(Below(S, rank, x)) = i - 1 =>
         r[i] \in S /\ Cardinality(Below(S, rank, r[i])) = i - 1

LEMMA PositionsDiffer ==
  ASSUME NEW S, IsFiniteSet(S), NEW rank, Ranks(rank, S)
  PROVE  /\ \A x \in S : Cardinality(Below(S, rank, x)) \in 0..(Cardinality(S) - 1)
         /\ \A x, z \in S :
              Cardinality(Below(S, rank, x)) = Cardinality(Below(S, rank, z)) => x = z
<1> DEFINE below == [x \in S |-> Below(S, rank, x)]
<1>0. \A x \in S : below[x] = {y \in S : rank[y] < rank[x]} /\ below[x] = Below(S, rank, x)
  BY DEF Below
<1> HIDE DEF below
<1>1. ASSUME NEW x \in S PROVE Cardinality(below[x]) \in 0..(Cardinality(S) - 1)
  <2>1. below[x] \in SUBSET S /\ x \notin below[x]
    BY <1>0, <1>1 DEF Ranks
  <2>2. /\ Cardinality(S) \in Nat
        /\ IsFiniteSet(below[x]) /\ Cardinality(below[x]) <= Cardinality(S)
        /\ Cardinality(below[x]) # Cardinality(S)
    BY <1>1, <2>1, FS_Subset, FS_CardinalityType
  <2>3. Cardinality(below[x]) \in Nat
    BY <2>2, FS_CardinalityType
  <2> QED
    BY <2>2, <2>3
<1>2. ASSUME NEW x \in S, NEW z \in S, rank[x] < rank[z]
      PROVE  Cardinality(below[x]) # Cardinality(below[z])
  <2>1. below[x] \in SUBSET below[z]
    BY <1>0, <1>2 DEF Ranks
  <2>2. x \in below[z] /\ x \notin below[x]
    BY <1>0, <1>2 DEF Ranks
  <2>3. IsFiniteSet(below[z])
    <3>1. below[z] \in SUBSET S
      BY <1>0, <1>2
    <3> QED
      BY <3>1, FS_Subset
  <2> QED
    BY <2>1, <2>2, <2>3, FS_Subset
<1>3. ASSUME NEW x \in S, NEW z \in S, Cardinality(below[x]) = Cardinality(below[z])
      PROVE  x = z
  <2>1. rank[x] = rank[z] \/ rank[x] < rank[z] \/ rank[z] < rank[x]
    BY <1>3 DEF Ranks
  <2> QED
    BY <1>2, <1>3, <2>1 DEF Ranks
<1> QED
  BY <1>0, <1>1, <1>3

LEMMA ListedOnce ==
  ASSUME NEW S, IsFiniteSet(S), NEW rank, Ranks(rank, S), NEW r, Lists(r, S, rank)
  PROVE  /\ r \in Seq(S) /\ ToSymbolSet(r) = S
         /\ \A i, j \in DOMAIN r : r[i] = r[j] => i = j
<1>2. PICK n \in Nat : n = Cardinality(S)
  BY FS_CardinalityType
<1>3. /\ \A x \in S : Cardinality(Below(S, rank, x)) \in 0..(n - 1)
      /\ \A x, z \in S :
           Cardinality(Below(S, rank, x)) = Cardinality(Below(S, rank, z)) => x = z
  BY <1>2, PositionsDiffer
<1>4. PICK c : c = [x \in S |-> Cardinality(Below(S, rank, x))]
  OBVIOUS
<1>5. c \in Injection(S, 0..(n - 1))
  BY <1>3, <1>4 DEF Injection, IsInjective
<1>6. IsFiniteSet(0..(n - 1)) /\ Cardinality(0..(n - 1)) = n
  <2>1. 0 \in Int /\ n - 1 \in Int /\ (0 > n - 1 => n = 0) /\ (n - 1) - 0 + 1 = n
    BY <1>2
  <2> QED
    BY <2>1, FS_Interval
<1>7. c \in Surjection(S, 0..(n - 1))
  BY <1>2, <1>5, <1>6, FS_Injection
<1>8. ASSUME NEW i \in 1..n PROVE r[i] \in S /\ c[r[i]] = i - 1
  <2>1. i - 1 \in 0..(n - 1)
    BY <1>8
  <2>2. PICK x \in S : c[x] = i - 1
    BY <1>7, <2>1 DEF Surjection
  <2>3. Cardinality(Below(S, rank, x)) = i - 1
    BY <1>4, <2>2
  <2>5. r[i] \in S /\ Cardinality(Below(S, rank, r[i])) = i - 1
    BY <1>2, <1>8, <2>2, <2>3 DEF Lists
  <2> QED
    BY <1>4, <2>5
<1>9. DOMAIN r = 1..n /\ r \in Seq(S)
  <2>1. r = [i \in 1..n |-> r[i]]
    BY <1>2, ListLength DEF Lists
  <2>2. \A i \in 1..n : r[i] \in S
    BY <1>8
  <2>3. r \in [1..n -> S]
    BY <2>1, <2>2
  <2>4. r \in Seq(S)
    BY <2>3, IsSequence
  <2> QED
    BY <2>1, <2>4
<1>10. ASSUME NEW x \in S PROVE \E i \in 1..n : r[i] = x
  <2>1. c[x] \in 0..(n - 1) /\ c[x] + 1 \in 1..n /\ (c[x] + 1) - 1 = c[x]
    BY <1>3, <1>4
  <2>2. r[c[x] + 1] \in S /\ c[r[c[x] + 1]] = c[x]
    BY <1>8, <2>1
  <2>3. r[c[x] + 1] = x
    BY <1>3, <1>4, <2>2
  <2> QED
    BY <2>1, <2>3
<1>11. ToSymbolSet(r) = S
  <2>1. {r[i] : i \in 1..n} \subseteq S
    BY <1>8
  <2>2. S \subseteq {r[i] : i \in 1..n}
    BY <1>10
  <2> QED
    BY <1>9, <2>1, <2>2 DEF ToSymbolSet
<1>12. ASSUME NEW i \in 1..n, NEW j \in 1..n, r[i] = r[j] PROVE i = j
  <2>1. i - 1 = j - 1
    BY <1>8, <1>12
  <2> QED
    BY <2>1
<1> QED
  BY <1>9, <1>11, <1>12

-----------------------------------------------------------------------------
(* The items of a set, those whose dot can be moved, and where they lead,  *)
(* as functions of the productions P.                                      *)
EndOf(P, it) == it.dot = Len(P[it.prod].rhs)
AfterDot(P, it) == P[it.prod].rhs[it.dot + 1]
All(set) == set.kernel \o set.nonkernel
CalledFor(P, set) ==
  {AfterDot(P, it) : it \in {a \in ToSymbolSet(All(set)) : ~ EndOf(P, a)}}
WithDotMoved(P, set, x) ==
  {Item(it.prod, it.dot + 1, it.la) :
     it \in {a \in ToSymbolSet(All(set)) : ~ EndOf(P, a) /\ AfterDot(P, a) = x}}
Moved(P, set, x) == InOrder(WithDotMoved(P, set, x), ItemBefore)

LEMMA InTerms ==
  /\ \A it : /\ DotAtEnd(it) <=> EndOf(grammar.prods, it)
             /\ SymbolAfterDot(it) = AfterDot(grammar.prods, it)
  /\ \A s : AllItems(s) = All(sets[s])
  /\ \A s, x : MoveDot(s, x) = Moved(grammar.prods, sets[s], x)
  /\ \A s : {SymbolAfterDot(it) : it \in {a \in ToSymbolSet(AllItems(s)) : ~ DotAtEnd(a)}}
              = CalledFor(grammar.prods, sets[s])
<1>1. \A it : /\ DotAtEnd(it) <=> EndOf(grammar.prods, it)
              /\ SymbolAfterDot(it) = AfterDot(grammar.prods, it)
  BY DEF DotAtEnd, SymbolAfterDot, EndOf, AfterDot, Rhs
<1>2. \A s : AllItems(s) = All(sets[s])
  BY DEF AllItems, All
<1>3. \A s, x : MoveDot(s, x) = Moved(grammar.prods, sets[s], x)
  BY DEF MoveDot, Moved, WithDotMoved, DotAtEnd, SymbolAfterDot, EndOf, AfterDot, Rhs,
         AllItems, All
<1>4. \A s : {SymbolAfterDot(it) : it \in {a \in ToSymbolSet(AllItems(s)) : ~ DotAtEnd(a)}}
               = CalledFor(grammar.prods, sets[s])
  BY DEF CalledFor, DotAtEnd, SymbolAfterDot, EndOf, AfterDot, Rhs, AllItems, All
<1> QED
  BY <1>1, <1>2, <1>3, <1>4

(* What a set is made of.  No production is in it twice from its start.    *)
WellMade(P, set) ==
  /\ set = [kernel |-> set.kernel, nonkernel |-> set.nonkernel, trans |-> set.trans]
  /\ IsList(set.kernel) /\ IsList(set.nonkernel)
  /\ \A it \in ToSymbolSet(set.nonkernel) : it.dot = 0 /\ it.prod \in DOMAIN P
  /\ \A a, b \in ToSymbolSet(set.nonkernel) : a.prod = b.prod => a = b

NthItem(S, i) == CHOOSE x \in S : Cardinality({y \in S : ItemBefore(y, x)}) = i - 1

LEMMA MovedIsList ==
  ASSUME NEW P, NEW set, WellMade(P, set), NEW x
  PROVE  IsList(Moved(P, set, x))
<1>1. IsFiniteSet(ToSymbolSet(All(set)))
  BY Concatenated, ListIsFinite DEF WellMade, All
<1>2. IsFiniteSet(WithDotMoved(P, set, x))
  <2> DEFINE S == {a \in ToSymbolSet(All(set)) : ~ EndOf(P, a) /\ AfterDot(P, a) = x}
             f == [it \in S |-> Item(it.prod, it.dot + 1, it.la)]
  <2>1. IsFiniteSet(S)
    <3>1. S \in SUBSET ToSymbolSet(All(set))
      OBVIOUS
    <3> QED
      BY <1>1, <3>1, FS_Subset
  <2>2. {f[it] : it \in S} = WithDotMoved(P, set, x)
    BY DEF WithDotMoved
  <2>3. S = DOMAIN f
    OBVIOUS
  <2> HIDE DEF S, f
  <2> QED
    BY <2>1, <2>2, <2>3, FiniteImage
<1>3. PICK n \in Nat : n = Cardinality(WithDotMoved(P, set, x))
  BY <1>2, FS_CardinalityType
<1>4. Moved(P, set, x) = [i \in 1..n |-> NthItem(WithDotMoved(P, set, x), i)]
  <2>1. Moved(P, set, x) = [i \in 1..Cardinality(WithDotMoved(P, set, x)) |->
                              NthItem(WithDotMoved(P, set, x), i)]
    BY DEF Moved, InOrder, NthItem
  <2> QED
    BY <1>3, <2>1
<1>5. Moved(P, set, x) = [i \in 1..n |-> Moved(P, set, x)[i]]
  BY <1>4
<1> QED
  BY <1>5, IsAList

(* The symbols a set calls for depend only on the cores of its items.      *)
LEMMA MoreCalledFor ==
  ASSUME NEW P, NEW old, NEW new, WellMade(P, old), WellMade(P, new),
         Core(old.kernel) = Core(new.kernel),
         \A it \in ToSymbolSet(old.nonkernel) :
           \E b \in ToSymbolSet(new.nonkernel) : b.prod = it.prod
  PROVE  CalledFor(P, old) \subseteq CalledFor(P, new)
<1>1. /\ ToSymbolSet(All(old)) = ToSymbolSet(old.kernel) \cup ToSymbolSet(old.nonkernel)
      /\ ToSymbolSet(All(new)) = ToSymbolSet(new.kernel) \cup ToSymbolSet(new.nonkernel)
  BY Concatenated DEF WellMade, All
<1> SUFFICES ASSUME NEW it \in ToSymbolSet(All(old)), ~ EndOf(P, it)
             PROVE  \E b \in ToSymbolSet(All(new)) :
                      ~ EndOf(P, b) /\ AfterDot(P, b) = AfterDot(P, it)
  BY DEF CalledFor
<1>2. \E b \in ToSymbolSet(All(new)) : b.prod = it.prod /\ b.dot = it.dot
  <2>1. CASE it \in ToSymbolSet(old.kernel)
    <3>1. PICK i \in DOMAIN old.kernel : it = old.kernel[i]
      BY <2>1 DEF ToSymbolSet
    <3>2. i \in DOMAIN new.kernel
      <4>1. DOMAIN Core(old.kernel) = DOMAIN old.kernel /\ DOMAIN Core(new.kernel) = DOMAIN new.kernel
        BY DEF Core
      <4> QED
        BY <3>1, <4>1
    <3>3. Core(old.kernel)[i] = <<it.prod, it.dot>>
      BY <3>1 DEF Core
    <3>4. Core(new.kernel)[i] = <<new.kernel[i].prod, new.kernel[i].dot>>
      BY <3>2 DEF Core
    <3>5. new.kernel[i] \in ToSymbolSet(All(new))
      BY <1>1, <3>2 DEF ToSymbolSet
    <3> QED
      BY <3>3, <3>4, <3>5
  <2>2. CASE it \in ToSymbolSet(old.nonkernel)
    <3>1. PICK b \in ToSymbolSet(new.nonkernel) : b.prod = it.prod
      BY <2>2
    <3>2. b.dot = 0 /\ it.dot = 0
      BY <2>2, <3>1 DEF WellMade
    <3> QED
      BY <1>1, <3>1, <3>2
  <2> QED
    BY <1>1, <2>1, <2>2
<1> QED
  BY <1>2 DEF EndOf, AfterDot
-----------------------------------------------------------------------------
(* Numbers in their order.                                                 *)
LEMMA NumbersInOrder ==
  ASSUME NEW S \in SUBSET Int, IsFiniteSet(S),
         NEW r, IsList(r), Len(r) = Cardinality(S),
         \A i \in 1..Cardinality(S) : r[i] = NumberAt(S, i)
  PROVE  ToSymbolSet(r) = S /\ \A i, j \in DOMAIN r : r[i] = r[j] => i = j
<1> DEFINE rank == [x \in S |-> x]
<1>1. Ranks(rank, S)
  BY DEF Ranks
<1>2. \A x \in S : Below(S, rank, x) = {y \in S : y < x}
  BY DEF Below
<1>5. ASSUME NEW i \in 1..Cardinality(S), NEW x \in S, Cardinality(Below(S, rank, x)) = i - 1
      PROVE  r[i] \in S /\ Cardinality(Below(S, rank, r[i])) = i - 1
  <2>1. Cardinality({y \in S : y < x}) = i - 1
    BY <1>2, <1>5
  <2>2. NumberAt(S, i) \in S /\ Cardinality({y \in S : y < NumberAt(S, i)}) = i - 1
    BY <2>1 DEF NumberAt
  <2>3. r[i] = NumberAt(S, i)
    BY <1>5
  <2> QED
    BY <1>2, <2>2, <2>3
<1> HIDE DEF rank
<1>6. r \in Seq(S) /\ ToSymbolSet(r) = S /\ \A i, j \in DOMAIN r : r[i] = r[j] => i = j
  <2>1. PICK rk : rk = rank
    OBVIOUS
  <2>2. Ranks(rk, S)
    BY <1>1, <2>1
  <2>3. Lists(r, S, rk)
    BY <1>5, <2>1 DEF Lists
  <2> QED
    BY ONLY IsFiniteSet(S), <2>2, <2>3, ListedOnce
<1> QED
  BY <1>6

(* The items of a closure, finished or on the worklist, are starts of      *)
(* productions, none twice, and with those the state had before.           *)
GoodWork(P, set, w) ==
  /\ w = [finished |-> w.finished, list |-> w.list, kernel |-> w.kernel]
  /\ IsFiniteSet(w.finished) /\ IsList(w.list) /\ IsList(w.kernel)
  /\ \A it \in w.finished \cup ToSymbolSet(w.list) : it.dot = 0 /\ it.prod \in DOMAIN P
  /\ \A a, b \in w.finished : a.prod = b.prod => a = b
  /\ \A i, j \in DOMAIN w.list : w.list[i].prod = w.list[j].prod => i = j
  /\ \A a \in w.finished, i \in DOMAIN w.list : a.prod # w.list[i].prod
  /\ \A it \in ToSymbolSet(set.nonkernel) :
       \E b \in w.finished \cup ToSymbolSet(w.list) : b.prod = it.prod

(* Productions are taken from the finished items to the end of the list.   *)
LEMMA QueuedKeepsWork ==
  ASSUME NEW P, NEW set, NEW w, GoodWork(P, set, w),
         NEW q \in SUBSET DOMAIN P, \A i \in DOMAIN w.list : w.list[i].prod \notin q,
         NEW n, IsList(n), ToSymbolSet(n) = q,
         \A i, j \in DOMAIN n : n[i] = n[j] => i = j,
         NEW k, k = {it \in w.finished : it.prod \notin q},
         NEW b, IsList(b), DOMAIN b = DOMAIN w.list,
         \A i \in DOMAIN w.list : b[i].prod = w.list[i].prod /\ b[i].dot = 0,
         NEW a, IsList(a), DOMAIN a = DOMAIN n,
         \A i \in DOMAIN n : a[i].prod = n[i] /\ a[i].dot = 0
  PROVE  GoodWork(P, set, [finished |-> k, list |-> b \o a, kernel |-> w.kernel])
<1>1. PICK c : c = b \o a
  OBVIOUS
<1>2. /\ IsList(c) /\ ToSymbolSet(c) = ToSymbolSet(b) \cup ToSymbolSet(a)
      /\ Len(c) = Len(b) + Len(a)
  BY <1>1, Concatenated
<1>3. /\ Len(b) \in Nat /\ Len(a) \in Nat /\ DOMAIN b = 1..Len(b) /\ DOMAIN a = 1..Len(a)
      /\ DOMAIN c = 1..(Len(b) + Len(a))
  BY <1>2, ListLength
<1>4. \A i \in DOMAIN b : c[i] = b[i] /\ c[i].prod \notin q /\ c[i].prod = w.list[i].prod
  BY <1>1, <1>3, ConcatenatedAt
<1>5. \A i \in DOMAIN c \ DOMAIN b :
         /\ i - Len(b) \in DOMAIN a /\ c[i] = a[i - Len(b)]
         /\ c[i].prod = n[i - Len(b)] /\ c[i].prod \in q
  <2> SUFFICES ASSUME NEW i \in DOMAIN c \ DOMAIN b
               PROVE  /\ i - Len(b) \in DOMAIN a /\ c[i] = a[i - Len(b)]
                      /\ c[i].prod = n[i - Len(b)] /\ c[i].prod \in q
    OBVIOUS
  <2>1. i - Len(b) \in DOMAIN a /\ Len(b) + (i - Len(b)) = i
    BY <1>3
  <2>2. c[i] = a[i - Len(b)]
    BY <1>1, <2>1, ConcatenatedAt
  <2>3. n[i - Len(b)] \in q
    BY <2>1 DEF ToSymbolSet
  <2> QED
    BY <2>1, <2>2, <2>3
<1>6. \A i, j \in DOMAIN c : c[i].prod = c[j].prod => i = j
  <2> SUFFICES ASSUME NEW i \in DOMAIN c, NEW j \in DOMAIN c, c[i].prod = c[j].prod
               PROVE  i = j
    OBVIOUS
  <2>1. (i \in DOMAIN b <=> j \in DOMAIN b)
    BY <1>4, <1>5
  <2>2. CASE i \in DOMAIN b
    BY <1>4, <2>1, <2>2 DEF GoodWork
  <2>3. CASE i \notin DOMAIN b
    <3>1. n[i - Len(b)] = n[j - Len(b)]
      BY <1>5, <2>1, <2>3
    <3>2. i - Len(b) = j - Len(b)
      BY <1>5, <2>1, <2>3, <3>1
    <3> QED
      BY <1>3, <3>2
  <2> QED
    BY <2>2, <2>3
<1>7. \A it \in ToSymbolSet(c) : it.dot = 0 /\ it.prod \in DOMAIN P
  <2>1. ASSUME NEW i \in DOMAIN b PROVE b[i].dot = 0 /\ b[i].prod \in DOMAIN P
    BY <2>1 DEF GoodWork, ToSymbolSet
  <2>2. ASSUME NEW i \in DOMAIN a PROVE a[i].dot = 0 /\ a[i].prod \in DOMAIN P
    BY <2>2 DEF ToSymbolSet
  <2>3. \A it \in ToSymbolSet(b) : it.dot = 0 /\ it.prod \in DOMAIN P
    BY <2>1 DEF ToSymbolSet
  <2>4. \A it \in ToSymbolSet(a) : it.dot = 0 /\ it.prod \in DOMAIN P
    BY <2>2 DEF ToSymbolSet
  <2> QED
    BY <1>2, <2>3, <2>4
<1>8. \A x \in k, i \in DOMAIN c : x.prod # c[i].prod
  <2>1. ASSUME NEW x \in k, NEW i \in DOMAIN c PROVE x.prod # c[i].prod
    <3>1. CASE i \in DOMAIN b
      BY <1>4, <2>1, <3>1 DEF GoodWork
    <3>2. CASE i \notin DOMAIN b
      BY <1>5, <2>1, <3>2
    <3> QED
      BY <3>1, <3>2
  <2> QED
    BY <2>1
<1>9. \A it \in ToSymbolSet(set.nonkernel) :
        \E x \in k \cup ToSymbolSet(c) : x.prod = it.prod
  <2> SUFFICES ASSUME NEW it \in ToSymbolSet(set.nonkernel)
               PROVE  \E x \in k \cup ToSymbolSet(c) : x.prod = it.prod
    OBVIOUS
  <2>1. PICK x \in w.finished \cup ToSymbolSet(w.list) : x.prod = it.prod
    BY DEF GoodWork
  <2>2. CASE x \in ToSymbolSet(w.list)
    <3>1. PICK i \in DOMAIN b : x = w.list[i]
      BY <2>2 DEF ToSymbolSet
    <3>2. b[i] \in ToSymbolSet(b) /\ b[i].prod = it.prod
      BY <2>1, <3>1 DEF ToSymbolSet
    <3> QED
      BY <1>2, <3>2
  <2>3. CASE x \in w.finished /\ x.prod \in q
    <3>1. PICK i \in DOMAIN n : x.prod = n[i]
      BY <2>3 DEF ToSymbolSet
    <3>2. a[i] \in ToSymbolSet(a) /\ a[i].prod = it.prod
      BY <2>1, <3>1 DEF ToSymbolSet
    <3> QED
      BY <1>2, <3>2
  <2>4. CASE x \in w.finished /\ x.prod \notin q
    BY <2>1, <2>4
  <2> QED
    BY <2>1, <2>2, <2>3, <2>4
<1>10. IsFiniteSet(k)
  <2>1. k \in SUBSET w.finished
    OBVIOUS
  <2> QED
    BY <2>1, FS_Subset DEF GoodWork
<1>11. PICK v : v = [finished |-> k, list |-> c, kernel |-> w.kernel]
  OBVIOUS
<1>12. v.finished = k /\ v.list = c /\ v.kernel = w.kernel
  BY <1>11
<1>13. \A it \in k : it.dot = 0 /\ it.prod \in DOMAIN P
  BY DEF GoodWork
<1>14. \A x, y \in k : x.prod = y.prod => x = y
  BY DEF GoodWork
<1>15. IsList(w.kernel)
  BY DEF GoodWork
<1>16. v = [finished |-> v.finished, list |-> v.list, kernel |-> v.kernel]
  BY <1>11
<1>17. GoodWork(P, set, v)
  BY <1>2, <1>6, <1>7, <1>8, <1>9, <1>10, <1>12, <1>13, <1>14, <1>15, <1>16 DEF GoodWork
<1> QED
  BY <1>1, <1>11, <1>17

LEMMA SingleItemKeepsWork ==
  ASSUME NEW P, P = grammar.prods, DOMAIN P \in SUBSET Int, IsFiniteSet(DOMAIN P),
         NEW set, NEW w, GoodWork(P, set, w), NEW item
  PROVE  GoodWork(P, set, SingleItemClosure(w, item))
<1>1. CASE DotAtEnd(item) \/ IsTerminal(SymbolAfterDot(item))
  BY <1>1 DEF SingleItemClosure
<1>2. CASE ~ (DotAtEnd(item) \/ IsTerminal(SymbolAfterDot(item)))
  <2> DEFINE called == {p \in Prods : Lhs(p) = NtIndex(SymbolAfterDot(item))}
             la(p) == NewItemLookahead(item, p)
             finished(p) == {it \in w.finished : it.prod = p}
             listed == {w.list[i].prod : i \in DOMAIN w.list}
             queued == {p \in called \ listed :
                          ~ \E it \in finished(p) : la(p) \subseteq it.la}
             new == [i \in 1..Cardinality(queued) |-> NumberAt(queued, i)]
             before == [i \in DOMAIN w.list |->
                          IF w.list[i].prod \in called
                          THEN Item(w.list[i].prod, 0, w.list[i].la \cup la(w.list[i].prod))
                          ELSE w.list[i]]
             after == [i \in DOMAIN new |->
                         Item(new[i], 0, la(new[i]) \cup
                               UNION {it.la : it \in finished(new[i])})]
             kept == {it \in w.finished : it.prod \notin queued}
  <2>1. SingleItemClosure(w, item) = [w EXCEPT !.finished = kept, !.list = before \o after]
    BY <1>2 DEF SingleItemClosure, InOrder, NumberAt
  <2>2. queued \in SUBSET DOMAIN P /\ \A p \in queued : p \notin listed
    BY DEF Prods
  <2>3. \A i \in DOMAIN w.list : before[i].prod = w.list[i].prod /\ before[i].dot = 0
    BY DEF GoodWork, Item, ToSymbolSet
  <2>4. DOMAIN before = DOMAIN w.list /\ before = [i \in DOMAIN w.list |-> before[i]]
    OBVIOUS
  <2>5. \A i \in DOMAIN new : after[i].prod = new[i] /\ after[i].dot = 0
    BY DEF Item
  <2>6. DOMAIN after = DOMAIN new /\ after = [i \in DOMAIN new |-> after[i]]
    OBVIOUS
  <2>7. PICK q, n, b, a, k : q = queued /\ n = new /\ b = before /\ a = after /\ k = kept
    OBVIOUS
  <2>8. /\ IsFiniteSet(q) /\ q \in SUBSET Int /\ q \in SUBSET DOMAIN P
        /\ \A i \in DOMAIN w.list : w.list[i].prod \notin q
    <3>1. \A i \in DOMAIN w.list : w.list[i].prod \in listed
      OBVIOUS
    <3>2. q \in SUBSET DOMAIN P /\ \A i \in DOMAIN w.list : w.list[i].prod \notin q
      BY <2>2, <2>7, <3>1
    <3> QED
      BY <3>2, FS_Subset
  <2>9. k = {it \in w.finished : it.prod \notin q}
    BY <2>7
  <2>10. n = [i \in 1..Cardinality(q) |-> NumberAt(q, i)]
    BY <2>7
  <2>11. IsList(n) /\ ToSymbolSet(n) = q /\ \A i, j \in DOMAIN n : n[i] = n[j] => i = j
    <3>1. PICK c \in Nat : c = Cardinality(q)
      BY <2>8, FS_CardinalityType
    <3>2. n = [i \in 1..c |-> n[i]] /\ \A i \in 1..c : n[i] = NumberAt(q, i)
      BY <2>10, <3>1
    <3>3. IsList(n) /\ Len(n) = c
      BY <3>2, IsAList
    <3> QED
      BY ONLY <2>8, <3>1, <3>2, <3>3, NumbersInOrder
  <2>12. DOMAIN n \in SUBSET Nat /\ Len(n) \in Nat /\ DOMAIN n = 1..Len(n)
    BY <2>11, ListLength
  <2>13. DOMAIN w.list = 1..Len(w.list) /\ Len(w.list) \in Nat
    BY ListLength DEF GoodWork
  <2>14. /\ IsList(b) /\ DOMAIN b = DOMAIN w.list
         /\ \A i \in DOMAIN w.list : b[i].prod = w.list[i].prod /\ b[i].dot = 0
    <3>1. b = [i \in 1..Len(w.list) |-> b[i]]
      BY <2>4, <2>7, <2>13
    <3> QED
      BY <2>3, <2>4, <2>7, <2>13, <3>1, IsAList
  <2>15. /\ IsList(a) /\ DOMAIN a = DOMAIN n
         /\ \A i \in DOMAIN n : a[i].prod = n[i] /\ a[i].dot = 0
    <3>1. a = [i \in 1..Len(n) |-> a[i]]
      BY <2>6, <2>7, <2>12
    <3> QED
      BY <2>5, <2>6, <2>7, <2>12, <3>1, IsAList
  <2>16. SingleItemClosure(w, item) = [finished |-> k, list |-> b \o a, kernel |-> w.kernel]
    BY <2>1, <2>7 DEF GoodWork
  <2> HIDE DEF queued, new, before, after, kept, called, la, finished, listed
  <2>17. GoodWork(P, set, [finished |-> k, list |-> b \o a, kernel |-> w.kernel])
    BY <2>8, <2>9, <2>11, <2>14, <2>15, QueuedKeepsWork
  <2> QED
    BY <2>16, <2>17
<1> QED
  BY <1>1, <1>2

-----------------------------------------------------------------------------
(* One element more or less at the ends of a list.                         *)
LEMMA FrontOfList ==
  ASSUME NEW f, IsList(f), f # << >>
  PROVE  /\ IsList(Front(f)) /\ IsList(Tail(f))
         /\ Len(f) \in DOMAIN f /\ Len(f) \notin DOMAIN Front(f)
         /\ DOMAIN Front(f) \subseteq DOMAIN f
         /\ \A i \in DOMAIN Front(f) : Front(f)[i] = f[i]
         /\ \A i \in DOMAIN f : i \in DOMAIN Front(f) \/ i = Len(f)
<1>1. PICK n \in Nat : n = Len(f)
  BY ListLength
<1>2. DOMAIN f = 1..n /\ f = [i \in 1..n |-> f[i]]
  BY <1>1, ListLength
<1>3. n > 0
  <2>1. CASE n = 0
    <3>1. f \in Seq(ToSymbolSet(f)) /\ Len(f) = 0
      BY <1>1, <2>1 DEF IsList
    <3>2. f = << >>
      BY <3>1
    <3> QED
      BY <3>2
  <2> QED
    BY <2>1
<1>4. Front(f) = [i \in 1..(n - 1) |-> f[i]]
  <2>1. Front(f) = SubSeq(f, 1, n - 1)
    BY <1>1 DEF Front
  <2>2. SubSeq(f, 1, n - 1) = [i \in 1..(n - 1) |-> f[i]]
    <3>1. f \in Seq(ToSymbolSet(f))
      BY DEF IsList
    <3> QED
      BY <1>1, <1>3, <3>1
  <2> QED
    BY <2>1, <2>2
<1>5. PICK g : g = Front(f)
  OBVIOUS
<1>6. IsList(g) /\ DOMAIN g = 1..(n - 1) /\ \A i \in 1..(n - 1) : g[i] = f[i]
  <2>1. g = [i \in 1..(n - 1) |-> g[i]] /\ n - 1 \in Nat
    BY <1>3, <1>4, <1>5
  <2>2. IsList(g) /\ DOMAIN g = 1..(n - 1)
    BY ONLY <2>1, IsAList
  <2> QED
    BY <1>4, <1>5, <2>2
<1>7. IsList(Tail(f))
  <2>1. f \in Seq(ToSymbolSet(f)) /\ Len(f) = n
    BY <1>1 DEF IsList
  <2>2. Tail(f) \in Seq(ToSymbolSet(f)) /\ Len(Tail(f)) = n - 1
    <3>1. f # << >>
      OBVIOUS
    <3> QED
      BY ONLY <2>1, <3>1, n \in Nat
  <2>3. PICK m \in Nat : m = n - 1
    BY <1>3
  <2>4. PICK t : t = Tail(f)
    OBVIOUS
  <2>5. t = [i \in 1..m |-> t[i]]
    <3>1. t \in Seq(ToSymbolSet(f)) /\ Len(t) = m
      BY <2>2, <2>3, <2>4
    <3> QED
      BY ONLY <3>1
  <2> QED
    BY <2>3, <2>4, <2>5, IsAList
<1> QED
  BY <1>1, <1>2, <1>3, <1>5, <1>6, <1>7

(* The first step of CloseKernelItem and of CloseItem.                     *)
LEMMA TakenFromWork ==
  ASSUME NEW P, NEW set, NEW w, GoodWork(P, set, w)
  PROVE  /\ w.kernel # << >> => GoodWork(P, set, [w EXCEPT !.kernel = Tail(@)])
         /\ w.list # << >> =>
              GoodWork(P, set, [w EXCEPT !.finished = @ \cup {Last(w.list)},
                                         !.list = Front(@)])
<1>1. ASSUME w.kernel # << >> PROVE GoodWork(P, set, [w EXCEPT !.kernel = Tail(@)])
  <2>1. PICK v : v = [finished |-> w.finished, list |-> w.list, kernel |-> Tail(w.kernel)]
    OBVIOUS
  <2>2. v = [w EXCEPT !.kernel = Tail(@)]
    <3>1. w = [finished |-> w.finished, list |-> w.list, kernel |-> w.kernel]
      BY DEF GoodWork
    <3>2. PICK x, y, z : x = w.finished /\ y = w.list /\ z = w.kernel
      OBVIOUS
    <3>3. w = [finished |-> x, list |-> y, kernel |-> z]
      BY <3>1, <3>2
    <3>4. v = [finished |-> x, list |-> y, kernel |-> Tail(z)]
      BY <2>1, <3>2
    <3>5. PICK t : t = Tail(z)
      OBVIOUS
    <3>6. [w EXCEPT !.kernel = Tail(@)] = [w EXCEPT !.kernel = t]
      BY <3>2, <3>5
    <3>7. [w EXCEPT !.kernel = t] = [finished |-> x, list |-> y, kernel |-> t]
      BY ONLY <3>3
    <3>8. v = [finished |-> x, list |-> y, kernel |-> t]
      BY <3>4, <3>5
    <3> QED
      BY <3>6, <3>7, <3>8
  <2>3. IsList(w.kernel)
    BY DEF GoodWork
  <2>4. IsList(Tail(w.kernel))
    BY <1>1, <2>3, FrontOfList
  <2>5. /\ v.finished = w.finished /\ v.list = w.list /\ v.kernel = Tail(w.kernel)
        /\ v = [finished |-> v.finished, list |-> v.list, kernel |-> v.kernel]
    BY <2>1
  <2>6. GoodWork(P, set, v)
    BY <2>4, <2>5 DEF GoodWork
  <2> QED
    BY <2>2, <2>6
<1>2. ASSUME w.list # << >>
      PROVE  GoodWork(P, set, [w EXCEPT !.finished = @ \cup {Last(w.list)},
                                        !.list = Front(@)])
  <2>1. PICK l, g, last : l = w.list /\ g = Front(l) /\ last = l[Len(l)]
    OBVIOUS
  <2>2. IsList(l)
    BY <2>1 DEF GoodWork
  <2>3. /\ IsList(g) /\ Len(l) \in DOMAIN l /\ Len(l) \notin DOMAIN g
        /\ DOMAIN g \subseteq DOMAIN l
        /\ \A i \in DOMAIN g : g[i] = l[i]
        /\ \A i \in DOMAIN l : i \in DOMAIN g \/ i = Len(l)
    BY <1>2, <2>1, <2>2, FrontOfList
  <2>4. PICK v : v = [finished |-> w.finished \cup {last}, list |-> g, kernel |-> w.kernel]
    OBVIOUS
  <2>5. v = [w EXCEPT !.finished = @ \cup {Last(w.list)}, !.list = Front(@)]
    <3>1. w = [finished |-> w.finished, list |-> w.list, kernel |-> w.kernel]
      BY DEF GoodWork
    <3>2. Last(w.list) = last /\ Front(w.list) = g
      BY <2>1 DEF Last
    <3>3. PICK x, y, z : x = w.finished /\ y = w.list /\ z = w.kernel
      OBVIOUS
    <3>4. w = [finished |-> x, list |-> y, kernel |-> z]
      BY <3>1, <3>3
    <3>5. v = [finished |-> x \cup {Last(y)}, list |-> Front(y), kernel |-> z]
      BY <2>4, <3>2, <3>3
    <3>6. PICK t, u : t = x \cup {Last(y)} /\ u = Front(y)
      OBVIOUS
    <3>7. [w EXCEPT !.finished = @ \cup {Last(w.list)}, !.list = Front(@)]
            = [w EXCEPT !.finished = t, !.list = u]
      BY <3>3, <3>6
    <3>8. [w EXCEPT !.finished = t, !.list = u] = [finished |-> t, list |-> u, kernel |-> z]
      <4>1. PICK w1 : w1 = [w EXCEPT !.finished = t]
        OBVIOUS
      <4>2. w1 = [finished |-> t, list |-> y, kernel |-> z]
        BY ONLY <3>4, <4>1
      <4>3. [w1 EXCEPT !.list = u] = [finished |-> t, list |-> u, kernel |-> z]
        BY ONLY <4>2
      <4>4. [w EXCEPT !.finished = t, !.list = u] = [w1 EXCEPT !.list = u]
        BY ONLY <4>1
      <4> QED
        BY <4>3, <4>4
    <3>9. v = [finished |-> t, list |-> u, kernel |-> z]
      BY <3>5, <3>6
    <3> QED
      BY <3>7, <3>8, <3>9
  <2>6. /\ v.finished = w.finished \cup {last} /\ v.list = g /\ v.kernel = w.kernel
        /\ v = [finished |-> v.finished, list |-> v.list, kernel |-> v.kernel]
    BY <2>4
  <2>7. IsFiniteSet(v.finished) /\ IsList(v.list) /\ IsList(v.kernel)
    BY <2>3, <2>6, FS_AddElement DEF GoodWork
  <2>8. v.finished \cup ToSymbolSet(v.list) = w.finished \cup ToSymbolSet(w.list)
    <3>1. last \in ToSymbolSet(l)
      BY <2>1, <2>3 DEF ToSymbolSet
    <3>2. ToSymbolSet(g) \subseteq ToSymbolSet(l)
      BY <2>3 DEF ToSymbolSet
    <3>3. ToSymbolSet(l) \subseteq ToSymbolSet(g) \cup {last}
      BY <2>1, <2>3 DEF ToSymbolSet
    <3> QED
      BY <2>1, <2>6, <3>1, <3>2, <3>3
  <2>9. /\ \A a, b \in w.finished : a.prod = b.prod => a = b
        /\ \A i, j \in DOMAIN l : l[i].prod = l[j].prod => i = j
        /\ \A a \in w.finished, i \in DOMAIN l : a.prod # l[i].prod
    BY <2>1 DEF GoodWork
  <2>10. \A a, b \in v.finished : a.prod = b.prod => a = b
    BY <2>1, <2>3, <2>6, <2>9
  <2>11. \A i, j \in DOMAIN v.list : v.list[i].prod = v.list[j].prod => i = j
    BY <2>3, <2>6, <2>9
  <2>12. \A a \in v.finished, i \in DOMAIN v.list : a.prod # v.list[i].prod
    BY <2>1, <2>3, <2>6, <2>9
  <2>13. GoodWork(P, set, v)
    BY <2>6, <2>7, <2>8, <2>10, <2>11, <2>12 DEF GoodWork
  <2> QED
    BY <2>5, <2>13
<1> QED
  BY <1>1, <1>2

(* A closure begins with all that the state has.                           *)
LEMMA ClosureBegins ==
  ASSUME NEW P, NEW old, WellMade(P, old),
         NEW set, set.nonkernel = old.nonkernel, IsList(set.kernel)
  PROVE  GoodWork(P, set, [finished |-> ToSymbolSet(set.nonkernel), list |-> << >>,
                           kernel |-> set.kernel])
<1>1. PICK w : w = [finished |-> ToSymbolSet(set.nonkernel), list |-> << >>,
                    kernel |-> set.kernel]
  OBVIOUS
<1>2. /\ w.finished = ToSymbolSet(old.nonkernel) /\ w.list = << >> /\ w.kernel = set.kernel
      /\ w = [finished |-> w.finished, list |-> w.list, kernel |-> w.kernel]
  BY <1>1
<1>3. IsFiniteSet(w.finished)
  BY <1>2, ListIsFinite DEF WellMade
<1>4. IsList(w.list) /\ DOMAIN w.list = {} /\ ToSymbolSet(w.list) = {}
  <2>1. PICK f : f = << >>
    OBVIOUS
  <2>2. DOMAIN f = {} /\ f \in Seq(ToSymbolSet(f))
    BY <2>1
  <2> QED
    BY <1>2, <2>1, <2>2 DEF IsList, ToSymbolSet
<1>5. GoodWork(P, set, w)
  BY <1>2, <1>3, <1>4 DEF GoodWork, WellMade
<1> QED
  BY <1>1, <1>5

LEMMA NewSetWellMade ==
  ASSUME NEW P, NEW kernel, IsList(kernel)
  PROVE  /\ WellMade(P, NewSet(kernel))
         /\ NewSet(kernel).kernel = kernel /\ NewSet(kernel).nonkernel = << >>
         /\ DOMAIN NewSet(kernel).trans = {}
<1>1. PICK set : set = NewSet(kernel)
  OBVIOUS
<1>2. /\ set.kernel = kernel /\ set.nonkernel = << >> /\ set.trans = << >>
      /\ set = [kernel |-> set.kernel, nonkernel |-> set.nonkernel, trans |-> set.trans]
  BY <1>1 DEF NewSet
<1>3. PICK f : f = << >>
  OBVIOUS
<1>4. DOMAIN f = {} /\ f \in Seq(ToSymbolSet(f))
  BY <1>3
<1>5. IsList(f) /\ ToSymbolSet(f) = {}
  BY <1>4 DEF IsList, ToSymbolSet
<1> QED
  BY <1>1, <1>2, <1>3, <1>4, <1>5 DEF WellMade

(* What a closure has found, in the order of the hash table.               *)
Rank(h, S) == [it \in S |-> h[it.prod]]
HashNth(h, S, i) ==
  CHOOSE x \in S : Cardinality({y \in S : h[y.prod] < h[x.prod]}) = i - 1

OnceEach(items) == \A i, j \in DOMAIN items : items[i] = items[j] => i = j
LEMMA HashOrderLists ==
  ASSUME NEW h, NEW S, IsFiniteSet(S),
         \A a \in S : h[a.prod] \in Int,
         \A a, b \in S : h[a.prod] = h[b.prod] => a = b,
         NEW r, IsList(r), Len(r) = Cardinality(S),
         \A i \in 1..Cardinality(S) : r[i] = HashNth(h, S, i)
  PROVE  ToSymbolSet(r) = S /\ OnceEach(r)
<1>1. PICK rk : rk = Rank(h, S)
  OBVIOUS
<1>2. \A x \in S : rk[x] = h[x.prod]
  BY <1>1 DEF Rank
<1>3. Ranks(rk, S)
  BY <1>2 DEF Ranks
<1>4. \A x \in S : Below(S, rk, x) = {y \in S : h[y.prod] < h[x.prod]}
  BY <1>2 DEF Below
<1>5. ASSUME NEW i \in 1..Cardinality(S), NEW x \in S, Cardinality(Below(S, rk, x)) = i - 1
      PROVE  r[i] \in S /\ Cardinality(Below(S, rk, r[i])) = i - 1
  <2>1. Cardinality({y \in S : h[y.prod] < h[x.prod]}) = i - 1
    BY <1>4, <1>5
  <2>2. /\ HashNth(h, S, i) \in S
        /\ Cardinality({y \in S : h[y.prod] < h[HashNth(h, S, i).prod]}) = i - 1
    BY <2>1 DEF HashNth
  <2>3. r[i] = HashNth(h, S, i)
    BY <1>5
  <2> QED
    BY <1>4, <2>2, <2>3
<1>6. Lists(r, S, rk)
  BY <1>5 DEF Lists
<1> QED
  BY ONLY IsFiniteSet(S), <1>3, <1>6, ListedOnce DEF OnceEach

LEMMA HashOrderOfFinished ==
  ASSUME NEW P, NEW set, NEW w, GoodWork(P, set, w),
         \A i, j \in DOMAIN P : hashOrder[i] \in Int /\ (hashOrder[i] = hashOrder[j] => i = j)
  PROVE  /\ IsList(InHashOrder(w.finished)) /\ ToSymbolSet(InHashOrder(w.finished)) = w.finished
         /\ OnceEach(InHashOrder(w.finished))
<1>1. PICK S, h, r : S = w.finished /\ h = hashOrder /\ r = InHashOrder(S)
  OBVIOUS
<1>2. IsFiniteSet(S)
  BY <1>1 DEF GoodWork
<1>3. PICK c \in Nat : c = Cardinality(S)
  BY <1>2, FS_CardinalityType
<1>4. r = [i \in 1..Cardinality(S) |-> HashNth(h, S, i)]
  BY <1>1 DEF InHashOrder, InOrder, HashNth
<1>5. r = [i \in 1..c |-> r[i]] /\ \A i \in 1..c : r[i] = HashNth(h, S, i)
  BY <1>3, <1>4
<1>6. IsList(r) /\ Len(r) = c
  BY <1>5, IsAList
<1>7. \A a \in S : h[a.prod] \in Int
  BY <1>1 DEF GoodWork
<1>8. \A a, b \in S : h[a.prod] = h[b.prod] => a = b
  BY <1>1 DEF GoodWork
<1>9. ToSymbolSet(r) = S /\ OnceEach(r)
  BY <1>2, <1>3, <1>5, <1>6, <1>7, <1>8, HashOrderLists
<1> QED
  BY <1>1, <1>6, <1>9
-----------------------------------------------------------------------------
(* What has been handed on.                                                *)
Covers(kernel, other) ==
  /\ Core(kernel) = Core(other)
  /\ \A i \in DOMAIN kernel : kernel[i].la \subseteq other[i].la
Handed(P, all, s, x) ==
  /\ x \in DOMAIN all[s].trans
  /\ Covers(Moved(P, all[s], x), all[all[s].trans[x]].kernel)
HandsOn(P, all, s) == \A x \in CalledFor(P, all[s]) : Handed(P, all, s, x)

\* The items before position n.
Considered(P, all, s, n) ==
  \A i \in DOMAIN All(all[s]) :
    i < n /\ ~ EndOf(P, All(all[s])[i]) => Handed(P, all, s, AfterDot(P, All(all[s])[i]))

(* The states so far, and the transitions between them.                    *)
Automaton(P, all) ==
  /\ \E n \in Nat : DOMAIN all = 0..(n - 1)
  /\ \A s \in DOMAIN all :
       /\ WellMade(P, all[s])
       /\ DOMAIN all[s].trans \subseteq CalledFor(P, all[s])
       /\ \A x \in DOMAIN all[s].trans : all[s].trans[x] \in DOMAIN all

LEMMA SameCore ==
  ASSUME NEW f, NEW g, Core(f) = Core(g)
  PROVE  /\ DOMAIN f = DOMAIN g
         /\ \A i \in DOMAIN f : f[i].prod = g[i].prod /\ f[i].dot = g[i].dot
<1>1. PICK a, b : a = Core(f) /\ b = Core(g)
  OBVIOUS
<1>2. /\ DOMAIN a = DOMAIN f /\ \A i \in DOMAIN f : a[i] = <<f[i].prod, f[i].dot>>
      /\ DOMAIN b = DOMAIN g /\ \A i \in DOMAIN g : b[i] = <<g[i].prod, g[i].dot>>
  BY <1>1 DEF Core
<1>3. a = b
  BY <1>1
<1> QED
  BY <1>2, <1>3

LEMMA CoversMore ==
  /\ \A f : Covers(f, f)
  /\ \A f, g, h : Covers(f, g) /\ Covers(g, h) => Covers(f, h)
<1>1. ASSUME NEW f, NEW g, NEW h, Covers(f, g), Covers(g, h) PROVE Covers(f, h)
  <2>1. Core(f) = Core(g) /\ Core(g) = Core(h)
    BY <1>1 DEF Covers
  <2>2. DOMAIN f = DOMAIN g
    BY <2>1, SameCore
  <2>3. \A i \in DOMAIN f : f[i].la \subseteq g[i].la /\ g[i].la \subseteq h[i].la
    BY <1>1, <2>2 DEF Covers
  <2> QED
    BY <2>1, <2>3 DEF Covers
<1>2. ASSUME NEW f PROVE Covers(f, f)
  BY DEF Covers
<1> QED
  BY <1>1, <1>2

LEMMA Merged ==
  ASSUME NEW old, IsList(old), NEW more, Core(old) = Core(more)
  PROVE  /\ IsList(MergeLookaheads(old, more))
         /\ Covers(old, MergeLookaheads(old, more))
         /\ Covers(more, MergeLookaheads(old, more))
<1>1. PICK m : m = MergeLookaheads(old, more)
  OBVIOUS
<1>2. PICK n \in Nat : n = Len(old) /\ DOMAIN old = 1..n
  BY ListLength
<1>3. DOMAIN m = 1..n /\ m = [i \in 1..n |-> m[i]]
  BY <1>1, <1>2 DEF MergeLookaheads
<1>4. \A i \in 1..n : /\ m[i].prod = old[i].prod /\ m[i].dot = old[i].dot
                      /\ m[i].la = old[i].la \cup more[i].la
  BY <1>1, <1>2 DEF MergeLookaheads, Item
<1>5. IsList(m)
  BY <1>3, IsAList
<1>6. Core(m) = Core(old)
  <2>1. Core(m) = [i \in 1..n |-> <<m[i].prod, m[i].dot>>]
    BY <1>3 DEF Core
  <2>2. Core(old) = [i \in 1..n |-> <<old[i].prod, old[i].dot>>]
    BY <1>2 DEF Core
  <2> QED
    BY <1>4, <2>1, <2>2
<1>7. DOMAIN more = 1..n
  BY <1>2, SameCore
<1> QED
  BY <1>1, <1>2, <1>4, <1>5, <1>6, <1>7 DEF Covers

(* Where the dot leads depends on the items of the set alone.              *)
LEMMA SameMoves ==
  ASSUME NEW P, NEW old, NEW new, new.kernel = old.kernel, new.nonkernel = old.nonkernel
  PROVE  /\ All(new) = All(old) /\ CalledFor(P, new) = CalledFor(P, old)
         /\ \A x : Moved(P, new, x) = Moved(P, old, x)
<1>1. All(new) = All(old)
  BY DEF All
<1>2. CalledFor(P, new) = CalledFor(P, old)
  BY <1>1 DEF CalledFor
<1>3. \A x : WithDotMoved(P, new, x) = WithDotMoved(P, old, x)
  BY <1>1 DEF WithDotMoved
<1> QED
  BY <1>1, <1>2, <1>3 DEF Moved

LEMMA StillHanded ==
  ASSUME NEW P, NEW all, NEW new, NEW s,
         new[s].kernel = all[s].kernel, new[s].nonkernel = all[s].nonkernel,
         NEW x, Handed(P, all, s, x),
         x \in DOMAIN new[s].trans,
         Covers(all[all[s].trans[x]].kernel, new[new[s].trans[x]].kernel)
  PROVE  Handed(P, new, s, x)
<1>1. Moved(P, new[s], x) = Moved(P, all[s], x)
  BY SameMoves
<1> QED
  BY <1>1, CoversMore DEF Handed

(* State c gets a transition for x to state s, which has all that c hands  *)
(* on; other kernels may grow.                                             *)
Linked(P, all, new, c, x, s) ==
  /\ c \in DOMAIN all /\ s \in DOMAIN new /\ x \in CalledFor(P, all[c])
  /\ \A t \in DOMAIN all :
       /\ t \in DOMAIN new /\ WellMade(P, new[t])
       /\ new[t].nonkernel = all[t].nonkernel
       /\ Covers(all[t].kernel, new[t].kernel)
       /\ t # c => new[t].trans = all[t].trans
  /\ new[c].trans = [y \in DOMAIN all[c].trans \cup {x} |->
                       IF y = x THEN s ELSE all[c].trans[y]]
  /\ Covers(Moved(P, all[c], x), new[s].kernel)

LEMMA LinkedTransitions ==
  ASSUME NEW P, NEW all, NEW new, NEW c, NEW x, NEW s,
         Automaton(P, all), Linked(P, all, new, c, x, s), NEW t \in DOMAIN all
  PROVE  /\ DOMAIN new[t].trans \subseteq CalledFor(P, new[t])
         /\ \A y \in DOMAIN new[t].trans : new[t].trans[y] \in DOMAIN new
<1>1. CalledFor(P, all[t]) \subseteq CalledFor(P, new[t])
  <2>1. WellMade(P, all[t]) /\ WellMade(P, new[t]) /\ Core(all[t].kernel) = Core(new[t].kernel)
    BY DEF Automaton, Linked, Covers
  <2>2. new[t].nonkernel = all[t].nonkernel
    BY DEF Linked
  <2> QED
    BY <2>1, <2>2, MoreCalledFor
<1>2. /\ DOMAIN all[t].trans \subseteq CalledFor(P, all[t])
      /\ \A y \in DOMAIN all[t].trans : all[t].trans[y] \in DOMAIN new
  BY DEF Automaton, Linked
<1>3. CASE t # c
  BY <1>1, <1>2, <1>3 DEF Linked
<1>4. CASE t = c
  <2>1. /\ x \in CalledFor(P, all[t]) /\ s \in DOMAIN new
        /\ new[t].trans = [y \in DOMAIN all[t].trans \cup {x} |->
                             IF y = x THEN s ELSE all[t].trans[y]]
    BY <1>4 DEF Linked
  <2> QED
    BY <1>1, <1>2, <2>1
<1> QED
  BY <1>3, <1>4

LEMMA LinkedHandsOn ==
  ASSUME NEW P, NEW all, NEW new, NEW c, NEW x, NEW s,
         Automaton(P, all), Linked(P, all, new, c, x, s),
         NEW t \in DOMAIN all, new[t] = all[t], HandsOn(P, all, t)
  PROVE  t # c => HandsOn(P, new, t)
<1> SUFFICES ASSUME t # c, NEW y \in CalledFor(P, new[t]) PROVE Handed(P, new, t, y)
  BY DEF HandsOn
<1>1. Handed(P, all, t, y) /\ y \in DOMAIN all[t].trans
  BY DEF HandsOn, Handed
<1>2. Covers(all[all[t].trans[y]].kernel, new[new[t].trans[y]].kernel)
  BY <1>1 DEF Automaton, Linked
<1> QED
  BY <1>1, <1>2, StillHanded

LEMMA LinkedConsidered ==
  ASSUME NEW P, NEW all, NEW new, NEW c, NEW x, NEW s,
         Automaton(P, all), Linked(P, all, new, c, x, s),
         NEW n \in Int, Considered(P, all, c, n), new[c].kernel = all[c].kernel,
         NEW i \in DOMAIN All(all[c]), x = AfterDot(P, All(all[c])[i]),
         \A j \in DOMAIN All(all[c]) : j >= n /\ ~ EndOf(P, All(all[c])[j]) => i <= j
  PROVE  Considered(P, new, c, i + 1)
<1>1. /\ new[c].nonkernel = all[c].nonkernel /\ WellMade(P, all[c])
      /\ DOMAIN new[c].trans = DOMAIN all[c].trans \cup {x}
      /\ \A y \in DOMAIN new[c].trans :
           new[c].trans[y] = IF y = x THEN s ELSE all[c].trans[y]
  BY DEF Linked, Automaton
<1>2. All(new[c]) = All(all[c])
  BY <1>1, SameMoves
<1>3. Handed(P, new, c, x)
  <2>1. Moved(P, new[c], x) = Moved(P, all[c], x)
    BY <1>1, SameMoves
  <2> QED
    BY <1>1, <2>1 DEF Handed, Linked
<1>4. DOMAIN All(all[c]) \in SUBSET Int
  <2>1. IsList(All(all[c]))
    BY <1>1, Concatenated DEF WellMade, All
  <2> QED
    BY <2>1, ListLength
<1>5. ASSUME NEW j \in DOMAIN All(all[c]), j < i + 1, ~ EndOf(P, All(all[c])[j]),
             AfterDot(P, All(all[c])[j]) # x
      PROVE  Handed(P, new, c, AfterDot(P, All(all[c])[j]))
  <2>1. PICK y : y = AfterDot(P, All(all[c])[j])
    OBVIOUS
  <2>2. j < n
    <3>1. j # i
      BY <1>5
    <3>2. j \in Int /\ i \in Int
      BY <1>4
    <3> QED
      BY <1>5, <3>1, <3>2
  <2>3. Handed(P, all, c, y) /\ y \in DOMAIN all[c].trans
    BY <1>5, <2>1, <2>2 DEF Considered, Handed
  <2>4. new[c].trans[y] = all[c].trans[y] /\ y \in DOMAIN new[c].trans
    BY <1>1, <1>5, <2>1, <2>3
  <2>5. Covers(all[all[c].trans[y]].kernel, new[new[c].trans[y]].kernel)
    BY <2>3, <2>4 DEF Automaton, Linked
  <2> QED
    BY <1>1, <2>1, <2>3, <2>4, <2>5, StillHanded
<1> QED
  BY <1>2, <1>3, <1>5 DEF Considered
-----------------------------------------------------------------------------
(* The inductive invariant.  A state that is done has handed on what it    *)
(* has; the one whose items are looked at has done so for those it is past,*)
(* unless it has got more meanwhile and is no longer done.                 *)
Given ==
  input \in Inputs /\ grammar = InitializeAuxData(input) /\ hashOrder \in HashOrders

Early == {"derive", "first", "follow", "sets"}

Lined ==
  /\ pending \in Seq(StateIds)
  /\ \A i, j \in DOMAIN pending : pending[i] = pending[j] => i = j
  /\ done \subseteq StateIds /\ \A i \in DOMAIN pending : pending[i] \notin done
  /\ current \in StateIds \cup {NoState}
  /\ closing \in StateIds \cup {NoState} /\ closing \notin done
  /\ closing # NoState => closing # current
  /\ nextItem \in Int
  /\ mustCloseMyself /\ current # NoState => current \notin done

UnderClosure == closing # NoState => GoodWork(grammar.prods, sets[closing], work)
DoneHandsOn == \A s \in done : s # current => HandsOn(grammar.prods, sets, s)
CurrentHandsOn == current \in done => Considered(grammar.prods, sets, current, nextItem)

SetsSoFar ==
  /\ Automaton(grammar.prods, sets)
  /\ Lined /\ UnderClosure /\ DoneHandsOn /\ CurrentHandsOn

SetsInv == Given /\ (phase \in Early => SetsSoFar)

LEMMA NoStateIsNone ==
  Automaton(grammar.prods, sets) => NoState \notin DOMAIN sets
BY DEF Automaton, NoState

LEMMA ProductionsAre ==
  ASSUME Given
  PROVE  /\ DOMAIN grammar.prods \in SUBSET Int /\ IsFiniteSet(DOMAIN grammar.prods)
         /\ \A i, j \in DOMAIN grammar.prods :
              hashOrder[i] \in Int /\ (hashOrder[i] = hashOrder[j] => i = j)
<1>1. PICK g \in Input : g = input /\ grammar = InitializeAuxData(g)
  BY InputsAssumption DEF Given
<1>2. IsList(grammar.prods)
  BY <1>1, GrammarIsSound DEF SoundGrammar
<1>3. PICK n \in Nat : DOMAIN grammar.prods = 1..n
  BY <1>2, ListLength
<1>4. \A i, j \in DOMAIN grammar.prods :
        hashOrder[i] \in Int /\ (hashOrder[i] = hashOrder[j] => i = j)
  BY HashOrdersAssumption DEF Given
<1>5. 1..n \in SUBSET Int /\ IsFiniteSet(1..n)
  <2>1. 1 \in Int /\ n \in Int
    OBVIOUS
  <2> QED
    BY ONLY <2>1, FS_Interval
<1> QED
  BY ONLY <1>3, <1>4, <1>5

LEMMA ItemsAre ==
  ASSUME Automaton(grammar.prods, sets), NEW c \in DOMAIN sets
  PROVE  /\ IsList(All(sets[c])) /\ DOMAIN All(sets[c]) \in SUBSET Nat
         /\ ToSymbolSet(All(sets[c])) =
              ToSymbolSet(sets[c].kernel) \cup ToSymbolSet(sets[c].nonkernel)
<1>1. IsList(sets[c].kernel) /\ IsList(sets[c].nonkernel)
  BY DEF Automaton, WellMade
<1>2. /\ IsList(All(sets[c]))
      /\ ToSymbolSet(All(sets[c])) =
           ToSymbolSet(sets[c].kernel) \cup ToSymbolSet(sets[c].nonkernel)
  BY <1>1, Concatenated DEF All
<1>3. DOMAIN All(sets[c]) \in SUBSET Nat
  BY <1>2, ListLength
<1> QED
  BY <1>2, <1>3

(* The item that is looked at is the first of those left.                  *)
LEMMA NextItemIs ==
  ASSUME SetsSoFar, current # NoState, NEW i \in ItemsLeft, i = Min(ItemsLeft)
  PROVE  /\ i \in DOMAIN All(sets[current]) /\ i \in Int
         /\ AfterDot(grammar.prods, All(sets[current])[i])
              = SymbolAfterDot(AllItems(current)[i])
         /\ AfterDot(grammar.prods, All(sets[current])[i])
              \in CalledFor(grammar.prods, sets[current])
         /\ \A j \in DOMAIN All(sets[current]) :
              j >= nextItem /\ ~ EndOf(grammar.prods, All(sets[current])[j]) => i <= j
<1>1. AllItems(current) = All(sets[current]) /\ current \in DOMAIN sets
  BY InTerms DEF SetsSoFar, Lined, StateIds
<1>2. ItemsLeft = {j \in DOMAIN All(sets[current]) :
                     j >= nextItem /\ ~ EndOf(grammar.prods, All(sets[current])[j])}
  BY <1>1, InTerms DEF ItemsLeft
<1>3. ItemsLeft \subseteq Nat
  BY <1>1, <1>2, ItemsAre DEF SetsSoFar
<1>4. \A j \in ItemsLeft : i <= j
  <2>1. PICK S : S = ItemsLeft
    OBVIOUS
  <2>2. \E m \in S : \A j \in S : ~ (<<j, m>> \in OpToRel(<, Nat))
    BY <1>3, <2>1, WFMin, NatLessThanWellFounded
  <2>3. PICK m \in S : \A j \in S : ~ (<<j, m>> \in OpToRel(<, Nat))
    BY <2>2
  <2>4. ASSUME NEW j \in S PROVE m <= j
    <3>1. j \in Nat /\ m \in Nat
      BY <1>3, <2>1
    <3>2. ~ j < m
      <4>1. ~ (<<j, m>> \in OpToRel(<, Nat))
        BY <2>3, <2>4
      <4> QED
        BY <3>1, <4>1 DEF OpToRel
    <3> QED
      BY <3>1, <3>2
  <2> QED
    BY <1>3, <2>1, <2>4 DEF Min
<1>5. i \in DOMAIN All(sets[current]) /\ ~ EndOf(grammar.prods, All(sets[current])[i])
  BY <1>2
<1>6. AfterDot(grammar.prods, All(sets[current])[i])
        \in CalledFor(grammar.prods, sets[current])
  BY <1>5 DEF CalledFor, ToSymbolSet
<1> QED
  BY <1>1, <1>2, <1>3, <1>4, <1>5, <1>6, InTerms

-----------------------------------------------------------------------------
(* The steps.                                                              *)
LEMMA MakeStartStateStep ==
  ASSUME Given, SetsSoFar, MakeStartState, UNCHANGED <<grammar, hashOrder>>
  PROVE  SetsSoFar'
<1> DEFINE P == grammar.prods
           kernel == <<Item(1, 0, {})>>
<1>1. /\ sets = << >> /\ sets' = [s \in {0} |-> NewSet(kernel)]
      /\ closing' = 0
      /\ work' = [finished |-> ToSymbolSet(NewSet(kernel).nonkernel), list |-> << >>,
                  kernel |-> NewSet(kernel).kernel]
      /\ pending' = <<0>>
      /\ done' = done /\ current' = current /\ nextItem' = nextItem
      /\ mustCloseMyself' = mustCloseMyself /\ P' = P
  BY DEF MakeStartState, BeginClosure
<1>2. DOMAIN sets = {} /\ done = {} /\ current = NoState
  <2>1. DOMAIN sets = {}
    BY <1>1
  <2> QED
    BY <2>1 DEF SetsSoFar, Lined, StateIds
<1>3. IsList(kernel)
  <2>1. PICK k : k = kernel
    OBVIOUS
  <2>2. k = [i \in 1..1 |-> k[i]] /\ 1 \in Nat
    BY <2>1
  <2> QED
    BY <2>1, <2>2, IsAList
<1>4. PICK set : set = NewSet(kernel)
  OBVIOUS
<1>5. /\ WellMade(P, set) /\ set.kernel = kernel /\ set.nonkernel = << >>
      /\ DOMAIN set.trans = {}
  BY <1>3, <1>4, NewSetWellMade
<1>6. DOMAIN sets' = {0} /\ sets'[0] = set
  BY <1>1, <1>4
<1>7. Automaton(P, sets)'
  <2>1. 1 \in Nat /\ 0..(1 - 1) = {0}
    OBVIOUS
  <2> QED
    BY <1>1, <1>5, <1>6, <2>1 DEF Automaton
<1>8. Lined'
  BY <1>1, <1>2, <1>6 DEF SetsSoFar, Lined, StateIds, NoState
<1>9. UnderClosure'
  <2>1. GoodWork(P, set, work')
    BY <1>1, <1>3, <1>4, <1>5, ClosureBegins
  <2> QED
    BY <1>1, <1>6, <2>1 DEF UnderClosure
<1>10. DoneHandsOn' /\ CurrentHandsOn'
  BY <1>1, <1>2 DEF DoneHandsOn, CurrentHandsOn
<1> QED
  BY <1>7, <1>8, <1>9, <1>10 DEF SetsSoFar

LEMMA PopItemSetStep ==
  ASSUME Given, SetsSoFar, PopItemSet, UNCHANGED <<grammar, hashOrder>>
  PROVE  SetsSoFar'
<1> DEFINE P == grammar.prods
<1>1. PICK last, front : last = Last(pending) /\ front = Front(pending)
  OBVIOUS
<1>2. /\ pending # << >> /\ closing = NoState /\ current = NoState
      /\ current' = last /\ pending' = front /\ done' = done \cup {last}
      /\ nextItem' = 1 /\ mustCloseMyself' = FALSE
      /\ sets' = sets /\ closing' = closing /\ work' = work /\ P' = P
  BY <1>1 DEF PopItemSet
<1>3. IsList(pending)
  <2>1. pending \in Seq(StateIds)
    BY DEF SetsSoFar, Lined
  <2>2. pending = [i \in 1..Len(pending) |-> pending[i]] /\ Len(pending) \in Nat
    BY <2>1
  <2> QED
    BY <2>2, IsAList
<1>4. /\ IsList(front) /\ Len(pending) \in DOMAIN pending /\ Len(pending) \notin DOMAIN front
      /\ DOMAIN front \subseteq DOMAIN pending
      /\ \A i \in DOMAIN front : front[i] = pending[i]
      /\ last = pending[Len(pending)]
  BY <1>1, <1>2, <1>3, FrontOfList DEF Last
<1>5. \A i \in DOMAIN pending : pending[i] \in StateIds
  BY DEF SetsSoFar, Lined
<1>6. front \in Seq(StateIds)
  <2>1. PICK n \in Nat : DOMAIN front = 1..n /\ front = [i \in 1..n |-> front[i]]
    BY <1>4, ListLength
  <2>2. front \in [1..n -> StateIds]
    BY <1>4, <1>5, <2>1
  <2> QED
    BY <2>2, IsSequence
<1>7. last \in StateIds /\ last # NoState /\ last \notin done
  BY <1>4, <1>5, NoStateIsNone DEF SetsSoFar, Lined, StateIds
<1>8. Lined'
  <2>1. \A i \in DOMAIN front : front[i] \notin done \cup {last}
    BY <1>4 DEF SetsSoFar, Lined
  <2>2. \A i, j \in DOMAIN front : front[i] = front[j] => i = j
    BY <1>4 DEF SetsSoFar, Lined
  <2>3. StateIds' = StateIds /\ NoState \notin done'
    BY <1>2, <1>7, NoStateIsNone DEF SetsSoFar, Lined, StateIds
  <2> QED
    BY <1>2, <1>6, <1>7, <2>1, <2>2, <2>3 DEF SetsSoFar, Lined
<1>9. DoneHandsOn'
  <2>1. \A s \in done : HandsOn(P, sets, s)
    BY <1>2, NoStateIsNone DEF SetsSoFar, DoneHandsOn, Lined, StateIds
  <2> QED
    BY <1>2, <2>1 DEF DoneHandsOn
<1>10. CurrentHandsOn'
  <2>1. DOMAIN All(sets[last]) \in SUBSET Nat /\ DOMAIN All(sets[last]) \cap {0} = {}
    <3>1. IsList(All(sets[last]))
      BY <1>7, ItemsAre DEF SetsSoFar, StateIds
    <3> QED
      BY <3>1, ListLength
  <2>2. \A i \in DOMAIN All(sets[last]) : ~ i < 1
    BY <2>1
  <2> QED
    BY <1>2, <2>2 DEF CurrentHandsOn, Considered
<1> QED
  BY <1>2, <1>8, <1>9, <1>10 DEF SetsSoFar, UnderClosure

LEMMA CloseItemsStep ==
  ASSUME Given, SetsSoFar, CloseKernelItem \/ CloseItem, UNCHANGED <<grammar, hashOrder>>
  PROVE  SetsSoFar'
<1> DEFINE P == grammar.prods
<1>1. /\ closing # NoState
      /\ UNCHANGED <<sets, pending, done, current, nextItem, mustCloseMyself, closing, P>>
  BY DEF CloseKernelItem, CloseItem
<1>2. GoodWork(P, sets[closing], work)
  BY <1>1 DEF SetsSoFar, UnderClosure
<1>3. DOMAIN P \in SUBSET Int /\ IsFiniteSet(DOMAIN P)
  BY ProductionsAre
<1>4. GoodWork(P, sets[closing], work')
  <2>1. CASE CloseKernelItem
    <3>1. PICK w : w = [work EXCEPT !.kernel = Tail(@)]
      OBVIOUS
    <3>2. work' = SingleItemClosure(w, Head(work.kernel)) /\ work.kernel # << >>
      BY <2>1, <3>1 DEF CloseKernelItem
    <3>3. GoodWork(P, sets[closing], w)
      BY <1>2, <3>1, <3>2, TakenFromWork
    <3> QED
      BY <1>3, <3>2, <3>3, SingleItemKeepsWork
  <2>2. CASE CloseItem
    <3>1. PICK w : w = [work EXCEPT !.finished = @ \cup {Last(work.list)}, !.list = Front(@)]
      OBVIOUS
    <3>2. work' = SingleItemClosure(w, Last(work.list)) /\ work.list # << >>
      BY <2>2, <3>1 DEF CloseItem
    <3>3. GoodWork(P, sets[closing], w)
      BY <1>2, <3>1, <3>2, TakenFromWork
    <3> QED
      BY <1>3, <3>2, <3>3, SingleItemKeepsWork
  <2> QED
    BY <2>1, <2>2
<1>5. UnderClosure'
  BY <1>1, <1>4 DEF UnderClosure
<1>6. Lined' /\ DoneHandsOn' /\ CurrentHandsOn' /\ Automaton(P, sets)'
  BY <1>1 DEF SetsSoFar, Lined, DoneHandsOn, CurrentHandsOn, StateIds
<1> QED
  BY <1>5, <1>6 DEF SetsSoFar

LEMMA ItemSetDoneStep ==
  ASSUME Given, SetsSoFar, ItemSetDone, UNCHANGED <<grammar, hashOrder>>
  PROVE  SetsSoFar'
<1> DEFINE P == grammar.prods
<1>1. /\ closing = NoState /\ current # NoState /\ ItemsLeft = {} /\ current' = NoState
      /\ UNCHANGED <<sets, pending, done, nextItem, mustCloseMyself, P>>
  BY DEF ItemSetDone, Considering
<1>2. current \in DOMAIN sets /\ WellMade(P, sets[current])
  BY <1>1 DEF SetsSoFar, Lined, Automaton, StateIds
<1>3. \/ mustCloseMyself /\ closing' = current
         /\ work' = [finished |-> ToSymbolSet(sets[current].nonkernel), list |-> << >>,
                     kernel |-> sets[current].kernel]
      \/ closing' = closing /\ work' = work
  BY DEF ItemSetDone, ClosesItself, BeginClosure, NoClosure
<1>4. Lined'
  <2>1. closing' \in StateIds \cup {NoState} /\ closing' \notin done
    BY <1>1, <1>2, <1>3 DEF SetsSoFar, Lined, StateIds
  <2> QED
    BY <1>1, <2>1 DEF SetsSoFar, Lined, StateIds
<1>5. UnderClosure'
  <2>1. GoodWork(P, sets[current], [finished |-> ToSymbolSet(sets[current].nonkernel),
                                    list |-> << >>, kernel |-> sets[current].kernel])
    BY <1>2, ClosureBegins DEF WellMade
  <2>2. CASE closing' = current /\
             work' = [finished |-> ToSymbolSet(sets[current].nonkernel), list |-> << >>,
                      kernel |-> sets[current].kernel]
    BY <1>1, <2>1, <2>2 DEF UnderClosure
  <2>3. CASE closing' = closing
    BY <1>1, <2>3 DEF UnderClosure
  <2> QED
    BY <1>3, <2>2, <2>3
<1>6. current \in done => HandsOn(P, sets, current)
  <2> SUFFICES ASSUME current \in done, NEW x \in CalledFor(P, sets[current])
               PROVE  Handed(P, sets, current, x)
    BY DEF HandsOn
  <2>1. PICK it \in ToSymbolSet(All(sets[current])) :
          ~ EndOf(P, it) /\ x = AfterDot(P, it)
    BY DEF CalledFor
  <2>2. PICK i \in DOMAIN All(sets[current]) : it = All(sets[current])[i]
    BY DEF ToSymbolSet
  <2>3. ~ i >= nextItem
    <3>1. AllItems(current) = All(sets[current]) /\ ~ DotAtEnd(it)
      BY <2>1, InTerms
    <3> QED
      BY <1>1, <2>2, <3>1 DEF ItemsLeft
  <2>4. i < nextItem
    BY <1>2, <2>3, ItemsAre DEF SetsSoFar, Lined
  <2> QED
    BY <2>1, <2>2, <2>4 DEF SetsSoFar, CurrentHandsOn, Considered
<1>7. DoneHandsOn'
  <2>1. \A s \in done : HandsOn(P, sets, s)
    BY <1>6 DEF SetsSoFar, DoneHandsOn
  <2> QED
    BY <1>1, <2>1 DEF DoneHandsOn
<1>8. CurrentHandsOn'
  BY <1>1, NoStateIsNone DEF CurrentHandsOn, SetsSoFar, Lined, StateIds
<1> QED
  BY <1>1, <1>4, <1>5, <1>7, <1>8 DEF SetsSoFar
LEMMA ClosureDoneStep ==
  ASSUME Given, SetsSoFar, ClosureDone, UNCHANGED <<grammar, hashOrder>>
  PROVE  SetsSoFar'
<1> DEFINE P == grammar.prods
<1>1. /\ closing # NoState /\ work.list = << >>
      /\ sets' = [sets EXCEPT ![closing].nonkernel = InHashOrder(work.finished)]
      /\ closing' = NoState
      /\ UNCHANGED <<pending, done, current, nextItem, mustCloseMyself, P>>
  BY DEF ClosureDone
<1>2. closing \in DOMAIN sets /\ closing \notin done /\ closing # current
  BY <1>1 DEF SetsSoFar, Lined, StateIds
<1>3. GoodWork(P, sets[closing], work)
  BY <1>1 DEF SetsSoFar, UnderClosure
<1>4. PICK found : found = InHashOrder(work.finished)
  OBVIOUS
<1>5. IsList(found) /\ ToSymbolSet(found) = work.finished
  BY <1>3, <1>4, ProductionsAre, HashOrderOfFinished
<1>6. PICK old, new : old = sets[closing] /\ new = [sets[closing] EXCEPT !.nonkernel = found]
  OBVIOUS
<1>7. WellMade(P, old) /\ DOMAIN old.trans \subseteq CalledFor(P, old)
      /\ \A x \in DOMAIN old.trans : old.trans[x] \in DOMAIN sets
  BY <1>2, <1>6 DEF SetsSoFar, Automaton
<1>8. /\ new.kernel = old.kernel /\ new.nonkernel = found /\ new.trans = old.trans
      /\ new = [kernel |-> new.kernel, nonkernel |-> new.nonkernel, trans |-> new.trans]
  BY <1>6, <1>7 DEF WellMade
<1>9. WellMade(P, new)
  BY <1>3, <1>5, <1>7, <1>8 DEF WellMade, GoodWork
<1>10. CalledFor(P, old) \subseteq CalledFor(P, new)
  <2>1. Core(old.kernel) = Core(new.kernel)
    BY <1>8
  <2>2. \A it \in ToSymbolSet(old.nonkernel) :
          \E b \in ToSymbolSet(new.nonkernel) : b.prod = it.prod
    <3>1. ToSymbolSet(work.list) = {}
      BY <1>1 DEF ToSymbolSet
    <3> QED
      BY <1>3, <1>5, <1>6, <1>8, <3>1 DEF GoodWork
  <2> QED
    BY <1>7, <1>9, <2>1, <2>2, MoreCalledFor
<1>11. /\ DOMAIN sets' = DOMAIN sets /\ sets'[closing] = new
       /\ \A s \in DOMAIN sets : s # closing => sets'[s] = sets[s]
       /\ \A s \in DOMAIN sets : sets'[s].kernel = sets[s].kernel
  BY <1>1, <1>2, <1>4, <1>6, <1>8
<1>12. Automaton(P, sets)'
  <2>1. ASSUME NEW s \in DOMAIN sets
        PROVE  /\ WellMade(P, sets'[s])
               /\ DOMAIN sets'[s].trans \subseteq CalledFor(P, sets'[s])
               /\ \A x \in DOMAIN sets'[s].trans : sets'[s].trans[x] \in DOMAIN sets
    <3>1. CASE s = closing
      BY <1>7, <1>8, <1>9, <1>10, <1>11, <3>1
    <3>2. CASE s # closing
      BY <1>11, <3>2 DEF SetsSoFar, Automaton
    <3> QED
      BY <3>1, <3>2
  <2> QED
    BY <1>1, <1>11, <2>1 DEF SetsSoFar, Automaton
<1>13. ASSUME NEW s \in DOMAIN sets, s # closing, NEW x, Handed(P, sets, s, x)
       PROVE  Handed(P, sets', s, x)
  <2>1. sets'[s] = sets[s] /\ x \in DOMAIN sets[s].trans
    BY <1>11, <1>13 DEF Handed
  <2>2. sets[s].trans[x] \in DOMAIN sets
    BY <2>1 DEF SetsSoFar, Automaton
  <2>3. Covers(sets[sets[s].trans[x]].kernel, sets'[sets'[s].trans[x]].kernel)
    BY <1>11, <2>1, <2>2, CoversMore
  <2> QED
    BY <1>13, <2>1, <2>3, StillHanded
<1>14. DoneHandsOn'
  <2> SUFFICES ASSUME NEW s \in done, s # current PROVE HandsOn(P, sets', s)
    BY <1>1 DEF DoneHandsOn
  <2>1. s \in DOMAIN sets /\ s # closing
    BY <1>2 DEF SetsSoFar, Lined, StateIds
  <2>2. sets'[s] = sets[s]
    BY <1>11, <2>1
  <2> QED
    BY <1>13, <2>1, <2>2 DEF SetsSoFar, DoneHandsOn, HandsOn
<1>15. CurrentHandsOn'
  <2> SUFFICES ASSUME current \in done PROVE Considered(P, sets', current, nextItem)
    BY <1>1 DEF CurrentHandsOn
  <2>1. current \in DOMAIN sets /\ current # closing
    BY <1>2 DEF SetsSoFar, Lined, StateIds
  <2>2. sets'[current] = sets[current]
    BY <1>11, <2>1
  <2> QED
    BY <1>13, <2>1, <2>2 DEF SetsSoFar, CurrentHandsOn, Considered
<1>16. Lined' /\ UnderClosure'
  <2>1. NoState \notin done
    BY NoStateIsNone DEF SetsSoFar, Lined, StateIds
  <2> QED
    BY <1>1, <1>11, <2>1 DEF SetsSoFar, Lined, UnderClosure, StateIds
<1> QED
  BY <1>1, <1>12, <1>14, <1>15, <1>16 DEF SetsSoFar

LEMMA SetTransitionIs ==
  ASSUME NEW P, NEW set, WellMade(P, set), NEW x, NEW s
  PROVE  /\ WellMade(P, SetTransition(set, x, s))
         /\ SetTransition(set, x, s).kernel = set.kernel
         /\ SetTransition(set, x, s).nonkernel = set.nonkernel
         /\ SetTransition(set, x, s).trans =
              [y \in DOMAIN set.trans \cup {x} |-> IF y = x THEN s ELSE set.trans[y]]
<1>1. PICK trans : trans = [y \in DOMAIN set.trans \cup {x} |-> IF y = x THEN s ELSE set.trans[y]]
  OBVIOUS
<1>2. PICK new : new = SetTransition(set, x, s)
  OBVIOUS
<1>3. new = [set EXCEPT !.trans = trans]
  BY <1>1, <1>2 DEF SetTransition
<1>4. /\ new.kernel = set.kernel /\ new.nonkernel = set.nonkernel /\ new.trans = trans
      /\ new = [kernel |-> new.kernel, nonkernel |-> new.nonkernel, trans |-> new.trans]
  BY <1>3 DEF WellMade
<1>5. WellMade(P, new)
  BY <1>4 DEF WellMade
<1> QED
  BY <1>1, <1>2, <1>4, <1>5

LEMMA MakeItemSetStep ==
  ASSUME Given, SetsSoFar, MakeItemSet, UNCHANGED <<grammar, hashOrder>>
  PROVE  SetsSoFar'
<1> DEFINE P == grammar.prods
<1>1. /\ closing = NoState /\ current # NoState
      /\ UNCHANGED <<done, current, mustCloseMyself, P>>
  BY DEF MakeItemSet, Considering
<1>2. PICK i \in ItemsLeft :
        /\ i = Min(ItemsLeft)
        /\ LET x == SymbolAfterDot(AllItems(current)[i])
               kernel == MoveDot(current, x)
               new == Cardinality(StateIds)
           IN  /\ SameKernel(kernel) = {}
               /\ sets' = [s \in StateIds \cup {new} |->
                             IF s = new THEN NewSet(kernel)
                             ELSE IF s = current THEN SetTransition(sets[s], x, new)
                             ELSE sets[s]]
               /\ BeginClosure(new, NewSet(kernel))
               /\ pending' = Append(pending, new)
        /\ nextItem' = i + 1
  BY DEF MakeItemSet
<1>3. PICK x, kernel, new : x = SymbolAfterDot(AllItems(current)[i])
        /\ kernel = MoveDot(current, x) /\ new = Cardinality(StateIds)
  OBVIOUS
<1>4. /\ sets' = [s \in DOMAIN sets \cup {new} |->
                    IF s = new THEN NewSet(kernel)
                    ELSE IF s = current THEN SetTransition(sets[s], x, new)
                    ELSE sets[s]]
      /\ closing' = new
      /\ work' = [finished |-> ToSymbolSet(NewSet(kernel).nonkernel), list |-> << >>,
                  kernel |-> NewSet(kernel).kernel]
      /\ pending' = Append(pending, new) /\ nextItem' = i + 1
  BY <1>2, <1>3 DEF BeginClosure, StateIds
<1>5. /\ current \in DOMAIN sets /\ WellMade(P, sets[current])
      /\ i \in Int /\ i \in DOMAIN All(sets[current])
      /\ x = AfterDot(P, All(sets[current])[i]) /\ x \in CalledFor(P, sets[current])
      /\ \A j \in DOMAIN All(sets[current]) :
           j >= nextItem /\ ~ EndOf(P, All(sets[current])[j]) => i <= j
  <2>1. current \in DOMAIN sets /\ WellMade(P, sets[current])
    BY <1>1 DEF SetsSoFar, Lined, Automaton, StateIds
  <2> QED
    BY <1>1, <1>2, <1>3, <2>1, NextItemIs
<1>6. kernel = Moved(P, sets[current], x) /\ IsList(kernel)
  BY <1>3, <1>5, InTerms, MovedIsList
<1>7. PICK n \in Nat : DOMAIN sets = 0..(n - 1)
  BY DEF SetsSoFar, Automaton
<1>8. new = n /\ new \notin DOMAIN sets /\ DOMAIN sets \cup {new} = 0..(n + 1 - 1)
      /\ new # current /\ new # NoState
  <2>1. Cardinality(0..(n - 1)) = n
    <3>1. 0 \in Int /\ n - 1 \in Int /\ (0 > n - 1 => n = 0) /\ (n - 1) - 0 + 1 = n
      BY <1>7
    <3> QED
      BY <3>1, FS_Interval
  <2>2. new = n
    BY <1>3, <1>7, <2>1 DEF StateIds
  <2> QED
    BY <1>5, <1>7, <2>2 DEF NoState
<1>9. PICK fresh : fresh = NewSet(kernel)
  OBVIOUS
<1>10. /\ WellMade(P, fresh) /\ fresh.kernel = kernel /\ fresh.nonkernel = << >>
       /\ DOMAIN fresh.trans = {}
  BY <1>6, <1>9, NewSetWellMade
<1>11. PICK more : more = SetTransition(sets[current], x, new)
  OBVIOUS
<1>12. /\ WellMade(P, more) /\ more.kernel = sets[current].kernel
       /\ more.nonkernel = sets[current].nonkernel
       /\ more.trans = [y \in DOMAIN sets[current].trans \cup {x} |->
                          IF y = x THEN new ELSE sets[current].trans[y]]
  BY <1>5, <1>11, SetTransitionIs
<1>13. /\ DOMAIN sets' = DOMAIN sets \cup {new}
       /\ sets'[new] = fresh /\ sets'[current] = more
       /\ \A s \in DOMAIN sets : s # current => sets'[s] = sets[s]
  BY <1>4, <1>5, <1>8, <1>9, <1>11
<1>14. Linked(P, sets, sets', current, x, new)
  <2>1. ASSUME NEW t \in DOMAIN sets
        PROVE  /\ t \in DOMAIN sets' /\ WellMade(P, sets'[t])
               /\ sets'[t].nonkernel = sets[t].nonkernel
               /\ sets'[t].kernel = sets[t].kernel
               /\ t # current => sets'[t].trans = sets[t].trans
    BY <1>12, <1>13 DEF SetsSoFar, Automaton
  <2>2. Covers(Moved(P, sets[current], x), sets'[new].kernel)
    BY <1>6, <1>10, <1>13, CoversMore
  <2> QED
    BY <1>5, <1>12, <1>13, <2>1, <2>2, CoversMore DEF Linked
<1>15. Automaton(P, sets)'
  <2>1. ASSUME NEW s \in DOMAIN sets'
        PROVE  /\ WellMade(P, sets'[s])
               /\ DOMAIN sets'[s].trans \subseteq CalledFor(P, sets'[s])
               /\ \A y \in DOMAIN sets'[s].trans : sets'[s].trans[y] \in DOMAIN sets'
    <3>1. CASE s = new
      BY <1>10, <1>13, <3>1
    <3>2. CASE s # new
      <4>1. s \in DOMAIN sets
        BY <1>13, <3>2
      <4>2. WellMade(P, sets'[s])
        BY <1>14, <4>1 DEF Linked
      <4> QED
        BY <1>14, <4>1, <4>2, LinkedTransitions DEF SetsSoFar
    <3> QED
      BY <3>1, <3>2
  <2>2. n + 1 \in Nat /\ DOMAIN sets' = 0..(n + 1 - 1)
    BY <1>8, <1>13
  <2> QED
    BY <1>1, <2>1, <2>2 DEF Automaton
<1>16. Lined'
  <2>1. PICK line : line = pending
    OBVIOUS
  <2>2. line \in Seq(DOMAIN sets) /\ (\A k, j \in DOMAIN line : line[k] = line[j] => k = j)
        /\ \A k \in DOMAIN line : line[k] \notin done
    BY <2>1 DEF SetsSoFar, Lined, StateIds
  <2>3. PICK m \in Nat : m = Len(line) /\ DOMAIN line = 1..m
    BY <2>2
  <2>4. line \in Seq(DOMAIN sets') /\ new \in DOMAIN sets'
    <3>1. line \in [1..m -> DOMAIN sets']
      BY <1>13, <2>2, <2>3
    <3> QED
      BY <1>13, <3>1, IsSequence
  <2>5. PICK longer : longer = Append(line, new)
    OBVIOUS
  <2>6. longer \in Seq(DOMAIN sets') /\ DOMAIN longer = 1..(m + 1)
        /\ (\A k \in 1..m : longer[k] = line[k]) /\ longer[m + 1] = new
    BY <2>3, <2>4, <2>5
  <2>7. \A k \in DOMAIN line : line[k] # new
    BY <1>8, <2>2
  <2>8. \A k \in 1..(m + 1) : k \in 1..m \/ k = m + 1
    OBVIOUS
  <2>9. new \notin done
    BY <1>8 DEF SetsSoFar, Lined, StateIds
  <2>10. \A k, j \in DOMAIN longer : longer[k] = longer[j] => k = j
    BY <2>2, <2>3, <2>6, <2>7, <2>8
  <2>11. \A k \in DOMAIN longer : longer[k] \notin done
    BY <2>2, <2>3, <2>6, <2>8, <2>9
  <2>12. done \subseteq DOMAIN sets' /\ current \in DOMAIN sets' /\ new \in DOMAIN sets'
    BY <1>5, <1>13 DEF SetsSoFar, Lined, StateIds
  <2>13. pending' = longer
    BY <1>4, <2>1, <2>5
  <2> QED
    BY <1>1, <1>4, <1>5, <1>8, <2>6, <2>9, <2>10, <2>11, <2>12, <2>13
       DEF SetsSoFar, Lined, StateIds
<1>17. UnderClosure'
  <2>1. GoodWork(P, fresh, work')
    BY <1>4, <1>6, <1>9, <1>10, ClosureBegins
  <2> QED
    BY <1>1, <1>4, <1>13, <2>1 DEF UnderClosure
<1>18. DoneHandsOn'
  <2> SUFFICES ASSUME NEW s \in done, s # current PROVE HandsOn(P, sets', s)
    BY <1>1 DEF DoneHandsOn
  <2>1. s \in DOMAIN sets /\ sets'[s] = sets[s] /\ HandsOn(P, sets, s)
    BY <1>13 DEF SetsSoFar, Lined, StateIds, DoneHandsOn
  <2> QED
    BY <1>14, <2>1, LinkedHandsOn DEF SetsSoFar
<1>19. CurrentHandsOn'
  <2> SUFFICES ASSUME current \in done PROVE Considered(P, sets', current, i + 1)
    BY <1>1, <1>4 DEF CurrentHandsOn
  <2>1. Considered(P, sets, current, nextItem) /\ nextItem \in Int /\ Automaton(P, sets)
    BY DEF SetsSoFar, CurrentHandsOn, Lined
  <2>2. sets'[current].kernel = sets[current].kernel
    BY <1>12, <1>13
  <2> QED
    BY <1>5, <1>14, <2>1, <2>2, LinkedConsidered
<1> QED
  BY <1>15, <1>16, <1>17, <1>18, <1>19 DEF SetsSoFar
LEMMA WithKernelIs ==
  ASSUME NEW P, NEW set, WellMade(P, set), NEW kernel, IsList(kernel)
  PROVE  /\ WellMade(P, [set EXCEPT !.kernel = kernel])
         /\ [set EXCEPT !.kernel = kernel].kernel = kernel
         /\ [set EXCEPT !.kernel = kernel].nonkernel = set.nonkernel
         /\ [set EXCEPT !.kernel = kernel].trans = set.trans
         /\ kernel = set.kernel => [set EXCEPT !.kernel = kernel] = set
<1>1. PICK new : new = [set EXCEPT !.kernel = kernel]
  OBVIOUS
<1>2. /\ new.kernel = kernel /\ new.nonkernel = set.nonkernel /\ new.trans = set.trans
      /\ new = [kernel |-> new.kernel, nonkernel |-> new.nonkernel, trans |-> new.trans]
  BY <1>1 DEF WellMade
<1>3. WellMade(P, new)
  BY <1>2 DEF WellMade
<1>4. kernel = set.kernel => new = set
  BY <1>2 DEF WellMade
<1> QED
  BY <1>1, <1>2, <1>3, <1>4

(* The state that is found gets the lookahead, and the current one the     *)
(* transition; they may be the same.                                       *)
WithFound(all, c, x, s, merged) ==
  [[all EXCEPT ![s].kernel = merged] EXCEPT ![c] = SetTransition(@, x, s)]

LEMMA FoundIsLinked ==
  ASSUME NEW P, NEW all, Automaton(P, all), NEW c \in DOMAIN all,
         NEW x \in CalledFor(P, all[c]), NEW s \in DOMAIN all,
         NEW kernel, kernel = Moved(P, all[c], x), Core(all[s].kernel) = Core(kernel),
         NEW merged, merged = MergeLookaheads(all[s].kernel, kernel),
         NEW new, new = WithFound(all, c, x, s, merged)
  PROVE  /\ DOMAIN new = DOMAIN all
         /\ Linked(P, all, new, c, x, s)
         /\ new[s].kernel = merged
         /\ \A t \in DOMAIN all : t # s => new[t].kernel = all[t].kernel
         /\ \A t \in DOMAIN all :
              t # c /\ (t # s \/ merged = all[s].kernel) => new[t] = all[t]
<1>1. WellMade(P, all[s]) /\ WellMade(P, all[c])
  BY DEF Automaton
<1>2. /\ IsList(merged) /\ Covers(all[s].kernel, merged) /\ Covers(kernel, merged)
  BY <1>1, Merged DEF WellMade
<1>3. PICK grown : grown = [all[s] EXCEPT !.kernel = merged]
  OBVIOUS
<1>4. /\ WellMade(P, grown) /\ grown.kernel = merged /\ grown.nonkernel = all[s].nonkernel
      /\ grown.trans = all[s].trans
      /\ merged = all[s].kernel => grown = all[s]
  BY <1>1, <1>2, <1>3, WithKernelIs
<1>5. PICK mid : mid = [all EXCEPT ![s] = grown]
  OBVIOUS
<1>6. /\ DOMAIN mid = DOMAIN all /\ mid[s] = grown
      /\ \A t \in DOMAIN all : t # s => mid[t] = all[t]
  BY <1>5
<1>7. new = [mid EXCEPT ![c] = SetTransition(mid[c], x, s)]
  <2>1. PICK other : other = [all EXCEPT ![s].kernel = merged]
    OBVIOUS
  <2>2. other = mid
    BY <1>3, <1>5, <2>1
  <2>3. new = [other EXCEPT ![c] = SetTransition(@, x, s)]
    BY <2>1 DEF WithFound
  <2> QED
    BY <2>2, <2>3
<1>8. WellMade(P, mid[c])
  BY <1>1, <1>4, <1>6
<1>9. PICK last : last = SetTransition(mid[c], x, s)
  OBVIOUS
<1>10. /\ WellMade(P, last) /\ last.kernel = mid[c].kernel
       /\ last.nonkernel = mid[c].nonkernel
       /\ last.trans = [y \in DOMAIN mid[c].trans \cup {x} |->
                          IF y = x THEN s ELSE mid[c].trans[y]]
  BY <1>8, <1>9, SetTransitionIs
<1>11. /\ DOMAIN new = DOMAIN all /\ new[c] = last
       /\ \A t \in DOMAIN all : t # c => new[t] = mid[t]
  BY <1>6, <1>7, <1>9
<1>12. mid[c].trans = all[c].trans /\ mid[c].nonkernel = all[c].nonkernel
  BY <1>4, <1>6
<1>13. new[s].kernel = merged /\ \A t \in DOMAIN all : t # s => new[t].kernel = all[t].kernel
  BY <1>4, <1>6, <1>10, <1>11
<1>14. \A t \in DOMAIN all : t # c /\ (t # s \/ merged = all[s].kernel) => new[t] = all[t]
  BY <1>4, <1>6, <1>11
<1>15. ASSUME NEW t \in DOMAIN all
       PROVE  /\ WellMade(P, new[t]) /\ new[t].nonkernel = all[t].nonkernel
              /\ Covers(all[t].kernel, new[t].kernel)
              /\ t # c => new[t].trans = all[t].trans
  <2>1. Covers(all[t].kernel, new[t].kernel)
    BY <1>2, <1>13, CoversMore
  <2>2. WellMade(P, all[t])
    BY DEF Automaton
  <2>3. CASE t = c
    BY <1>10, <1>11, <1>12, <2>1, <2>3
  <2>4. CASE t # c /\ t = s
    BY <1>4, <1>6, <1>11, <2>1, <2>4
  <2>5. CASE t # c /\ t # s
    BY <1>14, <2>1, <2>2, <2>5
  <2> QED
    BY <2>3, <2>4, <2>5
<1>16. Linked(P, all, new, c, x, s)
  BY <1>2, <1>10, <1>11, <1>12, <1>13, <1>15 DEF Linked
<1> QED
  BY <1>11, <1>13, <1>14, <1>16

LEMMA FindItemSetStep ==
  ASSUME Given, SetsSoFar, FindItemSet, UNCHANGED <<grammar, hashOrder>>
  PROVE  SetsSoFar'
<1> DEFINE P == grammar.prods
<1>1. /\ closing = NoState /\ current # NoState
      /\ UNCHANGED <<current, P>>
  BY DEF FindItemSet, Considering
<1>2. PICK i \in ItemsLeft :
        /\ i = Min(ItemsLeft)
        /\ LET x == SymbolAfterDot(AllItems(current)[i])
               kernel == MoveDot(current, x)
           IN  \E s \in SameKernel(kernel) :
                 LET merged == MergeLookaheads(sets[s].kernel, kernel)
                     changed == merged # sets[s].kernel
                     all == [sets EXCEPT ![s].kernel = merged]
                 IN  /\ sets' = [all EXCEPT ![current] = SetTransition(@, x, s)]
                     /\ mustCloseMyself' = (mustCloseMyself \/ (changed /\ s = current))
                     /\ IF changed /\ s # current
                        THEN BeginClosure(s, all[s])
                        ELSE NoClosure
                     /\ IF changed /\ BackToPending(s)
                        THEN done' = done \ {s} /\ pending' = Append(pending, s)
                        ELSE UNCHANGED <<done, pending>>
        /\ nextItem' = i + 1
  BY DEF FindItemSet
<1>3. PICK x, kernel :
        x = SymbolAfterDot(AllItems(current)[i]) /\ kernel = MoveDot(current, x)
  OBVIOUS
<1>4. PICK s \in SameKernel(kernel) :
        LET merged == MergeLookaheads(sets[s].kernel, kernel)
            changed == merged # sets[s].kernel
            all == [sets EXCEPT ![s].kernel = merged]
        IN  /\ sets' = [all EXCEPT ![current] = SetTransition(@, x, s)]
            /\ mustCloseMyself' = (mustCloseMyself \/ (changed /\ s = current))
            /\ IF changed /\ s # current
               THEN BeginClosure(s, all[s])
               ELSE NoClosure
            /\ IF changed /\ BackToPending(s)
               THEN done' = done \ {s} /\ pending' = Append(pending, s)
               ELSE UNCHANGED <<done, pending>>
  BY <1>2, <1>3
<1>5. PICK merged : merged = MergeLookaheads(sets[s].kernel, kernel)
  OBVIOUS
<1>6. PICK grown : grown = [sets[s] EXCEPT !.kernel = merged]
  OBVIOUS
<1>7. /\ sets' = WithFound(sets, current, x, s, merged)
      /\ mustCloseMyself' = (mustCloseMyself \/ (merged # sets[s].kernel /\ s = current))
      /\ merged # sets[s].kernel /\ s # current =>
           /\ closing' = s
           /\ work' = [finished |-> ToSymbolSet(grown.nonkernel), list |-> << >>,
                       kernel |-> grown.kernel]
      /\ ~ (merged # sets[s].kernel /\ s # current) => closing' = closing /\ work' = work
      /\ merged # sets[s].kernel /\ s \in done =>
           done' = done \ {s} /\ pending' = Append(pending, s)
      /\ ~ (merged # sets[s].kernel /\ s \in done) => done' = done /\ pending' = pending
  <2>1. s \in DOMAIN sets
    BY DEF SameKernel, SetsSoFar, Lined, StateIds, ToSymbolSet
  <2>2. [sets EXCEPT ![s].kernel = merged][s] = grown
    BY <1>6, <2>1
  <2> QED
    BY <1>4, <1>5, <2>2 DEF BeginClosure, NoClosure, BackToPending, WithFound
<1>8. nextItem' = i + 1
  BY <1>2
<1>9. /\ current \in DOMAIN sets /\ WellMade(P, sets[current])
      /\ i \in Int /\ i \in DOMAIN All(sets[current])
      /\ x = AfterDot(P, All(sets[current])[i]) /\ x \in CalledFor(P, sets[current])
      /\ \A j \in DOMAIN All(sets[current]) :
           j >= nextItem /\ ~ EndOf(P, All(sets[current])[j]) => i <= j
  <2>1. current \in DOMAIN sets /\ WellMade(P, sets[current])
    BY <1>1 DEF SetsSoFar, Lined, Automaton, StateIds
  <2> QED
    BY <1>1, <1>2, <1>3, <2>1, NextItemIs
<1>10. kernel = Moved(P, sets[current], x)
  BY <1>3, InTerms
<1>11. /\ s \in DOMAIN sets /\ Core(sets[s].kernel) = Core(kernel)
       /\ WellMade(P, sets[s])
       /\ s \in done \/ \E k \in DOMAIN pending : pending[k] = s
  <2>1. Core(sets[s].kernel) = Core(kernel) /\ (s \in ToSymbolSet(pending) \/ s \in done)
    BY DEF SameKernel
  <2>2. s \in done \/ \E k \in DOMAIN pending : pending[k] = s
    BY <2>1 DEF ToSymbolSet
  <2>3. s \in DOMAIN sets
    BY <2>2 DEF SetsSoFar, Lined, StateIds
  <2> QED
    BY <2>1, <2>2, <2>3 DEF SetsSoFar, Automaton
<1>12. /\ DOMAIN sets' = DOMAIN sets
       /\ Linked(P, sets, sets', current, x, s)
       /\ sets'[s].kernel = merged
       /\ \A t \in DOMAIN sets : t # s => sets'[t].kernel = sets[t].kernel
       /\ \A t \in DOMAIN sets :
            t # current /\ (t # s \/ merged = sets[s].kernel) => sets'[t] = sets[t]
  <2>1. PICK all, new : all = sets /\ new = sets'
    OBVIOUS
  <2>2. new = WithFound(all, current, x, s, merged)
    BY <1>7, <2>1
  <2>3. Automaton(P, all)
    BY <2>1 DEF SetsSoFar
  <2> QED
    BY <1>5, <1>9, <1>10, <1>11, <2>1, <2>2, <2>3, FoundIsLinked
<1>13. IsList(merged)
  BY <1>5, <1>11, Merged DEF WellMade
<1>14. WellMade(P, grown) /\ grown.kernel = merged /\ grown.nonkernel = sets[s].nonkernel
  BY <1>6, <1>11, <1>13, WithKernelIs
<1>15. Automaton(P, sets)'
  <2>1. ASSUME NEW t \in DOMAIN sets
        PROVE  /\ WellMade(P, sets'[t])
               /\ DOMAIN sets'[t].trans \subseteq CalledFor(P, sets'[t])
               /\ \A y \in DOMAIN sets'[t].trans : sets'[t].trans[y] \in DOMAIN sets'
    <3>1. WellMade(P, sets'[t])
      BY <1>12 DEF Linked
    <3> QED
      BY <1>12, <3>1, LinkedTransitions DEF SetsSoFar
  <2> QED
    BY <1>1, <1>12, <2>1 DEF SetsSoFar, Automaton
<1>16. /\ pending' \in Seq(DOMAIN sets)
       /\ \A k, j \in DOMAIN pending' : pending'[k] = pending'[j] => k = j
       /\ \A k \in DOMAIN pending' : pending'[k] \notin done'
  <2>1. PICK line : line = pending
    OBVIOUS
  <2>2. line \in Seq(DOMAIN sets) /\ (\A k, j \in DOMAIN line : line[k] = line[j] => k = j)
        /\ \A k \in DOMAIN line : line[k] \notin done
    BY <2>1 DEF SetsSoFar, Lined, StateIds
  <2>3. CASE ~ (merged # sets[s].kernel /\ s \in done)
    BY <1>7, <2>1, <2>2, <2>3
  <2>4. CASE merged # sets[s].kernel /\ s \in done
    <3>1. PICK m \in Nat : m = Len(line) /\ DOMAIN line = 1..m
      BY <2>2
    <3>2. PICK longer : longer = Append(line, s)
      OBVIOUS
    <3>3. longer \in Seq(DOMAIN sets) /\ DOMAIN longer = 1..(m + 1)
          /\ (\A k \in 1..m : longer[k] = line[k]) /\ longer[m + 1] = s
      BY <1>11, <2>2, <3>1, <3>2
    <3>4. \A k \in DOMAIN line : line[k] # s
      BY <2>2, <2>4
    <3>5. \A k \in 1..(m + 1) : k \in 1..m \/ k = m + 1
      OBVIOUS
    <3>6. \A k, j \in DOMAIN longer : longer[k] = longer[j] => k = j
      BY <2>2, <3>1, <3>3, <3>4, <3>5
    <3>7. \A k \in DOMAIN longer : longer[k] \notin done \ {s}
      BY <2>2, <3>1, <3>3, <3>5
    <3> QED
      BY <1>7, <2>1, <2>4, <3>2, <3>3, <3>6, <3>7
  <2> QED
    BY <2>3, <2>4
<1>17. /\ done' \subseteq done /\ (merged # sets[s].kernel => s \notin done')
  BY <1>7
<1>18. Lined'
  <2>1. done' \subseteq DOMAIN sets
    BY <1>17 DEF SetsSoFar, Lined, StateIds
  <2>2. closing' \in DOMAIN sets \cup {NoState} /\ closing' \notin done'
        /\ (closing' # NoState => closing' # current)
    <3>1. NoState \notin done
      BY NoStateIsNone DEF SetsSoFar, Lined, StateIds
    <3> QED
      BY <1>1, <1>7, <1>11, <1>17, <3>1
  <2>3. mustCloseMyself' => current \notin done'
    BY <1>1, <1>7, <1>17 DEF SetsSoFar, Lined
  <2> QED
    BY <1>1, <1>8, <1>9, <1>12, <1>16, <2>1, <2>2, <2>3 DEF Lined, StateIds
<1>19. UnderClosure'
  <2>1. CASE merged # sets[s].kernel /\ s # current
    <3>1. IsList(sets'[s].kernel) /\ sets'[s].nonkernel = sets[s].nonkernel
      BY <1>11, <1>12, <1>13 DEF Linked
    <3>2. work' = [finished |-> ToSymbolSet(sets'[s].nonkernel), list |-> << >>,
                   kernel |-> sets'[s].kernel]
      BY <1>7, <1>12, <1>14, <2>1, <3>1
    <3>3. GoodWork(P, sets'[s], work')
      BY <1>11, <3>1, <3>2, ClosureBegins
    <3> QED
      BY <1>1, <1>7, <2>1, <3>3 DEF UnderClosure
  <2>2. CASE ~ (merged # sets[s].kernel /\ s # current)
    BY <1>1, <1>7, <2>2 DEF UnderClosure
  <2> QED
    BY <2>1, <2>2
<1>20. DoneHandsOn'
  <2> SUFFICES ASSUME NEW t \in done', t # current PROVE HandsOn(P, sets', t)
    BY <1>1 DEF DoneHandsOn
  <2>1. t \in DOMAIN sets /\ HandsOn(P, sets, t)
    BY <1>17 DEF SetsSoFar, Lined, StateIds, DoneHandsOn
  <2>2. sets'[t] = sets[t]
    BY <1>12, <1>17, <2>1
  <2> QED
    BY <1>12, <2>1, <2>2, LinkedHandsOn DEF SetsSoFar
<1>21. CurrentHandsOn'
  <2> SUFFICES ASSUME current \in done' PROVE Considered(P, sets', current, i + 1)
    BY <1>1, <1>8 DEF CurrentHandsOn
  <2>1. Considered(P, sets, current, nextItem) /\ nextItem \in Int /\ Automaton(P, sets)
    BY <1>17 DEF SetsSoFar, CurrentHandsOn, Lined
  <2>2. sets'[current].kernel = sets[current].kernel
    BY <1>9, <1>12, <1>17
  <2> QED
    BY <1>9, <1>12, <2>1, <2>2, LinkedConsidered
<1> QED
  BY <1>15, <1>18, <1>19, <1>20, <1>21 DEF SetsSoFar

-----------------------------------------------------------------------------
(* The rest of the analysis comes before the item sets or after them.      *)
LEMMA InitSetsInv ==
  Init => SetsInv
<1> SUFFICES ASSUME Init PROVE SetsInv
  OBVIOUS
<1>1. /\ input \in Inputs /\ grammar = InitializeAuxData(input) /\ hashOrder \in HashOrders
      /\ sets = [s \in {} |-> NoState] /\ pending = << >> /\ done = {}
      /\ current = NoState /\ nextItem = 1 /\ mustCloseMyself = FALSE /\ closing = NoState
  BY DEF Init, FirstFollowInit, ItemSetsInit
<1>2. DOMAIN sets = {}
  BY <1>1
<1>3. Automaton(grammar.prods, sets)
  <2>1. 0 \in Nat /\ 0..(0 - 1) = {}
    OBVIOUS
  <2> QED
    BY <1>2, <2>1 DEF Automaton
<1>4. Lined
  BY <1>1, <1>2 DEF Lined, StateIds
<1> QED
  BY <1>1, <1>3, <1>4
     DEF SetsInv, Given, SetsSoFar, UnderClosure, DoneHandsOn, CurrentHandsOn

LEMMA LaterPhases ==
  /\ TablesNext => phase \notin Early /\ phase' \notin Early
  /\ RenumberStates => phase' \notin Early
  /\ SetsDone => phase' \notin Early
<1>1. SetsDone => phase' \notin Early
  BY DEF SetsDone, Early
<1>2. RenumberStates => phase' \notin Early
  BY DEF RenumberStates, Early
<1>3. TablesNext => phase \notin Early /\ phase' \notin Early
  BY DEF TablesNext, FillActionEntry, FillGotoRow, TablesFilled, ComputeErrorBits,
         MergeActionColumns, MergeActionRows, MergeGotoColumns, MergeGotoRows, Early
<1> QED
  BY <1>1, <1>2, <1>3
LEMMA SetsInvStep ==
  SetsInv /\ [Next]_vars => SetsInv'
<1> SUFFICES ASSUME SetsInv, [Next]_vars PROVE SetsInv'
  OBVIOUS
<1>1. CASE UNCHANGED vars
  BY <1>1 DEF vars, setsVars, SetsInv, Given, SetsSoFar, Lined, UnderClosure,
              DoneHandsOn, CurrentHandsOn, StateIds
<1>2. UNCHANGED <<input, grammar, hashOrder>>
  <2>1. CASE Derive \/ DeriveDone \/ Order \/ OrderDone \/ Terminated
    BY <2>1 DEF Derive, DeriveDone, Order, OrderDone, Terminated, vars
  <2>2. CASE ComputeFirstFollow
    BY <2>2 DEF ComputeFirstFollow, FirstFollowNext
  <2>3. CASE ConstructItemSets
    BY <2>3 DEF ConstructItemSets, ItemSetsNext
  <2>4. CASE ComputeParseTables
    BY <2>4 DEF ComputeParseTables, TablesNext
  <2> QED
    BY <1>1, <2>1, <2>2, <2>3, <2>4 DEF Next, vars
<1>3. Given /\ Given'
  BY <1>2 DEF SetsInv, Given
<1>4. (phase' \in Early => phase \in Early /\ UNCHANGED setsVars) => SetsInv'
  <2> SUFFICES ASSUME phase' \in Early, phase \in Early, UNCHANGED setsVars
               PROVE  SetsSoFar'
    BY <1>3 DEF SetsInv
  <2> QED
    BY <1>2 DEF setsVars, SetsInv, SetsSoFar, Lined, UnderClosure, DoneHandsOn,
                CurrentHandsOn, StateIds
<1>5. CASE Derive \/ DeriveDone \/ Order \/ OrderDone \/ Terminated
  <2>1. UNCHANGED setsVars /\ (phase' = phase \/ phase = "derive" \/ phase' = "errorBits")
    BY <1>5 DEF Derive, DeriveDone, Order, OrderDone, Terminated, vars
  <2> QED
    BY <1>4, <2>1 DEF Early
<1>6. CASE ComputeFirstFollow
  <2>1. UNCHANGED setsVars /\ phase \in {"first", "follow"}
    BY <1>6 DEF ComputeFirstFollow, FirstFollowNext, FirstOfProduction,
                FirstIterationDone, FollowOfSymbol, FollowProductionDone,
                FollowIterationDone
  <2> QED
    BY <1>4, <2>1 DEF Early
<1>7. CASE ComputeParseTables
  BY <1>4, <1>7, LaterPhases DEF ComputeParseTables
<1>8. CASE ConstructItemSets
  <2>1. \/ MakeStartState \/ PopItemSet \/ MakeItemSet \/ FindItemSet \/ ItemSetDone
        \/ SetsDone \/ CloseKernelItem \/ CloseItem \/ ClosureDone \/ RenumberStates
    BY <1>8 DEF ConstructItemSets, ItemSetsNext
  <2>2. CASE SetsDone \/ RenumberStates
    BY <1>4, <2>2, LaterPhases
  <2>3. CASE \/ MakeStartState \/ PopItemSet \/ MakeItemSet \/ FindItemSet \/ ItemSetDone
             \/ CloseKernelItem \/ CloseItem \/ ClosureDone
    <3>1. phase' = phase
      BY <2>3 DEF MakeStartState, PopItemSet, MakeItemSet, FindItemSet, ItemSetDone,
                  CloseKernelItem, CloseItem, ClosureDone
    <3>2. CASE phase \in Early
      <4>1. SetsSoFar
        BY <3>2 DEF SetsInv
      <4>2. SetsSoFar'
        BY <1>2, <1>3, <2>3, <4>1, MakeStartStateStep, PopItemSetStep, MakeItemSetStep,
           FindItemSetStep, ItemSetDoneStep, CloseItemsStep, ClosureDoneStep
      <4> QED
        BY <1>3, <4>2 DEF SetsInv
    <3>3. CASE phase \notin Early
      BY <1>4, <3>1, <3>3
    <3> QED
      BY <3>2, <3>3
  <2> QED
    BY <2>1, <2>2, <2>3
<1> QED
  BY <1>1, <1>5, <1>6, <1>7, <1>8 DEF Next

LEMMA SetsInvHandsOn ==
  SetsInv => DoneHasPropagated
<1> DEFINE P == grammar.prods
<1> SUFFICES ASSUME SetsInv, phase = "sets", current = NoState, NEW s \in done
             PROVE  /\ s \notin ToSymbolSet(pending)
                    /\ DOMAIN sets[s].trans = CalledFor(P, sets[s])
                    /\ \A x \in DOMAIN sets[s].trans :
                         Covers(Moved(P, sets[s], x), sets[sets[s].trans[x]].kernel)
  BY InTerms DEF DoneHasPropagated, Covers
<1>1. SetsSoFar
  BY DEF SetsInv, Early
<1>2. s \in DOMAIN sets /\ s # current
  BY <1>1, NoStateIsNone DEF SetsSoFar, Lined, StateIds
<1>3. s \notin ToSymbolSet(pending)
  BY <1>1 DEF SetsSoFar, Lined, ToSymbolSet
<1>4. HandsOn(P, sets, s)
  BY <1>1, <1>2 DEF SetsSoFar, DoneHandsOn
<1>5. DOMAIN sets[s].trans \subseteq CalledFor(P, sets[s])
  BY <1>1, <1>2 DEF SetsSoFar, Automaton
<1> QED
  BY <1>3, <1>4, <1>5 DEF HandsOn, Handed

(* Between two states of the stack, every state that is not on it has      *)
(* passed its lookahead on, for every grammar and whatever the order in    *)
(* which a hash table gives its items: a state that is done goes back on   *)
(* the stack when it gets more, and one that adds to its own lookahead is  *)
(* closed again.                                                           *)
THEOREM DoneAlwaysPropagated == Spec => []DoneHasPropagated
<1>1. Spec => []SetsInv
  BY InitSetsInv, SetsInvStep, PTL DEF Spec
<1> QED
  BY <1>1, SetsInvHandsOn, PTL

-----------------------------------------------------------------------------
(* What the items of a state are.                                          *)
ItemIn(g, it) ==
  /\ it.prod \in DOMAIN g.prods /\ it.dot \in 0..Len(g.prods[it.prod].rhs)
  /\ it.la \in SUBSET (0..(g.terms - 1)) /\ it.la \cap g.prods[it.prod].forbid = {}

\* No item twice, and none with the dot at the start but the first.
KernelIn(g, kernel) ==
  /\ IsList(kernel)
  /\ \A i \in DOMAIN kernel : ItemIn(g, kernel[i]) /\ (kernel[i].dot = 0 => kernel[i].prod = 1)
  /\ \A i, j \in DOMAIN kernel :
       kernel[i].prod = kernel[j].prod /\ kernel[i].dot = kernel[j].dot => i = j
NonkernelIn(g, items) ==
  \A it \in items : ItemIn(g, it) /\ it.prod # 1

\* All the dots are after x.
ArrivedBy(g, kernel, x) ==
  /\ DOMAIN kernel # {}
  /\ \A i \in DOMAIN kernel :
       /\ kernel[i].dot > 0 /\ kernel[i].dot \in DOMAIN g.prods[kernel[i].prod].rhs
       /\ g.prods[kernel[i].prod].rhs[kernel[i].dot] = x

SetIn(g, set) ==
  /\ WellMade(g.prods, set)
  /\ KernelIn(g, set.kernel) /\ NonkernelIn(g, ToSymbolSet(set.nonkernel))
SetsIn(g, all) ==
  /\ \E n \in Nat : DOMAIN all = 0..(n - 1)
  /\ \A s \in DOMAIN all :
       /\ SetIn(g, all[s])
       /\ \A x \in DOMAIN all[s].trans :
            all[s].trans[x] \in DOMAIN all /\ ArrivedBy(g, all[all[s].trans[x]].kernel, x)

LEMMA SameArrival ==
  ASSUME NEW g, NEW f, NEW h, Core(f) = Core(h), NEW x, ArrivedBy(g, f, x)
  PROVE  ArrivedBy(g, h, x)
<1>1. /\ DOMAIN f = DOMAIN h
      /\ \A i \in DOMAIN f : f[i].prod = h[i].prod /\ f[i].dot = h[i].dot
  BY SameCore
<1> QED
  BY <1>1 DEF ArrivedBy

LEMMA ItemsOfSet ==
  ASSUME NEW g, NEW set, SetIn(g, set)
  PROVE  /\ IsList(All(set)) /\ IsFiniteSet(ToSymbolSet(All(set)))
         /\ ToSymbolSet(All(set)) = ToSymbolSet(set.kernel) \cup ToSymbolSet(set.nonkernel)
         /\ \A it \in ToSymbolSet(All(set)) : ItemIn(g, it)
         /\ \A a, b \in ToSymbolSet(All(set)) : a.prod = b.prod /\ a.dot = b.dot => a = b
<1>1. IsList(set.kernel) /\ IsList(set.nonkernel)
  BY DEF SetIn, WellMade
<1>2. /\ IsList(All(set))
      /\ ToSymbolSet(All(set)) = ToSymbolSet(set.kernel) \cup ToSymbolSet(set.nonkernel)
  BY <1>1, Concatenated DEF All
<1>3. \A it \in ToSymbolSet(All(set)) : ItemIn(g, it)
  BY <1>2 DEF SetIn, KernelIn, NonkernelIn, ToSymbolSet
<1>4. \A a, b \in ToSymbolSet(set.kernel) : a.prod = b.prod /\ a.dot = b.dot => a = b
  BY DEF SetIn, KernelIn, ToSymbolSet
<1>5. \A a, b \in ToSymbolSet(set.nonkernel) : a.prod = b.prod => a = b
  BY DEF SetIn, WellMade
<1>6. \A a \in ToSymbolSet(set.kernel), b \in ToSymbolSet(set.nonkernel) :
        ~ (a.prod = b.prod /\ a.dot = b.dot)
  <2>1. \A a \in ToSymbolSet(set.kernel) : a.dot = 0 => a.prod = 1
    BY DEF SetIn, KernelIn, ToSymbolSet
  <2>2. \A b \in ToSymbolSet(set.nonkernel) : b.dot = 0 /\ b.prod # 1
    BY DEF SetIn, WellMade, NonkernelIn
  <2> QED
    BY <2>1, <2>2
<1> QED
  BY <1>2, <1>3, <1>4, <1>5, <1>6, ListIsFinite

ItemOrder(S) == {e \in S \X S : ItemBefore(e[1], e[2])}

LEMMA ItemsOrdered ==
  ASSUME NEW S, \A a \in S : a.prod \in Int /\ a.dot \in Int,
         \A a, b \in S : a.prod = b.prod /\ a.dot = b.dot => a = b
  PROVE  TotalOrder(ItemOrder(S), S)
<1>1. PICK R : R = ItemOrder(S)
  OBVIOUS
<1>2. \A a, b \in S : <<a, b>> \in R <=> ItemBefore(a, b)
  <2> TAKE a \in S, b \in S
  <2>1. <<a, b>> \in S \X S /\ <<a, b>>[1] = a /\ <<a, b>>[2] = b
    OBVIOUS
  <2> QED
    BY <1>1, <2>1 DEF ItemOrder
<1>3. \A a \in S : <<a, a>> \notin R
  BY <1>2 DEF ItemBefore
<1>4. ASSUME NEW a \in S, NEW b \in S, a # b
      PROVE  <<a, b>> \in R \/ <<b, a>> \in R
  <2>1. PICK ap \in Int, ad \in Int, bp \in Int, bd \in Int :
          ap = a.prod /\ ad = a.dot /\ bp = b.prod /\ bd = b.dot
    OBVIOUS
  <2>2. ap # bp \/ ad # bd
    BY <1>4, <2>1
  <2>3. (ap < bp \/ (ap = bp /\ ad < bd)) \/ (bp < ap \/ (bp = ap /\ bd < ad))
    BY <2>2
  <2>4. ItemBefore(a, b) \/ ItemBefore(b, a)
    BY <2>1, <2>3 DEF ItemBefore
  <2> QED
    BY <1>2, <2>4
<1>5. ASSUME NEW a \in S, NEW b \in S, NEW c \in S, <<a, b>> \in R, <<b, c>> \in R
      PROVE  <<a, c>> \in R
  <2>1. ItemBefore(a, b) /\ ItemBefore(b, c)
    BY <1>2, <1>5
  <2>2. PICK ap \in Int, ad \in Int, bp \in Int, bd \in Int, cp \in Int, cd \in Int :
          ap = a.prod /\ ad = a.dot /\ bp = b.prod /\ bd = b.dot /\ cp = c.prod /\ cd = c.dot
    OBVIOUS
  <2>3. (ap < bp \/ (ap = bp /\ ad < bd)) /\ (bp < cp \/ (bp = cp /\ bd < cd))
    BY <2>1, <2>2 DEF ItemBefore
  <2>4. ap < cp \/ (ap = cp /\ ad < cd)
    BY <2>3
  <2>5. ItemBefore(a, c)
    BY <2>2, <2>4 DEF ItemBefore
  <2> QED
    BY <1>2, <2>5
<1> QED
  BY <1>1, <1>3, <1>4, <1>5 DEF TotalOrder

LEMMA MovedIs ==
  ASSUME NEW g, SoundGrammar(g), NEW set, SetIn(g, set), NEW x
  PROVE  /\ IsList(Moved(g.prods, set, x))
         /\ ToSymbolSet(Moved(g.prods, set, x)) = WithDotMoved(g.prods, set, x)
         /\ \A i, j \in DOMAIN Moved(g.prods, set, x) :
              Moved(g.prods, set, x)[i] = Moved(g.prods, set, x)[j] => i = j
         /\ \A i \in DOMAIN Moved(g.prods, set, x) :
              Cardinality({b \in WithDotMoved(g.prods, set, x) :
                             ItemBefore(b, Moved(g.prods, set, x)[i])}) = i - 1
<1>1. PICK S : S = WithDotMoved(g.prods, set, x)
  OBVIOUS
<1>2. DOMAIN g.prods \in SUBSET Int
  BY ListLength DEF SoundGrammar
<1>3. \A a \in S : \E it \in ToSymbolSet(All(set)) : a = Item(it.prod, it.dot + 1, it.la)
  BY <1>1 DEF WithDotMoved
<1>4. \A it \in ToSymbolSet(All(set)) : it.prod \in Int /\ it.dot \in Int
  BY <1>2, ItemsOfSet DEF ItemIn
<1>5. ASSUME NEW a \in S, NEW b \in S
      PROVE  a.prod \in Int /\ a.dot \in Int /\ (a.prod = b.prod /\ a.dot = b.dot => a = b)
  <2>1. PICK c \in ToSymbolSet(All(set)), d \in ToSymbolSet(All(set)) :
          a = Item(c.prod, c.dot + 1, c.la) /\ b = Item(d.prod, d.dot + 1, d.la)
    BY <1>3
  <2>2. /\ a.prod = c.prod /\ a.dot = c.dot + 1 /\ b.prod = d.prod /\ b.dot = d.dot + 1
    BY <2>1 DEF Item
  <2>3. /\ c.prod \in Int /\ c.dot \in Int /\ d.dot \in Int
    BY <1>4
  <2>4. c.prod = d.prod /\ c.dot = d.dot => c = d
    BY ItemsOfSet
  <2> QED
    BY <2>1, <2>2, <2>3, <2>4
<1>6. TotalOrder(ItemOrder(S), S)
  BY <1>5, ItemsOrdered
<1>7. IsFiniteSet(S)
  <2> DEFINE T == {a \in ToSymbolSet(All(set)) :
                     ~ EndOf(g.prods, a) /\ AfterDot(g.prods, a) = x}
             f == [it \in T |-> Item(it.prod, it.dot + 1, it.la)]
  <2>1. IsFiniteSet(T)
    <3>1. T \in SUBSET ToSymbolSet(All(set))
      OBVIOUS
    <3> QED
      BY <3>1, ItemsOfSet, FS_Subset
  <2>2. {f[it] : it \in T} = S
    BY <1>1 DEF WithDotMoved
  <2>3. T = DOMAIN f
    OBVIOUS
  <2> HIDE DEF T, f
  <2> QED
    BY <2>1, <2>2, <2>3, FiniteImage
<1>8. PICK R : R = ItemOrder(S)
  OBVIOUS
<1>9. \A a \in S : Behind(R, S, a) = {b \in S : ItemBefore(b, a)}
  <2> TAKE a \in S
  <2>1. \A b \in S : <<b, a>> \in R <=> ItemBefore(b, a)
    <3> TAKE b \in S
    <3>1. <<b, a>> \in S \X S /\ <<b, a>>[1] = b /\ <<b, a>>[2] = a
      OBVIOUS
    <3> QED
      BY <1>8, <3>1 DEF ItemOrder
  <2> QED
    BY <2>1 DEF Behind
<1>10. PICK r : r = Moved(g.prods, set, x)
  OBVIOUS
<1>11. r = [i \in 1..Cardinality(S) |-> NthItem(S, i)]
  BY <1>1, <1>10 DEF Moved, InOrder, NthItem
<1>12. InOrderOf(r, S, R)
  <2>1. r = [i \in 1..Cardinality(S) |-> r[i]] /\ \A i \in 1..Cardinality(S) : r[i] = NthItem(S, i)
    BY <1>11
  <2>2. ASSUME NEW i \in 1..Cardinality(S), NEW a \in S, Cardinality(Behind(R, S, a)) = i - 1
        PROVE  r[i] \in S /\ Cardinality(Behind(R, S, r[i])) = i - 1
    <3>1. Cardinality({b \in S : ItemBefore(b, a)}) = i - 1
      BY <1>9, <2>2
    <3>2. NthItem(S, i) \in S /\ Cardinality({b \in S : ItemBefore(b, NthItem(S, i))}) = i - 1
      BY <3>1 DEF NthItem
    <3> QED
      BY <1>9, <2>1, <3>2
  <2> QED
    BY <2>1, <2>2 DEF InOrderOf
<1>13. PICK n \in Nat : n = Cardinality(S)
  BY <1>7, FS_CardinalityType
<1>14. /\ ToSymbolSet(r) = S /\ DOMAIN r = 1..n
       /\ \A i, j \in DOMAIN r : r[i] = r[j] => i = j
  BY <1>6, <1>7, <1>8, <1>12, <1>13, OrderListed
<1>15. IsList(r)
  <2>1. r = [i \in 1..n |-> r[i]]
    BY <1>11, <1>13
  <2> QED
    BY <2>1, IsAList
<1>16. \A i \in DOMAIN r : Cardinality({b \in S : ItemBefore(b, r[i])}) = i - 1
  <2>1. \A i \in DOMAIN r : Cardinality(Behind(R, S, r[i])) = i - 1 /\ r[i] \in S
    BY <1>6, <1>7, <1>8, <1>12, <1>14, OrderListed DEF ToSymbolSet
  <2> QED
    BY <1>9, <2>1
<1> QED
  BY <1>1, <1>10, <1>14, <1>15, <1>16

LEMMA MovedArrives ==
  ASSUME NEW g, SoundGrammar(g), NEW set, SetIn(g, set), NEW x
  PROVE  /\ KernelIn(g, Moved(g.prods, set, x))
         /\ x \in CalledFor(g.prods, set) => ArrivedBy(g, Moved(g.prods, set, x), x)
<1>1. PICK r : r = Moved(g.prods, set, x)
  OBVIOUS
<1>2. /\ IsList(r) /\ ToSymbolSet(r) = WithDotMoved(g.prods, set, x)
      /\ \A i, j \in DOMAIN r : r[i] = r[j] => i = j
  BY <1>1, MovedIs
<1>3. ASSUME NEW i \in DOMAIN r
      PROVE  \E it \in ToSymbolSet(All(set)) :
               /\ ItemIn(g, it) /\ ~ EndOf(g.prods, it) /\ AfterDot(g.prods, it) = x
               /\ r[i] = Item(it.prod, it.dot + 1, it.la)
  <2>1. r[i] \in WithDotMoved(g.prods, set, x)
    BY <1>2 DEF ToSymbolSet
  <2> QED
    BY <2>1, ItemsOfSet DEF WithDotMoved
<1>4. ASSUME NEW i \in DOMAIN r
      PROVE  /\ ItemIn(g, r[i]) /\ r[i].dot > 0
             /\ r[i].dot \in DOMAIN g.prods[r[i].prod].rhs
             /\ g.prods[r[i].prod].rhs[r[i].dot] = x
  <2>1. PICK it \in ToSymbolSet(All(set)) :
          /\ ItemIn(g, it) /\ ~ EndOf(g.prods, it) /\ AfterDot(g.prods, it) = x
          /\ r[i] = Item(it.prod, it.dot + 1, it.la)
    BY <1>3
  <2>2. r[i].prod = it.prod /\ r[i].dot = it.dot + 1 /\ r[i].la = it.la
    BY <2>1 DEF Item
  <2>3. PICK n \in Nat : n = Len(g.prods[it.prod].rhs) /\ DOMAIN g.prods[it.prod].rhs = 1..n
    BY <2>1, ListLength DEF ItemIn, SoundGrammar
  <2>4. it.dot \in 0..n /\ it.dot # n
    BY <2>1, <2>3 DEF ItemIn, EndOf
  <2>5. it.dot + 1 \in 1..n /\ it.dot + 1 \in 0..n
    BY <2>4
  <2> QED
    BY <2>1, <2>2, <2>3, <2>5 DEF ItemIn, AfterDot
<1>5. ASSUME NEW i \in DOMAIN r, NEW j \in DOMAIN r, r[i].prod = r[j].prod, r[i].dot = r[j].dot
      PROVE  i = j
  <2>1. PICK a \in ToSymbolSet(All(set)) : ItemIn(g, a) /\ r[i] = Item(a.prod, a.dot + 1, a.la)
    BY <1>3
  <2>2. PICK b \in ToSymbolSet(All(set)) : ItemIn(g, b) /\ r[j] = Item(b.prod, b.dot + 1, b.la)
    BY <1>3
  <2>3. a.prod = b.prod /\ a.dot + 1 = b.dot + 1 /\ a.dot \in Int /\ b.dot \in Int
    BY <1>5, <2>1, <2>2 DEF Item, ItemIn
  <2>4. a = b
    BY <2>3, ItemsOfSet
  <2> QED
    BY <1>2, <2>1, <2>2, <2>4
<1>6. KernelIn(g, r)
  <2>1. \A i \in DOMAIN r : r[i].dot # 0
    BY <1>4 DEF ItemIn
  <2> QED
    BY <1>2, <1>4, <1>5, <2>1 DEF KernelIn
<1>7. ASSUME x \in CalledFor(g.prods, set) PROVE DOMAIN r # {}
  <2>1. PICK it \in ToSymbolSet(All(set)) : ~ EndOf(g.prods, it) /\ AfterDot(g.prods, it) = x
    BY <1>7 DEF CalledFor
  <2>2. Item(it.prod, it.dot + 1, it.la) \in WithDotMoved(g.prods, set, x)
    BY <2>1 DEF WithDotMoved
  <2> QED
    BY <1>2, <2>2 DEF ToSymbolSet
<1> QED
  BY <1>1, <1>4, <1>6, <1>7 DEF ArrivedBy

(* The lookahead of one kernel is added to that of another one.            *)
LEMMA MergedIn ==
  ASSUME NEW g, NEW old, KernelIn(g, old), NEW more, KernelIn(g, more), Core(old) = Core(more)
  PROVE  KernelIn(g, MergeLookaheads(old, more))
<1>1. PICK m : m = MergeLookaheads(old, more)
  OBVIOUS
<1>2. IsList(m) /\ Core(old) = Core(m)
  BY <1>1, Merged DEF KernelIn, Covers
<1>3. /\ DOMAIN m = DOMAIN old /\ DOMAIN more = DOMAIN old
      /\ \A i \in DOMAIN old : /\ m[i].prod = old[i].prod /\ m[i].dot = old[i].dot
                               /\ more[i].prod = old[i].prod
  BY <1>2, SameCore
<1>4. \A i \in DOMAIN old : m[i].la = old[i].la \cup more[i].la
  BY <1>1 DEF MergeLookaheads, Item
<1>5. \A i \in DOMAIN old : ItemIn(g, m[i])
  <2> TAKE i \in DOMAIN old
  <2>1. ItemIn(g, old[i]) /\ ItemIn(g, more[i])
    BY <1>3 DEF KernelIn
  <2> QED
    BY <1>3, <1>4, <2>1 DEF ItemIn
<1> QED
  BY <1>1, <1>2, <1>3, <1>5 DEF KernelIn

(* A transition more, to a state that is new or was there.                 *)
LEMMA LinkedIn ==
  ASSUME NEW g, SoundGrammar(g), NEW all, SetsIn(g, all), NEW new, NEW c, NEW x, NEW s,
         Linked(g.prods, all, new, c, x, s),
         \E n \in Nat : DOMAIN new = 0..(n - 1),
         \A t \in DOMAIN all : KernelIn(g, new[t].kernel),
         \A t \in DOMAIN new : t \notin DOMAIN all => SetIn(g, new[t]) /\ DOMAIN new[t].trans = {}
  PROVE  SetsIn(g, new)
<1>1. /\ c \in DOMAIN all /\ s \in DOMAIN new /\ x \in CalledFor(g.prods, all[c])
      /\ \A t \in DOMAIN all :
           /\ t \in DOMAIN new /\ WellMade(g.prods, new[t])
           /\ new[t].nonkernel = all[t].nonkernel
           /\ Covers(all[t].kernel, new[t].kernel)
           /\ t # c => new[t].trans = all[t].trans
      /\ new[c].trans = [y \in DOMAIN all[c].trans \cup {x} |->
                           IF y = x THEN s ELSE all[c].trans[y]]
      /\ Covers(Moved(g.prods, all[c], x), new[s].kernel)
  BY DEF Linked
<1>2. ASSUME NEW t \in DOMAIN all PROVE SetIn(g, new[t])
  <2>1. KernelIn(g, new[t].kernel) /\ WellMade(g.prods, new[t])
    BY <1>1
  <2>2. NonkernelIn(g, ToSymbolSet(all[t].nonkernel)) /\ new[t].nonkernel = all[t].nonkernel
    BY <1>1 DEF SetsIn, SetIn
  <2> QED
    BY <2>1, <2>2 DEF SetIn
<1>3. ASSUME NEW t \in DOMAIN all, NEW y \in DOMAIN all[t].trans
      PROVE  all[t].trans[y] \in DOMAIN new /\ ArrivedBy(g, new[all[t].trans[y]].kernel, y)
  <2>1. PICK u \in DOMAIN all : u = all[t].trans[y] /\ ArrivedBy(g, all[u].kernel, y)
    BY <1>3 DEF SetsIn
  <2>2. Core(all[u].kernel) = Core(new[u].kernel) /\ u \in DOMAIN new
    BY <1>1 DEF Covers
  <2> QED
    BY <2>1, <2>2, SameArrival
<1>4. ArrivedBy(g, new[s].kernel, x)
  <2>1. ArrivedBy(g, Moved(g.prods, all[c], x), x)
    BY <1>1, MovedArrives DEF SetsIn
  <2> QED
    BY <1>1, <2>1, SameArrival DEF Covers
<1>5. ASSUME NEW t \in DOMAIN new, NEW y \in DOMAIN new[t].trans
      PROVE  new[t].trans[y] \in DOMAIN new /\ ArrivedBy(g, new[new[t].trans[y]].kernel, y)
  <2>1. t \in DOMAIN all
    BY <1>5
  <2>2. CASE t # c
    BY <1>1, <1>3, <1>5, <2>1, <2>2
  <2>3. CASE t = c
    <3>1. CASE y = x
      BY <1>1, <1>4, <1>5, <2>3, <3>1
    <3>2. CASE y # x
      <4>1. y \in DOMAIN all[c].trans /\ new[c].trans[y] = all[c].trans[y]
        BY <1>1, <1>5, <2>3, <3>2
      <4> QED
        BY <1>3, <2>1, <2>3, <4>1
    <3> QED
      BY <3>1, <3>2
  <2> QED
    BY <2>2, <2>3
<1> QED
  BY <1>2, <1>5 DEF SetsIn

-----------------------------------------------------------------------------
(* What First, Follow and the lookahead are made of are terminals.         *)
FirstTyped == first \in [Nonterms -> SUBSET Terms]
FollowTyped == follow \in [Nonterms -> SUBSET Terms]

LEMMA GivenIsSound ==
  Given => SoundGrammar(grammar)
BY GrammarIsSound, InputsAssumption DEF Given

LEMMA FirstOfSequenceIn ==
  ASSUME FirstTyped, NEW seq,
         \A i \in DOMAIN seq : SymbolIn(grammar.terms, grammar.nonterms, seq[i])
  PROVE  FirstOfSequence(seq) \subseteq Terms
<1>1. ASSUME NEW i \in DOMAIN seq PROVE FirstOfSymbol(seq[i]) \subseteq Terms
  <2>1. CASE IsTerminal(seq[i])
    BY <1>1, <2>1 DEF FirstOfSymbol, SymbolIn, Terms
  <2>2. CASE ~ IsTerminal(seq[i])
    <3>1. NtIndex(seq[i]) \in 1..(grammar.nonterms - 1)
      BY <1>1, <2>2 DEF SymbolIn
    <3>2. NtIndex(seq[i]) \in Nonterms
      BY <3>1 DEF Nonterms
    <3> QED
      BY <2>2, <3>2 DEF FirstOfSymbol, FirstTyped
  <2> QED
    BY <2>1, <2>2
<1> QED
  BY <1>1 DEF FirstOfSequence

LEMMA AfterIn ==
  ASSUME SoundGrammar(grammar), NEW p \in Prods, NEW dot \in 0..Len(Rhs(p))
  PROVE  \A i \in DOMAIN After(p, dot) :
           SymbolIn(grammar.terms, grammar.nonterms, After(p, dot)[i])
<1>1. PICK r : r = Rhs(p)
  OBVIOUS
<1>2. IsList(r) /\ \A i \in DOMAIN r : SymbolIn(grammar.terms, grammar.nonterms, r[i])
  BY <1>1 DEF SoundGrammar, Rhs, Prods
<1>3. PICK n \in Nat : n = Len(r) /\ DOMAIN r = 1..n
  BY <1>2, ListLength
<1>4. dot \in 0..n
  BY <1>1, <1>3
<1>5. After(p, dot) = [i \in 1..(n - (dot + 1) + 1) |-> r[(dot + 1) + i - 1]]
  BY <1>1, <1>3, <1>4, Z3 DEF After
<1>6. DOMAIN After(p, dot) = 1..(n - (dot + 1) + 1)
  BY <1>5
<1> QED
  <2> TAKE i \in DOMAIN After(p, dot)
  <2>1. i \in 1..(n - (dot + 1) + 1)
    BY <1>6
  <2>2. (dot + 1) + i - 1 \in 1..n
    BY <1>4, <2>1
  <2>3. After(p, dot)[i] = r[(dot + 1) + i - 1]
    BY <1>5, <2>1
  <2> QED
    BY <1>2, <1>3, <2>2, <2>3

LEMMA LookaheadIn ==
  ASSUME SoundGrammar(grammar), FirstTyped, NEW item, ItemIn(grammar, item), ~ DotAtEnd(item),
         NEW p
  PROVE  /\ NewItemLookahead(item, p) \in SUBSET Terms
         /\ NewItemLookahead(item, p) \cap grammar.prods[p].forbid = {}
<1>1. item.prod \in Prods /\ item.dot + 1 \in 0..Len(Rhs(item.prod)) /\ item.la \in SUBSET Terms
  <2>1. item.prod \in Prods /\ item.dot \in 0..Len(Rhs(item.prod)) /\ item.la \in SUBSET Terms
    BY DEF ItemIn, Prods, Rhs, Terms
  <2>2. PICK n \in Nat : n = Len(Rhs(item.prod))
    BY <2>1, ListLength DEF SoundGrammar, Prods, Rhs
  <2>3. item.dot \in 0..n /\ item.dot # n
    BY <2>1, <2>2 DEF DotAtEnd
  <2> QED
    BY <2>1, <2>2, <2>3
<1>2. FirstOfSequence(After(item.prod, item.dot + 1)) \subseteq Terms
  BY <1>1, AfterIn, FirstOfSequenceIn
<1> QED
  BY <1>1, <1>2 DEF NewItemLookahead

LEMMA CalledNotFirst ==
  ASSUME SoundGrammar(grammar), NEW item, ItemIn(grammar, item), ~ DotAtEnd(item),
         ~ IsTerminal(SymbolAfterDot(item)),
         NEW p \in Prods, Lhs(p) = NtIndex(SymbolAfterDot(item))
  PROVE  p # 1
<1>1. PICK r : r = Rhs(item.prod)
  OBVIOUS
<1>2. IsList(r) /\ \A i \in DOMAIN r : SymbolIn(grammar.terms, grammar.nonterms, r[i])
  BY <1>1 DEF SoundGrammar, Rhs, ItemIn
<1>3. PICK n \in Nat : n = Len(r) /\ DOMAIN r = 1..n
  BY <1>2, ListLength
<1>4. item.dot \in 0..n /\ item.dot # n
  BY <1>1, <1>3 DEF ItemIn, Rhs, DotAtEnd
<1>5. item.dot + 1 \in 1..n
  BY <1>4
<1>6. SymbolIn(grammar.terms, grammar.nonterms, SymbolAfterDot(item))
  BY <1>1, <1>2, <1>3, <1>5 DEF SymbolAfterDot
<1>7. Lhs(p) \in 1..(grammar.nonterms - 1)
  BY <1>6 DEF SymbolIn
<1> QED
  BY <1>7 DEF SoundGrammar, Lhs, Prods

WorkIn(g, w) ==
  /\ NonkernelIn(g, w.finished \cup ToSymbolSet(w.list))
  /\ \A i \in DOMAIN w.kernel : ItemIn(g, w.kernel[i])

LEMMA SingleItemIn ==
  ASSUME SoundGrammar(grammar), FirstTyped, NEW set, NEW w, GoodWork(grammar.prods, set, w),
         WorkIn(grammar, w), NEW item, ItemIn(grammar, item)
  PROVE  WorkIn(grammar, SingleItemClosure(w, item))
<1>1. CASE DotAtEnd(item) \/ IsTerminal(SymbolAfterDot(item))
  BY <1>1 DEF SingleItemClosure
<1>2. CASE ~ (DotAtEnd(item) \/ IsTerminal(SymbolAfterDot(item)))
  <2> DEFINE called == {p \in Prods : Lhs(p) = NtIndex(SymbolAfterDot(item))}
             la(p) == NewItemLookahead(item, p)
             finished(p) == {it \in w.finished : it.prod = p}
             listed == {w.list[i].prod : i \in DOMAIN w.list}
             queued == {p \in called \ listed :
                          ~ \E it \in finished(p) : la(p) \subseteq it.la}
             new == [i \in 1..Cardinality(queued) |-> NumberAt(queued, i)]
             before == [i \in DOMAIN w.list |->
                          IF w.list[i].prod \in called
                          THEN Item(w.list[i].prod, 0, w.list[i].la \cup la(w.list[i].prod))
                          ELSE w.list[i]]
             after == [i \in DOMAIN new |->
                         Item(new[i], 0, la(new[i]) \cup
                               UNION {it.la : it \in finished(new[i])})]
             kept == {it \in w.finished : it.prod \notin queued}
  <2>1. SingleItemClosure(w, item) = [w EXCEPT !.finished = kept, !.list = before \o after]
    BY <1>2 DEF SingleItemClosure, InOrder, NumberAt
  <2>2. PICK q, n, b, a, k : q = queued /\ n = new /\ b = before /\ a = after /\ k = kept
    OBVIOUS
  <2>3. ASSUME NEW p \in called
        PROVE  /\ p \in Prods /\ p # 1 /\ la(p) \in SUBSET Terms
               /\ la(p) \cap grammar.prods[p].forbid = {}
               /\ 0 \in 0..Len(grammar.prods[p].rhs)
    <3>1. p \in Prods /\ p # 1
      BY <1>2, <2>3, CalledNotFirst
    <3>2. Len(grammar.prods[p].rhs) \in Nat
      BY <3>1, ListLength DEF SoundGrammar, Prods
    <3> QED
      BY <1>2, <3>1, <3>2, LookaheadIn
  <2>4. \A it \in w.finished : ItemIn(grammar, it) /\ it.prod # 1
    BY DEF WorkIn, NonkernelIn
  <2>5. \A i \in DOMAIN w.list : ItemIn(grammar, w.list[i]) /\ w.list[i].prod # 1
    BY DEF WorkIn, NonkernelIn, ToSymbolSet
  <2>6. ASSUME NEW i \in DOMAIN w.list PROVE ItemIn(grammar, b[i]) /\ b[i].prod # 1
    <3>1. CASE w.list[i].prod \in called
      <4>1. b[i] = Item(w.list[i].prod, 0, w.list[i].la \cup la(w.list[i].prod))
        BY <2>2, <3>1, <2>6
      <4>2. /\ b[i].prod = w.list[i].prod /\ b[i].dot = 0
            /\ b[i].la = w.list[i].la \cup la(w.list[i].prod)
        BY <4>1 DEF Item
      <4> HIDE DEF called, la
      <4> QED
        BY <2>3, <2>5, <2>6, <3>1, <4>2 DEF ItemIn, Terms
    <3>2. CASE w.list[i].prod \notin called
      <4>1. b[i] = w.list[i]
        BY <2>2, <2>6, <3>2
      <4> QED
        BY <2>5, <2>6, <4>1
    <3> QED
      BY <3>1, <3>2
  <2>7. q \subseteq called /\ q \in SUBSET Int /\ IsFiniteSet(q)
    <3>1. q \in SUBSET Prods
      BY <2>2
    <3>2. Prods \in SUBSET Int /\ IsFiniteSet(Prods)
      <4>1. PICK m \in Nat : Prods = 1..m
        BY ListLength DEF SoundGrammar, Prods
      <4> QED
        BY <4>1, FS_Interval
    <3>3. IsFiniteSet(q)
      BY ONLY <3>1, <3>2, FS_Subset
    <3>4. q \subseteq called
      BY <2>2
    <3> QED
      BY ONLY <3>1, <3>2, <3>3, <3>4
  <2>8. DOMAIN n = 1..Cardinality(q) /\ ToSymbolSet(n) = q
    <3>1. n = [i \in 1..Cardinality(q) |-> NumberAt(q, i)]
      BY <2>2
    <3> QED
      BY ONLY <2>7, <3>1, NumbersListed
  <2>9. ASSUME NEW i \in DOMAIN n PROVE ItemIn(grammar, a[i]) /\ a[i].prod # 1
    <3>1. n[i] \in called
      BY <2>7, <2>8, <2>9 DEF ToSymbolSet
    <3>2. a[i] = Item(n[i], 0, la(n[i]) \cup UNION {it.la : it \in finished(n[i])})
      BY <2>2, <2>9
    <3>3. PICK L : L = UNION {it.la : it \in finished(n[i])}
      OBVIOUS
    <3>4. L \in SUBSET Terms /\ L \cap grammar.prods[n[i]].forbid = {}
      <4>1. \A it \in finished(n[i]) : it.la \in SUBSET Terms
                                       /\ it.la \cap grammar.prods[n[i]].forbid = {}
        BY <2>4 DEF ItemIn, Terms
      <4> QED
        BY <3>3, <4>1
    <3>5. a[i].prod = n[i] /\ a[i].dot = 0 /\ a[i].la = la(n[i]) \cup L
      BY <3>2, <3>3 DEF Item
    <3> HIDE DEF called, la, finished
    <3> QED
      BY <2>3, <3>1, <3>4, <3>5 DEF ItemIn, Prods, Terms
  <2>10. /\ IsList(b) /\ DOMAIN b = DOMAIN w.list
    <3>1. PICK m \in Nat : DOMAIN w.list = 1..m
      BY ListLength DEF GoodWork
    <3>2. b = [i \in 1..m |-> b[i]]
      BY <2>2, <3>1
    <3> QED
      BY <3>1, <3>2, IsAList
  <2>11. IsList(a) /\ DOMAIN a = DOMAIN n
    <3>1. PICK m \in Nat : DOMAIN n = 1..m
      BY <2>7, <2>8, FS_CardinalityType
    <3>2. a = [i \in 1..m |-> a[i]]
      BY <2>2, <3>1
    <3> QED
      BY <3>1, <3>2, IsAList
  <2>12. ToSymbolSet(b \o a) = ToSymbolSet(b) \cup ToSymbolSet(a)
    BY <2>10, <2>11, Concatenated
  <2>13. /\ SingleItemClosure(w, item).finished = k
         /\ SingleItemClosure(w, item).list = b \o a
         /\ SingleItemClosure(w, item).kernel = w.kernel
    <3>1. SingleItemClosure(w, item) = [finished |-> k, list |-> b \o a, kernel |-> w.kernel]
      BY <2>1, <2>2 DEF GoodWork
    <3> QED
      BY <3>1
  <2>14. k \subseteq w.finished
    BY <2>2
  <2> HIDE DEF queued, new, before, after, kept, called, la, finished, listed
  <2>15. \A it \in ToSymbolSet(b) \cup ToSymbolSet(a) : ItemIn(grammar, it) /\ it.prod # 1
    BY <2>6, <2>9, <2>10, <2>11 DEF ToSymbolSet
  <2> QED
    BY <2>4, <2>12, <2>13, <2>14, <2>15 DEF WorkIn, NonkernelIn
<1> QED
  BY <1>1, <1>2

-----------------------------------------------------------------------------
(* The types of what the iterations and the closure work on.               *)
UnderClosureIn == phase \in Early /\ closing # NoState => WorkIn(grammar, work)
Typed == FirstTyped /\ FollowTyped /\ SetsIn(grammar, sets) /\ UnderClosureIn

LEMMA FirstFollowStep ==
  ASSUME Given, Typed, FirstFollowNext, UNCHANGED setsVars
  PROVE  Typed'
<1>1. SoundGrammar(grammar) /\ grammar' = grammar
  BY GivenIsSound DEF FirstFollowNext
<1>2. Terms' = Terms /\ Nonterms' = Nonterms
  BY <1>1 DEF Terms, Nonterms
<1>3. \A p \in Prods : Lhs(p) \in Nonterms
  BY <1>1 DEF SoundGrammar, Prods, Lhs, Nonterms
<1>4. phase' \in Early => phase \in Early
  BY DEF FirstFollowNext, FirstOfProduction, FirstIterationDone, FollowOfSymbol,
         FollowProductionDone, FollowIterationDone, Early
<1>5. SetsIn(grammar, sets)' /\ UnderClosureIn'
  BY <1>1, <1>4 DEF Typed, setsVars, UnderClosureIn
<1>6. CASE FirstIterationDone \/ FollowProductionDone \/ FollowIterationDone
  BY <1>2, <1>5, <1>6 DEF Typed, FirstTyped, FollowTyped, FirstIterationDone,
                          FollowProductionDone, FollowIterationDone
<1>7. CASE FirstOfProduction
  <2>1. PICK new : new = FirstOfSequence(Rhs(nextProd))
    OBVIOUS
  <2>2. /\ nextProd \in Prods /\ follow' = follow
        /\ first' = [first EXCEPT ![Lhs(nextProd)] = @ \cup new]
    BY <1>7, <2>1 DEF FirstOfProduction
  <2>3. new \subseteq Terms
    <3>1. \A i \in DOMAIN Rhs(nextProd) :
            SymbolIn(grammar.terms, grammar.nonterms, Rhs(nextProd)[i])
      BY <1>1, <2>2 DEF SoundGrammar, Prods, Rhs
    <3> QED
      BY <2>1, <3>1, FirstOfSequenceIn DEF Typed
  <2>4. FirstTyped'
    BY <1>2, <1>3, <2>2, <2>3 DEF Typed, FirstTyped
  <2> QED
    BY <1>2, <1>5, <2>2, <2>4 DEF Typed, FollowTyped
<1>8. CASE FollowOfSymbol
  <2>1. PICK x : x = Rhs(nextProd)[nextSym]
    OBVIOUS
  <2>2. /\ nextProd \in Prods /\ nextSym \in DOMAIN Rhs(nextProd) /\ first' = first
        /\ IF IsTerminal(x) THEN UNCHANGED <<follow, changes>>
           ELSE follow' = [follow EXCEPT ![NtIndex(x)] = @ \cup FollowBy(nextProd, nextSym)]
    BY <1>8, <2>1 DEF FollowOfSymbol
  <2>3. SymbolIn(grammar.terms, grammar.nonterms, x)
    BY <1>1, <2>1, <2>2 DEF SoundGrammar, Prods, Rhs
  <2>4. FollowTyped'
    <3>1. CASE IsTerminal(x)
      BY <1>2, <2>2, <3>1 DEF Typed, FollowTyped
    <3>2. CASE ~ IsTerminal(x)
      <4>1. NtIndex(x) \in Nonterms
        <5>1. NtIndex(x) \in 1..(grammar.nonterms - 1)
          BY <2>3, <3>2 DEF SymbolIn
        <5> QED
          BY <5>1 DEF Nonterms
      <4>2. FollowBy(nextProd, nextSym) \subseteq Terms
        <5>1. nextSym \in 0..Len(Rhs(nextProd))
          <6>1. PICK n \in Nat : n = Len(Rhs(nextProd)) /\ DOMAIN Rhs(nextProd) = 1..n
            BY <1>1, <2>2, ListLength DEF SoundGrammar, Prods, Rhs
          <6> QED
            BY <2>2, <6>1
        <5>2. FirstOfSequence(After(nextProd, nextSym)) \subseteq Terms
          BY <1>1, <2>2, <5>1, AfterIn, FirstOfSequenceIn DEF Typed
        <5>3. follow[Lhs(nextProd)] \subseteq Terms
          BY <1>3, <2>2 DEF Typed, FollowTyped
        <5> QED
          BY <5>2, <5>3 DEF FollowBy
      <4> QED
        BY <1>2, <2>2, <3>2, <4>1, <4>2 DEF Typed, FollowTyped
    <3> QED
      BY <3>1, <3>2
  <2> QED
    BY <1>2, <1>5, <2>2, <2>4 DEF Typed, FirstTyped
<1> QED
  BY <1>6, <1>7, <1>8 DEF FirstFollowNext

(* The items of a kernel, and those that are under way.                    *)
LEMMA ClosureBeginsIn ==
  ASSUME NEW g, NEW set, SetIn(g, set), NEW w,
         w = [finished |-> ToSymbolSet(set.nonkernel), list |-> << >>, kernel |-> set.kernel]
  PROVE  WorkIn(g, w)
<1>1. w.finished = ToSymbolSet(set.nonkernel) /\ w.list = << >> /\ w.kernel = set.kernel
  OBVIOUS
<1>2. ToSymbolSet(w.list) = {}
  BY <1>1 DEF ToSymbolSet
<1> QED
  BY <1>1, <1>2 DEF SetIn, KernelIn, WorkIn

LEMMA NewSetIn ==
  ASSUME NEW g, NEW kernel, KernelIn(g, kernel)
  PROVE  SetIn(g, NewSet(kernel)) /\ DOMAIN NewSet(kernel).trans = {}
<1>1. /\ WellMade(g.prods, NewSet(kernel)) /\ NewSet(kernel).kernel = kernel
      /\ NewSet(kernel).nonkernel = << >> /\ DOMAIN NewSet(kernel).trans = {}
  BY NewSetWellMade DEF KernelIn
<1>2. ToSymbolSet(NewSet(kernel).nonkernel) = {}
  BY <1>1 DEF ToSymbolSet
<1> QED
  BY <1>1, <1>2 DEF SetIn, NonkernelIn

LEMMA MakeStartStateIn ==
  ASSUME Given, Typed, MakeStartState, UNCHANGED <<grammar, first, follow>>
  PROVE  Typed'
<1> DEFINE kernel == <<Item(1, 0, {})>>
<1>1. SoundGrammar(grammar)
  BY GivenIsSound
<1>2. PICK set : set = NewSet(kernel)
  OBVIOUS
<1>3. /\ sets' = [s \in {0} |-> set] /\ closing' = 0
      /\ work' = [finished |-> ToSymbolSet(set.nonkernel), list |-> << >>, kernel |-> set.kernel]
  BY <1>2 DEF MakeStartState, BeginClosure
<1>4. KernelIn(grammar, kernel)
  <2>1. PICK k : k = kernel
    OBVIOUS
  <2>2. k = [i \in 1..1 |-> k[i]] /\ DOMAIN k = {1} /\ 1 \in Nat /\ k[1] = Item(1, 0, {})
    BY <2>1
  <2>3. k[1].prod = 1 /\ k[1].dot = 0 /\ k[1].la = {}
    BY <2>2 DEF Item
  <2>4. 1 \in DOMAIN grammar.prods /\ 0 \in 0..Len(grammar.prods[1].rhs)
    <3>1. 1 \in DOMAIN grammar.prods /\ Len(grammar.prods[1].rhs) \in Nat
      BY <1>1, ListLength DEF SoundGrammar
    <3> QED
      BY <3>1
  <2>5. ItemIn(grammar, k[1])
    BY <2>3, <2>4 DEF ItemIn
  <2>6. IsList(k)
    BY <2>2, IsAList
  <2> QED
    BY <2>1, <2>2, <2>3, <2>5, <2>6 DEF KernelIn
<1>5. SetIn(grammar, set) /\ DOMAIN set.trans = {}
  BY <1>2, <1>4, NewSetIn
<1>6. SetsIn(grammar, sets')
  <2>1. 1 \in Nat /\ 0..(1 - 1) = {0} /\ DOMAIN sets' = {0} /\ sets'[0] = set
    BY <1>3
  <2> QED
    BY <1>5, <2>1 DEF SetsIn
<1>7. WorkIn(grammar, work')
  BY <1>3, <1>5, ClosureBeginsIn
<1> QED
  BY <1>6, <1>7 DEF Typed, FirstTyped, FollowTyped, UnderClosureIn, Terms, Nonterms

LEMMA CloseItemsIn ==
  ASSUME Given, SetsSoFar, Typed, CloseKernelItem \/ CloseItem, phase \in Early,
         UNCHANGED <<grammar, first, follow>>
  PROVE  Typed'
<1>1. /\ closing # NoState /\ SoundGrammar(grammar)
      /\ UNCHANGED <<phase, sets, closing>>
  BY GivenIsSound DEF CloseKernelItem, CloseItem
<1>2. GoodWork(grammar.prods, sets[closing], work) /\ WorkIn(grammar, work)
  BY <1>1 DEF SetsSoFar, UnderClosure, Typed, UnderClosureIn
<1>3. PICK done0, list, kernel : done0 = work.finished /\ list = work.list /\ kernel = work.kernel
  OBVIOUS
<1>4. work = [finished |-> done0, list |-> list, kernel |-> kernel] /\ IsList(list) /\ IsList(kernel)
  BY <1>2, <1>3 DEF GoodWork
<1>5. WorkIn(grammar, work')
  <2>1. CASE CloseKernelItem
    <3>1. PICK w : w = [work EXCEPT !.kernel = Tail(@)]
      OBVIOUS
    <3>2. work' = SingleItemClosure(w, Head(kernel)) /\ kernel # << >>
      BY <2>1, <1>3, <3>1 DEF CloseKernelItem
    <3>3. GoodWork(grammar.prods, sets[closing], w)
      BY <1>2, <1>3, <3>1, <3>2, TakenFromWork
    <3>4. w.finished = done0 /\ w.list = list /\ w.kernel = Tail(kernel)
      BY <1>4, <3>1
    <3>5. PICK n \in Nat : n = Len(kernel) /\ DOMAIN kernel = 1..n /\ n # 0
      <4>1. PICK n \in Nat : n = Len(kernel) /\ DOMAIN kernel = 1..n
        BY <1>4, ListLength
      <4>2. n # 0
        BY <1>4, <3>2, <4>1 DEF IsList
      <4> QED
        BY <4>1, <4>2
    <3>6. /\ DOMAIN w.kernel = 1..(n - 1) /\ \A i \in 1..(n - 1) : w.kernel[i] = kernel[i + 1]
          /\ Head(kernel) = kernel[1]
      BY <1>4, <3>4, <3>5 DEF IsList
    <3>7. (\A i \in 1..(n - 1) : i + 1 \in 1..n) /\ 1 \in 1..n
      BY <3>5
    <3>8. \A i \in DOMAIN kernel : ItemIn(grammar, kernel[i])
      BY <1>2, <1>3 DEF WorkIn
    <3>9. WorkIn(grammar, w) /\ ItemIn(grammar, Head(kernel))
      BY <1>2, <1>3, <3>4, <3>5, <3>6, <3>7, <3>8 DEF WorkIn
    <3> QED
      BY <1>1, <3>2, <3>3, <3>9, SingleItemIn DEF Typed
  <2>2. CASE CloseItem
    <3>1. PICK w : w = [work EXCEPT !.finished = @ \cup {Last(work.list)}, !.list = Front(@)]
      OBVIOUS
    <3>2. work' = SingleItemClosure(w, Last(list)) /\ list # << >>
      BY <2>2, <1>3, <3>1 DEF CloseItem
    <3>3. GoodWork(grammar.prods, sets[closing], w)
      BY <1>2, <1>3, <3>1, <3>2, TakenFromWork
    <3>4. w.finished = done0 \cup {Last(list)} /\ w.list = Front(list) /\ w.kernel = kernel
      BY <1>4, <3>1
    <3>5. PICK n \in Nat : n = Len(list) /\ DOMAIN list = 1..n /\ n # 0
      <4>1. PICK n \in Nat : n = Len(list) /\ DOMAIN list = 1..n
        BY <1>4, ListLength
      <4>2. n # 0
        BY <1>4, <3>2, <4>1 DEF IsList
      <4> QED
        BY <4>1, <4>2
    <3>6. /\ DOMAIN w.list = 1..(n - 1) /\ \A i \in 1..(n - 1) : w.list[i] = list[i]
          /\ Last(list) = list[n]
      BY <1>4, <3>4, <3>5 DEF IsList, Front, Last
    <3>7. (\A i \in 1..(n - 1) : i \in 1..n) /\ n \in 1..n
      BY <3>5
    <3>8. \A i \in DOMAIN list : ItemIn(grammar, list[i]) /\ list[i].prod # 1
      BY <1>2, <1>3 DEF WorkIn, NonkernelIn, ToSymbolSet
    <3>9. \A it \in ToSymbolSet(w.list) : ItemIn(grammar, it) /\ it.prod # 1
      BY <3>5, <3>6, <3>7, <3>8 DEF ToSymbolSet
    <3>10. ItemIn(grammar, Last(list)) /\ Last(list).prod # 1
      BY <3>5, <3>6, <3>7, <3>8
    <3>11. \A it \in w.finished : ItemIn(grammar, it) /\ it.prod # 1
      BY <1>2, <1>3, <3>4, <3>10 DEF WorkIn, NonkernelIn
    <3>12. WorkIn(grammar, w)
      BY <1>2, <1>3, <3>4, <3>9, <3>11 DEF WorkIn, NonkernelIn
    <3> QED
      BY <1>1, <3>2, <3>3, <3>10, <3>12, SingleItemIn DEF Typed
  <2> QED
    BY <2>1, <2>2
<1> QED
  BY <1>1, <1>5 DEF Typed, FirstTyped, FollowTyped, UnderClosureIn, Terms, Nonterms

LEMMA ClosureDoneIn ==
  ASSUME Given, SetsSoFar, Typed, ClosureDone, phase \in Early,
         UNCHANGED <<grammar, first, follow, hashOrder>>, SetsSoFar'
  PROVE  Typed'
<1>1. /\ closing # NoState
      /\ sets' = [sets EXCEPT ![closing].nonkernel = InHashOrder(work.finished)]
      /\ closing' = NoState
  BY DEF ClosureDone
<1>2. closing \in DOMAIN sets
  BY <1>1 DEF SetsSoFar, Lined, StateIds
<1>3. GoodWork(grammar.prods, sets[closing], work) /\ WorkIn(grammar, work)
  BY <1>1 DEF SetsSoFar, UnderClosure, Typed, UnderClosureIn
<1>4. PICK found : found = InHashOrder(work.finished)
  OBVIOUS
<1>5. ToSymbolSet(found) = work.finished
  BY <1>3, <1>4, ProductionsAre, HashOrderOfFinished
<1>6. NonkernelIn(grammar, ToSymbolSet(found))
  BY <1>3, <1>5 DEF WorkIn, NonkernelIn
<1>7. /\ DOMAIN sets' = DOMAIN sets
      /\ \A s \in DOMAIN sets : s # closing => sets'[s] = sets[s]
      /\ sets'[closing] = [sets[closing] EXCEPT !.nonkernel = found]
  BY <1>1, <1>2, <1>4
<1>8. WellMade(grammar.prods, sets[closing])
  BY <1>2 DEF SetsSoFar, Automaton
<1>9. /\ sets'[closing].kernel = sets[closing].kernel
      /\ sets'[closing].nonkernel = found
      /\ sets'[closing].trans = sets[closing].trans
  BY <1>7, <1>8 DEF WellMade
<1>10. ASSUME NEW s \in DOMAIN sets
       PROVE  /\ SetIn(grammar, sets'[s]) /\ sets'[s].kernel = sets[s].kernel
              /\ sets'[s].trans = sets[s].trans
  <2>1. WellMade(grammar.prods, sets'[s])
    BY <1>7 DEF SetsSoFar, Automaton
  <2>2. SetIn(grammar, sets[s])
    BY DEF Typed, SetsIn
  <2>3. CASE s = closing
    BY <1>6, <1>9, <2>1, <2>2, <2>3 DEF SetIn
  <2>4. CASE s # closing
    BY <1>7, <2>2, <2>4
  <2> QED
    BY <2>3, <2>4
<1>11. SetsIn(grammar, sets')
  <2>1. \E n \in Nat : DOMAIN sets' = 0..(n - 1)
    BY <1>7 DEF Typed, SetsIn
  <2>2. ASSUME NEW s \in DOMAIN sets', NEW x \in DOMAIN sets'[s].trans
        PROVE  /\ sets'[s].trans[x] \in DOMAIN sets'
               /\ ArrivedBy(grammar, sets'[sets'[s].trans[x]].kernel, x)
    <3>1. s \in DOMAIN sets /\ x \in DOMAIN sets[s].trans /\ sets'[s].trans[x] = sets[s].trans[x]
      BY <1>7, <1>10, <2>2
    <3>2. /\ sets[s].trans[x] \in DOMAIN sets
          /\ ArrivedBy(grammar, sets[sets[s].trans[x]].kernel, x)
      BY <3>1 DEF Typed, SetsIn
    <3> QED
      BY <1>7, <1>10, <3>1, <3>2
  <2> QED
    BY <1>7, <1>10, <2>1, <2>2 DEF SetsIn
<1> QED
  BY <1>1, <1>11 DEF Typed, FirstTyped, FollowTyped, UnderClosureIn, Terms, Nonterms

-----------------------------------------------------------------------------
(* A transition from the current state, to a new one or one that is found. *)
LEMMA MakeItemSetLinks ==
  ASSUME Given, SetsSoFar, MakeItemSet, UNCHANGED <<grammar, hashOrder>>
  PROVE  /\ closing = NoState /\ phase' = phase
         /\ \E x, kernel, new :
              /\ x \in CalledFor(grammar.prods, sets[current]) /\ current \in DOMAIN sets
              /\ kernel = Moved(grammar.prods, sets[current], x)
              /\ new \notin DOMAIN sets /\ DOMAIN sets' = DOMAIN sets \cup {new}
              /\ \E n \in Nat : DOMAIN sets' = 0..(n - 1)
              /\ sets'[new] = NewSet(kernel)
              /\ \A t \in DOMAIN sets : sets'[t].kernel = sets[t].kernel
              /\ Linked(grammar.prods, sets, sets', current, x, new)
              /\ closing' = new
              /\ work' = [finished |-> ToSymbolSet(NewSet(kernel).nonkernel), list |-> << >>,
                          kernel |-> NewSet(kernel).kernel]
              /\ pending' = Append(pending, new) /\ done' = done
              /\ \A s \in ToSymbolSet(pending) \cup done : Core(sets[s].kernel) # Core(kernel)
<1> DEFINE P == grammar.prods
<1>1. /\ closing = NoState /\ current # NoState
      /\ UNCHANGED <<done, current, mustCloseMyself, P>>
  BY DEF MakeItemSet, Considering
<1>2. PICK i \in ItemsLeft :
        /\ i = Min(ItemsLeft)
        /\ LET x == SymbolAfterDot(AllItems(current)[i])
               kernel == MoveDot(current, x)
               new == Cardinality(StateIds)
           IN  /\ SameKernel(kernel) = {}
               /\ sets' = [s \in StateIds \cup {new} |->
                             IF s = new THEN NewSet(kernel)
                             ELSE IF s = current THEN SetTransition(sets[s], x, new)
                             ELSE sets[s]]
               /\ BeginClosure(new, NewSet(kernel))
               /\ pending' = Append(pending, new)
        /\ nextItem' = i + 1
  BY DEF MakeItemSet
<1>3. PICK x, kernel, new : x = SymbolAfterDot(AllItems(current)[i])
        /\ kernel = MoveDot(current, x) /\ new = Cardinality(StateIds)
  OBVIOUS
<1>4. /\ sets' = [s \in DOMAIN sets \cup {new} |->
                    IF s = new THEN NewSet(kernel)
                    ELSE IF s = current THEN SetTransition(sets[s], x, new)
                    ELSE sets[s]]
      /\ closing' = new
      /\ work' = [finished |-> ToSymbolSet(NewSet(kernel).nonkernel), list |-> << >>,
                  kernel |-> NewSet(kernel).kernel]
      /\ pending' = Append(pending, new) /\ nextItem' = i + 1
  BY <1>2, <1>3 DEF BeginClosure, StateIds
<1>5. /\ current \in DOMAIN sets /\ WellMade(P, sets[current])
      /\ i \in Int /\ i \in DOMAIN All(sets[current])
      /\ x = AfterDot(P, All(sets[current])[i]) /\ x \in CalledFor(P, sets[current])
      /\ \A j \in DOMAIN All(sets[current]) :
           j >= nextItem /\ ~ EndOf(P, All(sets[current])[j]) => i <= j
  <2>1. current \in DOMAIN sets /\ WellMade(P, sets[current])
    BY <1>1 DEF SetsSoFar, Lined, Automaton, StateIds
  <2> QED
    BY <1>1, <1>2, <1>3, <2>1, NextItemIs
<1>6. kernel = Moved(P, sets[current], x) /\ IsList(kernel)
  BY <1>3, <1>5, InTerms, MovedIsList
<1>7. PICK n \in Nat : DOMAIN sets = 0..(n - 1)
  BY DEF SetsSoFar, Automaton
<1>8. new = n /\ new \notin DOMAIN sets /\ DOMAIN sets \cup {new} = 0..(n + 1 - 1)
      /\ new # current /\ new # NoState
  <2>1. Cardinality(0..(n - 1)) = n
    <3>1. 0 \in Int /\ n - 1 \in Int /\ (0 > n - 1 => n = 0) /\ (n - 1) - 0 + 1 = n
      BY <1>7
    <3> QED
      BY <3>1, FS_Interval
  <2>2. new = n
    BY <1>3, <1>7, <2>1 DEF StateIds
  <2> QED
    BY <1>5, <1>7, <2>2 DEF NoState
<1>9. PICK fresh : fresh = NewSet(kernel)
  OBVIOUS
<1>10. /\ WellMade(P, fresh) /\ fresh.kernel = kernel /\ fresh.nonkernel = << >>
       /\ DOMAIN fresh.trans = {}
  BY <1>6, <1>9, NewSetWellMade
<1>11. PICK more : more = SetTransition(sets[current], x, new)
  OBVIOUS
<1>12. /\ WellMade(P, more) /\ more.kernel = sets[current].kernel
       /\ more.nonkernel = sets[current].nonkernel
       /\ more.trans = [y \in DOMAIN sets[current].trans \cup {x} |->
                          IF y = x THEN new ELSE sets[current].trans[y]]
  BY <1>5, <1>11, SetTransitionIs
<1>13. /\ DOMAIN sets' = DOMAIN sets \cup {new}
       /\ sets'[new] = fresh /\ sets'[current] = more
       /\ \A s \in DOMAIN sets : s # current => sets'[s] = sets[s]
  BY <1>4, <1>5, <1>8, <1>9, <1>11
<1>14. Linked(P, sets, sets', current, x, new)
  <2>1. ASSUME NEW t \in DOMAIN sets
        PROVE  /\ t \in DOMAIN sets' /\ WellMade(P, sets'[t])
               /\ sets'[t].nonkernel = sets[t].nonkernel
               /\ sets'[t].kernel = sets[t].kernel
               /\ t # current => sets'[t].trans = sets[t].trans
    BY <1>12, <1>13 DEF SetsSoFar, Automaton
  <2>2. Covers(Moved(P, sets[current], x), sets'[new].kernel)
    BY <1>6, <1>10, <1>13, CoversMore
  <2> QED
    BY <1>5, <1>12, <1>13, <2>1, <2>2, CoversMore DEF Linked
<1>15. /\ \A t \in DOMAIN sets : sets'[t].kernel = sets[t].kernel
       /\ \E m \in Nat : DOMAIN sets' = 0..(m - 1)
  <2>1. n + 1 \in Nat
    OBVIOUS
  <2>2. ASSUME NEW t \in DOMAIN sets PROVE sets'[t].kernel = sets[t].kernel
    <3>1. CASE t = current
      BY ONLY <1>12, <1>13, <3>1
    <3>2. CASE t # current
      BY ONLY <1>13, <2>2, <3>2
    <3> QED
      BY ONLY <3>1, <3>2
  <2>3. DOMAIN sets' = 0..(n + 1 - 1)
    BY ONLY <1>8, <1>13
  <2> QED
    BY ONLY <2>1, <2>2, <2>3
<1>16. phase' = phase
  BY DEF MakeItemSet
<1>17. \A s \in ToSymbolSet(pending) \cup done : Core(sets[s].kernel) # Core(kernel)
  BY <1>2, <1>3 DEF SameKernel
<1> QED
  BY <1>1, <1>4, <1>5, <1>6, <1>8, <1>9, <1>13, <1>14, <1>15, <1>16, <1>17

LEMMA FindItemSetLinks ==
  ASSUME Given, SetsSoFar, FindItemSet, UNCHANGED <<grammar, hashOrder>>
  PROVE  /\ closing = NoState /\ phase' = phase
         /\ \E x, kernel, s :
              /\ x \in CalledFor(grammar.prods, sets[current]) /\ current \in DOMAIN sets
              /\ kernel = Moved(grammar.prods, sets[current], x)
              /\ s \in DOMAIN sets /\ DOMAIN sets' = DOMAIN sets
              /\ Core(sets[s].kernel) = Core(kernel)
              /\ sets'[s].kernel = MergeLookaheads(sets[s].kernel, kernel)
              /\ \A t \in DOMAIN sets : t # s => sets'[t].kernel = sets[t].kernel
              /\ Linked(grammar.prods, sets, sets', current, x, s)
              /\ \/ closing' = NoState
                 \/ closing' = s /\
                    work' = [finished |-> ToSymbolSet(sets'[s].nonkernel), list |-> << >>,
                             kernel |-> sets'[s].kernel]
              /\ \/ done' = done \ {s} /\ pending' = Append(pending, s)
                 \/ done' = done /\ pending' = pending
              /\ mustCloseMyself => mustCloseMyself'
              /\ \/ sets'[s].kernel = sets[s].kernel \/ closing' = s
                 \/ s = current /\ mustCloseMyself'
<1> DEFINE P == grammar.prods
<1>1. /\ closing = NoState /\ current # NoState
      /\ UNCHANGED <<current, P>>
  BY DEF FindItemSet, Considering
<1>2. PICK i \in ItemsLeft :
        /\ i = Min(ItemsLeft)
        /\ LET x == SymbolAfterDot(AllItems(current)[i])
               kernel == MoveDot(current, x)
           IN  \E s \in SameKernel(kernel) :
                 LET merged == MergeLookaheads(sets[s].kernel, kernel)
                     changed == merged # sets[s].kernel
                     all == [sets EXCEPT ![s].kernel = merged]
                 IN  /\ sets' = [all EXCEPT ![current] = SetTransition(@, x, s)]
                     /\ mustCloseMyself' = (mustCloseMyself \/ (changed /\ s = current))
                     /\ IF changed /\ s # current
                        THEN BeginClosure(s, all[s])
                        ELSE NoClosure
                     /\ IF changed /\ BackToPending(s)
                        THEN done' = done \ {s} /\ pending' = Append(pending, s)
                        ELSE UNCHANGED <<done, pending>>
        /\ nextItem' = i + 1
  BY DEF FindItemSet
<1>3. PICK x, kernel :
        x = SymbolAfterDot(AllItems(current)[i]) /\ kernel = MoveDot(current, x)
  OBVIOUS
<1>4. PICK s \in SameKernel(kernel) :
        LET merged == MergeLookaheads(sets[s].kernel, kernel)
            changed == merged # sets[s].kernel
            all == [sets EXCEPT ![s].kernel = merged]
        IN  /\ sets' = [all EXCEPT ![current] = SetTransition(@, x, s)]
            /\ mustCloseMyself' = (mustCloseMyself \/ (changed /\ s = current))
            /\ IF changed /\ s # current
               THEN BeginClosure(s, all[s])
               ELSE NoClosure
            /\ IF changed /\ BackToPending(s)
               THEN done' = done \ {s} /\ pending' = Append(pending, s)
               ELSE UNCHANGED <<done, pending>>
  BY <1>2, <1>3
<1>5. PICK merged : merged = MergeLookaheads(sets[s].kernel, kernel)
  OBVIOUS
<1>6. PICK grown : grown = [sets[s] EXCEPT !.kernel = merged]
  OBVIOUS
<1>7. /\ sets' = WithFound(sets, current, x, s, merged)
      /\ mustCloseMyself' = (mustCloseMyself \/ (merged # sets[s].kernel /\ s = current))
      /\ merged # sets[s].kernel /\ s # current =>
           /\ closing' = s
           /\ work' = [finished |-> ToSymbolSet(grown.nonkernel), list |-> << >>,
                       kernel |-> grown.kernel]
      /\ ~ (merged # sets[s].kernel /\ s # current) => closing' = closing /\ work' = work
      /\ merged # sets[s].kernel /\ s \in done =>
           done' = done \ {s} /\ pending' = Append(pending, s)
      /\ ~ (merged # sets[s].kernel /\ s \in done) => done' = done /\ pending' = pending
  <2>1. s \in DOMAIN sets
    BY DEF SameKernel, SetsSoFar, Lined, StateIds, ToSymbolSet
  <2>2. [sets EXCEPT ![s].kernel = merged][s] = grown
    BY <1>6, <2>1
  <2> QED
    BY <1>4, <1>5, <2>2 DEF BeginClosure, NoClosure, BackToPending, WithFound
<1>8. nextItem' = i + 1
  BY <1>2
<1>9. /\ current \in DOMAIN sets /\ WellMade(P, sets[current])
      /\ i \in Int /\ i \in DOMAIN All(sets[current])
      /\ x = AfterDot(P, All(sets[current])[i]) /\ x \in CalledFor(P, sets[current])
      /\ \A j \in DOMAIN All(sets[current]) :
           j >= nextItem /\ ~ EndOf(P, All(sets[current])[j]) => i <= j
  <2>1. current \in DOMAIN sets /\ WellMade(P, sets[current])
    BY <1>1 DEF SetsSoFar, Lined, Automaton, StateIds
  <2> QED
    BY <1>1, <1>2, <1>3, <2>1, NextItemIs
<1>10. kernel = Moved(P, sets[current], x)
  BY <1>3, InTerms
<1>11. /\ s \in DOMAIN sets /\ Core(sets[s].kernel) = Core(kernel)
       /\ WellMade(P, sets[s])
       /\ s \in done \/ \E k \in DOMAIN pending : pending[k] = s
  <2>1. Core(sets[s].kernel) = Core(kernel) /\ (s \in ToSymbolSet(pending) \/ s \in done)
    BY DEF SameKernel
  <2>2. s \in done \/ \E k \in DOMAIN pending : pending[k] = s
    BY <2>1 DEF ToSymbolSet
  <2>3. s \in DOMAIN sets
    BY <2>2 DEF SetsSoFar, Lined, StateIds
  <2> QED
    BY <2>1, <2>2, <2>3 DEF SetsSoFar, Automaton
<1>12. /\ DOMAIN sets' = DOMAIN sets
       /\ Linked(P, sets, sets', current, x, s)
       /\ sets'[s].kernel = merged
       /\ \A t \in DOMAIN sets : t # s => sets'[t].kernel = sets[t].kernel
       /\ \A t \in DOMAIN sets :
            t # current /\ (t # s \/ merged = sets[s].kernel) => sets'[t] = sets[t]
  <2>1. PICK all, new : all = sets /\ new = sets'
    OBVIOUS
  <2>2. new = WithFound(all, current, x, s, merged)
    BY <1>7, <2>1
  <2>3. Automaton(P, all)
    BY <2>1 DEF SetsSoFar
  <2> QED
    BY <1>5, <1>9, <1>10, <1>11, <2>1, <2>2, <2>3, FoundIsLinked
<1>13. IsList(merged)
  BY <1>5, <1>11, Merged DEF WellMade
<1>14. WellMade(P, grown) /\ grown.kernel = merged /\ grown.nonkernel = sets[s].nonkernel
  BY <1>6, <1>11, <1>13, WithKernelIs
<1>15. phase' = phase
  BY DEF FindItemSet
<1>16. \/ closing' = NoState
       \/ closing' = s /\ work' = [finished |-> ToSymbolSet(sets'[s].nonkernel), list |-> << >>,
                                   kernel |-> sets'[s].kernel]
  <2>1. IsList(sets'[s].kernel) /\ sets'[s].nonkernel = sets[s].nonkernel
    BY <1>11, <1>12, <1>13 DEF Linked
  <2> QED
    BY <1>1, <1>7, <1>12, <1>14, <2>1
<1>17. \/ done' = done \ {s} /\ pending' = Append(pending, s)
       \/ done' = done /\ pending' = pending
  BY <1>7
<1>18. /\ mustCloseMyself => mustCloseMyself'
       /\ \/ sets'[s].kernel = sets[s].kernel \/ closing' = s
          \/ s = current /\ mustCloseMyself'
  BY <1>7, <1>12
<1> QED
  BY <1>1, <1>5, <1>9, <1>10, <1>11, <1>12, <1>15, <1>16, <1>17, <1>18

LEMMA MakeItemSetIn ==
  ASSUME Given, SetsSoFar, Typed, MakeItemSet, phase \in Early,
         UNCHANGED <<grammar, hashOrder, first, follow>>
  PROVE  Typed'
<1>1. SoundGrammar(grammar) /\ SetsIn(grammar, sets)
  BY GivenIsSound DEF Typed
<1>2. PICK x, kernel, new :
        /\ x \in CalledFor(grammar.prods, sets[current]) /\ current \in DOMAIN sets
        /\ kernel = Moved(grammar.prods, sets[current], x)
        /\ new \notin DOMAIN sets /\ DOMAIN sets' = DOMAIN sets \cup {new}
        /\ \E n \in Nat : DOMAIN sets' = 0..(n - 1)
        /\ sets'[new] = NewSet(kernel)
        /\ \A t \in DOMAIN sets : sets'[t].kernel = sets[t].kernel
        /\ Linked(grammar.prods, sets, sets', current, x, new)
        /\ closing' = new
        /\ work' = [finished |-> ToSymbolSet(NewSet(kernel).nonkernel), list |-> << >>,
                    kernel |-> NewSet(kernel).kernel]
  BY MakeItemSetLinks
<1>3. SetIn(grammar, sets[current])
  BY <1>1, <1>2 DEF SetsIn
<1>4. KernelIn(grammar, kernel)
  BY <1>1, <1>2, <1>3, MovedArrives
<1>5. SetIn(grammar, sets'[new]) /\ DOMAIN sets'[new].trans = {}
  BY <1>2, <1>4, NewSetIn
<1>6. \A t \in DOMAIN sets : KernelIn(grammar, sets'[t].kernel)
  BY <1>1, <1>2 DEF SetsIn, SetIn
<1>7. \A t \in DOMAIN sets' : t \notin DOMAIN sets => SetIn(grammar, sets'[t]) /\ DOMAIN sets'[t].trans = {}
  BY <1>2, <1>5
<1>8. SetsIn(grammar, sets')
  <2>1. PICK all, made : all = sets /\ made = sets'
    OBVIOUS
  <2>2. /\ SetsIn(grammar, all) /\ Linked(grammar.prods, all, made, current, x, new)
        /\ \E n \in Nat : DOMAIN made = 0..(n - 1)
        /\ \A t \in DOMAIN all : KernelIn(grammar, made[t].kernel)
        /\ \A t \in DOMAIN made : t \notin DOMAIN all =>
             SetIn(grammar, made[t]) /\ DOMAIN made[t].trans = {}
    BY <1>1, <1>2, <1>6, <1>7, <2>1
  <2>3. SetsIn(grammar, made)
    BY ONLY <1>1, <2>2, LinkedIn
  <2> QED
    BY <2>1, <2>3
<1>9. WorkIn(grammar, work')
  BY <1>2, <1>5, ClosureBeginsIn
<1> QED
  BY <1>8, <1>9 DEF Typed, FirstTyped, FollowTyped, UnderClosureIn, Terms, Nonterms

LEMMA FindItemSetIn ==
  ASSUME Given, SetsSoFar, Typed, FindItemSet, phase \in Early,
         UNCHANGED <<grammar, hashOrder, first, follow>>
  PROVE  Typed'
<1>1. SoundGrammar(grammar) /\ SetsIn(grammar, sets)
  BY GivenIsSound DEF Typed
<1>2. PICK x, kernel, s :
        /\ x \in CalledFor(grammar.prods, sets[current]) /\ current \in DOMAIN sets
        /\ kernel = Moved(grammar.prods, sets[current], x)
        /\ s \in DOMAIN sets /\ DOMAIN sets' = DOMAIN sets
        /\ Core(sets[s].kernel) = Core(kernel)
        /\ sets'[s].kernel = MergeLookaheads(sets[s].kernel, kernel)
        /\ \A t \in DOMAIN sets : t # s => sets'[t].kernel = sets[t].kernel
        /\ Linked(grammar.prods, sets, sets', current, x, s)
        /\ \/ closing' = NoState
           \/ closing' = s /\
              work' = [finished |-> ToSymbolSet(sets'[s].nonkernel), list |-> << >>,
                       kernel |-> sets'[s].kernel]
  BY FindItemSetLinks
<1>3. SetIn(grammar, sets[current]) /\ SetIn(grammar, sets[s])
  BY <1>1, <1>2 DEF SetsIn
<1>4. KernelIn(grammar, kernel)
  BY <1>1, <1>2, <1>3, MovedArrives
<1>5. KernelIn(grammar, sets'[s].kernel)
  <2>1. KernelIn(grammar, sets[s].kernel)
    BY <1>3 DEF SetIn
  <2> QED
    BY <1>2, <1>4, <2>1, MergedIn
<1>6. \A t \in DOMAIN sets : KernelIn(grammar, sets'[t].kernel)
  BY <1>1, <1>2, <1>5 DEF SetsIn, SetIn
<1>7. /\ \A t \in DOMAIN sets' : t \notin DOMAIN sets => SetIn(grammar, sets'[t]) /\ DOMAIN sets'[t].trans = {}
      /\ \E n \in Nat : DOMAIN sets' = 0..(n - 1)
  BY <1>1, <1>2 DEF SetsIn
<1>8. SetsIn(grammar, sets')
  <2>1. PICK all, made : all = sets /\ made = sets'
    OBVIOUS
  <2>2. /\ SetsIn(grammar, all) /\ Linked(grammar.prods, all, made, current, x, s)
        /\ \E n \in Nat : DOMAIN made = 0..(n - 1)
        /\ \A t \in DOMAIN all : KernelIn(grammar, made[t].kernel)
        /\ \A t \in DOMAIN made : t \notin DOMAIN all =>
             SetIn(grammar, made[t]) /\ DOMAIN made[t].trans = {}
    BY <1>1, <1>2, <1>6, <1>7, <2>1
  <2>3. SetsIn(grammar, made)
    BY ONLY <1>1, <2>2, LinkedIn
  <2> QED
    BY <2>1, <2>3
<1>9. closing' # NoState => WorkIn(grammar, work')
  <2>1. SetIn(grammar, sets'[s])
    BY <1>2, <1>8 DEF SetsIn
  <2> QED
    BY <1>2, <2>1, ClosureBeginsIn
<1> QED
  BY <1>8, <1>9 DEF Typed, FirstTyped, FollowTyped, UnderClosureIn, Terms, Nonterms

LEMMA ItemSetDoneIn ==
  ASSUME Given, SetsSoFar, Typed, ItemSetDone, phase \in Early,
         UNCHANGED <<grammar, first, follow>>
  PROVE  Typed'
<1>1. /\ current \in DOMAIN sets /\ closing = NoState /\ sets' = sets
      /\ IF ClosesItself THEN BeginClosure(current, sets[current]) ELSE NoClosure
  BY DEF ItemSetDone, Considering, SetsSoFar, Lined, StateIds
<1>2. closing' # NoState => WorkIn(grammar, work')
  <2>1. SetIn(grammar, sets[current])
    BY <1>1 DEF Typed, SetsIn
  <2>2. CASE ClosesItself
    <3>1. work' = [finished |-> ToSymbolSet(sets[current].nonkernel), list |-> << >>,
                   kernel |-> sets[current].kernel]
      BY <1>1, <2>2 DEF BeginClosure
    <3> QED
      BY <2>1, <3>1, ClosureBeginsIn
  <2>3. CASE ~ ClosesItself
    BY <1>1, <2>3 DEF NoClosure
  <2> QED
    BY <2>2, <2>3
<1> QED
  BY <1>1, <1>2 DEF Typed, FirstTyped, FollowTyped, UnderClosureIn, Terms, Nonterms

-----------------------------------------------------------------------------
(* A sequence of sequences, one after the other.                           *)
LEMMA FlattenedIn ==
  ASSUME NEW S, NEW n \in Nat, NEW q \in [1..n -> Seq(S)]
  PROVE  FlattenSeq(q) \in Seq(S)
<1>1. q \in Seq(Seq(S)) /\ Len(q) = n
  BY IsSequence
<1>2. CASE n = 0
  <2>1. q \in [1..0 -> S]
    <3>1. q = [i \in 1..0 |-> q[i]] /\ 1..0 = {}
      BY <1>2
    <3> QED
      BY ONLY <3>1
  <2>2. q \in Seq(S)
    BY ONLY <2>1, IsSequence, 0 \in Nat
  <2> QED
    BY <1>1, <1>2, <2>2 DEF FlattenSeq
<1>3. CASE n # 0
  <2> DEFINE V == [k \in 0..(n - 1) |-> Seq(S)]
             step == [e \in (1..(n - 1)) \X Seq(S) |-> e[2] \o q[e[1] + 1]]
             IsFlat(f) == f = [i \in 1..n |-> IF i = 1 THEN q[i] ELSE f[i - 1] \o q[i]]
  <2>1. n - 1 \in Nat /\ 1 \in 1..n /\ n \in 1..n
    BY <1>3
  <2>2. q[1] \in V[0]
    BY <2>1
  <2>3. ASSUME NEW k \in 1..(n - 1), NEW v \in V[k - 1]
        PROVE  step[<<k, v>>] = v \o q[k + 1] /\ step[<<k, v>>] \in V[k]
    <3>1. k - 1 \in 0..(n - 1) /\ k \in 0..(n - 1) /\ k + 1 \in 1..n
      BY <2>1
    <3>2. v \in Seq(S) /\ q[k + 1] \in Seq(S)
      BY <3>1
    <3>3. <<k, v>> \in (1..(n - 1)) \X Seq(S)
      BY <3>2
    <3>4. step[<<k, v>>] = v \o q[k + 1]
      BY <3>3
    <3>5. v \o q[k + 1] \in Seq(S)
      BY ONLY <3>2
    <3>6. V[k] = Seq(S)
      BY <3>1
    <3> QED
      BY ONLY <3>4, <3>5, <3>6
  <2>4. /\ \E f : f = [k \in 0..(n - 1) |-> f[k]] /\ IsIterated(f, n - 1, q[1], step)
        /\ \A f : IsIterated(f, n - 1, q[1], step) => \A k \in 0..(n - 1) : f[k] \in V[k]
    <3> HIDE DEF V, step
    <3> QED
      BY <2>1, <2>2, <2>3, Iterated
  <2>5. ASSUME NEW f, f = [k \in 0..(n - 1) |-> f[k]], IsIterated(f, n - 1, q[1], step)
        PROVE  \E h : IsFlat(h)
    <3> DEFINE h == [i \in 1..n |-> f[i - 1]]
    <3>1. \A k \in 0..(n - 1) : f[k] \in V[k]
      BY <2>4, <2>5
    <3>2. ASSUME NEW i \in 1..n PROVE h[i] = IF i = 1 THEN q[i] ELSE h[i - 1] \o q[i]
      <4>1. CASE i = 1
        BY <4>1, <2>5, <2>1 DEF IsIterated
      <4>2. CASE i # 1
        <5>1. i - 1 \in 1..(n - 1) /\ i - 1 \in 1..n /\ (i - 1) + 1 = i
          BY <4>2
        <5>2. f[i - 1] = step[<<i - 1, f[(i - 1) - 1]>>]
          BY <2>5, <5>1 DEF IsIterated
        <5>3. f[(i - 1) - 1] \in V[(i - 1) - 1]
          <6>1. (i - 1) - 1 \in 0..(n - 1)
            BY <5>1
          <6> QED
            BY <3>1, <6>1
        <5>4. f[i - 1] = f[(i - 1) - 1] \o q[i]
          BY <2>3, <5>1, <5>2, <5>3
        <5>5. h[i] = f[i - 1] /\ h[i - 1] = f[(i - 1) - 1]
          BY <5>1
        <5> QED
          BY <4>2, <5>4, <5>5
      <4> QED
        BY <4>1, <4>2
    <3>3. h = [i \in 1..n |-> h[i]]
      OBVIOUS
    <3> HIDE DEF h
    <3>4. IsFlat(h)
      BY <3>2, <3>3
    <3> QED
      BY <3>4
  <2>6. ASSUME NEW h, IsFlat(h) PROVE h[n] \in Seq(S)
    <3> DEFINE f == [k \in 0..(n - 1) |-> h[k + 1]]
    <3>1. DOMAIN h = 1..n /\ \A i \in 1..n : h[i] = IF i = 1 THEN q[i] ELSE h[i - 1] \o q[i]
      BY <2>6
    <3>2. IsIterated(f, n - 1, q[1], step) \/ \E k \in 1..(n - 1) : f[k - 1] \notin Seq(S)
      <4>1. DOMAIN f = 0..(n - 1) /\ f[0] = q[1]
        BY <2>1, <3>1
      <4>2. ASSUME NEW k \in 1..(n - 1), f[k - 1] \in Seq(S) PROVE f[k] = step[<<k, f[k - 1]>>]
        <5>1. k + 1 \in 1..n /\ k + 1 # 1 /\ (k + 1) - 1 = k /\ k - 1 \in 0..(n - 1)
              /\ k \in 0..(n - 1) /\ (k - 1) + 1 = k
          BY <2>1
        <5>2. f[k] = h[k + 1] /\ f[k - 1] = h[k]
          BY <5>1
        <5>3. h[k + 1] = h[k] \o q[k + 1]
          BY <3>1, <5>1
        <5>4. f[k - 1] \in V[k - 1]
          BY <4>2, <5>1
        <5> QED
          BY <2>3, <5>2, <5>3, <5>4
      <4> QED
        BY <4>1, <4>2 DEF IsIterated
    <3>3. \A k \in 0..(n - 1) : f[k] \in Seq(S)
      <4> DEFINE Bad == {k \in 0..(n - 1) : f[k] \notin Seq(S)}
      <4> SUFFICES ASSUME Bad # {} PROVE FALSE
        OBVIOUS
      <4>1. PICK k \in Bad : \A j \in Bad : k <= j
        <5>1. Bad \in SUBSET Nat
          OBVIOUS
        <5> HIDE DEF Bad
        <5> QED
          BY <5>1, LeastElement
      <4>2. k # 0
        <5>1. f[0] = q[1]
          BY <2>1, <3>1
        <5> QED
          BY <2>1, <5>1
      <4>3. k - 1 \in 0..(n - 1) /\ ~ (k <= k - 1) /\ k + 1 \in 1..n /\ k + 1 # 1 /\ (k + 1) - 1 = k
            /\ (k - 1) + 1 = k
        BY <4>2
      <4>4. f[k - 1] \in Seq(S)
        BY <4>1, <4>3
      <4>5. f[k] = h[k + 1] /\ f[k - 1] = h[k]
        BY <4>3
      <4>6. h[k + 1] = h[k] \o q[k + 1]
        BY <3>1, <4>3
      <4>7. f[k] \in Seq(S)
        <5>1. PICK u, v : u = h[k] /\ v = q[k + 1]
          OBVIOUS
        <5>2. u \in Seq(S) /\ v \in Seq(S)
          BY <4>3, <4>4, <4>5, <5>1
        <5>3. u \o v \in Seq(S)
          BY ONLY <5>2
        <5> QED
          BY <4>5, <4>6, <5>1, <5>3
      <4> QED
        BY <4>7
    <3>4. n - 1 \in 0..(n - 1) /\ (n - 1) + 1 = n
      BY <2>1
    <3> QED
      BY <3>3, <3>4
  <2>7. \E h : IsFlat(h)
    BY <2>4, <2>5
  <2>8. FlattenSeq(q) = (CHOOSE h : IsFlat(h))[n]
    BY <1>1, <1>3 DEF FlattenSeq
  <2> HIDE DEF IsFlat
  <2> QED
    BY <2>6, <2>7, <2>8
<1> QED
  BY <1>2, <1>3

-----------------------------------------------------------------------------
(* The order of lists of numbers.                                          *)
ComesBefore(a, b, i) ==
  /\ i \in 1..Len(b) /\ i <= Len(a) + 1
  /\ \A j \in 1..(i - 1) : a[j] = b[j]
  /\ i <= Len(a) => a[i] < b[i]

LEMMA ListBeforeIs ==
  ASSUME NEW a \in Seq(Int), NEW b \in Seq(Int)
  PROVE  ListBefore(a, b) <=> \E i \in 1..Len(b) : ComesBefore(a, b, i)
<1>1. PICK m \in Nat, n \in Nat : m = Len(a) /\ n = Len(b) /\ DOMAIN a = 1..m /\ DOMAIN b = 1..n
  OBVIOUS
<1>2. ASSUME NEW i \in 1..n, i <= m + 1
      PROVE  SubSeq(a, 1, i - 1) = SubSeq(b, 1, i - 1) <=> \A j \in 1..(i - 1) : a[j] = b[j]
  <2>1. i - 1 \in Nat /\ i - 1 <= m /\ i - 1 <= n
    BY <1>2
  <2>2. PICK c, d : c = SubSeq(a, 1, i - 1) /\ d = SubSeq(b, 1, i - 1)
    OBVIOUS
  <2>3. c = [j \in 1..(i - 1) |-> a[j]] /\ d = [j \in 1..(i - 1) |-> b[j]]
    <3>1. /\ c = [j \in 1..((i - 1) - 1 + 1) |-> a[1 + j - 1]]
          /\ d = [j \in 1..((i - 1) - 1 + 1) |-> b[1 + j - 1]]
      BY <1>1, <2>1, <2>2, Z3
    <3>2. (i - 1) - 1 + 1 = i - 1 /\ \A j \in 1..(i - 1) : 1 + j - 1 = j
      OBVIOUS
    <3> QED
      BY <3>1, <3>2
  <2> QED
    BY <2>2, <2>3
<1>3. ASSUME NEW i \in 1..n
      PROVE  (IF i \in 1..m THEN a[i] < b[i] ELSE i = m + 1) <=>
               i <= m + 1 /\ (i <= m => a[i] < b[i])
  OBVIOUS
<1> QED
  BY <1>1, <1>2, <1>3 DEF ListBefore, ComesBefore

LEMMA ListsOrdered ==
  ASSUME NEW a \in Seq(Int), NEW b \in Seq(Int)
  PROVE  /\ ~ ListBefore(a, a)
         /\ a = b \/ ListBefore(a, b) \/ ListBefore(b, a)
         /\ \A c \in Seq(Int) : ListBefore(a, b) /\ ListBefore(b, c) => ListBefore(a, c)
<1>1. PICK m \in Nat, n \in Nat : m = Len(a) /\ n = Len(b) /\ DOMAIN a = 1..m /\ DOMAIN b = 1..n
  OBVIOUS
<1>2. (\A i \in 1..m : a[i] \in Int) /\ (\A i \in 1..n : b[i] \in Int)
  BY <1>1
<1>3. ~ ListBefore(a, a)
  <2> SUFFICES ASSUME NEW i \in 1..m, ComesBefore(a, a, i) PROVE FALSE
    BY <1>1, ListBeforeIs
  <2> QED
    BY <1>1, <1>2 DEF ComesBefore
<1>4. ASSUME a # b PROVE ListBefore(a, b) \/ ListBefore(b, a)
  <2> DEFINE T == {i \in Nat : i > 0 /\ (i > m \/ i > n \/ a[i] # b[i])}
  <2>1. m + n + 1 \in T
    OBVIOUS
  <2>2. PICK i \in T : \A j \in T : i <= j
    <3>1. T \in SUBSET Nat /\ T # {}
      BY <2>1
    <3> HIDE DEF T
    <3> QED
      BY <3>1, LeastElement
  <2>3. \A j \in 1..(i - 1) : j <= m /\ j <= n /\ a[j] = b[j]
    BY <2>2
  <2>4. i <= m + 1 /\ i <= n + 1 /\ i > 0
    <3>1. CASE i = 1
      BY <3>1
    <3>2. CASE i # 1
      <4>1. i \in Nat /\ i > 0
        BY <2>2
      <4>2. i - 1 \in 1..(i - 1)
        BY <3>2, <4>1
      <4>3. i - 1 <= m /\ i - 1 <= n
        BY <2>3, <4>2
      <4> QED
        BY <4>1, <4>3
    <3> QED
      BY <3>1, <3>2
  <2>5. CASE i <= n /\ i <= m
    <3>1. i \in 1..n /\ i \in 1..m /\ a[i] # b[i]
      BY <2>4, <2>5
    <3>2. a[i] < b[i] \/ b[i] < a[i]
      BY <1>2, <3>1
    <3>3. ComesBefore(a, b, i) \/ ComesBefore(b, a, i)
      BY <1>1, <2>3, <2>4, <3>1, <3>2 DEF ComesBefore
    <3> QED
      BY <1>1, <3>1, <3>3, ListBeforeIs
  <2>6. CASE i <= n /\ ~ i <= m
    <3>1. ComesBefore(a, b, i) /\ i \in 1..n
      BY <1>1, <2>3, <2>4, <2>6 DEF ComesBefore
    <3> QED
      BY <1>1, <3>1, ListBeforeIs
  <2>7. CASE ~ i <= n /\ i <= m
    <3>1. ComesBefore(b, a, i) /\ i \in 1..m
      BY <1>1, <2>3, <2>4, <2>7 DEF ComesBefore
    <3> QED
      BY <1>1, <3>1, ListBeforeIs
  <2>8. CASE ~ i <= n /\ ~ i <= m
    <3>1. m = i - 1 /\ n = i - 1
      BY <2>4, <2>8
    <3>2. \A j \in 1..m : a[j] = b[j]
      BY <2>3, <3>1
    <3> QED
      BY <1>1, <1>4, <3>1, <3>2
  <2> QED
    BY <2>5, <2>6, <2>7, <2>8
<1>5. ASSUME NEW c \in Seq(Int), ListBefore(a, b), ListBefore(b, c) PROVE ListBefore(a, c)
  <2>1. PICK i \in 1..n : ComesBefore(a, b, i)
    BY <1>1, <1>5, ListBeforeIs
  <2>2. PICK l \in Nat : l = Len(c) /\ DOMAIN c = 1..l
    OBVIOUS
  <2>3. PICK j \in 1..l : ComesBefore(b, c, j)
    BY <1>5, <2>2, ListBeforeIs
  <2>4. /\ i <= m + 1 /\ (\A k \in 1..(i - 1) : a[k] = b[k]) /\ (i <= m => a[i] < b[i])
        /\ j <= n + 1 /\ (\A k \in 1..(j - 1) : b[k] = c[k]) /\ (j <= n => b[j] < c[j])
    BY <1>1, <2>1, <2>2, <2>3 DEF ComesBefore
  <2>5. \A k \in 1..l : c[k] \in Int
    BY <2>2
  <2>6. CASE i < j
    <3>1. i \in 1..l /\ i \in 1..(j - 1) /\ \A k \in 1..(i - 1) : k \in 1..(j - 1)
      BY <2>6
    <3>2. b[i] = c[i] /\ \A k \in 1..(i - 1) : a[k] = c[k]
      BY <2>4, <3>1
    <3>3. ComesBefore(a, c, i)
      BY <1>1, <2>2, <2>4, <3>1, <3>2 DEF ComesBefore
    <3> QED
      BY <2>2, <3>1, <3>3, ListBeforeIs
  <2>7. CASE i = j
    <3>1. \A k \in 1..(i - 1) : a[k] = c[k]
      BY <2>4, <2>7
    <3>2. i <= m => a[i] < c[i]
      <4> SUFFICES ASSUME i <= m PROVE a[i] < c[i]
        OBVIOUS
      <4>1. a[i] \in Int /\ b[i] \in Int /\ c[i] \in Int /\ a[i] < b[i] /\ b[i] < c[i]
        BY <1>2, <2>4, <2>5, <2>7
      <4> QED
        BY <4>1
    <3>3. ComesBefore(a, c, i)
      BY <1>1, <2>2, <2>4, <2>7, <3>1, <3>2 DEF ComesBefore
    <3> QED
      BY <2>2, <2>7, <3>3, ListBeforeIs
  <2>8. CASE j < i
    <3>1. j \in 1..m /\ j \in 1..n /\ j \in 1..(i - 1) /\ \A k \in 1..(j - 1) : k \in 1..(i - 1)
      BY <2>4, <2>8
    <3>2. a[j] = b[j] /\ b[j] < c[j] /\ \A k \in 1..(j - 1) : a[k] = c[k]
      BY <2>4, <3>1
    <3>3. ComesBefore(a, c, j)
      BY <1>1, <2>2, <3>1, <3>2 DEF ComesBefore
    <3> QED
      BY <2>2, <3>3, ListBeforeIs
  <2> QED
    BY <2>6, <2>7, <2>8
<1> QED
  BY <1>3, <1>4, <1>5

-----------------------------------------------------------------------------
(* The numbers that states are sorted by.                                  *)
LEMMA StateIdsAre ==
  ASSUME NEW g, SetsIn(g, sets)
  PROVE  \E n \in Nat : /\ StateIds = 0..(n - 1) /\ Cardinality(StateIds) = n
                        /\ IsFiniteSet(StateIds) /\ StateIds \in SUBSET Nat
<1>1. PICK n \in Nat : StateIds = 0..(n - 1)
  BY DEF SetsIn, StateIds
<1>2. 0 \in Int /\ n - 1 \in Int /\ (0 > n - 1 => n = 0) /\ (n - 1) - 0 + 1 = n
  OBVIOUS
<1>3. IsFiniteSet(0..(n - 1)) /\ Cardinality(0..(n - 1)) = n
  BY <1>2, FS_Interval
<1> QED
  BY <1>1, <1>3

LEMMA StateSymbolIs ==
  ASSUME SoundGrammar(grammar), NEW s \in StateIds, SetIn(grammar, sets[s])
  PROVE  /\ StateSymbol(s) \in Int
         /\ \A x : ArrivedBy(grammar, sets[s].kernel, x) => StateSymbol(s) = x
<1>1. PICK kernel : kernel = sets[s].kernel
  OBVIOUS
<1>2. KernelIn(grammar, kernel)
  BY <1>1 DEF SetIn
<1>3. PICK moved : moved = {i \in DOMAIN kernel : kernel[i].dot > 0}
  OBVIOUS
<1>4. PICK n \in Nat : DOMAIN kernel = 1..n
  BY <1>2, ListLength DEF KernelIn
<1>5. StateSymbol(s) = IF moved = {} THEN 0
                       ELSE Rhs(kernel[Min(moved)].prod)[kernel[Min(moved)].dot]
  BY <1>1, <1>3 DEF StateSymbol
<1>6. moved # {} => Min(moved) \in moved
  <2>1. moved \in SUBSET Nat
    BY <1>3, <1>4
  <2> QED
    BY <2>1, MinIs
<1>7. ASSUME NEW i \in moved
      PROVE  SymbolIn(grammar.terms, grammar.nonterms, Rhs(kernel[i].prod)[kernel[i].dot])
  <2>1. i \in DOMAIN kernel /\ kernel[i].dot > 0
    BY <1>3, <1>7
  <2>2. ItemIn(grammar, kernel[i])
    BY <1>2, <2>1 DEF KernelIn
  <2>3. PICK r : r = Rhs(kernel[i].prod)
    OBVIOUS
  <2>4. IsList(r) /\ \A j \in DOMAIN r : SymbolIn(grammar.terms, grammar.nonterms, r[j])
    BY <2>2, <2>3 DEF SoundGrammar, Rhs, ItemIn
  <2>5. PICK m \in Nat : m = Len(r) /\ DOMAIN r = 1..m
    BY <2>4, ListLength
  <2>6. kernel[i].dot \in 0..m
    BY <2>2, <2>3, <2>5 DEF ItemIn, Rhs
  <2>7. kernel[i].dot \in 1..m
    BY <2>1, <2>6
  <2> QED
    BY <2>3, <2>4, <2>5, <2>7
<1>8. StateSymbol(s) \in Int
  <2>1. CASE moved = {}
    BY <1>5, <2>1
  <2>2. CASE moved # {}
    BY <1>5, <1>6, <1>7, <2>2 DEF SymbolIn
  <2> QED
    BY <2>1, <2>2
<1>9. ASSUME NEW x, ArrivedBy(grammar, kernel, x) PROVE StateSymbol(s) = x
  <2>1. moved # {}
    BY <1>3, <1>9 DEF ArrivedBy
  <2>2. Min(moved) \in DOMAIN kernel
    BY <1>3, <1>6, <2>1
  <2>3. Rhs(kernel[Min(moved)].prod)[kernel[Min(moved)].dot] = x
    BY <1>9, <2>2 DEF ArrivedBy, Rhs
  <2> QED
    BY <1>5, <2>1, <2>3
<1> QED
  BY <1>1, <1>8, <1>9

\* The positions of the items that are reduced before t.
Ready(g, set, t) ==
  {i \in DOMAIN All(set) : EndOf(g.prods, All(set)[i]) /\ t \in All(set)[i].la}

LEMMA ReductionsAre ==
  ASSUME NEW s, SetIn(grammar, sets[s]), NEW t
  PROVE  /\ IsList(PossibleReductions(s, t))
         /\ ToSymbolSet(PossibleReductions(s, t)) =
              {it.prod : it \in {a \in ToSymbolSet(All(sets[s])) :
                                   EndOf(grammar.prods, a) /\ t \in a.la}}
         /\ ToSymbolSet(PossibleReductions(s, t)) \subseteq Prods
<1>1. PICK items, K : items = All(sets[s]) /\ K = Ready(grammar, sets[s], t)
  OBVIOUS
<1>2. IsList(items) /\ \A it \in ToSymbolSet(items) : it.prod \in Prods
  BY <1>1, ItemsOfSet DEF ItemIn, Prods
<1>3. PICK n \in Nat : DOMAIN items = 1..n
  BY <1>2, ListLength
<1>4. K \in SUBSET Int /\ IsFiniteSet(K)
  <2>1. K \in SUBSET (1..n)
    BY <1>1, <1>3 DEF Ready
  <2>2. IsFiniteSet(1..n)
    BY FS_Interval
  <2>3. IsFiniteSet(K)
    BY ONLY <2>1, <2>2, FS_Subset
  <2>4. K \in SUBSET Int
    BY <2>1
  <2> QED
    BY <2>3, <2>4
<1>5. PICK ready : ready = Selected(items, K)
  OBVIOUS
<1>6. /\ IsList(ready) /\ DOMAIN ready = 1..Cardinality(K) /\ Cardinality(K) \in Nat
      /\ ToSymbolSet(ready) = {items[k] : k \in K}
  BY ONLY <1>4, <1>5, SelectedIs
<1>7. PICK reds : reds = PossibleReductions(s, t)
  OBVIOUS
<1>8. reds = [i \in DOMAIN ready |-> ready[i].prod]
  BY <1>1, <1>5, <1>7 DEF PossibleReductions, Ready, AllItems, All, DotAtEnd, EndOf, Rhs
<1>9. IsList(reds) /\ DOMAIN reds = DOMAIN ready
  BY <1>6, <1>8, IsAList
<1>10. {items[k] : k \in K} = {a \in ToSymbolSet(items) : EndOf(grammar.prods, a) /\ t \in a.la}
  BY <1>1 DEF Ready, ToSymbolSet
<1>11. ToSymbolSet(reds) = {it.prod : it \in ToSymbolSet(ready)}
  BY <1>8, <1>9 DEF ToSymbolSet
<1>12. ToSymbolSet(reds) = {it.prod : it \in {a \in ToSymbolSet(items) :
                                               EndOf(grammar.prods, a) /\ t \in a.la}}
  BY <1>6, <1>10, <1>11
<1>13. ToSymbolSet(reds) \subseteq Prods
  BY <1>2, <1>12
<1> QED
  BY <1>1, <1>7, <1>9, <1>12, <1>13

LEMMA ProductionKeyIn ==
  ASSUME SoundGrammar(grammar), NEW p \in Prods
  PROVE  ProductionKey(p) \in Seq(Int)
<1>1. PICK r : r = Rhs(p)
  OBVIOUS
<1>2. /\ IsList(r) /\ \A i \in DOMAIN r : SymbolIn(grammar.terms, grammar.nonterms, r[i])
      /\ Lhs(p) \in Int
  BY <1>1 DEF SoundGrammar, Rhs, Prods, Lhs
<1>3. PICK n \in Nat : DOMAIN r = 1..n
  BY <1>2, ListLength
<1>4. PICK q : q = [i \in DOMAIN r |-> IF IsTerminal(r[i]) THEN <<1, TermIndex(r[i])>>
                                                      ELSE <<0, NtIndex(r[i])>>]
  OBVIOUS
<1>5. ASSUME NEW i \in 1..n PROVE q[i] \in Seq(Int)
  <2>1. r[i] \in Int
    BY <1>2, <1>3, <1>5 DEF SymbolIn
  <2>2. TermIndex(r[i]) \in Int /\ NtIndex(r[i]) \in Int
    BY <2>1 DEF TermIndex, NtIndex
  <2>3. <<1, TermIndex(r[i])>> \in Seq(Int) /\ <<0, NtIndex(r[i])>> \in Seq(Int)
    BY <2>2
  <2> QED
    BY <1>3, <1>4, <1>5, <2>3
<1>6. q \in [1..n -> Seq(Int)]
  BY <1>3, <1>4, <1>5
<1>7. FlattenSeq(q) \in Seq(Int)
  BY <1>6, FlattenedIn
<1>8. <<Lhs(p)>> \in Seq(Int)
  BY <1>2
<1>9. ProductionKey(p) = <<Lhs(p)>> \o FlattenSeq(q)
  BY <1>1, <1>4 DEF ProductionKey
<1>10. PICK u, v : u = <<Lhs(p)>> /\ v = FlattenSeq(q)
  OBVIOUS
<1>11. u \o v \in Seq(Int)
  <2>1. u \in Seq(Int) /\ v \in Seq(Int)
    BY <1>7, <1>8, <1>10
  <2> QED
    BY ONLY <2>1
<1> QED
  BY <1>9, <1>10, <1>11

RankIn(ranked, p) == (CHOOSE r \in ranked : r[1] = p)[2]

LEMMA RanksIn ==
  ASSUME SoundGrammar(grammar)
  PROVE  \A p \in Prods : RankIn(ProductionRanks, p) \in Nat
<1>1. IsFiniteSet(Prods)
  <2>1. PICK m \in Nat : Prods = 1..m
    BY ListLength DEF SoundGrammar, Prods
  <2> QED
    BY <2>1, FS_Interval
<1>2. PICK keyed : keyed = {<<q, ProductionKey(q)>> : q \in Prods}
  OBVIOUS
<1>3. IsFiniteSet(keyed)
  <2>1. PICK f : f = [q \in Prods |-> <<q, ProductionKey(q)>>]
    OBVIOUS
  <2>2. DOMAIN f = Prods /\ {f[q] : q \in Prods} = keyed
    BY <1>2, <2>1
  <2> QED
    BY ONLY <1>1, <2>2, FiniteImage
<1>4. ASSUME NEW k \in keyed
      PROVE  Cardinality({j[2] : j \in {i \in keyed : ListBefore(i[2], k[2])}}) \in Nat
  <2>1. PICK T : T = {i \in keyed : ListBefore(i[2], k[2])}
    OBVIOUS
  <2>2. IsFiniteSet(T)
    <3>1. T \in SUBSET keyed
      BY <2>1
    <3> QED
      BY <1>3, <3>1, FS_Subset
  <2>3. IsFiniteSet({j[2] : j \in T})
    <3>1. PICK f : f = [j \in T |-> j[2]]
      OBVIOUS
    <3>2. DOMAIN f = T /\ {f[j] : j \in T} = {j[2] : j \in T}
      BY <3>1
    <3>3. IsFiniteSet({f[j] : j \in T})
      BY ONLY <2>2, <3>2, FiniteImage
    <3> QED
      BY <3>2, <3>3
  <2> QED
    BY <2>1, <2>3, FS_CardinalityType
<1>5. PICK ranked : ranked = ProductionRanks
  OBVIOUS
<1>6. ranked = {<<k[1], Cardinality({j[2] : j \in {i \in keyed : ListBefore(i[2], k[2])}})>> :
                  k \in keyed}
  BY <1>2, <1>5 DEF ProductionRanks
<1>7. ASSUME NEW r \in ranked PROVE r[2] \in Nat
  <2>1. PICK k \in keyed :
          r = <<k[1], Cardinality({j[2] : j \in {i \in keyed : ListBefore(i[2], k[2])}})>>
    BY <1>6, <1>7
  <2>2. PICK c \in Nat : c = Cardinality({j[2] : j \in {i \in keyed : ListBefore(i[2], k[2])}})
    BY <1>4
  <2>3. r = <<k[1], c>>
    BY <2>1, <2>2
  <2> QED
    BY <2>3
<1>8. ASSUME NEW p \in Prods PROVE RankIn(ranked, p) \in Nat
  <2>1. <<p, ProductionKey(p)>> \in keyed /\ <<p, ProductionKey(p)>>[1] = p
    BY <1>2, <1>8
  <2>2. \E r \in ranked : r[1] = p
    <3>1. PICK k \in keyed : k = <<p, ProductionKey(p)>>
      BY <2>1
    <3>2. PICK c : c = Cardinality({j[2] : j \in {i \in keyed : ListBefore(i[2], k[2])}})
      OBVIOUS
    <3>3. <<k[1], c>> \in ranked
      BY <1>6, <3>2
    <3>4. <<k[1], c>>[1] = p
      BY <3>1
    <3> QED
      BY <3>3, <3>4
  <2> QED
    BY <1>7, <2>2 DEF RankIn
<1> QED
  BY <1>5, <1>8

-----------------------------------------------------------------------------
(* A stable order by rank.                                                 *)
ByRank(rk, n) ==
  {e \in (1..n) \X (1..n) : rk[e[1]] < rk[e[2]] \/ (rk[e[1]] = rk[e[2]] /\ e[1] < e[2])}

LEMMA RankedListed ==
  ASSUME NEW n \in Nat, NEW rk \in [1..n -> Int],
         NEW r, r = [i \in 1..Cardinality(1..n) |-> r[i]],
         \A i, x \in 1..n :
           Cardinality({y \in 1..n : rk[y] < rk[x] \/ (rk[y] = rk[x] /\ y < x)}) = i - 1 =>
             r[i] \in 1..n
  PROVE  r \in [1..n -> 1..n]
<1>1. PICK S, R : S = 1..n /\ R = ByRank(rk, n)
  OBVIOUS
<1>2. \A x, y \in S : <<x, y>> \in R <=> rk[x] < rk[y] \/ (rk[x] = rk[y] /\ x < y)
  BY <1>1 DEF ByRank
<1>3. \A x \in S : x \in Int /\ rk[x] \in Int
  BY <1>1
<1>4. TotalOrder(R, S)
  <2>1. \A x \in S : <<x, x>> \notin R
    BY ONLY <1>2, <1>3
  <2>2. ASSUME NEW x \in S, NEW y \in S, x # y PROVE <<x, y>> \in R \/ <<y, x>> \in R
    <3>1. PICK a \in Int, b \in Int : a = rk[x] /\ b = rk[y]
      BY <1>3
    <3>2. (a < b \/ (a = b /\ x < y)) \/ (b < a \/ (b = a /\ y < x))
      BY ONLY <1>3, <2>2, x \in S, y \in S, a \in Int, b \in Int
    <3> QED
      BY <1>2, <3>1, <3>2
  <2>3. ASSUME NEW x \in S, NEW y \in S, NEW z \in S, <<x, y>> \in R, <<y, z>> \in R
        PROVE  <<x, z>> \in R
    <3>1. PICK a \in Int, b \in Int, c \in Int : a = rk[x] /\ b = rk[y] /\ c = rk[z]
      BY <1>3
    <3>2. (a < b \/ (a = b /\ x < y)) /\ (b < c \/ (b = c /\ y < z))
      BY <1>2, <2>3, <3>1
    <3>3. a < c \/ (a = c /\ x < z)
      BY ONLY <1>3, <3>2, x \in S, y \in S, z \in S, a \in Int, b \in Int, c \in Int
    <3> QED
      BY <1>2, <3>1, <3>3
  <2> QED
    BY <2>1, <2>2, <2>3 DEF TotalOrder
<1>5. IsFiniteSet(S) /\ Cardinality(S) = n
  <2>1. 1 \in Int /\ n \in Int /\ (1 > n => n = 0) /\ n - 1 + 1 = n
    OBVIOUS
  <2> QED
    BY <1>1, <2>1, FS_Interval
<1>6. \A x \in S : Behind(R, S, x) = {y \in 1..n : rk[y] < rk[x] \/ (rk[y] = rk[x] /\ y < x)}
  BY <1>1, <1>2 DEF Behind
<1>7. ASSUME NEW i \in 1..n PROVE r[i] \in 1..n
  <2>1. i - 1 \in 0..(n - 1)
    OBVIOUS
  <2>2. PICK x \in S : Cardinality(Behind(R, S, x)) = i - 1
    BY <1>4, <1>5, <2>1, PlaceTaken
  <2> QED
    BY <1>1, <1>6, <2>2
<1> QED
  BY <1>1, <1>5, <1>7

\* The ranks of reductions in order.
SortedRanks(ranked, reds) ==
  LET before(i, j) == RankIn(ranked, reds[i]) < RankIn(ranked, reds[j]) \/
                      (RankIn(ranked, reds[i]) = RankIn(ranked, reds[j]) /\ i < j)
      sorted == InOrder(DOMAIN reds, before)
  IN  [i \in DOMAIN sorted |-> RankIn(ranked, reds[sorted[i]])]
TargetKey(s, x) ==
  IF x \in DOMAIN sets[s].trans THEN <<0, sets[s].trans[x]>> ELSE <<1, 0>>

LEMMA SortedRanksIn ==
  ASSUME NEW ranked, NEW reds, IsList(reds), \A p \in ToSymbolSet(reds) : RankIn(ranked, p) \in Int
  PROVE  SortedRanks(ranked, reds) \in Seq(Int)
<1>1. PICK n \in Nat : DOMAIN reds = 1..n
  BY ListLength
<1>2. PICK rk : rk = [i \in 1..n |-> RankIn(ranked, reds[i])]
  OBVIOUS
<1>3. rk \in [1..n -> Int]
  BY <1>1, <1>2 DEF ToSymbolSet
<1>4. Cardinality(1..n) = n
  <2>1. 1 \in Int /\ n \in Int /\ (1 > n => n = 0) /\ n - 1 + 1 = n
    OBVIOUS
  <2> QED
    BY <2>1, FS_Interval
<1>5. PICK sorted : sorted = InOrder(DOMAIN reds, LAMBDA i, j :
                  RankIn(ranked, reds[i]) < RankIn(ranked, reds[j]) \/
                  (RankIn(ranked, reds[i]) = RankIn(ranked, reds[j]) /\ i < j))
  OBVIOUS
<1>6. sorted \in [1..n -> 1..n]
  <2>1. sorted = [i \in 1..Cardinality(1..n) |-> CHOOSE x \in 1..n :
          Cardinality({y \in 1..n : RankIn(ranked, reds[y]) < RankIn(ranked, reds[x]) \/
             (RankIn(ranked, reds[y]) = RankIn(ranked, reds[x]) /\ y < x)}) = i - 1]
    BY <1>1, <1>5 DEF InOrder
  <2>2. ASSUME NEW i \in 1..n, NEW x \in 1..n,
               Cardinality({y \in 1..n : rk[y] < rk[x] \/ (rk[y] = rk[x] /\ y < x)}) = i - 1
        PROVE  sorted[i] \in 1..n
    <3>1. {y \in 1..n : rk[y] < rk[x] \/ (rk[y] = rk[x] /\ y < x)} =
            {y \in 1..n : RankIn(ranked, reds[y]) < RankIn(ranked, reds[x]) \/
               (RankIn(ranked, reds[y]) = RankIn(ranked, reds[x]) /\ y < x)}
      BY <1>2
    <3>2. \E z \in 1..n : Cardinality({y \in 1..n : RankIn(ranked, reds[y]) < RankIn(ranked, reds[z]) \/
               (RankIn(ranked, reds[y]) = RankIn(ranked, reds[z]) /\ y < z)}) = i - 1
      BY <2>2, <3>1
    <3>3. sorted[i] = CHOOSE z \in 1..n :
            Cardinality({y \in 1..n : RankIn(ranked, reds[y]) < RankIn(ranked, reds[z]) \/
               (RankIn(ranked, reds[y]) = RankIn(ranked, reds[z]) /\ y < z)}) = i - 1
      BY <1>4, <2>1
    <3> QED
      BY <3>2, <3>3
  <2>3. sorted = [i \in 1..Cardinality(1..n) |-> sorted[i]]
    <3> DEFINE nth(i) == CHOOSE x \in 1..n :
          Cardinality({y \in 1..n : RankIn(ranked, reds[y]) < RankIn(ranked, reds[x]) \/
             (RankIn(ranked, reds[y]) = RankIn(ranked, reds[x]) /\ y < x)}) = i - 1
    <3>1. sorted = [i \in 1..Cardinality(1..n) |-> nth(i)]
      BY <2>1
    <3> HIDE DEF nth
    <3> QED
      BY ONLY <3>1
  <2> QED
    BY <1>3, <2>2, <2>3, RankedListed
<1>8. SortedRanks(ranked, reds) = [i \in DOMAIN sorted |-> RankIn(ranked, reds[sorted[i]])]
  BY <1>5 DEF SortedRanks
<1>9. \A i \in 1..n : RankIn(ranked, reds[sorted[i]]) \in Int
  BY <1>1, <1>6 DEF ToSymbolSet
<1>10. SortedRanks(ranked, reds) \in [1..n -> Int]
  BY <1>6, <1>8, <1>9
<1> QED
  BY <1>10, IsSequence

LEMMA StateKeyIs ==
  ASSUME NEW s, NEW ranked
  PROVE  StateKey(s, ranked) =
           IncomingKey(StateSymbol(s))
             \o FlattenSeq([i \in 1..grammar.terms |-> TargetKey(s, TermId(i - 1))])
             \o FlattenSeq([i \in 1..grammar.nonterms |-> TargetKey(s, NontermId(i - 1))])
             \o FlattenSeq([i \in 1..grammar.terms |->
                  Append(SortedRanks(ranked, PossibleReductions(s, i - 1)), -1)])
BY DEF StateKey, TargetKey, SortedRanks, RankIn

LEMMA StateKeyIn ==
  ASSUME SoundGrammar(grammar), SetsIn(grammar, sets), NEW s \in StateIds
  PROVE  StateKey(s, ProductionRanks) \in Seq(Int)
<1>1. SetIn(grammar, sets[s]) /\ grammar.terms \in Nat /\ grammar.nonterms \in Nat
  BY DEF SetsIn, StateIds, SoundGrammar
<1>2. \A x : TargetKey(s, x) \in Seq(Int)
  <2> TAKE x
  <2>1. <<1, 0>> \in Seq(Int)
    OBVIOUS
  <2>2. ASSUME x \in DOMAIN sets[s].trans PROVE <<0, sets[s].trans[x]>> \in Seq(Int)
    <3>1. sets[s].trans[x] \in Int
      <4>1. sets[s].trans[x] \in StateIds
        BY <2>2 DEF SetsIn, StateIds
      <4> QED
        BY <4>1, StateIdsAre
    <3> QED
      BY <3>1
  <2> QED
    BY <2>1, <2>2 DEF TargetKey
<1>3. IncomingKey(StateSymbol(s)) \in Seq(Int)
  <2>1. PICK x \in Int : x = StateSymbol(s)
    BY <1>1, StateSymbolIs
  <2>2. TermIndex(x) \in Int /\ NtIndex(x) \in Int
    BY DEF TermIndex, NtIndex
  <2>3. /\ <<0, 0>> \in Seq(Int) /\ <<1, TermIndex(x)>> \in Seq(Int)
        /\ <<2, NtIndex(x)>> \in Seq(Int)
    BY <2>2
  <2> QED
    BY <2>1, <2>3 DEF IncomingKey
<1>4. PICK ranked : ranked = ProductionRanks
  OBVIOUS
<1>5. ASSUME NEW t PROVE Append(SortedRanks(ranked, PossibleReductions(s, t)), -1) \in Seq(Int)
  <2>1. PICK reds : reds = PossibleReductions(s, t)
    OBVIOUS
  <2>2. IsList(reds) /\ \A p \in ToSymbolSet(reds) : RankIn(ranked, p) \in Int
    <3>1. IsList(reds) /\ ToSymbolSet(reds) \subseteq Prods
      BY <1>1, <2>1, ReductionsAre
    <3> QED
      BY <1>4, <3>1, RanksIn
  <2>3. PICK q : q = SortedRanks(ranked, reds)
    OBVIOUS
  <2>4. q \in Seq(Int)
    BY <2>2, <2>3, SortedRanksIn
  <2>5. Append(q, -1) \in Seq(Int)
    BY ONLY <2>4
  <2> QED
    BY <2>1, <2>3, <2>5
<1>6. PICK a, b, c, d :
        /\ a = IncomingKey(StateSymbol(s))
        /\ b = FlattenSeq([i \in 1..grammar.terms |-> TargetKey(s, TermId(i - 1))])
        /\ c = FlattenSeq([i \in 1..grammar.nonterms |-> TargetKey(s, NontermId(i - 1))])
        /\ d = FlattenSeq([i \in 1..grammar.terms |->
                  Append(SortedRanks(ranked, PossibleReductions(s, i - 1)), -1)])
  OBVIOUS
<1>7. b \in Seq(Int)
  <2>1. PICK q : q = [i \in 1..grammar.terms |-> TargetKey(s, TermId(i - 1))]
    OBVIOUS
  <2>2. q \in [1..grammar.terms -> Seq(Int)]
    BY <1>2, <2>1
  <2> QED
    BY <1>1, <1>6, <2>1, <2>2, FlattenedIn
<1>8. c \in Seq(Int)
  <2>1. PICK q : q = [i \in 1..grammar.nonterms |-> TargetKey(s, NontermId(i - 1))]
    OBVIOUS
  <2>2. q \in [1..grammar.nonterms -> Seq(Int)]
    BY <1>2, <2>1
  <2> QED
    BY <1>1, <1>6, <2>1, <2>2, FlattenedIn
<1>9. d \in Seq(Int)
  <2>1. PICK q : q = [i \in 1..grammar.terms |->
                        Append(SortedRanks(ranked, PossibleReductions(s, i - 1)), -1)]
    OBVIOUS
  <2>2. q \in [1..grammar.terms -> Seq(Int)]
    BY <1>5, <2>1
  <2> QED
    BY <1>1, <1>6, <2>1, <2>2, FlattenedIn
<1>10. a \in Seq(Int)
  BY <1>3, <1>6
<1>11. a \o b \o c \o d \in Seq(Int)
  BY ONLY <1>7, <1>8, <1>9, <1>10
<1>12. StateKey(s, ranked) = a \o b \o c \o d
  BY <1>6, StateKeyIs
<1> QED
  BY <1>4, <1>11, <1>12

-----------------------------------------------------------------------------
(* The new numbers of the states are the old ones in another order.        *)
IsRenumbered(all, new, old, to) ==
  /\ old \in [DOMAIN all -> DOMAIN all] /\ to \in [DOMAIN all -> DOMAIN all]
  /\ \A s \in DOMAIN all : old[to[s]] = s /\ to[old[s]] = s
  /\ new = [n \in DOMAIN all |-> [all[old[n]] EXCEPT !.trans = [x \in DOMAIN @ |-> to[@[x]]]]]

KeyBefore(a, b) == ListBefore(a[1], b[1]) \/ (a[1] = b[1] /\ a[2] < b[2])
BehindIsBefore(R, keyed) == \A j, k \in keyed : j \in Behind(R, keyed, k) <=> KeyBefore(j, k)
LEMMA KeyedAre ==
  ASSUME NEW n \in Nat, NEW key \in [0..(n - 1) -> Seq(Int)],
         NEW keyed, keyed = {<<key[s], s>> : s \in 0..(n - 1)},
         NEW R, R = {e \in keyed \X keyed : ListBefore(e[1][1], e[2][1]) \/
                       (e[1][1] = e[2][1] /\ e[1][2] < e[2][2])}
  PROVE  /\ TotalOrder(R, keyed) /\ IsFiniteSet(keyed) /\ Cardinality(keyed) = n
         /\ BehindIsBefore(R, keyed)
<1>1. \A k \in keyed : k[2] \in 0..(n - 1) /\ k[1] = key[k[2]] /\ k = <<key[k[2]], k[2]>>
  OBVIOUS
<1>2. \A k \in keyed : k[1] \in Seq(Int) /\ k[2] \in Int
  BY <1>1
<1>3. \A j, k \in keyed : <<j, k>> \in R <=> ListBefore(j[1], k[1]) \/ (j[1] = k[1] /\ j[2] < k[2])
  <2> TAKE j \in keyed, k \in keyed
  <2>1. <<j, k>> \in keyed \X keyed /\ <<j, k>>[1] = j /\ <<j, k>>[2] = k
    OBVIOUS
  <2> QED
    BY <2>1
<1>4. TotalOrder(R, keyed)
  <2>1. ASSUME NEW k \in keyed PROVE <<k, k>> \notin R
    <3>1. k[1] \in Seq(Int) /\ k[2] \in Int
      BY <1>2
    <3>2. ~ ListBefore(k[1], k[1]) /\ ~ k[2] < k[2]
      BY <3>1, ListsOrdered
    <3> QED
      BY <1>3, <3>2
  <2>2. ASSUME NEW j \in keyed, NEW k \in keyed, j # k
        PROVE  <<j, k>> \in R \/ <<k, j>> \in R
    <3>1. j[1] \in Seq(Int) /\ k[1] \in Seq(Int) /\ j[2] \in Int /\ k[2] \in Int
      BY <1>2
    <3>2. CASE j[1] = k[1]
      <4>1. j[2] # k[2]
        BY <1>1, <2>2, <3>2
      <4>2. j[2] < k[2] \/ k[2] < j[2]
        BY <3>1, <4>1
      <4> QED
        BY <1>3, <3>2, <4>2
    <3>3. CASE j[1] # k[1]
      <4>1. ListBefore(j[1], k[1]) \/ ListBefore(k[1], j[1])
        BY <3>1, <3>3, ListsOrdered
      <4> QED
        BY <1>3, <4>1
    <3> QED
      BY <3>2, <3>3
  <2>3. ASSUME NEW i \in keyed, NEW j \in keyed, NEW k \in keyed, <<i, j>> \in R, <<j, k>> \in R
        PROVE  <<i, k>> \in R
    <3>1. PICK a, b, c \in Seq(Int) : a = i[1] /\ b = j[1] /\ c = k[1]
      BY <1>2
    <3>2. PICK p, q, r \in Int : p = i[2] /\ q = j[2] /\ r = k[2]
      BY <1>2
    <3>3. /\ ListBefore(a, b) \/ (a = b /\ p < q)
          /\ ListBefore(b, c) \/ (b = c /\ q < r)
      BY <1>3, <2>3, <3>1, <3>2
    <3>4. ListBefore(a, b) /\ ListBefore(b, c) => ListBefore(a, c)
      BY ListsOrdered
    <3>5. ListBefore(a, c) \/ (a = c /\ p < r)
      BY <3>3, <3>4
    <3> QED
      BY <1>3, <3>1, <3>2, <3>5
  <2>4. \A k \in keyed : <<k, k>> \notin R
    BY ONLY <2>1
  <2>5. \A j, k \in keyed : j = k \/ <<j, k>> \in R \/ <<k, j>> \in R
    BY ONLY <2>2
  <2>6. \A i, j, k \in keyed : <<i, j>> \in R /\ <<j, k>> \in R => <<i, k>> \in R
    BY ONLY <2>3
  <2> QED
    BY ONLY <2>4, <2>5, <2>6 DEF TotalOrder
<1>5. IsFiniteSet(keyed) /\ Cardinality(keyed) = n
  <2>1. PICK f : f = [s \in 0..(n - 1) |-> <<key[s], s>>]
    OBVIOUS
  <2>2. IsFiniteSet(0..(n - 1)) /\ Cardinality(0..(n - 1)) = n
    <3>1. 0 \in Int /\ n - 1 \in Int /\ (0 > n - 1 => n = 0) /\ (n - 1) - 0 + 1 = n
      OBVIOUS
    <3> QED
      BY <3>1, FS_Interval
  <2>3. f \in Bijection(0..(n - 1), keyed)
    <3>1. f \in [0..(n - 1) -> keyed]
      BY <2>1
    <3>2. \A s, t \in 0..(n - 1) : f[s] = f[t] => s = t
      BY <2>1
    <3>3. \A k \in keyed : \E s \in 0..(n - 1) : f[s] = k
      BY <2>1
    <3> QED
      BY <3>1, <3>2, <3>3 DEF Bijection, Injection, Surjection, IsInjective
  <2> QED
    BY <2>2, <2>3, FS_Bijection DEF ExistsBijection
<1>6. BehindIsBefore(R, keyed)
  BY <1>3 DEF Behind, KeyBefore, BehindIsBefore
<1> QED
  BY <1>4, <1>5, <1>6

NewIn(number, s) == (CHOOSE e \in number : e[1] = s)[2]
OldIn(number, n) == (CHOOSE e \in number : e[2] = n)[1]
KeyedStates == {<<StateKey(s, ProductionRanks), s>> : s \in StateIds}
NumberedStates(keyed) ==
  {<<k[2], Cardinality({j \in keyed : KeyBefore(j, k)})>> : k \in keyed}
RenumberedBy(number) ==
  [n \in StateIds |-> [sets[OldIn(number, n)] EXCEPT !.trans =
                         [x \in DOMAIN @ |-> NewIn(number, @[x])]]]

LEMMA RenumberIs ==
  ASSUME RenumberStates
  PROVE  sets' = RenumberedBy(NumberedStates(KeyedStates))
<1>1. \E ranked \in {ProductionRanks} :
      \E keyed \in {{<<StateKey(s, ranked), s>> : s \in StateIds}} :
      \E number \in {NumberedStates(keyed)} : sets' = RenumberedBy(number)
  BY DEF RenumberStates, RenumberedBy, NumberedStates, KeyBefore, NewIn, OldIn
<1>2. PICK ranked \in {ProductionRanks} :
      \E keyed \in {{<<StateKey(s, ranked), s>> : s \in StateIds}} :
      \E number \in {NumberedStates(keyed)} : sets' = RenumberedBy(number)
  BY <1>1
<1>3. PICK keyed \in {{<<StateKey(s, ranked), s>> : s \in StateIds}} :
      \E number \in {NumberedStates(keyed)} : sets' = RenumberedBy(number)
  BY <1>2
<1>4. PICK number \in {NumberedStates(keyed)} : sets' = RenumberedBy(number)
  BY <1>3
<1>5. ranked = ProductionRanks
  BY <1>2
<1>6. keyed = KeyedStates
  BY <1>3, <1>5 DEF KeyedStates
<1>7. number = NumberedStates(keyed)
  BY <1>4
<1> QED
  BY <1>4, <1>6, <1>7

IsNumbering(number, to, S) ==
  /\ \A s \in S : NewIn(number, s) = to[s]
  /\ \A m \in S : OldIn(number, m) \in S /\ to[OldIn(number, m)] = m
LEMMA NumbersAre ==
  ASSUME NEW S, NEW to \in [S -> S],
         \A s, t \in S : to[s] = to[t] => s = t,
         \A m \in S : \E s \in S : to[s] = m,
         NEW number, \A s \in S : <<s, to[s]>> \in number,
         \A e \in number : \E s \in S : e = <<s, to[s]>>
  PROVE  IsNumbering(number, to, S)
<1>1. ASSUME NEW s \in S PROVE NewIn(number, s) = to[s]
  <2>1. \E e \in number : e[1] = s
    <3>1. <<s, to[s]>> \in number /\ <<s, to[s]>>[1] = s
      OBVIOUS
    <3> QED
      BY <3>1
  <2>2. PICK e : e = CHOOSE d \in number : d[1] = s
    OBVIOUS
  <2>3. e \in number /\ e[1] = s
    BY <2>1, <2>2
  <2>4. e[2] = to[s]
    <3>1. PICK t \in S : e = <<t, to[t]>>
      BY <2>3
    <3>2. e[1] = t /\ e[2] = to[t]
      BY <3>1
    <3> QED
      BY <2>3, <3>2
  <2> QED
    BY <2>2, <2>4 DEF NewIn
<1>2. ASSUME NEW m \in S
      PROVE  OldIn(number, m) \in S /\ to[OldIn(number, m)] = m
  <2>1. \E e \in number : e[2] = m
    <3>1. PICK s \in S : to[s] = m
      OBVIOUS
    <3>2. <<s, to[s]>> \in number /\ <<s, to[s]>>[2] = m
      BY <3>1
    <3> QED
      BY <3>2
  <2>2. PICK e : e = CHOOSE d \in number : d[2] = m
    OBVIOUS
  <2>3. e \in number /\ e[2] = m
    BY <2>1, <2>2
  <2>4. e[1] \in S /\ to[e[1]] = m
    BY <2>3
  <2> QED
    BY <2>2, <2>4 DEF OldIn
<1> QED
  BY <1>1, <1>2 DEF IsNumbering

LEMMA RenumberedIs ==
  ASSUME SoundGrammar(grammar), SetsIn(grammar, sets), RenumberStates
  PROVE  \E old, to : IsRenumbered(sets, sets', old, to)
<1>1. PICK n \in Nat : StateIds = 0..(n - 1)
  BY StateIdsAre
<1>2. PICK key : key = [s \in 0..(n - 1) |-> StateKey(s, ProductionRanks)]
  OBVIOUS
<1>3. key \in [0..(n - 1) -> Seq(Int)]
  BY <1>1, <1>2, StateKeyIn
<1>4. PICK keyed : keyed = KeyedStates
  OBVIOUS
<1>5. keyed = {<<key[s], s>> : s \in 0..(n - 1)}
  BY <1>1, <1>2, <1>4 DEF KeyedStates
<1>6. PICK R : R = {e \in keyed \X keyed : ListBefore(e[1][1], e[2][1]) \/
                       (e[1][1] = e[2][1] /\ e[1][2] < e[2][2])}
  OBVIOUS
<1>7. /\ TotalOrder(R, keyed) /\ IsFiniteSet(keyed) /\ Cardinality(keyed) = n
      /\ \A k \in keyed : Behind(R, keyed, k) = {j \in keyed : KeyBefore(j, k)}
  <2>1. TotalOrder(R, keyed)
    BY <1>3, <1>5, <1>6, KeyedAre
  <2>2. IsFiniteSet(keyed) /\ Cardinality(keyed) = n
    BY <1>3, <1>5, <1>6, KeyedAre
  <2>3. \A k \in keyed : Behind(R, keyed, k) = {j \in keyed : KeyBefore(j, k)}
    <3>1. \A j, k \in keyed : j \in Behind(R, keyed, k) <=> KeyBefore(j, k)
      <4>1. BehindIsBefore(R, keyed)
        BY <1>3, <1>5, <1>6, KeyedAre
      <4> QED
        BY <4>1 DEF BehindIsBefore
    <3>2. \A k \in keyed : Behind(R, keyed, k) \subseteq keyed
      BY DEF Behind
    <3> QED
      BY ONLY <3>1, <3>2
  <2> QED
    BY ONLY <2>1, <2>2, <2>3
<1>8. PICK to : to = [s \in 0..(n - 1) |-> Cardinality(Behind(R, keyed, <<key[s], s>>))]
  OBVIOUS
<1>9. PICK number : number = NumberedStates(keyed)
  OBVIOUS
<1>10. /\ \A s \in 0..(n - 1) : <<s, to[s]>> \in number
       /\ \A e \in number : \E s \in 0..(n - 1) : e = <<s, to[s]>>
  <2>1. \A k \in keyed : k[2] \in 0..(n - 1) /\ k = <<key[k[2]], k[2]>>
                         /\ <<k[2], Cardinality({j \in keyed : KeyBefore(j, k)})>> = <<k[2], to[k[2]]>>
    <3> TAKE k \in keyed
    <3>1. k[2] \in 0..(n - 1) /\ k = <<key[k[2]], k[2]>>
      BY <1>5
    <3>2. to[k[2]] = Cardinality(Behind(R, keyed, k))
      BY <1>8, <3>1
    <3> QED
      BY <1>7, <3>1, <3>2
  <2>2. \A s \in 0..(n - 1) : \E k \in keyed : k[2] = s
    <3> TAKE s \in 0..(n - 1)
    <3>1. <<key[s], s>> \in keyed /\ <<key[s], s>>[2] = s
      BY <1>5
    <3> QED
      BY <3>1
  <2>3. number = {<<k[2], Cardinality({j \in keyed : KeyBefore(j, k)})>> : k \in keyed}
    BY <1>9 DEF NumberedStates
  <2>4. ASSUME NEW e \in number PROVE \E s \in 0..(n - 1) : e = <<s, to[s]>>
    <3>1. PICK k \in keyed : e = <<k[2], Cardinality({j \in keyed : KeyBefore(j, k)})>>
      BY <2>3
    <3>2. k[2] \in 0..(n - 1) /\ e = <<k[2], to[k[2]]>>
      BY <2>1, <3>1
    <3> QED
      BY <3>2
  <2>5. \A s \in 0..(n - 1) : <<s, to[s]>> \in number
    BY <2>1, <2>2, <2>3
  <2> QED
    BY ONLY <2>4, <2>5
<1>11. \A s \in 0..(n - 1) : <<key[s], s>> \in keyed
  BY <1>5
<1>12. to \in [0..(n - 1) -> 0..(n - 1)]
  BY <1>7, <1>8, <1>11, Places
<1>13. \A s, t \in 0..(n - 1) : to[s] = to[t] => s = t
  <2> SUFFICES ASSUME NEW s \in 0..(n - 1), NEW t \in 0..(n - 1), to[s] = to[t] PROVE s = t
    OBVIOUS
  <2>1. Cardinality(Behind(R, keyed, <<key[s], s>>)) = Cardinality(Behind(R, keyed, <<key[t], t>>))
    BY <1>8
  <2>2. <<key[s], s>> = <<key[t], t>>
    BY <1>7, <1>11, <2>1, Places
  <2> QED
    BY <2>2
<1>14. \A m \in 0..(n - 1) : \E s \in 0..(n - 1) : to[s] = m
  <2> TAKE m \in 0..(n - 1)
  <2>1. PICK k \in keyed : Cardinality(Behind(R, keyed, k)) = m
    BY <1>7, PlaceTaken
  <2>2. k[2] \in 0..(n - 1) /\ k = <<key[k[2]], k[2]>>
    BY <1>5
  <2>3. to[k[2]] = m
    BY <1>8, <2>1, <2>2
  <2> QED
    BY <2>2, <2>3
<1>15. PICK old : old = [m \in 0..(n - 1) |-> OldIn(number, m)]
  OBVIOUS
<1>160. IsNumbering(number, to, 0..(n - 1))
  <2>1. PICK S : S = 0..(n - 1)
    OBVIOUS
  <2>2. /\ to \in [S -> S]
        /\ \A s, t \in S : to[s] = to[t] => s = t
        /\ \A m \in S : \E s \in S : to[s] = m
        /\ \A s \in S : <<s, to[s]>> \in number
        /\ \A e \in number : \E s \in S : e = <<s, to[s]>>
    BY <1>10, <1>12, <1>13, <1>14, <2>1
  <2>3. IsNumbering(number, to, S)
    BY ONLY <2>2, NumbersAre
  <2> QED
    BY <2>1, <2>3
<1>16. \A s \in 0..(n - 1) : NewIn(number, s) = to[s]
  BY <1>160 DEF IsNumbering
<1>17. \A m \in 0..(n - 1) : OldIn(number, m) \in 0..(n - 1) /\ to[OldIn(number, m)] = m
  BY <1>160 DEF IsNumbering
<1>18. sets' = RenumberedBy(number)
  BY <1>4, <1>9, RenumberIs
<1>19. \A s \in 0..(n - 1) : sets[s].trans = [x \in DOMAIN sets[s].trans |-> sets[s].trans[x]]
                            => [x \in DOMAIN sets[s].trans |-> NewIn(number, sets[s].trans[x])]
                                 = [x \in DOMAIN sets[s].trans |-> to[sets[s].trans[x]]]
  <2> TAKE s \in 0..(n - 1)
  <2>1. \A x \in DOMAIN sets[s].trans : NewIn(number, sets[s].trans[x]) = to[sets[s].trans[x]]
    BY <1>1, <1>16 DEF SetsIn, StateIds
  <2> QED
    BY <2>1
<1>20. \A s \in 0..(n - 1) : [x \in DOMAIN sets[s].trans |-> NewIn(number, sets[s].trans[x])]
                                 = [x \in DOMAIN sets[s].trans |-> to[sets[s].trans[x]]]
  <2> TAKE s \in 0..(n - 1)
  <2>1. \A x \in DOMAIN sets[s].trans : NewIn(number, sets[s].trans[x]) = to[sets[s].trans[x]]
    BY <1>1, <1>16 DEF SetsIn, StateIds
  <2> QED
    BY <2>1
<1>21. \A m \in 0..(n - 1) : old[m] \in 0..(n - 1) /\ to[old[m]] = m /\ old[m] = OldIn(number, m)
  BY <1>15, <1>17
<1>22. sets' = [m \in 0..(n - 1) |-> [sets[old[m]] EXCEPT !.trans = [x \in DOMAIN @ |-> to[@[x]]]]]
  <2>1. \A m \in 0..(n - 1) :
          [sets[OldIn(number, m)] EXCEPT !.trans = [x \in DOMAIN @ |-> NewIn(number, @[x])]]
            = [sets[old[m]] EXCEPT !.trans = [x \in DOMAIN @ |-> to[@[x]]]]
    BY <1>20, <1>21
  <2> QED
    BY <1>1, <1>18, <2>1 DEF RenumberedBy
<1>23. old \in [0..(n - 1) -> 0..(n - 1)]
  BY <1>15, <1>17
<1>24. \A s \in 0..(n - 1) : old[to[s]] = s /\ to[old[s]] = s
  BY <1>12, <1>13, <1>21, <1>23
<1>25. DOMAIN sets = 0..(n - 1)
  BY <1>1 DEF StateIds
<1>26. IsRenumbered(sets, sets', old, to)
  BY ONLY <1>12, <1>22, <1>23, <1>24, <1>25 DEF IsRenumbered
<1> QED
  BY <1>26

LEMMA RenumberedIn ==
  ASSUME NEW g, NEW all, SetsIn(g, all), NEW new, NEW old, NEW to, IsRenumbered(all, new, old, to)
  PROVE  SetsIn(g, new)
<1>1. DOMAIN new = DOMAIN all
  BY DEF IsRenumbered
<1>2. ASSUME NEW m \in DOMAIN all
      PROVE  /\ old[m] \in DOMAIN all
             /\ new[m].kernel = all[old[m]].kernel /\ new[m].nonkernel = all[old[m]].nonkernel
             /\ new[m].trans = [x \in DOMAIN all[old[m]].trans |-> to[all[old[m]].trans[x]]]
             /\ new[m] = [kernel |-> new[m].kernel, nonkernel |-> new[m].nonkernel,
                          trans |-> new[m].trans]
  <2>1. old[m] \in DOMAIN all
    BY DEF IsRenumbered
  <2>2. PICK k, a, t : all[old[m]] = [kernel |-> k, nonkernel |-> a, trans |-> t]
    <3>1. PICK o : o = all[old[m]]
      OBVIOUS
    <3>2. WellMade(g.prods, o)
      BY <2>1, <3>1 DEF SetsIn, SetIn
    <3>3. o = [kernel |-> o.kernel, nonkernel |-> o.nonkernel, trans |-> o.trans]
      BY <3>2 DEF WellMade
    <3> QED
      BY <3>1, <3>3
  <2>3. new[m] = [all[old[m]] EXCEPT !.trans = [x \in DOMAIN @ |-> to[@[x]]]]
    BY DEF IsRenumbered
  <2>4. new[m] = [kernel |-> k, nonkernel |-> a, trans |-> [x \in DOMAIN t |-> to[t[x]]]]
    BY <2>2, <2>3
  <2> QED
    BY <2>1, <2>2, <2>4
<1>3. ASSUME NEW m \in DOMAIN all PROVE SetIn(g, new[m])
  <2>1. SetIn(g, all[old[m]])
    BY <1>2 DEF SetsIn
  <2> QED
    BY <1>2, <2>1 DEF SetIn, WellMade
<1>4. ASSUME NEW m \in DOMAIN all, NEW x \in DOMAIN new[m].trans
      PROVE  new[m].trans[x] \in DOMAIN all /\ ArrivedBy(g, new[new[m].trans[x]].kernel, x)
  <2>1. x \in DOMAIN all[old[m]].trans /\ new[m].trans[x] = to[all[old[m]].trans[x]]
    <3>1. PICK t : t = all[old[m]].trans
      OBVIOUS
    <3>2. new[m].trans = [y \in DOMAIN t |-> to[t[y]]]
      BY <1>2, <3>1
    <3> QED
      BY <3>1, <3>2
  <2>2. PICK s : s = all[old[m]].trans[x]
    OBVIOUS
  <2>3. s \in DOMAIN all /\ ArrivedBy(g, all[s].kernel, x)
    BY <1>2, <2>1, <2>2 DEF SetsIn
  <2>4. to[s] \in DOMAIN all /\ old[to[s]] = s
    BY <2>3 DEF IsRenumbered
  <2>5. new[to[s]].kernel = all[s].kernel
    BY <1>2, <2>4
  <2> QED
    BY <2>1, <2>2, <2>3, <2>4, <2>5
<1>5. \E n \in Nat : DOMAIN new = 0..(n - 1)
  BY <1>1 DEF SetsIn
<1>6. \A m \in DOMAIN new : SetIn(g, new[m])
  BY <1>1, <1>3
<1>7. \A m \in DOMAIN new : \A x \in DOMAIN new[m].trans :
        new[m].trans[x] \in DOMAIN new /\ ArrivedBy(g, new[new[m].trans[x]].kernel, x)
  BY <1>1, <1>4
<1> QED
  BY ONLY <1>5, <1>6, <1>7 DEF SetsIn

LEMMA RenumberIn ==
  ASSUME Given, Typed, RenumberStates, UNCHANGED <<grammar, first, follow>>
  PROVE  Typed'
<1>1. SoundGrammar(grammar)
  BY GivenIsSound
<1>2. PICK old, to : IsRenumbered(sets, sets', old, to)
  BY <1>1, RenumberedIs DEF Typed
<1>3. SetsIn(grammar, sets')
  BY <1>2, RenumberedIn DEF Typed
<1>4. phase' \notin Early
  BY DEF RenumberStates, Early
<1> QED
  BY <1>3, <1>4 DEF Typed, FirstTyped, FollowTyped, Terms, Nonterms, UnderClosureIn

-----------------------------------------------------------------------------
(* Everything is of its type, at every step.                               *)
LEMMA InitTyped ==
  Init => Typed
<1> SUFFICES ASSUME Init PROVE Typed
  OBVIOUS
<1>1. /\ sets = [s \in {} |-> NoState] /\ closing = NoState
      /\ first = [n \in Nonterms |-> {}] /\ follow = [n \in Nonterms |-> {}]
  BY DEF Init, FirstFollowInit, ItemSetsInit
<1>2. FirstTyped /\ FollowTyped
  <2>1. {} \in SUBSET Terms
    OBVIOUS
  <2> QED
    BY <1>1, <2>1 DEF FirstTyped, FollowTyped
<1>3. SetsIn(grammar, sets)
  <2>1. 0 \in Nat /\ 0..(0 - 1) = {} /\ DOMAIN sets = {}
    BY <1>1
  <2> QED
    BY <2>1 DEF SetsIn
<1> QED
  BY <1>1, <1>2, <1>3 DEF Typed, UnderClosureIn

LEMMA TypedStays ==
  ASSUME Typed, UNCHANGED <<grammar, first, follow, sets, closing, work>>,
         phase' \in Early => phase \in Early
  PROVE  Typed'
BY DEF Typed, FirstTyped, FollowTyped, UnderClosureIn, Nonterms, Terms

LEMMA AlwaysGiven ==
  ASSUME [Next]_vars
  PROVE  UNCHANGED <<input, grammar, hashOrder>>
<1>1. CASE UNCHANGED vars
  BY <1>1 DEF vars
<1>2. CASE Derive \/ DeriveDone \/ Order \/ OrderDone \/ Terminated
  BY <1>2 DEF Derive, DeriveDone, Order, OrderDone, Terminated, vars
<1>3. CASE ComputeFirstFollow
  BY <1>3 DEF ComputeFirstFollow, FirstFollowNext
<1>4. CASE ConstructItemSets
  BY <1>4 DEF ConstructItemSets, ItemSetsNext
<1>5. CASE ComputeParseTables
  BY <1>5 DEF ComputeParseTables, TablesNext
<1> QED
  BY <1>1, <1>2, <1>3, <1>4, <1>5 DEF Next

(* After the item sets are found, nothing is under closure.                *)
Settled == phase \notin Early => closing = NoState
LEMMA SettledStep ==
  ASSUME Settled, [Next]_vars
  PROVE  Settled'
<1>1. CASE UNCHANGED vars
  BY <1>1 DEF vars, setsVars, Settled
<1>2. CASE Derive \/ DeriveDone \/ Order \/ OrderDone \/ Terminated
  <2>1. UNCHANGED setsVars
        /\ (phase' = phase \/ phase' = "first" \/ phase = "order")
    BY <1>2 DEF Derive, DeriveDone, Order, OrderDone, Terminated, vars
  <2> QED
    BY <2>1 DEF Early, setsVars, Settled
<1>3. CASE ComputeFirstFollow
  <2>1. phase' \in Early
    BY <1>3 DEF ComputeFirstFollow, FirstFollowNext, FirstOfProduction,
                FirstIterationDone, FollowOfSymbol, FollowProductionDone,
                FollowIterationDone, Early
  <2> QED
    BY <2>1 DEF Settled
<1>4. CASE ComputeParseTables
  BY <1>4, LaterPhases DEF ComputeParseTables, TablesNext, setsVars, Settled
<1>5. CASE ConstructItemSets
  <2>1. \/ MakeStartState \/ PopItemSet \/ MakeItemSet \/ FindItemSet \/ ItemSetDone
        \/ SetsDone \/ CloseKernelItem \/ CloseItem \/ ClosureDone \/ RenumberStates
    BY <1>5 DEF ConstructItemSets, ItemSetsNext
  <2>2. CASE SetsDone
    BY <2>2 DEF SetsDone, setsVars, Settled
  <2>3. CASE RenumberStates
    BY <2>3 DEF RenumberStates, Settled, Early
  <2>4. CASE CloseKernelItem \/ CloseItem \/ ClosureDone
    BY <2>4 DEF CloseKernelItem, CloseItem, ClosureDone, Settled
  <2>5. CASE MakeStartState \/ PopItemSet \/ MakeItemSet \/ FindItemSet \/ ItemSetDone
    BY <2>5 DEF MakeStartState, PopItemSet, MakeItemSet, FindItemSet, ItemSetDone,
                Considering, Settled, Early
  <2> QED
    BY <2>1, <2>2, <2>3, <2>4, <2>5
<1> QED
  BY <1>1, <1>2, <1>3, <1>4, <1>5 DEF Next

LEMMA TypedStep ==
  ASSUME SetsInv, Typed, Settled, [Next]_vars
  PROVE  Typed'
<1>1. CASE UNCHANGED vars
  BY <1>1, TypedStays DEF vars, setsVars, firstFollowVars
<1>2. UNCHANGED <<input, grammar, hashOrder>>
  BY AlwaysGiven
<1>3. Given /\ Given' /\ SetsInv'
  BY SetsInvStep DEF SetsInv
<1>4. CASE Derive \/ DeriveDone \/ Order \/ OrderDone \/ Terminated
  <2>1. UNCHANGED <<setsVars, first, follow>>
        /\ (phase' = phase \/ phase = "derive" \/ phase' = "errorBits")
    BY <1>4 DEF Derive, DeriveDone, Order, OrderDone, Terminated, vars, firstFollowVars
  <2> QED
    BY <1>2, <2>1, TypedStays DEF Early, setsVars
<1>5. CASE ComputeFirstFollow
  BY <1>3, <1>5, FirstFollowStep DEF ComputeFirstFollow
<1>6. CASE ComputeParseTables
  BY <1>2, <1>6, LaterPhases, TypedStays DEF ComputeParseTables, TablesNext, setsVars
<1>7. CASE ConstructItemSets
  <2>1. /\ UNCHANGED <<first, follow>>
        /\ \/ MakeStartState \/ PopItemSet \/ MakeItemSet \/ FindItemSet \/ ItemSetDone
           \/ SetsDone \/ CloseKernelItem \/ CloseItem \/ ClosureDone \/ RenumberStates
    BY <1>7 DEF ConstructItemSets, ItemSetsNext
  <2>2. CASE SetsDone
    BY <1>2, <2>1, <2>2, LaterPhases, TypedStays DEF SetsDone, setsVars
  <2>3. CASE RenumberStates
    BY <1>2, <1>3, <2>1, <2>3, RenumberIn
  <2>4. CASE \/ MakeStartState \/ PopItemSet \/ MakeItemSet \/ FindItemSet \/ ItemSetDone
             \/ CloseKernelItem \/ CloseItem \/ ClosureDone
    <3>1. CASE phase \in Early
      <4>1. SetsSoFar /\ phase' = phase
        BY <2>4, <3>1 DEF SetsInv, MakeStartState, PopItemSet, MakeItemSet, FindItemSet,
                          ItemSetDone, CloseKernelItem, CloseItem, ClosureDone
      <4>2. SetsSoFar'
        BY <1>3, <3>1, <4>1 DEF SetsInv
      <4>3. CASE MakeStartState
        BY <1>2, <1>3, <2>1, <4>3, MakeStartStateIn
      <4>4. CASE PopItemSet
        BY <1>2, <2>1, <4>4, <4>1, TypedStays DEF PopItemSet
      <4>5. CASE MakeItemSet
        BY <1>2, <1>3, <2>1, <3>1, <4>1, <4>5, MakeItemSetIn
      <4>6. CASE FindItemSet
        BY <1>2, <1>3, <2>1, <3>1, <4>1, <4>6, FindItemSetIn
      <4>7. CASE ItemSetDone
        BY <1>2, <1>3, <2>1, <3>1, <4>1, <4>7, ItemSetDoneIn
      <4>8. CASE CloseKernelItem \/ CloseItem
        BY <1>2, <1>3, <2>1, <3>1, <4>1, <4>8, CloseItemsIn
      <4>9. CASE ClosureDone
        BY <1>2, <1>3, <2>1, <3>1, <4>1, <4>2, <4>9, ClosureDoneIn
      <4> QED
        BY <2>4, <4>3, <4>4, <4>5, <4>6, <4>7, <4>8, <4>9
    <3>2. CASE phase \notin Early
      BY <2>4, <3>2 DEF MakeStartState, PopItemSet, MakeItemSet, FindItemSet, ItemSetDone,
                        Considering, CloseKernelItem, CloseItem, ClosureDone, Settled, Early
    <3> QED
      BY <3>1, <3>2
  <2> QED
    BY <2>1, <2>2, <2>3, <2>4
<1> QED
  BY <1>1, <1>4, <1>5, <1>6, <1>7 DEF Next

(* Which phase comes after which, and where the work on the sets is.       *)
Phases ==
  {"derive", "first", "follow", "sets", "number", "tables", "order", "errorBits",
   "actionColumns", "actionRows", "gotoColumns", "gotoRows", "done", "failed"}
PhaseIn == phase \in Phases /\ changes \in BOOLEAN
LEMMA PhaseInStep ==
  ASSUME PhaseIn, [Next]_vars
  PROVE  PhaseIn'
<1>1. CASE UNCHANGED vars
  BY <1>1 DEF vars, deriveVars, PhaseIn
<1>2. CASE Derive
  <2>1. phase' = phase
    BY <1>2 DEF Derive
  <2>2. changes' \in BOOLEAN
    <3>1. D!Propagate
      BY <1>2 DEF Derive
    <3> QED
      BY <3>1 DEF PhaseIn, D!Propagate, D!ConsiderEmpty, D!EmptyCounts, D!ConsiderProduction,
                  D!ProductionsDone, D!ClosureStep, D!ClosureDone
  <2> QED
    BY <2>1, <2>2 DEF PhaseIn
<1>3. CASE Order
  <2>1. phase' = phase
    BY <1>3 DEF Order
  <2>2. changes' = changes
    <3>1. D!TopologicalSort
      BY <1>3 DEF Order
    <3> QED
      BY <3>1 DEF D!TopologicalSort, D!SortFrom, D!SortDeriver, D!PutInOrder, D!SortDone,
                  D!fixpointVars
  <2> QED
    BY <2>1, <2>2 DEF PhaseIn
<1>4. CASE DeriveDone \/ OrderDone \/ Terminated
  BY <1>4 DEF DeriveDone, OrderDone, Terminated, vars, deriveVars, PhaseIn, Phases
<1>5. CASE ComputeFirstFollow
  BY <1>5 DEF ComputeFirstFollow, FirstFollowNext, FirstOfProduction, FirstIterationDone,
              FollowOfSymbol, FollowProductionDone, FollowIterationDone, PhaseIn, Phases
<1>6. CASE ComputeParseTables
  BY <1>6 DEF ComputeParseTables, TablesNext, FillActionEntry, FillGotoRow, TablesFilled,
              ComputeErrorBits, MergeActionColumns, MergeActionRows, MergeGotoColumns,
              MergeGotoRows, PhaseIn, Phases
<1>7. CASE ConstructItemSets
  <2>1. /\ changes' = changes
        /\ \/ MakeStartState \/ PopItemSet \/ MakeItemSet \/ FindItemSet \/ ItemSetDone
           \/ SetsDone \/ CloseKernelItem \/ CloseItem \/ ClosureDone \/ RenumberStates
    BY <1>7 DEF ConstructItemSets, ItemSetsNext
  <2>2. phase' = phase \/ phase' \in Phases
    BY <2>1 DEF MakeStartState, PopItemSet, MakeItemSet, FindItemSet, ItemSetDone, SetsDone,
                CloseKernelItem, CloseItem, ClosureDone, RenumberStates, Phases
  <2> QED
    BY <2>1, <2>2 DEF PhaseIn
<1> QED
  BY <1>1, <1>2, <1>3, <1>4, <1>5, <1>6, <1>7 DEF Next

Placed ==
  /\ pending \in Seq(StateIds) /\ done \subseteq StateIds
  /\ current \in StateIds \cup {NoState} /\ closing \in StateIds \cup {NoState}
LEMMA PlacedStep ==
  ASSUME SetsInv, Typed, Settled, Placed, [Next]_vars
  PROVE  Placed'
<1>1. CASE phase' \in Early
  <2>1. SetsInv'
    BY SetsInvStep
  <2> QED
    BY <1>1, <2>1 DEF SetsInv, SetsSoFar, Lined, Placed
<1>2. CASE phase' \notin Early
  <2>1. UNCHANGED <<DOMAIN sets, pending, done, current, closing>>
    <3>1. CASE UNCHANGED vars
      BY <3>1 DEF vars, setsVars
    <3>2. CASE Derive \/ DeriveDone \/ Order \/ OrderDone \/ Terminated
      BY <3>2 DEF Derive, DeriveDone, Order, OrderDone, Terminated, vars, setsVars
    <3>3. CASE ComputeFirstFollow
      BY <3>3 DEF ComputeFirstFollow, setsVars
    <3>4. CASE ComputeParseTables
      BY <3>4 DEF ComputeParseTables, TablesNext, setsVars
    <3>5. CASE ConstructItemSets
      <4>1. \/ MakeStartState \/ PopItemSet \/ MakeItemSet \/ FindItemSet \/ ItemSetDone
            \/ SetsDone \/ CloseKernelItem \/ CloseItem \/ ClosureDone \/ RenumberStates
        BY <3>5 DEF ConstructItemSets, ItemSetsNext
      <4>2. CASE SetsDone
        BY <4>2 DEF SetsDone, setsVars
      <4>3. CASE RenumberStates
        <5>1. SoundGrammar(grammar) /\ SetsIn(grammar, sets)
          BY GivenIsSound DEF SetsInv, Typed
        <5>2. PICK old, to : IsRenumbered(sets, sets', old, to)
          BY <4>3, <5>1, RenumberedIs
        <5>3. DOMAIN sets' = DOMAIN sets
          BY <5>2 DEF IsRenumbered
        <5> QED
          BY <4>3, <5>3 DEF RenumberStates
      <4>4. CASE \/ MakeStartState \/ PopItemSet \/ MakeItemSet \/ FindItemSet \/ ItemSetDone
                 \/ CloseKernelItem \/ CloseItem \/ ClosureDone
        <5>1. phase' = phase
          BY <4>4 DEF MakeStartState, PopItemSet, MakeItemSet, FindItemSet, ItemSetDone,
                      CloseKernelItem, CloseItem, ClosureDone
        <5> QED
          BY <1>2, <4>4, <5>1 DEF MakeStartState, PopItemSet, MakeItemSet, FindItemSet,
                     ItemSetDone, Considering, CloseKernelItem, CloseItem, ClosureDone,
                     Settled, Early
      <4> QED
        BY <4>1, <4>2, <4>3, <4>4
    <3> QED
      BY <3>1, <3>2, <3>3, <3>4, <3>5 DEF Next
  <2> QED
    BY <2>1 DEF Placed, StateIds
<1> QED
  BY <1>1, <1>2
=============================================================================
