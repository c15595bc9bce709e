----------------------- MODULE GrammarAnalysis_proofs -----------------------
(***************************************************************************)
(* What the analysis of a grammar comes to, against references that are    *)
(* defined by reachability, for every set of grammars and every order of   *)
(* the hash tables.  The item sets are the states of the automaton: no     *)
(* state, no item and no transition is missing, and there is no other.     *)
(* First and Follow have the terminals that derivations put there, and every*)
(* item the lookahead that can follow its production, and no other.        *)
(***************************************************************************)
EXTENDS ItemSets_proofs

-----------------------------------------------------------------------------
(* What a function comes to that takes one step after the other, each to a *)
(* greater set, until the set stays the same: the least set that does.     *)
IsGrown(f, Dom, step) ==
  f = [T \in SUBSET Dom |-> IF step[T] = T THEN T ELSE f[step[T]]]
IsLeast(R, S, Dom, step) ==
  /\ R \in SUBSET Dom /\ S \subseteq R /\ step[R] = R
  /\ \A X \in SUBSET Dom : S \subseteq X /\ step[X] = X => R \subseteq X
Growing(Dom, step) ==
  /\ step \in [SUBSET Dom -> SUBSET Dom]
  /\ \A T \in SUBSET Dom : T \subseteq step[T]
  /\ \A T, X \in SUBSET Dom : T \subseteq X /\ step[X] = X => step[T] \subseteq X

LEMMA GrownExists ==
  ASSUME NEW Dom, NEW step, Growing(Dom, step)
  PROVE  \E f : IsGrown(f, Dom, step)
<1> DEFINE Hull(T) == {y \in Dom : \A X \in SUBSET Dom : T \subseteq X /\ step[X] = X => y \in X}
           g == [T \in SUBSET Dom |-> Hull(T)]
<1>1. ASSUME NEW T \in SUBSET Dom PROVE g[T] = IF step[T] = T THEN T ELSE g[step[T]]
  <2>1. step[T] \in SUBSET Dom /\ T \subseteq step[T]
    BY DEF Growing
  <2>2. CASE step[T] = T
    BY <2>2
  <2>3. CASE step[T] # T
    <3>1. ASSUME NEW X \in SUBSET Dom, step[X] = X PROVE T \subseteq X <=> step[T] \subseteq X
      BY <2>1, <3>1 DEF Growing
    <3>2. Hull(T) = Hull(step[T])
      BY <3>1
    <3> QED
      BY <2>1, <2>3, <3>2
  <2> QED
    BY <2>2, <2>3
<1>2. g = [T \in SUBSET Dom |-> IF step[T] = T THEN T ELSE g[step[T]]]
  <2>1. g = [T \in SUBSET Dom |-> g[T]]
    OBVIOUS
  <2> HIDE DEF g
  <2> QED
    BY <1>1, <2>1
<1> QED
  BY <1>2 DEF IsGrown

LEMMA GrownIs ==
  ASSUME NEW Dom, IsFiniteSet(Dom), NEW step, Growing(Dom, step), NEW f, IsGrown(f, Dom, step),
         NEW S \in SUBSET Dom
  PROVE  IsLeast(f[S], S, Dom, step)
<1> DEFINE Bad == {T \in SUBSET Dom : ~ IsLeast(f[T], T, Dom, step)}
           Sizes == {Cardinality(T) : T \in Bad}
<1> SUFFICES ASSUME Bad # {} PROVE FALSE
  OBVIOUS
<1>1. PICK n \in Nat : n = Cardinality(Dom)
  BY FS_CardinalityType
<1>2. \A T \in SUBSET Dom : IsFiniteSet(T) /\ Cardinality(T) \in Nat /\ Cardinality(T) <= n
  BY <1>1, FS_Subset, FS_CardinalityType
<1>3. Sizes \in SUBSET (0..n) /\ Sizes # {}
  BY <1>2
<1>4. PICK m \in Sizes : \A k \in Sizes : k <= m
  <2> HIDE DEF Sizes
  <2> QED
    BY <1>3, MaxIs
<1>5. PICK T \in Bad : Cardinality(T) = m
  BY <1>4
<1>6. f[T] = IF step[T] = T THEN T ELSE f[step[T]]
  BY DEF IsGrown
<1>7. step[T] # T
  <2> SUFFICES ASSUME step[T] = T PROVE IsLeast(f[T], T, Dom, step)
    BY <1>5
  <2>1. f[T] = T
    BY <1>6
  <2> QED
    BY <2>1 DEF IsLeast
<1>8. step[T] \in SUBSET Dom /\ T \subseteq step[T]
  BY DEF Growing
<1>9. step[T] \notin Bad
  <2>1. T \in SUBSET step[T] /\ IsFiniteSet(step[T])
    BY <1>2, <1>8
  <2>2. Cardinality(T) < Cardinality(step[T])
    <3>1. Cardinality(T) <= Cardinality(step[T]) /\ Cardinality(step[T]) # Cardinality(T)
      BY <1>7, <2>1, FS_Subset
    <3> QED
      BY <1>2, <1>8, <3>1
  <2>3. Cardinality(T) \in Nat /\ Cardinality(step[T]) \in Nat
    BY <1>2, <1>8
  <2> QED
    BY <1>4, <1>5, <2>2, <2>3
<1>10. IsLeast(f[step[T]], step[T], Dom, step)
  BY <1>8, <1>9
<1>11. IsLeast(f[T], T, Dom, step)
  <2>1. f[T] = f[step[T]]
    BY <1>6, <1>7
  <2>2. \A X \in SUBSET Dom : T \subseteq X /\ step[X] = X => step[T] \subseteq X
    BY DEF Growing
  <2> QED
    BY <1>8, <1>10, <2>1, <2>2 DEF IsLeast
<1> QED
  BY <1>11

(* Reach is the least set that is closed under the edges.                  *)
ClosedUnder(edges, X) == \A e \in edges : e[1] \in X => e[2] \in X
LEMMA ReachIs ==
  ASSUME NEW edges, IsFiniteSet(edges), NEW S, IsFiniteSet(S)
  PROVE  /\ S \subseteq Reach(edges, S) /\ ClosedUnder(edges, Reach(edges, S))
         /\ Reach(edges, S) \subseteq S \cup {e[2] : e \in edges}
         /\ \A X : S \subseteq X /\ ClosedUnder(edges, X) => Reach(edges, S) \subseteq X
<1> DEFINE Dom == S \cup {e[2] : e \in edges}
           To(T) == {e[2] : e \in {f \in edges : f[1] \in T}}
           step == [T \in SUBSET Dom |-> T \cup To(T)]
           IsG(h) == h = [T \in SUBSET Dom |->
                            LET U == T \cup {e[2] : e \in {f \in edges : f[1] \in T}} IN
                              IF U = T THEN T ELSE h[U]]
<1>1. IsFiniteSet(Dom)
  <2> DEFINE second == [e \in edges |-> e[2]]
  <2>0. edges = DOMAIN second
    OBVIOUS
  <2> DEFINE Ends == {e[2] : e \in edges}
  <2>1. {second[e] : e \in edges} = Ends
    OBVIOUS
  <2> HIDE DEF second, Ends, Dom, To, step, IsG
  <2>2. IsFiniteSet(Ends)
    BY <2>0, <2>1, FiniteImage
  <2> QED
    BY <2>2, FS_Union DEF Dom, Ends
<1>2. \A T : To(T) \subseteq Dom
  OBVIOUS
<1>3. \A X : step[X] = X /\ X \in SUBSET Dom => ClosedUnder(edges, X)
  BY DEF ClosedUnder
<1>4. \A X : ClosedUnder(edges, X) => \A T \in SUBSET X : To(T) \subseteq X
  BY DEF ClosedUnder
<1>5. Growing(Dom, step)
  <2>1. step \in [SUBSET Dom -> SUBSET Dom] /\ \A T \in SUBSET Dom : T \subseteq step[T]
    BY <1>2
  <2>2. ASSUME NEW T \in SUBSET Dom, NEW X \in SUBSET Dom, T \subseteq X, step[X] = X
        PROVE  step[T] \subseteq X
    BY <1>3, <1>4, <2>2
  <2> QED
    BY <2>1, <2>2 DEF Growing
<1>6. \A h : IsG(h) <=> IsGrown(h, Dom, step)
  <2> TAKE h
  <2>1. \A T \in SUBSET Dom : step[T] = T \cup To(T)
    OBVIOUS
  <2>2. [T \in SUBSET Dom |-> LET U == T \cup {e[2] : e \in {f \in edges : f[1] \in T}} IN
                              IF U = T THEN T ELSE h[U]]
          = [T \in SUBSET Dom |-> IF step[T] = T THEN T ELSE h[step[T]]]
    BY <2>1
  <2> QED
    BY <2>2 DEF IsGrown
<1>7. PICK h : IsG(h) /\ Reach(edges, S) = h[S]
  <2>1. Reach(edges, S) = (CHOOSE h : IsG(h))[S]
    BY DEF Reach
  <2>2. \E h : IsG(h)
    <3> HIDE DEF Dom, step, IsG
    <3> QED
      BY <1>5, <1>6, GrownExists
  <2> HIDE DEF IsG
  <2> QED
    BY <2>1, <2>2
<1>8. IsLeast(h[S], S, Dom, step)
  <2>1. S \in SUBSET Dom
    OBVIOUS
  <2> HIDE DEF Dom, step, IsG
  <2> QED
    BY <1>1, <1>5, <1>6, <1>7, <2>1, GrownIs
<1>9. ASSUME NEW X, S \subseteq X, ClosedUnder(edges, X) PROVE h[S] \subseteq X
  <2>1. S \subseteq X \cap Dom /\ X \cap Dom \in SUBSET Dom
    OBVIOUS
  <2>2. step[X \cap Dom] = X \cap Dom
    <3>1. To(X \cap Dom) \subseteq X
      BY <1>4, <1>9
    <3> QED
      BY <1>2, <3>1
  <2> HIDE DEF Dom, step
  <2> QED
    BY <1>8, <2>1, <2>2 DEF IsLeast
<1>10. h[S] \in SUBSET Dom /\ S \subseteq h[S] /\ step[h[S]] = h[S]
  <2> HIDE DEF Dom, step
  <2> QED
    BY <1>8 DEF IsLeast
<1>11. ClosedUnder(edges, h[S]) /\ h[S] \subseteq Dom
  BY <1>3, <1>10
<1> HIDE DEF step, IsG
<1> QED
  BY <1>7, <1>9, <1>10, <1>11

-----------------------------------------------------------------------------
(* The automaton that the item sets are compared with.                     *)
Added(g) ==
  {e \in BeforeSymbol(g) \X ((DOMAIN g.prods) \X {0}) : NextSymbol(g, e[1]) = Left(g, e[2])}
ClosedState(g, kernel) == <<kernel, Reach(Added(g), kernel)>>
NextStates(g, s) ==
  {ClosedState(g, MovedDot(g, s[2], x)) : x \in {NextSymbol(g, i) : i \in s[2] \cap BeforeSymbol(g)}}

LEMMA DottedIs ==
  ASSUME NEW g, SoundGrammar(g)
  PROVE  /\ IsFiniteSet(Dotted(g)) /\ <<1, 0>> \in Dotted(g)
         /\ \A p, d : <<p, d>> \in Dotted(g) <=>
              p \in DOMAIN g.prods /\ d \in 0..Len(g.prods[p].rhs)
         /\ \A p, d : <<p, d>> \in BeforeSymbol(g) <=>
              p \in DOMAIN g.prods /\ d \in 0..(Len(g.prods[p].rhs) - 1)
         /\ \A i \in Dotted(g) : i = <<i[1], i[2]>>
<1>1. \A p \in DOMAIN g.prods : Len(g.prods[p].rhs) \in Nat
  BY ListLength DEF SoundGrammar
<1>2. IsFiniteSet(DOMAIN g.prods)
  <2>1. Len(g.prods) \in Nat /\ DOMAIN g.prods = 1..Len(g.prods)
    BY ListLength DEF SoundGrammar
  <2>2. Len(g.prods) \in Int /\ 1 \in Int
    BY <2>1
  <2> QED
    BY <2>1, <2>2, FS_Interval
<1> DEFINE Of == [p \in DOMAIN g.prods |-> {p} \X (0..Len(g.prods[p].rhs))]
           All1 == {Of[p] : p \in DOMAIN g.prods}
<1>3. Dotted(g) = UNION All1
  BY DEF Dotted
<1>4. IsFiniteSet(All1)
  <2>1. DOMAIN g.prods = DOMAIN Of
    OBVIOUS
  <2> HIDE DEF Of
  <2> QED
    BY <1>2, <2>1, FiniteImage
<1>5. \A S \in All1 : IsFiniteSet(S)
  <2> SUFFICES ASSUME NEW p \in DOMAIN g.prods PROVE IsFiniteSet(Of[p])
    OBVIOUS
  <2>1. IsFiniteSet(0..Len(g.prods[p].rhs))
    <3>1. 0 \in Int /\ Len(g.prods[p].rhs) \in Int
      BY <1>1
    <3> QED
      BY <3>1, FS_Interval
  <2>2. IsFiniteSet({p})
    BY FS_Singleton
  <2>3. IsFiniteSet({p} \X (0..Len(g.prods[p].rhs)))
    BY <2>1, <2>2, FS_Product
  <2> QED
    BY <2>3
<1>6. IsFiniteSet(Dotted(g))
  <2> HIDE DEF All1
  <2> QED
    BY <1>3, <1>4, <1>5, FS_UNION
<1>7. \A i : i \in Dotted(g) <=> \E p \in DOMAIN g.prods : i \in {p} \X (0..Len(g.prods[p].rhs))
  BY DEF Dotted
<1>8. \A p, d : <<p, d>> \in Dotted(g) <=> p \in DOMAIN g.prods /\ d \in 0..Len(g.prods[p].rhs)
  BY <1>7
<1>9. \A i \in Dotted(g) : i = <<i[1], i[2]>>
  BY <1>7
<1>10. ASSUME NEW p, NEW d
       PROVE  <<p, d>> \in BeforeSymbol(g) <=>
                p \in DOMAIN g.prods /\ d \in 0..(Len(g.prods[p].rhs) - 1)
  <2>1. <<p, d>>[1] = p /\ <<p, d>>[2] = d
    OBVIOUS
  <2>2. <<p, d>> \in BeforeSymbol(g) <=> <<p, d>> \in Dotted(g) /\ d < Len(g.prods[p].rhs)
    BY <2>1 DEF BeforeSymbol
  <2> QED
    BY <1>1, <1>8, <2>2
<1>11. <<1, 0>> \in Dotted(g)
  <2>1. 1 \in DOMAIN g.prods
    BY DEF SoundGrammar
  <2> QED
    BY <1>1, <1>8, <2>1
<1> QED
  BY <1>6, <1>8, <1>9, <1>10, <1>11

LEMMA AddedIs ==
  ASSUME NEW g, SoundGrammar(g)
  PROVE  /\ IsFiniteSet(Added(g))
         /\ \A e \in Added(g) : e[1] \in BeforeSymbol(g) /\ e[2] \in Dotted(g)
         /\ \A i, p : <<i, <<p, 0>>>> \in Added(g) <=>
              i \in BeforeSymbol(g) /\ p \in DOMAIN g.prods
              /\ NextSymbol(g, i) = NontermId(g.prods[p].lhs)
<1>1. \A p \in DOMAIN g.prods : Len(g.prods[p].rhs) \in Nat
  BY ListLength DEF SoundGrammar
<1>2. \A p \in DOMAIN g.prods : <<p, 0>> \in Dotted(g)
  BY <1>1, DottedIs
<1>3. (DOMAIN g.prods) \X {0} \in SUBSET Dotted(g)
  BY <1>2
<1>4. IsFiniteSet(BeforeSymbol(g)) /\ IsFiniteSet((DOMAIN g.prods) \X {0})
  <2>1. BeforeSymbol(g) \in SUBSET Dotted(g)
    BY DEF BeforeSymbol
  <2> QED
    BY <1>3, <2>1, DottedIs, FS_Subset
<1>5. IsFiniteSet(BeforeSymbol(g) \X ((DOMAIN g.prods) \X {0}))
  BY <1>4, FS_Product
<1>6. IsFiniteSet(Added(g))
  <2>1. Added(g) \in SUBSET (BeforeSymbol(g) \X ((DOMAIN g.prods) \X {0}))
    BY DEF Added
  <2> QED
    BY <1>5, <2>1, FS_Subset
<1>7. \A e \in Added(g) : e[1] \in BeforeSymbol(g) /\ e[2] \in Dotted(g)
  BY <1>3 DEF Added
<1>8. ASSUME NEW i, NEW p
      PROVE  <<i, <<p, 0>>>> \in Added(g) <=>
              i \in BeforeSymbol(g) /\ p \in DOMAIN g.prods
              /\ NextSymbol(g, i) = NontermId(g.prods[p].lhs)
  <2>1. <<i, <<p, 0>>>>[1] = i /\ <<i, <<p, 0>>>>[2] = <<p, 0>>
    OBVIOUS
  <2>2. Left(g, <<p, 0>>) = NontermId(g.prods[p].lhs)
    BY DEF Left
  <2> QED
    BY <2>1, <2>2 DEF Added
<1> QED
  BY <1>6, <1>7, <1>8

LEMMA MovedDotIn ==
  ASSUME NEW g, SoundGrammar(g), NEW items, NEW x
  PROVE  MovedDot(g, items, x) \in SUBSET Dotted(g)
<1> SUFFICES ASSUME NEW i \in BeforeSymbol(g) PROVE <<i[1], i[2] + 1>> \in Dotted(g)
  BY DEF MovedDot
<1>1. i \in Dotted(g) /\ i = <<i[1], i[2]>>
  BY DottedIs DEF BeforeSymbol
<1>2. i[1] \in DOMAIN g.prods /\ i[2] \in 0..(Len(g.prods[i[1]].rhs) - 1)
  BY <1>1, DottedIs
<1>3. Len(g.prods[i[1]].rhs) \in Nat
  BY <1>2, ListLength DEF SoundGrammar
<1> QED
  BY <1>2, <1>3, DottedIs

LEMMA ClosedIn ==
  ASSUME NEW g, SoundGrammar(g), NEW kernel \in SUBSET Dotted(g)
  PROVE  /\ Reach(Added(g), kernel) \in SUBSET Dotted(g)
         /\ ClosedState(g, kernel) \in (SUBSET Dotted(g)) \X (SUBSET Dotted(g))
<1>1. IsFiniteSet(kernel)
  BY DottedIs, FS_Subset
<1>2. \A e \in Added(g) : e[2] \in Dotted(g)
  BY AddedIs
<1>3. Reach(Added(g), kernel) \subseteq Dotted(g)
  <2>1. ClosedUnder(Added(g), Dotted(g))
    BY <1>2 DEF ClosedUnder
  <2> QED
    BY <1>1, <2>1, AddedIs, ReachIs
<1> QED
  BY <1>3 DEF ClosedState

LEMMA RefStatesIs ==
  ASSUME NEW g, SoundGrammar(g)
  PROVE  /\ ClosedState(g, {<<1, 0>>}) \in RefStates(g)
         /\ \A s \in RefStates(g) : NextStates(g, s) \subseteq RefStates(g)
         /\ \A X : /\ ClosedState(g, {<<1, 0>>}) \in X
                   /\ \A s \in X : NextStates(g, s) \subseteq X
                   => RefStates(g) \subseteq X
<1> DEFINE Dom == (SUBSET Dotted(g)) \X (SUBSET Dotted(g))
           From(S) == UNION {NextStates(g, s) : s \in S}
           step == [T \in SUBSET Dom |-> T \cup From(T)]
           start == {ClosedState(g, {<<1, 0>>})}
           IsG(h) == h = [S \in SUBSET Dom |->
              LET T == S \cup UNION {{<<MovedDot(g, s[2], x), Reach(Added(g), MovedDot(g, s[2], x))>> :
                     x \in {NextSymbol(g, i) : i \in s[2] \cap BeforeSymbol(g)}} :
                       s \in S}
              IN  IF T = S THEN S ELSE h[T]]
<1>1. IsFiniteSet(Dom)
  <2>1. IsFiniteSet(SUBSET Dotted(g))
    BY DottedIs, FS_SUBSET
  <2> QED
    BY <2>1, FS_Product
<1>2. \A s : NextStates(g, s) \subseteq Dom
  BY MovedDotIn, ClosedIn DEF NextStates
<1>3. start \in SUBSET Dom
  <2>1. {<<1, 0>>} \in SUBSET Dotted(g)
    BY DottedIs
  <2> QED
    BY <2>1, ClosedIn
<1>4. Growing(Dom, step)
  <2>1. \A S : From(S) \subseteq Dom
    BY <1>2
  <2>2. \A T \in SUBSET Dom : step[T] = T \cup From(T)
    OBVIOUS
  <2>3. step \in [SUBSET Dom -> SUBSET Dom]
    BY <2>1
  <2>4. \A T, X \in SUBSET Dom : T \subseteq X /\ step[X] = X => step[T] \subseteq X
    <3> TAKE T, X \in SUBSET Dom
    <3> HAVE T \subseteq X /\ step[X] = X
    <3>1. From(T) \subseteq From(X)
      OBVIOUS
    <3> HIDE DEF step, From
    <3> QED
      BY <2>2, <3>1
  <2>5. \A T \in SUBSET Dom : T \subseteq step[T]
    BY <2>2
  <2> HIDE DEF step
  <2> QED
    BY <2>3, <2>4, <2>5 DEF Growing
<1>5. \A h : IsG(h) <=> IsGrown(h, Dom, step)
  <2> TAKE h
  <2>1. \A T \in SUBSET Dom : step[T] = T \cup UNION {{<<MovedDot(g, s[2], x), Reach(Added(g), MovedDot(g, s[2], x))>> :
                     x \in {NextSymbol(g, i) : i \in s[2] \cap BeforeSymbol(g)}} :
                       s \in T}
    BY DEF NextStates, ClosedState
  <2>2. IsGrown(h, Dom, step) <=> h = [S \in SUBSET Dom |-> IF step[S] = S THEN S ELSE h[step[S]]]
    BY DEF IsGrown
  <2> HIDE DEF step, From, Dom
  <2>3. [S \in SUBSET Dom |->
              LET T == S \cup UNION {{<<MovedDot(g, s[2], x), Reach(Added(g), MovedDot(g, s[2], x))>> :
                     x \in {NextSymbol(g, i) : i \in s[2] \cap BeforeSymbol(g)}} :
                       s \in S}
              IN  IF T = S THEN S ELSE h[T]]
          = [S \in SUBSET Dom |-> IF step[S] = S THEN S ELSE h[step[S]]]
    BY <2>1
  <2> QED
    BY <2>2, <2>3
<1>6. PICK h : IsG(h) /\ RefStates(g) = h[start]
  <2>1. RefStates(g) = (CHOOSE h : IsG(h))[start]
    BY DEF RefStates, Added, ClosedState
  <2>2. \E h : IsG(h)
    <3> HIDE DEF Dom, step, IsG
    <3> QED
      BY <1>4, <1>5, GrownExists
  <2> HIDE DEF IsG
  <2> QED
    BY <2>1, <2>2
<1>7. IsLeast(h[start], start, Dom, step)
  <2> HIDE DEF Dom, step, IsG, start
  <2> QED
    BY <1>1, <1>3, <1>4, <1>5, <1>6, GrownIs
<1>8. /\ start \subseteq h[start] /\ h[start] \in SUBSET Dom /\ step[h[start]] = h[start]
      /\ \A X \in SUBSET Dom : start \subseteq X /\ step[X] = X => h[start] \subseteq X
  <2> HIDE DEF Dom, step, start
  <2> QED
    BY <1>7 DEF IsLeast
<1>9. \A s \in h[start] : NextStates(g, s) \subseteq h[start]
  <2>1. step[h[start]] = h[start] \cup From(h[start])
    BY <1>8
  <2>2. From(h[start]) \subseteq h[start]
    <3> HIDE DEF step, From, start
    <3> QED
      BY <1>8, <2>1
  <2> QED
    BY <2>2
<1>10. ASSUME NEW X, ClosedState(g, {<<1, 0>>}) \in X, \A s \in X : NextStates(g, s) \subseteq X
       PROVE  h[start] \subseteq X
  <2>1. start \subseteq X \cap Dom /\ X \cap Dom \in SUBSET Dom
    BY <1>3, <1>10
  <2>2. step[X \cap Dom] = X \cap Dom
    <3>1. From(X \cap Dom) \subseteq X \cap Dom
      BY <1>2, <1>10
    <3>2. step[X \cap Dom] = (X \cap Dom) \cup From(X \cap Dom)
      OBVIOUS
    <3> HIDE DEF step, From, Dom
    <3> QED
      BY <3>1, <3>2
  <2> HIDE DEF Dom, step, start
  <2> QED
    BY <1>8, <2>1, <2>2
<1>11. ClosedState(g, {<<1, 0>>}) \in h[start]
  BY <1>8
<1> HIDE DEF IsG, step, From, Dom, start
<1> QED
  BY <1>6, <1>9, <1>10, <1>11

-----------------------------------------------------------------------------
(* A set of items against the automaton, lookahead aside.                  *)
CoreOf(it) == <<it.prod, it.dot>>
Calls(P, it, p) ==
  /\ p \in DOMAIN P /\ ~ EndOf(P, it) /\ ~ IsTerminal(AfterDot(P, it))
  /\ P[p].lhs = NtIndex(AfterDot(P, it))
HasStart(items, p) == \E b \in items : b.prod = p
Complete(P, from, items) == \A it \in from : \A p : Calls(P, it, p) => HasStart(items, p)
Needed(g, kernel, items) ==
  \A it \in items : <<it.prod, 0>> \in Reach(Added(g), CoreSet(kernel))
SetComplete(P, set) == Complete(P, ToSymbolSet(All(set)), ToSymbolSet(set.nonkernel))

LEMMA CoreSetIs ==
  ASSUME NEW f
  PROVE  CoreSet(f) = {CoreOf(it) : it \in ToSymbolSet(f)}
<1>1. DOMAIN Core(f) = DOMAIN f /\ \A i \in DOMAIN f : Core(f)[i] = CoreOf(f[i])
  BY DEF Core, CoreOf
<1> QED
  BY <1>1 DEF CoreSet, ToSymbolSet

LEMMA CoreInDotted ==
  ASSUME NEW g, SoundGrammar(g), NEW it, ItemIn(g, it)
  PROVE  /\ CoreOf(it) \in Dotted(g)
         /\ CoreOf(it) \in BeforeSymbol(g) <=> ~ EndOf(g.prods, it)
         /\ NextSymbol(g, CoreOf(it)) = AfterDot(g.prods, it)
<1>1. Len(g.prods[it.prod].rhs) \in Nat
  BY ListLength DEF SoundGrammar, ItemIn
<1>2. CoreOf(it) \in Dotted(g)
  BY DottedIs DEF ItemIn, CoreOf
<1>3. CoreOf(it) \in BeforeSymbol(g) <=> ~ EndOf(g.prods, it)
  <2>1. CoreOf(it) \in BeforeSymbol(g) <=> it.dot \in 0..(Len(g.prods[it.prod].rhs) - 1)
    BY DottedIs DEF ItemIn, CoreOf
  <2> QED
    BY <1>1, <2>1 DEF ItemIn, EndOf
<1>4. NextSymbol(g, CoreOf(it)) = AfterDot(g.prods, it)
  BY DEF NextSymbol, CoreOf, AfterDot
<1> QED
  BY <1>2, <1>3, <1>4

LEMMA CallsAdded ==
  ASSUME NEW g, SoundGrammar(g), NEW it, ItemIn(g, it), NEW p
  PROVE  Calls(g.prods, it, p) <=> <<CoreOf(it), <<p, 0>>>> \in Added(g)
<1>1. CASE EndOf(g.prods, it)
  BY <1>1, CoreInDotted, AddedIs DEF Calls
<1>2. CASE ~ EndOf(g.prods, it)
  <2>1. it.dot + 1 \in DOMAIN g.prods[it.prod].rhs
    <3>1. Len(g.prods[it.prod].rhs) \in Nat /\ DOMAIN g.prods[it.prod].rhs = 1..Len(g.prods[it.prod].rhs)
      BY ListLength DEF SoundGrammar, ItemIn
    <3> QED
      BY <1>2, <3>1 DEF ItemIn, EndOf
  <2>2. AfterDot(g.prods, it) \in Int
    BY <2>1 DEF SoundGrammar, SymbolIn, ItemIn, AfterDot
  <2>3. ASSUME NEW q \in DOMAIN g.prods
        PROVE  ~ IsTerminal(AfterDot(g.prods, it)) /\ g.prods[q].lhs = NtIndex(AfterDot(g.prods, it))
                 <=> AfterDot(g.prods, it) = NontermId(g.prods[q].lhs)
    <3>1. g.nonterms \in Int /\ g.prods[q].lhs \in 0..(g.nonterms - 1)
      BY DEF SoundGrammar
    <3>2. g.prods[q].lhs \in Int /\ g.prods[q].lhs >= 0
      BY <3>1
    <3> QED
      BY <2>2, <3>2 DEF IsTerminal, NtIndex, NontermId
  <2> QED
    BY <1>2, <2>3, CoreInDotted, AddedIs DEF Calls
<1> QED
  BY <1>1, <1>2

LEMMA KernelCores ==
  ASSUME NEW g, SoundGrammar(g), NEW kernel, KernelIn(g, kernel)
  PROVE  CoreSet(kernel) \in SUBSET Dotted(g) /\ IsFiniteSet(CoreSet(kernel))
<1>1. \A it \in ToSymbolSet(kernel) : ItemIn(g, it)
  BY DEF KernelIn, ToSymbolSet
<1>2. CoreSet(kernel) \in SUBSET Dotted(g)
  BY <1>1, CoreSetIs, CoreInDotted
<1> QED
  BY <1>2, DottedIs, FS_Subset

(* A set with all that it needs and no more is closed.                     *)
LEMMA CompleteIsClosed ==
  ASSUME NEW g, SoundGrammar(g), NEW set, SetIn(g, set), SetComplete(g.prods, set),
         Needed(g, set.kernel, ToSymbolSet(set.nonkernel))
  PROVE  CoreSet(All(set)) = Reach(Added(g), CoreSet(set.kernel))
<1>1. IsFiniteSet(CoreSet(set.kernel)) /\ IsFiniteSet(Added(g))
  BY KernelCores, AddedIs DEF SetIn
<1>2. /\ ToSymbolSet(All(set)) = ToSymbolSet(set.kernel) \cup ToSymbolSet(set.nonkernel)
      /\ \A it \in ToSymbolSet(All(set)) : ItemIn(g, it)
  BY ItemsOfSet
<1>3. \A b \in ToSymbolSet(set.nonkernel) : b.dot = 0
  BY DEF SetIn, WellMade
<1>4. CoreSet(set.kernel) \subseteq Reach(Added(g), CoreSet(set.kernel))
  BY <1>1, ReachIs
<1>5. CoreSet(All(set)) \subseteq Reach(Added(g), CoreSet(set.kernel))
  <2> SUFFICES ASSUME NEW it \in ToSymbolSet(All(set))
               PROVE  CoreOf(it) \in Reach(Added(g), CoreSet(set.kernel))
    BY CoreSetIs
  <2>1. CASE it \in ToSymbolSet(set.kernel)
    BY <1>4, <2>1, CoreSetIs
  <2>2. CASE it \in ToSymbolSet(set.nonkernel)
    BY <1>3, <2>2 DEF Needed, CoreOf
  <2> QED
    BY <1>2, <2>1, <2>2
<1>6. CoreSet(set.kernel) \subseteq CoreSet(All(set))
  BY <1>2, CoreSetIs
<1>7. ClosedUnder(Added(g), CoreSet(All(set)))
  <2> SUFFICES ASSUME NEW e \in Added(g), e[1] \in CoreSet(All(set))
               PROVE  e[2] \in CoreSet(All(set))
    BY DEF ClosedUnder
  <2>1. PICK it \in ToSymbolSet(All(set)) : e[1] = CoreOf(it)
    BY CoreSetIs
  <2>2. PICK p : e[2] = <<p, 0>> /\ e = <<e[1], e[2]>>
    BY DEF Added
  <2>3. Calls(g.prods, it, p)
    BY <1>2, <2>1, <2>2, CallsAdded
  <2>4. PICK b \in ToSymbolSet(set.nonkernel) : b.prod = p
    BY <2>3 DEF SetComplete, Complete, HasStart
  <2>5. CoreOf(b) = <<p, 0>>
    BY <1>3, <2>4 DEF CoreOf
  <2> QED
    BY <1>2, <2>2, <2>5, CoreSetIs
<1>8. Reach(Added(g), CoreSet(set.kernel)) \subseteq CoreSet(All(set))
  BY <1>1, <1>6, <1>7, ReachIs
<1> QED
  BY <1>5, <1>8

(* Where the dots of a set lead.                                           *)
LEMMA MovedCores ==
  ASSUME NEW g, SoundGrammar(g), NEW set, SetIn(g, set), NEW x
  PROVE  CoreSet(Moved(g.prods, set, x)) = MovedDot(g, CoreSet(All(set)), x)
<1> DEFINE At == {a \in ToSymbolSet(All(set)) : ~ EndOf(g.prods, a) /\ AfterDot(g.prods, a) = x}
<1>1. \A it \in ToSymbolSet(All(set)) : ItemIn(g, it)
  BY ItemsOfSet
<1>2. CoreSet(Moved(g.prods, set, x)) = {CoreOf(a) : a \in WithDotMoved(g.prods, set, x)}
  BY CoreSetIs, MovedIs
<1>3. {CoreOf(a) : a \in WithDotMoved(g.prods, set, x)} = {<<it.prod, it.dot + 1>> : it \in At}
  <2>1. WithDotMoved(g.prods, set, x) = {Item(it.prod, it.dot + 1, it.la) : it \in At}
    BY DEF WithDotMoved
  <2>2. \A it : CoreOf(Item(it.prod, it.dot + 1, it.la)) = <<it.prod, it.dot + 1>>
    BY DEF CoreOf, Item
  <2> HIDE DEF At
  <2> QED
    BY <2>1, <2>2
<1>4. \A it \in At : /\ CoreOf(it) \in CoreSet(All(set)) \cap BeforeSymbol(g)
                     /\ NextSymbol(g, CoreOf(it)) = x
  BY <1>1, CoreSetIs, CoreInDotted
<1>5. ASSUME NEW i \in CoreSet(All(set)) \cap BeforeSymbol(g), NextSymbol(g, i) = x
      PROVE  \E it \in At : i = CoreOf(it)
  <2>1. PICK it \in ToSymbolSet(All(set)) : i = CoreOf(it)
    BY CoreSetIs
  <2> QED
    BY <1>1, <1>5, <2>1, CoreInDotted
<1>6. \A it : CoreOf(it)[1] = it.prod /\ CoreOf(it)[2] = it.dot
  BY DEF CoreOf
<1>7. {<<it.prod, it.dot + 1>> : it \in At} = MovedDot(g, CoreSet(All(set)), x)
  <2> HIDE DEF At
  <2>1. ASSUME NEW it \in At PROVE <<it.prod, it.dot + 1>> \in MovedDot(g, CoreSet(All(set)), x)
    BY <1>4, <1>6 DEF MovedDot
  <2>2. ASSUME NEW c \in MovedDot(g, CoreSet(All(set)), x)
        PROVE  \E it \in At : c = <<it.prod, it.dot + 1>>
    BY <1>5, <1>6 DEF MovedDot
  <2> QED
    BY <2>1, <2>2
<1> QED
  BY <1>2, <1>3, <1>7

LEMMA CalledForCores ==
  ASSUME NEW g, SoundGrammar(g), NEW set, SetIn(g, set)
  PROVE  CalledFor(g.prods, set) =
           {NextSymbol(g, i) : i \in CoreSet(All(set)) \cap BeforeSymbol(g)}
<1>1. \A it \in ToSymbolSet(All(set)) : ItemIn(g, it)
  BY ItemsOfSet
<1>2. ASSUME NEW x \in CalledFor(g.prods, set)
      PROVE  \E i \in CoreSet(All(set)) \cap BeforeSymbol(g) : x = NextSymbol(g, i)
  <2>1. PICK it \in ToSymbolSet(All(set)) : ~ EndOf(g.prods, it) /\ x = AfterDot(g.prods, it)
    BY DEF CalledFor
  <2> QED
    BY <1>1, <2>1, CoreInDotted, CoreSetIs
<1>3. ASSUME NEW i \in CoreSet(All(set)) \cap BeforeSymbol(g)
      PROVE  NextSymbol(g, i) \in CalledFor(g.prods, set)
  <2>1. PICK it \in ToSymbolSet(All(set)) : i = CoreOf(it)
    BY CoreSetIs
  <2> QED
    BY <1>1, <2>1, CoreInDotted DEF CalledFor
<1> QED
  BY <1>2, <1>3
-----------------------------------------------------------------------------
(* Kernels are in the order of their items, so that two with the same items*)
(* are the same list.                                                      *)
CoreBefore(a, b) == a[1] < b[1] \/ (a[1] = b[1] /\ a[2] < b[2])
InItemOrder(core) ==
  \A i \in DOMAIN core :
    i \in Int /\ Cardinality({c \in ToSymbolSet(core) : CoreBefore(c, core[i])}) = i - 1

LEMMA SameItemsSameCore ==
  ASSUME NEW f, NEW h, InItemOrder(Core(f)), InItemOrder(Core(h)), CoreSet(f) = CoreSet(h)
  PROVE  Core(f) = Core(h)
<1>1. ASSUME NEW a, NEW b, InItemOrder(a), InItemOrder(b), ToSymbolSet(a) = ToSymbolSet(b),
             NEW i \in DOMAIN a
      PROVE  i \in DOMAIN b /\ a[i] = b[i]
  <2>1. PICK j \in DOMAIN b : a[i] = b[j]
    BY <1>1 DEF ToSymbolSet
  <2>2. /\ Cardinality({c \in ToSymbolSet(a) : CoreBefore(c, a[i])}) = i - 1
        /\ Cardinality({c \in ToSymbolSet(a) : CoreBefore(c, a[i])}) = j - 1
        /\ i \in Int /\ j \in Int
    BY <1>1, <2>1 DEF InItemOrder
  <2>3. i = j
    BY <2>2
  <2> QED
    BY <2>1, <2>3
<1>2. DOMAIN Core(f) = DOMAIN Core(h) /\ \A i \in DOMAIN Core(f) : Core(f)[i] = Core(h)[i]
  BY <1>1 DEF CoreSet
<1>3. /\ Core(f) = [i \in DOMAIN Core(f) |-> Core(f)[i]]
      /\ Core(h) = [i \in DOMAIN Core(h) |-> Core(h)[i]]
  BY DEF Core
<1> QED
  BY <1>2, <1>3

LEMMA MovedInOrder ==
  ASSUME NEW g, SoundGrammar(g), NEW set, SetIn(g, set), NEW x
  PROVE  InItemOrder(Core(Moved(g.prods, set, x)))
<1>1. PICK r : r = Moved(g.prods, set, x)
  OBVIOUS
<1>2. PICK S : S = WithDotMoved(g.prods, set, x)
  OBVIOUS
<1>3. /\ IsList(r) /\ ToSymbolSet(r) = S
      /\ \A i \in DOMAIN r : Cardinality({b \in S : ItemBefore(b, r[i])}) = i - 1
  BY <1>1, <1>2, MovedIs
<1>4. KernelIn(g, r)
  BY <1>1, MovedArrives
<1>5. \A a, b \in S : CoreOf(a) = CoreOf(b) => a = b
  BY <1>3, <1>4 DEF KernelIn, ToSymbolSet, CoreOf
<1>6. IsFiniteSet(S)
  BY <1>3, ListIsFinite
<1>7. CoreSet(r) = {CoreOf(a) : a \in S}
  BY <1>3, CoreSetIs
<1>8. \A a, b : CoreBefore(CoreOf(a), CoreOf(b)) <=> ItemBefore(a, b)
  BY DEF CoreBefore, CoreOf, ItemBefore
<1>9. ASSUME NEW i \in DOMAIN r
      PROVE  Cardinality({c \in CoreSet(r) : CoreBefore(c, CoreOf(r[i]))}) = i - 1
  <2> DEFINE A == {b \in S : ItemBefore(b, r[i])}
             B == {c \in CoreSet(r) : CoreBefore(c, CoreOf(r[i]))}
             f == [a \in A |-> CoreOf(a)]
  <2>1. f \in Bijection(A, B)
    <3>1. f \in [A -> B]
      BY <1>7, <1>8
    <3>2. \A a, b \in A : f[a] = f[b] => a = b
      BY <1>5
    <3>3. \A c \in B : \E a \in A : f[a] = c
      BY <1>7, <1>8
    <3> HIDE DEF f, A, B
    <3> QED
      BY <3>1, <3>2, <3>3 DEF Bijection, Injection, Surjection, IsInjective
  <2>2. IsFiniteSet(A)
    BY <1>6, FS_Subset
  <2>3. Cardinality(B) = Cardinality(A)
    <3> HIDE DEF A, B, f
    <3> QED
      BY <2>1, <2>2, FS_Bijection DEF ExistsBijection
  <2> QED
    BY <1>3, <2>3
<1>10. DOMAIN Core(r) = DOMAIN r /\ \A i \in DOMAIN r : Core(r)[i] = CoreOf(r[i])
  BY DEF Core, CoreOf
<1>11. DOMAIN r \in SUBSET Int
  BY <1>3, ListLength
<1> QED
  BY <1>1, <1>9, <1>10, <1>11 DEF InItemOrder, CoreSet

-----------------------------------------------------------------------------
(* A closure against what is needed: what the items it is through with call*)
(* for is there, and it has only what its state needs.                     *)
WorkItems(w) == w.finished \cup ToSymbolSet(w.list)
WorkComplete(g, set, w) ==
  /\ ToSymbolSet(w.kernel) \subseteq ToSymbolSet(set.kernel)
  /\ Complete(g.prods, ToSymbolSet(set.kernel) \ ToSymbolSet(w.kernel), WorkItems(w))
  /\ Complete(g.prods, w.finished, WorkItems(w))
  /\ Needed(g, set.kernel, WorkItems(w))

LEMMA SingleItemCalls ==
  ASSUME NEW P, P = grammar.prods, DOMAIN P \in SUBSET Int, IsFiniteSet(DOMAIN P),
         NEW set, NEW w, GoodWork(P, set, w), NEW item,
         NEW z, z = SingleItemClosure(w, item)
  PROVE  /\ z.kernel = w.kernel /\ z.finished \subseteq w.finished
         /\ \A p : HasStart(WorkItems(z), p) <=> HasStart(WorkItems(w), p) \/ Calls(P, item, p)
<1>1. CASE DotAtEnd(item) \/ IsTerminal(SymbolAfterDot(item))
  <2>1. z = w
    BY <1>1 DEF SingleItemClosure
  <2>2. \A p : ~ Calls(P, item, p)
    BY <1>1, InTerms DEF Calls
  <2> QED
    BY <2>1, <2>2
<1>2. CASE ~ (DotAtEnd(item) \/ IsTerminal(SymbolAfterDot(item)))
  <2> DEFINE called == {p \in Prods : Lhs(p) = NtIndex(SymbolAfterDot(item))}
             la(p) == NewItemLookahead(item, p)
             finished(p) == {it \in w.finished : it.prod = p}
             listed == {w.list[i].prod : i \in DOMAIN w.list}
             queued == {p \in called \ listed :
                          ~ \E it \in finished(p) : la(p) \subseteq it.la}
             new == [i \in 1..Cardinality(queued) |-> NumberAt(queued, i)]
             before == [i \in DOMAIN w.list |->
                          IF w.list[i].prod \in called
                          THEN Item(w.list[i].prod, 0, w.list[i].la \cup la(w.list[i].prod))
                          ELSE w.list[i]]
             after == [i \in DOMAIN new |->
                         Item(new[i], 0, la(new[i]) \cup
                               UNION {it.la : it \in finished(new[i])})]
             kept == {it \in w.finished : it.prod \notin queued}
  <2>1. z = [w EXCEPT !.finished = kept, !.list = before \o after]
    BY <1>2 DEF SingleItemClosure, InOrder, NumberAt
  <2>2. queued \in SUBSET DOMAIN P /\ queued \subseteq called
    BY DEF Prods
  <2>3. /\ \A i \in DOMAIN w.list : before[i].prod = w.list[i].prod
        /\ DOMAIN before = DOMAIN w.list /\ before = [i \in DOMAIN w.list |-> before[i]]
    BY DEF Item
  <2>4. /\ \A i \in DOMAIN new : after[i].prod = new[i]
        /\ DOMAIN after = DOMAIN new /\ after = [i \in DOMAIN new |-> after[i]]
    BY DEF Item
  <2>5. \A p : p \in called <=> Calls(P, item, p)
    <3>1. ~ EndOf(P, item) /\ ~ IsTerminal(AfterDot(P, item))
          /\ AfterDot(P, item) = SymbolAfterDot(item)
      BY <1>2, InTerms
    <3>2. \A p : p \in Prods <=> p \in DOMAIN P
      BY DEF Prods
    <3>3. \A p : Lhs(p) = P[p].lhs
      BY DEF Lhs
    <3> QED
      BY <3>1, <3>2, <3>3 DEF Calls
  <2>6. \A p \in called : p \in queued \/ p \in listed \/ \E it \in w.finished : it.prod = p
    OBVIOUS
  <2>7. PICK q, n, b, a, k, c : /\ q = queued /\ n = new /\ b = before /\ a = after /\ k = kept
                               /\ c = called
    OBVIOUS
  <2>8. \A p : p \in listed <=> \E i \in DOMAIN w.list : w.list[i].prod = p
    OBVIOUS
  <2>9. IsFiniteSet(q) /\ q \in SUBSET Int
    BY <2>2, <2>7, FS_Subset
  <2>10. n = [i \in 1..Cardinality(q) |-> NumberAt(q, i)]
    BY <2>7
  <2>11. IsList(n) /\ ToSymbolSet(n) = q
    <3>1. PICK m \in Nat : m = Cardinality(q)
      BY <2>9, FS_CardinalityType
    <3>2. n = [i \in 1..m |-> n[i]] /\ \A i \in 1..m : n[i] = NumberAt(q, i)
      BY <2>10, <3>1
    <3>3. IsList(n) /\ Len(n) = m
      BY <3>2, IsAList
    <3> QED
      BY ONLY <2>9, <3>1, <3>2, <3>3, NumbersInOrder
  <2>12. Len(n) \in Nat /\ DOMAIN n = 1..Len(n)
    BY <2>11, ListLength
  <2>13. DOMAIN w.list = 1..Len(w.list) /\ Len(w.list) \in Nat
    BY ListLength DEF GoodWork
  <2>14. IsList(b)
    <3>1. b = [i \in 1..Len(w.list) |-> b[i]]
      BY <2>3, <2>7, <2>13
    <3> QED
      BY <2>13, <3>1, IsAList
  <2>15. IsList(a)
    <3>1. a = [i \in 1..Len(n) |-> a[i]]
      BY <2>4, <2>7, <2>12
    <3> QED
      BY <2>12, <3>1, IsAList
  <2>16. z = [finished |-> k, list |-> b \o a, kernel |-> w.kernel]
    BY <2>1, <2>7 DEF GoodWork
  <2>17. /\ \A i \in DOMAIN w.list : b[i].prod = w.list[i].prod
         /\ DOMAIN b = DOMAIN w.list
         /\ \A i \in DOMAIN n : a[i].prod = n[i]
         /\ DOMAIN a = DOMAIN n
    BY <2>3, <2>4, <2>7
  <2>18. /\ \A p \in c : p \in q \/ (\E i \in DOMAIN w.list : w.list[i].prod = p)
                         \/ \E it \in w.finished : it.prod = p
         /\ q \subseteq c /\ \A p : p \in c <=> Calls(P, item, p)
    BY <2>2, <2>5, <2>6, <2>7, <2>8
  <2>19. k = {it \in w.finished : it.prod \notin q}
    BY <2>7
  <2> HIDE DEF queued, new, before, after, kept, called, la, finished, listed
  <2>20. ToSymbolSet(b \o a) = ToSymbolSet(b) \cup ToSymbolSet(a)
    BY <2>14, <2>15, Concatenated
  <2>21. WorkItems(z) = k \cup ToSymbolSet(b) \cup ToSymbolSet(a)
    BY <2>16, <2>20 DEF WorkItems
  <2>22. \A p : p \in q <=> \E it \in ToSymbolSet(a) : it.prod = p
    BY <2>11, <2>17 DEF ToSymbolSet
  <2>23. /\ \A p : (\E i \in DOMAIN w.list : w.list[i].prod = p)
                     <=> \E it \in ToSymbolSet(b) : it.prod = p
         /\ \A p : (\E i \in DOMAIN w.list : w.list[i].prod = p)
                     <=> \E it \in ToSymbolSet(w.list) : it.prod = p
    BY <2>17 DEF ToSymbolSet
  <2>24. ASSUME NEW p
         PROVE  HasStart(WorkItems(z), p) <=> HasStart(WorkItems(w), p) \/ Calls(P, item, p)
    <3>1. HasStart(WorkItems(w), p) <=>
            (\E it \in w.finished : it.prod = p) \/ \E it \in ToSymbolSet(w.list) : it.prod = p
      BY DEF HasStart, WorkItems
    <3>2. HasStart(WorkItems(z), p) <=>
            \/ \E it \in k : it.prod = p
            \/ \E it \in ToSymbolSet(b) : it.prod = p
            \/ \E it \in ToSymbolSet(a) : it.prod = p
      BY <2>21 DEF HasStart
    <3>3. (\E it \in k : it.prod = p) <=> p \notin q /\ \E it \in w.finished : it.prod = p
      BY <2>19
    <3> QED
      BY <2>18, <2>22, <2>23, <3>1, <3>2, <3>3
  <2> QED
    BY <2>16, <2>19, <2>24
<1> QED
  BY <1>1, <1>2

LEMMA WorkGoesOn ==
  ASSUME NEW g, SoundGrammar(g), NEW set, SetIn(g, set), NEW w, WorkComplete(g, set, w),
         NEW item, ItemIn(g, item),
         CoreOf(item) \in Reach(Added(g), CoreSet(set.kernel)),
         NEW z,
         \A p : HasStart(WorkItems(z), p) <=> HasStart(WorkItems(w), p) \/ Calls(g.prods, item, p),
         z.finished \subseteq w.finished \cup {item},
         ToSymbolSet(w.kernel) \subseteq ToSymbolSet(z.kernel) \cup {item},
         ToSymbolSet(z.kernel) \subseteq ToSymbolSet(w.kernel)
  PROVE  WorkComplete(g, set, z)
<1>1. Complete(g.prods, ToSymbolSet(set.kernel) \ ToSymbolSet(z.kernel), WorkItems(z))
  BY DEF WorkComplete, Complete
<1>2. Complete(g.prods, z.finished, WorkItems(z))
  BY DEF WorkComplete, Complete
<1>3. Needed(g, set.kernel, WorkItems(z))
  <2> SUFFICES ASSUME NEW it \in WorkItems(z)
               PROVE  <<it.prod, 0>> \in Reach(Added(g), CoreSet(set.kernel))
    BY DEF Needed
  <2>1. HasStart(WorkItems(z), it.prod)
    BY DEF HasStart
  <2>2. CASE HasStart(WorkItems(w), it.prod)
    BY <2>2 DEF HasStart, WorkComplete, Needed
  <2>3. CASE Calls(g.prods, item, it.prod)
    <3>1. <<CoreOf(item), <<it.prod, 0>>>> \in Added(g)
      BY <2>3, CallsAdded
    <3>2. ClosedUnder(Added(g), Reach(Added(g), CoreSet(set.kernel)))
      BY AddedIs, KernelCores, ReachIs DEF SetIn
    <3>3. PICK e \in Added(g) : e = <<CoreOf(item), <<it.prod, 0>>>>
      BY <3>1
    <3>4. e[1] = CoreOf(item) /\ e[2] = <<it.prod, 0>>
      BY <3>3
    <3> QED
      BY <3>2, <3>4 DEF ClosedUnder
  <2> QED
    BY <2>1, <2>2, <2>3
<1> QED
  BY <1>1, <1>2, <1>3 DEF WorkComplete

LEMMA ClosureBeginsComplete ==
  ASSUME NEW g, NEW set, Needed(g, set.kernel, ToSymbolSet(set.nonkernel)),
         Complete(g.prods, ToSymbolSet(set.nonkernel), ToSymbolSet(set.nonkernel)),
         NEW w, w = [finished |-> ToSymbolSet(set.nonkernel), list |-> << >>, kernel |-> set.kernel]
  PROVE  WorkComplete(g, set, w)
<1>1. WorkItems(w) = ToSymbolSet(set.nonkernel) /\ w.kernel = set.kernel
      /\ w.finished = ToSymbolSet(set.nonkernel)
  BY DEF WorkItems, ToSymbolSet
<1> QED
  BY <1>1 DEF WorkComplete, Complete

-----------------------------------------------------------------------------
(* The states so far are states of the automaton, each once, with nothing  *)
(* that they do not need; those that are not under closure have it all.    *)
OfAutomaton(g, kernel) ==
  InItemOrder(Core(kernel)) /\ ClosedState(g, CoreSet(kernel)) \in RefStates(g)
LrStates(g, all) ==
  /\ all = << >> \/ (0 \in DOMAIN all /\ CoreSet(all[0].kernel) = {<<1, 0>>})
  /\ \A s, t \in DOMAIN all : Core(all[s].kernel) = Core(all[t].kernel) => s = t
  /\ \A s \in DOMAIN all : OfAutomaton(g, all[s].kernel)
  /\ \A s \in DOMAIN all : /\ OnceEach(all[s].nonkernel)
                           /\ Needed(g, all[s].kernel, ToSymbolSet(all[s].nonkernel))
OnListOrDone == StateIds = ToSymbolSet(pending) \cup done
ClosedAll == \A s \in StateIds : s # closing => SetComplete(grammar.prods, sets[s])
ClosureSo == closing # NoState => WorkComplete(grammar, sets[closing], work)
LrSoFar == LrStates(grammar, sets) /\ OnListOrDone /\ ClosedAll /\ ClosureSo

LEMMA SameCoreSame ==
  ASSUME NEW f, NEW h, Core(f) = Core(h)
  PROVE  /\ CoreSet(f) = CoreSet(h)
         /\ \A g : OfAutomaton(g, f) => OfAutomaton(g, h)
         /\ \A g, items : Needed(g, f, items) => Needed(g, h, items)
BY DEF CoreSet, OfAutomaton, Needed

LEMMA SameComplete ==
  ASSUME NEW P, NEW old, NEW new, WellMade(P, old), WellMade(P, new),
         new.nonkernel = old.nonkernel, Core(new.kernel) = Core(old.kernel),
         SetComplete(P, old)
  PROVE  SetComplete(P, new)
<1>1. /\ ToSymbolSet(All(old)) = ToSymbolSet(old.kernel) \cup ToSymbolSet(old.nonkernel)
      /\ ToSymbolSet(All(new)) = ToSymbolSet(new.kernel) \cup ToSymbolSet(new.nonkernel)
  BY Concatenated DEF WellMade, All
<1>2. ASSUME NEW it \in ToSymbolSet(new.kernel)
      PROVE  \E a \in ToSymbolSet(old.kernel) : a.prod = it.prod /\ a.dot = it.dot
  <2>1. PICK i \in DOMAIN new.kernel : it = new.kernel[i]
    BY DEF ToSymbolSet
  <2>2. i \in DOMAIN old.kernel /\ old.kernel[i].prod = it.prod /\ old.kernel[i].dot = it.dot
    BY <2>1, SameCore
  <2> QED
    BY <2>2 DEF ToSymbolSet
<1>3. \A a, b, p : a.prod = b.prod /\ a.dot = b.dot => (Calls(P, a, p) <=> Calls(P, b, p))
  BY DEF Calls, EndOf, AfterDot
<1> SUFFICES ASSUME NEW it \in ToSymbolSet(All(new)), NEW p, Calls(P, it, p)
             PROVE  HasStart(ToSymbolSet(new.nonkernel), p)
  BY DEF SetComplete, Complete
<1>4. CASE it \in ToSymbolSet(new.kernel)
  <2>1. PICK a \in ToSymbolSet(old.kernel) : a.prod = it.prod /\ a.dot = it.dot
    BY <1>2, <1>4
  <2> QED
    BY <1>1, <1>3, <2>1 DEF SetComplete, Complete
<1>5. CASE it \in ToSymbolSet(new.nonkernel)
  BY <1>1, <1>5 DEF SetComplete, Complete
<1> QED
  BY <1>1, <1>4, <1>5

(* The first state.                                                        *)
LEMMA MakeStartStateLr ==
  ASSUME Given, SetsSoFar, LrSoFar, MakeStartState, UNCHANGED grammar
  PROVE  LrSoFar'
<1> DEFINE kernel == <<Item(1, 0, {})>>
<1>1. /\ sets = << >> /\ sets' = [s \in {0} |-> NewSet(kernel)]
      /\ closing' = 0
      /\ work' = [finished |-> ToSymbolSet(NewSet(kernel).nonkernel), list |-> << >>,
                  kernel |-> NewSet(kernel).kernel]
      /\ pending' = <<0>> /\ done' = done
  BY DEF MakeStartState, BeginClosure
<1>2. done = {}
  <2>1. DOMAIN sets = {}
    BY <1>1
  <2> QED
    BY <2>1 DEF SetsSoFar, Lined, StateIds
<1>3. PICK set : set = NewSet(kernel)
  OBVIOUS
<1>4. set.kernel = kernel /\ set.nonkernel = << >>
  BY <1>3 DEF NewSet
<1>5. DOMAIN sets' = {0} /\ sets'[0] = set
  BY <1>1, <1>3
<1>6. Core(kernel) = <<<<1, 0>>>> /\ CoreSet(kernel) = {<<1, 0>>}
  <2>1. Core(kernel) = [i \in 1..1 |-> <<1, 0>>]
    BY DEF Core, Item
  <2>2. ToSymbolSet(Core(kernel)) = {<<1, 0>>}
    BY <2>1 DEF ToSymbolSet
  <2> QED
    BY <2>1, <2>2 DEF CoreSet
<1>7. InItemOrder(Core(kernel))
  <2>1. PICK c : c = Core(kernel)
    OBVIOUS
  <2>2. DOMAIN c = {1} /\ c[1] = <<1, 0>> /\ ToSymbolSet(c) = {<<1, 0>>}
    BY <1>6, <2>1 DEF ToSymbolSet
  <2>3. {d \in {<<1, 0>>} : CoreBefore(d, <<1, 0>>)} = {}
    BY DEF CoreBefore
  <2>4. Cardinality({}) = 1 - 1
    BY FS_EmptySet
  <2> QED
    BY <2>1, <2>2, <2>3, <2>4 DEF InItemOrder
<1>8. ClosedState(grammar, CoreSet(kernel)) \in RefStates(grammar)
  BY <1>6, GivenIsSound, RefStatesIs
<1>9. ToSymbolSet(set.nonkernel) = {}
  BY <1>4 DEF ToSymbolSet
<1>10. LrStates(grammar, sets)'
  <2>1. OnceEach(set.nonkernel) /\ Needed(grammar, set.kernel, ToSymbolSet(set.nonkernel))
    BY <1>4, <1>9 DEF OnceEach, Needed
  <2> HIDE DEF kernel
  <2> QED
    BY <1>4, <1>5, <1>6, <1>7, <1>8, <2>1 DEF LrStates, OfAutomaton
<1>11. OnListOrDone' /\ ClosedAll'
  <2>1. ToSymbolSet(<<0>>) = {0}
    BY DEF ToSymbolSet
  <2> QED
    BY <1>1, <1>2, <1>5, <2>1 DEF OnListOrDone, ClosedAll, StateIds
<1>12. ClosureSo'
  <2>1. Needed(grammar, set.kernel, ToSymbolSet(set.nonkernel))
        /\ Complete(grammar.prods, ToSymbolSet(set.nonkernel), ToSymbolSet(set.nonkernel))
    BY <1>9 DEF Needed, Complete
  <2>2. WorkComplete(grammar, set, work')
    BY <1>1, <1>3, <2>1, ClosureBeginsComplete
  <2> QED
    BY <1>1, <1>5, <2>2 DEF ClosureSo
<1> QED
  BY <1>10, <1>11, <1>12 DEF LrSoFar

LEMMA PopItemSetLr ==
  ASSUME SetsSoFar, LrSoFar, PopItemSet, UNCHANGED grammar
  PROVE  LrSoFar'
<1>1. /\ pending # << >> /\ pending' = Front(pending) /\ done' = done \cup {Last(pending)}
      /\ UNCHANGED <<sets, closing, work>>
  BY DEF PopItemSet
<1>2. IsList(pending)
  <2>1. pending \in Seq(StateIds)
    BY DEF SetsSoFar, Lined
  <2>2. pending = [i \in 1..Len(pending) |-> pending[i]] /\ Len(pending) \in Nat
    BY <2>1
  <2> QED
    BY <2>2, IsAList
<1>3. ToSymbolSet(pending) = ToSymbolSet(Front(pending)) \cup {Last(pending)}
  BY <1>1, <1>2, FrontOfList DEF ToSymbolSet, Last
<1> QED
  BY <1>1, <1>3 DEF LrSoFar, OnListOrDone, ClosedAll, ClosureSo, StateIds

LEMMA ItemSetDoneLr ==
  ASSUME SetsSoFar, LrSoFar, ItemSetDone, UNCHANGED grammar
  PROVE  LrSoFar'
<1>1. /\ closing = NoState /\ current # NoState
      /\ UNCHANGED <<sets, pending, done>>
  BY DEF ItemSetDone, Considering
<1>2. \/ /\ closing' = current
         /\ work' = [finished |-> ToSymbolSet(sets[current].nonkernel), list |-> << >>,
                     kernel |-> sets[current].kernel]
      \/ closing' = closing /\ work' = work
  BY DEF ItemSetDone, ClosesItself, BeginClosure, NoClosure
<1>3. current \in StateIds /\ current # NoState
  BY <1>1 DEF SetsSoFar, Lined
<1>4. SetComplete(grammar.prods, sets[current]) /\ WellMade(grammar.prods, sets[current])
  BY <1>1, <1>3 DEF LrSoFar, ClosedAll, SetsSoFar, Automaton, StateIds
<1>5. Complete(grammar.prods, ToSymbolSet(sets[current].nonkernel), ToSymbolSet(sets[current].nonkernel))
  <2>1. ToSymbolSet(sets[current].nonkernel) \subseteq ToSymbolSet(All(sets[current]))
    BY <1>4, Concatenated DEF WellMade, All
  <2> QED
    BY <1>4, <2>1 DEF SetComplete, Complete
<1>6. ClosureSo'
  <2>1. CASE closing' = closing
    BY <1>1, <2>1 DEF ClosureSo
  <2>2. CASE /\ closing' = current
             /\ work' = [finished |-> ToSymbolSet(sets[current].nonkernel), list |-> << >>,
                         kernel |-> sets[current].kernel]
    <3>1. WorkComplete(grammar, sets[current], work')
      BY <1>3, <1>5, <2>2, ClosureBeginsComplete DEF LrSoFar, LrStates, StateIds
    <3> QED
      BY <1>1, <2>2, <3>1 DEF ClosureSo
  <2> QED
    BY <1>2, <2>1, <2>2
<1>7. ClosedAll'
  <2>1. \A s \in StateIds : SetComplete(grammar.prods, sets[s])
    BY <1>1, NoStateIsNone DEF LrSoFar, ClosedAll, SetsSoFar, StateIds
  <2> QED
    BY <1>1, <2>1 DEF ClosedAll, StateIds
<1> QED
  BY <1>1, <1>6, <1>7 DEF LrSoFar, OnListOrDone, StateIds

(* The first of a list and the rest.                                       *)
LEMMA HeadOfList ==
  ASSUME NEW k, IsList(k), k # << >>
  PROVE  /\ Head(k) \in ToSymbolSet(k)
         /\ ToSymbolSet(k) \subseteq ToSymbolSet(Tail(k)) \cup {Head(k)}
         /\ ToSymbolSet(Tail(k)) \subseteq ToSymbolSet(k)
<1>1. k \in Seq(ToSymbolSet(k)) /\ k # << >>
  BY DEF IsList
<1>2. PICK n \in Nat : Len(k) = n /\ DOMAIN k = 1..n /\ n > 0
  BY <1>1
<1>3. DOMAIN Tail(k) = 1..(n - 1) /\ \A i \in 1..(n - 1) : Tail(k)[i] = k[i + 1]
  BY <1>1, <1>2
<1>4. Head(k) = k[1] /\ 1 \in DOMAIN k
  BY <1>1, <1>2
<1>5. /\ \A i \in 1..n : i = 1 \/ (i - 1 \in 1..(n - 1) /\ (i - 1) + 1 = i)
      /\ \A i \in 1..(n - 1) : i + 1 \in 1..n
  BY <1>2
<1>6. \A i \in DOMAIN k : k[i] = Head(k) \/ k[i] \in ToSymbolSet(Tail(k))
  <2> TAKE i \in DOMAIN k
  <2>1. CASE i = 1
    BY <1>4, <2>1
  <2>2. CASE i # 1
    <3>1. i - 1 \in DOMAIN Tail(k) /\ Tail(k)[i - 1] = k[i]
      BY <1>2, <1>3, <1>5, <2>2
    <3> QED
      BY <3>1 DEF ToSymbolSet
  <2> QED
    BY <2>1, <2>2
<1>7. \A i \in DOMAIN Tail(k) : Tail(k)[i] \in ToSymbolSet(k)
  BY <1>2, <1>3, <1>5 DEF ToSymbolSet
<1> QED
  BY <1>4, <1>6, <1>7 DEF ToSymbolSet

LEMMA CloseItemsLr ==
  ASSUME Given, SetsSoFar, Typed, phase \in Early, LrSoFar, CloseKernelItem \/ CloseItem,
         UNCHANGED grammar
  PROVE  LrSoFar'
<1> DEFINE P == grammar.prods
<1>1. closing # NoState /\ UNCHANGED <<sets, pending, done, closing>>
  BY DEF CloseKernelItem, CloseItem
<1>2. PICK set : set = sets[closing]
  OBVIOUS
<1>3. /\ GoodWork(P, set, work) /\ WorkComplete(grammar, set, work)
      /\ WorkIn(grammar, work) /\ SetIn(grammar, set)
  <2>1. closing \in StateIds
    BY <1>1 DEF SetsSoFar, Lined
  <2> QED
    BY <1>1, <1>2, <2>1
    DEF SetsSoFar, UnderClosure, LrSoFar, ClosureSo, Typed, UnderClosureIn, SetsIn, StateIds
<1>4. SoundGrammar(grammar)
  BY GivenIsSound
<1>5. DOMAIN P \in SUBSET Int /\ IsFiniteSet(DOMAIN P)
  BY ProductionsAre
<1>6. CoreSet(set.kernel) \subseteq Reach(Added(grammar), CoreSet(set.kernel))
  BY <1>3, <1>4, AddedIs, KernelCores, ReachIs DEF SetIn
<1>7. WorkComplete(grammar, set, work')
  <2>1. CASE CloseKernelItem
    <3>1. PICK w, item : w = [work EXCEPT !.kernel = Tail(@)] /\ item = Head(work.kernel)
      OBVIOUS
    <3>2. work' = SingleItemClosure(w, item) /\ work.kernel # << >>
      BY <2>1, <3>1 DEF CloseKernelItem
    <3>3. GoodWork(P, set, w)
      BY <1>3, <3>1, <3>2, TakenFromWork
    <3>4. /\ w.finished = work.finished /\ w.list = work.list /\ w.kernel = Tail(work.kernel)
          /\ WorkItems(w) = WorkItems(work)
      BY <1>3, <3>1 DEF GoodWork, WorkItems
    <3>5. /\ work'.kernel = w.kernel /\ work'.finished \subseteq w.finished
          /\ \A p : HasStart(WorkItems(work'), p) <=> HasStart(WorkItems(w), p) \/ Calls(P, item, p)
      BY <1>5, <3>2, <3>3, SingleItemCalls
    <3>6. /\ item \in ToSymbolSet(work.kernel)
          /\ ToSymbolSet(work.kernel) \subseteq ToSymbolSet(Tail(work.kernel)) \cup {item}
          /\ ToSymbolSet(Tail(work.kernel)) \subseteq ToSymbolSet(work.kernel)
      BY <1>3, <3>1, <3>2, HeadOfList DEF GoodWork
    <3>7. item \in ToSymbolSet(set.kernel) /\ ItemIn(grammar, item)
      <4>1. item \in ToSymbolSet(set.kernel)
        BY <1>3, <3>6 DEF WorkComplete
      <4> QED
        BY <1>3, <4>1, ItemsOfSet
    <3>8. CoreOf(item) \in Reach(Added(grammar), CoreSet(set.kernel))
      BY <1>6, <3>7, CoreSetIs
    <3> QED
      BY <1>3, <1>4, <3>4, <3>5, <3>6, <3>7, <3>8, WorkGoesOn
  <2>2. CASE CloseItem
    <3>1. PICK w, item : /\ w = [work EXCEPT !.finished = @ \cup {Last(work.list)},
                                             !.list = Front(@)]
                         /\ item = Last(work.list)
      OBVIOUS
    <3>2. work' = SingleItemClosure(w, item) /\ work.list # << >>
      BY <2>2, <3>1 DEF CloseItem
    <3>3. GoodWork(P, set, w)
      BY <1>3, <3>1, <3>2, TakenFromWork
    <3>4. /\ item \in ToSymbolSet(work.list)
          /\ ToSymbolSet(work.list) = ToSymbolSet(Front(work.list)) \cup {item}
      BY <1>3, <3>1, <3>2, FrontOfList DEF GoodWork, ToSymbolSet, Last
    <3>5. /\ w.finished = work.finished \cup {item} /\ w.kernel = work.kernel
          /\ WorkItems(w) = WorkItems(work)
      BY <1>3, <3>1, <3>4 DEF GoodWork, WorkItems
    <3>6. /\ work'.kernel = w.kernel /\ work'.finished \subseteq w.finished
          /\ \A p : HasStart(WorkItems(work'), p) <=> HasStart(WorkItems(w), p) \/ Calls(P, item, p)
      BY <1>5, <3>2, <3>3, SingleItemCalls
    <3>7. ItemIn(grammar, item) /\ item.dot = 0 /\ item \in WorkItems(work)
      BY <1>3, <3>4 DEF WorkIn, NonkernelIn, GoodWork, WorkItems
    <3>8. CoreOf(item) \in Reach(Added(grammar), CoreSet(set.kernel))
      BY <1>3, <3>7 DEF WorkComplete, Needed, CoreOf
    <3> QED
      BY <1>3, <1>4, <3>5, <3>6, <3>7, <3>8, WorkGoesOn
  <2> QED
    BY <2>1, <2>2
<1>8. ClosureSo'
  BY <1>1, <1>2, <1>7 DEF ClosureSo
<1> QED
  BY <1>1, <1>8 DEF LrSoFar, OnListOrDone, ClosedAll, StateIds

-----------------------------------------------------------------------------
LEMMA ClosureDoneLr ==
  ASSUME Given, SetsSoFar, LrSoFar, ClosureDone, UNCHANGED <<grammar, hashOrder>>, SetsSoFar'
  PROVE  LrSoFar'
<1> DEFINE P == grammar.prods
<1>1. /\ closing # NoState /\ work.list = << >> /\ work.kernel = << >>
      /\ sets' = [sets EXCEPT ![closing].nonkernel = InHashOrder(work.finished)]
      /\ closing' = NoState
      /\ UNCHANGED <<pending, done, P>>
  BY DEF ClosureDone
<1>2. closing \in DOMAIN sets
  BY <1>1 DEF SetsSoFar, Lined, StateIds
<1>3. GoodWork(P, sets[closing], work) /\ WorkComplete(grammar, sets[closing], work)
  BY <1>1 DEF SetsSoFar, UnderClosure, LrSoFar, ClosureSo
<1>4. PICK found : found = InHashOrder(work.finished)
  OBVIOUS
<1>5. IsList(found) /\ ToSymbolSet(found) = work.finished /\ OnceEach(found)
  BY <1>3, <1>4, ProductionsAre, HashOrderOfFinished
<1>6. PICK old, new : old = sets[closing] /\ new = [sets[closing] EXCEPT !.nonkernel = found]
  OBVIOUS
<1>7. WellMade(P, old)
  BY <1>2, <1>6 DEF SetsSoFar, Automaton
<1>8. new.kernel = old.kernel /\ new.nonkernel = found
  BY <1>6, <1>7 DEF WellMade
<1>9. /\ DOMAIN sets' = DOMAIN sets /\ sets'[closing] = new
      /\ \A s \in DOMAIN sets : s # closing => sets'[s] = sets[s]
      /\ \A s \in DOMAIN sets : sets'[s].kernel = sets[s].kernel
  BY <1>1, <1>2, <1>4, <1>6, <1>8
<1>10. ToSymbolSet(work.list) = {} /\ ToSymbolSet(work.kernel) = {}
  BY <1>1 DEF ToSymbolSet
<1>11. WorkItems(work) = ToSymbolSet(new.nonkernel)
  BY <1>5, <1>8, <1>10 DEF WorkItems
<1>12. WellMade(P, new)
  BY <1>1, <1>2, <1>9 DEF SetsSoFar, Automaton
<1>13. SetComplete(P, new)
  <2>1. ToSymbolSet(All(new)) = ToSymbolSet(new.kernel) \cup ToSymbolSet(new.nonkernel)
    BY <1>12, Concatenated DEF WellMade, All
  <2>2. Complete(P, ToSymbolSet(new.kernel), ToSymbolSet(new.nonkernel))
    BY <1>3, <1>6, <1>8, <1>10, <1>11 DEF WorkComplete
  <2>3. Complete(P, ToSymbolSet(new.nonkernel), ToSymbolSet(new.nonkernel))
    BY <1>3, <1>5, <1>8, <1>11 DEF WorkComplete
  <2> QED
    BY <2>1, <2>2, <2>3 DEF SetComplete, Complete
<1>14. LrStates(grammar, sets)'
  <2>1. OnceEach(new.nonkernel) /\ Needed(grammar, new.kernel, ToSymbolSet(new.nonkernel))
    BY <1>3, <1>5, <1>6, <1>8, <1>11 DEF WorkComplete
  <2>2. \A s \in DOMAIN sets :
          /\ OnceEach(sets'[s].nonkernel)
          /\ Needed(grammar, sets'[s].kernel, ToSymbolSet(sets'[s].nonkernel))
    BY <1>9, <2>1 DEF LrSoFar, LrStates
  <2>3. 0 \in DOMAIN sets /\ CoreSet(sets'[0].kernel) = {<<1, 0>>}
    <3>1. sets # << >>
      BY <1>2
    <3> QED
      BY <1>9, <3>1 DEF LrSoFar, LrStates
  <2>4. LrStates(grammar, sets')
    BY <1>9, <2>2, <2>3 DEF LrSoFar, LrStates
  <2> QED
    BY <2>4
<1>15. ClosedAll'
  <2>1. ASSUME NEW s \in DOMAIN sets PROVE SetComplete(P, sets'[s])
    BY <1>9, <1>13 DEF LrSoFar, ClosedAll, StateIds
  <2> QED
    BY <1>1, <1>9, <2>1 DEF ClosedAll, StateIds
<1>16. OnListOrDone' /\ ClosureSo'
  BY <1>1, <1>9 DEF LrSoFar, OnListOrDone, ClosureSo, StateIds
<1> QED
  BY <1>14, <1>15, <1>16 DEF LrSoFar

(* The states that were there before have the same items as before, and    *)
(* the lookahead of some may have grown.                                   *)
LEMMA LinkedLr ==
  ASSUME NEW g, NEW all, Automaton(g.prods, all), LrStates(g, all),
         NEW new, NEW c, NEW x, NEW s, Linked(g.prods, all, new, c, x, s),
         NEW t \in DOMAIN all
  PROVE  /\ t \in DOMAIN new /\ Core(new[t].kernel) = Core(all[t].kernel)
         /\ OfAutomaton(g, new[t].kernel) /\ OnceEach(new[t].nonkernel)
         /\ Needed(g, new[t].kernel, ToSymbolSet(new[t].nonkernel))
         /\ SetComplete(g.prods, all[t]) => SetComplete(g.prods, new[t])
<1>1. /\ t \in DOMAIN new /\ WellMade(g.prods, new[t]) /\ WellMade(g.prods, all[t])
      /\ new[t].nonkernel = all[t].nonkernel
      /\ Core(all[t].kernel) = Core(new[t].kernel)
  BY DEF Linked, Covers, Automaton
<1>2. /\ OfAutomaton(g, all[t].kernel) /\ OnceEach(all[t].nonkernel)
      /\ Needed(g, all[t].kernel, ToSymbolSet(all[t].nonkernel))
  BY DEF LrStates
<1>3. OfAutomaton(g, new[t].kernel) /\ Needed(g, new[t].kernel, ToSymbolSet(all[t].nonkernel))
  BY <1>1, <1>2, SameCoreSame
<1>4. SetComplete(g.prods, all[t]) => SetComplete(g.prods, new[t])
  BY <1>1, SameComplete
<1> QED
  BY <1>1, <1>2, <1>3, <1>4

(* A state that a set leads to is one of the automaton if the set is one.  *)
LEMMA MovedOfAutomaton ==
  ASSUME NEW g, SoundGrammar(g), NEW set, SetIn(g, set), SetComplete(g.prods, set),
         Needed(g, set.kernel, ToSymbolSet(set.nonkernel)), OfAutomaton(g, set.kernel),
         NEW x \in CalledFor(g.prods, set)
  PROVE  OfAutomaton(g, Moved(g.prods, set, x))
<1>1. InItemOrder(Core(Moved(g.prods, set, x)))
  BY MovedInOrder
<1>2. CoreSet(Moved(g.prods, set, x)) = MovedDot(g, CoreSet(All(set)), x)
  BY MovedCores
<1>3. CoreSet(All(set)) = Reach(Added(g), CoreSet(set.kernel))
  BY CompleteIsClosed
<1>4. x \in {NextSymbol(g, i) : i \in CoreSet(All(set)) \cap BeforeSymbol(g)}
  BY CalledForCores
<1>5. PICK st : st = ClosedState(g, CoreSet(set.kernel))
  OBVIOUS
<1>6. st[2] = CoreSet(All(set))
  BY <1>3, <1>5 DEF ClosedState
<1>7. ClosedState(g, MovedDot(g, CoreSet(All(set)), x)) \in NextStates(g, st)
  BY <1>4, <1>6 DEF NextStates
<1>8. st \in RefStates(g)
  BY <1>5 DEF OfAutomaton
<1>9. ClosedState(g, MovedDot(g, CoreSet(All(set)), x)) \in RefStates(g)
  BY <1>7, <1>8, RefStatesIs
<1> QED
  BY <1>1, <1>2, <1>9 DEF OfAutomaton

LEMMA MakeItemSetLr ==
  ASSUME Given, SetsSoFar, Typed, LrSoFar, MakeItemSet, UNCHANGED <<grammar, hashOrder>>
  PROVE  LrSoFar'
<1> DEFINE P == grammar.prods
<1>1. closing = NoState
  BY MakeItemSetLinks
<1>2. PICK x, kernel, new :
        /\ x \in CalledFor(P, sets[current]) /\ current \in DOMAIN sets
        /\ kernel = Moved(P, sets[current], x)
        /\ new \notin DOMAIN sets /\ DOMAIN sets' = DOMAIN sets \cup {new}
        /\ \E n \in Nat : DOMAIN sets' = 0..(n - 1)
        /\ sets'[new] = NewSet(kernel)
        /\ Linked(P, sets, sets', current, x, new)
        /\ closing' = new
        /\ work' = [finished |-> ToSymbolSet(NewSet(kernel).nonkernel), list |-> << >>,
                    kernel |-> NewSet(kernel).kernel]
        /\ pending' = Append(pending, new) /\ done' = done
        /\ \A s \in ToSymbolSet(pending) \cup done : Core(sets[s].kernel) # Core(kernel)
  BY MakeItemSetLinks
<1>3. SoundGrammar(grammar) /\ SetIn(grammar, sets[current])
  BY <1>2, GivenIsSound DEF Typed, SetsIn
<1>4. current # closing
  BY <1>1, <1>2, NoStateIsNone DEF SetsSoFar
<1>5. OfAutomaton(grammar, kernel)
  BY <1>2, <1>3, <1>4, MovedOfAutomaton DEF LrSoFar, LrStates, ClosedAll, StateIds
<1>6. \A t \in DOMAIN sets : Core(sets[t].kernel) # Core(kernel)
  BY <1>2 DEF LrSoFar, OnListOrDone, StateIds
<1>7. PICK fresh : fresh = NewSet(kernel)
  OBVIOUS
<1>8. /\ fresh.kernel = kernel /\ fresh.nonkernel = << >>
      /\ ToSymbolSet(fresh.nonkernel) = {} /\ OnceEach(fresh.nonkernel)
  BY <1>7 DEF NewSet, ToSymbolSet, OnceEach
<1>9. Needed(grammar, fresh.kernel, ToSymbolSet(fresh.nonkernel))
      /\ Complete(P, ToSymbolSet(fresh.nonkernel), ToSymbolSet(fresh.nonkernel))
  BY <1>8 DEF Needed, Complete
<1>10. ASSUME NEW t \in DOMAIN sets
       PROVE  /\ t \in DOMAIN sets' /\ Core(sets'[t].kernel) = Core(sets[t].kernel)
              /\ OfAutomaton(grammar, sets'[t].kernel) /\ OnceEach(sets'[t].nonkernel)
              /\ Needed(grammar, sets'[t].kernel, ToSymbolSet(sets'[t].nonkernel))
              /\ SetComplete(P, sets[t]) => SetComplete(P, sets'[t])
  <2>1. PICK all, g : all = sets /\ g = grammar
    OBVIOUS
  <2>2. PICK next : next = sets'
    OBVIOUS
  <2>3. Linked(g.prods, all, next, current, x, new)
    BY <1>2, <2>1, <2>2
  <2>4. Automaton(g.prods, all) /\ LrStates(g, all)
    BY <2>1 DEF SetsSoFar, LrSoFar
  <2>5. t \in DOMAIN all
    BY <2>1
  <2>6. /\ t \in DOMAIN next /\ Core(next[t].kernel) = Core(all[t].kernel)
        /\ OfAutomaton(g, next[t].kernel) /\ OnceEach(next[t].nonkernel)
        /\ Needed(g, next[t].kernel, ToSymbolSet(next[t].nonkernel))
        /\ SetComplete(g.prods, all[t]) => SetComplete(g.prods, next[t])
    BY <2>3, <2>4, <2>5, LinkedLr
  <2> QED
    BY <2>1, <2>2, <2>6
<1>11. LrStates(grammar, sets')
  <2>1. \A t \in DOMAIN sets' : t \in DOMAIN sets \/ t = new
    BY <1>2
  <2>2. 0 \in DOMAIN sets' /\ CoreSet(sets'[0].kernel) = {<<1, 0>>}
    <3>1. 0 \in DOMAIN sets /\ CoreSet(sets[0].kernel) = {<<1, 0>>}
      <4>1. sets # << >>
        BY <1>2
      <4> QED
        BY <4>1 DEF LrSoFar, LrStates
    <3> QED
      BY <1>10, <3>1, SameCoreSame
  <2>3. \A s, t \in DOMAIN sets' : Core(sets'[s].kernel) = Core(sets'[t].kernel) => s = t
    <3> TAKE s, t \in DOMAIN sets'
    <3>1. \A a, b \in DOMAIN sets : Core(sets'[a].kernel) = Core(sets'[b].kernel) => a = b
      BY <1>10 DEF LrSoFar, LrStates
    <3>2. \A a \in DOMAIN sets : Core(sets'[a].kernel) # Core(sets'[new].kernel)
      BY <1>2, <1>6, <1>7, <1>8, <1>10
    <3> QED
      BY <2>1, <3>1, <3>2
  <2>4. \A t \in DOMAIN sets' : OfAutomaton(grammar, sets'[t].kernel)
    BY <1>2, <1>5, <1>7, <1>8, <1>10, <2>1
  <2>5. \A t \in DOMAIN sets' : /\ OnceEach(sets'[t].nonkernel)
                                /\ Needed(grammar, sets'[t].kernel, ToSymbolSet(sets'[t].nonkernel))
    BY <1>2, <1>7, <1>8, <1>9, <1>10, <2>1
  <2> QED
    BY <2>2, <2>3, <2>4, <2>5 DEF LrStates
<1>12. OnListOrDone'
  <2>1. pending \in Seq(StateIds)
    BY DEF SetsSoFar, Lined
  <2>2. ToSymbolSet(Append(pending, new)) = ToSymbolSet(pending) \cup {new}
    <3>1. PICK n \in Nat : Len(pending) = n /\ DOMAIN pending = 1..n
      BY <2>1
    <3>2. PICK q : q = Append(pending, new)
      OBVIOUS
    <3>3. DOMAIN q = 1..(n + 1) /\ q[n + 1] = new /\ \A i \in 1..n : q[i] = pending[i]
      BY <2>1, <3>1, <3>2
    <3>4. \A i : i \in 1..(n + 1) <=> i \in 1..n \/ i = n + 1
      BY <3>1
    <3> QED
      BY <3>1, <3>2, <3>3, <3>4 DEF ToSymbolSet
  <2> QED
    BY <1>2, <2>2 DEF LrSoFar, OnListOrDone, StateIds
<1>13. ClosedAll'
  <2>1. ASSUME NEW s \in DOMAIN sets PROVE SetComplete(P, sets'[s])
    BY <1>1, <1>10, NoStateIsNone DEF LrSoFar, ClosedAll, StateIds, SetsSoFar
  <2> QED
    BY <1>2, <2>1 DEF ClosedAll, StateIds
<1>14. ClosureSo'
  <2>1. WorkComplete(grammar, fresh, work')
    BY <1>2, <1>7, <1>9, ClosureBeginsComplete
  <2> QED
    BY <1>2, <1>7, <2>1 DEF ClosureSo
<1> QED
  BY <1>11, <1>12, <1>13, <1>14 DEF LrSoFar

LEMMA FindItemSetLr ==
  ASSUME Given, SetsSoFar, Typed, LrSoFar, FindItemSet, UNCHANGED <<grammar, hashOrder>>,
         SetsSoFar'
  PROVE  LrSoFar'
<1> DEFINE P == grammar.prods
<1>1. closing = NoState
  BY FindItemSetLinks
<1>2. PICK x, kernel, s :
        /\ x \in CalledFor(P, sets[current]) /\ current \in DOMAIN sets
        /\ s \in DOMAIN sets /\ DOMAIN sets' = DOMAIN sets
        /\ Linked(P, sets, sets', current, x, s)
        /\ \/ closing' = NoState
           \/ closing' = s /\
              work' = [finished |-> ToSymbolSet(sets'[s].nonkernel), list |-> << >>,
                       kernel |-> sets'[s].kernel]
        /\ \/ done' = done \ {s} /\ pending' = Append(pending, s)
           \/ done' = done /\ pending' = pending
  BY FindItemSetLinks
<1>3. ASSUME NEW t \in DOMAIN sets
      PROVE  /\ t \in DOMAIN sets' /\ Core(sets'[t].kernel) = Core(sets[t].kernel)
             /\ OfAutomaton(grammar, sets'[t].kernel) /\ OnceEach(sets'[t].nonkernel)
             /\ Needed(grammar, sets'[t].kernel, ToSymbolSet(sets'[t].nonkernel))
             /\ SetComplete(P, sets[t]) => SetComplete(P, sets'[t])
  <2>1. PICK all, g : all = sets /\ g = grammar
    OBVIOUS
  <2>2. PICK next : next = sets'
    OBVIOUS
  <2>3. Linked(g.prods, all, next, current, x, s)
    BY <1>2, <2>1, <2>2
  <2>4. Automaton(g.prods, all) /\ LrStates(g, all)
    BY <2>1 DEF SetsSoFar, LrSoFar
  <2>5. t \in DOMAIN all
    BY <2>1
  <2>6. /\ t \in DOMAIN next /\ Core(next[t].kernel) = Core(all[t].kernel)
        /\ OfAutomaton(g, next[t].kernel) /\ OnceEach(next[t].nonkernel)
        /\ Needed(g, next[t].kernel, ToSymbolSet(next[t].nonkernel))
        /\ SetComplete(g.prods, all[t]) => SetComplete(g.prods, next[t])
    BY <2>3, <2>4, <2>5, LinkedLr
  <2> QED
    BY <2>1, <2>2, <2>6
<1>4. \A t \in DOMAIN sets : SetComplete(P, sets'[t])
  BY <1>1, <1>3, NoStateIsNone DEF LrSoFar, ClosedAll, StateIds, SetsSoFar
<1>5. LrStates(grammar, sets')
  <2>1. 0 \in DOMAIN sets /\ CoreSet(sets'[0].kernel) = {<<1, 0>>}
    <3>1. sets # << >>
      BY <1>2
    <3> QED
      BY <1>3, <3>1, SameCoreSame DEF LrSoFar, LrStates
  <2>2. \A a, b \in DOMAIN sets : Core(sets'[a].kernel) = Core(sets'[b].kernel) => a = b
    BY <1>3 DEF LrSoFar, LrStates
  <2> QED
    BY <1>2, <1>3, <2>1, <2>2 DEF LrStates
<1>6. OnListOrDone'
  <2>1. pending \in Seq(StateIds)
    BY DEF SetsSoFar, Lined
  <2>2. ToSymbolSet(Append(pending, s)) = ToSymbolSet(pending) \cup {s}
    <3>1. PICK n \in Nat : Len(pending) = n /\ DOMAIN pending = 1..n
      BY <2>1
    <3>2. PICK q : q = Append(pending, s)
      OBVIOUS
    <3>3. DOMAIN q = 1..(n + 1) /\ q[n + 1] = s /\ \A i \in 1..n : q[i] = pending[i]
      BY <2>1, <3>1, <3>2
    <3>4. \A i : i \in 1..(n + 1) <=> i \in 1..n \/ i = n + 1
      BY <3>1
    <3> QED
      BY <3>1, <3>2, <3>3, <3>4 DEF ToSymbolSet
  <2> QED
    BY <1>2, <2>2 DEF LrSoFar, OnListOrDone, StateIds
<1>7. ClosedAll'
  BY <1>2, <1>4 DEF ClosedAll, StateIds
<1>8. ClosureSo'
  <2>1. PICK set : set = sets'[s]
    OBVIOUS
  <2>2. WellMade(P, set) /\ SetComplete(P, set)
    BY <1>2, <1>4, <2>1 DEF Linked
  <2>3. Complete(P, ToSymbolSet(set.nonkernel), ToSymbolSet(set.nonkernel))
    <3>1. ToSymbolSet(set.nonkernel) \subseteq ToSymbolSet(All(set))
      BY <2>2, Concatenated DEF WellMade, All
    <3> QED
      BY <2>2, <3>1 DEF SetComplete, Complete
  <2>4. closing' = s /\ work' = [finished |-> ToSymbolSet(set.nonkernel), list |-> << >>,
                                 kernel |-> set.kernel]
          => WorkComplete(grammar, set, work')
    BY <1>2, <1>3, <2>1, <2>3, ClosureBeginsComplete
  <2> QED
    BY <1>2, <2>1, <2>4 DEF ClosureSo
<1> QED
  BY <1>5, <1>6, <1>7, <1>8 DEF LrSoFar

-----------------------------------------------------------------------------
(* The states of the automaton, each once, with all their items, each once,*)
(* and all their transitions.                                              *)
FoundState(all, s) == <<CoreSet(all[s].kernel), CoreSet(All(all[s]))>>
AutomatonIs(g, all) ==
  /\ {FoundState(all, s) : s \in DOMAIN all} = RefStates(g)
  /\ \A s, t \in DOMAIN all : CoreSet(all[s].kernel) = CoreSet(all[t].kernel) => s = t
  /\ \A s \in DOMAIN all :
       /\ Len(All(all[s])) = Cardinality(CoreSet(All(all[s])))
       /\ \A x : IF x \in DOMAIN all[s].trans
                 THEN CoreSet(all[all[s].trans[x]].kernel) = MovedDot(g, CoreSet(All(all[s])), x)
                 ELSE MovedDot(g, CoreSet(All(all[s])), x) = {}

LEMMA ItemsListedOnce ==
  ASSUME NEW g, SoundGrammar(g), NEW set, SetIn(g, set), OnceEach(set.nonkernel)
  PROVE  Len(All(set)) = Cardinality(CoreSet(All(set)))
<1>1. PICK k, a, n : k = set.kernel /\ a = set.nonkernel /\ n = All(set)
  OBVIOUS
<1>2. IsList(k) /\ IsList(a) /\ IsList(n) /\ n = k \o a
  BY <1>1, ItemsOfSet DEF SetIn, WellMade, All
<1>3. Len(k) \in Nat /\ DOMAIN k = 1..Len(k) /\ Len(a) \in Nat /\ DOMAIN a = 1..Len(a)
  BY <1>2, ListLength
<1>4. Len(n) = Len(k) + Len(a) /\ DOMAIN n = 1..Len(n)
  BY <1>2, Concatenated, ListLength
<1>5. /\ \A i \in DOMAIN k : n[i] = k[i]
      /\ \A i \in DOMAIN a : n[Len(k) + i] = a[i]
  BY <1>2, ConcatenatedAt
<1>6. ASSUME NEW i \in DOMAIN n
      PROVE  \/ i \in DOMAIN k
             \/ i - Len(k) \in DOMAIN a /\ Len(k) + (i - Len(k)) = i
  BY <1>3, <1>4
<1>7. \A i, j \in DOMAIN k : CoreOf(k[i]) = CoreOf(k[j]) => i = j
  BY <1>1 DEF SetIn, KernelIn, CoreOf
<1>8. \A i, j \in DOMAIN a : CoreOf(a[i]) = CoreOf(a[j]) => i = j
  <2>1. \A i, j \in DOMAIN a : a[i].prod = a[j].prod => a[i] = a[j]
    BY <1>1 DEF SetIn, WellMade, ToSymbolSet
  <2> QED
    BY <1>1, <2>1 DEF OnceEach, CoreOf
<1>9. \A i \in DOMAIN k, j \in DOMAIN a : CoreOf(k[i]) # CoreOf(a[j])
  <2>1. \A i \in DOMAIN k : k[i].dot = 0 => k[i].prod = 1
    BY <1>1 DEF SetIn, KernelIn
  <2>2. \A j \in DOMAIN a : a[j].dot = 0 /\ a[j].prod # 1
    BY <1>1 DEF SetIn, WellMade, NonkernelIn, ToSymbolSet
  <2> QED
    BY <2>1, <2>2 DEF CoreOf
<1>10. \A i, j \in DOMAIN n : CoreOf(n[i]) = CoreOf(n[j]) => i = j
  <2> TAKE i, j \in DOMAIN n
  <2> HAVE CoreOf(n[i]) = CoreOf(n[j])
  <2>1. CASE i \in DOMAIN k /\ j \in DOMAIN k
    BY <1>5, <1>7, <2>1
  <2>2. CASE i \notin DOMAIN k /\ j \notin DOMAIN k
    <3>1. i - Len(k) \in DOMAIN a /\ j - Len(k) \in DOMAIN a
          /\ Len(k) + (i - Len(k)) = i /\ Len(k) + (j - Len(k)) = j
      BY <1>6, <2>2
    <3>2. n[i] = a[i - Len(k)] /\ n[j] = a[j - Len(k)]
      BY <1>5, <3>1
    <3>3. i - Len(k) = j - Len(k)
      BY <1>8, <3>1, <3>2
    <3> QED
      BY <3>1, <3>3
  <2>3. CASE i \in DOMAIN k /\ j \notin DOMAIN k
    <3>1. j - Len(k) \in DOMAIN a /\ Len(k) + (j - Len(k)) = j
      BY <1>6, <2>3
    <3>2. n[i] = k[i] /\ n[j] = a[j - Len(k)]
      BY <1>5, <2>3, <3>1
    <3> QED
      BY <1>9, <2>3, <3>1, <3>2
  <2>4. CASE i \notin DOMAIN k /\ j \in DOMAIN k
    <3>1. i - Len(k) \in DOMAIN a /\ Len(k) + (i - Len(k)) = i
      BY <1>6, <2>4
    <3>2. n[j] = k[j] /\ n[i] = a[i - Len(k)]
      BY <1>5, <2>4, <3>1
    <3> QED
      BY <1>9, <2>4, <3>1, <3>2
  <2> QED
    BY <2>1, <2>2, <2>3, <2>4
<1>11. CoreSet(n) = {CoreOf(n[i]) : i \in DOMAIN n}
  BY CoreSetIs DEF ToSymbolSet
<1>12. PICK m \in Nat : m = Len(n)
  BY <1>3, <1>4
<1> DEFINE f == [i \in 1..m |-> CoreOf(n[i])]
<1>13. f \in Bijection(1..m, CoreSet(n))
  <2>1. f \in [1..m -> CoreSet(n)]
    BY <1>4, <1>11, <1>12
  <2>2. \A i, j \in 1..m : f[i] = f[j] => i = j
    BY <1>4, <1>10, <1>12
  <2>3. \A c \in CoreSet(n) : \E i \in 1..m : f[i] = c
    BY <1>4, <1>11, <1>12
  <2> HIDE DEF f
  <2> QED
    BY <2>1, <2>2, <2>3 DEF Bijection, Injection, Surjection, IsInjective
<1>14. IsFiniteSet(1..m) /\ Cardinality(1..m) = m
  <2>1. 1 \in Int /\ m \in Int /\ (1 > m => m = 0) /\ m - 1 + 1 = m
    OBVIOUS
  <2> QED
    BY <2>1, FS_Interval
<1>15. Cardinality(CoreSet(n)) = m
  <2> HIDE DEF f
  <2> QED
    BY <1>13, <1>14, FS_Bijection DEF ExistsBijection
<1> QED
  BY <1>1, <1>12, <1>15

(* When no state is left on the stack, the automaton is there.             *)
LEMMA SetsDoneLr ==
  ASSUME Given, SetsSoFar, Typed, LrSoFar, SetsDone
  PROVE  AutomatonIs(grammar, sets)
<1> DEFINE P == grammar.prods
<1>1. closing = NoState /\ current = NoState /\ sets # << >> /\ pending = << >>
  BY DEF SetsDone
<1>2. SoundGrammar(grammar) /\ \A s \in DOMAIN sets : SetIn(grammar, sets[s])
  BY GivenIsSound DEF Typed, SetsIn
<1>3. \A s \in DOMAIN sets : s \in done /\ s # NoState
  <2>1. ToSymbolSet(pending) = {}
    BY <1>1 DEF ToSymbolSet
  <2> QED
    BY <2>1, NoStateIsNone DEF LrSoFar, OnListOrDone, StateIds, SetsSoFar
<1>4. ASSUME NEW s \in DOMAIN sets
      PROVE  /\ SetComplete(P, sets[s]) /\ HandsOn(P, sets, s)
             /\ OfAutomaton(grammar, sets[s].kernel) /\ OnceEach(sets[s].nonkernel)
             /\ Needed(grammar, sets[s].kernel, ToSymbolSet(sets[s].nonkernel))
             /\ DOMAIN sets[s].trans \subseteq CalledFor(P, sets[s])
             /\ \A x \in DOMAIN sets[s].trans : sets[s].trans[x] \in DOMAIN sets
  BY <1>1, <1>3 DEF LrSoFar, LrStates, ClosedAll, StateIds, SetsSoFar, DoneHandsOn, Automaton
<1>5. ASSUME NEW s \in DOMAIN sets
      PROVE  FoundState(sets, s) = ClosedState(grammar, CoreSet(sets[s].kernel))
  BY <1>2, <1>4, CompleteIsClosed DEF FoundState, ClosedState
<1>6. ASSUME NEW s \in DOMAIN sets, NEW x \in CalledFor(P, sets[s])
      PROVE  /\ x \in DOMAIN sets[s].trans /\ sets[s].trans[x] \in DOMAIN sets
             /\ CoreSet(sets[sets[s].trans[x]].kernel)
                  = MovedDot(grammar, CoreSet(All(sets[s])), x)
  <2>1. /\ x \in DOMAIN sets[s].trans
        /\ Core(Moved(P, sets[s], x)) = Core(sets[sets[s].trans[x]].kernel)
    BY <1>4 DEF HandsOn, Handed, Covers
  <2>2. CoreSet(Moved(P, sets[s], x)) = CoreSet(sets[sets[s].trans[x]].kernel)
    BY <2>1, SameCoreSame
  <2> QED
    BY <1>2, <1>4, <2>1, <2>2, MovedCores
<1> DEFINE X == {FoundState(sets, s) : s \in DOMAIN sets}
<1>7. X \subseteq RefStates(grammar)
  BY <1>4, <1>5 DEF OfAutomaton
<1>8. RefStates(grammar) \subseteq X
  <2>1. ClosedState(grammar, {<<1, 0>>}) \in X
    <3>1. 0 \in DOMAIN sets /\ CoreSet(sets[0].kernel) = {<<1, 0>>}
      BY <1>1 DEF LrSoFar, LrStates
    <3> QED
      BY <1>5, <3>1
  <2>2. ASSUME NEW s \in DOMAIN sets PROVE NextStates(grammar, FoundState(sets, s)) \subseteq X
    <3>1. FoundState(sets, s)[2] = CoreSet(All(sets[s]))
      BY DEF FoundState
    <3> SUFFICES ASSUME NEW x \in CalledFor(P, sets[s])
                 PROVE  ClosedState(grammar, MovedDot(grammar, CoreSet(All(sets[s])), x)) \in X
      BY <1>2, <3>1, CalledForCores DEF NextStates
    <3>2. PICK t : t = sets[s].trans[x]
      OBVIOUS
    <3>3. t \in DOMAIN sets /\ CoreSet(sets[t].kernel) = MovedDot(grammar, CoreSet(All(sets[s])), x)
      BY <1>6, <3>2
    <3> QED
      BY <1>5, <3>3
  <2>3. \A st \in X : NextStates(grammar, st) \subseteq X
    BY <2>2
  <2> HIDE DEF X
  <2> QED
    BY <1>2, <2>1, <2>3, RefStatesIs
<1>9. ASSUME NEW s \in DOMAIN sets, NEW t \in DOMAIN sets,
             CoreSet(sets[s].kernel) = CoreSet(sets[t].kernel)
      PROVE  s = t
  <2>1. Core(sets[s].kernel) = Core(sets[t].kernel)
    BY <1>4, <1>9, SameItemsSameCore DEF OfAutomaton
  <2> QED
    BY <2>1 DEF LrSoFar, LrStates
<1>10. ASSUME NEW s \in DOMAIN sets, NEW x, x \notin DOMAIN sets[s].trans
       PROVE  MovedDot(grammar, CoreSet(All(sets[s])), x) = {}
  <2>1. x \notin {NextSymbol(grammar, i) : i \in CoreSet(All(sets[s])) \cap BeforeSymbol(grammar)}
    BY <1>2, <1>6, <1>10, CalledForCores
  <2> QED
    BY <2>1 DEF MovedDot
<1>11. ASSUME NEW s \in DOMAIN sets, NEW x \in DOMAIN sets[s].trans
       PROVE  CoreSet(sets[sets[s].trans[x]].kernel) = MovedDot(grammar, CoreSet(All(sets[s])), x)
  BY <1>4, <1>6
<1>12. \A s \in DOMAIN sets : Len(All(sets[s])) = Cardinality(CoreSet(All(sets[s])))
  BY <1>2, <1>4, ItemsListedOnce
<1> QED
  BY <1>7, <1>8, <1>9, <1>10, <1>11, <1>12 DEF AutomatonIs

-----------------------------------------------------------------------------
(* It is the same automaton under other numbers.                           *)
LEMMA RenumberedLr ==
  ASSUME NEW g, NEW all, AutomatonIs(g, all), SetsIn(g, all),
         NEW new, NEW old, NEW to, IsRenumbered(all, new, old, to)
  PROVE  AutomatonIs(g, new)
<1>1. DOMAIN new = DOMAIN all
  BY DEF IsRenumbered
<1>2. ASSUME NEW m \in DOMAIN all
      PROVE  /\ old[m] \in DOMAIN all /\ to[old[m]] = m
             /\ new[m].kernel = all[old[m]].kernel /\ new[m].nonkernel = all[old[m]].nonkernel
             /\ new[m].trans = [x \in DOMAIN all[old[m]].trans |-> to[all[old[m]].trans[x]]]
  <2>1. old[m] \in DOMAIN all /\ to[old[m]] = m
    BY DEF IsRenumbered
  <2>2. PICK k, a, t : all[old[m]] = [kernel |-> k, nonkernel |-> a, trans |-> t]
    <3>1. PICK o : o = all[old[m]]
      OBVIOUS
    <3>2. WellMade(g.prods, o)
      BY <2>1, <3>1 DEF SetsIn, SetIn
    <3>3. o = [kernel |-> o.kernel, nonkernel |-> o.nonkernel, trans |-> o.trans]
      BY <3>2 DEF WellMade
    <3> QED
      BY <3>1, <3>3
  <2>3. new[m] = [all[old[m]] EXCEPT !.trans = [x \in DOMAIN @ |-> to[@[x]]]]
    BY DEF IsRenumbered
  <2>4. new[m] = [kernel |-> k, nonkernel |-> a, trans |-> [x \in DOMAIN t |-> to[t[x]]]]
    BY <2>2, <2>3
  <2> QED
    BY <2>1, <2>2, <2>4
<1>3. ASSUME NEW m \in DOMAIN all
      PROVE  /\ CoreSet(new[m].kernel) = CoreSet(all[old[m]].kernel)
             /\ All(new[m]) = All(all[old[m]])
             /\ FoundState(new, m) = FoundState(all, old[m])
  BY <1>2 DEF All, FoundState
<1>4. ASSUME NEW s \in DOMAIN all PROVE to[s] \in DOMAIN all /\ old[to[s]] = s
  BY DEF IsRenumbered
<1>5. {FoundState(new, m) : m \in DOMAIN new} = {FoundState(all, s) : s \in DOMAIN all}
  <2>1. ASSUME NEW s \in DOMAIN all
        PROVE  \E m \in DOMAIN all : FoundState(new, m) = FoundState(all, s)
    <3>1. to[s] \in DOMAIN all /\ FoundState(new, to[s]) = FoundState(all, s)
      BY <1>3, <1>4
    <3> QED
      BY <3>1
  <2>2. ASSUME NEW m \in DOMAIN all
        PROVE  \E s \in DOMAIN all : FoundState(new, m) = FoundState(all, s)
    BY <1>2, <1>3
  <2> QED
    BY <1>1, <2>1, <2>2
<1>6. ASSUME NEW m \in DOMAIN all, NEW n \in DOMAIN all,
             CoreSet(new[m].kernel) = CoreSet(new[n].kernel)
      PROVE  m = n
  <2>1. \A s, t \in DOMAIN all : CoreSet(all[s].kernel) = CoreSet(all[t].kernel) => s = t
    BY DEF AutomatonIs
  <2>2. CoreSet(all[old[m]].kernel) = CoreSet(all[old[n]].kernel)
    BY <1>3, <1>6
  <2>3. old[m] = old[n]
    BY <1>2, <2>1, <2>2
  <2> QED
    BY <1>2, <2>3
<1>7. ASSUME NEW m \in DOMAIN all, NEW x
      PROVE  IF x \in DOMAIN new[m].trans
             THEN CoreSet(new[new[m].trans[x]].kernel) = MovedDot(g, CoreSet(All(new[m])), x)
             ELSE MovedDot(g, CoreSet(All(new[m])), x) = {}
  <2>1. PICK s \in DOMAIN all : s = old[m]
    BY <1>2
  <2>2. PICK t : t = all[s].trans
    OBVIOUS
  <2>3. new[m].trans = [y \in DOMAIN t |-> to[t[y]]] /\ All(new[m]) = All(all[s])
    BY <1>2, <1>3, <2>1, <2>2
  <2>4. IF x \in DOMAIN t
        THEN CoreSet(all[t[x]].kernel) = MovedDot(g, CoreSet(All(all[s])), x)
        ELSE MovedDot(g, CoreSet(All(all[s])), x) = {}
    BY <2>2 DEF AutomatonIs
  <2>5. CASE x \in DOMAIN t
    <3>1. PICK u : u = t[x]
      OBVIOUS
    <3>2. u \in DOMAIN all
      BY <2>2, <2>5, <3>1 DEF SetsIn
    <3>3. new[m].trans[x] = to[u] /\ x \in DOMAIN new[m].trans
      BY <2>3, <2>5, <3>1
    <3>4. CoreSet(new[to[u]].kernel) = CoreSet(all[u].kernel)
      BY <1>3, <1>4, <3>2
    <3> QED
      BY <2>3, <2>4, <2>5, <3>1, <3>3, <3>4
  <2>6. CASE x \notin DOMAIN t
    <3>1. x \notin DOMAIN new[m].trans
      BY <2>3, <2>6
    <3> QED
      BY <2>3, <2>4, <2>6, <3>1
  <2> QED
    BY <2>5, <2>6
<1>8. ASSUME NEW m \in DOMAIN all
      PROVE  Len(All(new[m])) = Cardinality(CoreSet(All(new[m])))
  <2>1. old[m] \in DOMAIN all /\ All(new[m]) = All(all[old[m]])
    BY <1>2, <1>3
  <2>2. Len(All(all[old[m]])) = Cardinality(CoreSet(All(all[old[m]])))
    BY <2>1 DEF AutomatonIs
  <2> QED
    BY <2>1, <2>2
<1>9. {FoundState(new, m) : m \in DOMAIN new} = RefStates(g)
  BY <1>5 DEF AutomatonIs
<1> QED
  BY ONLY <1>1, <1>6, <1>7, <1>8, <1>9 DEF AutomatonIs

-----------------------------------------------------------------------------
(* While the states are being found, all of them are needed; from the end  *)
(* of that on they are all there.                                          *)
LrInv ==
  /\ phase \in Early => LrSoFar
  /\ phase \notin Early => AutomatonIs(grammar, sets)

LEMMA InitLr ==
  Init => LrInv
<1> SUFFICES ASSUME Init PROVE LrInv
  OBVIOUS
<1>1. /\ sets = [s \in {} |-> NoState] /\ pending = << >> /\ done = {} /\ closing = NoState
      /\ phase = "derive"
  BY DEF Init, ItemSetsInit
<1>2. DOMAIN sets = {} /\ sets = << >>
  BY <1>1
<1>3. LrStates(grammar, sets) /\ ClosedAll /\ ClosureSo
  BY <1>1, <1>2 DEF LrStates, ClosedAll, ClosureSo, StateIds
<1>4. OnListOrDone
  <2>1. ToSymbolSet(<< >>) = {}
    BY DEF ToSymbolSet
  <2> QED
    BY <1>1, <1>2, <2>1 DEF OnListOrDone, StateIds
<1> QED
  BY <1>1, <1>3, <1>4 DEF LrInv, LrSoFar, Early

LEMMA LrStays ==
  ASSUME LrInv, UNCHANGED <<grammar, sets, pending, done, closing, work>>,
         phase' \in Early <=> phase \in Early
  PROVE  LrInv'
BY DEF LrInv, LrSoFar, OnListOrDone, ClosedAll, ClosureSo, StateIds

LEMMA LrInvStep ==
  ASSUME SetsInv, Typed, Settled, LrInv, [Next]_vars
  PROVE  LrInv'
<1>1. CASE UNCHANGED vars
  BY <1>1, LrStays DEF vars, setsVars
<1>2. UNCHANGED <<input, grammar, hashOrder>>
  BY AlwaysGiven
<1>3. Given /\ Given' /\ SetsInv'
  BY SetsInvStep DEF SetsInv
<1>4. CASE Derive \/ DeriveDone \/ Order \/ OrderDone \/ Terminated
  <2>1. /\ UNCHANGED setsVars
        /\ \/ phase' = phase
           \/ phase = "derive" /\ phase' = "first"
           \/ phase = "order" /\ phase' = "errorBits"
    BY <1>4 DEF Derive, DeriveDone, Order, OrderDone, Terminated, vars
  <2> QED
    BY <1>2, <2>1, LrStays DEF Early, setsVars
<1>5. CASE ComputeFirstFollow
  <2>1. UNCHANGED setsVars /\ phase \in Early /\ phase' \in Early
    BY <1>5 DEF ComputeFirstFollow, FirstFollowNext, FirstOfProduction,
                FirstIterationDone, FollowOfSymbol, FollowProductionDone,
                FollowIterationDone, Early
  <2> QED
    BY <1>2, <2>1, LrStays DEF setsVars
<1>6. CASE ComputeParseTables
  BY <1>2, <1>6, LaterPhases, LrStays DEF ComputeParseTables, TablesNext, setsVars
<1>7. CASE ConstructItemSets
  <2>1. \/ MakeStartState \/ PopItemSet \/ MakeItemSet \/ FindItemSet \/ ItemSetDone
        \/ SetsDone \/ CloseKernelItem \/ CloseItem \/ ClosureDone \/ RenumberStates
    BY <1>7 DEF ConstructItemSets, ItemSetsNext
  <2>2. CASE SetsDone
    <3>1. phase \in Early /\ phase' \notin Early /\ sets' = sets
      BY <2>2 DEF SetsDone, Early, setsVars
    <3>2. AutomatonIs(grammar, sets)
      BY <1>3, <2>2, <3>1, SetsDoneLr DEF SetsInv, LrInv
    <3> QED
      BY <1>2, <3>1, <3>2 DEF LrInv
  <2>3. CASE RenumberStates
    <3>1. phase \notin Early /\ phase' \notin Early
      BY <2>3, LaterPhases DEF RenumberStates, Early
    <3>2. SoundGrammar(grammar) /\ SetsIn(grammar, sets)
      BY <1>3, GivenIsSound DEF Typed
    <3>3. PICK old, to : IsRenumbered(sets, sets', old, to)
      BY <2>3, <3>2, RenumberedIs
    <3>4. AutomatonIs(grammar, sets')
      BY <3>1, <3>2, <3>3, RenumberedLr DEF LrInv
    <3> QED
      BY <1>2, <3>1, <3>4 DEF LrInv
  <2>4. CASE \/ MakeStartState \/ PopItemSet \/ MakeItemSet \/ FindItemSet \/ ItemSetDone
             \/ CloseKernelItem \/ CloseItem \/ ClosureDone
    <3>1. CASE phase \in Early
      <4>1. SetsSoFar /\ phase' = phase /\ LrSoFar
        BY <2>4, <3>1 DEF SetsInv, LrInv, MakeStartState, PopItemSet, MakeItemSet, FindItemSet,
                          ItemSetDone, CloseKernelItem, CloseItem, ClosureDone
      <4>2. SetsSoFar'
        BY <1>3, <3>1, <4>1 DEF SetsInv
      <4>3. LrSoFar'
        <5>1. CASE MakeStartState
          BY <1>2, <1>3, <4>1, <5>1, MakeStartStateLr
        <5>2. CASE PopItemSet
          BY <1>2, <4>1, <5>2, PopItemSetLr
        <5>3. CASE MakeItemSet
          BY <1>2, <1>3, <4>1, <5>3, MakeItemSetLr
        <5>4. CASE FindItemSet
          BY <1>2, <1>3, <4>1, <4>2, <5>4, FindItemSetLr
        <5>5. CASE ItemSetDone
          BY <1>2, <4>1, <5>5, ItemSetDoneLr
        <5>6. CASE CloseKernelItem \/ CloseItem
          BY <1>2, <1>3, <3>1, <4>1, <5>6, CloseItemsLr
        <5>7. CASE ClosureDone
          BY <1>2, <1>3, <4>1, <4>2, <5>7, ClosureDoneLr
        <5> QED
          BY <2>4, <5>1, <5>2, <5>3, <5>4, <5>5, <5>6, <5>7
      <4> QED
        BY <3>1, <4>1, <4>3 DEF LrInv
    <3>2. CASE phase \notin Early
      BY <2>4, <3>2 DEF MakeStartState, PopItemSet, MakeItemSet, FindItemSet, ItemSetDone,
                        Considering, CloseKernelItem, CloseItem, ClosureDone, Settled, Early
    <3> QED
      BY <3>1, <3>2
  <2> QED
    BY <2>1, <2>2, <2>3, <2>4
<1> QED
  BY <1>1, <1>4, <1>5, <1>6, <1>7 DEF Next

LEMMA LrInvExact ==
  ASSUME SetsInv, Typed, LrInv
  PROVE  AutomatonExact
<1> SUFFICES ASSUME Numbered PROVE AutomatonExact
  BY DEF AutomatonExact
<1>1. AutomatonIs(grammar, sets)
  BY DEF LrInv, Numbered, Early
<1>2. \A s : AllItems(s) = All(sets[s])
  BY DEF AllItems, All
<1>3. PICK states : states = RefStates(grammar)
  OBVIOUS
<1>4. {FoundState(sets, s) : s \in StateIds} = states
  BY <1>1, <1>3 DEF AutomatonIs, StateIds
<1> DEFINE f == [s \in StateIds |-> FoundState(sets, s)]
<1>5. f \in Bijection(StateIds, states)
  <2>1. f \in [StateIds -> states]
    BY <1>4
  <2>2. ASSUME NEW s \in StateIds, NEW t \in StateIds, f[s] = f[t] PROVE s = t
    <3>1. FoundState(sets, s)[1] = FoundState(sets, t)[1]
      BY <2>2
    <3> QED
      BY <1>1, <3>1 DEF AutomatonIs, FoundState, StateIds
  <2>3. \A c \in states : \E s \in StateIds : f[s] = c
    BY <1>4
  <2> HIDE DEF f
  <2> QED
    BY <2>1, <2>2, <2>3 DEF Bijection, Injection, Surjection, IsInjective
<1>6. Cardinality(StateIds) = Cardinality(states)
  <2>1. IsFiniteSet(StateIds)
    BY StateIdsAre DEF Typed
  <2> HIDE DEF f
  <2> QED
    BY <1>5, <2>1, FS_Bijection DEF ExistsBijection
<1>7. {<<CoreSet(sets[s].kernel), CoreSet(AllItems(s))>> : s \in StateIds} = states
  BY <1>2, <1>4 DEF FoundState
<1>8. ASSUME NEW s \in StateIds
      PROVE  /\ Len(AllItems(s)) = Cardinality(CoreSet(AllItems(s)))
             /\ \A x \in Symbols(grammar) :
                  IF x \in DOMAIN sets[s].trans
                  THEN CoreSet(sets[sets[s].trans[x]].kernel)
                         = MovedDot(grammar, CoreSet(AllItems(s)), x)
                  ELSE MovedDot(grammar, CoreSet(AllItems(s)), x) = {}
  BY <1>1, <1>2 DEF AutomatonIs, StateIds
<1> QED
  BY <1>3, <1>6, <1>7, <1>8 DEF AutomatonExact

(* Once the states have their numbers they are exactly those of the LR(0)  *)
(* automaton of the grammar: each core once, with all the items of its     *)
(* closure, each listed once, and all its transitions, for every grammar   *)
(* and in whatever order the states are worked on and a hash table gives   *)
(* the items.                                                              *)
THEOREM AutomatonAlwaysExact == Spec => []AutomatonExact
<1>1. Init => SetsInv /\ Typed /\ Settled /\ LrInv
  <2>1. Init => Settled
    BY DEF Init, ItemSetsInit, Settled
  <2> QED
    BY <2>1, InitSetsInv, InitTyped, InitLr
<1>2. (SetsInv /\ Typed /\ Settled /\ LrInv) /\ [Next]_vars
        => (SetsInv /\ Typed /\ Settled /\ LrInv)'
  BY SetsInvStep, TypedStep, SettledStep, LrInvStep
<1>3. SetsInv /\ Typed /\ Settled /\ LrInv => AutomatonExact
  BY LrInvExact
<1> QED
  BY <1>1, <1>2, <1>3, PTL DEF Spec

-----------------------------------------------------------------------------
(* What First and Follow are compared with, in parts.                      *)
Corners(g, nullable) ==
  UNION {{Left(g, <<p>>)} \X FromLeft(g.prods[p].rhs, nullable) : p \in DOMAIN g.prods}
Heads(g, nullable, x) == Reach(Corners(g, nullable), {x})
Firsts(g, nullable, x) == {TermIndex(y) : y \in {z \in Heads(g, nullable, x) : IsTerminal(z)}}

LEMMA SymbolsAre ==
  ASSUME NEW g, SoundGrammar(g)
  PROVE  /\ \A x : SymbolIn(g.terms, g.nonterms, x) => x \in Symbols(g)
         /\ \A x \in Symbols(g) :
              /\ x \in Int
              /\ IsTerminal(x) => TermIndex(x) \in 0..(g.terms - 1)
              /\ ~ IsTerminal(x) => NtIndex(x) \in 0..(g.nonterms - 1)
                                      /\ NontermId(NtIndex(x)) = x
         /\ \A n \in 0..(g.nonterms - 1) :
              /\ NontermId(n) \in Symbols(g) /\ ~ IsTerminal(NontermId(n))
              /\ NtIndex(NontermId(n)) = n
<1>1. g.terms \in Int /\ g.nonterms \in Int
  BY DEF SoundGrammar
<1>2. ASSUME NEW x, SymbolIn(g.terms, g.nonterms, x) PROVE x \in Symbols(g)
  <2>1. CASE IsTerminal(x)
    <3>1. TermIndex(x) \in 0..(g.terms - 1) /\ x = TermId(TermIndex(x))
      BY <1>2, <2>1 DEF SymbolIn, TermId, TermIndex
    <3> QED
      BY <3>1 DEF Symbols
  <2>2. CASE ~ IsTerminal(x)
    <3>1. NtIndex(x) \in 0..(g.nonterms - 1) /\ x = NontermId(NtIndex(x))
      BY <1>1, <1>2, <2>2 DEF SymbolIn, NontermId, NtIndex
    <3> QED
      BY <3>1 DEF Symbols
  <2> QED
    BY <2>1, <2>2
<1>3. ASSUME NEW x \in Symbols(g)
      PROVE  /\ x \in Int
             /\ IsTerminal(x) => TermIndex(x) \in 0..(g.terms - 1)
             /\ ~ IsTerminal(x) => NtIndex(x) \in 0..(g.nonterms - 1) /\ NontermId(NtIndex(x)) = x
  <2>1. CASE x \in {TermId(t) : t \in 0..(g.terms - 1)}
    BY <1>1, <2>1 DEF TermId, TermIndex, IsTerminal
  <2>2. CASE x \in {NontermId(n) : n \in 0..(g.nonterms - 1)}
    BY <1>1, <2>2 DEF NontermId, NtIndex, IsTerminal
  <2> QED
    BY <2>1, <2>2 DEF Symbols
<1>4. ASSUME NEW n \in 0..(g.nonterms - 1)
      PROVE  /\ NontermId(n) \in Symbols(g) /\ ~ IsTerminal(NontermId(n))
             /\ NtIndex(NontermId(n)) = n
  BY <1>1 DEF Symbols, NontermId, NtIndex, IsTerminal
<1> QED
  BY <1>2, <1>3, <1>4

LEMMA RightSidesAre ==
  ASSUME NEW g, SoundGrammar(g), NEW p \in DOMAIN g.prods
  PROVE  /\ IsList(g.prods[p].rhs) /\ ToSymbolSet(g.prods[p].rhs) \subseteq Symbols(g)
         /\ Len(g.prods[p].rhs) \in Nat /\ DOMAIN g.prods[p].rhs = 1..Len(g.prods[p].rhs)
         /\ g.prods[p].lhs \in 0..(g.nonterms - 1)
         /\ Left(g, <<p>>) = NontermId(g.prods[p].lhs)
<1>1. IsList(g.prods[p].rhs)
  BY DEF SoundGrammar
<1>2. ToSymbolSet(g.prods[p].rhs) \subseteq Symbols(g)
  BY SymbolsAre DEF SoundGrammar, ToSymbolSet
<1>3. g.prods[p].lhs \in 0..(g.nonterms - 1)
  BY DEF SoundGrammar
<1> QED
  BY <1>1, <1>2, <1>3, ListLength DEF Left

LEMMA SymbolsFinite ==
  ASSUME NEW g, SoundGrammar(g)
  PROVE  IsFiniteSet(Symbols(g))
<1> DEFINE T == 0..(g.terms - 1)
           N == 0..(g.nonterms - 1)
           f == [t \in T |-> TermId(t)]
           h == [n \in N |-> NontermId(n)]
<1>1. IsFiniteSet(T) /\ IsFiniteSet(N)
  <2>1. 0 \in Int /\ g.terms - 1 \in Int /\ g.nonterms - 1 \in Int
    BY DEF SoundGrammar
  <2> QED
    BY <2>1, FS_Interval
<1>2. IsFiniteSet({f[t] : t \in T}) /\ IsFiniteSet({h[n] : n \in N})
  <2>1. T = DOMAIN f /\ N = DOMAIN h
    OBVIOUS
  <2> HIDE DEF T, N, f, h
  <2> QED
    BY <1>1, <2>1, FiniteImage
<1>3. Symbols(g) = {f[t] : t \in T} \cup {h[n] : n \in N}
  BY DEF Symbols
<1> HIDE DEF T, N, f, h
<1> QED
  BY <1>2, <1>3, FS_Union

LEMMA CornersAre ==
  ASSUME NEW g, SoundGrammar(g), NEW nullable
  PROVE  /\ IsFiniteSet(Corners(g, nullable))
         /\ \A e \in Corners(g, nullable) :
              /\ e[1] \in Symbols(g) /\ e[2] \in Symbols(g) /\ ~ IsTerminal(e[1])
              /\ \E p \in DOMAIN g.prods : /\ e[1] = Left(g, <<p>>)
                                           /\ e[2] \in FromLeft(g.prods[p].rhs, nullable)
         /\ \A p \in DOMAIN g.prods : \A y \in FromLeft(g.prods[p].rhs, nullable) :
              <<Left(g, <<p>>), y>> \in Corners(g, nullable)
<1>1. \A p \in DOMAIN g.prods : /\ Left(g, <<p>>) \in Symbols(g) /\ ~ IsTerminal(Left(g, <<p>>))
                                /\ FromLeft(g.prods[p].rhs, nullable) \subseteq Symbols(g)
  <2> TAKE p \in DOMAIN g.prods
  <2>1. FromLeft(g.prods[p].rhs, nullable) \subseteq ToSymbolSet(g.prods[p].rhs)
    BY DEF FromLeft, ToSymbolSet
  <2> QED
    BY <2>1, RightSidesAre, SymbolsAre
<1>2. ASSUME NEW e \in Corners(g, nullable)
      PROVE  \E p \in DOMAIN g.prods : /\ e[1] = Left(g, <<p>>)
                                       /\ e[2] \in FromLeft(g.prods[p].rhs, nullable)
                                       /\ e = <<e[1], e[2]>>
  BY DEF Corners
<1>3. Corners(g, nullable) \in SUBSET (Symbols(g) \X Symbols(g))
  <2> SUFFICES ASSUME NEW e \in Corners(g, nullable) PROVE e \in Symbols(g) \X Symbols(g)
    OBVIOUS
  <2>1. e[1] \in Symbols(g) /\ e[2] \in Symbols(g) /\ e = <<e[1], e[2]>>
    BY <1>1, <1>2
  <2> QED
    BY <2>1
<1>4. IsFiniteSet(Corners(g, nullable))
  BY <1>3, SymbolsFinite, FS_Product, FS_Subset
<1>5. \A p \in DOMAIN g.prods : \A y \in FromLeft(g.prods[p].rhs, nullable) :
        <<Left(g, <<p>>), y>> \in Corners(g, nullable)
  BY DEF Corners
<1> QED
  BY <1>1, <1>2, <1>4, <1>5

LEMMA HeadsAre ==
  ASSUME NEW g, SoundGrammar(g), NEW nullable, NEW x
  PROVE  /\ x \in Heads(g, nullable, x)
         /\ ClosedUnder(Corners(g, nullable), Heads(g, nullable, x))
         /\ \A X : x \in X /\ ClosedUnder(Corners(g, nullable), X) => Heads(g, nullable, x) \subseteq X
<1>1. IsFiniteSet(Corners(g, nullable)) /\ IsFiniteSet({x})
  BY CornersAre, FS_Singleton
<1> QED
  BY <1>1, ReachIs DEF Heads

(* The terminals that a string can begin with, from the symbols that can   *)
(* be the leftmost: one step, and the least that takes all steps.          *)
LEMMA FirstsAre ==
  ASSUME NEW g, SoundGrammar(g), NEW nullable
  PROVE  /\ \A x \in Symbols(g) : IsTerminal(x) => Firsts(g, nullable, x) = {TermIndex(x)}
         /\ \A p \in DOMAIN g.prods : \A y \in FromLeft(g.prods[p].rhs, nullable) :
              Firsts(g, nullable, y) \subseteq Firsts(g, nullable, Left(g, <<p>>))
<1>1. ASSUME NEW x \in Symbols(g), IsTerminal(x) PROVE Firsts(g, nullable, x) = {TermIndex(x)}
  <2>1. ClosedUnder(Corners(g, nullable), {x})
    BY <1>1, CornersAre DEF ClosedUnder
  <2>2. Heads(g, nullable, x) = {x}
    BY <2>1, HeadsAre
  <2> QED
    BY <1>1, <2>2 DEF Firsts
<1>2. ASSUME NEW p \in DOMAIN g.prods, NEW y \in FromLeft(g.prods[p].rhs, nullable)
      PROVE  Firsts(g, nullable, y) \subseteq Firsts(g, nullable, Left(g, <<p>>))
  <2>1. PICK left : left = Left(g, <<p>>)
    OBVIOUS
  <2>2. y \in Heads(g, nullable, left)
    <3>1. PICK e \in Corners(g, nullable) : e = <<left, y>>
      BY <2>1, CornersAre
    <3>2. e[1] = left /\ e[2] = y
      BY <3>1
    <3> QED
      BY <3>1, <3>2, HeadsAre DEF ClosedUnder
  <2>3. Heads(g, nullable, y) \subseteq Heads(g, nullable, left)
    BY <2>2, HeadsAre
  <2> QED
    BY <2>1, <2>3 DEF Firsts
<1> QED
  BY <1>1, <1>2

LEMMA FirstOfIs ==
  ASSUME NEW g, SoundGrammar(g), NEW nullable, NEW seq, ToSymbolSet(seq) \subseteq Symbols(g)
  PROVE  FirstOf(seq, nullable, RefBegins(g, nullable))
           = UNION {Firsts(g, nullable, x) : x \in FromLeft(seq, nullable)}
<1>1. RefBegins(g, nullable) = UNION {{x} \X Heads(g, nullable, x) : x \in Symbols(g)}
  BY DEF RefBegins, Heads, Corners
<1>2. FromLeft(seq, nullable) \subseteq Symbols(g)
  BY DEF FromLeft, ToSymbolSet
<1>3. PICK F : F = FromLeft(seq, nullable)
  OBVIOUS
<1> DEFINE heads == {b[2] : b \in {c \in RefBegins(g, nullable) : c[1] \in F}}
<1>4. heads = UNION {Heads(g, nullable, x) : x \in F}
  <2>1. ASSUME NEW x \in F, NEW y \in Heads(g, nullable, x) PROVE y \in heads
    <3>1. x \in Symbols(g)
      BY <1>2, <1>3
    <3>2. <<x, y>> \in RefBegins(g, nullable)
      BY <1>1, <3>1
    <3> QED
      BY <3>2
  <2>2. ASSUME NEW b \in RefBegins(g, nullable), b[1] \in F
        PROVE  b[2] \in Heads(g, nullable, b[1])
    BY <1>1
  <2> QED
    BY <2>1, <2>2
<1>5. FirstOf(seq, nullable, RefBegins(g, nullable))
        = {TermIndex(y) : y \in {x \in heads : IsTerminal(x)}}
  BY <1>3 DEF FirstOf
<1> HIDE DEF heads
<1> QED
  BY <1>3, <1>4, <1>5 DEF Firsts

-----------------------------------------------------------------------------
Ends(g, nullable) ==
  {<<NextSymbol(g, i), Left(g, i)>> :
     i \in {j \in BeforeSymbol(g) : ToSymbolSet(Rest(g, j)) \subseteq nullable}}
Beside(g, nullable) ==
  UNION {{NextSymbol(g, i)} \X FirstOf(Rest(g, i), nullable, RefBegins(g, nullable)) :
           i \in BeforeSymbol(g)}
Follows(g, nullable, x) ==
  {b[2] : b \in {c \in Beside(g, nullable) : c[1] \in Reach(Ends(g, nullable), {x})}}

LEMMA PlacesAre ==
  ASSUME NEW g, SoundGrammar(g), NEW i \in BeforeSymbol(g)
  PROVE  /\ i[1] \in DOMAIN g.prods /\ i[2] + 1 \in DOMAIN g.prods[i[1]].rhs
         /\ i = <<i[1], i[2]>> /\ i[2] \in Nat
         /\ NextSymbol(g, i) \in Symbols(g)
         /\ Left(g, i) = NontermId(g.prods[i[1]].lhs) /\ Left(g, i) \in Symbols(g)
         /\ ~ IsTerminal(Left(g, i))
         /\ ToSymbolSet(Rest(g, i)) \subseteq Symbols(g)
<1>1. i \in Dotted(g) /\ i = <<i[1], i[2]>>
  BY DottedIs DEF BeforeSymbol
<1>2. i[1] \in DOMAIN g.prods /\ i[2] \in 0..(Len(g.prods[i[1]].rhs) - 1)
  BY <1>1, DottedIs
<1>3. PICK r : r = g.prods[i[1]].rhs
  OBVIOUS
<1>4. PICK n \in Nat : n = Len(r) /\ DOMAIN r = 1..n
  BY <1>2, <1>3, RightSidesAre
<1>5. i[2] + 1 \in 1..n /\ i[2] \in Nat
  BY <1>2, <1>3, <1>4
<1>6. ToSymbolSet(r) \subseteq Symbols(g)
  BY <1>2, <1>3, RightSidesAre
<1>7. NextSymbol(g, i) \in Symbols(g)
  BY <1>3, <1>4, <1>5, <1>6 DEF NextSymbol, ToSymbolSet
<1>8. ToSymbolSet(Rest(g, i)) \subseteq ToSymbolSet(r)
  <2>1. PICK d \in Nat : d = i[2]
    BY <1>5
  <2>2. Rest(g, i) = SubSeq(r, d + 2, n)
    BY <1>3, <1>4, <2>1 DEF Rest
  <2>3. Rest(g, i) = [j \in 1..(n - (d + 2) + 1) |-> r[(d + 2) + j - 1]]
    BY <2>2, Z3
  <2>4. \A j \in 1..(n - (d + 2) + 1) : (d + 2) + j - 1 \in 1..n
    OBVIOUS
  <2> QED
    BY <1>4, <2>3, <2>4 DEF ToSymbolSet
<1>9. /\ Left(g, i) = NontermId(g.prods[i[1]].lhs) /\ Left(g, i) \in Symbols(g)
      /\ ~ IsTerminal(Left(g, i))
  <2>1. Left(g, i) = NontermId(g.prods[i[1]].lhs)
    BY DEF Left
  <2>2. g.prods[i[1]].lhs \in 0..(g.nonterms - 1)
    BY <1>2, RightSidesAre
  <2> QED
    BY <2>1, <2>2, SymbolsAre
<1>10. i[2] + 1 \in DOMAIN g.prods[i[1]].rhs
  BY <1>3, <1>4, <1>5
<1>11. ToSymbolSet(Rest(g, i)) \subseteq Symbols(g)
  BY <1>3, <1>6, <1>8
<1> QED
  BY <1>1, <1>2, <1>5, <1>7, <1>9, <1>10, <1>11

LEMMA EndsAre ==
  ASSUME NEW g, SoundGrammar(g), NEW nullable
  PROVE  IsFiniteSet(Ends(g, nullable))
<1>1. Ends(g, nullable) \in SUBSET (Symbols(g) \X Symbols(g))
  <2> SUFFICES ASSUME NEW i \in BeforeSymbol(g)
               PROVE  <<NextSymbol(g, i), Left(g, i)>> \in Symbols(g) \X Symbols(g)
    BY DEF Ends
  <2> QED
    BY PlacesAre
<1> QED
  BY <1>1, SymbolsFinite, FS_Product, FS_Subset

LEMMA FollowsAre ==
  ASSUME NEW g, SoundGrammar(g), NEW nullable
  PROVE  /\ \A i \in BeforeSymbol(g) :
              /\ FirstOf(Rest(g, i), nullable, RefBegins(g, nullable))
                   \subseteq Follows(g, nullable, NextSymbol(g, i))
              /\ ToSymbolSet(Rest(g, i)) \subseteq nullable =>
                   Follows(g, nullable, Left(g, i)) \subseteq Follows(g, nullable, NextSymbol(g, i))
         /\ \A x \in Symbols(g) : \A t :
              <<x, t>> \in RefAfter(g, nullable, RefBegins(g, nullable))
                <=> t \in Follows(g, nullable, x)
         /\ \A x, X : x \in X /\ ClosedUnder(Ends(g, nullable), X) =>
              \A t \in Follows(g, nullable, x) : \E i \in BeforeSymbol(g) :
                /\ NextSymbol(g, i) \in X
                /\ t \in FirstOf(Rest(g, i), nullable, RefBegins(g, nullable))
<1> DEFINE R(x) == Reach(Ends(g, nullable), {x})
<1>1. ASSUME NEW x
      PROVE  /\ x \in R(x) /\ ClosedUnder(Ends(g, nullable), R(x))
             /\ \A X : x \in X /\ ClosedUnder(Ends(g, nullable), X) => R(x) \subseteq X
  <2>1. IsFiniteSet(Ends(g, nullable)) /\ IsFiniteSet({x})
    BY EndsAre, FS_Singleton
  <2> QED
    BY <2>1, ReachIs
<1>2. \A x, t : t \in Follows(g, nullable, x) <=>
        \E c \in Beside(g, nullable) : c[1] \in R(x) /\ t = c[2]
  BY DEF Follows
<1>3. \A c \in Beside(g, nullable) :
        /\ \E i \in BeforeSymbol(g) : /\ c[1] = NextSymbol(g, i)
                                      /\ c[2] \in FirstOf(Rest(g, i), nullable, RefBegins(g, nullable))
        /\ c = <<c[1], c[2]>>
  BY DEF Beside
<1>4. \A i \in BeforeSymbol(g) : \A t \in FirstOf(Rest(g, i), nullable, RefBegins(g, nullable)) :
        <<NextSymbol(g, i), t>> \in Beside(g, nullable)
  BY DEF Beside
<1> HIDE DEF R
<1>5. ASSUME NEW i \in BeforeSymbol(g)
      PROVE  FirstOf(Rest(g, i), nullable, RefBegins(g, nullable))
               \subseteq Follows(g, nullable, NextSymbol(g, i))
  <2> SUFFICES ASSUME NEW t \in FirstOf(Rest(g, i), nullable, RefBegins(g, nullable))
               PROVE  t \in Follows(g, nullable, NextSymbol(g, i))
    OBVIOUS
  <2>1. PICK c \in Beside(g, nullable) : c = <<NextSymbol(g, i), t>>
    BY <1>4
  <2>2. c[1] = NextSymbol(g, i) /\ c[2] = t
    BY <2>1
  <2>3. c[1] \in R(NextSymbol(g, i))
    BY <1>1, <2>2
  <2> QED
    BY <1>2, <2>2, <2>3
<1>6. ASSUME NEW i \in BeforeSymbol(g), ToSymbolSet(Rest(g, i)) \subseteq nullable
      PROVE  Follows(g, nullable, Left(g, i)) \subseteq Follows(g, nullable, NextSymbol(g, i))
  <2>1. PICK e \in Ends(g, nullable) : e = <<NextSymbol(g, i), Left(g, i)>>
    BY <1>6 DEF Ends
  <2>2. e[1] = NextSymbol(g, i) /\ e[2] = Left(g, i)
    BY <2>1
  <2>3. Left(g, i) \in R(NextSymbol(g, i))
    BY <1>1, <2>1, <2>2 DEF ClosedUnder
  <2>4. R(Left(g, i)) \subseteq R(NextSymbol(g, i))
    BY <1>1, <2>3
  <2> QED
    BY <1>2, <2>4
<1>7. ASSUME NEW x \in Symbols(g), NEW t
      PROVE  <<x, t>> \in RefAfter(g, nullable, RefBegins(g, nullable))
                <=> t \in Follows(g, nullable, x)
  <2>1. RefAfter(g, nullable, RefBegins(g, nullable))
          = UNION {{y} \X Follows(g, nullable, y) : y \in Symbols(g)}
    BY DEF RefAfter, Follows, Ends, Beside
  <2> QED
    BY <2>1
<1>8. ASSUME NEW x, NEW X, x \in X, ClosedUnder(Ends(g, nullable), X),
             NEW t \in Follows(g, nullable, x)
      PROVE  \E i \in BeforeSymbol(g) :
                /\ NextSymbol(g, i) \in X
                /\ t \in FirstOf(Rest(g, i), nullable, RefBegins(g, nullable))
  <2>1. PICK c \in Beside(g, nullable) : c[1] \in R(x) /\ t = c[2]
    BY <1>2
  <2>2. c[1] \in X
    BY <1>1, <1>8, <2>1
  <2> QED
    BY <1>3, <2>1, <2>2
<1> QED
  BY <1>5, <1>6, <1>7, <1>8

-----------------------------------------------------------------------------
(* When the relation knows what vanishes, what is computed of a list of    *)
(* symbols is what the references ask of it.                               *)
Vanishing == RefNullable(grammar)
Begins == RefBegins(grammar, Vanishing)

FirstSound == \A n \in Nonterms : first[n] \subseteq Firsts(grammar, Vanishing, NontermId(n))
FirstIs == \A n \in Nonterms : first[n] = Firsts(grammar, Vanishing, NontermId(n))
FollowSound == \A n \in Nonterms : follow[n] \subseteq Follows(grammar, Vanishing, NontermId(n))
FollowIs == \A n \in Nonterms : follow[n] = Follows(grammar, Vanishing, NontermId(n))

LEMMA OfSequence ==
  ASSUME SoundGrammar(grammar), NullableKnown,
         NEW seq, IsList(seq), ToSymbolSet(seq) \subseteq Symbols(grammar)
  PROVE  /\ SeqCanDeriveEmpty(seq) <=> ToSymbolSet(seq) \subseteq Vanishing
         /\ FirstOfSequence(seq) = UNION {FirstOfSymbol(x) : x \in FromLeft(seq, Vanishing)}
<1>1. PICK n \in Nat : DOMAIN seq = 1..n
  BY ListLength
<1>2. \A i \in 1..n : CanDeriveEmpty(seq[i]) <=> seq[i] \in Vanishing
  BY <1>1 DEF NullableKnown, Vanishing, ToSymbolSet
<1>3. SeqCanDeriveEmpty(seq) <=> ToSymbolSet(seq) \subseteq Vanishing
  BY <1>1, <1>2 DEF SeqCanDeriveEmpty, ToSymbolSet
<1> DEFINE K == {k \in DOMAIN seq : \A j \in 1..(k - 1) : CanDeriveEmpty(seq[j])}
           L == {k \in DOMAIN seq : \A j \in 1..(k - 1) : seq[j] \in Vanishing}
<1>4. K = L
  <2>1. \A k \in 1..n : \A j \in 1..(k - 1) : j \in 1..n
    OBVIOUS
  <2> QED
    BY <1>1, <1>2, <2>1
<1>5. FirstOfSequence(seq) = UNION {FirstOfSymbol(seq[i]) : i \in K}
  BY DEF FirstOfSequence
<1>6. FromLeft(seq, Vanishing) = {seq[k] : k \in L}
  BY DEF FromLeft
<1> HIDE DEF K, L
<1>7. UNION {FirstOfSymbol(seq[i]) : i \in L} = UNION {FirstOfSymbol(x) : x \in {seq[k] : k \in L}}
  OBVIOUS
<1> QED
  BY <1>3, <1>4, <1>5, <1>6, <1>7

LEMMA OfSymbol ==
  ASSUME SoundGrammar(grammar), FirstSound, NEW x \in Symbols(grammar)
  PROVE  /\ FirstOfSymbol(x) \subseteq Firsts(grammar, Vanishing, x)
         /\ FirstIs => FirstOfSymbol(x) = Firsts(grammar, Vanishing, x)
<1>1. CASE IsTerminal(x)
  BY <1>1, FirstsAre DEF FirstOfSymbol
<1>2. CASE ~ IsTerminal(x)
  <2>1. NtIndex(x) \in Nonterms /\ NontermId(NtIndex(x)) = x
    BY <1>2, SymbolsAre DEF Nonterms
  <2> QED
    BY <1>2, <2>1 DEF FirstOfSymbol, FirstSound, FirstIs
<1> QED
  BY <1>1, <1>2

LEMMA OfSymbols ==
  ASSUME SoundGrammar(grammar), NullableKnown, FirstSound,
         NEW seq, IsList(seq), ToSymbolSet(seq) \subseteq Symbols(grammar)
  PROVE  /\ FirstOfSequence(seq) \subseteq FirstOf(seq, Vanishing, Begins)
         /\ FirstIs => FirstOfSequence(seq) = FirstOf(seq, Vanishing, Begins)
<1>1. PICK F : F = FromLeft(seq, Vanishing)
  OBVIOUS
<1>2. F \subseteq Symbols(grammar)
  BY <1>1 DEF FromLeft, ToSymbolSet
<1>3. FirstOfSequence(seq) = UNION {FirstOfSymbol(x) : x \in F}
  BY <1>1, OfSequence
<1>4. FirstOf(seq, Vanishing, Begins) = UNION {Firsts(grammar, Vanishing, x) : x \in F}
  BY <1>1, FirstOfIs DEF Begins
<1>5. \A x \in F : /\ FirstOfSymbol(x) \subseteq Firsts(grammar, Vanishing, x)
                   /\ FirstIs => FirstOfSymbol(x) = Firsts(grammar, Vanishing, x)
  BY <1>2, OfSymbol
<1>6. FirstOfSequence(seq) \subseteq FirstOf(seq, Vanishing, Begins)
  BY <1>3, <1>4, <1>5
<1>7. ASSUME FirstIs PROVE FirstOfSequence(seq) = FirstOf(seq, Vanishing, Begins)
  <2>1. \A x \in F : FirstOfSymbol(x) = Firsts(grammar, Vanishing, x)
    BY <1>5, <1>7
  <2> QED
    BY <1>3, <1>4, <2>1
<1> QED
  BY <1>6, <1>7

LEMMA RhsIs ==
  ASSUME SoundGrammar(grammar), NEW p \in Prods
  PROVE  /\ IsList(Rhs(p)) /\ ToSymbolSet(Rhs(p)) \subseteq Symbols(grammar)
         /\ Lhs(p) \in Nonterms /\ Left(grammar, <<p>>) = NontermId(Lhs(p))
BY RightSidesAre DEF Rhs, Lhs, Prods, Nonterms

(* First: no step adds what does not belong there, and when no production  *)
(* adds anything nothing is missing.                                       *)
LEMMA FirstStaysSound ==
  ASSUME SoundGrammar(grammar), NullableKnown, FirstSound, NEW p \in Prods
  PROVE  FirstOfSequence(Rhs(p)) \subseteq Firsts(grammar, Vanishing, NontermId(Lhs(p)))
<1>1. PICK F : F = FromLeft(Rhs(p), Vanishing)
  OBVIOUS
<1>2. F \subseteq Symbols(grammar)
  BY <1>1, RhsIs DEF FromLeft, ToSymbolSet
<1>3. FirstOfSequence(Rhs(p)) = UNION {FirstOfSymbol(x) : x \in F}
  BY <1>1, RhsIs, OfSequence
<1>4. \A x \in F : Firsts(grammar, Vanishing, x)
                     \subseteq Firsts(grammar, Vanishing, NontermId(Lhs(p)))
  BY <1>1, RhsIs, FirstsAre DEF Rhs, Prods
<1> QED
  BY <1>2, <1>3, <1>4, OfSymbol

LEMMA FirstIsComplete ==
  ASSUME SoundGrammar(grammar), NullableKnown, FirstSound,
         \A p \in Prods : FirstOfSequence(Rhs(p)) \subseteq first[Lhs(p)]
  PROVE  FirstIs
<1> SUFFICES ASSUME NEW n \in Nonterms
             PROVE  Firsts(grammar, Vanishing, NontermId(n)) \subseteq first[n]
  BY DEF FirstIs, FirstSound
<1>1. /\ NontermId(n) \in Symbols(grammar) /\ ~ IsTerminal(NontermId(n))
      /\ NtIndex(NontermId(n)) = n
  BY SymbolsAre DEF Nonterms
<1> DEFINE X == {y \in Symbols(grammar) : FirstOfSymbol(y) \subseteq first[n]}
<1>2. NontermId(n) \in X
  BY <1>1 DEF FirstOfSymbol
<1>3. ClosedUnder(Corners(grammar, Vanishing), X)
  <2> SUFFICES ASSUME NEW e \in Corners(grammar, Vanishing), e[1] \in X
               PROVE  e[2] \in X
    BY DEF ClosedUnder
  <2>1. e[1] \in Symbols(grammar) /\ e[2] \in Symbols(grammar) /\ ~ IsTerminal(e[1])
    BY CornersAre
  <2>2. PICK p \in Prods : /\ e[1] = Left(grammar, <<p>>)
                           /\ e[2] \in FromLeft(Rhs(p), Vanishing)
    BY CornersAre DEF Prods, Rhs
  <2>3. FirstOfSymbol(e[2]) \subseteq FirstOfSequence(Rhs(p))
    BY <2>2, RhsIs, OfSequence
  <2>4. FirstOfSymbol(e[1]) = first[Lhs(p)]
    <3>1. NtIndex(e[1]) = Lhs(p)
      BY <2>2, RhsIs, SymbolsAre DEF Nonterms
    <3> QED
      BY <2>1, <3>1 DEF FirstOfSymbol
  <2> QED
    BY <2>1, <2>3, <2>4
<1>4. Heads(grammar, Vanishing, NontermId(n)) \subseteq X
  BY <1>2, <1>3, HeadsAre
<1> HIDE DEF X
<1>5. ASSUME NEW z \in Heads(grammar, Vanishing, NontermId(n)), IsTerminal(z)
      PROVE  TermIndex(z) \in first[n]
  <2>1. FirstOfSymbol(z) \subseteq first[n]
    BY <1>4 DEF X
  <2> QED
    BY <1>5, <2>1 DEF FirstOfSymbol
<1> QED
  BY <1>5 DEF Firsts

(* Follow: the same.                                                       *)
LEMMA PlaceIs ==
  ASSUME SoundGrammar(grammar), NEW p \in Prods, NEW i \in DOMAIN Rhs(p)
  PROVE  /\ <<p, i - 1>> \in BeforeSymbol(grammar)
         /\ NextSymbol(grammar, <<p, i - 1>>) = Rhs(p)[i]
         /\ Rest(grammar, <<p, i - 1>>) = After(p, i)
         /\ Left(grammar, <<p, i - 1>>) = NontermId(Lhs(p))
         /\ IsList(After(p, i)) /\ ToSymbolSet(After(p, i)) \subseteq Symbols(grammar)
<1>1. PICK r : r = Rhs(p)
  OBVIOUS
<1>2. PICK n \in Nat : n = Len(r) /\ DOMAIN r = 1..n
  BY <1>1, RhsIs, ListLength
<1>3. i \in 1..n
  BY <1>1, <1>2
<1>4. PICK d \in 0..(n - 1) : d = i - 1 /\ d + 1 = i
  BY <1>3
<1>5. PICK e : e = <<p, d>>
  OBVIOUS
<1>6. e[1] = p /\ e[2] = d /\ e = <<p, i - 1>>
  BY <1>4, <1>5
<1>7. e \in BeforeSymbol(grammar)
  <2>1. p \in DOMAIN grammar.prods /\ grammar.prods[p].rhs = r
    BY <1>1 DEF Prods, Rhs
  <2>2. d \in 0..Len(r) /\ d < Len(r)
    BY <1>2
  <2>3. e \in Dotted(grammar)
    BY <1>5, <2>1, <2>2 DEF Dotted
  <2> QED
    BY <1>6, <2>1, <2>2, <2>3 DEF BeforeSymbol
<1>8. NextSymbol(grammar, e) = r[i]
  BY <1>1, <1>4, <1>6 DEF NextSymbol, Rhs
<1>9. Rest(grammar, e) = After(p, i)
  <2>1. d + 2 = i + 1
    BY <1>4
  <2> QED
    BY <1>6, <2>1 DEF Rest, After, Rhs
<1>10. Left(grammar, e) = NontermId(Lhs(p))
  BY <1>6 DEF Left, Lhs
<1>11. IsList(After(p, i))
  <2>1. After(p, i) = [j \in 1..(n - (i + 1) + 1) |-> r[(i + 1) + j - 1]]
    BY <1>1, <1>2, <1>3, Z3 DEF After
  <2>2. PICK m \in Nat : m = n - (i + 1) + 1
    BY <1>3
  <2>3. PICK f : f = After(p, i)
    OBVIOUS
  <2>4. f = [j \in 1..m |-> f[j]]
    BY <2>1, <2>2, <2>3
  <2> QED
    BY <2>3, <2>4, IsAList
<1>12. ToSymbolSet(After(p, i)) \subseteq Symbols(grammar)
  BY <1>7, <1>9, PlacesAre
<1> QED
  BY <1>1, <1>6, <1>7, <1>8, <1>9, <1>10, <1>11, <1>12

LEMMA FollowStaysSound ==
  ASSUME SoundGrammar(grammar), NullableKnown, FirstIs, FollowSound,
         NEW p \in Prods, NEW i \in DOMAIN Rhs(p)
  PROVE  FollowBy(p, i) \subseteq Follows(grammar, Vanishing, Rhs(p)[i])
<1>1. PICK e \in BeforeSymbol(grammar) :
        /\ NextSymbol(grammar, e) = Rhs(p)[i] /\ Rest(grammar, e) = After(p, i)
        /\ Left(grammar, e) = NontermId(Lhs(p))
  BY PlaceIs
<1>2. FirstOfSequence(After(p, i)) \subseteq Follows(grammar, Vanishing, Rhs(p)[i])
  <2>1. FirstOfSequence(After(p, i)) = FirstOf(After(p, i), Vanishing, Begins)
    BY PlaceIs, OfSymbols DEF FirstIs, FirstSound
  <2> QED
    BY <1>1, <2>1, FollowsAre DEF Begins
<1>3. ASSUME SeqCanDeriveEmpty(After(p, i))
      PROVE  follow[Lhs(p)] \subseteq Follows(grammar, Vanishing, Rhs(p)[i])
  <2>1. ToSymbolSet(After(p, i)) \subseteq Vanishing
    BY <1>3, PlaceIs, OfSequence
  <2>2. follow[Lhs(p)] \subseteq Follows(grammar, Vanishing, NontermId(Lhs(p)))
    BY RhsIs DEF FollowSound
  <2> QED
    BY <1>1, <2>1, <2>2, FollowsAre
<1> QED
  BY <1>2, <1>3 DEF FollowBy

LEMMA FollowIsComplete ==
  ASSUME SoundGrammar(grammar), NullableKnown, FirstIs, FollowSound,
         \A p \in Prods : \A i \in DOMAIN Rhs(p) :
           ~ IsTerminal(Rhs(p)[i]) => FollowBy(p, i) \subseteq follow[NtIndex(Rhs(p)[i])]
  PROVE  FollowIs
<1> SUFFICES ASSUME NEW n \in Nonterms
             PROVE  Follows(grammar, Vanishing, NontermId(n)) \subseteq follow[n]
  BY DEF FollowIs, FollowSound
<1>1. /\ NontermId(n) \in Symbols(grammar) /\ ~ IsTerminal(NontermId(n))
      /\ NtIndex(NontermId(n)) = n
  BY SymbolsAre DEF Nonterms
<1> DEFINE X == {z \in Symbols(grammar) : ~ IsTerminal(z) /\ follow[NtIndex(z)] \subseteq follow[n]}
<1>2. NontermId(n) \in X
  BY <1>1
<1>3. ASSUME NEW e \in BeforeSymbol(grammar), NextSymbol(grammar, e) \in X
      PROVE  /\ FirstOf(Rest(grammar, e), Vanishing, Begins) \subseteq follow[n]
             /\ ToSymbolSet(Rest(grammar, e)) \subseteq Vanishing => Left(grammar, e) \in X
  <2>1. PICK p, i : p = e[1] /\ i = e[2] + 1
    OBVIOUS
  <2>2. p \in Prods /\ i \in DOMAIN Rhs(p) /\ e = <<p, i - 1>>
    <3>1. p \in DOMAIN grammar.prods /\ i \in DOMAIN grammar.prods[p].rhs
          /\ e = <<e[1], e[2]>> /\ e[2] \in Nat
      BY <2>1, PlacesAre
    <3>2. i - 1 = e[2]
      BY <2>1, <3>1
    <3> QED
      BY <2>1, <3>1, <3>2 DEF Prods, Rhs
  <2>3. /\ NextSymbol(grammar, e) = Rhs(p)[i] /\ Rest(grammar, e) = After(p, i)
        /\ Left(grammar, e) = NontermId(Lhs(p))
        /\ IsList(After(p, i)) /\ ToSymbolSet(After(p, i)) \subseteq Symbols(grammar)
    BY <2>2, PlaceIs
  <2>4. FollowBy(p, i) \subseteq follow[n]
    <3>1. ~ IsTerminal(Rhs(p)[i]) /\ follow[NtIndex(Rhs(p)[i])] \subseteq follow[n]
      BY <1>3, <2>3
    <3> QED
      BY <2>2, <3>1
  <2>5. FirstOfSequence(After(p, i)) = FirstOf(After(p, i), Vanishing, Begins)
    BY <2>3, OfSymbols DEF FirstIs, FirstSound
  <2>6. FirstOf(Rest(grammar, e), Vanishing, Begins) \subseteq follow[n]
    BY <2>3, <2>4, <2>5 DEF FollowBy
  <2>7. ASSUME ToSymbolSet(Rest(grammar, e)) \subseteq Vanishing
        PROVE  Left(grammar, e) \in X
    <3>1. SeqCanDeriveEmpty(After(p, i))
      BY <2>3, <2>7, OfSequence
    <3>2. follow[Lhs(p)] \subseteq follow[n]
      BY <2>4, <3>1 DEF FollowBy
    <3>3. Lhs(p) \in Nonterms
      BY <2>2, RhsIs
    <3>4. /\ NontermId(Lhs(p)) \in Symbols(grammar) /\ ~ IsTerminal(NontermId(Lhs(p)))
          /\ NtIndex(NontermId(Lhs(p))) = Lhs(p)
      BY <3>3, SymbolsAre DEF Nonterms
    <3> QED
      BY <2>3, <3>2, <3>4
  <2> QED
    BY <2>6, <2>7
<1>4. ClosedUnder(Ends(grammar, Vanishing), X)
  <2> SUFFICES ASSUME NEW e \in Ends(grammar, Vanishing), e[1] \in X PROVE e[2] \in X
    BY DEF ClosedUnder
  <2>1. PICK i \in BeforeSymbol(grammar) :
          /\ ToSymbolSet(Rest(grammar, i)) \subseteq Vanishing
          /\ e = <<NextSymbol(grammar, i), Left(grammar, i)>>
    BY DEF Ends
  <2>2. e[1] = NextSymbol(grammar, i) /\ e[2] = Left(grammar, i)
    BY <2>1
  <2> HIDE DEF X
  <2> QED
    BY <1>3, <2>1, <2>2
<1> HIDE DEF X
<1> QED
  <2> SUFFICES ASSUME NEW t \in Follows(grammar, Vanishing, NontermId(n)) PROVE t \in follow[n]
    OBVIOUS
  <2>1. PICK i \in BeforeSymbol(grammar) :
          NextSymbol(grammar, i) \in X /\ t \in FirstOf(Rest(grammar, i), Vanishing, Begins)
    BY <1>2, <1>4, FollowsAre DEF Begins
  <2> QED
    BY <1>3, <2>1

-----------------------------------------------------------------------------
(* The iterations.  Nothing is added that does not belong there, and when  *)
(* an iteration has changed nothing so far, what the productions and places*)
(* it has passed add is there already.                                     *)
NoneYet == \A n \in Nonterms : follow[n] = {}
FirstPassed ==
  \A p \in Prods : p < nextProd => FirstOfSequence(Rhs(p)) \subseteq first[Lhs(p)]
FollowPassed ==
  \A p \in Prods : \A i \in DOMAIN Rhs(p) :
    (p < nextProd \/ (p = nextProd /\ i < nextSym)) /\ ~ IsTerminal(Rhs(p)[i]) =>
      FollowBy(p, i) \subseteq follow[NtIndex(Rhs(p)[i])]

FirstFollowInv ==
  /\ phase = "derive" => /\ NoneYet /\ \A n \in Nonterms : first[n] = {}
                         /\ nextSym = 1 /\ (derive = "sort" => nextProd = 1)
  /\ phase = "first" => /\ nextProd \in Nat \ {0} /\ nextSym = 1 /\ NoneYet
                        /\ NullableKnown => FirstSound
                        /\ ~ changes => FirstPassed
  /\ phase = "follow" => /\ nextProd \in Nat \ {0} /\ nextSym \in Nat \ {0}
                         /\ nextProd \notin Prods => nextSym = 1
                         /\ NullableKnown => FirstIs /\ FollowSound
                         /\ ~ changes => FollowPassed
  /\ phase = "sets" => (NullableKnown => FirstIs /\ FollowIs)

LEMMA ProdsAre ==
  ASSUME SoundGrammar(grammar)
  PROVE  \E n \in Nat : Prods = 1..n
BY ListLength DEF SoundGrammar, Prods

LEMMA NoneYetSound == NoneYet => FollowSound
BY DEF NoneYet, FollowSound

LEMMA InitFirstFollow ==
  Init => FirstFollowInv
<1> SUFFICES ASSUME Init PROVE FirstFollowInv
  OBVIOUS
<1>1. /\ phase = "derive" /\ first = [n \in Nonterms |-> {}] /\ follow = [n \in Nonterms |-> {}]
      /\ nextSym = 1 /\ derive = "productions"
  BY DEF Init, FirstFollowInit, D!Init
<1> QED
  BY <1>1 DEF FirstFollowInv, NoneYet

LEMMA FirstOfProductionKeeps ==
  ASSUME SoundGrammar(grammar), FirstTyped, changes \in BOOLEAN, FirstFollowInv,
         FirstOfProduction, UNCHANGED <<grammar, derivable>>
  PROVE  FirstFollowInv'
<1>1. PICK p \in Prods : p = nextProd
  BY DEF FirstOfProduction
<1>2. PICK new : new = FirstOfSequence(Rhs(p))
  OBVIOUS
<1>3. /\ phase = "first" /\ phase' = "first" /\ nextProd' = nextProd + 1
      /\ first' = [first EXCEPT ![Lhs(p)] = @ \cup new]
      /\ UNCHANGED <<follow, nextSym>>
      /\ ~ changes' => ~ changes /\ new \subseteq first[Lhs(p)]
  BY <1>1, <1>2 DEF FirstOfProduction
<1>4. Lhs(p) \in Nonterms
  BY RhsIs
<1>5. /\ \A n \in Nonterms : first'[n] = IF n = Lhs(p) THEN first[n] \cup new ELSE first[n]
      /\ new \subseteq first[Lhs(p)] => first' = first
  BY <1>3, <1>4 DEF FirstTyped
<1>6. nextProd \in Nat \ {0} /\ nextSym = 1 /\ NoneYet /\ (NullableKnown => FirstSound)
      /\ (~ changes => FirstPassed)
  BY <1>3 DEF FirstFollowInv
<1>7. NullableKnown' <=> NullableKnown
  BY DEF NullableKnown, CanDeriveEmpty
<1>8. ASSUME NullableKnown PROVE FirstSound'
  <2>1. new \subseteq Firsts(grammar, Vanishing, NontermId(Lhs(p)))
    BY <1>2, <1>6, <1>8, FirstStaysSound
  <2>2. \A n \in Nonterms : first'[n] \subseteq Firsts(grammar, Vanishing, NontermId(n))
    BY <1>5, <1>6, <1>8, <2>1 DEF FirstSound
  <2>3. Vanishing' = Vanishing /\ Nonterms' = Nonterms
    BY DEF Vanishing, Nonterms
  <2> QED
    BY <2>2, <2>3 DEF FirstSound
<1>9. ASSUME ~ changes' PROVE FirstPassed'
  <2>1. first' = first /\ FirstPassed
    BY <1>3, <1>5, <1>6, <1>9
  <2>2. \A q \in Prods : FirstOfSequence(Rhs(q))' = FirstOfSequence(Rhs(q))
    BY <2>1 DEF FirstOfSequence, FirstOfSymbol, CanDeriveEmpty, Rhs
  <2>3. \A q \in Prods : q < nextProd + 1 => FirstOfSequence(Rhs(q)) \subseteq first[Lhs(q)]
    <3> SUFFICES ASSUME NEW q \in Prods, q < nextProd + 1
                 PROVE  FirstOfSequence(Rhs(q)) \subseteq first[Lhs(q)]
      OBVIOUS
    <3>1. q \in Nat
      BY ProdsAre
    <3>2. CASE q = nextProd
      BY <1>1, <1>2, <1>3, <1>9, <3>2
    <3>3. CASE q # nextProd
      <4>1. q < nextProd
        BY <1>6, <3>1, <3>3
      <4> QED
        BY <2>1, <4>1 DEF FirstPassed
    <3> QED
      BY <3>2, <3>3
  <2>4. Prods' = Prods /\ \A q : Lhs(q)' = Lhs(q)
    BY DEF Prods, Lhs
  <2> QED
    BY <1>3, <2>1, <2>2, <2>3, <2>4 DEF FirstPassed
<1>10. NoneYet'
  BY <1>3, <1>6 DEF NoneYet, Nonterms
<1> QED
  BY <1>3, <1>6, <1>7, <1>8, <1>9, <1>10 DEF FirstFollowInv

LEMMA FirstIterationKeeps ==
  ASSUME SoundGrammar(grammar), FirstTyped, changes \in BOOLEAN, FirstFollowInv,
         FirstIterationDone, UNCHANGED <<grammar, derivable>>
  PROVE  FirstFollowInv'
<1>1. /\ phase = "first" /\ nextProd \notin Prods /\ phase' = IF changes THEN "first" ELSE "follow"
      /\ nextProd' = 1 /\ UNCHANGED <<first, follow, nextSym, grammar, derivable>>
  BY DEF FirstIterationDone
<1>2. nextProd \in Nat \ {0} /\ nextSym = 1 /\ NoneYet /\ (NullableKnown => FirstSound)
      /\ (~ changes => FirstPassed)
  BY <1>1 DEF FirstFollowInv
<1>3. NullableKnown' <=> NullableKnown
  BY <1>1 DEF NullableKnown, CanDeriveEmpty
<1>4. NoneYet' /\ (FirstSound => FirstSound') /\ (FirstIs => FirstIs')
      /\ (FollowSound => FollowSound')
  BY <1>1, <1>2 DEF NoneYet, FirstSound, FirstIs, FollowSound, Nonterms, Vanishing
<1>5. FirstPassed'
  <2>1. \A p \in Prods : ~ (p < 1)
    BY ProdsAre
  <2>2. Prods' = Prods
    BY <1>1 DEF Prods
  <2> QED
    BY <1>1, <2>1, <2>2 DEF FirstPassed
<1>6. nextSym' = 1 /\ FollowPassed'
  <2>1. \A p \in Prods : ~ (p < 1) /\ \A i \in DOMAIN Rhs(p) : ~ (i < 1)
    <3> TAKE p \in Prods
    <3>1. \E n \in Nat : DOMAIN Rhs(p) = 1..n
      BY RhsIs, ListLength
    <3> QED
      BY <3>1, ProdsAre
  <2>2. Prods' = Prods /\ \A p : Rhs(p)' = Rhs(p)
    BY <1>1 DEF Prods, Rhs
  <2>3. nextSym' = 1
    BY <1>1, <1>2
  <2> QED
    BY <1>1, <2>1, <2>2, <2>3 DEF FollowPassed
<1>7. ASSUME ~ changes, NullableKnown PROVE FirstIs /\ FollowSound
  <2>1. \A p \in Prods : p < nextProd
    <3>1. PICK n \in Nat : Prods = 1..n
      BY ProdsAre
    <3> QED
      BY <1>1, <1>2, <3>1
  <2>2. \A p \in Prods : FirstOfSequence(Rhs(p)) \subseteq first[Lhs(p)]
    BY <1>2, <1>7, <2>1 DEF FirstPassed
  <2> QED
    BY <1>2, <1>7, <2>2, FirstIsComplete, NoneYetSound
<1> QED
  BY <1>1, <1>2, <1>3, <1>4, <1>5, <1>6, <1>7 DEF FirstFollowInv

LEMMA FollowByStays ==
  ASSUME UNCHANGED <<grammar, derivable, first, follow>>
  PROVE  /\ Prods' = Prods /\ \A p : Rhs(p)' = Rhs(p)
         /\ \A p, i : FollowBy(p, i)' = FollowBy(p, i)
BY DEF FollowBy, FirstOfSequence, FirstOfSymbol, SeqCanDeriveEmpty, CanDeriveEmpty, After, Rhs,
       Lhs, Prods

LEMMA FollowOfSymbolKeeps ==
  ASSUME SoundGrammar(grammar), FollowTyped, changes \in BOOLEAN, FirstFollowInv,
         FollowOfSymbol, UNCHANGED <<grammar, derivable>>
  PROVE  FirstFollowInv'
<1>0. PICK p \in Prods : p = nextProd /\ nextSym \in DOMAIN Rhs(p)
  BY DEF FollowOfSymbol
<1>1. PICK i \in DOMAIN Rhs(p) : p = nextProd /\ i = nextSym
  BY <1>0
<1>2. PICK x : x = Rhs(p)[i]
  OBVIOUS
<1>3. /\ phase = "follow" /\ phase' = "follow" /\ nextSym' = nextSym + 1
      /\ UNCHANGED <<first, nextProd>>
  BY DEF FollowOfSymbol
<1>4. nextProd \in Nat \ {0} /\ nextSym \in Nat \ {0} /\ (NullableKnown => FirstIs /\ FollowSound)
      /\ (~ changes => FollowPassed)
  BY <1>3 DEF FirstFollowInv
<1>5. x \in Symbols(grammar)
  BY <1>2, RhsIs DEF ToSymbolSet
<1>6. PICK new : new = FollowBy(p, i)
  OBVIOUS
<1>7. ~ IsTerminal(x) =>
        /\ follow' = [follow EXCEPT ![NtIndex(x)] = @ \cup new]
        /\ ~ changes' => ~ changes /\ new \subseteq follow[NtIndex(x)]
  BY <1>1, <1>2, <1>6 DEF FollowOfSymbol
<1>8. IsTerminal(x) => UNCHANGED <<follow, changes>>
  BY <1>1, <1>2 DEF FollowOfSymbol
<1>9. ~ IsTerminal(x) => NtIndex(x) \in Nonterms /\ NontermId(NtIndex(x)) = x
  BY <1>5, SymbolsAre DEF Nonterms
<1>10. NullableKnown' <=> NullableKnown
  BY DEF NullableKnown, CanDeriveEmpty
<1>11. ASSUME NullableKnown PROVE FirstIs' /\ FollowSound'
  <2>1. \A n \in Nonterms : follow'[n] \subseteq Follows(grammar, Vanishing, NontermId(n))
    <3>1. CASE IsTerminal(x)
      BY <1>4, <1>8, <1>11, <3>1 DEF FollowSound
    <3>2. CASE ~ IsTerminal(x)
      <4>1. new \subseteq Follows(grammar, Vanishing, NontermId(NtIndex(x)))
        BY <1>2, <1>4, <1>6, <1>9, <1>11, <3>2, FollowStaysSound
      <4>2. \A n \in Nonterms :
              follow'[n] = IF n = NtIndex(x) THEN follow[n] \cup new ELSE follow[n]
        BY <1>7, <1>9, <3>2 DEF FollowTyped
      <4> QED
        BY <1>4, <1>11, <4>1, <4>2 DEF FollowSound
    <3> QED
      BY <3>1, <3>2
  <2>2. Vanishing' = Vanishing /\ Nonterms' = Nonterms
    BY DEF Vanishing, Nonterms
  <2> QED
    BY <1>3, <1>4, <1>11, <2>1, <2>2 DEF FollowSound, FirstIs
<1>12. ASSUME ~ changes' PROVE FollowPassed'
  <2>1. follow' = follow /\ ~ changes /\ (~ IsTerminal(x) => new \subseteq follow[NtIndex(x)])
    <3>1. CASE IsTerminal(x)
      BY <1>8, <1>12, <3>1
    <3>2. CASE ~ IsTerminal(x)
      BY <1>7, <1>9, <1>12, <3>2 DEF FollowTyped
    <3> QED
      BY <3>1, <3>2
  <2>2. /\ Prods' = Prods /\ \A q : Rhs(q)' = Rhs(q)
        /\ \A q, j : FollowBy(q, j)' = FollowBy(q, j)
    BY <1>3, <2>1, FollowByStays
  <2>3. ASSUME NEW q \in Prods, NEW j \in DOMAIN Rhs(q), ~ IsTerminal(Rhs(q)[j]),
               q < nextProd \/ (q = nextProd /\ j < nextSym + 1)
        PROVE  FollowBy(q, j) \subseteq follow[NtIndex(Rhs(q)[j])]
    <3>1. j \in Nat
      BY RhsIs, ListLength
    <3>2. CASE q = nextProd /\ j = nextSym
      BY <1>1, <1>2, <1>6, <2>1, <2>3, <3>2
    <3>3. CASE ~ (q = nextProd /\ j = nextSym)
      <4>1. q < nextProd \/ (q = nextProd /\ j < nextSym)
        BY <1>4, <2>3, <3>1, <3>3
      <4> QED
        BY <1>4, <2>1, <2>3, <4>1 DEF FollowPassed
    <3> QED
      BY <3>2, <3>3
  <2> QED
    BY <1>3, <2>1, <2>2, <2>3 DEF FollowPassed
<1>13. nextSym + 1 \in Nat \ {0} /\ nextProd' \in Prods'
  BY <1>0, <1>3, <1>4 DEF Prods
<1> QED
  BY <1>3, <1>4, <1>10, <1>11, <1>12, <1>13 DEF FirstFollowInv

LEMMA FollowDoneKeeps ==
  ASSUME SoundGrammar(grammar), changes \in BOOLEAN, FirstFollowInv,
         FollowProductionDone \/ FollowIterationDone, UNCHANGED <<grammar, derivable>>
  PROVE  FirstFollowInv'
<1>1. phase = "follow" /\ UNCHANGED <<first, follow, grammar, derivable>>
  BY DEF FollowProductionDone, FollowIterationDone
<1>2. nextProd \in Nat \ {0} /\ nextSym \in Nat \ {0} /\ (NullableKnown => FirstIs /\ FollowSound)
      /\ (~ changes => FollowPassed)
  BY <1>1 DEF FirstFollowInv
<1>3. NullableKnown' <=> NullableKnown
  BY <1>1 DEF NullableKnown, CanDeriveEmpty
<1>4. (FirstIs => FirstIs') /\ (FollowSound => FollowSound') /\ (FollowIs => FollowIs')
  BY <1>1 DEF FirstIs, FollowSound, FollowIs, Nonterms, Vanishing
<1>5. /\ Prods' = Prods /\ \A q : Rhs(q)' = Rhs(q)
      /\ \A q, j : FollowBy(q, j)' = FollowBy(q, j)
  BY <1>1, FollowByStays
<1>6. \A q \in Prods : q \in Nat \ {0} /\ \E n \in Nat : DOMAIN Rhs(q) = 1..n
  BY ProdsAre, RhsIs, ListLength
<1>7. CASE FollowProductionDone
  <2>1. /\ phase' = "follow" /\ nextProd \in Prods /\ nextSym \notin DOMAIN Rhs(nextProd)
        /\ nextProd' = nextProd + 1 /\ nextSym' = 1 /\ changes' = changes
    BY <1>7 DEF FollowProductionDone
  <2>2. ASSUME ~ changes, NEW q \in Prods, NEW j \in DOMAIN Rhs(q), ~ IsTerminal(Rhs(q)[j]),
               q < nextProd + 1 \/ (q = nextProd + 1 /\ j < 1)
        PROVE  FollowBy(q, j) \subseteq follow[NtIndex(Rhs(q)[j])]
    <3>1. PICK n \in Nat : DOMAIN Rhs(q) = 1..n
      BY <1>6
    <3>2. q < nextProd \/ (q = nextProd /\ j < nextSym)
      <4>1. q < nextProd + 1
        BY <2>2, <3>1
      <4>2. q < nextProd \/ q = nextProd
        BY <1>2, <1>6, <4>1
      <4>3. q = nextProd => j < nextSym
        BY <1>2, <2>1, <3>1
      <4> QED
        BY <4>2, <4>3
    <3> QED
      BY <1>2, <2>2, <3>2 DEF FollowPassed
  <2>3. ~ changes => FollowPassed'
    BY <1>1, <1>5, <2>1, <2>2 DEF FollowPassed
  <2> QED
    BY <1>2, <1>3, <1>4, <2>1, <2>3 DEF FirstFollowInv
<1>8. CASE FollowIterationDone
  <2>1. /\ phase' = IF changes THEN "follow" ELSE "sets"
        /\ nextProd \notin Prods /\ nextProd' = 1 /\ nextSym' = nextSym
    BY <1>8 DEF FollowIterationDone
  <2>2. ASSUME ~ changes, NullableKnown PROVE FollowIs
    <3>1. \A q \in Prods : q < nextProd
      <4>1. PICK n \in Nat : Prods = 1..n
        BY ProdsAre
      <4> QED
        BY <1>2, <2>1, <4>1
    <3>2. \A q \in Prods : \A j \in DOMAIN Rhs(q) : ~ IsTerminal(Rhs(q)[j]) =>
            FollowBy(q, j) \subseteq follow[NtIndex(Rhs(q)[j])]
      BY <1>2, <2>2, <3>1 DEF FollowPassed
    <3> QED
      BY <1>2, <2>2, <3>2, FollowIsComplete
  <2>3. nextSym' = 1
    BY <1>1, <2>1 DEF FirstFollowInv
  <2>4. FollowPassed'
    <3>1. \A q \in Prods : ~ (q < 1) /\ \A i \in DOMAIN Rhs(q) : ~ (i < 1)
      BY <1>6
    <3> QED
      BY <1>5, <2>1, <2>3, <3>1 DEF FollowPassed
  <2> QED
    BY <1>2, <1>3, <1>4, <2>1, <2>2, <2>3, <2>4 DEF FirstFollowInv
<1> QED
  BY <1>7, <1>8

-----------------------------------------------------------------------------
LEMMA DeriveKeepsFirst ==
  ASSUME SoundGrammar(grammar), FirstFollowInv, Derive \/ DeriveDone
  PROVE  FirstFollowInv'
<1>1. phase = "derive" /\ UNCHANGED <<grammar, first, follow, nextSym>>
  BY DEF Derive, DeriveDone, firstFollowVars
<1>2. /\ NoneYet /\ (\A n \in Nonterms : first[n] = {}) /\ nextSym = 1
      /\ (derive = "sort" => nextProd = 1)
  BY <1>1 DEF FirstFollowInv
<1>3. /\ NoneYet' /\ FirstSound' /\ (\A n \in Nonterms : first[n] = {})'
  BY <1>1, <1>2 DEF NoneYet, FirstSound, Nonterms
<1>4. CASE Derive
  <2>1. phase' = "derive" /\ derive # "sort" /\ D!Propagate
    BY <1>1, <1>4 DEF Derive
  <2>2. derive' = "sort" => nextProd' = 1
    BY <2>1 DEF D!Propagate, D!ConsiderEmpty, D!ConsiderProduction, D!ProductionsDone,
                D!ClosureStep, D!ClosureDone
  <2> QED
    BY <1>1, <1>2, <1>3, <2>1, <2>2 DEF FirstFollowInv
<1>5. CASE DeriveDone
  <2>1. phase' = "first" /\ nextProd' = 1
    BY <1>2, <1>5 DEF DeriveDone, deriveVars
  <2>2. FirstPassed'
    <3>1. \A p \in Prods : ~ (p < 1)
      BY ProdsAre
    <3>2. Prods' = Prods
      BY <1>1 DEF Prods
    <3> QED
      BY <2>1, <3>1, <3>2 DEF FirstPassed
  <2> QED
    BY <1>1, <1>2, <1>3, <2>1, <2>2 DEF FirstFollowInv
<1> QED
  BY <1>4, <1>5

LEMMA OthersKeepFirst ==
  ASSUME FirstFollowInv,
         \/ phase' \notin {"derive", "first", "follow", "sets"}
         \/ UNCHANGED <<phase, grammar, derivable, derive, first, follow, changes, nextProd, nextSym>>
  PROVE  FirstFollowInv'
<1>1. CASE phase' \notin {"derive", "first", "follow", "sets"}
  BY <1>1 DEF FirstFollowInv
<1>2. CASE UNCHANGED <<phase, grammar, derivable, derive, first, follow, changes, nextProd, nextSym>>
  <2>1. /\ NoneYet' <=> NoneYet
        /\ (\A n \in Nonterms : first[n] = {})' <=> (\A n \in Nonterms : first[n] = {})
        /\ NullableKnown' <=> NullableKnown
        /\ (FirstSound' <=> FirstSound) /\ (FirstIs' <=> FirstIs)
        /\ (FollowSound' <=> FollowSound) /\ (FollowIs' <=> FollowIs)
    BY <1>2 DEF NoneYet, NullableKnown, CanDeriveEmpty, FirstSound, FirstIs, FollowSound,
                FollowIs, Nonterms, Vanishing
  <2>2. FirstPassed' <=> FirstPassed
    BY <1>2 DEF FirstPassed, FirstOfSequence, FirstOfSymbol, CanDeriveEmpty, Rhs, Lhs, Prods
  <2>3. FollowPassed' <=> FollowPassed
    BY <1>2, FollowByStays DEF FollowPassed
  <2>4. (nextProd \notin Prods)' <=> nextProd \notin Prods
    BY <1>2 DEF Prods
  <2> QED
    BY <1>2, <2>1, <2>2, <2>3, <2>4 DEF FirstFollowInv
<1> QED
  BY <1>1, <1>2

LEMMA FirstFollowKeeps ==
  ASSUME SetsInv, Typed, PhaseIn, FirstFollowInv, [Next]_vars
  PROVE  FirstFollowInv'
<1>1. SoundGrammar(grammar) /\ changes \in BOOLEAN /\ FirstTyped /\ FollowTyped
  BY GivenIsSound DEF SetsInv, PhaseIn, Typed
<1>2. CASE UNCHANGED vars
  BY <1>2, OthersKeepFirst DEF vars, firstFollowVars, deriveVars
<1>3. CASE Derive \/ DeriveDone
  BY <1>1, <1>3, DeriveKeepsFirst
<1>4. CASE ComputeFirstFollow
  <2>1. /\ UNCHANGED <<grammar, derivable>>
        /\ \/ FirstOfProduction \/ FirstIterationDone
           \/ FollowOfSymbol \/ FollowProductionDone \/ FollowIterationDone
    BY <1>4 DEF ComputeFirstFollow, FirstFollowNext
  <2> QED
    BY <1>1, <2>1, FirstOfProductionKeeps, FirstIterationKeeps, FollowOfSymbolKeeps,
       FollowDoneKeeps
<1>5. CASE ConstructItemSets
  <2>1. /\ UNCHANGED <<grammar, derivable, derive, first, follow, changes, nextProd, nextSym>>
        /\ \/ MakeStartState \/ PopItemSet \/ MakeItemSet \/ FindItemSet \/ ItemSetDone
           \/ SetsDone \/ CloseKernelItem \/ CloseItem \/ ClosureDone \/ RenumberStates
    BY <1>5 DEF ConstructItemSets, ItemSetsNext
  <2>2. phase' = phase \/ phase' \in {"number", "tables"}
    BY <2>1 DEF MakeStartState, PopItemSet, MakeItemSet, FindItemSet, ItemSetDone, SetsDone,
                CloseKernelItem, CloseItem, ClosureDone, RenumberStates
  <2> QED
    BY <2>1, <2>2, OthersKeepFirst
<1>6. CASE ComputeParseTables
  BY <1>6, LaterPhases, OthersKeepFirst DEF ComputeParseTables, Early
<1>7. CASE Order \/ OrderDone
  BY <1>7, OthersKeepFirst DEF Order, OrderDone
<1>8. CASE Terminated
  BY <1>2, <1>8 DEF Terminated
<1> QED
  BY <1>2, <1>3, <1>4, <1>5, <1>6, <1>7, <1>8 DEF Next

LEMMA OneSymbol ==
  ASSUME NEW x, NEW nullable, NEW begins
  PROVE  FirstOf(<<x>>, {}, begins) = FirstOf(<<x>>, nullable, begins)
         /\ FromLeft(<<x>>, nullable) = {x}
<1>1. \A N : FromLeft(<<x>>, N) = {x}
  <2> TAKE N
  <2>1. DOMAIN <<x>> = {1} /\ <<x>>[1] = x /\ \A i \in 1..(1 - 1) : FALSE
    OBVIOUS
  <2>2. {j \in DOMAIN <<x>> : \A i \in 1..(j - 1) : <<x>>[i] \in N} = {1}
    BY <2>1
  <2> QED
    BY <2>1, <2>2 DEF FromLeft
<1> QED
  BY <1>1 DEF FirstOf

LEMMA FirstFollowAre ==
  ASSUME SetsInv, Typed, FirstFollowInv
  PROVE  FirstFollowExact
<1> SUFFICES ASSUME phase = "sets", NullableKnown
             PROVE  FirstIsExact(Reference(grammar)) /\ FollowIsExact(Reference(grammar))
  BY DEF FirstFollowExact
<1>1. SoundGrammar(grammar) /\ FirstTyped /\ FollowTyped
  BY GivenIsSound DEF SetsInv, Typed
<1>2. FirstIs /\ FollowIs
  BY DEF FirstFollowInv
<1>3. PICK ref : ref = Reference(grammar)
  OBVIOUS
<1>4. ref.begins = Begins /\ ref.after = RefAfter(grammar, Vanishing, Begins)
  BY <1>3 DEF Reference, Begins, Vanishing
<1>5. ASSUME NEW n \in Nonterms
      PROVE  first[n] = FirstOf(<<NontermId(n)>>, {}, ref.begins)
  <2>1. PICK x \in Symbols(grammar) : x = NontermId(n)
    BY <1>1, SymbolsAre DEF Nonterms
  <2>2. ToSymbolSet(<<x>>) \subseteq Symbols(grammar)
    BY DEF ToSymbolSet
  <2>3. FirstOf(<<x>>, Vanishing, Begins)
          = UNION {Firsts(grammar, Vanishing, y) : y \in FromLeft(<<x>>, Vanishing)}
    BY <1>1, <2>2, FirstOfIs DEF Begins
  <2>4. FirstOf(<<x>>, {}, Begins) = Firsts(grammar, Vanishing, x)
    BY <2>3, OneSymbol
  <2> QED
    BY <1>2, <1>4, <2>1, <2>4 DEF FirstIs
<1>6. FirstIsExact(ref)
  BY <1>1, <1>5 DEF FirstIsExact, FirstTyped
<1>7. ASSUME NEW n \in Nonterms
      PROVE  follow[n] = {t \in Terms : <<NontermId(n), t>> \in ref.after}
  <2>1. NontermId(n) \in Symbols(grammar)
    BY <1>1, SymbolsAre DEF Nonterms
  <2>2. \A t : <<NontermId(n), t>> \in ref.after <=> t \in follow[n]
    BY <1>1, <1>2, <1>4, <2>1, FollowsAre DEF Begins, FollowIs
  <2>3. follow[n] \subseteq Terms
    BY <1>1 DEF FollowTyped
  <2> QED
    BY <2>2, <2>3
<1>8. FollowIsExact(ref)
  BY <1>1, <1>7 DEF FollowIsExact, FollowTyped
<1> QED
  BY <1>3, <1>6, <1>8

(* When the iterations are over, First and Follow have exactly the         *)
(* terminals that a derivation can put there, for every grammar of which   *)
(* the relation knows what vanishes: no iteration ends too soon, and none  *)
(* adds a terminal that no derivation does.                                *)
THEOREM FirstFollowAlwaysExact == Spec => []FirstFollowExact
<1>1. Init => SetsInv /\ Typed /\ Settled /\ PhaseIn /\ FirstFollowInv
  <2>1. Init => Settled
    BY DEF Init, ItemSetsInit, Settled
  <2>2. Init => PhaseIn
    BY DEF Init, D!Init, PhaseIn, Phases
  <2> QED
    BY <2>1, <2>2, InitSetsInv, InitTyped, InitFirstFollow
<1>2. (SetsInv /\ Typed /\ Settled /\ PhaseIn /\ FirstFollowInv) /\ [Next]_vars
        => (SetsInv /\ Typed /\ Settled /\ PhaseIn /\ FirstFollowInv)'
  BY SetsInvStep, TypedStep, SettledStep, PhaseInStep, FirstFollowKeeps
<1>3. SetsInv /\ Typed /\ Settled /\ PhaseIn /\ FirstFollowInv => FirstFollowExact
  BY FirstFollowAre
<1> QED
  BY <1>1, <1>2, <1>3, PTL DEF Spec

-----------------------------------------------------------------------------
(* The lookahead that the items are compared with.  What a production gets *)
(* from an item that calls for it, and the edges that lookahead travels.   *)
BeginsIn(g, i) == FirstOf(Rest(g, i), RefNullable(g), RefBegins(g, RefNullable(g)))
CanEnd(g, i) == ToSymbolSet(Rest(g, i)) \subseteq RefNullable(g)
CalledAt(g, i) == {q \in DOMAIN g.prods : Left(g, <<q>>) = NextSymbol(g, i)}
PassedOn(g, i, p, la) ==
  (BeginsIn(g, i) \cup IF CanEnd(g, i) THEN la ELSE {}) \ g.prods[p].forbid

WithMovedDot(g, s, i) ==
  {<<<<s[1], i, t>>, <<MovedDot(g, s[2], NextSymbol(g, i)), <<i[1], i[2] + 1>>, t>>>> :
     t \in -1..(g.terms - 1)}
ByBegin(g, s, i) ==
  UNION {{<<s[1], i, t>> : t \in -1..(g.terms - 1)} \X
           {<<s[1], <<q, 0>>, u>> : u \in {-1} \cup (BeginsIn(g, i) \ g.prods[q].forbid)} :
           q \in CalledAt(g, i)}
ByEnd(g, s, i) ==
  IF CanEnd(g, i)
  THEN UNION {{<<<<s[1], i, t>>, <<s[1], <<q, 0>>, t>>>> :
                 t \in (-1..(g.terms - 1)) \ g.prods[q].forbid} : q \in CalledAt(g, i)}
  ELSE {}
LookEdges(g) ==
  UNION {UNION {WithMovedDot(g, s, i) \cup ByBegin(g, s, i) \cup ByEnd(g, s, i) :
                  i \in s[2] \cap BeforeSymbol(g)} : s \in RefStates(g)}
FirstLook == <<{<<1, 0>>}, <<1, 0>>, -1>>
Looks(g) == Reach(LookEdges(g), {FirstLook})

LEMMA ReferenceLooks ==
  ASSUME NEW g
  PROVE  Reference(g).lookaheads = {n \in Looks(g) : n[3] # -1}
BY DEF Reference, RefLookaheads, Looks, FirstLook, LookEdges, WithMovedDot, ByBegin, ByEnd,
       CalledAt, CanEnd, BeginsIn

LEMMA RefStatesIn ==
  ASSUME NEW g, SoundGrammar(g), NEW s \in RefStates(g)
  PROVE  s[1] \in SUBSET Dotted(g) /\ s[2] \in SUBSET Dotted(g) /\ s = <<s[1], s[2]>>
<1> DEFINE X == {ClosedState(g, kernel) : kernel \in SUBSET Dotted(g)}
<1>1. ClosedState(g, {<<1, 0>>}) \in X
  <2>1. {<<1, 0>>} \in SUBSET Dotted(g)
    BY DottedIs
  <2> QED
    BY <2>1
<1>2. \A st \in X : NextStates(g, st) \subseteq X
  BY MovedDotIn DEF NextStates
<1>3. s \in X
  BY <1>1, <1>2, RefStatesIs
<1>4. PICK kernel \in SUBSET Dotted(g) : s = ClosedState(g, kernel)
  BY <1>3
<1> QED
  BY <1>4, ClosedIn DEF ClosedState

LEMMA FirstsIn ==
  ASSUME NEW g, SoundGrammar(g), NEW i \in BeforeSymbol(g)
  PROVE  BeginsIn(g, i) \subseteq 0..(g.terms - 1)
<1> DEFINE nullable == RefNullable(g)
<1>1. ASSUME NEW x \in Symbols(g)
      PROVE  Firsts(g, nullable, x) \subseteq 0..(g.terms - 1)
  <2>1. ClosedUnder(Corners(g, nullable), Symbols(g))
    BY CornersAre DEF ClosedUnder
  <2>2. Heads(g, nullable, x) \subseteq Symbols(g)
    BY <2>1, HeadsAre
  <2> QED
    BY <2>2, SymbolsAre DEF Firsts
<1>2. ToSymbolSet(Rest(g, i)) \subseteq Symbols(g)
  BY PlacesAre
<1>3. BeginsIn(g, i) = UNION {Firsts(g, nullable, x) : x \in FromLeft(Rest(g, i), nullable)}
  BY <1>2, FirstOfIs DEF BeginsIn
<1>4. FromLeft(Rest(g, i), nullable) \subseteq Symbols(g)
  BY <1>2 DEF FromLeft, ToSymbolSet
<1> QED
  BY <1>1, <1>3, <1>4

(* Each edge, by what it leads from and to.                                *)
LEMMA EdgesAre ==
  ASSUME NEW g, NEW s \in RefStates(g), NEW i \in s[2] \cap BeforeSymbol(g),
         NEW t \in -1..(g.terms - 1)
  PROVE  /\ <<<<s[1], i, t>>, <<MovedDot(g, s[2], NextSymbol(g, i)), <<i[1], i[2] + 1>>, t>>>>
              \in LookEdges(g)
         /\ \A q \in CalledAt(g, i) : \A u \in {-1} \cup PassedOn(g, i, q, {t}) :
              <<<<s[1], i, t>>, <<s[1], <<q, 0>>, u>>>> \in LookEdges(g)
<1>1. WithMovedDot(g, s, i) \cup ByBegin(g, s, i) \cup ByEnd(g, s, i) \subseteq LookEdges(g)
  BY DEF LookEdges
<1>2. <<<<s[1], i, t>>, <<MovedDot(g, s[2], NextSymbol(g, i)), <<i[1], i[2] + 1>>, t>>>>
        \in WithMovedDot(g, s, i)
  BY DEF WithMovedDot
<1>3. ASSUME NEW q \in CalledAt(g, i), NEW u \in {-1} \cup PassedOn(g, i, q, {t})
      PROVE  <<<<s[1], i, t>>, <<s[1], <<q, 0>>, u>>>> \in ByBegin(g, s, i) \cup ByEnd(g, s, i)
  <2>1. CASE u \in {-1} \cup (BeginsIn(g, i) \ g.prods[q].forbid)
    <3>1. <<<<s[1], i, t>>, <<s[1], <<q, 0>>, u>>>>
            \in {<<s[1], i, v>> : v \in -1..(g.terms - 1)} \X
                  {<<s[1], <<q, 0>>, v>> : v \in {-1} \cup (BeginsIn(g, i) \ g.prods[q].forbid)}
      BY <2>1
    <3> QED
      BY <3>1 DEF ByBegin
  <2>2. CASE CanEnd(g, i) /\ u = t /\ t \notin g.prods[q].forbid
    BY <2>2 DEF ByEnd
  <2> QED
    BY <2>1, <2>2 DEF PassedOn
<1> QED
  BY <1>1, <1>2, <1>3

\* What an edge is.
Travels(g, e) ==
  \E s \in RefStates(g) : \E i \in s[2] \cap BeforeSymbol(g) : \E t \in -1..(g.terms - 1) :
    \/ e = <<<<s[1], i, t>>,
             <<MovedDot(g, s[2], NextSymbol(g, i)), <<i[1], i[2] + 1>>, t>>>>
    \/ \E q \in CalledAt(g, i) : \E u \in {-1} \cup PassedOn(g, i, q, {t}) :
         e = <<<<s[1], i, t>>, <<s[1], <<q, 0>>, u>>>>

LEMMA EdgeIs ==
  ASSUME NEW g, NEW e \in LookEdges(g)
  PROVE  Travels(g, e)
<1> SUFFICES \E s \in RefStates(g) : \E i \in s[2] \cap BeforeSymbol(g) :
               \E t \in -1..(g.terms - 1) :
                 \/ e = <<<<s[1], i, t>>,
                          <<MovedDot(g, s[2], NextSymbol(g, i)), <<i[1], i[2] + 1>>, t>>>>
                 \/ \E q \in CalledAt(g, i) : \E u \in {-1} \cup PassedOn(g, i, q, {t}) :
                      e = <<<<s[1], i, t>>, <<s[1], <<q, 0>>, u>>>>
  BY DEF Travels
<1>1. PICK s \in RefStates(g) : \E i \in s[2] \cap BeforeSymbol(g) :
        e \in WithMovedDot(g, s, i) \cup ByBegin(g, s, i) \cup ByEnd(g, s, i)
  BY DEF LookEdges
<1>5. PICK i \in s[2] \cap BeforeSymbol(g) :
        e \in WithMovedDot(g, s, i) \cup ByBegin(g, s, i) \cup ByEnd(g, s, i)
  BY <1>1
<1>2. CASE e \in WithMovedDot(g, s, i)
  BY <1>1, <1>2 DEF WithMovedDot
<1>3. CASE e \in ByBegin(g, s, i)
  <2>1. PICK q \in CalledAt(g, i) :
          e \in {<<s[1], i, t>> : t \in -1..(g.terms - 1)} \X
                  {<<s[1], <<q, 0>>, u>> : u \in {-1} \cup (BeginsIn(g, i) \ g.prods[q].forbid)}
    BY <1>3 DEF ByBegin
  <2>2. PICK t \in -1..(g.terms - 1), u \in {-1} \cup (BeginsIn(g, i) \ g.prods[q].forbid) :
          e = <<<<s[1], i, t>>, <<s[1], <<q, 0>>, u>>>>
    BY <2>1
  <2>3. u \in {-1} \cup PassedOn(g, i, q, {t})
    BY DEF PassedOn
  <2> QED
    BY <1>1, <2>1, <2>2, <2>3
<1>4. CASE e \in ByEnd(g, s, i)
  <2>1. CanEnd(g, i)
    BY <1>4 DEF ByEnd
  <2>4. PICK q \in CalledAt(g, i) :
          e \in {<<<<s[1], i, t>>, <<s[1], <<q, 0>>, t>>>> :
                 t \in (-1..(g.terms - 1)) \ g.prods[q].forbid}
    BY <1>4, <2>1 DEF ByEnd
  <2>2. PICK t \in (-1..(g.terms - 1)) \ g.prods[q].forbid :
          e = <<<<s[1], i, t>>, <<s[1], <<q, 0>>, t>>>>
    BY <2>4
  <2>3. t \in PassedOn(g, i, q, {t})
    BY <2>1, <2>2 DEF PassedOn
  <2> QED
    BY <1>1, <2>2, <2>3
<1> QED
  BY <1>5, <1>2, <1>3, <1>4

LEMMA LookEdgesFinite ==
  ASSUME NEW g, SoundGrammar(g)
  PROVE  IsFiniteSet(LookEdges(g))
<1> DEFINE terms == -1..(g.terms - 1)
           nested == ((SUBSET Dotted(g)) \X Dotted(g)) \X terms
           node == [n \in nested |-> <<n[1][1], n[1][2], n[2]>>]
           nodes == {node[n] : n \in nested}
<1>1. IsFiniteSet(nodes)
  <2>1. IsFiniteSet(Dotted(g)) /\ IsFiniteSet(terms)
    <3>1. -1 \in Int /\ g.terms - 1 \in Int
      BY DEF SoundGrammar
    <3> QED
      BY <3>1, DottedIs, FS_Interval
  <2>2. IsFiniteSet(nested)
    BY <2>1, FS_SUBSET, FS_Product
  <2>3. nested = DOMAIN node
    OBVIOUS
  <2> HIDE DEF node, nested
  <2> QED
    BY <2>2, <2>3, FiniteImage
<1>2. \A K \in SUBSET Dotted(g), i \in Dotted(g), t \in terms : <<K, i, t>> \in nodes
  <2> TAKE K \in SUBSET Dotted(g), i \in Dotted(g), t \in terms
  <2>1. <<<<K, i>>, t>> \in nested
    OBVIOUS
  <2>2. node[<<<<K, i>>, t>>] = <<K, i, t>>
    BY <2>1
  <2> QED
    BY <2>1, <2>2
<1> HIDE DEF nodes
<1>3. LookEdges(g) \subseteq nodes \X nodes
  <2> SUFFICES ASSUME NEW e \in LookEdges(g)
               PROVE  e \in nodes \X nodes
    OBVIOUS
  <2>0. Travels(g, e)
    BY EdgeIs
  <2>10. PICK s \in RefStates(g) : \E i \in s[2] \cap BeforeSymbol(g) : \E t \in -1..(g.terms - 1) :
          \/ e = <<<<s[1], i, t>>,
                   <<MovedDot(g, s[2], NextSymbol(g, i)), <<i[1], i[2] + 1>>, t>>>>
          \/ \E q \in CalledAt(g, i) : \E u \in {-1} \cup PassedOn(g, i, q, {t}) :
               e = <<<<s[1], i, t>>, <<s[1], <<q, 0>>, u>>>>
    BY <2>0 DEF Travels
  <2>11. PICK i \in s[2] \cap BeforeSymbol(g) : \E t \in -1..(g.terms - 1) :
          \/ e = <<<<s[1], i, t>>,
                   <<MovedDot(g, s[2], NextSymbol(g, i)), <<i[1], i[2] + 1>>, t>>>>
          \/ \E q \in CalledAt(g, i) : \E u \in {-1} \cup PassedOn(g, i, q, {t}) :
               e = <<<<s[1], i, t>>, <<s[1], <<q, 0>>, u>>>>
    BY <2>10
  <2>1. PICK t \in -1..(g.terms - 1) :
          \/ e = <<<<s[1], i, t>>,
                   <<MovedDot(g, s[2], NextSymbol(g, i)), <<i[1], i[2] + 1>>, t>>>>
          \/ \E q \in CalledAt(g, i) : \E u \in {-1} \cup PassedOn(g, i, q, {t}) :
               e = <<<<s[1], i, t>>, <<s[1], <<q, 0>>, u>>>>
    BY <2>11
  <2>2. s[1] \in SUBSET Dotted(g) /\ s[2] \in SUBSET Dotted(g)
    BY RefStatesIn
  <2>3. <<s[1], i, t>> \in nodes
    BY <1>2, <2>2
  <2>4. CASE e = <<<<s[1], i, t>>,
                   <<MovedDot(g, s[2], NextSymbol(g, i)), <<i[1], i[2] + 1>>, t>>>>
    <3>1. MovedDot(g, s[2], NextSymbol(g, i)) \in SUBSET Dotted(g)
      BY MovedDotIn
    <3>2. PICK p, d : i = <<p, d>>
      BY <2>2, DottedIs
    <3>3. p \in DOMAIN g.prods /\ d \in 0..(Len(g.prods[p].rhs) - 1)
      BY <3>2, DottedIs
    <3>4. Len(g.prods[p].rhs) \in Nat
      BY <3>3, RightSidesAre
    <3>5. d + 1 \in 0..Len(g.prods[p].rhs)
      BY <3>3, <3>4
    <3>6. <<i[1], i[2] + 1>> \in Dotted(g)
      BY <3>2, <3>3, <3>5, DottedIs
    <3> QED
      BY <1>2, <2>3, <2>4, <3>1, <3>6
  <2>5. ASSUME NEW q \in CalledAt(g, i), NEW u \in {-1} \cup PassedOn(g, i, q, {t}),
               e = <<<<s[1], i, t>>, <<s[1], <<q, 0>>, u>>>>
        PROVE  e \in nodes \X nodes
    <3>1. u \in terms
      BY FirstsIn DEF PassedOn, SoundGrammar
    <3>2. <<q, 0>> \in Dotted(g)
      <4>1. q \in DOMAIN g.prods
        BY DEF CalledAt
      <4>2. 0 \in 0..Len(g.prods[q].rhs)
        BY <4>1, RightSidesAre
      <4> QED
        BY <4>1, <4>2, DottedIs
    <3> QED
      BY <1>2, <2>2, <2>3, <2>5, <3>1, <3>2
  <2> QED
    BY <2>1, <2>4, <2>5
<1> QED
  BY <1>1, <1>3, FS_Product, FS_Subset

(* The set of lookaheads: it has that of the first item, every step that   *)
(* lookahead can take stays within it, and it is the least such set.       *)
LooksClosed(g, X) ==
  \A s \in RefStates(g) : \A i \in s[2] \cap BeforeSymbol(g) : \A t \in -1..(g.terms - 1) :
    <<s[1], i, t>> \in X =>
      /\ <<MovedDot(g, s[2], NextSymbol(g, i)), <<i[1], i[2] + 1>>, t>> \in X
      /\ \A q \in CalledAt(g, i) : \A u \in {-1} \cup PassedOn(g, i, q, {t}) :
           <<s[1], <<q, 0>>, u>> \in X

LEMMA LooksAre ==
  ASSUME NEW g, SoundGrammar(g)
  PROVE  /\ FirstLook \in Looks(g) /\ LooksClosed(g, Looks(g))
         /\ \A X : FirstLook \in X /\ LooksClosed(g, X) => Looks(g) \subseteq X
<1>1. /\ {FirstLook} \subseteq Looks(g) /\ ClosedUnder(LookEdges(g), Looks(g))
      /\ \A X : {FirstLook} \subseteq X /\ ClosedUnder(LookEdges(g), X) => Looks(g) \subseteq X
  BY LookEdgesFinite, FS_Singleton, ReachIs DEF Looks
<1>2. ASSUME NEW X, ClosedUnder(LookEdges(g), X)
      PROVE  LooksClosed(g, X)
  <2> SUFFICES ASSUME NEW s \in RefStates(g), NEW i \in s[2] \cap BeforeSymbol(g),
                      NEW t \in -1..(g.terms - 1), <<s[1], i, t>> \in X
               PROVE  /\ <<MovedDot(g, s[2], NextSymbol(g, i)), <<i[1], i[2] + 1>>, t>> \in X
                      /\ \A q \in CalledAt(g, i) : \A u \in {-1} \cup PassedOn(g, i, q, {t}) :
                           <<s[1], <<q, 0>>, u>> \in X
    BY DEF LooksClosed
  <2>1. \A y : <<<<s[1], i, t>>, y>> \in LookEdges(g) => y \in X
    <3> TAKE y
    <3> HAVE <<<<s[1], i, t>>, y>> \in LookEdges(g)
    <3>1. PICK e \in LookEdges(g) : e = <<<<s[1], i, t>>, y>>
      OBVIOUS
    <3>2. e[1] = <<s[1], i, t>> /\ e[2] = y
      BY <3>1
    <3> QED
      BY <1>2, <3>2 DEF ClosedUnder
  <2> QED
    BY <2>1, EdgesAre
<1>3. ASSUME NEW X, LooksClosed(g, X)
      PROVE  ClosedUnder(LookEdges(g), X)
  <2> SUFFICES ASSUME NEW e \in LookEdges(g), e[1] \in X
               PROVE  e[2] \in X
    BY DEF ClosedUnder
  <2>0. Travels(g, e)
    BY EdgeIs
  <2>10. PICK s \in RefStates(g) : \E i \in s[2] \cap BeforeSymbol(g) : \E t \in -1..(g.terms - 1) :
          \/ e = <<<<s[1], i, t>>,
                   <<MovedDot(g, s[2], NextSymbol(g, i)), <<i[1], i[2] + 1>>, t>>>>
          \/ \E q \in CalledAt(g, i) : \E u \in {-1} \cup PassedOn(g, i, q, {t}) :
               e = <<<<s[1], i, t>>, <<s[1], <<q, 0>>, u>>>>
    BY <2>0 DEF Travels
  <2>11. PICK i \in s[2] \cap BeforeSymbol(g) : \E t \in -1..(g.terms - 1) :
          \/ e = <<<<s[1], i, t>>,
                   <<MovedDot(g, s[2], NextSymbol(g, i)), <<i[1], i[2] + 1>>, t>>>>
          \/ \E q \in CalledAt(g, i) : \E u \in {-1} \cup PassedOn(g, i, q, {t}) :
               e = <<<<s[1], i, t>>, <<s[1], <<q, 0>>, u>>>>
    BY <2>10
  <2>1. PICK t \in -1..(g.terms - 1) :
          \/ e = <<<<s[1], i, t>>,
                   <<MovedDot(g, s[2], NextSymbol(g, i)), <<i[1], i[2] + 1>>, t>>>>
          \/ \E q \in CalledAt(g, i) : \E u \in {-1} \cup PassedOn(g, i, q, {t}) :
               e = <<<<s[1], i, t>>, <<s[1], <<q, 0>>, u>>>>
    BY <2>11
  <2>2. e[1] = <<s[1], i, t>>
    BY <2>1
  <2>3. /\ <<MovedDot(g, s[2], NextSymbol(g, i)), <<i[1], i[2] + 1>>, t>> \in X
        /\ \A q \in CalledAt(g, i) : \A u \in {-1} \cup PassedOn(g, i, q, {t}) :
             <<s[1], <<q, 0>>, u>> \in X
    BY <1>3, <2>2 DEF LooksClosed
  <2>4. ASSUME NEW q \in CalledAt(g, i), NEW u \in {-1} \cup PassedOn(g, i, q, {t}),
               e = <<<<s[1], i, t>>, <<s[1], <<q, 0>>, u>>>>
        PROVE  e[2] \in X
    <3>1. e[2] = <<s[1], <<q, 0>>, u>>
      BY <2>4
    <3> QED
      BY <2>3, <3>1
  <2>5. CASE e = <<<<s[1], i, t>>,
                   <<MovedDot(g, s[2], NextSymbol(g, i)), <<i[1], i[2] + 1>>, t>>>>
    <3>1. e[2] = <<MovedDot(g, s[2], NextSymbol(g, i)), <<i[1], i[2] + 1>>, t>>
      BY <2>5
    <3> QED
      BY <2>3, <3>1
  <2> QED
    BY <2>1, <2>4, <2>5
<1> QED
  BY <1>1, <1>2, <1>3

-----------------------------------------------------------------------------
(* The lookahead of a set of items: it is none but what the reference has, *)
(* and what an item passes on the items it calls for have.                 *)
LooksFor(g, it, p) == PassedOn(g, CoreOf(it), p, it.la)
SoundLooks(g, kernel, items) ==
  \A it \in items : \A t \in it.la \cup {-1} : <<CoreSet(kernel), CoreOf(it), t>> \in Looks(g)
GetsLooks(g, from, items) ==
  \A it \in from : \A p : Calls(g.prods, it, p) =>
    \E b \in items : b.prod = p /\ LooksFor(g, it, p) \subseteq b.la

LEMMA CalledAtIs ==
  ASSUME NEW g, SoundGrammar(g), NEW it, ItemIn(g, it), NEW p
  PROVE  Calls(g.prods, it, p) <=> CoreOf(it) \in BeforeSymbol(g) /\ p \in CalledAt(g, CoreOf(it))
<1>1. Calls(g.prods, it, p) <=>
        /\ CoreOf(it) \in BeforeSymbol(g) /\ p \in DOMAIN g.prods
        /\ NextSymbol(g, CoreOf(it)) = NontermId(g.prods[p].lhs)
  BY CallsAdded, AddedIs
<1>2. p \in DOMAIN g.prods => Left(g, <<p>>) = NontermId(g.prods[p].lhs)
  BY RightSidesAre
<1> QED
  BY <1>1, <1>2 DEF CalledAt

LEMMA NewLooks ==
  ASSUME SoundGrammar(grammar), NullableKnown, FirstIs,
         NEW it, ItemIn(grammar, it), NEW p, Calls(grammar.prods, it, p)
  PROVE  NewItemLookahead(it, p) = LooksFor(grammar, it, p)
<1>1. it.prod \in Prods /\ it.dot + 1 \in DOMAIN Rhs(it.prod) /\ (it.dot + 1) - 1 = it.dot
  <2>1. it.prod \in DOMAIN grammar.prods /\ it.dot \in 0..Len(Rhs(it.prod))
        /\ it.dot # Len(Rhs(it.prod))
    BY DEF ItemIn, Calls, EndOf, Rhs
  <2>2. Len(Rhs(it.prod)) \in Nat /\ DOMAIN Rhs(it.prod) = 1..Len(Rhs(it.prod))
    BY <2>1, RightSidesAre DEF Rhs
  <2> QED
    BY <2>1, <2>2 DEF Prods
<1>2. PICK beta : beta = After(it.prod, it.dot + 1)
  OBVIOUS
<1>3. /\ Rest(grammar, CoreOf(it)) = beta
      /\ IsList(beta) /\ ToSymbolSet(beta) \subseteq Symbols(grammar)
  BY <1>1, <1>2, PlaceIs DEF CoreOf
<1>4. FirstSound
  BY DEF FirstIs, FirstSound
<1>5. /\ SeqCanDeriveEmpty(beta) <=> CanEnd(grammar, CoreOf(it))
      /\ FirstOfSequence(beta) = BeginsIn(grammar, CoreOf(it))
  BY <1>3, <1>4, OfSequence, OfSymbols DEF CanEnd, BeginsIn, Vanishing, Begins
<1>6. NewItemLookahead(it, p) =
        (FirstOfSequence(beta) \cup IF SeqCanDeriveEmpty(beta) THEN it.la ELSE {})
          \ grammar.prods[p].forbid
  BY <1>2 DEF NewItemLookahead
<1> QED
  BY <1>5, <1>6 DEF LooksFor, PassedOn

(* What an item passes on to the items it calls for is lookahead of the    *)
(* reference if its own is.                                                *)
LEMMA CalledLooks ==
  ASSUME NEW g, SoundGrammar(g), NEW kernel, ClosedState(g, CoreSet(kernel)) \in RefStates(g),
         NEW it, ItemIn(g, it), CoreOf(it) \in Reach(Added(g), CoreSet(kernel)),
         SoundLooks(g, kernel, {it}), NEW p, Calls(g.prods, it, p),
         NEW t \in {-1} \cup LooksFor(g, it, p)
  PROVE  <<CoreSet(kernel), <<p, 0>>, t>> \in Looks(g)
<1>1. PICK s \in RefStates(g) : s = ClosedState(g, CoreSet(kernel))
  OBVIOUS
<1>2. s[1] = CoreSet(kernel) /\ s[2] = Reach(Added(g), CoreSet(kernel))
  BY <1>1 DEF ClosedState
<1>3. PICK i \in s[2] \cap BeforeSymbol(g) : i = CoreOf(it)
  BY <1>2, CalledAtIs
<1>4. p \in CalledAt(g, i)
  BY <1>3, CalledAtIs
<1>5. \A u \in it.la \cup {-1} : u \in -1..(g.terms - 1) /\ <<s[1], i, u>> \in Looks(g)
  BY <1>2, <1>3 DEF SoundLooks, ItemIn, SoundGrammar
<1>6. \A u \in it.la \cup {-1} : \A v \in {-1} \cup PassedOn(g, i, p, {u}) :
        <<s[1], <<p, 0>>, v>> \in Looks(g)
  BY <1>4, <1>5, LooksAre DEF LooksClosed
<1>7. \E u \in it.la \cup {-1} : t \in {-1} \cup PassedOn(g, i, p, {u})
  BY <1>3 DEF LooksFor, PassedOn
<1> QED
  BY <1>2, <1>6, <1>7

(* The lookahead after an item of a closure has been looked at: all that   *)
(* was there, what the item passes on, and nothing else.                   *)
LEMMA SingleItemLooks ==
  ASSUME NEW P, P = grammar.prods, DOMAIN P \in SUBSET Int, IsFiniteSet(DOMAIN P),
         NEW set, NEW w, GoodWork(P, set, w), NEW item,
         NEW z, z = SingleItemClosure(w, item)
  PROVE  /\ \A a \in WorkItems(w) : \E b \in WorkItems(z) : b.prod = a.prod /\ a.la \subseteq b.la
         /\ \A p : Calls(P, item, p) =>
              \E b \in WorkItems(z) : b.prod = p /\ NewItemLookahead(item, p) \subseteq b.la
         /\ \A b \in WorkItems(z) : \A t \in b.la :
              \/ \E a \in WorkItems(w) : a.prod = b.prod /\ t \in a.la
              \/ Calls(P, item, b.prod) /\ t \in NewItemLookahead(item, b.prod)
<1>1. CASE DotAtEnd(item) \/ IsTerminal(SymbolAfterDot(item))
  <2>1. z = w
    BY <1>1 DEF SingleItemClosure
  <2>2. \A p : ~ Calls(P, item, p)
    BY <1>1, InTerms DEF Calls
  <2> QED
    BY <2>1, <2>2
<1>2. CASE ~ (DotAtEnd(item) \/ IsTerminal(SymbolAfterDot(item)))
  <2> DEFINE called == {p \in Prods : Lhs(p) = NtIndex(SymbolAfterDot(item))}
             la(p) == NewItemLookahead(item, p)
             finished(p) == {it \in w.finished : it.prod = p}
             listed == {w.list[i].prod : i \in DOMAIN w.list}
             queued == {p \in called \ listed :
                          ~ \E it \in finished(p) : la(p) \subseteq it.la}
             new == [i \in 1..Cardinality(queued) |-> NumberAt(queued, i)]
             before == [i \in DOMAIN w.list |->
                          IF w.list[i].prod \in called
                          THEN Item(w.list[i].prod, 0, w.list[i].la \cup la(w.list[i].prod))
                          ELSE w.list[i]]
             after == [i \in DOMAIN new |->
                         Item(new[i], 0, la(new[i]) \cup
                               UNION {it.la : it \in finished(new[i])})]
             kept == {it \in w.finished : it.prod \notin queued}
  <2>1. z = [w EXCEPT !.finished = kept, !.list = before \o after]
    BY <1>2 DEF SingleItemClosure, InOrder, NumberAt
  <2>2. queued \in SUBSET DOMAIN P /\ queued \subseteq called
    BY DEF Prods
  <2>3. /\ \A i \in DOMAIN w.list :
             /\ before[i].prod = w.list[i].prod
             /\ w.list[i].prod \in called =>
                  before[i].la = w.list[i].la \cup la(w.list[i].prod)
             /\ w.list[i].prod \notin called => before[i] = w.list[i]
        /\ DOMAIN before = DOMAIN w.list /\ before = [i \in DOMAIN w.list |-> before[i]]
    BY DEF Item
  <2>4. /\ \A i \in DOMAIN new :
             /\ after[i].prod = new[i]
             /\ after[i].la = la(new[i]) \cup UNION {it.la : it \in finished(new[i])}
        /\ DOMAIN after = DOMAIN new /\ after = [i \in DOMAIN new |-> after[i]]
    BY DEF Item
  <2>5. \A p : p \in called <=> Calls(P, item, p)
    <3>1. ~ EndOf(P, item) /\ ~ IsTerminal(AfterDot(P, item))
          /\ AfterDot(P, item) = SymbolAfterDot(item)
      BY <1>2, InTerms
    <3>2. \A p : p \in Prods <=> p \in DOMAIN P
      BY DEF Prods
    <3>3. \A p : Lhs(p) = P[p].lhs
      BY DEF Lhs
    <3> QED
      BY <3>1, <3>2, <3>3 DEF Calls
  <2>6. \A p \in called : p \in queued \/ p \in listed
                            \/ \E it \in w.finished : it.prod = p /\ la(p) \subseteq it.la
    OBVIOUS
  <2>7. PICK q, n, b, a, k, c : /\ q = queued /\ n = new /\ b = before /\ a = after /\ k = kept
                               /\ c = called
    OBVIOUS
  <2>8. \A p : p \in listed <=> \E i \in DOMAIN w.list : w.list[i].prod = p
    OBVIOUS
  <2>9. IsFiniteSet(q) /\ q \in SUBSET Int
    BY <2>2, <2>7, FS_Subset
  <2>10. n = [i \in 1..Cardinality(q) |-> NumberAt(q, i)]
    BY <2>7
  <2>11. IsList(n) /\ ToSymbolSet(n) = q
    <3>1. PICK m \in Nat : m = Cardinality(q)
      BY <2>9, FS_CardinalityType
    <3>2. n = [i \in 1..m |-> n[i]] /\ \A i \in 1..m : n[i] = NumberAt(q, i)
      BY <2>10, <3>1
    <3>3. IsList(n) /\ Len(n) = m
      BY <3>2, IsAList
    <3> QED
      BY ONLY <2>9, <3>1, <3>2, <3>3, NumbersInOrder
  <2>12. Len(n) \in Nat /\ DOMAIN n = 1..Len(n)
    BY <2>11, ListLength
  <2>13. DOMAIN w.list = 1..Len(w.list) /\ Len(w.list) \in Nat
    BY ListLength DEF GoodWork
  <2>14. IsList(b)
    <3>1. b = [i \in 1..Len(w.list) |-> b[i]]
      BY <2>3, <2>7, <2>13
    <3> QED
      BY <2>13, <3>1, IsAList
  <2>15. IsList(a)
    <3>1. a = [i \in 1..Len(n) |-> a[i]]
      BY <2>4, <2>7, <2>12
    <3> QED
      BY <2>12, <3>1, IsAList
  <2>16. z = [finished |-> k, list |-> b \o a, kernel |-> w.kernel]
    BY <2>1, <2>7 DEF GoodWork
  <2>17. /\ \A i \in DOMAIN w.list :
              /\ b[i].prod = w.list[i].prod
              /\ w.list[i].prod \in c =>
                   b[i].la = w.list[i].la \cup NewItemLookahead(item, w.list[i].prod)
              /\ w.list[i].prod \notin c => b[i] = w.list[i]
         /\ DOMAIN b = DOMAIN w.list
         /\ \A i \in DOMAIN n :
              /\ a[i].prod = n[i]
              /\ a[i].la = NewItemLookahead(item, n[i])
                             \cup UNION {it.la : it \in {d \in w.finished : d.prod = n[i]}}
         /\ DOMAIN a = DOMAIN n
    <3>4. \A p : finished(p) = {d \in w.finished : d.prod = p} /\ la(p) = NewItemLookahead(item, p)
      OBVIOUS
    <3> HIDE DEF queued, new, before, after, kept, called, la, finished, listed
    <3>1. \A i \in DOMAIN w.list :
            /\ b[i].prod = w.list[i].prod
            /\ w.list[i].prod \in c => b[i].la = w.list[i].la \cup la(w.list[i].prod)
            /\ w.list[i].prod \notin c => b[i] = w.list[i]
      BY <2>3, <2>7
    <3>2. \A i \in DOMAIN n :
            /\ a[i].prod = n[i]
            /\ a[i].la = la(n[i]) \cup UNION {it.la : it \in finished(n[i])}
      BY <2>4, <2>7
    <3>3. DOMAIN b = DOMAIN w.list /\ DOMAIN a = DOMAIN n
      BY <2>3, <2>4, <2>7
    <3> QED
      BY ONLY <3>1, <3>2, <3>3, <3>4
  <2>18. /\ \A p \in c : p \in q \/ (\E i \in DOMAIN w.list : w.list[i].prod = p)
                         \/ \E it \in w.finished :
                              it.prod = p /\ NewItemLookahead(item, p) \subseteq it.la
         /\ q \subseteq c /\ \A p : p \in c <=> Calls(P, item, p)
    BY <2>2, <2>5, <2>6, <2>7, <2>8
  <2>19. k = {it \in w.finished : it.prod \notin q}
    BY <2>7
  <2> HIDE DEF queued, new, before, after, kept, called, la, finished, listed
  <2>20. ToSymbolSet(b \o a) = ToSymbolSet(b) \cup ToSymbolSet(a)
    BY <2>14, <2>15, Concatenated
  <2>21. WorkItems(z) = k \cup ToSymbolSet(b) \cup ToSymbolSet(a)
    BY <2>16, <2>20 DEF WorkItems
  <2>22. \A p \in q : \E d \in ToSymbolSet(a) :
           /\ d.prod = p /\ NewItemLookahead(item, p) \subseteq d.la
           /\ \A it \in w.finished : it.prod = p => it.la \subseteq d.la
    <3> TAKE p \in q
    <3>1. PICK i \in DOMAIN n : n[i] = p
      BY <2>11 DEF ToSymbolSet
    <3>2. a[i] \in ToSymbolSet(a)
      BY <2>17 DEF ToSymbolSet
    <3>3. a[i].prod = p /\ a[i].la = NewItemLookahead(item, p)
                             \cup UNION {it.la : it \in {d \in w.finished : d.prod = p}}
      BY <2>17, <3>1
    <3> QED
      BY <3>2, <3>3
  <2>23. \A d \in ToSymbolSet(w.list) : \E e \in ToSymbolSet(b) :
           /\ e.prod = d.prod /\ d.la \subseteq e.la
           /\ d.prod \in c => NewItemLookahead(item, d.prod) \subseteq e.la
    BY <2>17 DEF ToSymbolSet
  <2>24. ASSUME NEW d \in WorkItems(w)
         PROVE  \E e \in WorkItems(z) : e.prod = d.prod /\ d.la \subseteq e.la
    <3>1. CASE d \in ToSymbolSet(w.list)
      BY <2>21, <2>23, <3>1
    <3>2. CASE d \in w.finished /\ d.prod \notin q
      BY <2>19, <2>21, <3>2
    <3>3. CASE d \in w.finished /\ d.prod \in q
      BY <2>21, <2>22, <3>3
    <3> QED
      BY <3>1, <3>2, <3>3 DEF WorkItems
  <2>25. ASSUME NEW p, Calls(P, item, p)
         PROVE  \E e \in WorkItems(z) : e.prod = p /\ NewItemLookahead(item, p) \subseteq e.la
    <3>1. p \in c
      BY <2>18, <2>25
    <3>2. CASE p \in q
      BY <2>21, <2>22, <3>2
    <3>3. CASE \E i \in DOMAIN w.list : w.list[i].prod = p
      <4>1. PICK d \in ToSymbolSet(w.list) : d.prod = p
        BY <3>3 DEF ToSymbolSet
      <4> QED
        BY <2>21, <2>23, <3>1, <4>1
    <3>4. CASE p \notin q /\ \E it \in w.finished :
                 it.prod = p /\ NewItemLookahead(item, p) \subseteq it.la
      BY <2>19, <2>21, <3>4
    <3> QED
      BY <2>18, <3>1, <3>2, <3>3, <3>4
  <2>26. ASSUME NEW e \in WorkItems(z), NEW t \in e.la
         PROVE  \/ \E d \in WorkItems(w) : d.prod = e.prod /\ t \in d.la
                \/ Calls(P, item, e.prod) /\ t \in NewItemLookahead(item, e.prod)
    <3>1. CASE e \in k
      BY <2>19, <3>1 DEF WorkItems
    <3>2. CASE e \in ToSymbolSet(b)
      <4>1. PICK i \in DOMAIN w.list : e = b[i]
        BY <2>17, <3>2 DEF ToSymbolSet
      <4>2. w.list[i] \in WorkItems(w)
        BY DEF WorkItems, ToSymbolSet
      <4> QED
        BY <2>17, <2>18, <4>1, <4>2
    <3>3. CASE e \in ToSymbolSet(a)
      <4>1. PICK i \in DOMAIN n : e = a[i]
        BY <2>17, <3>3 DEF ToSymbolSet
      <4>2. n[i] \in q
        BY <2>11 DEF ToSymbolSet
      <4>3. Calls(P, item, e.prod)
        BY <2>17, <2>18, <4>1, <4>2
      <4> QED
        BY <2>17, <4>1, <4>3 DEF WorkItems
    <3> QED
      BY <2>21, <3>1, <3>2, <3>3
  <2> QED
    BY <2>24, <2>25, <2>26
<1> QED
  BY <1>1, <1>2

-----------------------------------------------------------------------------
(* A closure under way, and the sets it is not under way in.  The current  *)
(* state may have got lookahead that its items have not been given yet, if *)
(* it is to be closed at the end.                                          *)
WorkLooks(g, set, w) ==
  /\ GetsLooks(g, ToSymbolSet(set.kernel) \ ToSymbolSet(w.kernel), WorkItems(w))
  /\ GetsLooks(g, w.finished, WorkItems(w))
  /\ SoundLooks(g, set.kernel, WorkItems(w))
SetSound(g, set) ==
  SoundLooks(g, set.kernel, ToSymbolSet(set.kernel) \cup ToSymbolSet(set.nonkernel))
KernelPasses(g, set) == GetsLooks(g, ToSymbolSet(set.kernel), ToSymbolSet(set.nonkernel))
OthersPass(g, set) == GetsLooks(g, ToSymbolSet(set.nonkernel), ToSymbolSet(set.nonkernel))

AllSound == \A s \in DOMAIN sets : SetSound(grammar, sets[s])
AllPass ==
  \A s \in DOMAIN sets : s # closing =>
    /\ OthersPass(grammar, sets[s])
    /\ s # current \/ ~ mustCloseMyself => KernelPasses(grammar, sets[s])
ClosureLooks == closing # NoState => WorkLooks(grammar, sets[closing], work)
LooksSoFar == AllSound /\ AllPass /\ ClosureLooks

LEMMA ClosureBeginsLooks ==
  ASSUME NEW g, NEW set, OthersPass(g, set), SetSound(g, set),
         NEW w, w = [finished |-> ToSymbolSet(set.nonkernel), list |-> << >>, kernel |-> set.kernel]
  PROVE  WorkLooks(g, set, w)
<1>1. WorkItems(w) = ToSymbolSet(set.nonkernel) /\ w.kernel = set.kernel
      /\ w.finished = ToSymbolSet(set.nonkernel)
  BY DEF WorkItems, ToSymbolSet
<1> QED
  BY <1>1 DEF WorkLooks, GetsLooks, OthersPass, SetSound, SoundLooks

(* The work after an item has been looked at: all that was there, what the *)
(* item passes on, and nothing else.                                       *)
ItemPassed(g, w, item, z) ==
  /\ \A b \in WorkItems(w) \cup WorkItems(z) : b.dot = 0
  /\ \A p : HasStart(WorkItems(z), p) <=> HasStart(WorkItems(w), p) \/ Calls(g.prods, item, p)
  /\ \A a \in WorkItems(w) : \E b \in WorkItems(z) : b.prod = a.prod /\ a.la \subseteq b.la
  /\ \A p : Calls(g.prods, item, p) =>
       \E b \in WorkItems(z) : b.prod = p /\ LooksFor(g, item, p) \subseteq b.la
  /\ \A b \in WorkItems(z) : \A t \in b.la :
       \/ \E a \in WorkItems(w) : a.prod = b.prod /\ t \in a.la
       \/ Calls(g.prods, item, b.prod) /\ t \in LooksFor(g, item, b.prod)
  /\ z.finished \subseteq w.finished \cup {item}
  /\ ToSymbolSet(w.kernel) \subseteq ToSymbolSet(z.kernel) \cup {item}

LEMMA WorkLooksGoOn ==
  ASSUME NEW g, SoundGrammar(g), NEW set, ClosedState(g, CoreSet(set.kernel)) \in RefStates(g),
         NEW w, WorkLooks(g, set, w),
         NEW item, ItemIn(g, item), CoreOf(item) \in Reach(Added(g), CoreSet(set.kernel)),
         SoundLooks(g, set.kernel, {item}),
         NEW z, ItemPassed(g, w, item, z)
  PROVE  WorkLooks(g, set, z)
<1>1. ASSUME NEW from, GetsLooks(g, from, WorkItems(w))
      PROVE  GetsLooks(g, from \cup {item}, WorkItems(z))
  <2> SUFFICES ASSUME NEW it \in from \cup {item}, NEW p, Calls(g.prods, it, p)
               PROVE  \E b \in WorkItems(z) : b.prod = p /\ LooksFor(g, it, p) \subseteq b.la
    BY DEF GetsLooks
  <2>1. CASE it \in from
    <3>1. PICK a \in WorkItems(w) : a.prod = p /\ LooksFor(g, it, p) \subseteq a.la
      BY <1>1, <2>1 DEF GetsLooks
    <3>2. PICK b \in WorkItems(z) : b.prod = a.prod /\ a.la \subseteq b.la
      BY DEF ItemPassed
    <3> QED
      BY <3>1, <3>2
  <2> QED
    BY <2>1 DEF ItemPassed
<1>2. GetsLooks(g, ToSymbolSet(set.kernel) \ ToSymbolSet(z.kernel), WorkItems(z))
  <2>1. GetsLooks(g, (ToSymbolSet(set.kernel) \ ToSymbolSet(w.kernel)) \cup {item}, WorkItems(z))
    BY <1>1 DEF WorkLooks
  <2>2. ToSymbolSet(set.kernel) \ ToSymbolSet(z.kernel)
          \subseteq (ToSymbolSet(set.kernel) \ ToSymbolSet(w.kernel)) \cup {item}
    BY DEF ItemPassed
  <2> QED
    BY <2>1, <2>2 DEF GetsLooks
<1>3. GetsLooks(g, z.finished, WorkItems(z))
  <2>1. GetsLooks(g, w.finished \cup {item}, WorkItems(z))
    BY <1>1 DEF WorkLooks
  <2> QED
    BY <2>1 DEF GetsLooks, ItemPassed
<1>4. SoundLooks(g, set.kernel, WorkItems(z))
  <2> SUFFICES ASSUME NEW b \in WorkItems(z), NEW t \in b.la \cup {-1}
               PROVE  <<CoreSet(set.kernel), CoreOf(b), t>> \in Looks(g)
    BY DEF SoundLooks
  <2>1. CoreOf(b) = <<b.prod, 0>>
    BY DEF CoreOf, ItemPassed
  <2>2. \/ \E a \in WorkItems(w) : a.prod = b.prod /\ t \in a.la \cup {-1}
        \/ Calls(g.prods, item, b.prod) /\ t \in {-1} \cup LooksFor(g, item, b.prod)
    <3>1. CASE t \in b.la
      BY <3>1 DEF ItemPassed
    <3>2. CASE t = -1
      <4>1. HasStart(WorkItems(z), b.prod)
        BY DEF HasStart
      <4>2. HasStart(WorkItems(w), b.prod) \/ Calls(g.prods, item, b.prod)
        BY <4>1 DEF ItemPassed
      <4> QED
        BY <3>2, <4>2 DEF HasStart
    <3> QED
      BY <3>1, <3>2
  <2>3. ASSUME NEW a \in WorkItems(w), a.prod = b.prod, t \in a.la \cup {-1}
        PROVE  <<CoreSet(set.kernel), CoreOf(b), t>> \in Looks(g)
    <3>1. CoreOf(a) = CoreOf(b)
      BY <2>1, <2>3 DEF CoreOf, ItemPassed
    <3> QED
      BY <2>3, <3>1 DEF WorkLooks, SoundLooks
  <2>4. CASE Calls(g.prods, item, b.prod) /\ t \in {-1} \cup LooksFor(g, item, b.prod)
    <3>1. <<CoreSet(set.kernel), <<b.prod, 0>>, t>> \in Looks(g)
      BY <2>4, CalledLooks
    <3> QED
      BY <2>1, <3>1
  <2> QED
    BY <2>2, <2>3, <2>4
<1> QED
  BY <1>2, <1>3, <1>4 DEF WorkLooks

-----------------------------------------------------------------------------
(* The steps.                                                              *)
LEMMA MakeStartStateLooks ==
  ASSUME Given, MakeStartState, UNCHANGED grammar
  PROVE  LooksSoFar'
<1> DEFINE kernel == <<Item(1, 0, {})>>
<1>1. /\ sets' = [s \in {0} |-> NewSet(kernel)] /\ closing' = 0
      /\ work' = [finished |-> ToSymbolSet(NewSet(kernel).nonkernel), list |-> << >>,
                  kernel |-> NewSet(kernel).kernel]
  BY DEF MakeStartState, BeginClosure
<1>2. PICK set : set = NewSet(kernel)
  OBVIOUS
<1>3. set.kernel = kernel /\ ToSymbolSet(set.nonkernel) = {}
  BY <1>2 DEF NewSet, ToSymbolSet
<1>4. DOMAIN sets' = {0} /\ sets'[0] = set
  BY <1>1, <1>2
<1>5. PICK it : it = Item(1, 0, {})
  OBVIOUS
<1>6. ToSymbolSet(kernel) = {it}
  BY <1>5 DEF ToSymbolSet
<1>7. CoreOf(it) = <<1, 0>> /\ it.la = {}
  BY <1>5 DEF CoreOf, Item
<1>8. CoreSet(set.kernel) = {<<1, 0>>}
  BY <1>3, <1>6, <1>7, CoreSetIs
<1>9. FirstLook \in Looks(grammar)
  BY GivenIsSound, LooksAre
<1>10. SetSound(grammar, set)
  BY <1>3, <1>6, <1>7, <1>8, <1>9 DEF SetSound, SoundLooks, FirstLook
<1>11. OthersPass(grammar, set)
  BY <1>3 DEF OthersPass, GetsLooks
<1>12. WorkLooks(grammar, set, work')
  BY <1>1, <1>2, <1>10, <1>11, ClosureBeginsLooks
<1> QED
  BY <1>1, <1>4, <1>10, <1>12 DEF LooksSoFar, AllSound, AllPass, ClosureLooks

LEMMA PopItemSetLooks ==
  ASSUME SetsSoFar, LooksSoFar, PopItemSet, UNCHANGED grammar
  PROVE  LooksSoFar'
<1>1. /\ closing = NoState /\ current = NoState /\ mustCloseMyself' = FALSE
      /\ UNCHANGED <<sets, closing, work>>
  BY DEF PopItemSet
<1>2. \A s \in DOMAIN sets : s # current
  BY <1>1, NoStateIsNone DEF SetsSoFar
<1> QED
  BY <1>1, <1>2 DEF LooksSoFar, AllSound, AllPass, ClosureLooks

LEMMA ItemSetDoneLooks ==
  ASSUME SetsSoFar, LooksSoFar, ItemSetDone, UNCHANGED grammar
  PROVE  LooksSoFar'
<1>1. /\ closing = NoState /\ current # NoState /\ current' = NoState
      /\ UNCHANGED <<sets, mustCloseMyself>>
  BY DEF ItemSetDone, Considering
<1>2. /\ mustCloseMyself =>
           /\ closing' = current
           /\ work' = [finished |-> ToSymbolSet(sets[current].nonkernel), list |-> << >>,
                       kernel |-> sets[current].kernel]
      /\ ~ mustCloseMyself => closing' = closing /\ work' = work
  BY DEF ItemSetDone, ClosesItself, BeginClosure, NoClosure
<1>3. current \in DOMAIN sets /\ NoState \notin DOMAIN sets
  BY <1>1, NoStateIsNone DEF SetsSoFar, Lined, StateIds
<1>4. AllPass'
  BY <1>1, <1>2, <1>3 DEF LooksSoFar, AllPass
<1>5. ClosureLooks'
  <2>1. mustCloseMyself => WorkLooks(grammar, sets[current], work')
    BY <1>1, <1>2, <1>3, ClosureBeginsLooks DEF LooksSoFar, AllSound, AllPass
  <2> QED
    BY <1>1, <1>2, <2>1 DEF ClosureLooks
<1> QED
  BY <1>1, <1>4, <1>5 DEF LooksSoFar, AllSound

LEMMA CloseItemsLooks ==
  ASSUME Given, SetsSoFar, Typed, phase \in Early, LrSoFar, NullableKnown, FirstIs, LooksSoFar,
         CloseKernelItem \/ CloseItem, UNCHANGED grammar
  PROVE  LooksSoFar'
<1> DEFINE P == grammar.prods
<1>1. closing # NoState /\ UNCHANGED <<sets, closing, current, mustCloseMyself>>
  BY DEF CloseKernelItem, CloseItem
<1>2. PICK set : set = sets[closing]
  OBVIOUS
<1>3. /\ GoodWork(P, set, work) /\ WorkComplete(grammar, set, work)
      /\ WorkIn(grammar, work) /\ SetIn(grammar, set)
      /\ OfAutomaton(grammar, set.kernel) /\ SetSound(grammar, set)
      /\ WorkLooks(grammar, set, work)
  <2>1. closing \in DOMAIN sets
    BY <1>1 DEF SetsSoFar, Lined, StateIds
  <2> QED
    BY <1>1, <1>2, <2>1
    DEF SetsSoFar, UnderClosure, LrSoFar, LrStates, ClosureSo, Typed, UnderClosureIn, SetsIn,
        LooksSoFar, AllSound, ClosureLooks
<1>4. SoundGrammar(grammar)
  BY GivenIsSound
<1>5. DOMAIN P \in SUBSET Int /\ IsFiniteSet(DOMAIN P)
  BY ProductionsAre
<1>6. CoreSet(set.kernel) \subseteq Reach(Added(grammar), CoreSet(set.kernel))
      /\ ClosedState(grammar, CoreSet(set.kernel)) \in RefStates(grammar)
  BY <1>3, <1>4, AddedIs, KernelCores, ReachIs DEF SetIn, OfAutomaton
<1>7. ASSUME NEW w, NEW item, work' = SingleItemClosure(w, item), GoodWork(P, set, w),
             WorkItems(w) = WorkItems(work), w.finished \subseteq work.finished \cup {item},
             ToSymbolSet(work.kernel) \subseteq ToSymbolSet(w.kernel) \cup {item},
             ItemIn(grammar, item), SoundLooks(grammar, set.kernel, {item}),
             CoreOf(item) \in Reach(Added(grammar), CoreSet(set.kernel))
      PROVE  WorkLooks(grammar, set, work')
  <2>1. PICK z : z = work'
    OBVIOUS
  <2>2. /\ z.kernel = w.kernel /\ z.finished \subseteq w.finished
        /\ \A p : HasStart(WorkItems(z), p) <=> HasStart(WorkItems(w), p) \/ Calls(P, item, p)
    BY <1>5, <1>7, <2>1, SingleItemCalls
  <2>3. /\ \A a \in WorkItems(w) : \E b \in WorkItems(z) : b.prod = a.prod /\ a.la \subseteq b.la
        /\ \A p : Calls(P, item, p) =>
             \E b \in WorkItems(z) : b.prod = p /\ NewItemLookahead(item, p) \subseteq b.la
        /\ \A b \in WorkItems(z) : \A t \in b.la :
             \/ \E a \in WorkItems(w) : a.prod = b.prod /\ t \in a.la
             \/ Calls(P, item, b.prod) /\ t \in NewItemLookahead(item, b.prod)
    BY <1>5, <1>7, <2>1, SingleItemLooks
  <2>4. \A p : Calls(P, item, p) => NewItemLookahead(item, p) = LooksFor(grammar, item, p)
    BY <1>4, <1>7, NewLooks
  <2>5. \A b \in WorkItems(work) \cup WorkItems(z) : b.dot = 0
    <3>1. GoodWork(P, set, z)
      BY <1>5, <1>7, <2>1, SingleItemKeepsWork
    <3> QED
      BY <1>3, <3>1 DEF GoodWork, WorkItems
  <2>6. PICK v : v = work
    OBVIOUS
  <2>7. WorkItems(v) = WorkItems(w)
    BY <1>7, <2>6
  <2>8. /\ \A p : HasStart(WorkItems(z), p) <=> HasStart(WorkItems(v), p) \/ Calls(P, item, p)
        /\ \A a \in WorkItems(v) : \E b \in WorkItems(z) : b.prod = a.prod /\ a.la \subseteq b.la
        /\ \A p : Calls(P, item, p) =>
             \E b \in WorkItems(z) : b.prod = p /\ LooksFor(grammar, item, p) \subseteq b.la
        /\ \A b \in WorkItems(z) : \A t \in b.la :
             \/ \E a \in WorkItems(v) : a.prod = b.prod /\ t \in a.la
             \/ Calls(P, item, b.prod) /\ t \in LooksFor(grammar, item, b.prod)
    BY <2>2, <2>3, <2>4, <2>7
  <2>9. /\ z.finished \subseteq v.finished \cup {item}
        /\ ToSymbolSet(v.kernel) \subseteq ToSymbolSet(z.kernel) \cup {item}
    BY <1>7, <2>2, <2>6
  <2>10. WorkLooks(grammar, set, v) /\ \A b \in WorkItems(v) \cup WorkItems(z) : b.dot = 0
    BY <1>3, <2>5, <2>6
  <2>11. ItemPassed(grammar, v, item, z)
    BY <2>8, <2>9, <2>10 DEF ItemPassed
  <2>12. WorkLooks(grammar, set, z)
    BY <1>4, <1>6, <1>7, <2>10, <2>11, WorkLooksGoOn
  <2> QED
    BY <2>1, <2>12
<1>8. WorkLooks(grammar, set, work')
  <2>1. CASE CloseKernelItem
    <3>1. PICK w, item : w = [work EXCEPT !.kernel = Tail(@)] /\ item = Head(work.kernel)
      OBVIOUS
    <3>2. work' = SingleItemClosure(w, item) /\ work.kernel # << >>
      BY <2>1, <3>1 DEF CloseKernelItem
    <3>3. GoodWork(P, set, w)
      BY <1>3, <3>1, <3>2, TakenFromWork
    <3>4. /\ w.finished = work.finished /\ w.kernel = Tail(work.kernel)
          /\ WorkItems(w) = WorkItems(work)
      BY <1>3, <3>1 DEF GoodWork, WorkItems
    <3>5. /\ item \in ToSymbolSet(work.kernel)
          /\ ToSymbolSet(work.kernel) \subseteq ToSymbolSet(Tail(work.kernel)) \cup {item}
      BY <1>3, <3>1, <3>2, HeadOfList DEF GoodWork
    <3>6. item \in ToSymbolSet(set.kernel) /\ ItemIn(grammar, item)
      <4>1. item \in ToSymbolSet(set.kernel)
        BY <1>3, <3>5 DEF WorkComplete
      <4> QED
        BY <1>3, <4>1, ItemsOfSet
    <3>7. CoreOf(item) \in Reach(Added(grammar), CoreSet(set.kernel))
      BY <1>6, <3>6, CoreSetIs
    <3>8. SoundLooks(grammar, set.kernel, {item})
      BY <1>3, <3>6 DEF SetSound, SoundLooks
    <3> QED
      BY <1>7, <3>2, <3>3, <3>4, <3>5, <3>6, <3>7, <3>8
  <2>2. CASE CloseItem
    <3>1. PICK w, item : /\ w = [work EXCEPT !.finished = @ \cup {Last(work.list)},
                                             !.list = Front(@)]
                         /\ item = Last(work.list)
      OBVIOUS
    <3>2. work' = SingleItemClosure(w, item) /\ work.list # << >>
      BY <2>2, <3>1 DEF CloseItem
    <3>3. GoodWork(P, set, w)
      BY <1>3, <3>1, <3>2, TakenFromWork
    <3>4. /\ item \in ToSymbolSet(work.list)
          /\ ToSymbolSet(work.list) = ToSymbolSet(Front(work.list)) \cup {item}
      BY <1>3, <3>1, <3>2, FrontOfList DEF GoodWork, ToSymbolSet, Last
    <3>5. /\ w.finished = work.finished \cup {item} /\ w.kernel = work.kernel
          /\ WorkItems(w) = WorkItems(work)
      BY <1>3, <3>1, <3>4 DEF GoodWork, WorkItems
    <3>6. ItemIn(grammar, item) /\ item.dot = 0 /\ item \in WorkItems(work)
      BY <1>3, <3>4 DEF WorkIn, NonkernelIn, GoodWork, WorkItems
    <3>7. CoreOf(item) \in Reach(Added(grammar), CoreSet(set.kernel))
      BY <1>3, <3>6 DEF WorkComplete, Needed, CoreOf
    <3>8. SoundLooks(grammar, set.kernel, {item})
      BY <1>3, <3>6 DEF WorkLooks, SoundLooks
    <3> QED
      BY <1>7, <3>2, <3>3, <3>5, <3>6, <3>7, <3>8
  <2> QED
    BY <2>1, <2>2
<1>9. ClosureLooks'
  BY <1>1, <1>2, <1>8 DEF ClosureLooks
<1> QED
  BY <1>1, <1>9 DEF LooksSoFar, AllSound, AllPass

LEMMA ClosureDoneLooks ==
  ASSUME Given, SetsSoFar, LooksSoFar, ClosureDone, UNCHANGED <<grammar, hashOrder>>
  PROVE  LooksSoFar'
<1> DEFINE P == grammar.prods
<1>1. /\ closing # NoState /\ work.list = << >> /\ work.kernel = << >>
      /\ sets' = [sets EXCEPT ![closing].nonkernel = InHashOrder(work.finished)]
      /\ closing' = NoState
      /\ UNCHANGED <<current, mustCloseMyself>>
  BY DEF ClosureDone
<1>2. closing \in DOMAIN sets
  BY <1>1 DEF SetsSoFar, Lined, StateIds
<1>3. GoodWork(P, sets[closing], work) /\ WorkLooks(grammar, sets[closing], work)
  BY <1>1 DEF SetsSoFar, UnderClosure, LooksSoFar, ClosureLooks
<1>4. PICK found : found = InHashOrder(work.finished)
  OBVIOUS
<1>5. IsList(found) /\ ToSymbolSet(found) = work.finished
  BY <1>3, <1>4, ProductionsAre, HashOrderOfFinished
<1>6. PICK old, new : old = sets[closing] /\ new = [sets[closing] EXCEPT !.nonkernel = found]
  OBVIOUS
<1>7. WellMade(P, old)
  BY <1>2, <1>6 DEF SetsSoFar, Automaton
<1>8. new.kernel = old.kernel /\ new.nonkernel = found
  BY <1>6, <1>7 DEF WellMade
<1>9. /\ DOMAIN sets' = DOMAIN sets /\ sets'[closing] = new
      /\ \A s \in DOMAIN sets : s # closing => sets'[s] = sets[s]
  BY <1>1, <1>2, <1>4, <1>6, <1>8
<1>10. ToSymbolSet(work.list) = {} /\ ToSymbolSet(work.kernel) = {}
  BY <1>1 DEF ToSymbolSet
<1>11. WorkItems(work) = ToSymbolSet(new.nonkernel)
  BY <1>5, <1>8, <1>10 DEF WorkItems
<1>12. KernelPasses(grammar, new) /\ OthersPass(grammar, new)
  BY <1>3, <1>5, <1>6, <1>8, <1>10, <1>11 DEF WorkLooks, KernelPasses, OthersPass
<1>13. SetSound(grammar, new)
  <2>1. SetSound(grammar, old)
    BY <1>2, <1>6 DEF LooksSoFar, AllSound
  <2> QED
    BY <1>3, <1>6, <1>8, <1>11, <2>1 DEF SetSound, SoundLooks, WorkLooks
<1>14. AllSound' /\ AllPass'
  BY <1>1, <1>9, <1>12, <1>13 DEF LooksSoFar, AllSound, AllPass
<1>15. ClosureLooks'
  BY <1>1 DEF ClosureLooks
<1> QED
  BY <1>14, <1>15 DEF LooksSoFar

(* What is passed on when the dot is moved, and when it is added to what   *)
(* is there.                                                               *)
LEMMA MovedSound ==
  ASSUME NEW g, SoundGrammar(g), NEW set, SetIn(g, set), SetComplete(g.prods, set),
         Needed(g, set.kernel, ToSymbolSet(set.nonkernel)), OfAutomaton(g, set.kernel),
         SetSound(g, set), NEW x \in CalledFor(g.prods, set),
         NEW kernel, kernel = Moved(g.prods, set, x)
  PROVE  SoundLooks(g, kernel, ToSymbolSet(kernel))
<1>1. PICK s \in RefStates(g) : s = ClosedState(g, CoreSet(set.kernel))
  BY DEF OfAutomaton
<1>2. s[1] = CoreSet(set.kernel) /\ s[2] = CoreSet(All(set))
  BY <1>1, CompleteIsClosed DEF ClosedState
<1>3. CoreSet(kernel) = MovedDot(g, s[2], x) /\ ToSymbolSet(kernel) = WithDotMoved(g.prods, set, x)
  BY <1>2, MovedCores, MovedIs
<1> SUFFICES ASSUME NEW it \in WithDotMoved(g.prods, set, x), NEW t \in it.la \cup {-1}
             PROVE  <<CoreSet(kernel), CoreOf(it), t>> \in Looks(g)
  BY <1>3 DEF SoundLooks
<1>4. PICK a \in ToSymbolSet(All(set)) : /\ ~ EndOf(g.prods, a) /\ AfterDot(g.prods, a) = x
                                         /\ it = Item(a.prod, a.dot + 1, a.la)
  BY DEF WithDotMoved
<1>5. ItemIn(g, a) /\ a \in ToSymbolSet(set.kernel) \cup ToSymbolSet(set.nonkernel)
  BY <1>4, ItemsOfSet
<1>6. PICK i : i = CoreOf(a)
  OBVIOUS
<1>7. i \in s[2] \cap BeforeSymbol(g) /\ NextSymbol(g, i) = x
  BY <1>2, <1>4, <1>5, <1>6, CoreInDotted, CoreSetIs
<1>8. t \in -1..(g.terms - 1) /\ <<s[1], i, t>> \in Looks(g)
  <2>1. t \in a.la \cup {-1}
    BY <1>4 DEF Item
  <2> QED
    BY <1>2, <1>5, <1>6, <2>1 DEF SetSound, SoundLooks, ItemIn, SoundGrammar
<1>9. <<MovedDot(g, s[2], x), <<i[1], i[2] + 1>>, t>> \in Looks(g)
  BY <1>7, <1>8, LooksAre DEF LooksClosed
<1>10. CoreOf(it) = <<i[1], i[2] + 1>>
  BY <1>4, <1>6 DEF CoreOf, Item
<1> QED
  BY <1>3, <1>9, <1>10

LEMMA MergedSound ==
  ASSUME NEW g, NEW old, IsList(old), NEW more, Core(old) = Core(more),
         SoundLooks(g, old, ToSymbolSet(old)), SoundLooks(g, more, ToSymbolSet(more)),
         NEW merged, merged = MergeLookaheads(old, more)
  PROVE  SoundLooks(g, merged, ToSymbolSet(merged)) /\ CoreSet(merged) = CoreSet(old)
<1>1. CoreSet(merged) = CoreSet(old) /\ CoreSet(more) = CoreSet(old)
  BY Merged, SameCoreSame DEF Covers
<1>2. DOMAIN more = DOMAIN old
      /\ \A i \in DOMAIN old : old[i].prod = more[i].prod /\ old[i].dot = more[i].dot
  BY SameCore
<1>3. DOMAIN merged = DOMAIN old /\ \A i \in DOMAIN old :
        /\ merged[i].prod = old[i].prod /\ merged[i].dot = old[i].dot
        /\ merged[i].la = old[i].la \cup more[i].la
  BY DEF MergeLookaheads, Item
<1> SUFFICES ASSUME NEW i \in DOMAIN old, NEW t \in merged[i].la \cup {-1}
             PROVE  <<CoreSet(old), CoreOf(merged[i]), t>> \in Looks(g)
  BY <1>1, <1>3 DEF SoundLooks, ToSymbolSet
<1>4. CoreOf(merged[i]) = CoreOf(old[i]) /\ CoreOf(merged[i]) = CoreOf(more[i])
  BY <1>2, <1>3 DEF CoreOf
<1>5. old[i] \in ToSymbolSet(old) /\ more[i] \in ToSymbolSet(more)
  BY <1>2 DEF ToSymbolSet
<1>6. t \in old[i].la \cup {-1} \/ t \in more[i].la \cup {-1}
  BY <1>3
<1> QED
  BY <1>1, <1>4, <1>5, <1>6 DEF SoundLooks

LEMMA SameLooks ==
  ASSUME NEW g, NEW old, NEW new, new.kernel = old.kernel, new.nonkernel = old.nonkernel
  PROVE  /\ SetSound(g, old) => SetSound(g, new)
         /\ OthersPass(g, old) => OthersPass(g, new)
         /\ KernelPasses(g, old) => KernelPasses(g, new)
BY DEF SetSound, OthersPass, KernelPasses

LEMMA MakeItemSetLooks ==
  ASSUME Given, SetsSoFar, Typed, LrSoFar, LooksSoFar, MakeItemSet,
         UNCHANGED <<grammar, hashOrder>>
  PROVE  LooksSoFar'
<1> DEFINE P == grammar.prods
<1>1. closing = NoState /\ current' = current /\ mustCloseMyself' = mustCloseMyself
  BY MakeItemSetLinks DEF MakeItemSet
<1>2. PICK x, kernel, new :
        /\ x \in CalledFor(P, sets[current]) /\ current \in DOMAIN sets
        /\ kernel = Moved(P, sets[current], x)
        /\ new \notin DOMAIN sets /\ DOMAIN sets' = DOMAIN sets \cup {new}
        /\ sets'[new] = NewSet(kernel)
        /\ \A t \in DOMAIN sets : sets'[t].kernel = sets[t].kernel
        /\ Linked(P, sets, sets', current, x, new)
        /\ closing' = new
        /\ work' = [finished |-> ToSymbolSet(NewSet(kernel).nonkernel), list |-> << >>,
                    kernel |-> NewSet(kernel).kernel]
  BY MakeItemSetLinks
<1>3. SoundGrammar(grammar) /\ SetIn(grammar, sets[current])
  BY <1>2, GivenIsSound DEF Typed, SetsIn
<1>4. NoState \notin DOMAIN sets
  BY NoStateIsNone DEF SetsSoFar
<1>5. SoundLooks(grammar, kernel, ToSymbolSet(kernel))
  <2>1. PICK set : set = sets[current]
    OBVIOUS
  <2>2. /\ SetIn(grammar, set) /\ SetComplete(P, set) /\ OfAutomaton(grammar, set.kernel)
        /\ Needed(grammar, set.kernel, ToSymbolSet(set.nonkernel)) /\ SetSound(grammar, set)
    BY <1>1, <1>2, <1>3, <1>4, <2>1
    DEF LrSoFar, LrStates, ClosedAll, StateIds, LooksSoFar, AllSound
  <2>3. x \in CalledFor(P, set) /\ kernel = Moved(P, set, x)
    BY <1>2, <2>1
  <2> QED
    BY <1>3, <2>2, <2>3, MovedSound
<1>6. PICK fresh : fresh = NewSet(kernel)
  OBVIOUS
<1>7. fresh.kernel = kernel /\ ToSymbolSet(fresh.nonkernel) = {}
  BY <1>6 DEF NewSet, ToSymbolSet
<1>8. SetSound(grammar, fresh) /\ OthersPass(grammar, fresh)
  BY <1>5, <1>7 DEF SetSound, OthersPass, GetsLooks
<1>9. ASSUME NEW t \in DOMAIN sets
      PROVE  /\ SetSound(grammar, sets'[t]) /\ OthersPass(grammar, sets'[t])
             /\ t # current \/ ~ mustCloseMyself => KernelPasses(grammar, sets'[t])
  <2>1. sets'[t].kernel = sets[t].kernel /\ sets'[t].nonkernel = sets[t].nonkernel
    BY <1>2 DEF Linked
  <2>2. /\ SetSound(grammar, sets[t]) /\ OthersPass(grammar, sets[t])
        /\ t # current \/ ~ mustCloseMyself => KernelPasses(grammar, sets[t])
    BY <1>1, <1>4 DEF LooksSoFar, AllSound, AllPass
  <2> QED
    BY <2>1, <2>2, SameLooks
<1>10. AllSound'
  <2>1. \A t \in DOMAIN sets' : SetSound(grammar, sets'[t])
    BY <1>2, <1>6, <1>8, <1>9
  <2> QED
    BY <2>1 DEF AllSound
<1>11. AllPass'
  BY <1>1, <1>2, <1>9 DEF AllPass
<1>12. ClosureLooks'
  <2>1. WorkLooks(grammar, fresh, work')
    BY <1>2, <1>6, <1>8, ClosureBeginsLooks
  <2> QED
    BY <1>2, <1>6, <2>1 DEF ClosureLooks
<1> QED
  BY <1>10, <1>11, <1>12 DEF LooksSoFar

LEMMA FindItemSetLooks ==
  ASSUME Given, SetsSoFar, Typed, LrSoFar, LooksSoFar, FindItemSet,
         UNCHANGED <<grammar, hashOrder>>
  PROVE  LooksSoFar'
<1> DEFINE P == grammar.prods
<1>1. closing = NoState /\ current' = current
  BY FindItemSetLinks DEF FindItemSet
<1>2. PICK x, kernel, s :
        /\ x \in CalledFor(P, sets[current]) /\ current \in DOMAIN sets
        /\ kernel = Moved(P, sets[current], x)
        /\ s \in DOMAIN sets /\ DOMAIN sets' = DOMAIN sets
        /\ Core(sets[s].kernel) = Core(kernel)
        /\ sets'[s].kernel = MergeLookaheads(sets[s].kernel, kernel)
        /\ \A t \in DOMAIN sets : t # s => sets'[t].kernel = sets[t].kernel
        /\ Linked(P, sets, sets', current, x, s)
        /\ \/ closing' = NoState
           \/ closing' = s /\
              work' = [finished |-> ToSymbolSet(sets'[s].nonkernel), list |-> << >>,
                       kernel |-> sets'[s].kernel]
        /\ mustCloseMyself => mustCloseMyself'
        /\ \/ sets'[s].kernel = sets[s].kernel \/ closing' = s
           \/ s = current /\ mustCloseMyself'
  BY FindItemSetLinks
<1>3. SoundGrammar(grammar) /\ SetIn(grammar, sets[current])
  BY <1>2, GivenIsSound DEF Typed, SetsIn
<1>4. NoState \notin DOMAIN sets
  BY NoStateIsNone DEF SetsSoFar
<1>5. SoundLooks(grammar, kernel, ToSymbolSet(kernel))
  <2>1. PICK set : set = sets[current]
    OBVIOUS
  <2>2. /\ SetIn(grammar, set) /\ SetComplete(P, set) /\ OfAutomaton(grammar, set.kernel)
        /\ Needed(grammar, set.kernel, ToSymbolSet(set.nonkernel)) /\ SetSound(grammar, set)
    BY <1>1, <1>2, <1>3, <1>4, <2>1
    DEF LrSoFar, LrStates, ClosedAll, StateIds, LooksSoFar, AllSound
  <2>3. x \in CalledFor(P, set) /\ kernel = Moved(P, set, x)
    BY <1>2, <2>1
  <2> QED
    BY <1>3, <2>2, <2>3, MovedSound
<1>6. PICK old, new : old = sets[s] /\ new = sets'[s]
  OBVIOUS
<1>7. /\ SetSound(grammar, old) /\ IsList(old.kernel) /\ Core(old.kernel) = Core(kernel)
      /\ new.kernel = MergeLookaheads(old.kernel, kernel) /\ new.nonkernel = old.nonkernel
  BY <1>2, <1>6 DEF LooksSoFar, AllSound, SetsSoFar, Automaton, WellMade, Linked
<1>8. SetSound(grammar, new)
  <2>1. SoundLooks(grammar, old.kernel, ToSymbolSet(old.kernel))
    BY <1>7 DEF SetSound, SoundLooks
  <2>2. /\ SoundLooks(grammar, new.kernel, ToSymbolSet(new.kernel))
        /\ CoreSet(new.kernel) = CoreSet(old.kernel)
    BY <1>5, <1>7, <2>1, MergedSound
  <2> QED
    BY <1>7, <2>2 DEF SetSound, SoundLooks
<1>9. ASSUME NEW t \in DOMAIN sets
      PROVE  /\ SetSound(grammar, sets'[t]) /\ OthersPass(grammar, sets'[t])
             /\ sets'[t].kernel = sets[t].kernel /\ (t # current \/ ~ mustCloseMyself) =>
                  KernelPasses(grammar, sets'[t])
  <2>1. sets'[t].nonkernel = sets[t].nonkernel
    BY <1>2 DEF Linked
  <2>2. /\ SetSound(grammar, sets[t]) /\ OthersPass(grammar, sets[t])
        /\ t # current \/ ~ mustCloseMyself => KernelPasses(grammar, sets[t])
    BY <1>1, <1>4 DEF LooksSoFar, AllSound, AllPass
  <2>3. OthersPass(grammar, sets'[t])
    BY <2>1, <2>2 DEF OthersPass
  <2>4. SetSound(grammar, sets'[t])
    <3>1. CASE t = s
      BY <1>6, <1>8, <3>1
    <3>2. CASE t # s
      BY <1>2, <2>1, <2>2, <3>2, SameLooks
    <3> QED
      BY <3>1, <3>2
  <2> QED
    BY <2>1, <2>2, <2>3, <2>4, SameLooks
<1>10. AllSound'
  <2>1. \A t \in DOMAIN sets' : SetSound(grammar, sets'[t])
    BY <1>2, <1>9
  <2> QED
    BY <2>1 DEF AllSound
<1>11. AllPass'
  <2>1. ASSUME NEW t \in DOMAIN sets, t # closing', t # current \/ ~ mustCloseMyself'
        PROVE  KernelPasses(grammar, sets'[t])
    <3>1. sets'[t].kernel = sets[t].kernel
      BY <1>2, <2>1
    <3> QED
      BY <1>2, <1>9, <2>1, <3>1
  <2> QED
    BY <1>1, <1>2, <1>9, <2>1 DEF AllPass
<1>12. ClosureLooks'
  <2>1. closing' = s /\ work' = [finished |-> ToSymbolSet(new.nonkernel), list |-> << >>,
                                 kernel |-> new.kernel]
          => WorkLooks(grammar, new, work')
    BY <1>2, <1>6, <1>8, <1>9, ClosureBeginsLooks
  <2> QED
    BY <1>2, <1>6, <2>1 DEF ClosureLooks
<1> QED
  BY <1>10, <1>11, <1>12 DEF LooksSoFar

-----------------------------------------------------------------------------
(* The lookahead of all the states, one terminal at a time.                *)
Looked(all) ==
  UNION {UNION {{<<CoreSet(all[s].kernel), CoreOf(it), t>> : t \in it.la \cup {-1}} :
                  it \in ToSymbolSet(All(all[s]))} : s \in DOMAIN all}

LEMMA LookedHas ==
  ASSUME NEW all, NEW s \in DOMAIN all, NEW it \in ToSymbolSet(All(all[s])),
         NEW t \in it.la \cup {-1}
  PROVE  <<CoreSet(all[s].kernel), CoreOf(it), t>> \in Looked(all)
BY DEF Looked

LEMMA LookedIs ==
  ASSUME NEW all, NEW n \in Looked(all)
  PROVE  \E s \in DOMAIN all : \E it \in ToSymbolSet(All(all[s])) : \E t \in it.la \cup {-1} :
           n = <<CoreSet(all[s].kernel), CoreOf(it), t>>
BY DEF Looked

(* When no state is left on the stack, all lookahead is there.             *)
LEMMA SetsDoneLooks ==
  ASSUME Given, SetsSoFar, Typed, LrSoFar, LooksSoFar, SetsDone
  PROVE  Looked(sets) = Looks(grammar)
<1> DEFINE P == grammar.prods
<1>1. closing = NoState /\ current = NoState /\ sets # << >> /\ pending = << >>
  BY DEF SetsDone
<1>2. SoundGrammar(grammar) /\ \A s \in DOMAIN sets : SetIn(grammar, sets[s])
  BY GivenIsSound DEF Typed, SetsIn
<1>3. \A s \in DOMAIN sets : s \in done /\ s # NoState
  <2>1. ToSymbolSet(pending) = {}
    BY <1>1 DEF ToSymbolSet
  <2> QED
    BY <2>1, NoStateIsNone DEF LrSoFar, OnListOrDone, StateIds, SetsSoFar
<1>4. ASSUME NEW s \in DOMAIN sets
      PROVE  /\ HandsOn(P, sets, s) /\ SetSound(grammar, sets[s])
             /\ OthersPass(grammar, sets[s]) /\ KernelPasses(grammar, sets[s])
             /\ \A x \in DOMAIN sets[s].trans : sets[s].trans[x] \in DOMAIN sets
             /\ ToSymbolSet(All(sets[s])) =
                  ToSymbolSet(sets[s].kernel) \cup ToSymbolSet(sets[s].nonkernel)
  BY <1>1, <1>2, <1>3, ItemsOfSet
  DEF SetsSoFar, DoneHandsOn, Automaton, LooksSoFar, AllSound, AllPass
<1>5. AutomatonIs(grammar, sets)
  BY SetsDoneLr
<1>6. Looked(sets) \subseteq Looks(grammar)
  <2> SUFFICES ASSUME NEW n \in Looked(sets) PROVE n \in Looks(grammar)
    OBVIOUS
  <2>1. PICK s \in DOMAIN sets : \E it \in ToSymbolSet(All(sets[s])) : \E t \in it.la \cup {-1} :
           n = <<CoreSet(sets[s].kernel), CoreOf(it), t>>
    BY LookedIs
  <2> QED
    BY <1>4, <2>1 DEF SetSound, SoundLooks
<1>7. FirstLook \in Looked(sets)
  <2>1. 0 \in DOMAIN sets /\ CoreSet(sets[0].kernel) = {<<1, 0>>}
    BY <1>1 DEF LrSoFar, LrStates
  <2>2. PICK it \in ToSymbolSet(sets[0].kernel) : CoreOf(it) = <<1, 0>>
    BY <2>1, CoreSetIs
  <2>3. it \in ToSymbolSet(All(sets[0]))
    BY <1>4, <2>1
  <2> QED
    BY <2>1, <2>2, <2>3, LookedHas DEF FirstLook
<1>8. LooksClosed(grammar, Looked(sets))
  <2> SUFFICES ASSUME NEW st \in RefStates(grammar), NEW i \in st[2] \cap BeforeSymbol(grammar),
                      NEW t \in -1..(grammar.terms - 1), <<st[1], i, t>> \in Looked(sets)
               PROVE  /\ <<MovedDot(grammar, st[2], NextSymbol(grammar, i)),
                           <<i[1], i[2] + 1>>, t>> \in Looked(sets)
                      /\ \A q \in CalledAt(grammar, i) :
                           \A u \in {-1} \cup PassedOn(grammar, i, q, {t}) :
                             <<st[1], <<q, 0>>, u>> \in Looked(sets)
    BY DEF LooksClosed
  <2>1. PICK s \in DOMAIN sets : st = FoundState(sets, s)
    BY <1>5 DEF AutomatonIs
  <2>2. st[1] = CoreSet(sets[s].kernel) /\ st[2] = CoreSet(All(sets[s]))
    BY <2>1 DEF FoundState
  <2>3. PICK r \in DOMAIN sets : \E it \in ToSymbolSet(All(sets[r])) : \E v \in it.la \cup {-1} :
           <<st[1], i, t>> = <<CoreSet(sets[r].kernel), CoreOf(it), v>>
    BY LookedIs
  <2>4. CoreSet(sets[r].kernel) = CoreSet(sets[s].kernel)
    BY <2>2, <2>3
  <2>5. r = s
    BY <1>5, <2>4 DEF AutomatonIs
  <2>6. PICK it \in ToSymbolSet(All(sets[s])) : i = CoreOf(it) /\ t \in it.la \cup {-1}
    BY <2>3, <2>5
  <2>7. /\ ItemIn(grammar, it) /\ ~ EndOf(P, it)
        /\ NextSymbol(grammar, i) = AfterDot(P, it)
    BY <1>2, <2>6, ItemsOfSet, CoreInDotted
  <2>8. PICK x : x = NextSymbol(grammar, i)
    OBVIOUS
  <2>9. x \in CalledFor(P, sets[s])
    BY <2>6, <2>7, <2>8 DEF CalledFor
  <2>10. <<MovedDot(grammar, st[2], x), <<i[1], i[2] + 1>>, t>> \in Looked(sets)
    <3>1. x \in DOMAIN sets[s].trans
          /\ Covers(Moved(P, sets[s], x), sets[sets[s].trans[x]].kernel)
      BY <1>4, <2>9 DEF HandsOn, Handed
    <3>2. PICK to, kernel : to = sets[s].trans[x] /\ kernel = Moved(P, sets[s], x)
      OBVIOUS
    <3>3. to \in DOMAIN sets /\ Core(kernel) = Core(sets[to].kernel)
          /\ \A k \in DOMAIN kernel : kernel[k].la \subseteq sets[to].kernel[k].la
      BY <1>4, <3>1, <3>2 DEF Covers
    <3>4. CoreSet(sets[to].kernel) = MovedDot(grammar, st[2], x)
      BY <1>2, <2>2, <3>2, <3>3, MovedCores, SameCoreSame
    <3>5. ToSymbolSet(kernel) = WithDotMoved(P, sets[s], x)
      BY <1>2, <3>2, MovedIs
    <3>6. Item(it.prod, it.dot + 1, it.la) \in ToSymbolSet(kernel)
      BY <2>6, <2>7, <2>8, <3>5 DEF WithDotMoved
    <3>7. PICK k \in DOMAIN kernel : kernel[k] = Item(it.prod, it.dot + 1, it.la)
      BY <3>6 DEF ToSymbolSet
    <3>8. PICK b : b = sets[to].kernel[k]
      OBVIOUS
    <3>9. k \in DOMAIN sets[to].kernel /\ b.prod = it.prod /\ b.dot = it.dot + 1
          /\ it.la \subseteq b.la
      BY <3>3, <3>7, <3>8, SameCore DEF Item
    <3>10. b \in ToSymbolSet(All(sets[to]))
      BY <1>4, <3>3, <3>8, <3>9 DEF ToSymbolSet
    <3>11. CoreOf(b) = <<i[1], i[2] + 1>> /\ t \in b.la \cup {-1}
      BY <2>6, <3>9 DEF CoreOf
    <3> QED
      BY <3>3, <3>4, <3>10, <3>11, LookedHas
  <2>11. ASSUME NEW q \in CalledAt(grammar, i), NEW u \in {-1} \cup PassedOn(grammar, i, q, {t})
         PROVE  <<st[1], <<q, 0>>, u>> \in Looked(sets)
    <3>1. Calls(P, it, q)
      BY <1>2, <2>6, <2>7, CalledAtIs
    <3>2. PICK b \in ToSymbolSet(sets[s].nonkernel) :
            b.prod = q /\ LooksFor(grammar, it, q) \subseteq b.la
      BY <1>4, <2>6, <3>1 DEF KernelPasses, OthersPass, GetsLooks
    <3>3. u \in b.la \cup {-1}
      <4>1. CASE u \in PassedOn(grammar, i, q, {t}) /\ u # -1
        <5>1. u \in LooksFor(grammar, it, q)
          BY <2>6, <4>1 DEF LooksFor, PassedOn
        <5> QED
          BY <3>2, <5>1
      <4> QED
        BY <4>1
    <3>4. CoreOf(b) = <<q, 0>>
      BY <1>2, <3>2 DEF CoreOf, SetIn, WellMade
    <3>5. b \in ToSymbolSet(All(sets[s]))
      BY <1>4, <3>2
    <3> QED
      BY <2>2, <3>3, <3>4, <3>5, LookedHas
  <2> QED
    BY <2>8, <2>10, <2>11
<1>9. Looks(grammar) \subseteq Looked(sets)
  BY <1>2, <1>7, <1>8, LooksAre
<1> QED
  BY <1>6, <1>9

-----------------------------------------------------------------------------
(* The lookahead does not depend on the numbers.                           *)
LEMMA RenumberedLooks ==
  ASSUME NEW g, NEW all, SetsIn(g, all),
         NEW new, NEW old, NEW to, IsRenumbered(all, new, old, to)
  PROVE  Looked(new) = Looked(all)
<1>1. DOMAIN new = DOMAIN all
  BY DEF IsRenumbered
<1>2. ASSUME NEW m \in DOMAIN all
      PROVE  /\ old[m] \in DOMAIN all
             /\ new[m].kernel = all[old[m]].kernel /\ new[m].nonkernel = all[old[m]].nonkernel
  <2>1. old[m] \in DOMAIN all
    BY DEF IsRenumbered
  <2>2. PICK k, a, t : all[old[m]] = [kernel |-> k, nonkernel |-> a, trans |-> t]
    <3>1. PICK o : o = all[old[m]]
      OBVIOUS
    <3>2. WellMade(g.prods, o)
      BY <2>1, <3>1 DEF SetsIn, SetIn
    <3>3. o = [kernel |-> o.kernel, nonkernel |-> o.nonkernel, trans |-> o.trans]
      BY <3>2 DEF WellMade
    <3> QED
      BY <3>1, <3>3
  <2>3. new[m] = [all[old[m]] EXCEPT !.trans = [x \in DOMAIN @ |-> to[@[x]]]]
    BY DEF IsRenumbered
  <2>4. new[m] = [kernel |-> k, nonkernel |-> a, trans |-> [x \in DOMAIN t |-> to[t[x]]]]
    BY <2>2, <2>3
  <2> QED
    BY <2>1, <2>2, <2>4
<1>3. ASSUME NEW m \in DOMAIN all
      PROVE  new[m].kernel = all[old[m]].kernel /\ All(new[m]) = All(all[old[m]])
  BY <1>2 DEF All
<1>4. ASSUME NEW s \in DOMAIN all PROVE to[s] \in DOMAIN all /\ old[to[s]] = s
  BY DEF IsRenumbered
<1>5. ASSUME NEW n \in Looked(new) PROVE n \in Looked(all)
  <2>1. PICK m \in DOMAIN new : \E it \in ToSymbolSet(All(new[m])) : \E t \in it.la \cup {-1} :
          n = <<CoreSet(new[m].kernel), CoreOf(it), t>>
    BY LookedIs
  <2>2. PICK it \in ToSymbolSet(All(new[m])) : \E t \in it.la \cup {-1} :
          n = <<CoreSet(new[m].kernel), CoreOf(it), t>>
    BY <2>1
  <2>3. PICK t \in it.la \cup {-1} : n = <<CoreSet(new[m].kernel), CoreOf(it), t>>
    BY <2>2
  <2>4. PICK s \in DOMAIN all : s = old[m]
    BY <1>1, <1>2
  <2>5. it \in ToSymbolSet(All(all[s])) /\ n = <<CoreSet(all[s].kernel), CoreOf(it), t>>
    BY <1>1, <1>3, <2>3, <2>4
  <2> QED
    BY <2>5, LookedHas
<1>6. ASSUME NEW n \in Looked(all) PROVE n \in Looked(new)
  <2>1. PICK s \in DOMAIN all : \E it \in ToSymbolSet(All(all[s])) : \E t \in it.la \cup {-1} :
          n = <<CoreSet(all[s].kernel), CoreOf(it), t>>
    BY <1>6, LookedIs
  <2>2. PICK it \in ToSymbolSet(All(all[s])) : \E t \in it.la \cup {-1} :
          n = <<CoreSet(all[s].kernel), CoreOf(it), t>>
    BY <2>1
  <2>3. PICK t \in it.la \cup {-1} : n = <<CoreSet(all[s].kernel), CoreOf(it), t>>
    BY <2>2
  <2>4. PICK m \in DOMAIN all : m = to[s] /\ old[m] = s
    BY <1>4
  <2>5. it \in ToSymbolSet(All(new[m])) /\ n = <<CoreSet(new[m].kernel), CoreOf(it), t>>
    BY <1>3, <2>3, <2>4
  <2>6. m \in DOMAIN new
    BY <1>1
  <2> QED
    BY <2>5, <2>6, LookedHas
<1> QED
  BY <1>5, <1>6

-----------------------------------------------------------------------------
(* While the states are being found, there is no lookahead but what is     *)
(* needed, and what has been passed on has arrived; from the end of that   *)
(* on it is all there.                                                     *)
LooksInv ==
  /\ phase \in {"derive", "first", "follow"} => StateIds = {} /\ closing = NoState
  /\ phase = "sets" => (NullableKnown => LooksSoFar)
  /\ phase \in {"number", "tables"} => (NullableKnown => Looked(sets) = Looks(grammar))

LEMMA InitLooks ==
  Init => LooksInv
<1> SUFFICES ASSUME Init PROVE LooksInv
  OBVIOUS
<1>1. sets = [s \in {} |-> NoState] /\ closing = NoState /\ phase = "derive"
  BY DEF Init, ItemSetsInit
<1> QED
  BY <1>1 DEF LooksInv, StateIds

LEMMA NullableStays ==
  ASSUME UNCHANGED <<grammar, derivable>>
  PROVE  NullableKnown' <=> NullableKnown
BY DEF NullableKnown, CanDeriveEmpty

\* Nothing happens to the states, and they are no nearer to their end.
LEMMA LooksStay ==
  ASSUME LooksInv, UNCHANGED <<grammar, sets, closing, done, current, mustCloseMyself, nextItem, work>>,
         \/ phase' \in {"derive", "first", "follow"} /\ phase \in {"derive", "first", "follow"}
         \/ phase' \in {"sets", "number", "tables"} /\ phase' = phase /\ UNCHANGED derivable
         \/ phase' \notin {"derive", "first", "follow", "sets", "number", "tables"}
  PROVE  LooksInv'
<1>1. StateIds' = StateIds /\ (AllSound' <=> AllSound) /\ (ClosureLooks' <=> ClosureLooks)
  BY DEF StateIds, AllSound, ClosureLooks
<1>2. AllPass' <=> AllPass
  BY DEF AllPass
<1>3. LooksSoFar' <=> LooksSoFar
  BY <1>1, <1>2 DEF LooksSoFar
<1>4. CASE phase' \in {"sets", "number", "tables"} /\ phase' = phase /\ UNCHANGED derivable
  BY <1>1, <1>3, <1>4, NullableStays DEF LooksInv
<1>5. CASE \/ phase' \in {"derive", "first", "follow"} /\ phase \in {"derive", "first", "follow"}
           \/ phase' \notin {"derive", "first", "follow", "sets", "number", "tables"}
  BY <1>1, <1>5 DEF LooksInv
<1> QED
  BY <1>4, <1>5

LEMMA LooksInvStep ==
  ASSUME SetsInv, Typed, Settled, PhaseIn, LrInv, FirstFollowInv, LooksInv, [Next]_vars
  PROVE  LooksInv'
<1>1. UNCHANGED <<input, grammar, hashOrder>>
  BY AlwaysGiven
<1>2. Given
  BY DEF SetsInv
<1>3. CASE UNCHANGED vars
  BY <1>3, LooksStay DEF vars, setsVars, deriveVars, firstFollowVars, PhaseIn, Phases
<1>4. CASE Derive \/ DeriveDone
  <2>1. UNCHANGED setsVars /\ phase = "derive" /\ phase' \in {"derive", "first"}
    BY <1>4 DEF Derive, DeriveDone
  <2> QED
    BY <1>1, <2>1, LooksStay DEF setsVars
<1>5. CASE Order \/ OrderDone
  <2>1. UNCHANGED setsVars /\ phase' \in {"order", "errorBits"}
    BY <1>5 DEF Order, OrderDone
  <2> QED
    BY <1>1, <2>1, LooksStay DEF setsVars
<1>6. CASE ComputeFirstFollow
  <2>1. UNCHANGED setsVars /\ phase \in {"first", "follow"}
        /\ phase' \in {"first", "follow", "sets"}
    BY <1>6 DEF ComputeFirstFollow, FirstFollowNext, FirstOfProduction,
                FirstIterationDone, FollowOfSymbol, FollowProductionDone, FollowIterationDone
  <2>2. CASE phase' = "sets"
    <3>1. StateIds' = {} /\ closing' = NoState
      BY <2>1 DEF LooksInv, setsVars, StateIds
    <3>2. LooksSoFar'
      <4>1. AllSound' /\ ClosureLooks'
        BY <3>1 DEF AllSound, ClosureLooks, StateIds
      <4>2. AllPass'
        BY <3>1 DEF AllPass, StateIds
      <4> QED
        BY <4>1, <4>2 DEF LooksSoFar
    <3> QED
      BY <2>2, <3>2 DEF LooksInv
  <2>3. CASE phase' # "sets"
    BY <1>1, <2>1, <2>3, LooksStay DEF setsVars
  <2> QED
    BY <2>2, <2>3
<1>7. CASE ComputeParseTables
  <2>1. UNCHANGED <<setsVars, derivable>> /\ phase \notin Early /\ phase' \notin Early
    BY <1>7, LaterPhases DEF ComputeParseTables, TablesNext, deriveVars
  <2>2. phase' \in {"number", "tables"} => phase' = phase
    BY <1>7 DEF ComputeParseTables, TablesNext, FillActionEntry, FillGotoRow, TablesFilled,
                ComputeErrorBits, MergeActionColumns, MergeActionRows, MergeGotoColumns,
                MergeGotoRows
  <2>3. \/ phase' \in {"sets", "number", "tables"} /\ phase' = phase
        \/ phase' \notin {"derive", "first", "follow", "sets", "number", "tables"}
    BY <2>1, <2>2 DEF Early
  <2> QED
    BY <1>1, <2>1, <2>3, LooksStay DEF setsVars
<1>8. CASE ConstructItemSets
  <2>1. /\ \/ MakeStartState \/ PopItemSet \/ MakeItemSet \/ FindItemSet \/ ItemSetDone
           \/ SetsDone \/ CloseKernelItem \/ CloseItem \/ ClosureDone \/ RenumberStates
        /\ UNCHANGED derivable
    BY <1>8 DEF ConstructItemSets, ItemSetsNext
  <2>2. NullableKnown' <=> NullableKnown
    BY <1>1, <2>1, NullableStays
  <2>3. CASE SetsDone
    <3>1. phase = "sets" /\ phase' = "number" /\ sets' = sets
      BY <2>3 DEF SetsDone, setsVars
    <3>2. ASSUME NullableKnown PROVE Looked(sets) = Looks(grammar)
      <4>1. SetsSoFar /\ LrSoFar /\ LooksSoFar
        BY <3>1, <3>2 DEF SetsInv, LrInv, LooksInv, Early
      <4> QED
        BY <1>2, <2>3, <4>1, SetsDoneLooks
    <3> QED
      BY <1>1, <2>2, <3>1, <3>2 DEF LooksInv
  <2>4. CASE RenumberStates
    <3>1. phase = "number" /\ phase' = "tables"
      BY <2>4 DEF RenumberStates
    <3>2. SoundGrammar(grammar) /\ SetsIn(grammar, sets)
      BY <1>2, GivenIsSound DEF Typed
    <3>3. PICK old, to : IsRenumbered(sets, sets', old, to)
      BY <2>4, <3>2, RenumberedIs
    <3>4. PICK new : new = sets'
      OBVIOUS
    <3>5. Looked(new) = Looked(sets)
      BY <3>2, <3>3, <3>4, RenumberedLooks
    <3>6. NullableKnown => Looked(sets') = Looks(grammar)
      BY <3>1, <3>4, <3>5 DEF LooksInv
    <3> QED
      BY <1>1, <2>2, <3>1, <3>6 DEF LooksInv
  <2>5. CASE \/ MakeStartState \/ PopItemSet \/ MakeItemSet \/ FindItemSet \/ ItemSetDone
             \/ CloseKernelItem \/ CloseItem \/ ClosureDone
    <3>1. phase = "sets" /\ phase' = "sets"
      BY <2>5 DEF MakeStartState, PopItemSet, MakeItemSet, FindItemSet, ItemSetDone, Considering,
                  CloseKernelItem, CloseItem, ClosureDone, Settled, LooksInv, PhaseIn, Phases, Early
    <3>2. phase \in Early /\ SetsSoFar /\ LrSoFar
      BY <3>1 DEF SetsInv, LrInv, Early
    <3>3. ASSUME NullableKnown PROVE LooksSoFar'
      <4>1. FirstIs /\ LooksSoFar
        BY <3>1, <3>3 DEF FirstFollowInv, LooksInv
      <4>2. CASE MakeStartState
        BY <1>1, <1>2, <4>2, MakeStartStateLooks
      <4>3. CASE PopItemSet
        BY <1>1, <3>2, <4>1, <4>3, PopItemSetLooks
      <4>4. CASE MakeItemSet
        BY <1>1, <1>2, <3>2, <4>1, <4>4, MakeItemSetLooks
      <4>5. CASE FindItemSet
        BY <1>1, <1>2, <3>2, <4>1, <4>5, FindItemSetLooks
      <4>6. CASE ItemSetDone
        BY <1>1, <3>2, <4>1, <4>6, ItemSetDoneLooks
      <4>7. CASE CloseKernelItem \/ CloseItem
        BY <1>1, <1>2, <3>2, <3>3, <4>1, <4>7, CloseItemsLooks
      <4>8. CASE ClosureDone
        BY <1>1, <1>2, <3>2, <4>1, <4>8, ClosureDoneLooks
      <4> QED
        BY <2>5, <4>2, <4>3, <4>4, <4>5, <4>6, <4>7, <4>8
    <3> QED
      BY <2>2, <3>1, <3>3 DEF LooksInv
  <2> QED
    BY <2>1, <2>3, <2>4, <2>5
<1>9. CASE Terminated
  BY <1>3, <1>9 DEF Terminated
<1> QED
  BY <1>3, <1>4, <1>5, <1>6, <1>7, <1>8, <1>9 DEF Next

LEMMA LooksInvExact ==
  ASSUME SetsInv, Typed, LooksInv
  PROVE  LookaheadsExact
<1> SUFFICES ASSUME Numbered, NullableKnown PROVE LookaheadsExact
  BY DEF LookaheadsExact
<1> DEFINE Recorded == UNION {UNION {{<<CoreSet(sets[s].kernel), <<it.prod, it.dot>>, t>> : t \in it.la} :
                                  it \in ToSymbolSet(AllItems(s))} : s \in StateIds}
<1>1. Looked(sets) = Looks(grammar)
  BY DEF LooksInv, Numbered
<1>2. ASSUME NEW n \in Recorded PROVE n \in Looked(sets) /\ n[3] # -1
  <2>1. PICK s \in StateIds : \E it \in ToSymbolSet(AllItems(s)) : \E t \in it.la :
          n = <<CoreSet(sets[s].kernel), <<it.prod, it.dot>>, t>>
    OBVIOUS
  <2>2. PICK it \in ToSymbolSet(AllItems(s)) : \E t \in it.la :
          n = <<CoreSet(sets[s].kernel), <<it.prod, it.dot>>, t>>
    BY <2>1
  <2>3. PICK t \in it.la : n = <<CoreSet(sets[s].kernel), <<it.prod, it.dot>>, t>>
    BY <2>2
  <2>4. s \in DOMAIN sets /\ AllItems(s) = All(sets[s]) /\ CoreOf(it) = <<it.prod, it.dot>>
    BY DEF StateIds, AllItems, All, CoreOf
  <2>5. ItemIn(grammar, it)
    BY <2>4, ItemsOfSet DEF Typed, SetsIn
  <2>6. t # -1
    BY <2>5 DEF ItemIn
  <2>7. n \in Looked(sets)
    BY <2>3, <2>4, LookedHas
  <2> QED
    BY <2>3, <2>6, <2>7
<1>3. ASSUME NEW n \in Looked(sets), n[3] # -1 PROVE n \in Recorded
  <2>1. PICK s \in DOMAIN sets : \E it \in ToSymbolSet(All(sets[s])) : \E t \in it.la \cup {-1} :
          n = <<CoreSet(sets[s].kernel), CoreOf(it), t>>
    BY LookedIs
  <2>2. PICK it \in ToSymbolSet(All(sets[s])) : \E t \in it.la \cup {-1} :
          n = <<CoreSet(sets[s].kernel), CoreOf(it), t>>
    BY <2>1
  <2>3. PICK t \in it.la \cup {-1} : n = <<CoreSet(sets[s].kernel), CoreOf(it), t>>
    BY <2>2
  <2>4. s \in StateIds /\ AllItems(s) = All(sets[s]) /\ CoreOf(it) = <<it.prod, it.dot>>
    BY DEF StateIds, AllItems, All, CoreOf
  <2>5. t \in it.la
    BY <1>3, <2>3
  <2> QED
    BY <2>3, <2>4, <2>5
<1>4. Recorded = {n \in Looks(grammar) : n[3] # -1}
  <2> HIDE DEF Recorded
  <2> QED
    BY <1>1, <1>2, <1>3
<1>5. Reference(grammar).lookaheads = {n \in Looks(grammar) : n[3] # -1}
  BY ReferenceLooks
<1>6. Recorded = Reference(grammar).lookaheads
  BY <1>4, <1>5
<1> QED
  BY <1>6 DEF LookaheadsExact

(* Once the states have their numbers, the lookahead of each item of each  *)
(* state is exactly what can follow its production there, along any way    *)
(* into the state, for every grammar of which the relation knows what      *)
(* vanishes: whatever the order of the work, none is lost when a state     *)
(* that is done gets more, and no item has any that it should not have.    *)
THEOREM LookaheadsAlwaysExact == Spec => []LookaheadsExact
<1> DEFINE Inv == /\ SetsInv /\ Typed /\ Settled /\ PhaseIn
                  /\ LrInv /\ FirstFollowInv /\ LooksInv
<1>1. Init => Inv
  <2>1. Init => Settled
    BY DEF Init, ItemSetsInit, Settled
  <2>2. Init => PhaseIn
    BY DEF Init, D!Init, PhaseIn, Phases
  <2> QED
    BY <2>1, <2>2, InitSetsInv, InitTyped, InitLr, InitFirstFollow, InitLooks
<1>2. Inv /\ [Next]_vars => Inv'
  BY SetsInvStep, TypedStep, SettledStep, PhaseInStep, LrInvStep, FirstFollowKeeps,
     LooksInvStep
<1>3. Inv => LookaheadsExact
  BY LooksInvExact
<1> QED
  BY <1>1, <1>2, <1>3, PTL DEF Spec
=============================================================================
