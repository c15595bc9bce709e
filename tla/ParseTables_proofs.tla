------------------------- MODULE ParseTables_proofs -------------------------
(***************************************************************************)
(* Proofs about the parse tables, for every set of grammars, every order   *)
(* of the hash tables and every build: what is put in a cell is what the   *)
(* declarations leave of it, what is counted is what is put there, and     *)
(* what the parser reads is what was put there.                            *)
(***************************************************************************)
EXTENDS ItemSets_proofs

-----------------------------------------------------------------------------
(* Kind and Index of what MakeAE makes.                                    *)
LEMMA Divided ==
  ASSUME NEW m \in Nat, NEW k \in Nat, NEW i \in 0..m
  PROVE  /\ (k * (m + 1) + i) \div (m + 1) = k
         /\ (k * (m + 1) + i) % (m + 1) = i
         /\ k * (m + 1) + i \in Nat
OBVIOUS

LEMMA WithIs ==
  ASSUME NEW f, NEW x, NEW v
  PROVE  /\ DOMAIN With(f, x, v) = DOMAIN f \cup {x}
         /\ With(f, x, v)[x] = v
         /\ \A y \in DOMAIN f : y # x => With(f, x, v)[y] = f[y]
BY DEF With

-----------------------------------------------------------------------------
(* What a cell holds.                                                      *)
CellOf(cell, shifts, S) ==
  /\ cell = Cell(cell.shift, cell.reds) /\ cell.shift \in shifts
  /\ cell.reds \in Seq(S)
Counted(result, shifts, S) ==
  /\ result = [cell |-> result.cell, dontWarns |-> result.dontWarns, errors |-> result.errors]
  /\ CellOf(result.cell, shifts, S)
  /\ result.dontWarns \in Nat /\ result.errors \in Nat

LEMMA ActionsIs ==
  ASSUME NEW cell, NEW shifts, NEW S, CellOf(cell, shifts, S)
  PROVE  /\ Len(cell.reds) \in Nat
         /\ Actions(cell) = IF cell.shift = NoState THEN Len(cell.reds) ELSE Len(cell.reds) + 1
         /\ Actions(cell) \in Nat
<1>1. Len(cell.reds) \in Nat
  BY DEF CellOf
<1>2. CASE cell.shift = NoState
  BY <1>1, <1>2 DEF Actions
<1>3. CASE cell.shift # NoState
  BY <1>1, <1>3 DEF Actions
<1> QED
  BY <1>2, <1>3

LEMMA WithReductionIn ==
  ASSUME NEW s, NEW t, NEW shifts, NoState \in shifts, NEW S, NEW acc, Counted(acc, shifts, S),
         NEW p \in S
  PROVE  Counted(WithReduction(s, t, acc, p), shifts, S)
<1>1. PICK c, reds, d, e :
        /\ acc = [cell |-> Cell(c, reds), dontWarns |-> d, errors |-> e]
        /\ c \in shifts /\ reds \in Seq(S) /\ d \in Nat /\ e \in Nat
  <2>1. PICK cell, d, e : cell = acc.cell /\ d = acc.dontWarns /\ e = acc.errors
    OBVIOUS
  <2>2. PICK c, reds : c = cell.shift /\ reds = cell.reds
    OBVIOUS
  <2> QED
    BY <2>1, <2>2 DEF Counted, CellOf
<1>2. PICK kept : kept = Append(reds, p)
  OBVIOUS
<1>3. kept \in Seq(S)
  BY ONLY <1>1, <1>2, p \in S
<1>4. PICK verdict : verdict = HandleShiftReduceConflict(s, p, t)
  OBVIOUS
<1>50. acc.cell.shift = c /\ acc.cell.reds = reds /\ acc.dontWarns = d /\ acc.errors = e
       /\ [acc EXCEPT !.cell = Cell(NoState, kept)]
            = [cell |-> Cell(NoState, kept), dontWarns |-> d, errors |-> e]
  BY <1>1 DEF Cell
<1>5. WithReduction(s, t, acc, p) =
        IF c = NoState THEN [cell |-> Cell(NoState, kept), dontWarns |-> d, errors |-> e]
        ELSE [cell |-> Cell(IF verdict \in {"reduce", "none"} THEN NoState ELSE c,
                            IF verdict \in {"shift", "none"} THEN reds ELSE kept),
              dontWarns |-> d + IF verdict = "dontWarn" THEN 1 ELSE 0,
              errors |-> e + IF verdict = "error" THEN 1 ELSE 0]
  BY <1>2, <1>4, <1>50 DEF WithReduction
<1>6. CASE c = NoState
  BY <1>1, <1>3, <1>5, <1>6 DEF Counted, CellOf, Cell
<1>7. CASE c # NoState
  <2>1. PICK a, b, x, y :
          /\ a = (IF verdict \in {"reduce", "none"} THEN NoState ELSE c)
          /\ b = (IF verdict \in {"shift", "none"} THEN reds ELSE kept)
          /\ x = d + (IF verdict = "dontWarn" THEN 1 ELSE 0)
          /\ y = e + (IF verdict = "error" THEN 1 ELSE 0)
    OBVIOUS
  <2>2. a \in shifts /\ b \in Seq(S)
    BY <1>1, <1>3, <2>1
  <2>3. x \in Nat /\ y \in Nat
    BY <1>1, <2>1
  <2>4. WithReduction(s, t, acc, p) = [cell |-> Cell(a, b), dontWarns |-> x, errors |-> y]
    BY <1>5, <1>7, <2>1
  <2> QED
    BY <2>2, <2>3, <2>4 DEF Counted, CellOf, Cell
<1> QED
  BY <1>6, <1>7

\* What there is after each of the reductions.
IsResolving(f, s, t, cell, shifts, S) ==
  /\ Len(cell.reds) \in Nat
  /\ f[0] = Uncounted(Cell(cell.shift, << >>))
  /\ \A k \in 1..Len(cell.reds) : f[k] = WithReduction(s, t, f[k - 1], cell.reds[k])
  /\ \A k \in 0..Len(cell.reds) : Counted(f[k], shifts, S)
  /\ ResolveShift(s, t, cell) = f[Len(cell.reds)]

LEMMA ResolveShiftRuns ==
  ASSUME NEW s, NEW t, NEW shifts, NoState \in shifts, NEW S, NEW cell, CellOf(cell, shifts, S)
  PROVE  \E f : IsResolving(f, s, t, cell, shifts, S)
<1> DEFINE n == Len(cell.reds)
           Good == {r \in [cell : [shift : shifts, reds : Seq(S)], dontWarns : Nat, errors : Nat] :
                      Counted(r, shifts, S)}
           V == [k \in 0..n |-> Good]
           v0 == Uncounted(Cell(cell.shift, << >>))
           step == [e \in (1..n) \X Good |-> WithReduction(s, t, e[2], cell.reds[e[1]])]
           IsAfter(f) == f = [k \in 0..n |-> IF k = 0 THEN v0
                                ELSE WithReduction(s, t, f[k - 1], cell.reds[k])]
<1>1. n \in Nat /\ cell.reds \in Seq(S) /\ DOMAIN cell.reds = 1..n
  BY DEF CellOf
<1>2. \A r : Counted(r, shifts, S) => r \in Good
  <2> TAKE r
  <2> SUFFICES ASSUME Counted(r, shifts, S)
               PROVE  r \in [cell : [shift : shifts, reds : Seq(S)], dontWarns : Nat, errors : Nat]
    OBVIOUS
  <2>1. PICK c, d, e : r = [cell |-> c, dontWarns |-> d, errors |-> e] /\ c = Cell(c.shift, c.reds)
                       /\ c.shift \in shifts /\ c.reds \in Seq(S) /\ d \in Nat /\ e \in Nat
    BY DEF Counted, CellOf
  <2> QED
    BY <2>1 DEF Cell
<1>3. Counted(v0, shifts, S)
  <2>1. << >> \in Seq(S) /\ cell.shift \in shifts
    BY DEF CellOf
  <2> QED
    BY <2>1 DEF Counted, CellOf, Uncounted, Cell
<1>4. v0 \in Good
  BY <1>2, <1>3
<1>5. ASSUME NEW k \in 1..n, NEW v \in Good
      PROVE  WithReduction(s, t, v, cell.reds[k]) \in Good
  <2>1. cell.reds[k] \in S
    BY <1>1
  <2> QED
    BY <1>2, <2>1, WithReductionIn
<1>6. \E f : IsAfter(f)
  <2>1. v0 \in V[0] /\ \A k \in 1..n : \A v \in V[k - 1] : step[<<k, v>>] \in V[k]
    <3>1. 0 \in 0..n /\ \A k \in 1..n : k \in 0..n /\ k - 1 \in 0..n
      BY <1>1
    <3>2. ASSUME NEW k \in 1..n, NEW v \in V[k - 1] PROVE step[<<k, v>>] \in V[k]
      <4>1. v \in Good /\ k \in 0..n
        BY <3>1
      <4>2. <<k, v>> \in (1..n) \X Good
        BY <4>1
      <4>3. step[<<k, v>>] = WithReduction(s, t, v, cell.reds[k])
        BY <4>2
      <4> QED
        BY <1>5, <4>1, <4>3
    <3> QED
      BY <1>4, <3>1, <3>2
  <2>2. PICK f : IsRun(f, n, v0, step, V)
    <3> HIDE DEF V, v0, step, n
    <3>1. n \in Nat
      BY <1>1
    <3> QED
      BY ONLY <2>1, <3>1, IteratedExists
  <2>3. ASSUME NEW k \in 0..n, k # 0
        PROVE  f[k] = WithReduction(s, t, f[k - 1], cell.reds[k])
    <3>1. k \in 1..n /\ k - 1 \in 0..n
      BY <1>1, <2>3
    <3>2. <<k, f[k - 1]>> \in (1..n) \X Good
      BY <2>2, <3>1 DEF IsRun
    <3> QED
      BY <2>2, <3>1, <3>2 DEF IsRun
  <2>4. IsAfter(f)
    <3> HIDE DEF V, v0, step, n
    <3> QED
      BY ONLY <2>2, <2>3 DEF IsRun
  <2> QED
    BY <2>4
<1>7. PICK f : IsAfter(f) /\ ResolveShift(s, t, cell) = f[n]
  <2>1. ResolveShift(s, t, cell) = (CHOOSE f : IsAfter(f))[n]
    BY DEF ResolveShift
  <2> HIDE DEF IsAfter
  <2> QED
    BY <1>6, <2>1
<1>8. \A k \in 0..n : f[k] \in V[k]
  <2>1. f[0] \in V[0]
    BY <1>1, <1>4, <1>7
  <2>2. ASSUME NEW k \in 1..n, f[k - 1] \in V[k - 1] PROVE f[k] \in V[k]
    <3>1. k \in 0..n /\ k # 0 /\ k - 1 \in 0..n
      BY <1>1
    <3>2. f[k] = WithReduction(s, t, f[k - 1], cell.reds[k])
      BY <1>7, <3>1
    <3> QED
      BY <1>5, <2>2, <3>1, <3>2
  <2> HIDE DEF V, n
  <2> QED
    BY <1>1, <2>1, <2>2, StaysIn
<1>9. f[0] = v0 /\ \A k \in 1..n : f[k] = WithReduction(s, t, f[k - 1], cell.reds[k])
  <2>1. 0 \in 0..n /\ \A k \in 1..n : k \in 0..n /\ k # 0
    BY <1>1
  <2> QED
    BY <1>7, <2>1
<1>10. IsResolving(f, s, t, cell, shifts, S)
  BY <1>1, <1>7, <1>8, <1>9 DEF IsResolving
<1> QED
  BY <1>10

LEMMA ResolveShiftIn ==
  ASSUME NEW s, NEW t, NEW shifts, NoState \in shifts, NEW S, NEW cell, CellOf(cell, shifts, S)
  PROVE  Counted(ResolveShift(s, t, cell), shifts, S)
<1>1. PICK f : IsResolving(f, s, t, cell, shifts, S)
  BY ResolveShiftRuns
<1>2. PICK n \in Nat : n = Len(cell.reds)
  BY <1>1 DEF IsResolving
<1>3. n \in 0..n
  OBVIOUS
<1> QED
  BY <1>1, <1>2, <1>3 DEF IsResolving

LEMMA SelectedIn ==
  ASSUME NEW S, NEW reds \in Seq(S), NEW K \in SUBSET DOMAIN reds
  PROVE  Selected(reds, K) \in Seq(S)
<1>1. PICK n \in Nat : DOMAIN reds = 1..n
  OBVIOUS
<1>2. IsFiniteSet(K) /\ K \in SUBSET Int
  <2>1. IsFiniteSet(1..n)
    <3>1. 1 \in Int /\ n \in Int
      OBVIOUS
    <3> QED
      BY <3>1, FS_Interval
  <2> QED
    BY <1>1, <2>1, FS_Subset
<1>3. PICK q, T : q = Selected(reds, K) /\ T = ToSymbolSet(q)
  OBVIOUS
<1>4. IsList(q) /\ T = {reds[k] : k \in K}
  <2>1. IsList(q)
    BY <1>2, <1>3, SelectedIs
  <2>2. T = {reds[k] : k \in K}
    BY <1>2, <1>3, SelectedIs
  <2> QED
    BY <2>1, <2>2
<1>5. T \subseteq S
  BY <1>1, <1>4
<1>6. q \in Seq(T)
  BY <1>3, <1>4 DEF IsList
<1>7. q \in Seq(S)
  BY ONLY <1>5, <1>6
<1> QED
  BY <1>3, <1>7

LEMMA DisambiguatedIn ==
  ASSUME NEW s, NEW t, NEW shifts, NoState \in shifts, NEW S, NEW cell, CellOf(cell, shifts, S)
  PROVE  Counted(Disambiguated(s, t, cell), shifts, S)
<1>1. Counted(Uncounted(cell), shifts, S)
  BY DEF Counted, Uncounted
<1>2. PICK shifted : shifted = IF cell.shift = NoState THEN Uncounted(cell)
                               ELSE ResolveShift(s, t, cell)
  OBVIOUS
<1>3. Counted(shifted, shifts, S)
  BY <1>1, <1>2, ResolveShiftIn
<1>4. PICK r1 : r1 = IfSeveral(shifted.cell.reds, HighestOnly)
  OBVIOUS
<1>5. PICK r2 : r2 = IfSeveral(r1, SubsetsOnly)
  OBVIOUS
<1>6. \A r \in Seq(S) : HighestOnly(r) \in Seq(S) /\ SubsetsOnly(r) \in Seq(S)
  <2> TAKE r \in Seq(S)
  <2>1. PICK K : K = {k \in DOMAIN r : Prec(r[k]) = 0 \/
                        \A i \in DOMAIN r : Prec(r[k]) >= Prec(r[i])}
    OBVIOUS
  <2>2. PICK L : L = {k \in DOMAIN r :
                        \A i \in DOMAIN r : <<Lhs(r[k]), Lhs(r[i])>> \notin grammar.subsets}
    OBVIOUS
  <2>3. Selected(r, K) \in Seq(S) /\ Selected(r, L) \in Seq(S)
    <3>1. K \in SUBSET DOMAIN r /\ L \in SUBSET DOMAIN r
      BY <2>1, <2>2
    <3> QED
      BY <3>1, SelectedIn
  <2> QED
    BY <2>1, <2>2, <2>3 DEF HighestOnly, SubsetsOnly
<1>7. r1 \in Seq(S)
  <2>1. shifted.cell.reds \in Seq(S)
    BY <1>3 DEF Counted, CellOf
  <2>2. r1 = shifted.cell.reds \/ r1 = HighestOnly(shifted.cell.reds)
    BY <1>4 DEF IfSeveral
  <2> QED
    BY <1>6, <2>1, <2>2
<1>8. r2 \in Seq(S)
  <2>1. r2 = r1 \/ r2 = SubsetsOnly(r1)
    BY <1>5 DEF IfSeveral
  <2> QED
    BY <1>6, <1>7, <2>1
<1>9. Counted([shifted EXCEPT !.cell = Cell(@.shift, r2)], shifts, S)
  <2>1. PICK c, d, e : shifted = [cell |-> c, dontWarns |-> d, errors |-> e]
                       /\ c.shift \in shifts /\ d \in Nat /\ e \in Nat
    BY <1>3 DEF Counted, CellOf
  <2>2. [shifted EXCEPT !.cell = Cell(@.shift, r2)]
          = [cell |-> Cell(c.shift, r2), dontWarns |-> d, errors |-> e]
    BY <2>1
  <2> QED
    BY <1>8, <2>1, <2>2 DEF Counted, CellOf, Cell
<1>10. Disambiguated(s, t, cell) = IF Actions(cell) <= 1 THEN Uncounted(cell)
                                   ELSE [shifted EXCEPT !.cell = Cell(@.shift, r2)]
  BY <1>2, <1>4, <1>5 DEF Disambiguated
<1> QED
  BY <1>1, <1>9, <1>10

LEMMA OneActionIn ==
  ASSUME NEW shifts, NoState \in shifts, NEW S \in SUBSET Nat, NEW cell, CellOf(cell, shifts, S),
         ~ (Actions(cell) <= 1)
  PROVE  CellOf(OneAction(cell), shifts, S)
<1>1. CASE cell.shift # NoState
  <2>1. << >> \in Seq(S)
    OBVIOUS
  <2> QED
    BY <1>1, <2>1 DEF OneAction, CellOf, Cell
<1>2. CASE cell.shift = NoState
  <2>1. Len(cell.reds) \in Nat /\ ~ (Len(cell.reds) <= 1)
    BY <1>2, ActionsIs
  <2>2. PICK T : T = ToSymbolSet(cell.reds)
    OBVIOUS
  <2>3. T \in SUBSET S /\ T # {}
    <3>1. PICK q \in Seq(S) : q = cell.reds
      BY DEF CellOf
    <3>2. 1 \in DOMAIN q /\ \A i \in DOMAIN q : q[i] \in S
      BY <2>1, <3>1
    <3>3. T = {q[i] : i \in DOMAIN q}
      BY <2>2, <3>1 DEF ToSymbolSet
    <3> QED
      BY <3>2, <3>3
  <2>4. Min(T) \in S
    BY <2>3, MinIs
  <2>5. PICK m \in S : m = Min(T)
    BY <2>4
  <2>6. <<m>> \in Seq(S)
    BY ONLY m \in S
  <2>7. OneAction(cell) = Cell(NoState, <<m>>)
    BY <1>2, <2>2, <2>5 DEF OneAction
  <2> QED
    BY <2>6, <2>7 DEF CellOf, Cell
<1> QED
  BY <1>1, <1>2

-----------------------------------------------------------------------------
(* The target of a shift has been reached by the terminal, and the         *)
(* reductions are possible.                                                *)
Shifts(s, t) ==
  {NoState} \cup {a \in StateIds : TermId(t) \in DOMAIN sets[s].trans /\ a = sets[s].trans[TermId(t)]}
Reds(s, t) == ToSymbolSet(PossibleReductions(s, t))

LEMMA PossibleIn ==
  ASSUME SetsIn(grammar, sets), NEW s \in StateIds, NEW t
  PROVE  CellOf(PossibleActions(s, t), Shifts(s, t), Reds(s, t)) /\ Reds(s, t) \subseteq Prods
<1>1. SetIn(grammar, sets[s])
  BY DEF SetsIn, StateIds
<1>2. IsList(PossibleReductions(s, t)) /\ Reds(s, t) \subseteq Prods
  BY <1>1, ReductionsAre DEF Reds
<1>3. PossibleReductions(s, t) \in Seq(Reds(s, t))
  BY <1>2 DEF IsList, Reds
<1>4. PICK a : a = IF TermId(t) \in DOMAIN sets[s].trans THEN sets[s].trans[TermId(t)] ELSE NoState
  OBVIOUS
<1>5. a \in Shifts(s, t)
  BY <1>4 DEF Shifts, SetsIn, StateIds
<1>6. PossibleActions(s, t) = Cell(a, PossibleReductions(s, t))
  BY <1>4 DEF PossibleActions
<1> QED
  BY <1>2, <1>3, <1>5, <1>6 DEF CellOf, Cell

LEMMA ResolvedIn ==
  ASSUME SoundGrammar(grammar), SetsIn(grammar, sets), NEW s \in StateIds, NEW t
  PROVE  /\ Counted(Disambiguated(s, t, PossibleActions(s, t)), Shifts(s, t), Reds(s, t))
         /\ CellOf(ResolvedCell(s, t), Shifts(s, t), Reds(s, t))
         /\ Reds(s, t) \subseteq Prods
<1>1. CellOf(PossibleActions(s, t), Shifts(s, t), Reds(s, t)) /\ Reds(s, t) \subseteq Prods
  BY PossibleIn
<1>2. NoState \in Shifts(s, t)
  BY DEF Shifts
<1>3. Counted(Disambiguated(s, t, PossibleActions(s, t)), Shifts(s, t), Reds(s, t))
  BY <1>1, <1>2, DisambiguatedIn
<1>4. PICK cell : cell = Disambiguated(s, t, PossibleActions(s, t)).cell
  OBVIOUS
<1>5. CellOf(cell, Shifts(s, t), Reds(s, t))
  BY <1>3, <1>4 DEF Counted
<1>6. Reds(s, t) \in SUBSET Nat
  <2>1. Prods \in SUBSET Nat
    BY ListLength DEF SoundGrammar, Prods
  <2> QED
    BY <1>1, <2>1
<1>7. ~ (Actions(cell) <= 1) => CellOf(OneAction(cell), Shifts(s, t), Reds(s, t))
  BY <1>2, <1>5, <1>6, OneActionIn
<1>8. ResolvedCell(s, t) = cell \/ (~ (Actions(cell) <= 1) /\ ResolvedCell(s, t) = OneAction(cell))
  BY <1>4 DEF ResolvedCell
<1> QED
  BY <1>1, <1>3, <1>5, <1>7, <1>8

LEMMA TargetIs ==
  ASSUME SoundGrammar(grammar), SetsIn(grammar, sets), NEW s \in StateIds,
         NEW x \in DOMAIN sets[s].trans
  PROVE  sets[s].trans[x] \in StateIds /\ StateSymbol(sets[s].trans[x]) = x
<1>1. PICK a : a = sets[s].trans[x]
  OBVIOUS
<1>2. a \in StateIds /\ ArrivedBy(grammar, sets[a].kernel, x)
  BY <1>1 DEF SetsIn, StateIds
<1>3. SetIn(grammar, sets[a])
  BY <1>2 DEF SetsIn, StateIds
<1> QED
  BY <1>1, <1>2, <1>3, StateSymbolIs

LEMMA FirstWithIs ==
  ASSUME SetsIn(grammar, sets), NEW a \in StateIds
  PROVE  /\ FirstWith(StateSymbol(a)) \in StateIds /\ FirstWith(StateSymbol(a)) <= a
         /\ FirstWith(StateSymbol(a)) \in Nat /\ a \in Nat
<1>1. PICK T : T = {s \in StateIds : StateSymbol(s) = StateSymbol(a)}
  OBVIOUS
<1>2. T \in SUBSET Nat /\ a \in T
  BY <1>1, StateIdsAre
<1>3. Min(T) \in T /\ Min(T) <= a
  BY <1>2, MinIs
<1>4. FirstWith(StateSymbol(a)) = Min(T)
  BY <1>1 DEF FirstWith
<1> QED
  BY <1>1, <1>2, <1>3, <1>4

-----------------------------------------------------------------------------
(* What a code means, with the lists that it is an index of.               *)
ListGrown(a, b) == Len(a) <= Len(b) /\ \A i \in DOMAIN a : b[i] = a[i]
StartsKept(a, b) == \A s \in DOMAIN a : s \in DOMAIN b /\ b[s] = a[s]
StartsIn(starts, list) == \A s \in DOMAIN starts : starts[s] \in 1..(Len(list) + 1)
Starts == UNION {[S -> Int] : S \in SUBSET StateIds}
TempIn(tmp) ==
  /\ tmp = [prodList |-> tmp.prodList, prodStart |-> tmp.prodStart,
            ambigList |-> tmp.ambigList, ambigStart |-> tmp.ambigStart]
  /\ tmp.prodList \in Seq(Int) /\ tmp.ambigList \in Seq(Int)
  /\ tmp.prodStart \in Starts /\ tmp.ambigStart \in Starts
  /\ StartsIn(tmp.prodStart, tmp.prodList) /\ StartsIn(tmp.ambigStart, tmp.ambigList)
Grown(tmp, new) ==
  /\ ListGrown(tmp.prodList, new.prodList) /\ StartsKept(tmp.prodStart, new.prodStart)
  /\ ListGrown(tmp.ambigList, new.ambigList) /\ StartsKept(tmp.ambigStart, new.ambigStart)

MeansShift(code, a, t) ==
  /\ code \in Int /\ IsShift(code) /\ ~ IsReduce(code) /\ ~ IsErrorAction(code)
  /\ DecodeShift(code, t) = a
ReduceAt(tmp, code, s) == tmp.prodStart[s] + Index(code)
MeansReduce(tmp, code, p, s) ==
  /\ code \in Int /\ ~ IsShift(code) /\ IsReduce(code) /\ ~ IsErrorAction(code)
  /\ IF build.crs
     THEN /\ s \in DOMAIN tmp.prodStart /\ ReduceAt(tmp, code, s) \in DOMAIN tmp.prodList
          /\ tmp.prodList[ReduceAt(tmp, code, s)] = p
     ELSE - code = p
Shifted(cell) == IF cell.shift = NoState THEN 0 ELSE 1
MeansList(tmp, codes, cell, s, t) ==
  /\ codes \in Seq(Int) /\ Len(codes) = Shifted(cell) + Len(cell.reds)
  /\ Shifted(cell) = 1 => MeansShift(codes[1], cell.shift, t)
  /\ \A i \in 1..Len(cell.reds) : MeansReduce(tmp, codes[Shifted(cell) + i], cell.reds[i], s)
AmbigAt(tmp, code, s) ==
  IF build.crs THEN tmp.ambigStart[s] + Index(code) ELSE code - Cardinality(StateIds)
\* A list and its length before it.
Listed(list, at, codes) ==
  /\ at \in DOMAIN list /\ list[at] = Len(codes) /\ at + Len(codes) <= Len(list)
  /\ \A i \in DOMAIN codes : list[at + i] = codes[i]
MeansAmbig(tmp, code, cell, s, t) ==
  /\ ~ IsShift(code) /\ ~ IsReduce(code) /\ ~ IsErrorAction(code)
  /\ build.crs => s \in DOMAIN tmp.ambigStart
  /\ \E codes : MeansList(tmp, codes, cell, s, t) /\ Listed(tmp.ambigList, AmbigAt(tmp, code, s), codes)
CodeMeans(tmp, code, cell, s, t) ==
  /\ code \in Int
  /\ Actions(cell) = 0 => code = ErrorAction
  /\ Actions(cell) = 1 => MeansList(tmp, <<code>>, cell, s, t)
  /\ Actions(cell) > 1 => MeansAmbig(tmp, code, cell, s, t)

(* The lists grow only at their ends, so a code keeps its meaning.         *)
LEMMA ReduceStaysMeant ==
  ASSUME NEW tmp, NEW new, Grown(tmp, new), TempIn(tmp), TempIn(new),
         NEW code, NEW p, NEW s, MeansReduce(tmp, code, p, s)
  PROVE  MeansReduce(new, code, p, s)
<1>1. CASE build.crs
  <2>1. /\ s \in DOMAIN tmp.prodStart /\ ReduceAt(tmp, code, s) \in DOMAIN tmp.prodList
        /\ tmp.prodList[ReduceAt(tmp, code, s)] = p
    BY <1>1 DEF MeansReduce
  <2>2. s \in DOMAIN new.prodStart /\ new.prodStart[s] = tmp.prodStart[s]
    BY <2>1 DEF Grown, StartsKept
  <2>3. ReduceAt(new, code, s) = ReduceAt(tmp, code, s)
    BY <2>2 DEF ReduceAt
  <2>4. PICK a \in Seq(Int), b \in Seq(Int) : a = tmp.prodList /\ b = new.prodList
    BY DEF TempIn
  <2>5. ListGrown(a, b)
    BY <2>4 DEF Grown
  <2>6. ReduceAt(new, code, s) \in DOMAIN b /\ b[ReduceAt(new, code, s)] = p
    BY <2>1, <2>3, <2>4, <2>5 DEF ListGrown
  <2> QED
    BY <1>1, <2>2, <2>4, <2>6 DEF MeansReduce
<1>2. CASE ~ build.crs
  BY <1>2 DEF MeansReduce
<1> QED
  BY <1>1, <1>2

LEMMA ListStaysMeant ==
  ASSUME NEW tmp, NEW new, Grown(tmp, new), TempIn(tmp), TempIn(new),
         NEW codes, NEW cell, NEW s, NEW t, MeansList(tmp, codes, cell, s, t)
  PROVE  MeansList(new, codes, cell, s, t)
BY ReduceStaysMeant DEF MeansList

LEMMA StaysMeant ==
  ASSUME NEW tmp, NEW new, Grown(tmp, new), TempIn(tmp), TempIn(new),
         NEW code, NEW cell, NEW s, NEW t, CodeMeans(tmp, code, cell, s, t)
  PROVE  CodeMeans(new, code, cell, s, t)
<1>1. Actions(cell) = 1 => MeansList(new, <<code>>, cell, s, t)
  BY ListStaysMeant DEF CodeMeans
<1>2. ASSUME MeansAmbig(tmp, code, cell, s, t) PROVE MeansAmbig(new, code, cell, s, t)
  <2>1. PICK codes : MeansList(tmp, codes, cell, s, t) /\
                     Listed(tmp.ambigList, AmbigAt(tmp, code, s), codes)
    BY <1>2 DEF MeansAmbig
  <2>2. MeansList(new, codes, cell, s, t)
    BY <2>1, ListStaysMeant
  <2>3. /\ build.crs => s \in DOMAIN new.ambigStart
        /\ AmbigAt(new, code, s) = AmbigAt(tmp, code, s)
    BY <1>2 DEF MeansAmbig, Grown, StartsKept, AmbigAt
  <2>4. PICK a \in Seq(Int), b \in Seq(Int) : a = tmp.ambigList /\ b = new.ambigList
    BY DEF TempIn
  <2>5. ListGrown(a, b)
    BY <2>4 DEF Grown
  <2>6. PICK at : at = AmbigAt(tmp, code, s)
    OBVIOUS
  <2>7. Listed(b, at, codes)
    <3>1. Listed(a, at, codes)
      BY <2>1, <2>4, <2>6
    <3>2. codes \in Seq(Int)
      BY <2>1 DEF MeansList
    <3>3. at \in DOMAIN a /\ a[at] = Len(codes) /\ at + Len(codes) <= Len(a)
      BY <3>1 DEF Listed
    <3>4. at \in DOMAIN b /\ b[at] = a[at] /\ at + Len(codes) <= Len(b)
      BY <2>5, <3>2, <3>3 DEF ListGrown
    <3>5. ASSUME NEW i \in DOMAIN codes PROVE b[at + i] = codes[i]
      <4>1. a[at + i] = codes[i]
        BY <3>1 DEF Listed
      <4>2. at + i \in DOMAIN a
        BY <3>2, <3>3
      <4> QED
        BY <2>5, <4>1, <4>2 DEF ListGrown
    <3> QED
      BY <3>3, <3>4, <3>5 DEF Listed
  <2>8. Listed(new.ambigList, AmbigAt(new, code, s), codes)
    BY <2>3, <2>4, <2>6, <2>7
  <2> QED
    BY <1>2, <2>2, <2>3, <2>8 DEF MeansAmbig
<1> QED
  BY <1>1, <1>2 DEF CodeMeans

LEMMA GrownMore ==
  ASSUME NEW a, NEW b, NEW c, TempIn(a), TempIn(b), TempIn(c), Grown(a, b), Grown(b, c)
  PROVE  Grown(a, c)
<1>1. ASSUME NEW f \in Seq(Int), NEW g \in Seq(Int), NEW h \in Seq(Int), ListGrown(f, g), ListGrown(g, h)
      PROVE  ListGrown(f, h)
  <2>1. Len(f) <= Len(h)
    BY <1>1 DEF ListGrown
  <2>2. \A i \in DOMAIN f : i \in DOMAIN g
    BY <1>1 DEF ListGrown
  <2> QED
    BY <1>1, <2>1, <2>2 DEF ListGrown
<1>2. \A f, g, h : StartsKept(f, g) /\ StartsKept(g, h) => StartsKept(f, h)
  BY DEF StartsKept
<1> QED
  BY <1>1, <1>2 DEF Grown, TempIn

LEMMA NotGrown ==
  ASSUME NEW tmp, TempIn(tmp)
  PROVE  Grown(tmp, tmp)
BY DEF Grown, TempIn, ListGrown, StartsKept

-----------------------------------------------------------------------------
(* What the encoding makes.                                                *)
TooWide(code) == build.crs /\ code = Truncated

LEMMA MadeIs ==
  ASSUME NEW kind \in 0..2, NEW index \in Nat, build.crs, ~ TooWide(MakeAE(kind, index))
  PROVE  /\ MakeAE(kind, index) \in Int /\ ~ IsErrorAction(MakeAE(kind, index))
         /\ Kind(MakeAE(kind, index)) = kind /\ Index(MakeAE(kind, index)) = index
<1>1. MaxIndex \in Nat
  BY BuildsAssumption
<1>2. index \in 0..MaxIndex /\ MakeAE(kind, index) = kind * (MaxIndex + 1) + index
  <2>1. index <= MaxIndex
    BY DEF TooWide, MakeAE
  <2> QED
    BY <1>1, <2>1 DEF MakeAE
<1>3. PICK code : code = kind * (MaxIndex + 1) + index
  OBVIOUS
<1>4. code \in Nat /\ code \div (MaxIndex + 1) = kind /\ code % (MaxIndex + 1) = index
  <2>1. kind \in Nat
    OBVIOUS
  <2> QED
    BY <1>1, <1>2, <1>3, <2>1, Divided
<1>5. code # 3 * (MaxIndex + 1)
  <2>1. kind = 0 => code = index
    BY <1>1, <1>3
  <2>2. kind = 1 => code = MaxIndex + 1 + index
    BY <1>1, <1>3
  <2>3. kind = 2 => code = 2 * (MaxIndex + 1) + index
    BY <1>1, <1>3
  <2>4. kind = 0 \/ kind = 1 \/ kind = 2
    OBVIOUS
  <2> QED
    BY <1>1, <1>2, <2>1, <2>2, <2>3, <2>4
<1> QED
  BY <1>2, <1>3, <1>4, <1>5 DEF IsErrorAction, ErrorAction, Kind, Index

LEMMA MadeWide ==
  ASSUME NEW kind \in 0..2, NEW index \in Nat
  PROVE  MakeAE(kind, index) \in Int
<1>1. MaxIndex \in Nat /\ kind \in Int
  BY BuildsAssumption
<1>2. kind * (MaxIndex + 1) + index \in Int
  BY <1>1
<1> QED
  BY <1>2 DEF MakeAE, Truncated

LEMMA ShiftEncoded ==
  ASSUME SoundGrammar(grammar), SetsIn(grammar, sets), NEW s \in StateIds, NEW t,
         NEW a \in Shifts(s, t), a # NoState
  PROVE  /\ EncodeShift(a, t) \in Int
         /\ ~ TooWide(EncodeShift(a, t)) => MeansShift(EncodeShift(a, t), a, t)
<1>1. a \in StateIds /\ StateSymbol(a) = TermId(t)
  BY TargetIs DEF Shifts
<1>2. PICK n \in Nat : StateIds = 0..(n - 1) /\ Cardinality(StateIds) = n
  BY StateIdsAre
<1>3. CASE build.crs
  <2>1. PICK b \in Nat : b = FirstWith(TermId(t)) /\ b <= a
    BY <1>1, FirstWithIs
  <2>2. a - b \in Nat /\ b + (a - b) = a
    BY <1>1, <1>2, <2>1
  <2>3. EncodeShift(a, t) = MakeAE(AE_Shift, a - b)
    BY <1>3, <2>1 DEF EncodeShift
  <2>4. EncodeShift(a, t) \in Int
    <3>1. AE_Shift \in 0..2
      BY DEF AE_Shift
    <3> QED
      BY <2>2, <2>3, <3>1, MadeWide
  <2>5. ASSUME ~ TooWide(EncodeShift(a, t)) PROVE MeansShift(EncodeShift(a, t), a, t)
    <3>1. AE_Shift \in 0..2 /\ AE_Shift = 0
      BY DEF AE_Shift
    <3>2. PICK code : code = EncodeShift(a, t)
      OBVIOUS
    <3>3. code \in Int /\ ~ IsErrorAction(code) /\ Kind(code) = AE_Shift /\ Index(code) = a - b
      BY <1>3, <2>2, <2>3, <2>5, <3>1, <3>2, MadeIs
    <3>4. IsShift(code) /\ ~ IsReduce(code) /\ DecodeShift(code, t) = a
      BY <1>3, <2>1, <2>2, <3>1, <3>3 DEF IsShift, IsReduce, AE_Reduce, DecodeShift
    <3> QED
      BY <3>2, <3>3, <3>4 DEF MeansShift
  <2> QED
    BY <2>4, <2>5
<1>4. CASE ~ build.crs
  <2>1. EncodeShift(a, t) = a + 1 /\ a + 1 \in 1..n /\ a + 1 \in Int /\ (a + 1) - 1 = a /\ a + 1 # 0
        /\ ~ (a + 1 < 0)
    BY <1>1, <1>2, <1>4 DEF EncodeShift
  <2>2. PICK code : code = a + 1
    OBVIOUS
  <2>3. MeansShift(code, a, t)
    BY <1>2, <1>4, <2>1, <2>2
       DEF MeansShift, IsShift, IsReduce, IsErrorAction, ErrorAction, DecodeShift
  <2> QED
    BY <2>1, <2>2, <2>3
<1> QED
  BY <1>3, <1>4

LEMMA AddedToList ==
  ASSUME NEW list \in Seq(Int), NEW p \in Int
  PROVE  /\ Append(list, p) \in Seq(Int) /\ Len(Append(list, p)) = Len(list) + 1
         /\ Append(list, p)[Len(list) + 1] = p /\ ListGrown(list, Append(list, p))
BY DEF ListGrown

LEMMA StartIs ==
  ASSUME NEW list \in Seq(Int), NEW starts, StartsIn(starts, list), NEW s, NEW new \in Seq(Int),
         ListGrown(list, new)
  PROVE  /\ StartOf(starts, s, Len(list) + 1) \in 1..(Len(list) + 1)
         /\ StartsIn(starts, new)
         /\ StartsIn(With(starts, s, StartOf(starts, s, Len(list) + 1)), new)
         /\ StartsKept(starts, With(starts, s, StartOf(starts, s, Len(list) + 1)))
<1>1. Len(list) \in Nat /\ Len(new) \in Nat /\ Len(list) <= Len(new)
  BY DEF ListGrown
<1>2. PICK b : b = StartOf(starts, s, Len(list) + 1)
  OBVIOUS
<1>3. b \in 1..(Len(list) + 1) /\ (s \in DOMAIN starts => b = starts[s])
  BY <1>1, <1>2 DEF StartOf, StartsIn
<1>4. \A x \in 1..(Len(list) + 1) : x \in 1..(Len(new) + 1)
  BY <1>1
<1>5. PICK w : w = With(starts, s, b)
  OBVIOUS
<1>6. /\ DOMAIN w = DOMAIN starts \cup {s} /\ w[s] = b
      /\ \A y \in DOMAIN starts : y # s => w[y] = starts[y]
  BY <1>5 DEF With
<1>7. StartsIn(starts, new) /\ StartsIn(w, new) /\ StartsKept(starts, w)
  BY <1>3, <1>4, <1>6 DEF StartsIn, StartsKept
<1> QED
  BY <1>2, <1>3, <1>5, <1>7

LEMMA StartMore ==
  ASSUME NEW starts \in Starts, NEW s \in StateIds, NEW b \in Int
  PROVE  With(starts, s, b) \in Starts
<1>1. PICK S \in SUBSET StateIds : starts \in [S -> Int]
  BY DEF Starts
<1>2. With(starts, s, b) \in [S \cup {s} -> Int]
  BY <1>1 DEF With
<1>3. S \cup {s} \in SUBSET StateIds
  BY <1>1
<1> QED
  BY <1>2, <1>3 DEF Starts

LEMMA ReduceEncoded ==
  ASSUME NEW tmp, TempIn(tmp), NEW p \in Nat \ {0}, NEW s \in StateIds, NEW e, e = EncodeReduce(tmp, p, s)
  PROVE  /\ TempIn(e.tmp) /\ Grown(tmp, e.tmp) /\ e.code \in Int
         /\ ~ TooWide(e.code) => MeansReduce(e.tmp, e.code, p, s)
<1>1. CASE ~ build.crs
  <2>1. e.tmp = tmp /\ e.code = - p
    BY <1>1 DEF EncodeReduce
  <2>2. PICK n \in Nat : n = p /\ n # 0
    OBVIOUS
  <2>3. PICK code \in Int : code = - n /\ code < 0 /\ - code = n /\ code # 0
    BY <2>2
  <2>4. ~ (code \in 1..Cardinality(StateIds))
    BY <2>3
  <2>5. MeansReduce(tmp, code, p, s)
    BY <1>1, <2>2, <2>3, <2>4 DEF MeansReduce, IsShift, IsReduce, IsErrorAction, ErrorAction
  <2> QED
    BY <2>1, <2>2, <2>3, <2>5, NotGrown
<1>2. CASE build.crs
  <2>1. PICK list \in Seq(Int) : list = tmp.prodList
    BY DEF TempIn
  <2>2. PICK begin : begin = StartOf(tmp.prodStart, s, Len(list) + 1)
    OBVIOUS
  <2>3. PICK found : found = PositionIn(list, begin, p)
    OBVIOUS
  <2>4. PICK new : new = IF found = {} THEN Append(list, p) ELSE list
    OBVIOUS
  <2>5. PICK at : at = IF found = {} THEN Len(new) ELSE Min(found)
    OBVIOUS
  <2>6. PICK starts : starts = With(tmp.prodStart, s, begin)
    OBVIOUS
  <2>7. e.tmp = [tmp EXCEPT !.prodList = new, !.prodStart = starts] /\ e.code = MakeAE(AE_Reduce, at - begin)
    <3>1. [tmp EXCEPT !.prodList = new, !.prodStart = With(@, s, begin)]
            = [tmp EXCEPT !.prodList = new, !.prodStart = starts]
      BY <2>6 DEF TempIn
    <3> QED
      BY <1>2, <2>1, <2>2, <2>3, <2>4, <2>5, <3>1 DEF EncodeReduce
  <2>8. PICK made : made = e.tmp
    OBVIOUS
  <2>9. /\ made = [prodList |-> new, prodStart |-> starts, ambigList |-> tmp.ambigList,
                   ambigStart |-> tmp.ambigStart]
    BY <2>7, <2>8 DEF TempIn
  <2>10. /\ new \in Seq(Int) /\ ListGrown(list, new) /\ (found = {} => Len(new) = Len(list) + 1)
         /\ (found = {} => new[Len(list) + 1] = p)
    <3>1. p \in Int
      OBVIOUS
    <3>2. ListGrown(list, list)
      BY DEF ListGrown
    <3> QED
      BY <2>1, <2>4, <3>1, <3>2, AddedToList
  <2>11. /\ begin \in 1..(Len(list) + 1)
         /\ StartsIn(starts, new) /\ StartsKept(tmp.prodStart, starts)
    <3>1. StartsIn(tmp.prodStart, list)
      BY <2>1 DEF TempIn
    <3>2. begin \in 1..(Len(list) + 1)
      BY <2>2, <2>10, <3>1, StartIs
    <3>3. StartsIn(starts, new)
      BY <2>2, <2>6, <2>10, <3>1, StartIs
    <3>4. StartsKept(tmp.prodStart, starts)
      BY <2>2, <2>6, <2>10, <3>1, StartIs
    <3> QED
      BY <3>2, <3>3, <3>4
  <2>12. at - begin \in Nat /\ at \in DOMAIN new /\ new[at] = p /\ begin + (at - begin) = at
    <3>1. Len(list) \in Nat
      OBVIOUS
    <3>2. CASE found = {}
      BY <2>5, <2>10, <2>11, <3>1, <3>2
    <3>3. CASE found # {}
      <4>1. found \in SUBSET Nat
        BY <2>3 DEF PositionIn
      <4>2. at \in found
        BY <2>5, <3>3, <4>1, MinIs
      <4>3. at \in DOMAIN list /\ at >= begin /\ list[at] = p
        BY <2>3, <4>2 DEF PositionIn
      <4> QED
        BY <2>4, <2>11, <3>1, <3>3, <4>3
    <3> QED
      BY <3>2, <3>3
  <2>13. TempIn(made)
    <3>1. starts \in Starts
      <4>1. begin \in Int
        BY <2>11
      <4> QED
        BY <2>6, <4>1, StartMore DEF TempIn
    <3> QED
      BY <2>9, <2>10, <2>11, <3>1 DEF TempIn
  <2>14. Grown(tmp, made)
    <3>1. ListGrown(tmp.ambigList, tmp.ambigList) /\ StartsKept(tmp.ambigStart, tmp.ambigStart)
      BY DEF TempIn, ListGrown, StartsKept
    <3> QED
      BY <2>1, <2>9, <2>10, <2>11, <3>1 DEF Grown
  <2>15. AE_Reduce \in 0..2 /\ AE_Reduce = 1 /\ AE_Shift = 0
    BY DEF AE_Reduce, AE_Shift
  <2>16. e.code \in Int
    BY <2>7, <2>12, <2>15, MadeWide
  <2>17. ASSUME ~ TooWide(e.code) PROVE MeansReduce(made, e.code, p, s)
    <3>1. PICK code : code = e.code
      OBVIOUS
    <3>2. ~ IsErrorAction(code) /\ Kind(code) = AE_Reduce /\ Index(code) = at - begin
      BY <1>2, <2>7, <2>12, <2>15, <2>17, <3>1, MadeIs
    <3>3. ~ IsShift(code) /\ IsReduce(code)
      BY <1>2, <2>15, <3>2 DEF IsShift, IsReduce
    <3>4. s \in DOMAIN starts /\ starts[s] = begin
      BY <2>6 DEF With
    <3>5. ReduceAt(made, code, s) = at
      BY <2>9, <2>12, <3>2, <3>4 DEF ReduceAt
    <3> QED
      BY <1>2, <2>9, <2>12, <2>16, <3>1, <3>2, <3>3, <3>4, <3>5 DEF MeansReduce
  <2> QED
    BY <2>8, <2>13, <2>14, <2>16, <2>17
<1> QED
  BY <1>1, <1>2

\* What EncodeReductions has after some of them.
EncodedSoFar(tmp, shifts, reds, s, n, acc) ==
  /\ TempIn(acc.tmp) /\ Grown(tmp, acc.tmp)
  /\ acc.codes \in Seq(Int) /\ Len(acc.codes) = Len(shifts) + n
  /\ \A i \in DOMAIN shifts : acc.codes[i] = shifts[i]
  /\ \A i \in 1..n : ~ TooWide(acc.codes[Len(shifts) + i]) =>
                       MeansReduce(acc.tmp, acc.codes[Len(shifts) + i], reds[i], s)
OneMore(acc, p, s) ==
  [tmp |-> EncodeReduce(acc.tmp, p, s).tmp,
   codes |-> Append(acc.codes, EncodeReduce(acc.tmp, p, s).code)]

LEMMA OneMoreEncoded ==
  ASSUME NEW tmp, TempIn(tmp), NEW shifts \in Seq(Int), NEW reds \in Seq(Nat \ {0}),
         NEW s \in StateIds, NEW n \in Nat, n + 1 \in DOMAIN reds,
         NEW acc, EncodedSoFar(tmp, shifts, reds, s, n, acc)
  PROVE  EncodedSoFar(tmp, shifts, reds, s, n + 1, OneMore(acc, reds[n + 1], s))
<1>1. PICK old, codes : old = acc.tmp /\ codes = acc.codes
  OBVIOUS
<1>2. PICK p \in Nat \ {0} : p = reds[n + 1]
  OBVIOUS
<1>3. PICK e : e = EncodeReduce(old, p, s)
  OBVIOUS
<1>4. PICK new, code : new = e.tmp /\ code = e.code
  OBVIOUS
<1>5. TempIn(old) /\ Grown(tmp, old) /\ codes \in Seq(Int) /\ Len(codes) = Len(shifts) + n
  BY <1>1 DEF EncodedSoFar
<1>6. /\ TempIn(new) /\ Grown(old, new) /\ code \in Int
      /\ ~ TooWide(code) => MeansReduce(new, code, p, s)
  BY <1>3, <1>4, <1>5, ReduceEncoded
<1>7. Grown(tmp, new)
  BY <1>5, <1>6, GrownMore
<1>8. PICK more : more = Append(codes, code)
  OBVIOUS
<1>9. Len(shifts) \in Nat
  OBVIOUS
<1>10. /\ more \in Seq(Int) /\ Len(more) = Len(shifts) + (n + 1)
       /\ \A i \in 1..(Len(shifts) + n) : more[i] = codes[i]
       /\ more[Len(shifts) + (n + 1)] = code
  <2>1. PICK m \in Nat : m = Len(shifts) + n /\ m + 1 = Len(shifts) + (n + 1)
    BY <1>9
  <2>2. Len(codes) = m /\ codes \in Seq(Int) /\ code \in Int
    BY <1>5, <1>6, <2>1
  <2>3. /\ more \in Seq(Int) /\ Len(more) = m + 1
        /\ \A i \in 1..m : more[i] = codes[i]
        /\ more[m + 1] = code
    BY ONLY <1>8, <2>2, m \in Nat
  <2> QED
    BY <2>1, <2>3
<1>11. \A i \in DOMAIN shifts : more[i] = shifts[i]
  <2> TAKE i \in DOMAIN shifts
  <2>1. i \in 1..(Len(shifts) + n)
    BY <1>9
  <2> QED
    BY <1>1, <1>10, <2>1 DEF EncodedSoFar
<1>12. ASSUME NEW i \in 1..(n + 1), ~ TooWide(more[Len(shifts) + i])
       PROVE  MeansReduce(new, more[Len(shifts) + i], reds[i], s)
  <2>1. CASE i = n + 1
    BY <1>2, <1>6, <1>10, <1>12, <2>1
  <2>2. CASE i # n + 1
    <3>1. i \in 1..n /\ Len(shifts) + i \in 1..(Len(shifts) + n)
      BY <1>9, <2>2
    <3>2. more[Len(shifts) + i] = codes[Len(shifts) + i]
      BY <1>10, <3>1
    <3>3. MeansReduce(old, codes[Len(shifts) + i], reds[i], s)
      BY <1>1, <1>12, <3>1, <3>2 DEF EncodedSoFar
    <3> QED
      BY <1>5, <1>6, <3>2, <3>3, ReduceStaysMeant
  <2> QED
    BY <2>1, <2>2
<1>13. PICK made : made = OneMore(acc, reds[n + 1], s)
  OBVIOUS
<1>14. made.tmp = new /\ made.codes = more
  BY <1>1, <1>2, <1>3, <1>4, <1>8, <1>13 DEF OneMore
<1>15. EncodedSoFar(tmp, shifts, reds, s, n + 1, made)
  BY <1>6, <1>7, <1>10, <1>11, <1>12, <1>14 DEF EncodedSoFar
<1> QED
  BY <1>13, <1>15

LEMMA ReductionsEncoded ==
  ASSUME NEW tmp, TempIn(tmp), NEW shifts \in Seq(Int), NEW reds \in Seq(Nat \ {0}),
         NEW s \in StateIds
  PROVE  EncodedSoFar(tmp, shifts, reds, s, Len(reds), EncodeReductions(tmp, shifts, reds, s))
<1> DEFINE n == Len(reds)
           Temps == [prodList : Seq(Int), prodStart : Starts, ambigList : Seq(Int),
                     ambigStart : Starts]
           All0 == [tmp : Temps, codes : Seq(Int)]
           Good(k) == {a \in All0 : EncodedSoFar(tmp, shifts, reds, s, k, a)}
           V == [k \in 0..n |-> Good(k)]
           v0 == [tmp |-> tmp, codes |-> shifts]
           step == [e \in (1..n) \X All0 |-> OneMore(e[2], reds[e[1]], s)]
           IsAfter(f) == f = [k \in 0..n |-> IF k = 0 THEN v0 ELSE OneMore(f[k - 1], reds[k], s)]
<1>1. n \in Nat /\ DOMAIN reds = 1..n /\ 0 \in 0..n /\ n \in 0..n
      /\ \A k \in 1..n : k \in 0..n /\ k # 0 /\ k - 1 \in 0..n /\ k - 1 \in Nat /\ (k - 1) + 1 = k
  OBVIOUS
<1>2. \A x : TempIn(x) => x \in Temps
  BY DEF TempIn
<1>3. v0 \in Good(0)
  <2>1. v0 \in All0
    BY <1>2
  <2>2. EncodedSoFar(tmp, shifts, reds, s, 0, v0)
    <3>1. Len(shifts) + 0 = Len(shifts) /\ 1..0 = {}
      OBVIOUS
    <3> QED
      BY <3>1, NotGrown DEF EncodedSoFar
  <2> QED
    BY <2>1, <2>2
<1>4. ASSUME NEW k \in 1..n, NEW v \in Good(k - 1) PROVE OneMore(v, reds[k], s) \in Good(k)
  <2>1. EncodedSoFar(tmp, shifts, reds, s, k, OneMore(v, reds[k], s))
    <3>1. PICK m \in Nat : m + 1 = k /\ m = k - 1
      BY <1>1
    <3>2. EncodedSoFar(tmp, shifts, reds, s, m, v) /\ m + 1 \in DOMAIN reds
      BY <1>1, <3>1
    <3>3. EncodedSoFar(tmp, shifts, reds, s, m + 1, OneMore(v, reds[m + 1], s))
      BY <3>2, OneMoreEncoded
    <3> QED
      BY <3>1, <3>3
  <2>2. PICK made : made = OneMore(v, reds[k], s)
    OBVIOUS
  <2>3. made.tmp \in Temps /\ made.codes \in Seq(Int)
    BY <1>2, <2>1, <2>2 DEF EncodedSoFar
  <2>4. made = [tmp |-> made.tmp, codes |-> made.codes]
    BY <2>2 DEF OneMore
  <2>5. made \in All0
    BY <2>3, <2>4
  <2> QED
    BY <2>1, <2>2, <2>5
<1>5. \E f : IsAfter(f)
  <2>1. v0 \in V[0] /\ \A k \in 1..n : \A v \in V[k - 1] : step[<<k, v>>] \in V[k]
    <3>1. ASSUME NEW k \in 1..n, NEW v \in V[k - 1] PROVE step[<<k, v>>] \in V[k]
      <4>1. v \in Good(k - 1) /\ v \in All0
        BY <1>1
      <4>2. <<k, v>> \in (1..n) \X All0
        BY <4>1
      <4>3. step[<<k, v>>] = OneMore(v, reds[k], s)
        BY <4>2
      <4> QED
        BY <1>1, <1>4, <4>1, <4>3
    <3> QED
      BY <1>1, <1>3, <3>1
  <2>2. PICK f : IsRun(f, n, v0, step, V)
    <3> HIDE DEF V, v0, step, n
    <3>1. n \in Nat
      BY <1>1
    <3> QED
      BY ONLY <2>1, <3>1, IteratedExists
  <2>3. ASSUME NEW k \in 0..n, k # 0 PROVE f[k] = OneMore(f[k - 1], reds[k], s)
    <3>1. k \in 1..n /\ k - 1 \in 0..n
      BY <1>1, <2>3
    <3>2. <<k, f[k - 1]>> \in (1..n) \X All0
      <4>1. f[k - 1] \in V[k - 1]
        BY <2>2, <3>1 DEF IsRun
      <4> QED
        BY <3>1, <4>1
    <3> QED
      BY <2>2, <3>1, <3>2 DEF IsRun
  <2>4. IsAfter(f)
    <3> HIDE DEF V, v0, step, n
    <3> QED
      BY ONLY <2>2, <2>3 DEF IsRun
  <2> QED
    BY <2>4
<1>6. PICK f : IsAfter(f) /\ EncodeReductions(tmp, shifts, reds, s) = f[n]
  <2>1. EncodeReductions(tmp, shifts, reds, s) = (CHOOSE f : IsAfter(f))[n]
    BY DEF EncodeReductions, OneMore
  <2> HIDE DEF IsAfter
  <2> QED
    BY <1>5, <2>1
<1>7. \A k \in 0..n : f[k] \in V[k]
  <2>1. f[0] \in V[0]
    BY <1>1, <1>3, <1>6
  <2>2. ASSUME NEW k \in 1..n, f[k - 1] \in V[k - 1] PROVE f[k] \in V[k]
    <3>1. f[k] = OneMore(f[k - 1], reds[k], s)
      BY <1>1, <1>6
    <3>2. f[k - 1] \in Good(k - 1)
      BY <1>1, <2>2
    <3> QED
      BY <1>1, <1>4, <3>1, <3>2
  <2> HIDE DEF V, n
  <2> QED
    BY <1>1, <2>1, <2>2, StaysIn
<1>8. f[n] \in Good(n)
  BY <1>1, <1>7
<1> QED
  BY <1>6, <1>8

LEMMA EntryIs ==
  ASSUME NEW a \in Seq(Int), NEW entry, entry = <<Len(a)>> \o a
  PROVE  /\ entry \in Seq(Int) /\ Len(entry) = Len(a) + 1 /\ entry[1] = Len(a)
         /\ \A j \in 1..Len(a) : entry[j + 1] = a[j]
<1>1. PICK n \in Nat : n = Len(a)
  OBVIOUS
<1>2. PICK h : h = <<n>>
  OBVIOUS
<1>3. h \in Seq(Int) /\ Len(h) = 1 /\ h[1] = n
  BY <1>2
<1>4. entry = h \o a
  BY <1>1, <1>2
<1>5. entry \in Seq(Int) /\ Len(entry) = 1 + n
  <2>1. PICK u \in Seq(Int), v \in Seq(Int) : u = h /\ v = a
    BY <1>1, <1>3
  <2>2. u \o v \in Seq(Int) /\ Len(u \o v) = Len(u) + Len(v)
    OBVIOUS
  <2> QED
    BY <1>1, <1>3, <1>4, <2>1, <2>2
<1>6. entry[1] = n
  <2>1. 1 \in 1..(Len(h) + Len(a)) /\ 1 <= Len(h)
    BY <1>1, <1>3
  <2> QED
    BY <1>3, <1>4, <2>1
<1>7. ASSUME NEW j \in 1..n PROVE entry[j + 1] = a[j]
  <2>1. j + 1 \in 1..(Len(h) + Len(a)) /\ j + 1 > Len(h) /\ (j + 1) - Len(h) = j
    BY <1>1, <1>3
  <2> QED
    BY <1>3, <1>4, <2>1
<1> QED
  BY <1>1, <1>5, <1>6, <1>7

LEMMA PutInList ==
  ASSUME NEW list \in Seq(Int), NEW a \in Seq(Int), NEW entry, entry = <<Len(a)>> \o a
  PROVE  /\ list \o entry \in Seq(Int) /\ ListGrown(list, list \o entry)
         /\ Listed(list \o entry, Len(list) + 1, a)
<1>1. PICK n \in Nat, m \in Nat : n = Len(a) /\ m = Len(list)
  OBVIOUS
<1>2. /\ entry \in Seq(Int) /\ Len(entry) = n + 1 /\ entry[1] = n
      /\ \A j \in 1..n : entry[j + 1] = a[j]
  BY <1>1, EntryIs
<1>3. PICK new : new = list \o entry
  OBVIOUS
<1>4. new \in Seq(Int) /\ Len(new) = m + (n + 1)
  <2>1. PICK v \in Seq(Int) : v = entry
    BY <1>2
  <2>2. list \o v \in Seq(Int) /\ Len(list \o v) = Len(list) + Len(v)
    OBVIOUS
  <2> QED
    BY <1>1, <1>2, <1>3, <2>1, <2>2
<1>5. \A i \in 1..m : new[i] = list[i]
  BY ONLY <1>1, <1>2, <1>3, list \in Seq(Int)
<1>6. \A i \in 1..(n + 1) : new[m + i] = entry[i]
  <2> TAKE i \in 1..(n + 1)
  <2>1. m + i \in 1..(m + (n + 1)) /\ m + i > m /\ (m + i) - m = i
    BY <1>1
  <2> QED
    BY <1>1, <1>2, <1>3, <2>1
<1>7. ListGrown(list, new)
  BY <1>1, <1>4, <1>5 DEF ListGrown
<1>8. new[m + 1] = n
  BY <1>1, <1>2, <1>6
<1>9. \A j \in 1..n : new[(m + 1) + j] = a[j]
  <2> TAKE j \in 1..n
  <2>1. j + 1 \in 1..(n + 1) /\ (m + 1) + j = m + (j + 1)
    BY <1>1
  <2> QED
    BY <1>2, <1>6, <2>1
<1>10. Listed(new, m + 1, a)
  <2>1. m + 1 \in DOMAIN new /\ (m + 1) + n <= Len(new) /\ DOMAIN a = 1..n
    BY <1>1, <1>4
  <2> QED
    BY <1>1, <1>8, <1>9, <2>1 DEF Listed
<1> QED
  BY <1>1, <1>3, <1>4, <1>7, <1>10

LEMMA FoundInList ==
  ASSUME NEW list \in Seq(Int), NEW a \in Seq(Int), NEW entry, entry = <<Len(a)>> \o a,
         NEW i \in Nat \ {0}, i + Len(a) <= Len(list), SubSeq(list, i, i + Len(a)) = entry
  PROVE  Listed(list, i, a)
<1>1. PICK n \in Nat, m \in Nat : n = Len(a) /\ m = Len(list)
  OBVIOUS
<1>2. /\ entry[1] = n
      /\ \A j \in 1..n : entry[j + 1] = a[j]
  BY <1>1, EntryIs
<1>3. i \in 1..m /\ i + n \in 1..m /\ i + n <= m
  BY <1>1
<1>4. \A k \in 1..(n + 1) : entry[k] = list[i + k - 1]
  <2> TAKE k \in 1..(n + 1)
  <2>1. k \in 1..((i + n) - i + 1)
    BY <1>1
  <2> QED
    BY <1>1, <1>3, <2>1
<1>5. list[i] = n
  <2>1. 1 \in 1..(n + 1) /\ i + 1 - 1 = i
    BY <1>1
  <2>2. entry[1] = list[i + 1 - 1]
    BY <1>4, <2>1
  <2> QED
    BY <1>2, <2>1, <2>2
<1>6. \A j \in 1..n : list[i + j] = a[j]
  <2> TAKE j \in 1..n
  <2>1. j + 1 \in 1..(n + 1) /\ i + (j + 1) - 1 = i + j
    BY <1>1
  <2>2. entry[j + 1] = list[i + (j + 1) - 1]
    BY <1>4, <2>1
  <2> QED
    BY <1>2, <2>1, <2>2
<1>7. i \in DOMAIN list /\ DOMAIN a = 1..n /\ i + n <= Len(list)
  BY <1>1, <1>3
<1> QED
  BY <1>1, <1>5, <1>6, <1>7 DEF Listed

AmbigBegin(tmp, s) == StartOf(tmp.ambigStart, s, Len(tmp.ambigList) + 1)
AmbigFound(tmp, a, s) == EntryIn(tmp.ambigList, AmbigBegin(tmp, s), <<Len(a)>> \o a)
AmbigPlace(tmp, a, s) ==
  IF build.crs /\ AmbigFound(tmp, a, s) # {} THEN Min(AmbigFound(tmp, a, s))
  ELSE Len(tmp.ambigList) + 1
EncodedAmbig(tmp, a, s) ==
  [tmp |-> [tmp EXCEPT !.ambigList = IF AmbigPlace(tmp, a, s) = Len(tmp.ambigList) + 1
                                     THEN @ \o (<<Len(a)>> \o a) ELSE @,
                       !.ambigStart = IF build.crs THEN With(@, s, AmbigBegin(tmp, s)) ELSE @],
   code |-> IF build.crs THEN MakeAE(AE_Ambiguous, AmbigPlace(tmp, a, s) - AmbigBegin(tmp, s))
            ELSE Cardinality(StateIds) + AmbigPlace(tmp, a, s)]

LEMMA EncodeAmbigIs ==
  ASSUME NEW tmp, NEW a, NEW s
  PROVE  EncodeAmbig(tmp, a, s) = EncodedAmbig(tmp, a, s)
BY DEF EncodeAmbig, EncodedAmbig, AmbigPlace, AmbigFound, AmbigBegin

LEMMA AmbigEncoded ==
  ASSUME SetsIn(grammar, sets), NEW tmp, TempIn(tmp), NEW a \in Seq(Int), NEW s \in StateIds,
         NEW e, e = EncodeAmbig(tmp, a, s)
  PROVE  /\ TempIn(e.tmp) /\ Grown(tmp, e.tmp) /\ e.code \in Int
         /\ ~ TooWide(e.code) =>
              /\ ~ IsShift(e.code) /\ ~ IsReduce(e.code) /\ ~ IsErrorAction(e.code)
              /\ build.crs => s \in DOMAIN e.tmp.ambigStart
              /\ Listed(e.tmp.ambigList, AmbigAt(e.tmp, e.code, s), a)
<1>1. PICK list \in Seq(Int), n \in Nat, m \in Nat :
        list = tmp.ambigList /\ n = Len(a) /\ m = Len(list)
  BY DEF TempIn
<1>2. PICK entry : entry = <<n>> \o a
  OBVIOUS
<1>3. entry \in Seq(Int) /\ Len(entry) = n + 1
  BY <1>1, <1>2, EntryIs
<1>4. PICK begin : begin = StartOf(tmp.ambigStart, s, m + 1)
  OBVIOUS
<1>5. PICK found : found = EntryIn(list, begin, entry)
  OBVIOUS
<1>6. PICK at : at = IF build.crs /\ found # {} THEN Min(found) ELSE m + 1
  OBVIOUS
<1>41. begin = AmbigBegin(tmp, s)
  BY <1>1, <1>4 DEF AmbigBegin
<1>42. at = AmbigPlace(tmp, a, s)
  <2>1. found = AmbigFound(tmp, a, s)
    BY <1>1, <1>2, <1>5, <1>41 DEF AmbigFound
  <2> QED
    BY <1>1, <1>6, <2>1 DEF AmbigPlace
<1>7. PICK new : new = IF at = m + 1 THEN list \o entry ELSE list
  OBVIOUS
<1>8. PICK starts : starts = IF build.crs THEN With(tmp.ambigStart, s, begin) ELSE tmp.ambigStart
  OBVIOUS
<1>9. PICK made, code : made = e.tmp /\ code = e.code
  OBVIOUS
<1>10. /\ made = [prodList |-> tmp.prodList, prodStart |-> tmp.prodStart,
                  ambigList |-> new, ambigStart |-> starts]
       /\ code = IF build.crs THEN MakeAE(AE_Ambiguous, at - begin)
                 ELSE Cardinality(StateIds) + at
  <2>1. e.tmp = [tmp EXCEPT !.ambigList = new, !.ambigStart = starts]
    <3>1. PICK x : x = EncodedAmbig(tmp, a, s).tmp
      OBVIOUS
    <3>2. x = [tmp EXCEPT !.ambigList = IF at = m + 1 THEN @ \o entry ELSE @,
                          !.ambigStart = IF build.crs THEN With(@, s, begin) ELSE @]
      BY <1>1, <1>2, <1>41, <1>42, <3>1 DEF EncodedAmbig
    <3> QED
      BY <1>1, <1>7, <1>8, <3>1, <3>2, EncodeAmbigIs
  <2>2. e.code = IF build.crs THEN MakeAE(AE_Ambiguous, at - begin)
                 ELSE Cardinality(StateIds) + at
    BY <1>41, <1>42, EncodeAmbigIs DEF EncodedAmbig
  <2> QED
    BY <1>9, <2>1, <2>2 DEF TempIn
<1>11. ListGrown(list, list)
  BY DEF ListGrown
<1>12. new \in Seq(Int) /\ ListGrown(list, new)
  BY <1>1, <1>2, <1>7, <1>11, PutInList
<1>13. StartsIn(tmp.ambigStart, list)
  BY <1>1 DEF TempIn
<1>14. begin \in 1..(m + 1)
  BY <1>1, <1>4, <1>12, <1>13, StartIs
<1>15. StartsIn(starts, new) /\ StartsKept(tmp.ambigStart, starts)
  <2>1. CASE build.crs
    <3>1. StartsIn(starts, new)
      BY <1>1, <1>4, <1>8, <1>12, <1>13, <2>1, StartIs
    <3>2. StartsKept(tmp.ambigStart, starts)
      BY <1>1, <1>4, <1>8, <1>12, <1>13, <2>1, StartIs
    <3> QED
      BY <3>1, <3>2
  <2>2. CASE ~ build.crs
    <3>1. StartsIn(tmp.ambigStart, new)
      BY <1>1, <1>12, <1>13, StartIs
    <3> QED
      BY <1>8, <2>2, <3>1 DEF StartsKept
  <2> QED
    BY <2>1, <2>2
<1>16. starts \in Starts
  <2>1. begin \in Int /\ tmp.ambigStart \in Starts
    BY <1>14 DEF TempIn
  <2> QED
    BY <1>8, <2>1, StartMore
<1>17. TempIn(made)
  <2>1. StartsIn(tmp.prodStart, tmp.prodList)
    BY DEF TempIn
  <2> QED
    BY <1>10, <1>12, <1>15, <1>16, <2>1 DEF TempIn
<1>18. Grown(tmp, made)
  <2>1. ListGrown(tmp.prodList, tmp.prodList) /\ StartsKept(tmp.prodStart, tmp.prodStart)
    BY DEF TempIn, ListGrown, StartsKept
  <2> QED
    BY <1>1, <1>10, <1>12, <1>15, <2>1 DEF Grown
<1>19. at - begin \in Nat /\ at \in Nat \ {0} /\ begin + (at - begin) = at /\ Listed(new, at, a)
  <2>1. CASE build.crs /\ found # {}
    <3>1. found \in SUBSET Nat
      <4>1. \A x \in found : x \in begin..(m + 1 - (n + 1))
        BY <1>1, <1>3, <1>5 DEF EntryIn
      <4>2. \A x \in begin..(m + 1 - (n + 1)) : x \in Nat
        BY <1>1, <1>14
      <4> QED
        BY <4>1, <4>2
    <3>2. at \in found
      BY <1>6, <2>1, <3>1, MinIs
    <3>3. at \in begin..(m + 1 - (n + 1)) /\ SubSeq(list, at, at + n) = entry
      <4>1. at \in begin..(m + 1 - (n + 1)) /\ SubSeq(list, at, at + (n + 1) - 1) = entry
        BY <1>1, <1>3, <1>5, <3>2 DEF EntryIn
      <4>2. at + (n + 1) - 1 = at + n
        BY <1>1, <1>14, <4>1
      <4> QED
        BY <4>1, <4>2
    <3>4. at \in Nat \ {0} /\ at + n <= m /\ at # m + 1 /\ at - begin \in Nat
          /\ begin + (at - begin) = at
      BY <1>14, <3>3
    <3>5. Listed(list, at, a)
      BY <1>1, <1>2, <3>3, <3>4, FoundInList
    <3> QED
      BY <1>7, <3>4, <3>5
  <2>2. CASE ~ (build.crs /\ found # {})
    <3>1. at = m + 1
      BY <1>6, <2>2
    <3>2. Listed(new, at, a)
      BY <1>1, <1>2, <1>7, <3>1, PutInList
    <3> QED
      BY <1>14, <3>1, <3>2
  <2> QED
    BY <2>1, <2>2
<1>20. AE_Ambiguous \in 0..2 /\ AE_Ambiguous = 2
  BY DEF AE_Ambiguous
<1>21. PICK N \in Nat : N = Cardinality(StateIds)
  BY StateIdsAre
<1>22. code \in Int
  <2>1. build.crs => code \in Int
    BY <1>10, <1>19, <1>20, MadeWide
  <2> QED
    BY <1>10, <1>19, <1>21, <2>1
<1>23. ASSUME ~ TooWide(code)
       PROVE  /\ ~ IsShift(code) /\ ~ IsReduce(code) /\ ~ IsErrorAction(code)
              /\ build.crs => s \in DOMAIN made.ambigStart
              /\ AmbigAt(made, code, s) = at
  <2>1. CASE build.crs
    <3>1. ~ IsErrorAction(code) /\ Kind(code) = 2 /\ Index(code) = at - begin
      BY <1>10, <1>19, <1>20, <1>23, <2>1, MadeIs
    <3>2. ~ IsShift(code) /\ ~ IsReduce(code)
      BY <2>1, <3>1 DEF IsShift, IsReduce, AE_Shift, AE_Reduce
    <3>3. s \in DOMAIN starts /\ starts[s] = begin
      BY <1>8, <2>1 DEF With
    <3>4. AmbigAt(made, code, s) = at
      BY <1>10, <1>19, <2>1, <3>1, <3>3 DEF AmbigAt
    <3> QED
      BY <1>10, <3>1, <3>2, <3>3, <3>4
  <2>2. CASE ~ build.crs
    <3>1. code = N + at /\ code \notin 1..N /\ ~ code < 0 /\ code # 0 /\ code - N = at
      BY <1>10, <1>19, <1>21, <2>2
    <3> QED
      BY <1>21, <2>2, <3>1 DEF IsShift, IsReduce, IsErrorAction, ErrorAction, AmbigAt
  <2> QED
    BY <2>1, <2>2
<1>24. made.ambigList = new
  BY <1>10
<1> QED
  BY <1>9, <1>17, <1>18, <1>19, <1>22, <1>23, <1>24

(* The codes of the actions of a cell.                                     *)
LEMMA ShiftsEncoded ==
  ASSUME SoundGrammar(grammar), SetsIn(grammar, sets), NEW s \in StateIds, NEW t,
         NEW cell, CellOf(cell, Shifts(s, t), Reds(s, t)), NEW shifts,
         shifts = IF cell.shift = NoState THEN << >> ELSE <<EncodeShift(cell.shift, t)>>
  PROVE  /\ shifts \in Seq(Int) /\ Len(shifts) = Shifted(cell) /\ Shifted(cell) \in {0, 1}
         /\ Shifted(cell) = 1 /\ ~ TooWide(shifts[1]) => MeansShift(shifts[1], cell.shift, t)
<1>1. CASE cell.shift = NoState
  BY <1>1 DEF Shifted
<1>2. CASE cell.shift # NoState
  <2>1. cell.shift \in Shifts(s, t)
    BY DEF CellOf
  <2>2. PICK code : code = EncodeShift(cell.shift, t)
    OBVIOUS
  <2>3. code \in Int /\ (~ TooWide(code) => MeansShift(code, cell.shift, t))
    BY <1>2, <2>1, <2>2, ShiftEncoded
  <2>4. shifts = <<code>>
    BY <1>2, <2>2
  <2> QED
    BY <1>2, <2>3, <2>4 DEF Shifted
<1> QED
  BY <1>1, <1>2

LEMMA CodesMean ==
  ASSUME NEW tmp, NEW cell, NEW s, NEW t, NEW shifts \in Seq(Int), NEW S,
         cell.reds \in Seq(S), Len(shifts) = Shifted(cell), Shifted(cell) \in {0, 1},
         Shifted(cell) = 1 /\ ~ TooWide(shifts[1]) => MeansShift(shifts[1], cell.shift, t),
         NEW all, EncodedSoFar(tmp, shifts, cell.reds, s, Len(cell.reds), all),
         ~ (Truncated \in ToSymbolSet(all.codes) /\ build.crs)
  PROVE  MeansList(all.tmp, all.codes, cell, s, t)
<1>1. PICK n \in Nat, m \in {0, 1}, codes \in Seq(Int) :
        n = Len(cell.reds) /\ m = Len(shifts) /\ codes = all.codes
  BY DEF EncodedSoFar
<1>2. Len(codes) = m + n /\ DOMAIN codes = 1..(m + n)
  BY <1>1 DEF EncodedSoFar
<1>3. \A i \in 1..(m + n) : ~ TooWide(codes[i])
  <2> TAKE i \in 1..(m + n)
  <2>1. codes[i] \in ToSymbolSet(codes)
    BY <1>2 DEF ToSymbolSet
  <2> QED
    BY <1>1, <2>1 DEF TooWide
<1>4. ASSUME m = 1 PROVE MeansShift(codes[1], cell.shift, t)
  <2>1. 1 \in DOMAIN shifts /\ 1 \in 1..(m + n)
    BY <1>1, <1>4
  <2>2. codes[1] = shifts[1]
    BY <1>1, <2>1 DEF EncodedSoFar
  <2> QED
    BY <1>1, <1>3, <1>4, <2>1, <2>2
<1>5. ASSUME NEW i \in 1..n PROVE MeansReduce(all.tmp, codes[m + i], cell.reds[i], s)
  <2>1. m + i \in 1..(m + n)
    BY <1>1
  <2>2. ~ TooWide(codes[m + i])
    BY <1>3, <2>1
  <2> QED
    BY <1>1, <2>2 DEF EncodedSoFar
<1> QED
  BY <1>1, <1>2, <1>4, <1>5 DEF MeansList

LEMMA CellEncoded ==
  ASSUME SoundGrammar(grammar), SetsIn(grammar, sets), NEW tmp, TempIn(tmp),
         NEW s \in StateIds, NEW t, NEW cell, CellOf(cell, Shifts(s, t), Reds(s, t)),
         Reds(s, t) \subseteq Prods, NEW e, e = EncodeCell(tmp, cell, s, t)
  PROVE  /\ TempIn(e.tmp) /\ Grown(tmp, e.tmp) /\ e.code \in Int
         /\ ~ TooWide(e.code) => CodeMeans(e.tmp, e.code, cell, s, t)
<1>1. cell.reds \in Seq(Reds(s, t)) /\ cell.reds \in Seq(Nat \ {0})
  <2>1. cell.reds \in Seq(Reds(s, t))
    BY DEF CellOf
  <2>2. Prods \subseteq Nat \ {0}
    BY DEF SoundGrammar, IsList, Prods
  <2>3. PICK S : S = Reds(s, t)
    OBVIOUS
  <2>4. S \subseteq Nat \ {0} /\ cell.reds \in Seq(S)
    BY <2>1, <2>2, <2>3
  <2>5. cell.reds \in Seq(Nat \ {0})
    <3>1. PICK f \in Seq(S) : f = cell.reds
      BY <2>4
    <3>2. PICK n \in Nat : n = Len(f) /\ f \in [1..n -> S]
      OBVIOUS
    <3>3. f \in [1..n -> Nat \ {0}]
      BY <2>4, <3>2
    <3>4. f \in Seq(Nat \ {0})
      BY <3>3, IsSequence
    <3> QED
      BY <3>1, <3>4
  <2> QED
    BY <2>1, <2>5
<1>2. PICK shifts : shifts = IF cell.shift = NoState THEN << >> ELSE <<EncodeShift(cell.shift, t)>>
  OBVIOUS
<1>3. /\ shifts \in Seq(Int) /\ Len(shifts) = Shifted(cell) /\ Shifted(cell) \in {0, 1}
      /\ Shifted(cell) = 1 /\ ~ TooWide(shifts[1]) => MeansShift(shifts[1], cell.shift, t)
  BY <1>2, ShiftsEncoded
<1>4. PICK reds \in Seq(Nat \ {0}), n \in Nat : reds = cell.reds /\ n = Len(cell.reds)
  BY <1>1
<1>5. PICK all : all = EncodeReductions(tmp, shifts, reds, s)
  OBVIOUS
<1>6. EncodedSoFar(tmp, shifts, reds, s, n, all)
  BY <1>3, <1>4, <1>5, ReductionsEncoded
<1>70. PICK codes \in Seq(Int) : codes = all.codes
  BY <1>6 DEF EncodedSoFar
<1>71. PICK made : made = all.tmp
  OBVIOUS
<1>7. codes = all.codes /\ made = all.tmp
  BY <1>70, <1>71
<1>8. TempIn(made) /\ Grown(tmp, made) /\ Len(codes) = Shifted(cell) + n
  BY <1>3, <1>6, <1>7 DEF EncodedSoFar
<1>9. Actions(cell) = Len(codes)
  <2>1. Actions(cell) = n + IF cell.shift = NoState THEN 0 ELSE 1
    BY <1>4 DEF Actions
  <2>2. CASE cell.shift = NoState
    BY <1>8, <2>1, <2>2 DEF Shifted
  <2>3. CASE cell.shift # NoState
    BY <1>8, <2>1, <2>3 DEF Shifted
  <2> QED
    BY <2>2, <2>3
<1>10. CASE codes = << >>
  <2>1. e = [tmp |-> tmp, code |-> ErrorAction]
    BY <1>2, <1>4, <1>5, <1>7, <1>10 DEF EncodeCell
  <2>2. ErrorAction \in Int
    BY BuildsAssumption DEF ErrorAction
  <2>3. Actions(cell) = 0
    BY <1>9, <1>10
  <2> QED
    BY <2>1, <2>2, <2>3, NotGrown DEF CodeMeans
<1>11. CASE codes # << >> /\ Truncated \in ToSymbolSet(codes) /\ build.crs
  <2>1. e = [tmp |-> tmp, code |-> Truncated]
    BY <1>2, <1>4, <1>5, <1>7, <1>11 DEF EncodeCell
  <2> QED
    BY <1>11, <2>1, NotGrown DEF TooWide, Truncated
<1>12. ASSUME codes # << >>, ~ (Truncated \in ToSymbolSet(codes) /\ build.crs)
       PROVE  MeansList(made, codes, cell, s, t)
  BY <1>1, <1>3, <1>4, <1>6, <1>7, <1>12, CodesMean
<1>13. CASE Len(codes) = 1 /\ ~ (Truncated \in ToSymbolSet(codes) /\ build.crs)
  <2>1. codes # << >> /\ codes = <<codes[1]>> /\ codes[1] \in Int
    <3>1. PICK k \in Nat : k = Len(codes) /\ codes \in [1..k -> Int]
      OBVIOUS
    <3>11. k = 1
      BY <1>13, <3>1
    <3>12. codes \in [1..1 -> Int]
      BY <3>1, <3>11
    <3>13. codes # << >>
      <4>1. 1 \in DOMAIN codes /\ 1 \notin DOMAIN << >>
        BY <3>12
      <4> QED
        BY <4>1
    <3>2. codes[1] \in Int /\ codes # << >> /\ codes \in [1..1 -> Int]
      BY <3>12, <3>13
    <3>3. codes = <<codes[1]>>
      <4>1. PICK c \in Int : c = codes[1]
        BY <3>2
      <4>2. <<c>> \in [1..1 -> Int] /\ <<c>>[1] = c
        OBVIOUS
      <4> QED
        BY <3>2, <4>1, <4>2
    <3> QED
      BY <3>2, <3>3
  <2>2. e = [tmp |-> made, code |-> codes[1]]
    BY <1>2, <1>4, <1>5, <1>7, <1>13, <2>1 DEF EncodeCell
  <2>3. MeansList(made, <<codes[1]>>, cell, s, t)
    BY <1>12, <1>13, <2>1
  <2>4. Actions(cell) = 1 /\ codes[1] \in Int
    BY <1>9, <1>13, <2>1
  <2>5. CodeMeans(made, codes[1], cell, s, t)
    BY <2>3, <2>4 DEF CodeMeans
  <2> QED
    BY <1>8, <2>2, <2>4, <2>5
<1>14. CASE codes # << >> /\ Len(codes) # 1 /\ ~ (Truncated \in ToSymbolSet(codes) /\ build.crs)
  <2>1. e = EncodeAmbig(made, codes, s)
    BY <1>2, <1>4, <1>5, <1>7, <1>14 DEF EncodeCell
  <2>2. /\ TempIn(e.tmp) /\ Grown(made, e.tmp) /\ e.code \in Int
        /\ ~ TooWide(e.code) =>
              /\ ~ IsShift(e.code) /\ ~ IsReduce(e.code) /\ ~ IsErrorAction(e.code)
              /\ build.crs => s \in DOMAIN e.tmp.ambigStart
              /\ Listed(e.tmp.ambigList, AmbigAt(e.tmp, e.code, s), codes)
    BY <1>8, <2>1, AmbigEncoded
  <2>3. Grown(tmp, e.tmp)
    BY <1>8, <2>2, GrownMore
  <2>4. MeansList(e.tmp, codes, cell, s, t)
    BY <1>8, <1>12, <1>14, <2>2, ListStaysMeant
  <2>5. Actions(cell) > 1
    BY <1>9, <1>14
  <2> QED
    BY <2>2, <2>3, <2>4, <2>5 DEF CodeMeans, MeansAmbig
<1> QED
  <2>1. Len(codes) \in Nat
    OBVIOUS
  <2> QED
    BY <1>10, <1>11, <1>13, <1>14

ShiftsOf(codes) == {i \in DOMAIN codes : IsShift(codes[i])}
ReducesOf(codes) == {i \in DOMAIN codes : IsReduce(codes[i])}

PlacesAre(codes, cell) ==
  /\ Shifted(cell) \in {0, 1} /\ Len(cell.reds) \in Nat
  /\ Len(codes) = Shifted(cell) + Len(cell.reds)
  /\ DOMAIN codes = 1..(Shifted(cell) + Len(cell.reds))
  /\ ShiftsOf(codes) = 1..Shifted(cell)
  /\ ReducesOf(codes) = (Shifted(cell) + 1)..(Shifted(cell) + Len(cell.reds))

LEMMA ListPlaces ==
  ASSUME NEW cell, NEW s, NEW t, NEW S, cell.reds \in Seq(S),
         NEW codes, MeansList(temp, codes, cell, s, t)
  PROVE  PlacesAre(codes, cell)
<1>1. PICK m \in {0, 1}, n \in Nat : m = Shifted(cell) /\ n = Len(cell.reds)
  BY DEF Shifted
<1>2. codes \in Seq(Int) /\ Len(codes) = m + n /\ DOMAIN codes = 1..(m + n)
  BY <1>1 DEF MeansList
<1>3. \A i \in 1..m : i \in DOMAIN codes /\ IsShift(codes[i]) /\ ~ IsReduce(codes[i])
  BY <1>1, <1>2 DEF MeansList, MeansShift
<1>4. \A i \in (m + 1)..(m + n) : i \in DOMAIN codes /\ IsReduce(codes[i]) /\ ~ IsShift(codes[i])
  <2> TAKE i \in (m + 1)..(m + n)
  <2>1. i - m \in 1..n /\ m + (i - m) = i /\ i \in 1..(m + n)
    BY <1>1
  <2>2. MeansReduce(temp, codes[m + (i - m)], cell.reds[i - m], s)
    BY <1>1, <2>1 DEF MeansList
  <2> QED
    BY <1>2, <2>1, <2>2 DEF MeansReduce
<1>5. \A i \in 1..(m + n) : i \in 1..m \/ i \in (m + 1)..(m + n)
  BY <1>1
<1>6. ShiftsOf(codes) = 1..m
  BY <1>2, <1>3, <1>4, <1>5 DEF ShiftsOf
<1>7. ReducesOf(codes) = (m + 1)..(m + n)
  BY <1>2, <1>3, <1>4, <1>5 DEF ReducesOf
<1> QED
  BY <1>1, <1>2, <1>6, <1>7 DEF PlacesAre

DecodedList(codes, s, t) ==
  Cell(IF ShiftsOf(codes) = {} THEN NoState ELSE DecodeShift(codes[Min(ShiftsOf(codes))], t),
       [i \in DOMAIN Selected(codes, ReducesOf(codes)) |->
          DecodeReduce(Selected(codes, ReducesOf(codes))[i], s)])

LEMMA ListDecoded ==
  ASSUME NEW cell, NEW s, NEW t, NEW shifts, NEW S, CellOf(cell, shifts, S),
         NEW codes, MeansList(temp, codes, cell, s, t)
  PROVE  DecodedList(codes, s, t) = cell
<1>1. PICK f \in Seq(S) : f = cell.reds
  BY DEF CellOf
<1>2. PICK m \in {0, 1}, n \in Nat :
        /\ m = Shifted(cell) /\ n = Len(f) /\ Len(codes) = m + n /\ DOMAIN codes = 1..(m + n)
        /\ ShiftsOf(codes) = 1..m /\ ReducesOf(codes) = (m + 1)..(m + n)
  <2>1. cell.reds \in Seq(S)
    BY <1>1
  <2>2. PlacesAre(codes, cell)
    BY <2>1, ListPlaces
  <2> QED
    BY <1>1, <2>2 DEF PlacesAre
<1>3. (IF ShiftsOf(codes) = {} THEN NoState ELSE DecodeShift(codes[Min(ShiftsOf(codes))], t))
        = cell.shift
  <2>1. CASE m = 0
    <3>1. cell.shift = NoState
      BY <1>2, <2>1 DEF Shifted
    <3>2. ShiftsOf(codes) = {}
      BY <1>2, <2>1
    <3> QED
      BY <3>1, <3>2
  <2>2. CASE m = 1
    <3>1. PICK T : T = ShiftsOf(codes)
      OBVIOUS
    <3>2. T = {1}
      <4>1. T = 1..m
        BY <1>2, <3>1
      <4> QED
        BY <2>2, <4>1
    <3>3. T \in SUBSET Nat /\ T # {}
      BY <3>2
    <3>4. Min(T) \in T
      BY <3>3, MinIs
    <3>5. Min(T) = 1
      BY <3>2, <3>4
    <3>6. DecodeShift(codes[1], t) = cell.shift
      BY <1>2, <2>2 DEF MeansList, MeansShift
    <3> QED
      BY <3>1, <3>3, <3>5, <3>6
  <2> QED
    BY <2>1, <2>2
<1>4. PICK reds : reds = Selected(codes, ReducesOf(codes))
  OBVIOUS
<1>5. reds = [k \in 1..n |-> codes[m + k]]
  <2>1. PICK a \in Nat, b \in Nat : a = m /\ b = m + n /\ a <= b /\ b - a = n
    BY <1>2
  <2>2. Selected(codes, (a + 1)..b) = [k \in 1..(b - a) |-> codes[a + k]]
    BY <2>1, SelectedEnd
  <2> QED
    BY <1>2, <1>4, <2>1, <2>2
<1>6. \A i \in 1..n : DecodeReduce(reds[i], s) = f[i]
  <2> TAKE i \in 1..n
  <2>1. MeansReduce(temp, codes[m + i], f[i], s)
    BY <1>1, <1>2 DEF MeansList
  <2>2. reds[i] = codes[m + i]
    BY <1>5
  <2> QED
    BY <2>1, <2>2 DEF MeansReduce, DecodeReduce, ReduceAt
<1>7. [i \in DOMAIN reds |-> DecodeReduce(reds[i], s)] = f
  <2>1. DOMAIN reds = 1..n
    BY <1>5
  <2>2. f = [i \in 1..n |-> f[i]]
    BY <1>2
  <2>3. [i \in 1..n |-> DecodeReduce(reds[i], s)] = [i \in 1..n |-> f[i]]
    BY <1>6
  <2> QED
    BY <2>1, <2>2, <2>3
<1>8. cell = Cell(cell.shift, f)
  BY <1>1 DEF CellOf
<1> QED
  BY <1>3, <1>4, <1>7, <1>8 DEF DecodedList

DecodedCodes(code, s) ==
  IF IsErrorAction(code) THEN << >>
  ELSE IF IsShift(code) \/ IsReduce(code) THEN <<code>> ELSE DecodeAmbig(code, s)

LEMMA DecodedIs ==
  ASSUME NEW code, NEW s, NEW t
  PROVE  Decoded(code, s, t) = DecodedList(DecodedCodes(code, s), s, t)
BY DEF Decoded, DecodedList, DecodedCodes, ShiftsOf, ReducesOf

LEMMA AmbigDecoded ==
  ASSUME TempIn(temp), NEW code, NEW s, NEW a \in Seq(Int),
         Listed(temp.ambigList, AmbigAt(temp, code, s), a)
  PROVE  DecodeAmbig(code, s) = a
<1>1. PICK list \in Seq(Int), n \in Nat, m \in Nat :
        list = temp.ambigList /\ n = Len(a) /\ m = Len(list)
  BY DEF TempIn
<1>2. PICK at : at = AmbigAt(temp, code, s)
  OBVIOUS
<1>3. at \in 1..m /\ list[at] = n /\ at + n <= m /\ \A i \in 1..n : list[at + i] = a[i]
  <2>1. DOMAIN a = 1..n /\ DOMAIN list = 1..m
    BY <1>1
  <2> QED
    BY <1>1, <1>2, <2>1 DEF Listed
<1>4. DecodeAmbig(code, s) = SubSeq(list, at + 1, at + n)
  BY <1>1, <1>2, <1>3 DEF DecodeAmbig, AmbigAt
<1>5. SubSeq(list, at + 1, at + n) = a
  <2>1. a = [i \in 1..n |-> a[i]]
    BY <1>1
  <2>2. (at + n) - (at + 1) + 1 = n
    BY <1>1, <1>3
  <2>3. \A i \in 1..n : list[(at + 1) + i - 1] = a[i]
    <3> TAKE i \in 1..n
    <3>1. (at + 1) + i - 1 = at + i
      BY <1>3
    <3> QED
      BY <1>3, <3>1
  <2>4. SubSeq(list, at + 1, at + n) = [i \in 1..n |-> list[(at + 1) + i - 1]]
    BY <1>1, <1>3, <2>2
  <2> QED
    BY <2>1, <2>3, <2>4
<1> QED
  BY <1>4, <1>5

LEMMA MeansDecoded ==
  ASSUME TempIn(temp), NEW cell, NEW s, NEW t, NEW shifts, NEW S, CellOf(cell, shifts, S),
         NEW code, CodeMeans(temp, code, cell, s, t)
  PROVE  Decoded(code, s, t) = cell /\ (code = ErrorAction <=> Actions(cell) = 0)
<1>1. Actions(cell) \in Nat /\ Len(cell.reds) \in Nat /\ cell.reds \in Seq(S)
      /\ Actions(cell) = IF cell.shift = NoState THEN Len(cell.reds) ELSE Len(cell.reds) + 1
  BY ActionsIs DEF CellOf
<1>2. CASE Actions(cell) = 0
  <2>1. code = ErrorAction
    BY <1>2 DEF CodeMeans
  <2>2. DecodedCodes(code, s) = << >>
    BY <2>1 DEF DecodedCodes, IsErrorAction
  <2>3. Shifted(cell) = 0 /\ Len(cell.reds) = 0
    BY <1>1, <1>2 DEF Shifted
  <2>4. MeansList(temp, << >>, cell, s, t)
    BY <2>3 DEF MeansList
  <2> QED
    BY <1>2, <2>1, <2>2, <2>4, ListDecoded, DecodedIs
<1>3. CASE Actions(cell) = 1
  <2>1. MeansList(temp, <<code>>, cell, s, t)
    BY <1>3 DEF CodeMeans
  <2>2. ~ IsErrorAction(code) /\ (IsShift(code) \/ IsReduce(code))
    <3>1. CASE Shifted(cell) = 1
      <4>1. MeansShift(<<code>>[1], cell.shift, t)
        BY <2>1, <3>1 DEF MeansList
      <4> QED
        BY <4>1 DEF MeansShift
    <3>2. CASE Shifted(cell) = 0
      <4>1. 1 \in 1..Len(cell.reds)
        <5>1. Len(cell.reds) = 1
          BY <1>1, <1>3, <3>2 DEF Shifted
        <5> QED
          BY <5>1
      <4>2. MeansReduce(temp, <<code>>[Shifted(cell) + 1], cell.reds[1], s)
        BY <2>1, <4>1 DEF MeansList
      <4> QED
        BY <3>2, <4>2 DEF MeansReduce
    <3> QED
      BY <3>1, <3>2 DEF Shifted
  <2>3. DecodedCodes(code, s) = <<code>>
    BY <2>2 DEF DecodedCodes
  <2> QED
    BY <1>3, <2>1, <2>2, <2>3, ListDecoded, DecodedIs DEF IsErrorAction
<1>4. CASE Actions(cell) > 1
  <2>1. MeansAmbig(temp, code, cell, s, t)
    BY <1>4 DEF CodeMeans
  <2>2. PICK codes : MeansList(temp, codes, cell, s, t)
                     /\ Listed(temp.ambigList, AmbigAt(temp, code, s), codes)
    BY <2>1 DEF MeansAmbig
  <2>3. ~ IsShift(code) /\ ~ IsReduce(code) /\ ~ IsErrorAction(code)
    BY <2>1 DEF MeansAmbig
  <2>4. DecodeAmbig(code, s) = codes
    BY <2>2, AmbigDecoded DEF MeansList
  <2>5. DecodedCodes(code, s) = codes
    BY <2>3, <2>4 DEF DecodedCodes
  <2>6. Actions(cell) # 0
    BY <1>4
  <2> QED
    BY <2>2, <2>3, <2>5, <2>6, ListDecoded, DecodedIs DEF IsErrorAction
<1> QED
  <2>1. Actions(cell) \in Nat => Actions(cell) = 0 \/ Actions(cell) = 1 \/ Actions(cell) > 1
    OBVIOUS
  <2> QED
    BY <1>1, <1>2, <1>3, <1>4, <2>1, Zenon

-----------------------------------------------------------------------------
(* The coloring of the graph of conflicts: neighbours never have the same  *)
(* color.                                                                  *)
NearSet(graph, x, S) == {y \in S : <<x, y>> \in graph}

LEMMA NearIs ==
  ASSUME NEW S, IsFiniteSet(S), NEW graph, NEW x
  PROVE  Near(graph, x, S) \in Nat
<1>1. NearSet(graph, x, S) \in SUBSET S
  BY DEF NearSet
<1>2. Cardinality(NearSet(graph, x, S)) \in Nat
  BY <1>1, FS_Subset, FS_CardinalityType
<1> QED
  BY <1>2 DEF Near, NearSet

Preferred(graph, colored, others) ==
  {e \in others \X others : ColoredBefore(graph, colored, others, e[1], e[2])}

LEMMA PreferredOrder ==
  ASSUME NEW graph, NEW colored, IsFiniteSet(colored), NEW others \in SUBSET Int,
         IsFiniteSet(others)
  PROVE  TotalOrder(Preferred(graph, colored, others), others)
<1> DEFINE R == Preferred(graph, colored, others)
<1>1. PICK a : a = [x \in others |-> Near(graph, x, colored)]
  OBVIOUS
<1>2. PICK b : b = [x \in others |-> Near(graph, x, others)]
  OBVIOUS
<1>3. \A x \in others : a[x] \in Nat /\ b[x] \in Nat /\ x \in Int
  BY <1>1, <1>2, NearIs
<1>4. ASSUME NEW x \in others, NEW y \in others
      PROVE  <<x, y>> \in R <=>
               \/ a[x] > a[y]
               \/ a[x] = a[y] /\ b[x] < b[y]
               \/ a[x] = a[y] /\ b[x] = b[y] /\ x < y
  BY <1>1, <1>2 DEF Preferred, ColoredBefore
<1> HIDE DEF R
<1>5. \A x \in others : <<x, x>> \notin R
  BY <1>3, <1>4
<1>6. \A x, y \in others : x = y \/ <<x, y>> \in R \/ <<y, x>> \in R
  <2> TAKE x, y \in others
  <2>1. PICK ax, ay, bx, by \in Nat : ax = a[x] /\ ay = a[y] /\ bx = b[x] /\ by = b[y]
    BY <1>3
  <2>2. <<x, y>> \in R <=> ax > ay \/ (ax = ay /\ bx < by) \/ (ax = ay /\ bx = by /\ x < y)
    BY <1>4, <2>1
  <2>3. <<y, x>> \in R <=> ay > ax \/ (ay = ax /\ by < bx) \/ (ay = ax /\ by = bx /\ y < x)
    BY <1>4, <2>1
  <2>4. x \in Int /\ y \in Int
    BY <1>3
  <2> QED
    BY <2>2, <2>3, <2>4
<1>7. \A x, y, z \in others : <<x, y>> \in R /\ <<y, z>> \in R => <<x, z>> \in R
  <2> TAKE x, y, z \in others
  <2>1. PICK ax, ay, az, bx, by, bz \in Nat :
          /\ ax = a[x] /\ ay = a[y] /\ az = a[z] /\ bx = b[x] /\ by = b[y] /\ bz = b[z]
    BY <1>3
  <2>2. <<x, y>> \in R <=> ax > ay \/ (ax = ay /\ bx < by) \/ (ax = ay /\ bx = by /\ x < y)
    BY <1>4, <2>1
  <2>3. <<y, z>> \in R <=> ay > az \/ (ay = az /\ by < bz) \/ (ay = az /\ by = bz /\ y < z)
    BY <1>4, <2>1
  <2>4. <<x, z>> \in R <=> ax > az \/ (ax = az /\ bx < bz) \/ (ax = az /\ bx = bz /\ x < z)
    BY <1>4, <2>1
  <2>5. x \in Int /\ y \in Int /\ z \in Int
    BY <1>3
  <2> QED
    BY <2>2, <2>3, <2>4, <2>5
<1>8. TotalOrder(R, others)
  BY <1>5, <1>6, <1>7 DEF TotalOrder
<1> QED
  BY <1>8 DEF R

LEMMA NextIs ==
  ASSUME NEW graph, NEW colored, IsFiniteSet(colored), NEW others \in SUBSET Int,
         IsFiniteSet(others), others # {}
  PROVE  NextToColor(graph, colored, others) \in others
<1>1. PICK R : R = Preferred(graph, colored, others)
  OBVIOUS
<1>2. TotalOrder(R, others)
  BY <1>1, PreferredOrder
<1>3. 0 \in 0..(Cardinality(others) - 1)
  <2>1. Cardinality(others) \in Nat /\ Cardinality(others) # 0
    BY FS_EmptySet, FS_CardinalityType
  <2> QED
    BY <2>1
<1>4. PICK x \in others : Cardinality(Behind(R, others, x)) = 0
  <2>1. PICK S : S = others
    OBVIOUS
  <2>2. IsFiniteSet(S) /\ TotalOrder(R, S) /\ 0 \in 0..(Cardinality(S) - 1)
    BY <1>2, <1>3, <2>1
  <2>3. \E x \in S : Cardinality(Behind(R, S, x)) = 0
    BY ONLY <2>2, PlaceTaken
  <2> QED
    BY <2>1, <2>3
<1>5. Behind(R, others, x) = {}
  <2>1. Behind(R, others, x) \in SUBSET others
    BY DEF Behind
  <2>2. IsFiniteSet(Behind(R, others, x))
    BY <2>1, FS_Subset
  <2> QED
    BY <1>4, <2>2, FS_EmptySet
<1>6. \A y \in others \ {x} : ColoredBefore(graph, colored, others, x, y)
  <2> TAKE y \in others \ {x}
  <2>1. <<y, x>> \notin R
    BY <1>5 DEF Behind
  <2>2. <<x, y>> \in R
    BY <1>2, <2>1 DEF TotalOrder
  <2> QED
    BY <1>1, <2>2 DEF Preferred
<1> QED
  BY <1>6 DEF NextToColor

UsedIn(used, dom, c) == \A j \in used : \E y \in dom : c[y] = j

LEMMA FreeIs ==
  ASSUME NEW n \in Nat, NEW dom, IsFiniteSet(dom), Cardinality(dom) <= n, NEW c \in [dom -> 0..n],
         NEW used, UsedIn(used, dom, c)
  PROVE  LowestFree(used, n) \in (0..n) \ used
<1>1. (0..n) \ used # {}
  <2> SUFFICES ASSUME (0..n) \subseteq used PROVE FALSE
    OBVIOUS
  <2>1. PICK S : S = 0..n
    OBVIOUS
  <2>2. IsFiniteSet(S) /\ Cardinality(S) = n + 1
    BY <2>1, FS_Interval
  <2>3. Cardinality(dom) \in Nat /\ Cardinality(dom) < Cardinality(S)
    BY <2>2, FS_CardinalityType
  <2>4. PICK g : g = [j \in S |-> CHOOSE y \in dom : c[y] = j]
    OBVIOUS
  <2>5. \A j \in S : g[j] \in dom /\ c[g[j]] = j
    BY <2>1, <2>4 DEF UsedIn
  <2>6. g \in [S -> dom]
    BY <2>4, <2>5
  <2>7. \E x, y \in S : x # y /\ g[x] = g[y]
    BY <2>2, <2>3, <2>6, FS_PigeonHole
  <2> QED
    BY <2>5, <2>7
<1>2. (0..n) \ used \in SUBSET Nat
  OBVIOUS
<1>3. PICK T \in SUBSET Nat : T = (0..n) \ used
  BY <1>2
<1>4. Min(T) \in T
  BY <1>1, <1>3, MinIs
<1> QED
  BY <1>3, <1>4 DEF LowestFree

IsGraph(N, graph) ==
  /\ \A x \in N : <<x, x>> \notin graph
  /\ \A x, y \in N : <<x, y>> \in graph => <<y, x>> \in graph
Colored(N, n, graph, k, c) ==
  /\ DOMAIN c \in SUBSET N /\ c \in [DOMAIN c -> 0..n] /\ Cardinality(DOMAIN c) = k
  /\ \A x, y \in DOMAIN c : <<x, y>> \in graph => c[x] # c[y]

LEMMA ColoredMore ==
  ASSUME NEW n \in Nat, NEW N, N = 0..(n - 1), NEW graph, IsGraph(N, graph), NEW k \in 1..n,
         NEW c, Colored(N, n, graph, k - 1, c)
  PROVE  Colored(N, n, graph, k, OneMoreColored(n, graph, c))
<1>1. PICK dom \in SUBSET N : dom = DOMAIN c
  BY DEF Colored
<1>2. IsFiniteSet(N) /\ Cardinality(N) = n /\ N \in SUBSET Int
  BY FS_Interval
<1>3. IsFiniteSet(dom) /\ Cardinality(dom) = k - 1 /\ Cardinality(dom) <= n
  BY <1>1, <1>2, FS_Subset DEF Colored
<1>4. c \in [dom -> 0..n] /\ \A x, y \in dom : <<x, y>> \in graph => c[x] # c[y]
  BY <1>1 DEF Colored
<1>5. PICK others : others = N \ dom
  OBVIOUS
<1>6. others \in SUBSET Int /\ IsFiniteSet(others) /\ others # {}
  <2>1. others \in SUBSET N
    BY <1>5
  <2>2. IsFiniteSet(others)
    BY <1>2, <2>1, FS_Subset
  <2>3. others # {}
    <3> SUFFICES ASSUME others = {} PROVE FALSE
      OBVIOUS
    <3>1. dom = N
      BY <1>5
    <3> QED
      BY <1>2, <1>3, <3>1
  <2> QED
    BY <1>2, <2>1, <2>2, <2>3
<1>7. PICK x : x = NextToColor(graph, dom, others)
  OBVIOUS
<1>8. x \in others /\ x \in N /\ x \notin dom
  BY <1>3, <1>5, <1>6, <1>7, NextIs
<1>9. PICK used : used = {c[y] : y \in {z \in dom : <<x, z>> \in graph}}
  OBVIOUS
<1>10. PICK col : col = LowestFree(used, n)
  OBVIOUS
<1>11. col \in 0..n /\ col \notin used
  <2>1. UsedIn(used, dom, c)
    BY <1>9 DEF UsedIn
  <2>2. LowestFree(used, n) \in (0..n) \ used
    BY <1>3, <1>4, <2>1, FreeIs
  <2> QED
    BY <1>10, <2>2
<1>12. PICK new : new = OneMoreColored(n, graph, c)
  OBVIOUS
<1>13. new = With(c, x, col)
  BY <1>1, <1>5, <1>7, <1>9, <1>10, <1>12 DEF OneMoreColored
<1>14. DOMAIN new = dom \cup {x} /\ new[x] = col /\ \A y \in dom : new[y] = c[y]
  <2>1. new = [y \in dom \cup {x} |-> IF y = x THEN col ELSE c[y]]
    BY <1>1, <1>13 DEF With
  <2> QED
    BY <1>8, <2>1
<1>15. new \in [dom \cup {x} -> 0..n]
  <2>1. new = [y \in dom \cup {x} |-> IF y = x THEN col ELSE c[y]]
    BY <1>1, <1>13 DEF With
  <2> QED
    BY <1>4, <1>11, <2>1
<1>16. Cardinality(dom \cup {x}) = k
  <2>1. Cardinality(dom \cup {x}) = Cardinality(dom) + 1
    BY <1>3, <1>8, FS_AddElement
  <2> QED
    BY <1>3, <2>1
<1>17. ASSUME NEW y \in dom \cup {x}, NEW z \in dom \cup {x}, <<y, z>> \in graph
       PROVE  new[y] # new[z]
  <2>1. CASE y \in dom /\ z \in dom
    BY <1>4, <1>14, <1>17, <2>1
  <2>2. CASE y = x /\ z = x
    BY <1>8, <1>17, <2>2 DEF IsGraph
  <2>3. CASE y = x /\ z \in dom
    <3>1. c[z] \in used
      BY <1>9, <1>17, <2>3
    <3> QED
      BY <1>11, <1>14, <2>3, <3>1
  <2>4. CASE y \in dom /\ z = x
    <3>1. <<x, y>> \in graph
      BY <1>8, <1>17, <2>4 DEF IsGraph
    <3>2. c[y] \in used
      BY <1>9, <2>4, <3>1
    <3> QED
      BY <1>11, <1>14, <2>4, <3>2
  <2> QED
    BY <2>1, <2>2, <2>3, <2>4
<1>18. Colored(N, n, graph, k, new)
  <2>1. dom \cup {x} \in SUBSET N
    BY <1>8
  <2> QED
    BY <1>14, <1>15, <1>16, <1>17, <2>1 DEF Colored
<1> QED
  BY <1>12, <1>18

LEMMA ColoringIs ==
  ASSUME NEW n \in Nat, NEW N, N = 0..(n - 1), NEW graph, IsGraph(N, graph)
  PROVE  /\ Coloring(n, graph) \in [N -> 0..n]
         /\ \A x, y \in N : <<x, y>> \in graph => Coloring(n, graph)[x] # Coloring(n, graph)[y]
<1> DEFINE Some == UNION {[dom -> 0..n] : dom \in SUBSET N}
           Good(k) == {c \in Some : Colored(N, n, graph, k, c)}
           V == [k \in 0..n |-> Good(k)]
           v0 == << >>
           step == [e \in (1..n) \X Some |-> OneMoreColored(n, graph, e[2])]
           IsAfter(f) == f = [k \in 0..n |-> IF k = 0 THEN v0 ELSE OneMoreColored(n, graph, f[k - 1])]
<1>1. 0 \in 0..n /\ n \in 0..n /\ \A k \in 1..n : k \in 0..n /\ k # 0 /\ k - 1 \in 0..n
  OBVIOUS
<1>2. \A k, c : Colored(N, n, graph, k, c) => c \in Good(k)
  BY DEF Colored
<1>3. v0 \in Good(0)
  <2>1. DOMAIN v0 = {} /\ v0 \in [{} -> 0..n] /\ Cardinality({}) = 0
    BY FS_EmptySet
  <2>2. Colored(N, n, graph, 0, v0)
    BY <2>1 DEF Colored
  <2> QED
    BY <1>2, <2>2
<1>4. ASSUME NEW k \in 1..n, NEW v \in Good(k - 1) PROVE OneMoreColored(n, graph, v) \in Good(k)
  <2>1. Colored(N, n, graph, k, OneMoreColored(n, graph, v))
    BY ColoredMore
  <2> QED
    BY <1>2, <2>1
<1>5. \E f : IsAfter(f)
  <2>1. v0 \in V[0] /\ \A k \in 1..n : \A v \in V[k - 1] : step[<<k, v>>] \in V[k]
    <3>1. ASSUME NEW k \in 1..n, NEW v \in V[k - 1] PROVE step[<<k, v>>] \in V[k]
      <4>1. v \in Good(k - 1) /\ v \in Some
        BY <1>1
      <4>2. <<k, v>> \in (1..n) \X Some
        BY <4>1
      <4>3. step[<<k, v>>] = OneMoreColored(n, graph, v)
        BY <4>2
      <4> QED
        BY <1>1, <1>4, <4>1, <4>3
    <3> QED
      BY <1>1, <1>3, <3>1
  <2>2. PICK f : IsRun(f, n, v0, step, V)
    <3> HIDE DEF V, v0, step
    <3> QED
      BY ONLY <2>1, n \in Nat, IteratedExists
  <2>3. ASSUME NEW k \in 0..n, k # 0 PROVE f[k] = OneMoreColored(n, graph, f[k - 1])
    <3>1. k \in 1..n /\ k - 1 \in 0..n
      BY <1>1, <2>3
    <3>2. <<k, f[k - 1]>> \in (1..n) \X Some
      <4>1. f[k - 1] \in V[k - 1]
        BY <2>2, <3>1 DEF IsRun
      <4> QED
        BY <3>1, <4>1
    <3> QED
      BY <2>2, <3>1, <3>2 DEF IsRun
  <2>4. IsAfter(f)
    <3> HIDE DEF V, v0, step
    <3> QED
      BY ONLY <2>2, <2>3 DEF IsRun
  <2> QED
    BY <2>4
<1>6. PICK f : IsAfter(f) /\ Coloring(n, graph) = f[n]
  <2>1. Coloring(n, graph) = (CHOOSE f : IsAfter(f))[n]
    BY DEF Coloring
  <2> HIDE DEF IsAfter
  <2> QED
    BY <1>5, <2>1
<1>7. \A k \in 0..n : f[k] \in V[k]
  <2>1. f[0] \in V[0]
    BY <1>1, <1>3, <1>6
  <2>2. ASSUME NEW k \in 1..n, f[k - 1] \in V[k - 1] PROVE f[k] \in V[k]
    <3>1. f[k] = OneMoreColored(n, graph, f[k - 1])
      BY <1>1, <1>6
    <3>2. f[k - 1] \in Good(k - 1)
      BY <1>1, <2>2
    <3> QED
      BY <1>1, <1>4, <3>1, <3>2
  <2> HIDE DEF V
  <2> QED
    BY <1>1, <2>1, <2>2, StaysIn
<1>8. Colored(N, n, graph, n, f[n])
  BY <1>1, <1>7
<1>9. DOMAIN f[n] = N
  <2>1. IsFiniteSet(N) /\ Cardinality(N) = n
    BY FS_Interval
  <2> QED
    BY <1>8, <2>1, FS_Subset DEF Colored
<1> QED
  BY <1>6, <1>8, <1>9 DEF Colored

-----------------------------------------------------------------------------
(* The merging of rows and columns keeps what is not an error.             *)
IsTable(table, R, C) == table = [c \in R \X C |-> table[c]]

RowGraph(n, places, table, error) ==
  {e \in (0..(n - 1)) \X (0..(n - 1)) :
     \E k \in places : Conflict(table[<<e[1], k>>], table[<<e[2], k>>], error)}
RowColor(n, places, table, error) == Coloring(n, RowGraph(n, places, table, error))
LinesOf(n, table, error, color, c, k) ==
  {x \in 0..(n - 1) : color[x] = c /\ table[<<x, k>>] # error}
RowEntry(n, table, error, color, c, k) ==
  IF LinesOf(n, table, error, color, c, k) = {} THEN error
  ELSE table[<<Max(LinesOf(n, table, error, color, c, k)), k>>]

LEMMA MergeRowsIs ==
  ASSUME NEW table, NEW error, NEW n, n = Cardinality(Rows(table)), NEW C, C = Columns(table),
         NEW color, color = RowColor(n, C, table, error)
  PROVE  /\ MergeRows(table, error).color = color
         /\ MergeRows(table, error).table =
              [ck \in {color[x] : x \in 0..(n - 1)} \X C |->
                 RowEntry(n, table, error, color, ck[1], ck[2])]
<1>1. MergeRows(table, error) =
        [color |-> RowColor(n, C, table, error),
         table |-> [ck \in {RowColor(n, C, table, error)[x] : x \in 0..(n - 1)} \X C |->
                      RowEntry(n, table, error, RowColor(n, C, table, error), ck[1], ck[2])]]
  BY DEF MergeRows, MergedLines, RowColor, RowGraph, RowEntry, LinesOf
<1> QED
  BY <1>1

ColorsOf(color, R) == {color[x] : x \in R}
KeepsEntries(table, new, R, C, row, error) ==
  \A x \in R, k \in C : table[<<x, k>>] # error => new[<<row[x], k>>] = table[<<x, k>>]

LEMMA TableLines ==
  ASSUME NEW R, R # {}, NEW C, C # {}, NEW table, IsTable(table, R, C)
  PROVE  Rows(table) = R /\ Columns(table) = C
<1>1. DOMAIN table = R \X C
  BY DEF IsTable
<1>2. \A c \in DOMAIN table : c[1] \in R /\ c[2] \in C
  BY <1>1
<1>3. \A x \in R, y \in C : <<x, y>> \in DOMAIN table /\ <<x, y>>[1] = x /\ <<x, y>>[2] = y
  BY <1>1
<1>4. PICK x0 \in R, y0 \in C : TRUE
  OBVIOUS
<1>5. \A x \in Rows(table) : x \in R
  BY <1>2 DEF Rows
<1>6. \A x \in R : x \in Rows(table)
  BY <1>3, <1>4 DEF Rows
<1>7. \A y \in Columns(table) : y \in C
  BY <1>2 DEF Columns
<1>8. \A y \in C : y \in Columns(table)
  BY <1>3, <1>4 DEF Columns
<1> QED
  BY <1>5, <1>6, <1>7, <1>8

LEMMA RowsMerged ==
  ASSUME NEW n \in Nat, NEW R, R = 0..(n - 1), R # {}, NEW C, C # {},
         NEW table, IsTable(table, R, C), NEW error, NEW m, m = MergeRows(table, error)
  PROVE  /\ m.color \in [R -> Int]
         /\ IsTable(m.table, ColorsOf(m.color, R), C)
         /\ KeepsEntries(table, m.table, R, C, m.color, error)
<1>1. Rows(table) = R /\ Columns(table) = C
  BY TableLines
<1>2. Cardinality(R) = n
  BY FS_Interval
<1>3. PICK color : color = RowColor(n, C, table, error)
  OBVIOUS
<1>4. /\ m.color = color
      /\ m.table = [ck \in {color[x] : x \in R} \X C |->
                      RowEntry(n, table, error, color, ck[1], ck[2])]
  BY <1>1, <1>2, <1>3, MergeRowsIs
<1>5. PICK graph : graph = RowGraph(n, C, table, error)
  OBVIOUS
<1>6. \A x, y \in R : <<x, y>> \in graph <=>
        \E k \in C : Conflict(table[<<x, k>>], table[<<y, k>>], error)
  BY <1>5 DEF RowGraph
<1>7. IsGraph(R, graph)
  <2>1. \A x \in R : <<x, x>> \notin graph
    BY <1>6 DEF Conflict
  <2>2. ASSUME NEW x \in R, NEW y \in R, <<x, y>> \in graph PROVE <<y, x>> \in graph
    <3>1. PICK k \in C : Conflict(table[<<x, k>>], table[<<y, k>>], error)
      BY <1>6, <2>2
    <3>2. Conflict(table[<<y, k>>], table[<<x, k>>], error)
      BY <3>1 DEF Conflict
    <3> QED
      BY <1>6, <3>2
  <2> QED
    BY <2>1, <2>2 DEF IsGraph
<1>8. color \in [R -> 0..n] /\ \A x, y \in R : <<x, y>> \in graph => color[x] # color[y]
  BY <1>3, <1>5, <1>7, ColoringIs DEF RowColor
<1>9. ASSUME NEW x \in R, NEW k \in C, table[<<x, k>>] # error
      PROVE  m.table[<<color[x], k>>] = table[<<x, k>>]
  <2>1. PICK lines : lines = LinesOf(n, table, error, color, color[x], k)
    OBVIOUS
  <2>2. x \in lines /\ \A y \in lines : y \in R /\ color[y] = color[x] /\ table[<<y, k>>] # error
    BY <1>9, <2>1 DEF LinesOf
  <2>3. lines \in SUBSET (0..n) /\ lines # {}
    <3>1. \A y \in R : y \in 0..n
      OBVIOUS
    <3> QED
      BY <2>2, <3>1
  <2>4. PICK y : y = Max(lines)
    OBVIOUS
  <2>5. y \in lines
    BY <2>3, <2>4, MaxIs
  <2>6. table[<<y, k>>] = table[<<x, k>>]
    BY <1>6, <1>8, <1>9, <2>2, <2>5 DEF Conflict
  <2>7. m.table[<<color[x], k>>] = RowEntry(n, table, error, color, color[x], k)
    <3>1. <<color[x], k>> \in {color[z] : z \in R} \X C
      OBVIOUS
    <3> QED
      BY <1>4, <3>1
  <2> QED
    BY <2>1, <2>3, <2>4, <2>6, <2>7 DEF RowEntry
<1>10. KeepsEntries(table, m.table, R, C, color, error)
  BY <1>9 DEF KeepsEntries
<1>11. IsTable(m.table, ColorsOf(color, R), C)
  BY <1>4 DEF IsTable, ColorsOf
<1> QED
  BY <1>4, <1>8, <1>10, <1>11

IsTransposed(by, table, R, C) == \A x \in R, k \in C : by[<<k, x>>] = table[<<x, k>>]

LEMMA Transposed ==
  ASSUME NEW R, R # {}, NEW C, C # {}, NEW table, IsTable(table, R, C)
  PROVE  IsTable(ByColumn(table), C, R) /\ IsTransposed(ByColumn(table), table, R, C)
<1>1. Rows(table) = R /\ Columns(table) = C
  BY TableLines
<1>2. ByColumn(table) = [c \in C \X R |-> table[<<c[2], c[1]>>]]
  BY <1>1 DEF ByColumn
<1> QED
  BY <1>2 DEF IsTable, IsTransposed

KeepsColumns(table, new, R, C, col, error) ==
  \A x \in R, k \in C : table[<<x, k>>] # error => new[<<x, col[k]>>] = table[<<x, k>>]

LEMMA ColumnsMerged ==
  ASSUME NEW n \in Nat, NEW C, C = 0..(n - 1), C # {}, NEW R, R # {},
         NEW table, IsTable(table, R, C), NEW error, NEW m, m = MergeColumns(table, error)
  PROVE  /\ m.color \in [C -> Int]
         /\ IsTable(m.table, R, ColorsOf(m.color, C))
         /\ KeepsColumns(table, m.table, R, C, m.color, error)
<1>1. PICK by : by = ByColumn(table)
  OBVIOUS
<1>2. IsTable(by, C, R) /\ IsTransposed(by, table, R, C)
  BY <1>1, Transposed
<1>3. PICK merged : merged = MergeRows(by, error)
  OBVIOUS
<1>4. m = [color |-> merged.color, table |-> ByColumn(merged.table)]
  BY <1>1, <1>3 DEF MergeColumns
<1>5. PICK color, new, colors :
        color = merged.color /\ new = merged.table /\ colors = ColorsOf(color, C)
  OBVIOUS
<1>6. color \in [C -> Int] /\ IsTable(new, colors, R) /\ KeepsEntries(by, new, C, R, color, error)
  <2>1. merged.color \in [C -> Int]
    BY <1>2, <1>3, RowsMerged
  <2>2. IsTable(merged.table, ColorsOf(merged.color, C), R)
    BY <1>2, <1>3, RowsMerged
  <2>3. KeepsEntries(by, merged.table, C, R, merged.color, error)
    BY <1>2, <1>3, RowsMerged
  <2> QED
    BY <1>5, <2>1, <2>2, <2>3
<1>7. colors # {} /\ \A k \in C : color[k] \in colors
  BY <1>5 DEF ColorsOf
<1>8. IsTable(ByColumn(new), R, colors) /\ IsTransposed(ByColumn(new), new, colors, R)
  BY <1>6, <1>7, Transposed
<1>9. ASSUME NEW x \in R, NEW k \in C, table[<<x, k>>] # error
      PROVE  ByColumn(new)[<<x, color[k]>>] = table[<<x, k>>]
  <2>1. by[<<k, x>>] = table[<<x, k>>]
    BY <1>2 DEF IsTransposed
  <2>2. new[<<color[k], x>>] = by[<<k, x>>]
    BY <1>6, <1>9, <2>1 DEF KeepsEntries
  <2>3. ByColumn(new)[<<x, color[k]>>] = new[<<color[k], x>>]
    BY <1>7, <1>8 DEF IsTransposed
  <2> QED
    BY <2>1, <2>2, <2>3
<1> QED
  BY <1>4, <1>5, <1>6, <1>8, <1>9 DEF KeepsColumns

-----------------------------------------------------------------------------
(* A cell stays what it is as long as the states and the grammar do.       *)
SameCells == UNCHANGED <<grammar, sets, first, build>>

LEMMA SameReductions ==
  ASSUME NEW s, NEW t, SameCells
  PROVE  PossibleReductions(s, t)' = PossibleReductions(s, t)
BY DEF SameCells, PossibleReductions, AllItems, DotAtEnd, Rhs, Selected, InOrder

LEMMA SamePossible ==
  ASSUME NEW s, NEW t, SameCells
  PROVE  PossibleActions(s, t)' = PossibleActions(s, t)
BY SameReductions DEF SameCells, PossibleActions

LEMMA SameMaximal ==
  ASSUME NEW n, SameCells
  PROVE  MaximalFrom(n)' = MaximalFrom(n)
BY DEF SameCells, MaximalFrom, Nonterms, Superset

LEMMA SameExtending ==
  ASSUME NEW s, NEW n, NEW t, SameCells
  PROVE  HasExtendingShift(s, n, t)' <=> HasExtendingShift(s, n, t)
BY DEF SameCells, HasExtendingShift, AllItems, DotAtEnd, Rhs, Lhs, SymbolAfterDot, FirstOfSymbol

LEMMA SameVerdict ==
  ASSUME NEW s, NEW p, NEW t, SameCells
  PROVE  HandleShiftReduceConflict(s, p, t)' = HandleShiftReduceConflict(s, p, t)
<1>1. Lhs(p)' = Lhs(p) /\ Prec(p)' = Prec(p) /\ Token(t)' = Token(t)
  BY DEF SameCells, Lhs, Prec, Token
<1>2. MaximalFrom(Lhs(p))' = MaximalFrom(Lhs(p))
  BY <1>1, SameMaximal DEF SameCells, MaximalFrom, Nonterms, Superset, Lhs
<1>3. \A n : HasExtendingShift(s, n, t)' <=> HasExtendingShift(s, n, t)
  BY SameExtending
<1>4. (\E n \in MaximalFrom(Lhs(p)) : HasExtendingShift(s, n, t))'
        <=> (\E n \in MaximalFrom(Lhs(p)) : HasExtendingShift(s, n, t))
  BY <1>2, <1>3
<1> QED
  BY <1>1, <1>4 DEF HandleShiftReduceConflict

LEMMA SameWithReduction ==
  ASSUME NEW s, NEW t, NEW acc, NEW p, SameCells
  PROVE  WithReduction(s, t, acc, p)' = WithReduction(s, t, acc, p)
BY SameVerdict DEF WithReduction

LEMMA SameResolveShift ==
  ASSUME NEW s, NEW t, NEW cell, SameCells
  PROVE  ResolveShift(s, t, cell)' = ResolveShift(s, t, cell)
BY DEF SameCells, ResolveShift, WithReduction, HandleShiftReduceConflict, HasExtendingShift,
       AllItems, DotAtEnd, Rhs, Lhs, SymbolAfterDot, FirstOfSymbol, MaximalFrom, Nonterms,
       Superset, Prec, Token

LEMMA SameHighest ==
  ASSUME NEW reds, SameCells
  PROVE  HighestOnly(reds)' = HighestOnly(reds) /\ SubsetsOnly(reds)' = SubsetsOnly(reds)
BY DEF SameCells, HighestOnly, SubsetsOnly, Prec, Lhs

LEMMA SameDisambiguated ==
  ASSUME NEW s, NEW t, NEW cell, SameCells
  PROVE  Disambiguated(s, t, cell)' = Disambiguated(s, t, cell)
BY SameResolveShift, SameHighest DEF Disambiguated, IfSeveral

LEMMA SameResolved ==
  ASSUME NEW s, NEW t, SameCells
  PROVE  /\ Disambiguated(s, t, PossibleActions(s, t))' = Disambiguated(s, t, PossibleActions(s, t))
         /\ ResolvedCell(s, t)' = ResolvedCell(s, t)
<1>1. PICK cell : cell = PossibleActions(s, t)
  OBVIOUS
<1>2. PossibleActions(s, t)' = cell
  BY <1>1, SamePossible
<1>3. Disambiguated(s, t, cell)' = Disambiguated(s, t, cell)
  BY SameDisambiguated
<1>4. Disambiguated(s, t, PossibleActions(s, t))' = Disambiguated(s, t, PossibleActions(s, t))
  BY <1>1, <1>2, <1>3
<1>5. build' = build
  BY DEF SameCells
<1> QED
  BY <1>4, <1>5 DEF ResolvedCell

LEMMA SameStateSymbols ==
  ASSUME SameCells
  PROVE  /\ StateIds' = StateIds /\ Terms' = Terms /\ Nonterms' = Nonterms /\ Prods' = Prods
         /\ \A x : FirstWith(x)' = FirstWith(x)
BY DEF SameCells, StateIds, Terms, Nonterms, Prods, FirstWith, StateSymbol, AllItems, Rhs

LEMMA SameKinds ==
  ASSUME SameCells, NEW code
  PROVE  /\ IsShift(code)' <=> IsShift(code)
         /\ IsReduce(code)' <=> IsReduce(code)
         /\ IsErrorAction(code)' <=> IsErrorAction(code)
         /\ ErrorAction' = ErrorAction
BY SameStateSymbols DEF SameCells, IsShift, IsReduce, IsErrorAction, ErrorAction

LEMMA SameShift ==
  ASSUME SameCells, NEW code, NEW a, NEW t
  PROVE  MeansShift(code, a, t)' <=> MeansShift(code, a, t)
<1>1. DecodeShift(code, t)' = DecodeShift(code, t)
  BY SameStateSymbols DEF SameCells, DecodeShift
<1> QED
  BY <1>1, SameKinds DEF MeansShift

LEMMA SameReduce ==
  ASSUME SameCells, NEW tmp, NEW code, NEW p, NEW s
  PROVE  MeansReduce(tmp, code, p, s)' <=> MeansReduce(tmp, code, p, s)
BY SameKinds DEF SameCells, MeansReduce, ReduceAt

LEMMA SameList ==
  ASSUME SameCells, NEW tmp, NEW codes, NEW cell, NEW s, NEW t
  PROVE  MeansList(tmp, codes, cell, s, t)' <=> MeansList(tmp, codes, cell, s, t)
BY SameShift, SameReduce DEF MeansList, Shifted

LEMMA SameMeaning ==
  ASSUME SameCells, NEW tmp, NEW code, NEW cell, NEW s, NEW t
  PROVE  CodeMeans(tmp, code, cell, s, t)' <=> CodeMeans(tmp, code, cell, s, t)
<1>1. AmbigAt(tmp, code, s)' = AmbigAt(tmp, code, s)
  BY SameStateSymbols DEF SameCells, AmbigAt
<1>2. \A codes : MeansList(tmp, codes, cell, s, t)' <=> MeansList(tmp, codes, cell, s, t)
  BY SameList
<1>3. MeansAmbig(tmp, code, cell, s, t)' <=> MeansAmbig(tmp, code, cell, s, t)
  BY <1>1, <1>2, SameKinds DEF SameCells, MeansAmbig
<1> QED
  BY <1>2, <1>3, SameKinds DEF CodeMeans

LEMMA SameTemp ==
  ASSUME SameCells, NEW tmp
  PROVE  TempIn(tmp)' <=> TempIn(tmp)
BY SameStateSymbols DEF TempIn, Starts
-----------------------------------------------------------------------------
(* What the tables hold at each step of their computation.                 *)
CellIs(c, code) == CodeMeans(temp, code, ResolvedCell(c[1], c[2]), c[1], c[2])
GotoIs(c, code) ==
  NontermId(c[2]) \in DOMAIN sets[c[1]].trans =>
    code = EncodeGoto(sets[c[1]].trans[NontermId(c[2])], NontermId(c[2]))

NoTables ==
  /\ state = 0 /\ term = 0
  /\ temp = [prodList |-> << >>, prodStart |-> << >>, ambigList |-> << >>, ambigStart |-> << >>]
  /\ actionTable = << >> /\ gotoTable = << >> /\ errorRow = << >>

\* The cells that are filled.
Visited == {c \in StateIds \X Terms : c[1] < state \/ (c[1] = state /\ c[2] < term)}
VisitedRows == {s \in StateIds : s < state}

WhileFilling ==
  phase = "tables" =>
    /\ state \in 0..Cardinality(StateIds) /\ term \in 0..grammar.terms
    /\ state \notin StateIds => term = 0
    /\ actionTable = [c \in Visited |-> actionTable[c]]
    /\ \A c \in Visited : CellIs(c, actionTable[c])
    /\ IsTable(gotoTable, VisitedRows, Nonterms)
    /\ \A c \in VisitedRows \X Nonterms : GotoIs(c, gotoTable[c])
    /\ errorRow = << >>

FilledPhases == {"order", "errorBits", "actionColumns", "actionRows", "gotoColumns",
                 "gotoRows", "done"}
MergePhases == {"actionColumns", "actionRows", "gotoColumns", "gotoRows"}

\* What the tables are of, as long as they can be merged.
Shapes ==
  StateIds # {} /\ Terms # {} =>
    /\ phase \in {"order", "errorBits", "actionColumns"} =>
         /\ IsTable(actionTable, StateIds, Terms)
         /\ actionRow = Same(StateIds) /\ actionCol = Same(Terms)
    /\ phase = "actionRows" =>
         actionRow = Same(StateIds) /\ IsTable(actionTable, StateIds, ColorsOf(actionCol, Terms))
GotoShapes ==
  StateIds # {} =>
    /\ phase \in {"order", "errorBits", "actionColumns", "actionRows", "gotoColumns"} =>
         /\ IsTable(gotoTable, StateIds, Nonterms)
         /\ gotoRow = Same(StateIds) /\ gotoCol = Same(Nonterms)
    /\ phase = "gotoRows" =>
         gotoRow = Same(StateIds) /\ IsTable(gotoTable, StateIds, ColorsOf(gotoCol, Nonterms))

Entry(s, t) == actionTable[<<actionRow[s], actionCol[t]>>]
GotoEntry(s, n) == gotoTable[<<gotoRow[s], gotoCol[n]>>]
IsEmptyCell(s, t) == Actions(ResolvedCell(s, t)) = 0

Entries ==
  phase \in FilledPhases =>
    \A s \in StateIds, t \in Terms :
      errorRow = << >> \/ ~ IsEmptyCell(s, t) => CellIs(<<s, t>>, Entry(s, t))
Gotos ==
  phase \in FilledPhases =>
    \A s \in StateIds, n \in Nonterms : GotoIs(<<s, n>>, GotoEntry(s, n))
Bits ==
  /\ phase \in {"order", "errorBits"} => errorRow = << >>
  /\ phase \in FilledPhases /\ errorRow # << >> =>
       build.eef /\ \A s \in StateIds, t \in Terms : t \in errorBits[errorRow[s]] <=> IsEmptyCell(s, t)
  /\ phase \in MergePhases /\ StateIds # {} => errorRow # << >>

TablesInv ==
  /\ build \in Builds
  /\ phase \in Early \cup {"number"} => NoTables
  /\ phase = "tables" \/ phase \in FilledPhases => TempIn(temp)
  /\ WhileFilling /\ Shapes /\ GotoShapes /\ Entries /\ Gotos /\ Bits

\* The grammar and its states, in the phases in which they do not change.
Sound == SoundGrammar(grammar) /\ SetsIn(grammar, sets)

LEMMA TablesInit0 ==
  Init => TablesInv
BY DEF Init, TablesInit, TablesInv, NoTables, WhileFilling, Shapes, GotoShapes, Entries, Gotos, Bits,
       FilledPhases, MergePhases

LEMMA SameEntries ==
  ASSUME SameCells, temp' = temp, NEW c, NEW code, NEW s, NEW t
  PROVE  /\ CellIs(c, code)' <=> CellIs(c, code)
         /\ GotoIs(c, code)' <=> GotoIs(c, code)
         /\ IsEmptyCell(s, t)' <=> IsEmptyCell(s, t)
<1>1. ResolvedCell(c[1], c[2])' = ResolvedCell(c[1], c[2]) /\ ResolvedCell(s, t)' = ResolvedCell(s, t)
  BY SameResolved
<1>2. IsEmptyCell(s, t)' <=> IsEmptyCell(s, t)
  BY <1>1 DEF IsEmptyCell, Actions
<1>3. PICK cell : cell = ResolvedCell(c[1], c[2])
  OBVIOUS
<1>4. CodeMeans(temp, code, cell, c[1], c[2])' <=> CodeMeans(temp, code, cell, c[1], c[2])
  <2>1. PICK tmp : tmp = temp
    OBVIOUS
  <2>2. CodeMeans(tmp, code, cell, c[1], c[2])' <=> CodeMeans(tmp, code, cell, c[1], c[2])
    BY SameMeaning
  <2> QED
    BY <2>1, <2>2
<1>5. CellIs(c, code)' <=> CellIs(c, code)
  BY <1>1, <1>3, <1>4 DEF CellIs
<1>6. GotoIs(c, code)' <=> GotoIs(c, code)
  BY SameStateSymbols DEF SameCells, GotoIs, EncodeGoto
<1> QED
  BY <1>2, <1>5, <1>6

LEMMA FilledKept ==
  ASSUME TablesInv, SameCells, UNCHANGED tablesVars,
         \/ phase' = phase
         \/ phase = "order" /\ phase' = "errorBits"
  PROVE  TablesInv'
<1>1. /\ StateIds' = StateIds /\ Terms' = Terms /\ Nonterms' = Nonterms
      /\ grammar' = grammar /\ sets' = sets /\ build' = build
  BY SameStateSymbols DEF SameCells
<1>2. /\ state' = state /\ term' = term /\ temp' = temp /\ actionTable' = actionTable
      /\ actionRow' = actionRow /\ actionCol' = actionCol /\ gotoTable' = gotoTable
      /\ gotoRow' = gotoRow /\ gotoCol' = gotoCol /\ errorBits' = errorBits /\ errorRow' = errorRow
  BY DEF tablesVars
<1>3. /\ \A c, code : (CellIs(c, code)' <=> CellIs(c, code)) /\ (GotoIs(c, code)' <=> GotoIs(c, code))
      /\ \A s, t : IsEmptyCell(s, t)' <=> IsEmptyCell(s, t)
  BY <1>2, SameEntries
<1>4. TempIn(temp)' <=> TempIn(temp)
  <2>1. PICK tmp : tmp = temp
    OBVIOUS
  <2> QED
    BY <1>2, <2>1, SameTemp
<1>5. Visited' = Visited /\ VisitedRows' = VisitedRows
  BY <1>1, <1>2 DEF Visited, VisitedRows
<1>6. /\ \A s, t : Entry(s, t)' = Entry(s, t)
      /\ \A s, t : GotoEntry(s, t)' = GotoEntry(s, t)
  BY <1>2 DEF Entry, GotoEntry
<1>7. build' \in Builds
  BY <1>1 DEF TablesInv
<1>8. (phase \in Early \cup {"number"} => NoTables)'
  BY <1>2 DEF TablesInv, Early, NoTables
<1>9. (phase = "tables" \/ phase \in FilledPhases => TempIn(temp))'
  BY <1>4 DEF TablesInv, FilledPhases
<1>10. WhileFilling'
  <2> SUFFICES ASSUME phase' = "tables"
               PROVE  (/\ state \in 0..Cardinality(StateIds) /\ term \in 0..grammar.terms
                       /\ state \notin StateIds => term = 0
                       /\ actionTable = [c \in Visited |-> actionTable[c]]
                       /\ \A c \in Visited : CellIs(c, actionTable[c])
                       /\ IsTable(gotoTable, VisitedRows, Nonterms)
                       /\ \A c \in VisitedRows \X Nonterms : GotoIs(c, gotoTable[c])
                       /\ errorRow = << >>)'
    BY DEF WhileFilling
  <2>1. phase = "tables"
    OBVIOUS
  <2>2. /\ state \in 0..Cardinality(StateIds) /\ term \in 0..grammar.terms
        /\ state \notin StateIds => term = 0
        /\ actionTable = [c \in Visited |-> actionTable[c]]
        /\ \A c \in Visited : CellIs(c, actionTable[c])
        /\ IsTable(gotoTable, VisitedRows, Nonterms)
        /\ \A c \in VisitedRows \X Nonterms : GotoIs(c, gotoTable[c])
        /\ errorRow = << >>
    BY <2>1 DEF TablesInv, WhileFilling
  <2>3. (\A c \in Visited : CellIs(c, actionTable[c]))'
    BY <1>2, <1>3, <1>5, <2>2 DEF CellIs
  <2>4. (\A c \in VisitedRows \X Nonterms : GotoIs(c, gotoTable[c]))'
    BY <1>1, <1>2, <1>3, <1>5, <2>2 DEF GotoIs
  <2> QED
    BY <1>1, <1>2, <1>5, <2>2, <2>3, <2>4 DEF IsTable
<1>11. Shapes' /\ GotoShapes'
  BY <1>1, <1>2 DEF TablesInv, Shapes, GotoShapes, Same, IsTable, ColorsOf
<1>12. Entries'
  BY <1>1, <1>2, <1>3, <1>6 DEF TablesInv, Entries, FilledPhases, CellIs
<1>13. Gotos'
  BY <1>1, <1>2, <1>3, <1>6 DEF TablesInv, Gotos, FilledPhases, GotoIs
<1>14. Bits'
  BY <1>1, <1>2, <1>3 DEF TablesInv, Bits, FilledPhases, MergePhases
<1> QED
  BY <1>7, <1>8, <1>9, <1>10, <1>11, <1>12, <1>13, <1>14 DEF TablesInv

LEMMA TablesBegin ==
  ASSUME NoTables, build \in Builds, UNCHANGED tablesVars, build' = build,
         phase' \in Early \cup {"number", "tables"},
         phase' = "tables" => Sound'
  PROVE  TablesInv'
<1>1. NoTables'
  BY DEF NoTables, tablesVars
<1>2. CASE phase' # "tables"
  BY <1>1, <1>2 DEF TablesInv, Early, FilledPhases, MergePhases, WhileFilling, Shapes, GotoShapes,
                    Entries, Gotos, Bits
<1>3. CASE phase' = "tables"
  <2>1. PICK n \in Nat, m \in Nat : StateIds' = 0..(n - 1) /\ m = grammar'.terms
                                  /\ Terms' = 0..(m - 1)
    BY <1>3 DEF Sound, SetsIn, SoundGrammar, StateIds, Terms
  <2>2. Cardinality(StateIds') = n
    BY <2>1, FS_Interval
  <2>3. state' = 0 /\ term' = 0 /\ actionTable' = << >> /\ gotoTable' = << >> /\ errorRow' = << >>
    BY <1>1 DEF NoTables
  <2>4. Visited' = {} /\ VisitedRows' = {}
    <3>1. \A s \in 0..(n - 1) : ~ s < 0
      OBVIOUS
    <3>2. \A t \in 0..(m - 1) : ~ t < 0
      OBVIOUS
    <3>3. VisitedRows' = {}
      BY <2>1, <2>3, <3>1 DEF VisitedRows
    <3>4. \A c \in (0..(n - 1)) \X (0..(m - 1)) : ~ (c[1] < 0 \/ (c[1] = 0 /\ c[2] < 0))
      BY <3>1, <3>2
    <3> QED
      BY <2>1, <2>3, <3>3, <3>4 DEF Visited
  <2>5. TempIn(temp)'
    <3>1. PICK tmp : tmp = temp'
      OBVIOUS
    <3>2. tmp = [prodList |-> << >>, prodStart |-> << >>, ambigList |-> << >>, ambigStart |-> << >>]
      BY <1>1, <3>1 DEF NoTables
    <3>3. << >> \in Seq(Int) /\ << >> \in [{} -> Int] /\ DOMAIN << >> = {}
      OBVIOUS
    <3>4. << >> \in Starts'
      BY <3>3 DEF Starts
    <3> QED
      BY <3>1, <3>2, <3>3, <3>4 DEF TempIn, StartsIn
  <2>6. WhileFilling'
    <3>1. state' \in 0..n /\ term' \in 0..m
      BY <2>3
    <3>2. (actionTable = [c \in Visited |-> actionTable[c]])'
      BY <2>3, <2>4
    <3>3. IsTable(gotoTable, VisitedRows, Nonterms)'
      BY <2>3, <2>4 DEF IsTable
    <3> QED
      BY <1>3, <2>1, <2>2, <2>3, <2>4, <3>1, <3>2, <3>3 DEF WhileFilling
  <2> QED
    BY <1>3, <2>5, <2>6 DEF TablesInv, Early, FilledPhases, MergePhases, Shapes, GotoShapes, Entries,
                            Gotos, Bits
<1> QED
  BY <1>2, <1>3

LEMMA OtherStepsKeep ==
  ASSUME TablesInv, SetsInv, Typed, Settled, Typed', SetsInv', [Next]_vars, ~ ComputeParseTables
  PROVE  TablesInv'
<1>0. build \in Builds
  BY DEF TablesInv
<1>1. Sound'
  <2>1. SoundGrammar(grammar) /\ grammar' = grammar
    BY GivenIsSound, AlwaysGiven DEF SetsInv
  <2>2. SetsIn(grammar, sets)'
    BY DEF Typed
  <2> QED
    BY <2>1, <2>2 DEF Sound
<1>2. CASE UNCHANGED vars
  BY <1>2, FilledKept DEF vars, setsVars, firstFollowVars, SameCells
<1>3. CASE Order \/ OrderDone \/ Terminated
  BY <1>3, FilledKept DEF Order, OrderDone, Terminated, vars, setsVars, firstFollowVars, SameCells
<1>4. CASE Derive \/ DeriveDone
  <2>1. NoTables /\ UNCHANGED tablesVars /\ build' = build /\ phase' \in Early
    BY <1>4 DEF Derive, DeriveDone, TablesInv, Early
  <2> QED
    BY <1>0, <1>1, <2>1, TablesBegin
<1>5. CASE ComputeFirstFollow
  <2>1. phase' \in Early /\ phase \in Early
    BY <1>5 DEF ComputeFirstFollow, FirstFollowNext, FirstOfProduction,
                FirstIterationDone, FollowOfSymbol, FollowProductionDone,
                FollowIterationDone, Early
  <2>2. NoTables /\ UNCHANGED tablesVars /\ build' = build
    BY <1>5, <2>1 DEF ComputeFirstFollow, TablesInv
  <2> QED
    BY <1>0, <1>1, <2>1, <2>2, TablesBegin
<1>6. CASE ConstructItemSets
  <2>1. phase \in Early \cup {"number"} /\ phase' \in Early \cup {"number", "tables"}
    <3>1. \/ MakeStartState \/ PopItemSet \/ MakeItemSet \/ FindItemSet \/ ItemSetDone
          \/ SetsDone \/ CloseKernelItem \/ CloseItem \/ ClosureDone \/ RenumberStates
      BY <1>6 DEF ConstructItemSets, ItemSetsNext
    <3> QED
      BY <3>1 DEF MakeStartState, PopItemSet, MakeItemSet, FindItemSet, ItemSetDone, SetsDone,
                  CloseKernelItem, CloseItem, ClosureDone, RenumberStates, Considering, Settled, Early
  <2>2. NoTables /\ UNCHANGED tablesVars /\ build' = build
    BY <1>6, <2>1 DEF ConstructItemSets, TablesInv
  <2> QED
    BY <1>0, <1>1, <2>1, <2>2, TablesBegin
<1> QED
  BY <1>2, <1>3, <1>4, <1>5, <1>6 DEF Next

LEMMA FailedIs ==
  ASSUME build \in Builds, build' = build, phase' = "failed"
  PROVE  TablesInv'
BY DEF TablesInv, Early, FilledPhases, MergePhases, WhileFilling, Shapes, GotoShapes,
       Entries, Gotos, Bits

LEMMA NewMeaning ==
  ASSUME SameCells, NEW tmp, temp' = tmp, NEW c, NEW code,
         CodeMeans(tmp, code, ResolvedCell(c[1], c[2]), c[1], c[2])
  PROVE  CellIs(c, code)'
<1>1. PICK cell : cell = ResolvedCell(c[1], c[2])
  OBVIOUS
<1>2. ResolvedCell(c[1], c[2])' = cell
  BY <1>1, SameResolved
<1>3. CodeMeans(tmp, code, cell, c[1], c[2])'
  BY <1>1, SameMeaning
<1> QED
  BY <1>2, <1>3 DEF CellIs

LEMMA CellVisited ==
  ASSUME Sound, SameCells, FillActionEntry
  PROVE  /\ Visited' = Visited \cup {<<state, term>>} /\ <<state, term>> \notin Visited
         /\ <<state, term>> \in StateIds \X Terms
<1>1. PICK n \in Nat, m \in Nat : StateIds = 0..(n - 1) /\ Terms = 0..(m - 1)
  BY StateIdsAre DEF Sound, SoundGrammar, Terms
<1>2. PICK s \in 0..(n - 1), t \in 0..(m - 1) :
        s = state /\ t = term /\ state' = s /\ term' = t + 1
  BY <1>1 DEF FillActionEntry
<1>3. StateIds' = StateIds /\ Terms' = Terms
  BY SameStateSymbols
<1>4. \A c \in StateIds \X Terms :
        (c[1] < s \/ (c[1] = s /\ c[2] < t + 1))
          <=> (c[1] < s \/ (c[1] = s /\ c[2] < t)) \/ c = <<s, t>>
  <2> TAKE c \in StateIds \X Terms
  <2>1. PICK a \in Int, b \in Int : c = <<a, b>>
    BY <1>1
  <2>2. b < t + 1 <=> b < t \/ b = t
    BY <1>2
  <2> QED
    BY <2>1, <2>2
<1>5. <<s, t>> \in StateIds \X Terms
  BY <1>1
<1>6. ~ s < s /\ ~ t < t
  OBVIOUS
<1> QED
  BY <1>2, <1>3, <1>4, <1>5, <1>6 DEF Visited

LEMMA FillActionKeeps ==
  ASSUME TablesInv, Sound, SameCells, FillActionEntry
  PROVE  TablesInv'
<1>0. phase = "tables" /\ build \in Builds /\ build' = build
  BY DEF FillActionEntry, TablesInv
<1>1. PICK s \in StateIds, t \in Terms : s = state /\ t = term
  BY DEF FillActionEntry
<1>2. PICK cell : cell = ResolvedCell(s, t)
  OBVIOUS
<1>3. PICK e : e = EncodeCell(temp, cell, s, t)
  OBVIOUS
<1>4. /\ temp' = e.tmp /\ actionTable' = With(actionTable, <<s, t>>, e.code)
      /\ phase' = IF build.crs /\ e.code = Truncated THEN "failed" ELSE phase
      /\ term' = term + 1
      /\ UNCHANGED <<state, gotoTable, errorRow>>
  BY <1>1, <1>2, <1>3 DEF FillActionEntry
<1>5. /\ TempIn(e.tmp) /\ Grown(temp, e.tmp) /\ e.code \in Int
      /\ ~ TooWide(e.code) => CodeMeans(e.tmp, e.code, cell, s, t)
  <2>1. TempIn(temp)
    BY <1>0 DEF TablesInv
  <2>2. CellOf(cell, Shifts(s, t), Reds(s, t)) /\ Reds(s, t) \subseteq Prods
    BY <1>2, ResolvedIn DEF Sound
  <2> QED
    BY <1>3, <2>1, <2>2, CellEncoded DEF Sound
<1>6. CASE TooWide(e.code)
  BY <1>0, <1>4, <1>6, FailedIs DEF TooWide
<1>7. CASE ~ TooWide(e.code)
  <2>1. phase' = "tables"
    BY <1>0, <1>4, <1>7 DEF TooWide
  <2>2. PICK n \in Nat, m \in Nat : /\ StateIds = 0..(n - 1) /\ n = Cardinality(StateIds)
                                  /\ m = grammar.terms /\ Terms = 0..(m - 1)
    BY StateIdsAre DEF Sound, SoundGrammar, Terms
  <2>3. StateIds' = StateIds /\ Terms' = Terms /\ Nonterms' = Nonterms /\ grammar' = grammar
        /\ sets' = sets
    BY SameStateSymbols DEF SameCells
  <2>4. s \in 0..(n - 1) /\ t \in 0..(m - 1)
    BY <2>2
  <2>5. state' \in 0..n /\ term' \in 0..m /\ state' \in StateIds
    BY <1>1, <1>4, <2>2, <2>4
  <2>6. Visited' = Visited \cup {<<s, t>>}
    BY <1>1, CellVisited
  <2>7. actionTable = [c \in Visited |-> actionTable[c]]
        /\ (\A c \in Visited : CellIs(c, actionTable[c])) /\ IsTable(gotoTable, VisitedRows, Nonterms)
        /\ (\A c \in VisitedRows \X Nonterms : GotoIs(c, gotoTable[c])) /\ errorRow = << >>
    BY <1>0 DEF TablesInv, WhileFilling
  <2>8. <<s, t>> \notin Visited
    BY <1>1, <2>4 DEF Visited
  <2>9. DOMAIN actionTable = Visited
    BY <2>7
  <2>10. PICK table : table = actionTable'
    OBVIOUS
  <2>11. table = [c \in Visited \cup {<<s, t>>} |-> IF c = <<s, t>> THEN e.code ELSE actionTable[c]]
    BY <1>4, <2>9, <2>10 DEF With
  <2>12. table = [c \in Visited \cup {<<s, t>>} |-> table[c]]
    BY <2>11
  <2>13. table[<<s, t>>] = e.code /\ \A c \in Visited : table[c] = actionTable[c]
    BY <2>8, <2>11
  <2>14. ASSUME NEW c \in Visited \cup {<<s, t>>} PROVE CellIs(c, table[c])'
    <3>1. CASE c = <<s, t>>
      <4>1. CodeMeans(e.tmp, table[c], ResolvedCell(c[1], c[2]), c[1], c[2])
        BY <1>2, <1>5, <1>7, <2>13, <3>1
      <4> QED
        BY <1>4, <4>1, NewMeaning
    <3>2. CASE c \in Visited
      <4>1. CodeMeans(temp, table[c], ResolvedCell(c[1], c[2]), c[1], c[2])
        BY <2>7, <2>13, <3>2 DEF CellIs
      <4>2. TempIn(temp)
        BY <1>0 DEF TablesInv
      <4>3. CodeMeans(e.tmp, table[c], ResolvedCell(c[1], c[2]), c[1], c[2])
        BY <1>5, <4>1, <4>2, StaysMeant
      <4> QED
        BY <1>4, <4>3, NewMeaning
    <3> QED
      BY <3>1, <3>2
  <2>15. VisitedRows' = VisitedRows
    BY <1>4, <2>3 DEF VisitedRows
  <2>16. ASSUME NEW c \in VisitedRows \X Nonterms PROVE GotoIs(c, gotoTable[c])'
    <3>1. GotoIs(c, gotoTable[c])
      BY <2>7
    <3>2. EncodeGoto(sets[c[1]].trans[NontermId(c[2])], NontermId(c[2]))'
            = EncodeGoto(sets[c[1]].trans[NontermId(c[2])], NontermId(c[2]))
      BY <2>3, SameStateSymbols DEF SameCells, EncodeGoto
    <3> QED
      BY <1>4, <2>3, <3>1, <3>2 DEF GotoIs
  <2>17. WhileFilling'
    <3>1. (\A c \in Visited : CellIs(c, actionTable[c]))'
      BY <2>6, <2>10, <2>14 DEF CellIs
    <3>2. (\A c \in VisitedRows \X Nonterms : GotoIs(c, gotoTable[c]))'
      BY <2>3, <2>15, <2>16 DEF GotoIs
    <3>3. (actionTable = [c \in Visited |-> actionTable[c]])'
      BY <2>6, <2>10, <2>12
    <3>4. IsTable(gotoTable, VisitedRows, Nonterms)' /\ errorRow' = << >>
      BY <1>4, <2>3, <2>7, <2>15 DEF IsTable
    <3> QED
      BY <2>2, <2>3, <2>5, <3>1, <3>2, <3>3, <3>4 DEF WhileFilling
  <2>18. TempIn(temp)'
    <3>1. PICK tmp : tmp = e.tmp
      OBVIOUS
    <3>2. TempIn(tmp)'
      BY <1>5, <3>1, SameTemp
    <3> QED
      BY <1>4, <3>1, <3>2
  <2> QED
    BY <1>0, <2>1, <2>17, <2>18 DEF TablesInv, Early, FilledPhases, MergePhases, Shapes, GotoShapes,
                            Entries, Gotos, Bits
<1> QED
  BY <1>6, <1>7

LEMMA RowVisited ==
  ASSUME WhileFilling, Sound, SameCells, FillGotoRow
  PROVE  Visited' = Visited
<1>1. PICK n \in Nat, m \in Nat : /\ StateIds = 0..(n - 1) /\ m = grammar.terms
                                /\ Terms = 0..(m - 1)
  BY StateIdsAre DEF Sound, SoundGrammar, Terms
<1>2. PICK s \in 0..(n - 1) : s = state /\ term = m /\ state' = s + 1 /\ term' = 0
  BY <1>1 DEF FillGotoRow, WhileFilling
<1>3. StateIds' = StateIds /\ Terms' = Terms
  BY SameStateSymbols
<1>4. \A c \in StateIds \X Terms :
        (c[1] < s + 1 \/ (c[1] = s + 1 /\ c[2] < 0)) <=> (c[1] < s \/ (c[1] = s /\ c[2] < m))
  <2> TAKE c \in StateIds \X Terms
  <2>1. PICK a \in 0..(n - 1), b \in 0..(m - 1) : c = <<a, b>>
    BY <1>1
  <2>2. b < m /\ ~ b < 0 /\ (a < s + 1 <=> a < s \/ a = s)
    OBVIOUS
  <2> QED
    BY <2>1, <2>2
<1> QED
  BY <1>2, <1>3, <1>4 DEF Visited

LEMMA AllVisited ==
  ASSUME WhileFilling, Sound, phase = "tables", state \notin StateIds
  PROVE  Visited = StateIds \X Terms /\ VisitedRows = StateIds
<1>1. PICK n \in Nat, m \in Nat : /\ StateIds = 0..(n - 1) /\ n = Cardinality(StateIds)
                                /\ m = grammar.terms /\ Terms = 0..(m - 1)
  BY StateIdsAre DEF Sound, SoundGrammar, Terms
<1>2. state \in 0..n
  BY <1>1 DEF WhileFilling
<1>3. state = n
  BY <1>1, <1>2
<1>4. (\A s \in StateIds : s < n) /\ \A c \in StateIds \X Terms : c[1] < n
  BY <1>1
<1> QED
  BY <1>3, <1>4 DEF Visited, VisitedRows

LEMMA FillGotoKeeps ==
  ASSUME TablesInv, Sound, SameCells, FillGotoRow
  PROVE  TablesInv'
<1>0. /\ phase = "tables" /\ build \in Builds /\ build' = build /\ phase' = "tables"
      /\ UNCHANGED <<temp, actionTable, errorRow>> /\ state' = state + 1 /\ term' = 0
  BY DEF FillGotoRow, TablesInv
<1>1. PICK s \in StateIds : s = state /\ term \notin Terms
  BY DEF FillGotoRow
<1>2. PICK n \in Nat, m \in Nat : /\ StateIds = 0..(n - 1) /\ n = Cardinality(StateIds)
                                /\ m = grammar.terms /\ Terms = 0..(m - 1)
  BY StateIdsAre DEF Sound, SoundGrammar, Terms
<1>3. StateIds' = StateIds /\ Terms' = Terms /\ Nonterms' = Nonterms /\ grammar' = grammar
      /\ sets' = sets
  BY SameStateSymbols DEF SameCells
<1>4. /\ state \in 0..n /\ term \in 0..m
      /\ actionTable = [c \in Visited |-> actionTable[c]]
      /\ (\A c \in Visited : CellIs(c, actionTable[c])) /\ IsTable(gotoTable, VisitedRows, Nonterms)
      /\ (\A c \in VisitedRows \X Nonterms : GotoIs(c, gotoTable[c])) /\ errorRow = << >>
  BY <1>0, <1>2 DEF TablesInv, WhileFilling
<1>5. term = m /\ s \in 0..(n - 1)
  BY <1>1, <1>2, <1>4
<1>6. Visited' = Visited
  BY <1>0, RowVisited DEF TablesInv
<1>7. VisitedRows' = VisitedRows \cup {s} /\ s \notin VisitedRows
  <2>1. \A x \in StateIds : x < s + 1 <=> x < s \/ x = s
    BY <1>2, <1>5
  <2>2. ~ s < s
    BY <1>5
  <2> QED
    BY <1>0, <1>1, <1>3, <2>1, <2>2 DEF VisitedRows
<1>8. PICK table : table = gotoTable'
  OBVIOUS
<1>9. DOMAIN gotoTable = VisitedRows \X Nonterms
  BY <1>4 DEF IsTable
<1>10. table = [c \in (VisitedRows \X Nonterms) \cup ({s} \X Nonterms) |->
       IF c \in VisitedRows \X Nonterms THEN gotoTable[c]
       ELSE LET x == NontermId(c[2]) IN
              IF x \in DOMAIN sets[s].trans
              THEN EncodeGoto(sets[s].trans[x], x) ELSE ErrorGoto]
  BY <1>1, <1>8, <1>9 DEF FillGotoRow
<1>11. (VisitedRows \X Nonterms) \cup ({s} \X Nonterms) = (VisitedRows \cup {s}) \X Nonterms
  OBVIOUS
<1>12. IsTable(table, VisitedRows \cup {s}, Nonterms)
  BY <1>10, <1>11 DEF IsTable
<1>13. ASSUME NEW c \in (VisitedRows \cup {s}) \X Nonterms PROVE GotoIs(c, table[c])'
  <2>0. \A code : GotoIs(c, code)' <=> GotoIs(c, code)
    BY <1>0, SameEntries
  <2>1. CASE c \in VisitedRows \X Nonterms
    <3>1. table[c] = gotoTable[c]
      BY <1>10, <2>1
    <3>2. GotoIs(c, gotoTable[c])
      BY <1>4, <2>1
    <3> QED
      BY <2>0, <3>1, <3>2
  <2>2. CASE c \notin VisitedRows \X Nonterms
    <3>1. c[1] = s /\ c \in {s} \X Nonterms
      BY <2>2
    <3>2. NontermId(c[2]) \in DOMAIN sets[s].trans =>
            table[c] = EncodeGoto(sets[s].trans[NontermId(c[2])], NontermId(c[2]))
      BY <1>10, <2>2, <3>1
    <3>3. GotoIs(c, table[c])
      BY <3>1, <3>2 DEF GotoIs
    <3> QED
      BY <2>0, <3>3
  <2> QED
    BY <2>1, <2>2
<1>14. ASSUME NEW c \in Visited PROVE CellIs(c, actionTable[c])'
  <2>1. CellIs(c, actionTable[c])
    BY <1>4
  <2>2. PICK code : code = actionTable[c]
    OBVIOUS
  <2>3. CellIs(c, code)'
    BY <1>0, <2>1, <2>2, SameEntries
  <2> QED
    BY <1>0, <2>2, <2>3 DEF CellIs
<1>15. WhileFilling'
  <2>1. (\A c \in Visited : CellIs(c, actionTable[c]))'
    BY <1>0, <1>6, <1>14 DEF CellIs
  <2>2. (\A c \in VisitedRows \X Nonterms : GotoIs(c, gotoTable[c]))'
    BY <1>3, <1>7, <1>8, <1>13 DEF GotoIs
  <2>3. (actionTable = [c \in Visited |-> actionTable[c]])'
    BY <1>0, <1>4, <1>6
  <2>4. IsTable(gotoTable, VisitedRows, Nonterms)' /\ errorRow' = << >>
    BY <1>0, <1>3, <1>4, <1>7, <1>8, <1>12 DEF IsTable
  <2>5. state' \in 0..n /\ term' \in 0..m
    BY <1>0, <1>1, <1>5
  <2> QED
    BY <1>0, <1>2, <1>3, <2>1, <2>2, <2>3, <2>4, <2>5 DEF WhileFilling
<1>16. TempIn(temp)'
  <2>1. PICK tmp : tmp = temp
    OBVIOUS
  <2>2. TempIn(tmp)'
    BY <1>0, <2>1, SameTemp DEF TablesInv
  <2> QED
    BY <1>0, <2>1, <2>2
<1> QED
  BY <1>0, <1>15, <1>16 DEF TablesInv, Early, FilledPhases, MergePhases, Shapes, GotoShapes,
                          Entries, Gotos, Bits

LEMMA TablesFilledKeeps ==
  ASSUME TablesInv, Sound, SameCells, TablesFilled
  PROVE  TablesInv'
<1>0. /\ phase = "tables" /\ build \in Builds /\ build' = build /\ phase' = "order"
      /\ UNCHANGED <<temp, actionTable, gotoTable, errorRow>> /\ state \notin StateIds
      /\ actionRow' = Same(StateIds) /\ actionCol' = Same(Terms)
      /\ gotoRow' = Same(StateIds) /\ gotoCol' = Same(Nonterms)
  BY DEF TablesFilled, TablesInv
<1>2. PICK n \in Nat, m \in Nat : /\ StateIds = 0..(n - 1) /\ n = Cardinality(StateIds)
                                /\ m = grammar.terms /\ Terms = 0..(m - 1)
  BY StateIdsAre DEF Sound, SoundGrammar, Terms
<1>3. StateIds' = StateIds /\ Terms' = Terms /\ Nonterms' = Nonterms /\ grammar' = grammar
      /\ sets' = sets
  BY SameStateSymbols DEF SameCells
<1>4. /\ state \in 0..n /\ term \in 0..m
      /\ actionTable = [c \in Visited |-> actionTable[c]]
      /\ (\A c \in Visited : CellIs(c, actionTable[c])) /\ IsTable(gotoTable, VisitedRows, Nonterms)
      /\ (\A c \in VisitedRows \X Nonterms : GotoIs(c, gotoTable[c])) /\ errorRow = << >>
  BY <1>0, <1>2 DEF TablesInv, WhileFilling
<1>6. Visited = StateIds \X Terms /\ VisitedRows = StateIds
  BY <1>0, AllVisited DEF TablesInv
<1>7. VisitedRows = StateIds
  BY <1>6
<1>8. IsTable(actionTable, StateIds, Terms) /\ IsTable(gotoTable, StateIds, Nonterms)
  BY <1>4, <1>6, <1>7 DEF IsTable
<1>9. Shapes' /\ GotoShapes'
  BY <1>0, <1>3, <1>8 DEF Shapes, GotoShapes, IsTable, Same
<1>10. ASSUME NEW s \in StateIds, NEW t \in Terms PROVE CellIs(<<s, t>>, Entry(s, t))'
  <2>1. Entry(s, t)' = actionTable[<<s, t>>]
    BY <1>0 DEF Entry, Same
  <2>2. PICK code : code = actionTable[<<s, t>>]
    OBVIOUS
  <2>3. CellIs(<<s, t>>, code)
    BY <1>4, <1>6, <2>2
  <2>4. CellIs(<<s, t>>, code)'
    BY <1>0, <2>3, SameEntries
  <2> QED
    BY <2>1, <2>2, <2>4
<1>11. Entries'
  BY <1>3, <1>10 DEF Entries
<1>12. ASSUME NEW s \in StateIds, NEW x \in Nonterms PROVE GotoIs(<<s, x>>, GotoEntry(s, x))'
  <2>1. GotoEntry(s, x)' = gotoTable[<<s, x>>]
    BY <1>0 DEF GotoEntry, Same
  <2>2. PICK code : code = gotoTable[<<s, x>>]
    OBVIOUS
  <2>3. GotoIs(<<s, x>>, code)
    BY <1>4, <1>7, <2>2
  <2>4. GotoIs(<<s, x>>, code)'
    BY <1>0, <2>3, SameEntries
  <2> QED
    BY <2>1, <2>2, <2>4
<1>13. Gotos'
  BY <1>3, <1>12 DEF Gotos
<1>14. TempIn(temp)'
  <2>1. PICK tmp : tmp = temp
    OBVIOUS
  <2>2. TempIn(tmp)'
    BY <1>0, <2>1, SameTemp DEF TablesInv
  <2> QED
    BY <1>0, <2>1, <2>2
<1>15. Bits'
  BY <1>0, <1>4 DEF Bits, MergePhases, FilledPhases
<1> QED
  BY <1>0, <1>9, <1>11, <1>13, <1>14, <1>15 DEF TablesInv, Early, WhileFilling

FirstOfBits == {s \in StateIds : \A r \in 0..(s - 1) : ErrorTerms(r) # ErrorTerms(s)}

BitRows == InOrder(FirstOfBits, LAMBDA a, b : a < b)

LEMMA BitRowsAre ==
  ASSUME ComputeErrorBits, build.eef, NEW rows, rows = NumberList(FirstOfBits)
  PROVE  /\ errorBits' = [i \in DOMAIN rows |-> ErrorTerms(rows[i])]
         /\ errorRow' = [s \in StateIds |-> CHOOSE i \in DOMAIN rows :
                            ErrorTerms(rows[i]) = ErrorTerms(s)]
<1>1. PICK S : S = FirstOfBits
  OBVIOUS
<1>2. InOrder(S, LAMBDA a, b : a < b) = NumberList(S)
  BY DEF InOrder, NumberList, NumberAt
<1>3. BitRows = rows
  BY <1>1, <1>2 DEF BitRows
<1>4. /\ errorBits' = [i \in DOMAIN BitRows |-> ErrorTerms(BitRows[i])]
      /\ errorRow' = [s \in StateIds |-> CHOOSE i \in DOMAIN BitRows :
                            ErrorTerms(BitRows[i]) = ErrorTerms(s)]
  BY DEF ComputeErrorBits, FirstOfBits, BitRows
<1> QED
  BY <1>3, <1>4

LEMMA BitsAre ==
  ASSUME SetsIn(grammar, sets), ComputeErrorBits, build.eef, NEW s \in StateIds
  PROVE  errorBits'[errorRow'[s]] = ErrorTerms(s) /\ errorRow' # << >>
<1>1. PICK n \in Nat : StateIds = 0..(n - 1)
  BY StateIdsAre
<1>2. PICK S : S = FirstOfBits
  OBVIOUS
<1>3. PICK rows : rows = NumberList(S)
  OBVIOUS
<1>4. /\ S \in SUBSET Int /\ IsFiniteSet(S)
  <2>1. S \in SUBSET (0..(n - 1))
    BY <1>1, <1>2 DEF FirstOfBits
  <2>2. IsFiniteSet(0..(n - 1)) /\ 0..(n - 1) \in SUBSET Int
    BY FS_Interval
  <2> QED
    BY <2>1, <2>2, FS_Subset
<1>5. ToSymbolSet(rows) = S
  <2>1. rows = [i \in 1..Cardinality(S) |-> NumberAt(S, i)]
    BY <1>3 DEF NumberList
  <2> QED
    BY <1>4, <2>1, NumbersListed
<1>6. PICK bits : bits = [r \in 0..(n - 1) |-> ErrorTerms(r)]
  OBVIOUS
<1>7. \E r \in S : bits[r] = bits[s]
  <2>1. PICK T : T = {r \in 0..(n - 1) : bits[r] = bits[s]}
    OBVIOUS
  <2>2. T \in SUBSET Nat /\ s \in T
    BY <1>1, <2>1
  <2>3. PICK r : r = Min(T)
    OBVIOUS
  <2>4. r \in T /\ \A y \in T : r <= y
    BY <2>2, <2>3, MinIs
  <2>5. \A q \in 0..(r - 1) : q \in 0..(n - 1) /\ ~ r <= q
    BY <2>1, <2>4
  <2>6. \A q \in 0..(r - 1) : bits[q] # bits[r]
    BY <2>1, <2>4, <2>5
  <2>7. \A q \in 0..(r - 1) : ErrorTerms(q) # ErrorTerms(r)
    BY <1>6, <2>1, <2>4, <2>5, <2>6
  <2>8. r \in S
    BY <1>1, <1>2, <2>1, <2>4, <2>7 DEF FirstOfBits
  <2> QED
    BY <2>1, <2>4, <2>8
<1>8. \E i \in DOMAIN rows : ErrorTerms(rows[i]) = ErrorTerms(s)
  <2>1. PICK r \in S : bits[r] = bits[s]
    BY <1>7
  <2>2. PICK i \in DOMAIN rows : rows[i] = r
    BY <1>5, <2>1 DEF ToSymbolSet
  <2>3. r \in 0..(n - 1)
    BY <1>1, <1>2, <2>1 DEF FirstOfBits
  <2> QED
    BY <1>1, <1>6, <2>1, <2>2, <2>3
<1>9. /\ errorBits' = [i \in DOMAIN rows |-> ErrorTerms(rows[i])]
      /\ errorRow' = [x \in StateIds |-> CHOOSE i \in DOMAIN rows : ErrorTerms(rows[i]) = ErrorTerms(x)]
  BY <1>2, <1>3, BitRowsAre
<1>10. PICK i \in DOMAIN rows : i = errorRow'[s] /\ ErrorTerms(rows[i]) = ErrorTerms(s)
  BY <1>8, <1>9
<1>11. errorBits'[i] = ErrorTerms(s)
  BY <1>9, <1>10
<1>12. errorRow' # << >>
  <2>1. s \in DOMAIN errorRow'
    BY <1>9
  <2> QED
    BY <2>1
<1> QED
  BY <1>10, <1>11, <1>12

LEMMA ErrorTermsAre ==
  ASSUME TablesInv, Sound, phase = "errorBits", NEW s \in StateIds, NEW t \in Terms
  PROVE  t \in ErrorTerms(s) <=> IsEmptyCell(s, t)
<1>1. actionRow = Same(StateIds) /\ actionCol = Same(Terms) /\ errorRow = << >> /\ TempIn(temp)
  BY DEF TablesInv, Shapes, Bits, FilledPhases
<1>2. CellIs(<<s, t>>, actionTable[<<s, t>>])
  BY <1>1 DEF TablesInv, Entries, Entry, FilledPhases, Same
<1>3. PICK cell : cell = ResolvedCell(s, t)
  OBVIOUS
<1>4. CellOf(cell, Shifts(s, t), Reds(s, t))
  BY <1>3, ResolvedIn DEF Sound
<1>5. CodeMeans(temp, actionTable[<<s, t>>], cell, s, t)
  BY <1>2, <1>3 DEF CellIs
<1>6. actionTable[<<s, t>>] = ErrorAction <=> Actions(cell) = 0
  BY <1>1, <1>4, <1>5, MeansDecoded
<1> QED
  BY <1>3, <1>6 DEF ErrorTerms, IsErrorAction, IsEmptyCell

LEMMA FullEntry ==
  ASSUME TablesInv, Sound, phase \in FilledPhases, NEW s \in StateIds, NEW t \in Terms,
         ~ IsEmptyCell(s, t)
  PROVE  CellIs(<<s, t>>, Entry(s, t)) /\ Entry(s, t) # ErrorAction
<1>1. CellIs(<<s, t>>, Entry(s, t))
  BY DEF TablesInv, Entries
<1>2. PICK cell : cell = ResolvedCell(s, t)
  OBVIOUS
<1>3. CellOf(cell, Shifts(s, t), Reds(s, t))
  BY <1>2, ResolvedIn DEF Sound
<1>4. CodeMeans(temp, Entry(s, t), cell, s, t) /\ TempIn(temp)
  BY <1>1, <1>2 DEF CellIs, TablesInv
<1>5. Actions(cell) # 0
  BY <1>2 DEF IsEmptyCell
<1> QED
  BY <1>1, <1>3, <1>4, <1>5, MeansDecoded

LEMMA EncodedGotoIs ==
  ASSUME Sound, NEW s \in StateIds, NEW x \in DOMAIN sets[s].trans
  PROVE  /\ EncodeGoto(sets[s].trans[x], x) # ErrorGoto
         /\ (IF build.crs THEN FirstWith(x) + EncodeGoto(sets[s].trans[x], x)
             ELSE EncodeGoto(sets[s].trans[x], x)) = sets[s].trans[x]
<1>1. PICK a \in StateIds : a = sets[s].trans[x] /\ StateSymbol(a) = x
  BY TargetIs DEF Sound
<1>2. PICK f \in Nat, b \in Nat : f = FirstWith(x) /\ b = a /\ f <= b
  BY <1>1, FirstWithIs DEF Sound
<1>3. CASE build.crs
  <2>1. EncodeGoto(a, x) = b - f
    BY <1>2, <1>3 DEF EncodeGoto
  <2>2. b - f # -1 /\ f + (b - f) = b
    BY <1>2
  <2> QED
    BY <1>1, <1>2, <1>3, <2>1, <2>2 DEF ErrorGoto
<1>4. CASE ~ build.crs
  <2>1. EncodeGoto(a, x) = b
    BY <1>2, <1>4 DEF EncodeGoto
  <2> QED
    BY <1>1, <1>2, <1>4, <2>1 DEF ErrorGoto
<1> QED
  BY <1>3, <1>4

LEMMA BuildIs ==
  ASSUME build \in Builds
  PROVE  /\ build.eef \in BOOLEAN /\ build.gcs \in BOOLEAN /\ build.gcsc \in BOOLEAN
         /\ build.gcsc => build.gcs
         /\ build.gcs => build.eef
BY BuildsAssumption

LEMMA OwnColors ==
  ASSUME NEW S
  PROVE  ColorsOf(Same(S), S) = S
BY DEF ColorsOf, Same

LEMMA ErrorBitsKeep ==
  ASSUME TablesInv, Sound, SameCells, ComputeErrorBits
  PROVE  TablesInv'
<1>0. /\ phase = "errorBits" /\ build \in Builds /\ build' = build
      /\ phase' \in {"actionColumns", "actionRows", "done"}
      /\ phase' # "done" => build.gcs
      /\ phase' = "actionColumns" => build.gcsc
      /\ UNCHANGED <<temp, actionTable, actionRow, actionCol, gotoTable, gotoRow, gotoCol>>
      /\ ~ build.eef => errorRow' = errorRow
  <2>1. build \in Builds
    BY DEF TablesInv
  <2> QED
    BY <2>1, BuildIs DEF ComputeErrorBits
<1>1. /\ StateIds' = StateIds /\ Terms' = Terms /\ Nonterms' = Nonterms
  BY SameStateSymbols
<1>2. errorRow = << >>
  BY <1>0 DEF TablesInv, Bits
<1>3. /\ StateIds # {} /\ Terms # {} =>
           IsTable(actionTable, StateIds, Terms) /\ actionRow = Same(StateIds) /\ actionCol = Same(Terms)
      /\ StateIds # {} =>
           IsTable(gotoTable, StateIds, Nonterms) /\ gotoRow = Same(StateIds) /\ gotoCol = Same(Nonterms)
  BY <1>0 DEF TablesInv, Shapes, GotoShapes
<1>4. Shapes'
  <2> SUFFICES ASSUME StateIds # {}, Terms # {}
               PROVE  /\ phase' = "actionColumns" =>
                           /\ IsTable(actionTable', StateIds', Terms')
                           /\ actionRow' = Same(StateIds') /\ actionCol' = Same(Terms')
                      /\ phase' = "actionRows" =>
                           /\ actionRow' = Same(StateIds')
                           /\ IsTable(actionTable', StateIds', ColorsOf(actionCol', Terms'))
    BY <1>0, <1>1 DEF Shapes, IsTable, Same, ColorsOf
  <2>1. /\ IsTable(actionTable', StateIds', Terms')
        /\ actionRow' = Same(StateIds') /\ actionCol' = Same(Terms')
    BY <1>0, <1>1, <1>3
  <2>2. ColorsOf(actionCol', Terms') = Terms'
    BY <2>1, OwnColors
  <2> QED
    BY <2>1, <2>2
<1>5. GotoShapes'
  BY <1>0, <1>1, <1>3 DEF GotoShapes, IsTable, Same
<1>6. Entries'
  <2>1. ASSUME NEW s \in StateIds, NEW t \in Terms PROVE CellIs(<<s, t>>, Entry(s, t))'
    <3>1. PICK code : code = Entry(s, t)
      OBVIOUS
    <3>2. Entry(s, t)' = code
      BY <1>0, <3>1 DEF Entry
    <3>3. CellIs(<<s, t>>, code)
      BY <1>0, <1>2, <3>1 DEF TablesInv, Entries, FilledPhases
    <3>4. CellIs(<<s, t>>, code)'
      BY <1>0, <3>3, SameEntries
    <3> QED
      BY <3>2, <3>4
  <2> QED
    BY <1>1, <2>1 DEF Entries
<1>7. Gotos'
  <2>1. ASSUME NEW s \in StateIds, NEW t \in Nonterms PROVE GotoIs(<<s, t>>, GotoEntry(s, t))'
    <3>1. PICK code : code = GotoEntry(s, t)
      OBVIOUS
    <3>2. GotoEntry(s, t)' = code
      BY <1>0, <3>1 DEF GotoEntry
    <3>3. GotoIs(<<s, t>>, code)
      BY <1>0, <3>1 DEF TablesInv, Gotos, FilledPhases
    <3>4. GotoIs(<<s, t>>, code)'
      BY <1>0, <3>3, SameEntries
    <3> QED
      BY <3>2, <3>4
  <2> QED
    BY <1>1, <2>1 DEF Gotos
<1>8. Bits'
  <2>1. ASSUME build.eef, NEW s \in StateIds, NEW t \in Terms
        PROVE  t \in errorBits'[errorRow'[s]] <=> IsEmptyCell(s, t)'
    <3>1. errorBits'[errorRow'[s]] = ErrorTerms(s)
      BY <2>1, BitsAre DEF Sound
    <3>2. t \in ErrorTerms(s) <=> IsEmptyCell(s, t)
      BY <1>0, ErrorTermsAre
    <3>3. IsEmptyCell(s, t)' <=> IsEmptyCell(s, t)
      BY <1>0, SameEntries
    <3> QED
      BY <3>1, <3>2, <3>3
  <2>2. errorRow' # << >> => build.eef
    BY <1>0, <1>2
  <2>3. ASSUME build.eef, StateIds # {} PROVE errorRow' # << >>
    <3>1. PICK s \in StateIds : TRUE
      BY <2>3
    <3> QED
      BY <2>3, <3>1, BitsAre DEF Sound
  <2>4. phase' \in MergePhases => build.eef
    BY <1>0, BuildIs DEF MergePhases
  <2> QED
    BY <1>0, <1>1, <2>1, <2>2, <2>3, <2>4 DEF Bits, FilledPhases, MergePhases
<1>9. TempIn(temp)'
  <2>1. PICK tmp : tmp = temp
    OBVIOUS
  <2>2. TempIn(tmp)'
    BY <1>0, <2>1, SameTemp DEF TablesInv, FilledPhases
  <2> QED
    BY <1>0, <2>1, <2>2
<1> QED
  BY <1>0, <1>4, <1>5, <1>6, <1>7, <1>8, <1>9 DEF TablesInv, Early, WhileFilling

\* What a merge of lines leaves alone, whichever lines it merges.
MergeKeeps ==
  /\ phase \in MergePhases /\ phase' \in {"actionRows", "gotoColumns", "gotoRows", "done"}
  /\ UNCHANGED <<build, state, term, temp, errorBits, errorRow>>
ActionsKept ==
  \A s \in StateIds, t \in Terms : Entry(s, t) # ErrorAction => Entry(s, t)' = Entry(s, t)
GotosKept ==
  \A s \in StateIds, n \in Nonterms : GotoEntry(s, n) # ErrorGoto => GotoEntry(s, n)' = GotoEntry(s, n)

LEMMA MergedKeeps ==
  ASSUME TablesInv, Sound, SameCells, MergeKeeps, ActionsKept, GotosKept, Shapes', GotoShapes'
  PROVE  TablesInv'
<1>0. /\ phase \in MergePhases /\ phase \in FilledPhases
      /\ phase' \in {"actionRows", "gotoColumns", "gotoRows", "done"}
      /\ UNCHANGED <<temp, errorBits, errorRow, build>>
  BY DEF MergeKeeps, MergePhases, FilledPhases
<1>1. /\ StateIds' = StateIds /\ Terms' = Terms /\ Nonterms' = Nonterms
  BY SameStateSymbols
<1>2. StateIds # {} => errorRow # << >>
  BY <1>0 DEF TablesInv, Bits
<1>3. ASSUME NEW s \in StateIds, NEW t \in Terms, ~ IsEmptyCell(s, t)
      PROVE  CellIs(<<s, t>>, Entry(s, t))'
  <2>1. CellIs(<<s, t>>, Entry(s, t)) /\ Entry(s, t) # ErrorAction
    BY <1>0, <1>3, FullEntry
  <2>2. PICK code : code = Entry(s, t)
    OBVIOUS
  <2>3. Entry(s, t)' = code
    BY <2>1, <2>2 DEF ActionsKept
  <2>4. CellIs(<<s, t>>, code)'
    BY <1>0, <2>1, <2>2, SameEntries
  <2> QED
    BY <2>3, <2>4
<1>4. ASSUME NEW s \in StateIds, NEW t \in Terms
      PROVE IsEmptyCell(s, t)' <=> IsEmptyCell(s, t)
  BY <1>0, SameEntries
<1>5. Entries'
  BY <1>0, <1>1, <1>2, <1>3, <1>4 DEF Entries
<1>6. ASSUME NEW s \in StateIds, NEW n \in Nonterms
      PROVE  GotoIs(<<s, n>>, GotoEntry(s, n))'
  <2>1. PICK code : code = GotoEntry(s, n)
    OBVIOUS
  <2>2. GotoIs(<<s, n>>, code)
    BY <1>0, <2>1 DEF TablesInv, Gotos
  <2>3. CASE NontermId(n) \in DOMAIN sets[s].trans
    <3>1. code # ErrorGoto
      BY <2>2, <2>3, EncodedGotoIs DEF GotoIs
    <3>2. GotoEntry(s, n)' = code
      BY <2>1, <3>1 DEF GotosKept
    <3>3. GotoIs(<<s, n>>, code)'
      BY <1>0, <2>2, SameEntries
    <3> QED
      BY <3>2, <3>3
  <2>4. CASE NontermId(n) \notin DOMAIN sets[s].trans
    BY <2>4 DEF GotoIs, SameCells, NontermId
  <2> QED
    BY <2>3, <2>4
<1>7. Gotos'
  BY <1>1, <1>6 DEF Gotos
<1>8. Bits'
  BY <1>0, <1>1, <1>2, <1>4 DEF TablesInv, Bits, FilledPhases, MergePhases
<1>9. TempIn(temp)'
  <2>1. PICK tmp : tmp = temp
    OBVIOUS
  <2>2. TempIn(tmp)'
    BY <1>0, <2>1, SameTemp DEF TablesInv
  <2> QED
    BY <1>0, <2>1, <2>2
<1>10. build' \in Builds
  BY <1>0 DEF TablesInv
<1> QED
  BY <1>0, <1>5, <1>7, <1>8, <1>9, <1>10 DEF TablesInv, Early, WhileFilling

LEMMA SameGotoEntries ==
  ASSUME UNCHANGED <<gotoTable, gotoRow, gotoCol>>
  PROVE  GotosKept
BY DEF GotosKept, GotoEntry

LEMMA SameActionEntries ==
  ASSUME UNCHANGED <<actionTable, actionRow, actionCol>>
  PROVE  ActionsKept
BY DEF ActionsKept, Entry

LEMMA LinesAre ==
  ASSUME Sound
  PROVE  /\ \E n \in Nat : StateIds = 0..(n - 1)
         /\ \E n \in Nat : Terms = 0..(n - 1)
         /\ \E n \in Nat : Nonterms = 0..(n - 1)
         /\ Nonterms # {}
BY StateIdsAre DEF Sound, SoundGrammar, Terms, Nonterms

LEMMA MergeActionColumnsKeeps ==
  ASSUME TablesInv, Sound, SameCells, MergeActionColumns
  PROVE  TablesInv'
<1>0. /\ phase = "actionColumns" /\ phase' = "actionRows"
      /\ actionTable' = MergeColumns(actionTable, ErrorAction).table
      /\ actionCol' = MergeColumns(actionTable, ErrorAction).color
      /\ UNCHANGED <<actionRow, gotoTable, gotoRow, gotoCol>>
  BY DEF MergeActionColumns
<1>1. MergeKeeps
  BY DEF MergeActionColumns, MergeKeeps, MergePhases
<1>2. /\ StateIds' = StateIds /\ Terms' = Terms /\ Nonterms' = Nonterms
  BY SameStateSymbols
<1>3. GotosKept
  BY <1>0, SameGotoEntries
<1>4. GotoShapes'
  BY <1>0, <1>2 DEF TablesInv, GotoShapes, IsTable, Same
<1>5. CASE StateIds = {} \/ Terms = {}
  <2>1. Shapes'
    BY <1>2, <1>5 DEF Shapes
  <2>2. ActionsKept
    BY <1>5 DEF ActionsKept
  <2> QED
    BY <1>1, <1>3, <1>4, <2>1, <2>2, MergedKeeps
<1>6. CASE StateIds # {} /\ Terms # {}
  <2>1. PICK n \in Nat : Terms = 0..(n - 1)
    BY LinesAre
  <2>2. /\ IsTable(actionTable, StateIds, Terms)
        /\ actionRow = Same(StateIds) /\ actionCol = Same(Terms)
    BY <1>0, <1>6 DEF TablesInv, Shapes
  <2>3. PICK m : m = MergeColumns(actionTable, ErrorAction)
    OBVIOUS
  <2>4. IsTable(m.table, StateIds, ColorsOf(m.color, Terms))
    BY <1>6, <2>1, <2>2, <2>3, ColumnsMerged
  <2>5. KeepsColumns(actionTable, m.table, StateIds, Terms, m.color, ErrorAction)
    BY <1>6, <2>1, <2>2, <2>3, ColumnsMerged
  <2>6. actionTable' = m.table /\ actionCol' = m.color
    BY <1>0, <2>3
  <2>7. Shapes'
    <3> SUFFICES /\ actionRow' = Same(StateIds')
                 /\ IsTable(actionTable', StateIds', ColorsOf(actionCol', Terms'))
      BY <1>0 DEF Shapes, IsTable, Same, ColorsOf
    <3> QED
      BY <1>0, <1>2, <2>2, <2>4, <2>6
  <2>8. ActionsKept
    <3> SUFFICES ASSUME NEW s \in StateIds, NEW t \in Terms, Entry(s, t) # ErrorAction
                 PROVE  Entry(s, t)' = Entry(s, t)
      BY DEF ActionsKept
    <3>1. Entry(s, t) = actionTable[<<s, t>>]
      BY <2>2 DEF Entry, Same
    <3>2. Entry(s, t)' = m.table[<<s, m.color[t]>>]
      BY <1>0, <2>2, <2>6 DEF Entry, Same
    <3> QED
      BY <2>5, <3>1, <3>2 DEF KeepsColumns
  <2> QED
    BY <1>1, <1>3, <1>4, <2>7, <2>8, MergedKeeps
<1> QED
  BY <1>5, <1>6

LEMMA MergeActionRowsKeeps ==
  ASSUME TablesInv, Sound, SameCells, MergeActionRows
  PROVE  TablesInv'
<1>0. /\ phase = "actionRows" /\ phase' \in {"gotoColumns", "gotoRows"}
      /\ actionTable' = MergeRows(actionTable, ErrorAction).table
      /\ actionRow' = MergeRows(actionTable, ErrorAction).color
      /\ UNCHANGED <<actionCol, gotoTable, gotoRow, gotoCol>>
  BY DEF MergeActionRows
<1>1. MergeKeeps
  BY DEF MergeActionRows, MergeKeeps, MergePhases
<1>2. /\ StateIds' = StateIds /\ Terms' = Terms /\ Nonterms' = Nonterms
  BY SameStateSymbols
<1>3. GotosKept
  BY <1>0, SameGotoEntries
<1>4. GotoShapes'
  <2> SUFFICES ASSUME StateIds # {}
               PROVE  /\ IsTable(gotoTable, StateIds, Nonterms)
                      /\ gotoRow = Same(StateIds) /\ gotoCol = Same(Nonterms)
                      /\ IsTable(gotoTable, StateIds, ColorsOf(gotoCol, Nonterms))
    BY <1>0, <1>2 DEF GotoShapes, IsTable, Same, ColorsOf
  <2>1. /\ IsTable(gotoTable, StateIds, Nonterms)
        /\ gotoRow = Same(StateIds) /\ gotoCol = Same(Nonterms)
    BY <1>0 DEF TablesInv, GotoShapes
  <2>2. ColorsOf(gotoCol, Nonterms) = Nonterms
    BY <2>1, OwnColors
  <2> QED
    BY <2>1, <2>2
<1>5. Shapes'
  BY <1>0 DEF Shapes
<1>6. CASE StateIds = {} \/ Terms = {}
  <2>2. ActionsKept
    BY <1>6 DEF ActionsKept
  <2> QED
    BY <1>1, <1>3, <1>4, <1>5, <2>2, MergedKeeps
<1>7. CASE StateIds # {} /\ Terms # {}
  <2>1. PICK n \in Nat : StateIds = 0..(n - 1)
    BY LinesAre
  <2>2. PICK C : C = ColorsOf(actionCol, Terms)
    OBVIOUS
  <2>3. /\ IsTable(actionTable, StateIds, C) /\ actionRow = Same(StateIds)
    BY <1>0, <1>7, <2>2 DEF TablesInv, Shapes
  <2>4. C # {} /\ \A t \in Terms : actionCol[t] \in C
    BY <1>7, <2>2 DEF ColorsOf
  <2>5. PICK m : m = MergeRows(actionTable, ErrorAction)
    OBVIOUS
  <2>6. KeepsEntries(actionTable, m.table, StateIds, C, m.color, ErrorAction)
    BY <1>7, <2>1, <2>3, <2>4, <2>5, RowsMerged
  <2>7. actionTable' = m.table /\ actionRow' = m.color
    BY <1>0, <2>5
  <2>8. ActionsKept
    <3> SUFFICES ASSUME NEW s \in StateIds, NEW t \in Terms, Entry(s, t) # ErrorAction
                 PROVE  Entry(s, t)' = Entry(s, t)
      BY DEF ActionsKept
    <3>1. Entry(s, t) = actionTable[<<s, actionCol[t]>>]
      BY <2>3 DEF Entry, Same
    <3>2. Entry(s, t)' = m.table[<<m.color[s], actionCol[t]>>]
      BY <1>0, <2>7 DEF Entry
    <3> QED
      BY <2>4, <2>6, <3>1, <3>2 DEF KeepsEntries
  <2> QED
    BY <1>1, <1>3, <1>4, <1>5, <2>8, MergedKeeps
<1> QED
  BY <1>6, <1>7

LEMMA MergeGotoColumnsKeeps ==
  ASSUME TablesInv, Sound, SameCells, MergeGotoColumns
  PROVE  TablesInv'
<1>0. /\ phase = "gotoColumns" /\ phase' = "gotoRows"
      /\ gotoTable' = MergeColumns(gotoTable, ErrorGoto).table
      /\ gotoCol' = MergeColumns(gotoTable, ErrorGoto).color
      /\ UNCHANGED <<gotoRow, actionTable, actionRow, actionCol>>
  BY DEF MergeGotoColumns
<1>1. MergeKeeps
  BY DEF MergeGotoColumns, MergeKeeps, MergePhases
<1>2. /\ StateIds' = StateIds /\ Terms' = Terms /\ Nonterms' = Nonterms
  BY SameStateSymbols
<1>3. ActionsKept
  BY <1>0, SameActionEntries
<1>4. Shapes'
  BY <1>0 DEF Shapes
<1>5. CASE StateIds = {}
  <2>1. GotoShapes'
    BY <1>2, <1>5 DEF GotoShapes
  <2>2. GotosKept
    BY <1>5 DEF GotosKept
  <2> QED
    BY <1>1, <1>3, <1>4, <2>1, <2>2, MergedKeeps
<1>6. CASE StateIds # {}
  <2>1. PICK n \in Nat : Nonterms = 0..(n - 1)
    BY LinesAre
  <2>2. /\ IsTable(gotoTable, StateIds, Nonterms)
        /\ gotoRow = Same(StateIds) /\ gotoCol = Same(Nonterms)
    BY <1>0, <1>6 DEF TablesInv, GotoShapes
  <2>3. PICK m : m = MergeColumns(gotoTable, ErrorGoto)
    OBVIOUS
  <2>9. Nonterms # {}
    BY LinesAre
  <2>4. IsTable(m.table, StateIds, ColorsOf(m.color, Nonterms))
    BY <1>6, <2>1, <2>2, <2>3, <2>9, ColumnsMerged
  <2>5. KeepsColumns(gotoTable, m.table, StateIds, Nonterms, m.color, ErrorGoto)
    BY <1>6, <2>1, <2>2, <2>3, <2>9, ColumnsMerged
  <2>6. gotoTable' = m.table /\ gotoCol' = m.color
    BY <1>0, <2>3
  <2>7. GotoShapes'
    <3> SUFFICES /\ gotoRow' = Same(StateIds')
                 /\ IsTable(gotoTable', StateIds', ColorsOf(gotoCol', Nonterms'))
      BY <1>0 DEF GotoShapes, IsTable, Same, ColorsOf
    <3> QED
      BY <1>0, <1>2, <2>2, <2>4, <2>6
  <2>8. GotosKept
    <3> SUFFICES ASSUME NEW s \in StateIds, NEW t \in Nonterms, GotoEntry(s, t) # ErrorGoto
                 PROVE  GotoEntry(s, t)' = GotoEntry(s, t)
      BY DEF GotosKept
    <3>1. GotoEntry(s, t) = gotoTable[<<s, t>>]
      BY <2>2 DEF GotoEntry, Same
    <3>2. GotoEntry(s, t)' = m.table[<<s, m.color[t]>>]
      BY <1>0, <2>2, <2>6 DEF GotoEntry, Same
    <3> QED
      BY <2>5, <3>1, <3>2 DEF KeepsColumns
  <2> QED
    BY <1>1, <1>3, <1>4, <2>7, <2>8, MergedKeeps
<1> QED
  BY <1>5, <1>6

LEMMA MergeGotoRowsKeeps ==
  ASSUME TablesInv, Sound, SameCells, MergeGotoRows
  PROVE  TablesInv'
<1>0. /\ phase = "gotoRows" /\ phase' = "done"
      /\ gotoTable' = MergeRows(gotoTable, ErrorGoto).table
      /\ gotoRow' = MergeRows(gotoTable, ErrorGoto).color
      /\ UNCHANGED <<gotoCol, actionTable, actionRow, actionCol>>
  BY DEF MergeGotoRows
<1>1. MergeKeeps
  BY DEF MergeGotoRows, MergeKeeps, MergePhases
<1>2. /\ StateIds' = StateIds /\ Terms' = Terms /\ Nonterms' = Nonterms
  BY SameStateSymbols
<1>3. ActionsKept
  BY <1>0, SameActionEntries
<1>4. Shapes' /\ GotoShapes'
  BY <1>0 DEF Shapes, GotoShapes
<1>6. CASE StateIds = {}
  <2>2. GotosKept
    BY <1>6 DEF GotosKept
  <2> QED
    BY <1>1, <1>3, <1>4, <2>2, MergedKeeps
<1>7. CASE StateIds # {}
  <2>1. PICK n \in Nat : StateIds = 0..(n - 1)
    BY LinesAre
  <2>2. PICK C : C = ColorsOf(gotoCol, Nonterms)
    OBVIOUS
  <2>3. /\ IsTable(gotoTable, StateIds, C) /\ gotoRow = Same(StateIds)
    BY <1>0, <1>7, <2>2 DEF TablesInv, GotoShapes
  <2>9. Nonterms # {}
    BY LinesAre
  <2>4. C # {} /\ \A t \in Nonterms : gotoCol[t] \in C
    BY <2>9, <2>2 DEF ColorsOf
  <2>5. PICK m : m = MergeRows(gotoTable, ErrorGoto)
    OBVIOUS
  <2>6. KeepsEntries(gotoTable, m.table, StateIds, C, m.color, ErrorGoto)
    BY <1>7, <2>1, <2>3, <2>4, <2>5, RowsMerged
  <2>7. gotoTable' = m.table /\ gotoRow' = m.color
    BY <1>0, <2>5
  <2>8. GotosKept
    <3> SUFFICES ASSUME NEW s \in StateIds, NEW t \in Nonterms, GotoEntry(s, t) # ErrorGoto
                 PROVE  GotoEntry(s, t)' = GotoEntry(s, t)
      BY DEF GotosKept
    <3>1. GotoEntry(s, t) = gotoTable[<<s, gotoCol[t]>>]
      BY <2>3 DEF GotoEntry, Same
    <3>2. GotoEntry(s, t)' = m.table[<<m.color[s], gotoCol[t]>>]
      BY <1>0, <2>7 DEF GotoEntry
    <3> QED
      BY <2>4, <2>6, <3>1, <3>2 DEF KeepsEntries
  <2> QED
    BY <1>1, <1>3, <1>4, <2>8, MergedKeeps
<1> QED
  BY <1>6, <1>7

LEMMA TablesStep ==
  ASSUME TablesInv, SetsInv, Typed, Settled, Typed', SetsInv', [Next]_vars
  PROVE  TablesInv'
<1>1. CASE ~ ComputeParseTables
  BY <1>1, OtherStepsKeep
<1>2. CASE ComputeParseTables
  <2>1. Sound
    BY GivenIsSound DEF SetsInv, Typed, Sound
  <2>2. /\ \/ FillActionEntry \/ FillGotoRow \/ TablesFilled
           \/ ComputeErrorBits \/ MergeActionColumns \/ MergeActionRows
           \/ MergeGotoColumns \/ MergeGotoRows
        /\ UNCHANGED <<grammar, first, setsVars>>
    BY <1>2 DEF ComputeParseTables, TablesNext
  <2>3. SameCells
    BY <2>2 DEF SameCells, setsVars, FillActionEntry, FillGotoRow, TablesFilled, ComputeErrorBits,
                MergeActionColumns, MergeActionRows, MergeGotoColumns, MergeGotoRows
  <2> QED
    BY <2>1, <2>2, <2>3, FillActionKeeps, FillGotoKeeps, TablesFilledKeeps, ErrorBitsKeep,
       MergeActionColumnsKeeps, MergeActionRowsKeeps, MergeGotoColumnsKeeps, MergeGotoRowsKeeps
<1> QED
  BY <1>1, <1>2

(* All that holds at every step.                                           *)
AnalysisInv == SetsInv /\ PhaseIn /\ Typed /\ Settled /\ Placed /\ TablesInv

LEMMA AnalysisInit ==
  Init => AnalysisInv
<1> SUFFICES ASSUME Init PROVE AnalysisInv
  OBVIOUS
<1>1. SetsInv
  BY InitSetsInv
<1>2. PhaseIn /\ Settled
  BY DEF Init, D!Init, FirstFollowInit, PhaseIn, Settled, Phases, Early
<1>3. Placed
  BY DEF Init, ItemSetsInit, Placed
<1> QED
  BY <1>1, <1>2, <1>3, InitTyped, TablesInit0 DEF AnalysisInv

LEMMA AnalysisStep ==
  AnalysisInv /\ [Next]_vars => AnalysisInv'
<1> SUFFICES ASSUME AnalysisInv, [Next]_vars PROVE AnalysisInv'
  OBVIOUS
<1>1. SetsInv /\ PhaseIn /\ Typed /\ Settled /\ Placed /\ TablesInv
  BY DEF AnalysisInv
<1>2. SetsInv'
  BY <1>1, SetsInvStep
<1>3. PhaseIn'
  BY <1>1, PhaseInStep
<1>4. Typed'
  BY <1>1, TypedStep
<1>5. Settled'
  BY <1>1, SettledStep
<1>6. Placed'
  BY <1>1, PlacedStep
<1>7. TablesInv'
  BY <1>1, <1>2, <1>4, TablesStep
<1> QED
  BY <1>2, <1>3, <1>4, <1>5, <1>6, <1>7 DEF AnalysisInv

LEMMA AnalysisAlways == Spec => []AnalysisInv
BY AnalysisInit, AnalysisStep, PTL DEF Spec

-----------------------------------------------------------------------------
(* What the queries find.                                                  *)
LEMMA QueryMeans ==
  ASSUME TablesInv, Sound, phase \in FilledPhases, NEW s \in StateIds, NEW t \in Terms
  PROVE  CellIs(<<s, t>>, GetActionEntry(s, t))
<1>1. build \in Builds
  BY DEF TablesInv
<1>2. CASE errorRow # << >>
  <2>1. build.eef /\ (t \in errorBits[errorRow[s]] <=> IsEmptyCell(s, t))
    BY <1>2 DEF TablesInv, Bits
  <2>2. ActionEntryIsError(s, t) <=> IsEmptyCell(s, t)
    BY <1>2, <2>1 DEF ActionEntryIsError
  <2>3. CASE ~ IsEmptyCell(s, t)
    BY <2>2, <2>3, FullEntry DEF GetActionEntry, Entry
  <2>4. CASE IsEmptyCell(s, t)
    <3>1. GetActionEntry(s, t) = ErrorAction
      BY <2>2, <2>4 DEF GetActionEntry
    <3>2. ErrorAction \in Int
      BY BuildsAssumption DEF ErrorAction
    <3>3. PICK cell : cell = ResolvedCell(s, t) /\ Actions(cell) = 0
      BY <2>4 DEF IsEmptyCell
    <3>4. CodeMeans(temp, ErrorAction, cell, s, t)
      BY <3>2, <3>3 DEF CodeMeans
    <3> QED
      BY <3>1, <3>3, <3>4 DEF CellIs
  <2> QED
    BY <2>3, <2>4
<1>3. CASE errorRow = << >>
  <2>1. CellIs(<<s, t>>, Entry(s, t))
    BY <1>3 DEF TablesInv, Entries
  <2>2. GetActionEntry(s, t) = Entry(s, t)
    BY <1>3 DEF GetActionEntry, ActionEntryIsError, IsErrorAction, Entry
  <2> QED
    BY <2>1, <2>2
<1> QED
  BY <1>2, <1>3

LEMMA QueryDecoded ==
  ASSUME TablesInv, Sound, phase \in FilledPhases, NEW s \in StateIds, NEW t \in Terms
  PROVE  Decoded(GetActionEntry(s, t), s, t) = ResolvedCell(s, t)
<1>1. PICK cell : cell = ResolvedCell(s, t)
  OBVIOUS
<1>2. PICK code : code = GetActionEntry(s, t)
  OBVIOUS
<1>3. CodeMeans(temp, code, cell, s, t) /\ TempIn(temp)
  BY <1>1, <1>2, QueryMeans DEF CellIs, TablesInv
<1>4. CellOf(cell, Shifts(s, t), Reds(s, t))
  BY <1>1, ResolvedIn DEF Sound
<1> QED
  BY <1>1, <1>2, <1>3, <1>4, MeansDecoded

LEMMA GotoDecoded ==
  ASSUME TablesInv, Sound, phase \in FilledPhases, NEW s \in StateIds, NEW n \in Nonterms,
         NontermId(n) \in DOMAIN sets[s].trans
  PROVE  DecodeGoto(s, n) = sets[s].trans[NontermId(n)]
<1>1. GotoEntry(s, n) = EncodeGoto(sets[s].trans[NontermId(n)], NontermId(n))
  BY DEF TablesInv, Gotos, GotoIs
<1> QED
  BY <1>1, EncodedGotoIs DEF DecodeGoto, GotoEntry

LEMMA QueriesDo ==
  AnalysisInv => QueriesAgree
<1> SUFFICES ASSUME AnalysisInv, TablesDone PROVE QueriesAgree
  BY DEF QueriesAgree
<1>1. TablesInv /\ Sound /\ phase \in FilledPhases
  BY GivenIsSound DEF AnalysisInv, SetsInv, Typed, Sound, TablesDone, FilledPhases
<1>2. \A s \in StateIds, t \in Terms : Decoded(GetActionEntry(s, t), s, t) = ResolvedCell(s, t)
  BY <1>1, QueryDecoded
<1>3. \A s \in StateIds, n \in Nonterms :
        NontermId(n) \in DOMAIN sets[s].trans => DecodeGoto(s, n) = sets[s].trans[NontermId(n)]
  BY <1>1, GotoDecoded
<1> QED
  BY <1>2, <1>3 DEF QueriesAgree

(* Whatever the build merges, shares or encodes with fewer bits, the       *)
(* queries of the finished tables give the parser for each state and       *)
(* terminal the actions that the conflict resolution has left there, and   *)
(* for each state and nonterminal the transition of the item set.          *)
THEOREM QueriesAlwaysAgree == Spec => []QueriesAgree
BY AnalysisAlways, QueriesDo, PTL

-----------------------------------------------------------------------------
(* The conflicts that are counted.                                         *)
NoSplit(t) == Token(t).assoc # "SPLIT"

LEMMA NoSplitVerdict ==
  ASSUME SoundGrammar(grammar), NEW s, NEW p, NEW t \in Terms, NoSplit(t)
  PROVE  HandleShiftReduceConflict(s, p, t) # "dontWarn"
<1>1. Token(t).assoc \in {"LEFT", "RIGHT", "NONASSOC", "NEVERASSOC"}
  BY DEF SoundGrammar, Terms, Token, NoSplit, Associativity
<1> QED
  BY <1>1 DEF HandleShiftReduceConflict

LEMMA NoSplitWarns ==
  ASSUME SoundGrammar(grammar), NEW s, NEW t \in Terms, NoSplit(t),
         NEW shifts, NoState \in shifts, NEW S, NEW cell, CellOf(cell, shifts, S)
  PROVE  Disambiguated(s, t, cell).dontWarns = 0
<1>1. Uncounted(cell).dontWarns = 0
  BY DEF Uncounted
<1>2. ResolveShift(s, t, cell).dontWarns = 0
  <2>1. PICK f : IsResolving(f, s, t, cell, shifts, S)
    BY ResolveShiftRuns
  <2>2. PICK n \in Nat : n = Len(cell.reds)
    BY <2>1 DEF IsResolving
  <2>3. PICK Zero : Zero = {f[k] : k \in {j \in 0..n : f[j].dontWarns = 0}}
    OBVIOUS
  <2>4. PICK V : V = [k \in 0..n |-> Zero]
    OBVIOUS
  <2>5. 0 \in 0..n /\ n \in 0..n /\ \A k \in 1..n : k \in 0..n /\ k - 1 \in 0..n
    OBVIOUS
  <2>6. f[0] \in V[0]
    <3>1. f[0].dontWarns = 0
      BY <2>1 DEF IsResolving, Uncounted
    <3> QED
      BY <2>3, <2>4, <2>5, <3>1
  <2>7. ASSUME NEW k \in 1..n, f[k - 1] \in V[k - 1] PROVE f[k] \in V[k]
    <3>1. f[k - 1].dontWarns = 0 /\ k \in 0..n
      BY <2>3, <2>4, <2>5, <2>7
    <3>2. f[k] = WithReduction(s, t, f[k - 1], cell.reds[k])
      BY <2>1, <2>2 DEF IsResolving
    <3>3. HandleShiftReduceConflict(s, cell.reds[k], t) # "dontWarn"
      BY NoSplitVerdict
    <3>4. Counted(f[k - 1], shifts, S)
      BY <2>1, <2>2, <2>5 DEF IsResolving
    <3>5. f[k].dontWarns = f[k - 1].dontWarns
      <4>1. PICK acc : acc = f[k - 1]
        OBVIOUS
      <4>2. acc = [cell |-> acc.cell, dontWarns |-> 0, errors |-> acc.errors]
        BY <3>1, <3>4, <4>1 DEF Counted
      <4> QED
        BY <3>2, <3>3, <4>1, <4>2 DEF WithReduction
    <3> QED
      BY <2>3, <2>4, <3>1, <3>5
  <2>8. \A k \in 0..n : f[k] \in V[k]
    BY <2>6, <2>7, StaysIn
  <2>9. f[n].dontWarns = 0
    BY <2>3, <2>4, <2>5, <2>8
  <2> QED
    BY <2>1, <2>2, <2>9 DEF IsResolving
<1>3. Counted(ResolveShift(s, t, cell), shifts, S)
  BY ResolveShiftIn
<1>4. PICK shifted : shifted = IF cell.shift = NoState THEN Uncounted(cell)
                               ELSE ResolveShift(s, t, cell)
  OBVIOUS
<1>5. shifted = [cell |-> shifted.cell, dontWarns |-> 0, errors |-> shifted.errors]
  BY <1>1, <1>2, <1>3, <1>4 DEF Counted, Uncounted
<1>6. PICK r : Disambiguated(s, t, cell) = IF Actions(cell) <= 1 THEN Uncounted(cell)
                                           ELSE [shifted EXCEPT !.cell = Cell(@.shift, r)]
  BY <1>4 DEF Disambiguated
<1>7. [shifted EXCEPT !.cell = Cell(@.shift, r)].dontWarns = 0
  BY <1>5
<1> QED
  BY <1>1, <1>6, <1>7

LeftCell(c) == Disambiguated(c[1], c[2], PossibleActions(c[1], c[2])).cell
ShiftChoices(S) == {c \in S : Actions(LeftCell(c)) > 1 /\ LeftCell(c).shift # NoState}
MoreReds(S) == UNION {{c} \X (2..Len(LeftCell(c).reds)) : c \in {d \in S : Actions(LeftCell(d)) > 1}}
CellsSeen == IF phase = "tables" THEN Visited ELSE StateIds \X Terms
CountsInv ==
  /\ sr \in Nat /\ rr \in Nat /\ errors \in Nat
  /\ phase \in Early \cup {"number"} => sr = 0 /\ rr = 0
  /\ (phase = "tables" \/ phase \in FilledPhases) /\ (\A t \in Terms : NoSplit(t)) =>
       /\ sr = Cardinality(ShiftChoices(CellsSeen))
       /\ rr = Cardinality(MoreReds(CellsSeen)) /\ IsFiniteSet(MoreReds(CellsSeen))

LEMMA MoreCounted ==
  ASSUME NEW S, IsFiniteSet(S), IsFiniteSet(MoreReds(S)), NEW c, c \notin S,
         Len(LeftCell(c).reds) \in Nat
  PROVE  /\ Cardinality(ShiftChoices(S \cup {c})) = Cardinality(ShiftChoices(S)) +
              IF Actions(LeftCell(c)) > 1 /\ LeftCell(c).shift # NoState THEN 1 ELSE 0
         /\ IsFiniteSet(MoreReds(S \cup {c}))
         /\ Cardinality(MoreReds(S \cup {c})) = Cardinality(MoreReds(S)) +
              IF Actions(LeftCell(c)) > 1 /\ Len(LeftCell(c).reds) > 1 THEN Len(LeftCell(c).reds) - 1 ELSE 0
<1>1. Cardinality(ShiftChoices(S \cup {c})) = Cardinality(ShiftChoices(S)) +
              IF Actions(LeftCell(c)) > 1 /\ LeftCell(c).shift # NoState THEN 1 ELSE 0
  <2>1. IsFiniteSet(ShiftChoices(S)) /\ c \notin ShiftChoices(S)
    BY FS_Subset DEF ShiftChoices
  <2>2. CASE Actions(LeftCell(c)) > 1 /\ LeftCell(c).shift # NoState
    <3>1. ShiftChoices(S \cup {c}) = ShiftChoices(S) \cup {c}
      BY <2>2 DEF ShiftChoices
    <3> QED
      BY <2>1, <2>2, <3>1, FS_AddElement
  <2>3. CASE ~ (Actions(LeftCell(c)) > 1 /\ LeftCell(c).shift # NoState)
    <3>1. ShiftChoices(S \cup {c}) = ShiftChoices(S)
      BY <2>3 DEF ShiftChoices
    <3>2. Cardinality(ShiftChoices(S)) \in Nat
      BY <2>1, FS_CardinalityType
    <3> QED
      BY <2>3, <3>1, <3>2
  <2> QED
    BY <2>2, <2>3
<1>2. PICK n \in Nat : n = Len(LeftCell(c).reds)
  OBVIOUS
<1>3. Cardinality(MoreReds(S)) \in Nat
  BY FS_CardinalityType
<1>4. CASE Actions(LeftCell(c)) > 1
  <2>1. PICK N : N = {c} \X (2..n)
    OBVIOUS
  <2>2. MoreReds(S \cup {c}) = MoreReds(S) \cup N
    BY <1>2, <1>4, <2>1 DEF MoreReds
  <2>3. MoreReds(S) \cap N = {}
    BY <2>1 DEF MoreReds
  <2>4. IsFiniteSet(2..n) /\ Cardinality(2..n) = IF n > 1 THEN n - 1 ELSE 0
    <3>1. 2 \in Int /\ n \in Int
      OBVIOUS
    <3>2. IsFiniteSet(2..n) /\ Cardinality(2..n) = IF 2 > n THEN 0 ELSE n - 2 + 1
      BY <3>1, FS_Interval
    <3>3. (IF 2 > n THEN 0 ELSE n - 2 + 1) = IF n > 1 THEN n - 1 ELSE 0
      OBVIOUS
    <3> QED
      BY <3>2, <3>3
  <2>5. IsFiniteSet(N) /\ Cardinality(N) = IF n > 1 THEN n - 1 ELSE 0
    <3>1. IsFiniteSet({c}) /\ Cardinality({c}) = 1
      BY FS_Singleton
    <3>2. IsFiniteSet(N) /\ Cardinality(N) = 1 * Cardinality(2..n)
      BY <2>1, <2>4, <3>1, FS_Product
    <3> QED
      BY <2>4, <3>2
  <2>6. Cardinality(MoreReds(S) \cap N) = 0
    BY <2>3, FS_EmptySet
  <2>7. IsFiniteSet(MoreReds(S) \cup N) /\
          Cardinality(MoreReds(S) \cup N) = Cardinality(MoreReds(S)) + Cardinality(N) - 0
    BY <2>5, <2>6, FS_Union
  <2>8. Cardinality(MoreReds(S)) + Cardinality(N) - 0 = Cardinality(MoreReds(S)) + Cardinality(N)
    BY <1>3, <2>5
  <2>9. Cardinality(N) = IF Actions(LeftCell(c)) > 1 /\ Len(LeftCell(c).reds) > 1
                         THEN Len(LeftCell(c).reds) - 1 ELSE 0
    BY <1>2, <1>4, <2>5
  <2> QED
    BY <1>1, <2>2, <2>7, <2>8, <2>9
<1>5. CASE ~ (Actions(LeftCell(c)) > 1)
  <2>1. MoreReds(S \cup {c}) = MoreReds(S)
    BY <1>5 DEF MoreReds
  <2> QED
    BY <1>1, <1>3, <1>5, <2>1
<1> QED
  BY <1>4, <1>5

LEMMA SameLeft ==
  ASSUME SameCells, NEW S
  PROVE  ShiftChoices(S)' = ShiftChoices(S) /\ MoreReds(S)' = MoreReds(S)
<1>1. \A c : LeftCell(c)' = LeftCell(c)
  <2> TAKE c
  <2>1. PICK s, t : s = c[1] /\ t = c[2]
    OBVIOUS
  <2>2. PICK d : d = Disambiguated(s, t, PossibleActions(s, t))
    OBVIOUS
  <2>3. Disambiguated(s, t, PossibleActions(s, t))' = d
    BY <2>2, SameResolved
  <2> QED
    BY <2>1, <2>2, <2>3 DEF LeftCell
<1> QED
  BY <1>1 DEF ShiftChoices, MoreReds, Actions

LEMMA CountsStay ==
  ASSUME CountsInv, SameCells, UNCHANGED <<sr, rr, errors>>,
         phase = "tables" \/ phase \in FilledPhases,
         phase' = "tables" \/ phase' \in FilledPhases,
         CellsSeen' = CellsSeen
  PROVE  CountsInv'
<1>1. Terms' = Terms /\ \A t : NoSplit(t)' <=> NoSplit(t)
  BY SameStateSymbols DEF SameCells, NoSplit, Token
<1>2. PICK S : S = CellsSeen
  OBVIOUS
<1>3. ShiftChoices(S)' = ShiftChoices(S) /\ MoreReds(S)' = MoreReds(S)
  BY SameLeft
<1> QED
  BY <1>1, <1>2, <1>3 DEF CountsInv, Early, FilledPhases

LEMMA FilledCounts ==
  ASSUME CountsInv, Sound, WhileFilling, SameCells, FillActionEntry
  PROVE  CountsInv'
<1>1. PICK s \in StateIds, t \in Terms : s = state /\ t = term /\ phase = "tables"
  BY DEF FillActionEntry
<1>2. PICK result : result = Disambiguated(s, t, PossibleActions(s, t))
  OBVIOUS
<1>3. PICK c : c = <<s, t>>
  OBVIOUS
<1>4. PICK cell : cell = result.cell
  OBVIOUS
<1>5. LeftCell(c) = cell
  BY <1>2, <1>3, <1>4 DEF LeftCell
<1>6. /\ CellOf(cell, Shifts(s, t), Reds(s, t)) /\ result.dontWarns \in Nat /\ result.errors \in Nat
  BY <1>2, <1>4, ResolvedIn DEF Sound, Counted
<1>7. PICK n \in Nat, a \in Nat : /\ n = Len(cell.reds) /\ a = Actions(cell)
                                /\ a = IF cell.shift = NoState THEN n ELSE n + 1
  BY <1>6, ActionsIs
<1>8. /\ sr' = IF Warned(result) THEN sr + (IF cell.shift # NoState THEN 1 ELSE 0) ELSE sr
      /\ rr' = IF Warned(result) THEN rr + a - (IF cell.shift # NoState THEN 2 ELSE 1) ELSE rr
      /\ errors' = errors + result.errors
  BY <1>1, <1>2, <1>4, <1>7 DEF FillActionEntry
<1>9. PICK dw \in Nat : dw = result.dontWarns /\ (Warned(result) <=> a - dw > 1)
  BY <1>4, <1>6, <1>7 DEF Warned
<1>10. sr' \in Nat /\ rr' \in Nat /\ errors' \in Nat
  <2>1. sr \in Nat /\ rr \in Nat /\ errors \in Nat
    BY DEF CountsInv
  <2>2. errors' \in Nat
    BY <1>6, <1>8, <2>1
  <2>3. sr' \in Nat
    BY <1>8, <2>1
  <2>4. CASE ~ Warned(result)
    BY <1>8, <2>1, <2>2, <2>3, <2>4
  <2>5. CASE Warned(result)
    <3>1. a - dw > 1
      BY <1>9, <2>5
    <3>2. CASE cell.shift # NoState
      <4>1. rr' = rr + a - 2
        BY <1>8, <2>5, <3>2
      <4> QED
        BY <2>1, <2>2, <2>3, <3>1, <4>1
    <3>3. CASE cell.shift = NoState
      <4>1. rr' = rr + a - 1
        BY <1>8, <2>5, <3>3
      <4> QED
        BY <2>1, <2>2, <2>3, <3>1, <4>1
    <3> QED
      BY <3>2, <3>3
  <2> QED
    BY <2>4, <2>5
<1>11. phase' \in {"tables", "failed"}
  BY <1>1 DEF FillActionEntry
<1>12. CASE phase' = "failed" \/ ~ (\A u \in Terms' : NoSplit(u)')
  BY <1>10, <1>11, <1>12 DEF CountsInv, Early, FilledPhases
<1>13. CASE phase' = "tables" /\ \A u \in Terms' : NoSplit(u)'
  <2>1. Terms' = Terms /\ \A u : NoSplit(u)' <=> NoSplit(u)
    BY SameStateSymbols DEF SameCells, NoSplit, Token
  <2>2. /\ sr = Cardinality(ShiftChoices(Visited)) /\ sr \in Nat /\ rr \in Nat
        /\ rr = Cardinality(MoreReds(Visited)) /\ IsFiniteSet(MoreReds(Visited))
    BY <1>1, <1>13, <2>1 DEF CountsInv, CellsSeen
  <2>3. PICK S : S = Visited
    OBVIOUS
  <2>4. Visited' = S \cup {c} /\ c \notin S
    BY <1>1, <1>3, <2>3, CellVisited
  <2>5. IsFiniteSet(S)
    <3>1. PICK k \in Nat, m \in Nat : StateIds = 0..(k - 1) /\ Terms = 0..(m - 1)
      BY StateIdsAre DEF Sound, SoundGrammar, Terms
    <3>2. IsFiniteSet(StateIds) /\ IsFiniteSet(Terms)
      BY <3>1, FS_Interval
    <3>3. IsFiniteSet(StateIds \X Terms)
      BY <3>2, FS_Product
    <3> QED
      BY <2>3, <3>3, FS_Subset DEF Visited
  <2>6. dw = 0
    <3>1. CellOf(PossibleActions(s, t), Shifts(s, t), Reds(s, t)) /\ NoState \in Shifts(s, t)
      BY PossibleIn DEF Sound, Shifts
    <3> QED
      BY <1>2, <1>9, <1>13, <2>1, <3>1, NoSplitWarns DEF Sound
  <2>7. Warned(result) <=> a > 1
    BY <1>9, <2>6
  <2>8. /\ Cardinality(ShiftChoices(S \cup {c})) =
             sr + IF a > 1 /\ cell.shift # NoState THEN 1 ELSE 0
        /\ IsFiniteSet(MoreReds(S \cup {c}))
        /\ Cardinality(MoreReds(S \cup {c})) = rr + IF a > 1 /\ n > 1 THEN n - 1 ELSE 0
    BY <1>5, <1>7, <2>2, <2>3, <2>4, <2>5, MoreCounted
  <2>9. sr' = sr + IF a > 1 /\ cell.shift # NoState THEN 1 ELSE 0
    BY <1>8, <2>2, <2>7
  <2>10. rr' = rr + IF a > 1 /\ n > 1 THEN n - 1 ELSE 0
    <3>1. CASE ~ (a > 1)
      BY <1>8, <2>2, <2>7, <3>1
    <3>2. CASE a > 1 /\ cell.shift # NoState
      <4>1. a = n + 1 /\ rr' = rr + a - 2
        BY <1>7, <1>8, <2>7, <3>2
      <4> QED
        BY <2>2, <3>2, <4>1
    <3>3. CASE a > 1 /\ cell.shift = NoState
      <4>1. a = n /\ rr' = rr + a - 1
        BY <1>7, <1>8, <2>7, <3>3
      <4> QED
        BY <2>2, <3>3, <4>1
    <3> QED
      BY <3>1, <3>2, <3>3
  <2>11. PICK T : T = S \cup {c}
    OBVIOUS
  <2>12. ShiftChoices(T)' = ShiftChoices(T) /\ MoreReds(T)' = MoreReds(T)
    BY SameLeft
  <2>13. CellsSeen' = T
    BY <1>13, <2>4, <2>11 DEF CellsSeen
  <2> QED
    BY <1>10, <1>13, <2>8, <2>9, <2>10, <2>11, <2>12, <2>13 DEF CountsInv, Early
<1> QED
  BY <1>11, <1>12, <1>13

LEMMA CountsBegin ==
  ASSUME CountsInv, UNCHANGED <<sr, rr, errors>>, phase \in Early \cup {"number"},
         phase' \in Early \cup {"number", "tables"}, TablesInv, UNCHANGED <<state, term>>,
         phase' = "tables" => Sound'
  PROVE  CountsInv'
<1>1. sr = 0 /\ rr = 0 /\ state = 0 /\ term = 0
  BY DEF CountsInv, TablesInv, NoTables
<1>2. CASE phase' # "tables"
  BY <1>1, <1>2 DEF CountsInv, Early, FilledPhases
<1>3. CASE phase' = "tables"
  <2>1. PICK n \in Nat, m \in Nat : StateIds' = 0..(n - 1) /\ Terms' = 0..(m - 1)
    BY <1>3 DEF Sound, SetsIn, SoundGrammar, StateIds, Terms
  <2>2. Visited' = {}
    <3>1. \A c \in (0..(n - 1)) \X (0..(m - 1)) : ~ (c[1] < 0 \/ (c[1] = 0 /\ c[2] < 0))
      <4> TAKE c \in (0..(n - 1)) \X (0..(m - 1))
      <4>1. c[1] \in 0..(n - 1) /\ c[2] \in 0..(m - 1)
        OBVIOUS
      <4> QED
        BY <4>1
    <3> QED
      BY <1>1, <2>1, <3>1 DEF Visited
  <2>3. CellsSeen' = {}
    BY <1>3, <2>2 DEF CellsSeen
  <2>4. ShiftChoices({})' = {} /\ MoreReds({})' = {}
    BY DEF ShiftChoices, MoreReds
  <2>5. Cardinality({}) = 0 /\ IsFiniteSet({})
    BY FS_EmptySet
  <2> QED
    BY <1>1, <1>3, <2>3, <2>4, <2>5 DEF CountsInv, Early
<1> QED
  BY <1>2, <1>3

CountedInv == AnalysisInv /\ CountsInv

LEMMA CountsStep ==
  ASSUME AnalysisInv, AnalysisInv', CountsInv, [Next]_vars
  PROVE  CountsInv'
<1>0. TablesInv /\ WhileFilling /\ SetsInv /\ Settled
  BY DEF AnalysisInv, TablesInv
<1>1. Sound /\ Sound'
  <2>1. SoundGrammar(grammar) /\ grammar' = grammar
    BY GivenIsSound, AlwaysGiven DEF AnalysisInv, SetsInv
  <2> QED
    BY <2>1 DEF AnalysisInv, Typed, Sound
<1>2. ASSUME grammar' = grammar, setsVars' = setsVars, first' = first, build' = build,
             tablesVars' = tablesVars, phase' = phase \/ (phase = "order" /\ phase' = "errorBits")
      PROVE  CountsInv'
  <2>1. SameCells
    BY <1>2 DEF SameCells, setsVars
  <2>2. UNCHANGED <<sr, rr, errors, state, term>>
    BY <1>2 DEF tablesVars
  <2>3. CASE phase = "tables" \/ phase \in FilledPhases
    <3>1. CellsSeen' = CellsSeen
      BY <1>2, <2>1, <2>2, SameStateSymbols DEF CellsSeen, Visited
    <3>2. phase' = "tables" \/ phase' \in FilledPhases
      BY <1>2, <2>3 DEF FilledPhases
    <3> QED
      BY <2>1, <2>2, <2>3, <3>1, <3>2, CountsStay
  <2>4. CASE ~ (phase = "tables" \/ phase \in FilledPhases)
    BY <1>2, <2>2, <2>4 DEF CountsInv, FilledPhases
  <2> QED
    BY <2>3, <2>4
<1>3. CASE UNCHANGED vars
  <2>1. /\ grammar' = grammar /\ setsVars' = setsVars /\ first' = first /\ build' = build
        /\ tablesVars' = tablesVars /\ phase' = phase
    BY <1>3 DEF vars, firstFollowVars
  <2> QED
    BY <1>2, <2>1
<1>4. CASE Order \/ OrderDone \/ Terminated
  <2>1. /\ grammar' = grammar /\ setsVars' = setsVars /\ first' = first /\ build' = build
        /\ tablesVars' = tablesVars
        /\ phase' = phase \/ (phase = "order" /\ phase' = "errorBits")
    BY <1>4 DEF Order, OrderDone, Terminated, vars, firstFollowVars
  <2> QED
    BY <1>2, <2>1
<1>5. CASE Derive \/ DeriveDone
  <2>1. UNCHANGED <<sr, rr, errors, state, term>> /\ phase \in Early /\ phase' \in Early
    BY <1>5 DEF Derive, DeriveDone, Early, tablesVars
  <2> QED
    BY <1>0, <1>1, <2>1, CountsBegin
<1>6. CASE ComputeFirstFollow
  <2>1. phase' \in Early /\ phase \in Early
    BY <1>6 DEF ComputeFirstFollow, FirstFollowNext, FirstOfProduction,
                FirstIterationDone, FollowOfSymbol, FollowProductionDone,
                FollowIterationDone, Early
  <2>2. UNCHANGED <<sr, rr, errors, state, term>>
    BY <1>6 DEF ComputeFirstFollow, tablesVars
  <2> QED
    BY <1>0, <1>1, <2>1, <2>2, CountsBegin
<1>7. CASE ConstructItemSets
  <2>1. phase \in Early \cup {"number"} /\ phase' \in Early \cup {"number", "tables"}
    <3>1. \/ MakeStartState \/ PopItemSet \/ MakeItemSet \/ FindItemSet \/ ItemSetDone
          \/ SetsDone \/ CloseKernelItem \/ CloseItem \/ ClosureDone \/ RenumberStates
      BY <1>7 DEF ConstructItemSets, ItemSetsNext
    <3> QED
      BY <1>0, <3>1 DEF MakeStartState, PopItemSet, MakeItemSet, FindItemSet, ItemSetDone, SetsDone,
                  CloseKernelItem, CloseItem, ClosureDone, RenumberStates, Considering, Settled, Early
  <2>2. UNCHANGED <<sr, rr, errors, state, term>>
    BY <1>7 DEF ConstructItemSets, tablesVars
  <2> QED
    BY <1>0, <1>1, <2>1, <2>2, CountsBegin
<1>8. CASE ComputeParseTables
  <2>1. /\ \/ FillActionEntry \/ FillGotoRow \/ TablesFilled
           \/ ComputeErrorBits \/ MergeActionColumns \/ MergeActionRows
           \/ MergeGotoColumns \/ MergeGotoRows
        /\ UNCHANGED <<grammar, first, setsVars>>
    BY <1>8 DEF ComputeParseTables, TablesNext
  <2>2. SameCells
    BY <2>1 DEF SameCells, setsVars, FillActionEntry, FillGotoRow, TablesFilled, ComputeErrorBits,
                MergeActionColumns, MergeActionRows, MergeGotoColumns, MergeGotoRows
  <2>3. StateIds' = StateIds /\ Terms' = Terms
    BY <2>2, SameStateSymbols
  <2>4. CASE FillActionEntry
    BY <1>0, <1>1, <2>2, <2>4, FilledCounts
  <2>5. CASE FillGotoRow
    <3>1. /\ phase = "tables" /\ phase' = "tables" /\ UNCHANGED <<sr, rr, errors>>
      BY <2>5 DEF FillGotoRow
    <3>2. CellsSeen' = CellsSeen
      BY <1>0, <1>1, <2>2, <2>5, <3>1, RowVisited DEF CellsSeen
    <3> QED
      BY <2>2, <3>1, <3>2, CountsStay
  <2>6. CASE TablesFilled
    <3>1. /\ phase = "tables" /\ phase' = "order" /\ UNCHANGED <<sr, rr, errors>>
          /\ state \notin StateIds
      BY <2>6 DEF TablesFilled
    <3>2. CellsSeen' = CellsSeen
      BY <1>0, <1>1, <2>3, <3>1, AllVisited DEF CellsSeen
    <3> QED
      BY <2>2, <3>1, <3>2, CountsStay DEF FilledPhases
  <2>7. CASE ComputeErrorBits \/ MergeActionColumns \/ MergeActionRows
             \/ MergeGotoColumns \/ MergeGotoRows
    <3>1. /\ phase \in FilledPhases /\ phase' \in FilledPhases
          /\ phase # "tables" /\ phase' # "tables" /\ UNCHANGED <<sr, rr, errors>>
      BY <2>7 DEF ComputeErrorBits, MergeActionColumns, MergeActionRows,
                  MergeGotoColumns, MergeGotoRows, FilledPhases
    <3>2. CellsSeen' = CellsSeen
      BY <2>3, <3>1 DEF CellsSeen
    <3> QED
      BY <2>2, <3>1, <3>2, CountsStay
  <2> QED
    BY <2>1, <2>4, <2>5, <2>6, <2>7
<1> QED
  BY <1>3, <1>4, <1>5, <1>6, <1>7, <1>8 DEF Next

LEMMA CountedAlways == Spec => []CountedInv
<1>1. Init => CountedInv
  <2>1. Init => CountsInv
    BY DEF Init, TablesInit, CountsInv, FilledPhases, Early
  <2> QED
    BY <2>1, AnalysisInit DEF CountedInv
<1>2. CountedInv /\ [Next]_vars => CountedInv'
  BY AnalysisStep, CountsStep DEF CountedInv
<1> QED
  BY <1>1, <1>2, PTL DEF Spec

LEMMA ConflictsAreCounted ==
  CountedInv => ConflictsCounted
<1> SUFFICES ASSUME CountedInv, phase = "done", build.allowAmbig,
                    \A t \in Terms : Token(t).assoc # "SPLIT"
             PROVE  ConflictsCounted
  BY DEF ConflictsCounted
<1>1. TablesInv /\ Sound /\ phase \in FilledPhases
  BY GivenIsSound DEF CountedInv, AnalysisInv, SetsInv, Typed, Sound, FilledPhases
<1>2. ASSUME NEW c \in StateIds \X Terms
      PROVE  Decoded(GetActionEntry(c[1], c[2]), c[1], c[2]) = LeftCell(c)
  <2>1. PICK s \in StateIds, t \in Terms : c[1] = s /\ c[2] = t
    OBVIOUS
  <2>2. Decoded(GetActionEntry(s, t), s, t) = ResolvedCell(s, t)
    BY <1>1, QueryDecoded
  <2>3. ResolvedCell(s, t) = Disambiguated(s, t, PossibleActions(s, t)).cell
    BY DEF ResolvedCell
  <2> QED
    BY <2>1, <2>2, <2>3 DEF LeftCell
<1>3. PICK S : S = StateIds \X Terms
  OBVIOUS
<1>4. sr = Cardinality(ShiftChoices(S)) /\ rr = Cardinality(MoreReds(S))
  BY <1>1, <1>3 DEF CountedInv, CountsInv, NoSplit, CellsSeen
<1> DEFINE cell(c) == Decoded(GetActionEntry(c[1], c[2]), c[1], c[2])
           choices == {c \in StateIds \X Terms : Actions(cell(c)) > 1}
<1>5. choices = {c \in S : Actions(LeftCell(c)) > 1}
  BY <1>2, <1>3
<1>6. {c \in choices : cell(c).shift # NoState} = ShiftChoices(S)
  BY <1>2, <1>3, <1>5 DEF ShiftChoices
<1>7. UNION {{c} \X (2..Len(cell(c).reds)) : c \in choices} = MoreReds(S)
  <2>1. \A c \in choices : cell(c) = LeftCell(c)
    BY <1>2
  <2>2. UNION {{c} \X (2..Len(cell(c).reds)) : c \in choices}
          = UNION {{c} \X (2..Len(LeftCell(c).reds)) : c \in choices}
    <3> HIDE DEF choices, cell
    <3> QED
      BY <2>1
  <2> QED
    BY <1>5, <2>2 DEF MoreReds
<1>8. ConflictsCounted <=> (/\ sr = Cardinality({c \in choices : cell(c).shift # NoState})
                            /\ rr = Cardinality(UNION {{c} \X (2..Len(cell(c).reds)) : c \in choices}))
  BY DEF ConflictsCounted
<1> QED
  BY <1>4, <1>6, <1>7, <1>8

(* The counts of conflicts that resolveConflicts adds up are, in the       *)
(* finished tables, the choices the parser meets: a shift/reduce conflict  *)
(* for each cell with a shift and something else, a reduce/reduce conflict *)
(* for each reduction of a choice beyond the first, when no terminal has a *)
(* split declared and ambiguity is allowed.                                *)
THEOREM ConflictsAlwaysCounted == Spec => []ConflictsCounted
BY CountedAlways, ConflictsAreCounted, PTL

LEMMA AllTyped ==
  CountedInv => TypeOK
<1> SUFFICES ASSUME CountedInv PROVE TypeOK
  OBVIOUS
<1>1. PhaseIn /\ Typed /\ Placed /\ CountsInv
  BY DEF CountedInv, AnalysisInv
<1>2. ASSUME NEW s \in StateIds, NEW i \in DOMAIN AllItems(s)
      PROVE  ItemIn(grammar, AllItems(s)[i])
  <2>1. SetIn(grammar, sets[s])
    BY <1>1 DEF Typed, SetsIn, StateIds
  <2>2. AllItems(s) = All(sets[s])
    BY DEF AllItems, All
  <2>3. AllItems(s)[i] \in ToSymbolSet(All(sets[s]))
    BY <2>2 DEF ToSymbolSet
  <2> QED
    BY <2>1, <2>3, ItemsOfSet
<1>3. \A s \in StateIds : \A i \in DOMAIN AllItems(s) :
        LET item == AllItems(s)[i] IN
          /\ item.prod \in Prods /\ item.dot \in 0..Len(Rhs(item.prod))
          /\ item.la \subseteq Terms
  BY <1>2 DEF ItemIn, Prods, Rhs, Terms
<1> QED
  BY <1>1, <1>3 DEF TypeOK, PhaseIn, Phases, Typed, FirstTyped, FollowTyped, Placed, CountsInv

(* Every variable of the analysis always holds a value of its type: item   *)
(* sets hold items of productions that are still there, with lookahead     *)
(* among the terminals, and a transition leads to a state that exists.     *)
THEOREM AnalysisTypes == Spec => []TypeOK
BY CountedAlways, AllTyped, PTL

-----------------------------------------------------------------------------
(* Nothing is reduced before a terminal that its declaration forbids.      *)
LEMMA OwnIndex ==
  ASSUME NEW n \in Nat, NEW t \in 0..(n - 1)
  PROVE  NewIndex(0..(n - 1), t) = t
<1>1. {k \in 0..(n - 1) : k < t} = 0..(t - 1)
  OBVIOUS
<1>2. 0 \in Int /\ t - 1 \in Int /\ (IF 0 > t - 1 THEN 0 ELSE t - 1 - 0 + 1) = t
  OBVIOUS
<1>3. Cardinality(0..(t - 1)) = t
  BY <1>2, FS_Interval
<1> QED
  BY <1>1, <1>3 DEF NewIndex

LEMMA ForbiddenIs ==
  ASSUME Given, NEW p \in Prods
  PROVE  grammar.prods[p].forbid \cap Terms = StillForbidden(p)
<1>1. input \in Input /\ grammar = InitializeAuxData(input)
  BY InputsAssumption DEF Given
<1>2. PICK P : P = Selected(input.prods, Kept(input))
  OBVIOUS
<1>3. KeptProds = P
  BY <1>2 DEF KeptProds, Kept
<1>4. PICK T : T = ReachableTerms(input)
  OBVIOUS
<1>5. T \in SUBSET Int /\ IsFiniteSet(T) /\ T \in SUBSET (0..(input.terms - 1))
  BY <1>1, <1>4, TermsReached
<1>6. PICK F, H : F = P[p].forbid /\ H = ForbiddenHere(p)
  OBVIOUS
<1>7. H = {NewIndex(T, u) : u \in F \cap T}
  BY <1>3, <1>4, <1>6 DEF ForbiddenHere
<1>8. grammar.prods[p] = NewProd(input, P[p])
  <2>1. PICK g : g = input
    OBVIOUS
  <2>2. InitializeAuxData(g).prods = [i \in DOMAIN Selected(g.prods, Kept(g)) |->
                                       NewProd(g, Selected(g.prods, Kept(g))[i])]
    BY ONLY InitialIs
  <2>3. grammar.prods = [i \in DOMAIN P |-> NewProd(input, P[i])]
    BY <1>1, <1>2, <2>1, <2>2
  <2> QED
    BY <2>3 DEF Prods
<1>9. grammar.terms = Cardinality(T)
  BY <1>1, <1>4, InitialIs
<1>10. H \subseteq Terms
  BY <1>5, <1>7, <1>9, NewIndexIs DEF Terms
<1>11. Dropping <=> ~ Unchanged(input)
  BY DEF Dropping, Unchanged
<1>12. CASE Unchanged(input)
  <2>1. PICK n \in Nat : n = input.terms /\ T = 0..(n - 1)
    BY <1>1, <1>4, <1>12 DEF Unchanged, Input
  <2>2. Terms = T
    <3>1. 0 \in Int /\ n - 1 \in Int /\ (IF 0 > n - 1 THEN 0 ELSE n - 1 - 0 + 1) = n
      OBVIOUS
    <3>2. Cardinality(0..(n - 1)) = n
      BY <3>1, FS_Interval
    <3> QED
      BY <1>9, <2>1, <3>2 DEF Terms
  <2>3. \A u \in F \cap T : NewIndex(T, u) = u
    BY <2>1, OwnIndex
  <2>4. grammar.prods[p].forbid = F
    BY <1>6, <1>8, <1>12 DEF NewProd
  <2>5. H = F \cap T
    BY <1>7, <2>3
  <2> QED
    BY <1>6, <1>11, <1>12, <2>2, <2>4, <2>5 DEF StillForbidden
<1>13. CASE ~ Unchanged(input)
  <2>1. grammar.prods[p].forbid = ForbidConverted(F, T)
    BY <1>4, <1>6, <1>8, <1>13 DEF NewProd
  <2>2. ForbidConverted(F, T) = H \ {0}
    BY <1>7 DEF ForbidConverted
  <2> QED
    BY <1>6, <1>10, <1>11, <1>13, <2>1, <2>2 DEF StillForbidden
<1> QED
  BY <1>12, <1>13

LEMMA NoneForbidden ==
  AnalysisInv => ForbiddenNotReduced
<1>1. SUFFICES ASSUME AnalysisInv, phase = "done", NEW p \in Prods
               PROVE  /\ grammar.prods[p].forbid \cap Terms = StillForbidden(p)
                      /\ \A s \in StateIds : \A t \in StillForbidden(p) :
                           p \notin ToSymbolSet(Decoded(GetActionEntry(s, t), s, t).reds)
  BY DEF ForbiddenNotReduced
<1>2. grammar.prods[p].forbid \cap Terms = StillForbidden(p)
  BY <1>1, ForbiddenIs DEF AnalysisInv, SetsInv
<1>3. TablesInv /\ Sound /\ phase \in FilledPhases
  BY <1>1, GivenIsSound DEF AnalysisInv, SetsInv, Typed, Sound, FilledPhases
<1>4. ASSUME NEW s \in StateIds, NEW t \in StillForbidden(p),
             p \in ToSymbolSet(Decoded(GetActionEntry(s, t), s, t).reds)
      PROVE  FALSE
  <2>1. t \in grammar.prods[p].forbid /\ t \in Terms
    BY <1>2
  <2>2. PICK cell : cell = ResolvedCell(s, t)
    OBVIOUS
  <2>3. Decoded(GetActionEntry(s, t), s, t) = cell
    BY <1>3, <2>1, <2>2, QueryDecoded
  <2>4. CellOf(cell, Shifts(s, t), Reds(s, t))
    BY <1>3, <2>1, <2>2, ResolvedIn DEF Sound
  <2>5. p \in Reds(s, t)
    BY <1>4, <2>3, <2>4 DEF CellOf, ToSymbolSet
  <2>6. SetIn(grammar, sets[s])
    BY <1>3 DEF Sound, SetsIn, StateIds
  <2>7. PICK it \in ToSymbolSet(All(sets[s])) : it.prod = p /\ t \in it.la
    BY <2>1, <2>5, <2>6, ReductionsAre DEF Reds
  <2>8. ItemIn(grammar, it)
    BY <2>6, <2>7, ItemsOfSet
  <2> QED
    BY <2>1, <2>7, <2>8 DEF ItemIn
<1> QED
  BY <1>2, <1>4

(* Once the tables are done no cell reduces by a production whose          *)
(* declaration forbids the terminal, although terminals get new numbers    *)
(* when unused ones are dropped, and only those of the declaration are     *)
(* forbidden.  The end of the file, terminal 0, is the exception: it is    *)
(* forgotten when the grammar has a symbol that is dropped, and then only. *)
THEOREM NothingForbiddenReduced == Spec => []ForbiddenNotReduced
BY AnalysisAlways, NoneForbidden, PTL

-----------------------------------------------------------------------------
(* Supersets of supersets, up to the first that is maximal.                *)
SupersAre(nonterms, subsets) ==
  /\ \A e \in subsets : e[1] \in nonterms /\ e[2] \in nonterms
  /\ \A S \in SUBSET nonterms :
       S # {} => \E n \in S : \A e \in subsets : e[2] = n => e[1] \notin S

LEMMA SupersSound ==
  Given => SupersAre(Nonterms, grammar.subsets)
<1> SUFFICES ASSUME Given PROVE SupersAre(Nonterms, grammar.subsets)
  OBVIOUS
<1>1. PICK g \in Input : g = input /\ grammar = InitializeAuxData(g)
  BY InputsAssumption DEF Given
<1>2. PICK N : N = ReachableNonterms(g)
  OBVIOUS
<1>3. N \in SUBSET (0..(g.nonterms - 1)) /\ N \in SUBSET Int /\ IsFiniteSet(N)
  BY <1>2, ReachableIs, TermsReached
<1>4. PICK new : new = [x \in N |-> NewIndex(N, x)]
  OBVIOUS
<1>5. PICK c \in Nat : c = Cardinality(N)
  BY <1>3, FS_CardinalityType
<1>6. Nonterms = 0..(c - 1)
  BY <1>1, <1>2, <1>5, InitialIs DEF Nonterms
<1>7. /\ \A x \in N : new[x] \in Nonterms
      /\ \A x, y \in N : new[x] = new[y] => x = y
      /\ \A m \in Nonterms : \E x \in N : new[x] = m
  <2>1. \A x \in N : new[x] \in Nonterms
    BY <1>3, <1>4, <1>5, <1>6, NewIndexIs
  <2>2. ASSUME NEW x \in N, NEW y \in N, new[x] = new[y] PROVE x = y
    <3>1. x < y <=> new[x] < new[y]
      BY <1>3, <1>4, NewIndexIs
    <3>2. y < x <=> new[y] < new[x]
      BY <1>3, <1>4, NewIndexIs
    <3>3. new[x] \in Int /\ x \in Int /\ y \in Int
      BY <1>3, <1>6, <2>1
    <3> QED
      BY <2>2, <3>1, <3>2, <3>3
  <2>3. \A m \in Nonterms : \E x \in N : new[x] = m
    BY <1>3, <1>4, <1>5, <1>6, NewIndexIs
  <2> QED
    BY <2>1, <2>2, <2>3
<1>8. grammar.subsets = {<<new[e[1]], new[e[2]]>> : e \in g.subsets \cap (N \X N)}
  <2>1. InitializeAuxData(g).subsets =
          {<<NewIndex(ReachableNonterms(g), e[1]), NewIndex(ReachableNonterms(g), e[2])>> :
             e \in g.subsets \cap (ReachableNonterms(g) \X ReachableNonterms(g))}
    BY ONLY InitialIs
  <2>2. grammar.subsets = {<<NewIndex(N, e[1]), NewIndex(N, e[2])>> : e \in g.subsets \cap (N \X N)}
    BY <1>1, <1>2, <2>1
  <2>3. \A e \in g.subsets \cap (N \X N) :
          NewIndex(N, e[1]) = new[e[1]] /\ NewIndex(N, e[2]) = new[e[2]]
    BY <1>4
  <2> QED
    BY <2>2, <2>3
<1>9. ASSUME NEW e \in grammar.subsets
      PROVE  \E a, b \in N : <<a, b>> \in g.subsets /\ e = <<new[a], new[b]>>
  <2>1. PICK d \in g.subsets \cap (N \X N) : e = <<new[d[1]], new[d[2]]>>
    BY <1>8
  <2>2. PICK a \in N, b \in N : d = <<a, b>>
    OBVIOUS
  <2> QED
    BY <2>1, <2>2
<1>10. ASSUME NEW S \in SUBSET Nonterms, S # {}
       PROVE  \E n \in S : \A e \in grammar.subsets : e[2] = n => e[1] \notin S
  <2>1. PICK T : T = {x \in N : new[x] \in S}
    OBVIOUS
  <2>2. T \in SUBSET (0..(g.nonterms - 1)) /\ T # {}
    <3>1. PICK m \in S : m \in Nonterms
      BY <1>10
    <3>2. PICK x \in N : new[x] = m
      BY <1>7, <3>1
    <3> QED
      BY <1>3, <2>1, <3>1, <3>2
  <2>3. PICK b \in T : \A e \in g.subsets : e[2] = b => e[1] \notin T
    BY <2>2 DEF Input
  <2>4. ASSUME NEW e \in grammar.subsets, e[2] = new[b] PROVE e[1] \notin S
    <3>1. PICK x, y \in N : <<x, y>> \in g.subsets /\ e = <<new[x], new[y]>>
      BY <1>9
    <3>2. y = b
      BY <1>7, <2>1, <2>4, <3>1
    <3>3. x \notin T
      BY <2>3, <3>1, <3>2
    <3> QED
      BY <2>1, <3>1, <3>3
  <2> QED
    BY <2>1, <2>3, <2>4
<1>11. ASSUME NEW e \in grammar.subsets PROVE e[1] \in Nonterms /\ e[2] \in Nonterms
  <2>1. PICK a, b \in N : <<a, b>> \in g.subsets /\ e = <<new[a], new[b]>>
    BY <1>9
  <2>2. e[1] = new[a] /\ e[2] = new[b]
    BY <2>1
  <2> QED
    BY <1>7, <2>1, <2>2
<1> QED
  BY <1>10, <1>11 DEF SupersAre

\* The sets that have m and, with what is not maximal, its supersets.
UpTo(m) ==
  {x \in Nonterms : \A S \in SUBSET Nonterms :
     m \in S /\ (\A y \in S : y \in grammar.maximal \/ Superset(y) \subseteq S) => x \in S}

IsFrom(f) ==
  f = [m \in Nonterms |-> IF m \in grammar.maximal THEN {m}
                          ELSE UNION {f[s] : s \in Superset(m)}]
LEMMA FromExists ==
  ASSUME SupersAre(Nonterms, grammar.subsets)
  PROVE  \E f : IsFrom(f)
<1> DEFINE Closed(S) == \A y \in S : y \in grammar.maximal \/ Superset(y) \subseteq S
<1>1. \A m \in Nonterms : Superset(m) \subseteq Nonterms
  BY DEF SupersAre, Superset
<1>2. ASSUME NEW m \in Nonterms, m \in grammar.maximal PROVE UpTo(m) \cap grammar.maximal = {m}
  <2>1. {m} \in SUBSET Nonterms /\ Closed({m})
    BY <1>2
  <2>2. UpTo(m) \subseteq {m}
    BY <2>1 DEF UpTo
  <2>3. m \in UpTo(m)
    BY DEF UpTo
  <2> QED
    BY <1>2, <2>2, <2>3
<1>3. ASSUME NEW m \in Nonterms, m \notin grammar.maximal
      PROVE  UpTo(m) = {m} \cup UNION {UpTo(s) : s \in Superset(m)}
  <2>1. ASSUME NEW s \in Superset(m) PROVE UpTo(s) \subseteq UpTo(m)
    BY <1>3 DEF UpTo
  <2>2. PICK U : U = {m} \cup UNION {UpTo(s) : s \in Superset(m)}
    OBVIOUS
  <2>3. U \in SUBSET Nonterms
    BY <2>2 DEF UpTo
  <2>4. ASSUME NEW y \in U, y \notin grammar.maximal PROVE Superset(y) \subseteq U
    <3>1. CASE y = m
      <4>1. ASSUME NEW s \in Superset(m) PROVE s \in U
        <5>1. s \in UpTo(s)
          BY <1>1 DEF UpTo
        <5> QED
          BY <2>2, <5>1
      <4> QED
        BY <3>1, <4>1
    <3>2. CASE y # m
      <4>1. PICK s \in Superset(m) : y \in UpTo(s)
        BY <2>2, <3>2
      <4>2. Superset(y) \subseteq UpTo(s)
        BY <1>1, <2>4, <4>1 DEF UpTo
      <4> QED
        BY <2>2, <4>2
    <3> QED
      BY <3>1, <3>2
  <2>5. m \in U
    BY <2>2
  <2>6. UpTo(m) \subseteq U
    BY <2>3, <2>4, <2>5 DEF UpTo
  <2>7. m \in UpTo(m)
    BY DEF UpTo
  <2> QED
    BY <2>1, <2>2, <2>6, <2>7
<1>4. PICK f : f = [m \in Nonterms |-> UpTo(m) \cap grammar.maximal]
  OBVIOUS
<1>5. ASSUME NEW m \in Nonterms
      PROVE  f[m] = IF m \in grammar.maximal THEN {m} ELSE UNION {f[s] : s \in Superset(m)}
  <2>1. CASE m \in grammar.maximal
    BY <1>2, <1>4, <2>1
  <2>2. CASE m \notin grammar.maximal
    <3>1. f[m] = (UNION {UpTo(s) : s \in Superset(m)}) \cap grammar.maximal
      BY <1>3, <1>4, <2>2
    <3>2. \A s \in Superset(m) : f[s] = UpTo(s) \cap grammar.maximal
      BY <1>1, <1>4
    <3>3. UNION {f[s] : s \in Superset(m)} = (UNION {UpTo(s) : s \in Superset(m)}) \cap grammar.maximal
      BY <3>2
    <3> QED
      BY <2>2, <3>1, <3>3
  <2> QED
    BY <2>1, <2>2
<1>6. DOMAIN f = Nonterms /\ f = [m \in Nonterms |-> f[m]]
  BY <1>4
<1>7. IsFrom(f)
  BY <1>5, <1>6 DEF IsFrom
<1> QED
  BY <1>7

LEMMA MaximalFromIs ==
  ASSUME SupersAre(Nonterms, grammar.subsets)
  PROVE  /\ \A n \in Nonterms : MaximalFrom(n) = IF n \in grammar.maximal THEN {n}
                                 ELSE UNION {MaximalFrom(s) : s \in Superset(n)}
<1> DEFINE f == CHOOSE h : IsFrom(h)
<1>1. IsFrom(f)
  BY FromExists
<1>2. \A n : MaximalFrom(n) = f[n]
  BY DEF MaximalFrom, IsFrom
<1>3. ASSUME NEW n \in Nonterms
      PROVE  f[n] = IF n \in grammar.maximal THEN {n} ELSE UNION {f[s] : s \in Superset(n)}
  <2> HIDE DEF f
  <2> QED
    BY <1>1 DEF IsFrom
<1> HIDE DEF f
<1> QED
  BY <1>2, <1>3

IsExtended(e, s, t) ==
  e = [n \in Nonterms |-> IF n \in grammar.maximal THEN HasExtendingShift(s, n, t)
                          ELSE \E super \in Superset(n) : e[super]]
LEMMA ExtendedIs ==
  ASSUME SupersAre(Nonterms, grammar.subsets), NEW s, NEW t, NEW n \in Nonterms
  PROVE  Extended(s, n, t) <=> \E x \in MaximalFrom(n) : HasExtendingShift(s, x, t)
<1>1. \A m \in Nonterms : Superset(m) \subseteq Nonterms
  BY DEF SupersAre, Superset
<1>2. \E e : IsExtended(e, s, t)
  <2>1. PICK e : e = [m \in Nonterms |-> \E x \in MaximalFrom(m) : HasExtendingShift(s, x, t)]
    OBVIOUS
  <2>2. ASSUME NEW m \in Nonterms
        PROVE  e[m] = IF m \in grammar.maximal THEN HasExtendingShift(s, m, t)
                      ELSE \E super \in Superset(m) : e[super]
    <3>0. e[m] = \E x \in MaximalFrom(m) : HasExtendingShift(s, x, t)
      BY <2>1
    <3>1. CASE m \in grammar.maximal
      <4>1. MaximalFrom(m) = {m}
        BY <3>1, MaximalFromIs
      <4>2. (\E x \in {m} : HasExtendingShift(s, x, t)) <=> HasExtendingShift(s, m, t)
        OBVIOUS
      <4>3. HasExtendingShift(s, m, t) \in BOOLEAN
        BY DEF HasExtendingShift
      <4> QED
        BY <3>0, <3>1, <4>1, <4>2, <4>3
    <3>2. CASE m \notin grammar.maximal
      <4>1. MaximalFrom(m) = UNION {MaximalFrom(x) : x \in Superset(m)}
        BY <3>2, MaximalFromIs
      <4>2. \A y \in Superset(m) : e[y] = \E x \in MaximalFrom(y) : HasExtendingShift(s, x, t)
        BY <1>1, <2>1
      <4>3. (\E x \in MaximalFrom(m) : HasExtendingShift(s, x, t))
              <=> \E y \in Superset(m) : \E x \in MaximalFrom(y) : HasExtendingShift(s, x, t)
        BY <4>1
      <4>4. (\E y \in Superset(m) : \E x \in MaximalFrom(y) : HasExtendingShift(s, x, t))
              <=> \E y \in Superset(m) : e[y]
        BY <4>2
      <4> QED
        BY <3>0, <3>2, <4>3, <4>4
    <3> QED
      BY <3>1, <3>2
  <2>3. e = [m \in Nonterms |-> e[m]]
    BY <2>1
  <2>4. IsExtended(e, s, t)
    BY <2>2, <2>3 DEF IsExtended
  <2> QED
    BY <2>4
<1> DEFINE e == CHOOSE h : IsExtended(h, s, t)
<1>3. IsExtended(e, s, t)
  BY <1>2
<1>4. Extended(s, n, t) = e[n]
  BY DEF Extended, IsExtended, HasExtendingShift
<1>5. ASSUME NEW m \in Nonterms
      PROVE  e[m] = IF m \in grammar.maximal THEN HasExtendingShift(s, m, t)
                    ELSE \E super \in Superset(m) : e[super]
  <2> HIDE DEF e
  <2> QED
    BY <1>3 DEF IsExtended
<1> HIDE DEF e
<1>6. PICK Differs : Differs = {m \in Nonterms :
                        ~ (e[m] <=> \E x \in MaximalFrom(m) : HasExtendingShift(s, x, t))}
  OBVIOUS
<1>7. Differs = {}
  <2> SUFFICES ASSUME Differs # {} PROVE FALSE
    OBVIOUS
  <2>1. PICK m \in Differs : \A c \in grammar.subsets : c[2] = m => c[1] \notin Differs
    BY <1>6 DEF SupersAre
  <2>2. \A y \in Superset(m) : y \in Nonterms /\ y \notin Differs
    BY <1>1, <1>6, <2>1 DEF Superset
  <2>3. CASE m \in grammar.maximal
    <3>1. MaximalFrom(m) = {m} /\ e[m] = HasExtendingShift(s, m, t)
      BY <1>5, <1>6, <2>3, MaximalFromIs
    <3> QED
      BY <1>6, <3>1
  <2>4. CASE m \notin grammar.maximal
    <3>1. MaximalFrom(m) = UNION {MaximalFrom(x) : x \in Superset(m)}
      BY <1>6, <2>4, MaximalFromIs
    <3>2. e[m] = \E super \in Superset(m) : e[super]
      BY <1>5, <1>6, <2>4
    <3>3. \A y \in Superset(m) : e[y] <=> \E x \in MaximalFrom(y) : HasExtendingShift(s, x, t)
      BY <1>6, <2>2
    <3>4. (\E y \in Superset(m) : e[y]) <=> \E x \in MaximalFrom(m) : HasExtendingShift(s, x, t)
      BY <3>1, <3>3
    <3> QED
      BY <1>6, <3>2, <3>4
  <2> QED
    BY <2>3, <2>4
<1> QED
  BY <1>4, <1>6, <1>7

-----------------------------------------------------------------------------
(* What is left of a conflict.                                             *)
Drops(s, p, t) == HandleShiftReduceConflict(s, p, t) \in {"shift", "none"}
Removes(s, p, t) == HandleShiftReduceConflict(s, p, t) \in {"reduce", "none"}

LEMMA VerdictIs ==
  ASSUME SoundGrammar(grammar), SupersAre(Nonterms, grammar.subsets), NEW s, NEW t \in Terms,
         NEW p \in Prods
  PROVE  /\ Drops(s, p, t) <=> TakenByShift(s, p, t)
         /\ Removes(s, p, t) <=> TakesShift(s, p, t)
<1>1. Lhs(p) \in Nonterms /\ Prec(p) \in Nat
  BY DEF SoundGrammar, Lhs, Nonterms, Prods, Prec
<1>2. Token(t).prec \in Nat /\ Token(t).assoc \in Associativity
  BY DEF SoundGrammar, Terms, Token
<1>3. PICK ext \in BOOLEAN : ext = \E x \in MaximalFrom(Lhs(p)) : HasExtendingShift(s, x, t)
  OBVIOUS
<1>4. Extended(s, Lhs(p), t) <=> ext
  BY <1>1, <1>3, ExtendedIs
<1>5. PICK a \in Nat, b \in Nat, c \in Associativity :
        a = Prec(p) /\ b = Token(t).prec /\ c = Token(t).assoc
  BY <1>1, <1>2
<1>6. PICK v : v = HandleShiftReduceConflict(s, p, t)
  OBVIOUS
<1>7. v = IF ext THEN "shift" ELSE IF a = 0 \/ b = 0 THEN "both" ELSE IF a > b THEN "reduce"
          ELSE IF a < b THEN "shift"
          ELSE [LEFT |-> "reduce", RIGHT |-> "shift", NONASSOC |-> "none",
                NEVERASSOC |-> "error", SPLIT |-> "dontWarn"][c]
  BY <1>3, <1>5, <1>6 DEF HandleShiftReduceConflict
<1>8. /\ Loses(p, t) <=> a # 0 /\ b # 0 /\ (a < b \/ (a = b /\ c = "RIGHT"))
      /\ Beats(p, t) <=> a # 0 /\ b # 0 /\ (a > b \/ (a = b /\ c = "LEFT"))
      /\ Cancels(p, t) <=> a # 0 /\ a = b /\ c = "NONASSOC"
  BY <1>5 DEF Loses, Beats, Cancels
<1>9. CASE ext \/ a = 0 \/ b = 0 \/ a > b \/ a < b
  BY <1>4, <1>6, <1>7, <1>8, <1>9 DEF Drops, Removes, TakenByShift, TakesShift
<1>10. CASE ~ (ext \/ a = 0 \/ b = 0 \/ a > b \/ a < b)
  <2>1. a = b /\ v = [LEFT |-> "reduce", RIGHT |-> "shift", NONASSOC |-> "none",
                      NEVERASSOC |-> "error", SPLIT |-> "dontWarn"][c]
    BY <1>7, <1>10
  <2>2. c \in {"LEFT", "RIGHT", "NONASSOC", "NEVERASSOC", "SPLIT"}
    BY DEF Associativity
  <2>3. /\ v = "reduce" <=> c = "LEFT"
        /\ v = "shift" <=> c = "RIGHT"
        /\ v = "none" <=> c = "NONASSOC"
    BY <2>1, <2>2
  <2> QED
    BY <1>4, <1>6, <1>8, <1>10, <2>1, <2>3 DEF Drops, Removes, TakenByShift, TakesShift
<1> QED
  BY <1>9, <1>10

LEMMA AppendedSet ==
  ASSUME NEW S, NEW reds \in Seq(S), NEW p \in S
  PROVE  ToSymbolSet(Append(reds, p)) = ToSymbolSet(reds) \cup {p}
<1>1. PICK n \in Nat : n = Len(reds)
  OBVIOUS
<1>2. DOMAIN Append(reds, p) = 1..(n + 1) /\ DOMAIN reds = 1..n
  BY <1>1
<1>3. Append(reds, p)[n + 1] = p /\ \A i \in 1..n : Append(reds, p)[i] = reds[i]
  BY <1>1
<1>4. 1..(n + 1) = (1..n) \cup {n + 1}
  OBVIOUS
<1> QED
  BY <1>2, <1>3, <1>4 DEF ToSymbolSet

\* A reduction is kept when it is not dropped or when the shift is gone before
\* it is its turn.
Keeps(s, t, list, j) ==
  ~ Drops(s, list[j], t) \/ \E i \in 1..(j - 1) : Removes(s, list[i], t)

\* After the first k reductions.
AfterReds(c, s, t, cell, k) ==
  /\ c.shift = IF \E j \in 1..k : Removes(s, cell.reds[j], t) THEN NoState ELSE cell.shift
  /\ ToSymbolSet(c.reds) = {cell.reds[j] : j \in {i \in 1..k : Keeps(s, t, cell.reds, i)}}

LEMMA AfterOneMore ==
  ASSUME NEW s, NEW t, NEW shifts, NEW S, NEW cell, cell.shift # NoState, NEW k \in Nat \ {0},
         NEW acc, Counted(acc, shifts, S), AfterReds(acc.cell, s, t, cell, k - 1),
         NEW p \in S, p = cell.reds[k]
  PROVE  AfterReds(WithReduction(s, t, acc, p).cell, s, t, cell, k)
<1>1. PICK c, reds, d, e :
        /\ acc = [cell |-> Cell(c, reds), dontWarns |-> d, errors |-> e]
        /\ c \in shifts /\ reds \in Seq(S) /\ d \in Nat /\ e \in Nat
  <2>1. PICK x, d, e : x = acc.cell /\ d = acc.dontWarns /\ e = acc.errors
    OBVIOUS
  <2>2. PICK c, reds : c = x.shift /\ reds = x.reds
    OBVIOUS
  <2> QED
    BY <2>1, <2>2 DEF Counted, CellOf
<1>2. acc.cell.shift = c /\ acc.cell.reds = reds /\ acc.cell = Cell(c, reds)
  BY <1>1 DEF Cell
<1>3. PICK new : new = WithReduction(s, t, acc, p).cell
  OBVIOUS
<1>4. ToSymbolSet(Append(reds, p)) = ToSymbolSet(reds) \cup {p}
  BY <1>1, AppendedSet
<1>5. 1..k = (1..(k - 1)) \cup {k} /\ k \notin 1..(k - 1)
  OBVIOUS
<1>6. PICK R : R = cell.reds /\ R[k] = p
  OBVIOUS
<1>7. /\ c = IF \E j \in 1..(k - 1) : Removes(s, R[j], t) THEN NoState ELSE cell.shift
      /\ ToSymbolSet(reds) = {R[j] : j \in {i \in 1..(k - 1) : Keeps(s, t, R, i)}}
  BY <1>2, <1>6 DEF AfterReds
<1>8. {R[j] : j \in {i \in 1..k : Keeps(s, t, R, i)}} =
        ToSymbolSet(reds) \cup IF Keeps(s, t, R, k) THEN {p} ELSE {}
  <2>1. {i \in 1..k : Keeps(s, t, R, i)} =
          {i \in 1..(k - 1) : Keeps(s, t, R, i)} \cup IF Keeps(s, t, R, k) THEN {k} ELSE {}
    BY <1>5
  <2> QED
    BY <1>6, <1>7, <2>1
<1>9. CASE c = NoState
  <2>1. new = Cell(NoState, Append(reds, p))
    <3>1. WithReduction(s, t, acc, p) = [acc EXCEPT !.cell = Cell(NoState, Append(reds, p))]
      BY <1>2, <1>9 DEF WithReduction
    <3> QED
      BY <1>1, <1>3, <3>1
  <2>2. new.shift = NoState /\ new.reds = Append(reds, p)
    BY <2>1 DEF Cell
  <2>3. \E j \in 1..(k - 1) : Removes(s, R[j], t)
    BY <1>7, <1>9
  <2>4. Keeps(s, t, R, k)
    BY <2>3 DEF Keeps
  <2>5. ToSymbolSet(new.reds) = {R[j] : j \in {i \in 1..k : Keeps(s, t, R, i)}}
    BY <1>4, <1>8, <2>2, <2>4
  <2>6. \E j \in 1..k : Removes(s, R[j], t)
    BY <1>5, <2>3
  <2> QED
    BY <1>3, <1>6, <2>2, <2>5, <2>6 DEF AfterReds
<1>10. CASE c # NoState
  <2>1. /\ new.shift = IF Removes(s, p, t) THEN NoState ELSE c
        /\ new.reds = IF Drops(s, p, t) THEN reds ELSE Append(reds, p)
    <3>1. new = Cell(IF Removes(s, p, t) THEN NoState ELSE c,
                     IF Drops(s, p, t) THEN reds ELSE Append(reds, p))
      BY <1>2, <1>3, <1>10 DEF WithReduction, Removes, Drops
    <3> QED
      BY <3>1 DEF Cell
  <2>2. c = cell.shift /\ ~ \E j \in 1..(k - 1) : Removes(s, R[j], t)
    BY <1>7, <1>10
  <2>3. new.shift = IF \E j \in 1..k : Removes(s, R[j], t) THEN NoState ELSE cell.shift
    BY <1>5, <1>6, <2>1, <2>2
  <2>4. Keeps(s, t, R, k) <=> ~ Drops(s, p, t)
    BY <1>6, <2>2 DEF Keeps
  <2>5. ToSymbolSet(new.reds) = ToSymbolSet(reds) \cup (IF Drops(s, p, t) THEN {} ELSE {p})
    BY <1>4, <2>1
  <2>6. ToSymbolSet(new.reds) = {R[j] : j \in {i \in 1..k : Keeps(s, t, R, i)}}
    BY <1>8, <2>4, <2>5
  <2> QED
    BY <1>3, <1>6, <2>3, <2>6 DEF AfterReds
<1> QED
  BY <1>9, <1>10

LEMMA ResolvedSets ==
  ASSUME NEW s, NEW t, NEW shifts, NoState \in shifts, NEW S, NEW cell, CellOf(cell, shifts, S),
         cell.shift # NoState
  PROVE  AfterReds(ResolveShift(s, t, cell).cell, s, t, cell, Len(cell.reds))
<1>1. PICK f : IsResolving(f, s, t, cell, shifts, S)
  BY ResolveShiftRuns
<1>2. PICK n \in Nat : n = Len(cell.reds) /\ DOMAIN cell.reds = 1..n
  BY DEF CellOf
<1>3. PICK V : V = [k \in 0..n |-> {x \in {f[k]} : AfterReds(x.cell, s, t, cell, k)}]
  OBVIOUS
<1>4. 0 \in 0..n /\ n \in 0..n /\ \A k \in 1..n : k \in 0..n /\ k - 1 \in 0..n /\ k \in Nat \ {0}
  OBVIOUS
<1>5. f[0] \in V[0]
  <2>1. f[0].cell = Cell(cell.shift, << >>)
    BY <1>1 DEF IsResolving, Uncounted
  <2>2. f[0].cell.shift = cell.shift /\ f[0].cell.reds = << >> /\ ToSymbolSet(<< >>) = {}
    BY <2>1 DEF Cell, ToSymbolSet
  <2>3. 1..0 = {}
    OBVIOUS
  <2>4. AfterReds(f[0].cell, s, t, cell, 0)
    BY <2>2, <2>3 DEF AfterReds
  <2> QED
    BY <1>3, <1>4, <2>4
<1>6. ASSUME NEW k \in 1..n, f[k - 1] \in V[k - 1] PROVE f[k] \in V[k]
  <2>1. AfterReds(f[k - 1].cell, s, t, cell, k - 1)
    BY <1>3, <1>4, <1>6
  <2>2. f[k] = WithReduction(s, t, f[k - 1], cell.reds[k])
    BY <1>1, <1>2 DEF IsResolving
  <2>3. Counted(f[k - 1], shifts, S)
    BY <1>1, <1>2, <1>4 DEF IsResolving
  <2>4. cell.reds[k] \in S
    BY <1>2 DEF CellOf
  <2>5. AfterReds(f[k].cell, s, t, cell, k)
    BY <1>4, <2>1, <2>2, <2>3, <2>4, AfterOneMore
  <2> QED
    BY <1>3, <1>4, <2>5
<1>7. \A k \in 0..n : f[k] \in V[k]
  BY <1>5, <1>6, StaysIn
<1>8. AfterReds(f[n].cell, s, t, cell, n)
  BY <1>3, <1>4, <1>7
<1> QED
  BY <1>1, <1>2, <1>8 DEF IsResolving

-----------------------------------------------------------------------------
(* What is left of a set of reductions.                                    *)
Highest(S) == {p \in S : Prec(p) = 0 \/ \A q \in S : Prec(q) <= Prec(p)}
LeastOf(S) == {p \in S : \A q \in S : <<Lhs(p), Lhs(q)>> \notin grammar.subsets}

LEMMA SelectedSet ==
  ASSUME NEW S, NEW reds \in Seq(S), NEW K \in SUBSET DOMAIN reds
  PROVE  ToSymbolSet(Selected(reds, K)) = {reds[k] : k \in K}
<1>1. PICK n \in Nat : DOMAIN reds = 1..n
  OBVIOUS
<1>2. IsFiniteSet(K) /\ K \in SUBSET Int
  <2>1. IsFiniteSet(1..n)
    <3>1. 1 \in Int /\ n \in Int
      OBVIOUS
    <3> QED
      BY <3>1, FS_Interval
  <2> QED
    BY <1>1, <2>1, FS_Subset
<1> QED
  BY <1>2, SelectedIs

LEMMA HighestSet ==
  ASSUME NEW S, \A p \in S : Prec(p) \in Nat, NEW reds \in Seq(S)
  PROVE  ToSymbolSet(IfSeveral(reds, HighestOnly)) = Highest(ToSymbolSet(reds))
<1>1. PICK n \in Nat : n = Len(reds) /\ DOMAIN reds = 1..n
  OBVIOUS
<1>2. \A i \in 1..n : reds[i] \in S /\ Prec(reds[i]) \in Nat
  BY <1>1
<1>3. PICK T : T = ToSymbolSet(reds)
  OBVIOUS
<1>4. T = {reds[i] : i \in 1..n}
  BY <1>1, <1>3 DEF ToSymbolSet
<1>5. CASE n > 1
  <2>1. PICK K : K = {k \in DOMAIN reds : Prec(reds[k]) = 0 \/
                        \A i \in DOMAIN reds : Prec(reds[k]) >= Prec(reds[i])}
    OBVIOUS
  <2>2. ToSymbolSet(Selected(reds, K)) = {reds[k] : k \in K}
    BY <2>1, SelectedSet
  <2>3. {reds[k] : k \in K} = Highest(T)
    BY <1>1, <1>2, <1>4, <2>1 DEF Highest
  <2>4. IfSeveral(reds, HighestOnly) = Selected(reds, K)
    BY <1>1, <1>5, <2>1 DEF IfSeveral, HighestOnly
  <2> QED
    BY <1>3, <2>2, <2>3, <2>4
<1>6. CASE ~ (n > 1)
  <2>1. \A p, q \in T : p = q
    <3>1. \A i, j \in 1..n : i = j
      BY <1>6
    <3> QED
      BY <1>4, <3>1
  <2>2. \A p \in T : Prec(p) <= Prec(p)
    <3>1. \A p \in T : Prec(p) \in Nat
      BY <1>2, <1>4
    <3> QED
      BY <3>1
  <2>3. Highest(T) = T
    BY <2>1, <2>2 DEF Highest
  <2> QED
    BY <1>1, <1>3, <1>6, <2>3 DEF IfSeveral
<1> QED
  BY <1>5, <1>6

LEMMA LeastSet ==
  ASSUME SupersAre(Nonterms, grammar.subsets), NEW S, \A p \in S : Lhs(p) \in Nonterms,
         NEW reds \in Seq(S)
  PROVE  ToSymbolSet(IfSeveral(reds, SubsetsOnly)) = LeastOf(ToSymbolSet(reds))
<1>1. PICK n \in Nat : n = Len(reds) /\ DOMAIN reds = 1..n
  OBVIOUS
<1>2. \A i \in 1..n : reds[i] \in S /\ Lhs(reds[i]) \in Nonterms
  BY <1>1
<1>3. PICK T : T = ToSymbolSet(reds)
  OBVIOUS
<1>4. T = {reds[i] : i \in 1..n}
  BY <1>1, <1>3 DEF ToSymbolSet
<1>5. CASE n > 1
  <2>1. PICK K : K = {k \in DOMAIN reds :
                        \A i \in DOMAIN reds : <<Lhs(reds[k]), Lhs(reds[i])>> \notin grammar.subsets}
    OBVIOUS
  <2>2. ToSymbolSet(Selected(reds, K)) = {reds[k] : k \in K}
    BY <2>1, SelectedSet
  <2>3. {reds[k] : k \in K} = LeastOf(T)
    BY <1>1, <1>4, <2>1 DEF LeastOf
  <2>4. IfSeveral(reds, SubsetsOnly) = Selected(reds, K)
    BY <1>1, <1>5, <2>1 DEF IfSeveral, SubsetsOnly
  <2> QED
    BY <1>3, <2>2, <2>3, <2>4
<1>6. CASE ~ (n > 1)
  <2>1. \A p, q \in T : p = q
    <3>1. \A i, j \in 1..n : i = j
      BY <1>6
    <3> QED
      BY <1>4, <3>1
  <2>2. ASSUME NEW p \in T PROVE <<Lhs(p), Lhs(p)>> \notin grammar.subsets
    <3>1. PICK m \in Nonterms : m = Lhs(p)
      BY <1>2, <1>4
    <3>2. {m} \in SUBSET Nonterms /\ {m} # {}
      OBVIOUS
    <3>3. \E x \in {m} : \A e \in grammar.subsets : e[2] = x => e[1] \notin {m}
      BY <3>2 DEF SupersAre
    <3>4. <<m, m>> \notin grammar.subsets
      <4> SUFFICES ASSUME <<m, m>> \in grammar.subsets PROVE FALSE
        OBVIOUS
      <4>1. PICK e \in grammar.subsets : e = <<m, m>>
        OBVIOUS
      <4> QED
        BY <3>3, <4>1
    <3> QED
      BY <3>1, <3>4
  <2>3. LeastOf(T) = T
    BY <2>1, <2>2 DEF LeastOf
  <2> QED
    BY <1>1, <1>3, <1>6, <2>3 DEF IfSeveral
<1> QED
  BY <1>5, <1>6

\* What K has more than R is below something of R.
Outdone(K, R) ==
  /\ R \subseteq K /\ \A p \in K : Prec(p) \in Nat
  /\ \A p \in K : p \notin R => Prec(p) # 0 /\ \E q \in R : Prec(q) > Prec(p)

LEMMA HighestAlike ==
  ASSUME NEW K, NEW R, Outdone(K, R)
  PROVE  Highest(K) = Highest(R)
<1>0. /\ R \subseteq K /\ \A p \in K : Prec(p) \in Nat
      /\ \A p \in K : p \notin R => Prec(p) # 0 /\ \E q \in R : Prec(q) > Prec(p)
  BY DEF Outdone
<1>1. ASSUME NEW p \in Highest(K) PROVE p \in Highest(R)
  <2>1. p \in K /\ (Prec(p) = 0 \/ \A q \in K : Prec(q) <= Prec(p))
    BY DEF Highest
  <2>2. p \in R
    <3> SUFFICES ASSUME p \notin R PROVE FALSE
      OBVIOUS
    <3>1. PICK q \in R : Prec(q) > Prec(p) /\ Prec(p) # 0
      BY <1>0, <2>1
    <3>2. Prec(q) <= Prec(p) /\ Prec(q) \in Nat /\ Prec(p) \in Nat
      BY <1>0, <2>1, <3>1
    <3> QED
      BY <3>1, <3>2
  <2>3. Prec(p) = 0 \/ \A q \in R : Prec(q) <= Prec(p)
    <3>1. CASE Prec(p) = 0
      BY <3>1
    <3>2. CASE \A q \in K : Prec(q) <= Prec(p)
      BY <1>0, <3>2
    <3> QED
      BY <1>0, <2>1, <3>1, <3>2
  <2> QED
    BY <2>2, <2>3 DEF Highest
<1>2. ASSUME NEW p \in Highest(R) PROVE p \in Highest(K)
  <2>1. p \in R /\ p \in K /\ (Prec(p) = 0 \/ \A q \in R : Prec(q) <= Prec(p))
    BY <1>0 DEF Highest
  <2>2. ASSUME \A q \in R : Prec(q) <= Prec(p), NEW x \in K PROVE Prec(x) <= Prec(p)
    <3>1. CASE x \in R
      BY <2>2, <3>1
    <3>2. CASE x \notin R
      <4>1. PICK q \in R : Prec(q) > Prec(x)
        BY <1>0, <3>2
      <4>2. Prec(q) <= Prec(p)
        BY <2>2
      <4>3. Prec(q) \in Nat /\ Prec(p) \in Nat /\ Prec(x) \in Nat
        BY <1>0, <2>1
      <4> QED
        BY <4>1, <4>2, <4>3
    <3> QED
      BY <3>1, <3>2
  <2> QED
    BY <2>1, <2>2 DEF Highest
<1> QED
  BY <1>1, <1>2 DEF Highest

-----------------------------------------------------------------------------
(* The reductions that the shift is weighed against, and what it leaves.   *)
ShiftAt(s, t) == PossibleActions(s, t).shift # NoState
Met(s, t) ==
  IF OrderMatters(s, t) THEN UpToTheFirst(s, t) ELSE DOMAIN PossibleReductions(s, t)
LeftOf(s, t) ==
  LET reds == PossibleReductions(s, t) IN
    {reds[k] : k \in {i \in DOMAIN reds :
       ~ (i \in Met(s, t) /\ ShiftAt(s, t) /\ TakenByShift(s, reds[i], t))}}

LEMMA RefKeptIs ==
  ASSUME NEW s, NEW t
  PROVE  /\ RefKept(s, t, Met(s, t)).shift \in BOOLEAN
         /\ RefKept(s, t, Met(s, t)).shift <=>
              ShiftAt(s, t) /\ ~ \E k \in Met(s, t) : TakesShift(s, PossibleReductions(s, t)[k], t)
         /\ RefKept(s, t, Met(s, t)).reds = LeastOf(Highest(LeftOf(s, t)))
<1> DEFINE possible == PossibleActions(s, t)
           reds == PossibleReductions(s, t)
           met == Met(s, t)
           taken == {k \in met : possible.shift # NoState /\ TakenByShift(s, possible.reds[k], t)}
           R1 == {possible.reds[k] : k \in DOMAIN possible.reds \ taken}
           R2 == {p \in R1 : Prec(p) = 0 \/ \A q \in R1 : Prec(q) <= Prec(p)}
           R3 == {p \in R2 : \A q \in R2 : <<Lhs(p), Lhs(q)>> \notin grammar.subsets}
           shift == possible.shift # NoState /\ ~ \E k \in met : TakesShift(s, possible.reds[k], t)
<1>1. possible.reds = reds
  BY DEF PossibleActions, Cell
<1>2. RefKept(s, t, met) = [shift |-> shift, reds |-> R3]
  BY Zenon DEF RefKept
<1>3. R1 = LeftOf(s, t)
  <2>1. taken = {k \in met : ShiftAt(s, t) /\ TakenByShift(s, reds[k], t)}
    BY <1>1 DEF ShiftAt
  <2>2. DOMAIN reds \ taken =
          {i \in DOMAIN reds : ~ (i \in met /\ ShiftAt(s, t) /\ TakenByShift(s, reds[i], t))}
    BY <2>1
  <2>3. LeftOf(s, t) = {reds[k] : k \in {i \in DOMAIN reds :
          ~ (i \in met /\ ShiftAt(s, t) /\ TakenByShift(s, reds[i], t))}}
    BY DEF LeftOf
  <2> HIDE DEF taken
  <2>4. R1 = {reds[k] : k \in DOMAIN reds \ taken}
    BY <1>1
  <2> QED
    BY <2>2, <2>3, <2>4
<1>4. R3 = LeastOf(Highest(LeftOf(s, t)))
  <2> HIDE DEF R1
  <2>1. R2 = Highest(LeftOf(s, t))
    BY <1>3 DEF Highest
  <2> HIDE DEF R2
  <2> QED
    BY <2>1 DEF LeastOf
<1>5. shift \in BOOLEAN
  OBVIOUS
<1>6. shift <=> ShiftAt(s, t) /\ ~ \E k \in met : TakesShift(s, reds[k], t)
  BY <1>1 DEF ShiftAt
<1> HIDE DEF shift, R3
<1>7. RefKept(s, t, met).shift = shift /\ RefKept(s, t, met).reds = R3
  BY <1>2
<1> QED
  BY <1>4, <1>5, <1>6, <1>7

LEMMA FirstOfAll ==
  ASSUME NEW n \in Nat, NEW A \in SUBSET (1..n), A # {}
  PROVE  \E k \in A : \A j \in 1..(k - 1) : j \notin A
<1>1. A \in SUBSET Nat
  OBVIOUS
<1>2. PICK k \in A : \A j \in A : k <= j
  BY <1>1, MinIs
<1>3. \A j \in 1..(k - 1) : j \notin A
  BY <1>1, <1>2
<1> QED
  BY <1>3

LEMMA AfterResolving ==
  ASSUME SoundGrammar(grammar), SupersAre(Nonterms, grammar.subsets), SetsIn(grammar, sets),
         NEW s \in StateIds, NEW t \in Terms, ShiftAt(s, t),
         NEW c, c = ResolveShift(s, t, PossibleActions(s, t)).cell
  PROVE  /\ (c.shift # NoState) = RefKept(s, t, Met(s, t)).shift
         /\ Highest(ToSymbolSet(c.reds)) = Highest(LeftOf(s, t))
<1>1. PICK cell, shift, reds : /\ cell = PossibleActions(s, t) /\ cell = Cell(shift, reds)
                               /\ reds = PossibleReductions(s, t)
  BY DEF PossibleActions
<1>2. cell.shift = shift /\ cell.reds = reds /\ shift # NoState
  BY <1>1 DEF Cell, ShiftAt
<1>3. PICK R0 : R0 = Reds(s, t)
  OBVIOUS
<1>4. CellOf(cell, Shifts(s, t), R0) /\ R0 \subseteq Prods /\ NoState \in Shifts(s, t)
  BY <1>1, <1>3, PossibleIn DEF Shifts
<1>5. PICK n \in Nat : n = Len(reds) /\ DOMAIN reds = 1..n /\ \A j \in 1..n : reds[j] \in R0
  BY <1>2, <1>4 DEF CellOf
<1>6. AfterReds(c, s, t, cell, n)
  BY <1>1, <1>2, <1>4, <1>5, ResolvedSets
<1>7. PICK A, B : /\ A = {j \in 1..n : Removes(s, reds[j], t)}
                  /\ B = {j \in 1..n : Drops(s, reds[j], t)}
  OBVIOUS
<1>8. \A j \in 1..n : /\ j \in A <=> TakesShift(s, reds[j], t)
                      /\ j \in B <=> TakenByShift(s, reds[j], t)
  BY <1>4, <1>5, <1>7, VerdictIs
<1>9. A \in SUBSET (1..n) /\ B \in SUBSET (1..n)
  BY <1>7
<1>10. PICK S : S = {j \in 1..n : j \notin B \/ \E i \in 1..(j - 1) : i \in A}
  OBVIOUS
<1>11. (c.shift # NoState <=> A = {}) /\ ToSymbolSet(c.reds) = {reds[j] : j \in S}
  <2>1. c.shift = IF \E j \in 1..n : Removes(s, reds[j], t) THEN NoState ELSE shift
    BY <1>2, <1>6 DEF AfterReds
  <2>2. ToSymbolSet(c.reds) = {reds[j] : j \in {i \in 1..n : Keeps(s, t, reds, i)}}
    BY <1>2, <1>6 DEF AfterReds
  <2>3. ASSUME NEW j \in 1..n
        PROVE  Keeps(s, t, reds, j) <=> j \notin B \/ \E i \in 1..(j - 1) : i \in A
    <3>1. \A i \in 1..(j - 1) : i \in 1..n
      OBVIOUS
    <3> QED
      BY <1>7, <3>1 DEF Keeps
  <2>4. S = {i \in 1..n : Keeps(s, t, reds, i)}
    BY <1>10, <2>3
  <2> QED
    BY <1>2, <1>7, <2>1, <2>2, <2>4
<1>12. PICK met : met = Met(s, t)
  OBVIOUS
<1>13. LeftOf(s, t) = {reds[j] : j \in {i \in 1..n : ~ (i \in met /\ i \in B)}}
  <2>1. {i \in 1..n : ~ (i \in met /\ TakenByShift(s, reds[i], t))} =
          {i \in 1..n : ~ (i \in met /\ i \in B)}
    BY <1>8
  <2> QED
    BY <1>1, <1>5, <1>12, <2>1 DEF LeftOf
<1>14. /\ RefKept(s, t, Met(s, t)).shift \in BOOLEAN
       /\ RefKept(s, t, Met(s, t)).shift <=> ~ \E k \in met : TakesShift(s, reds[k], t)
  BY <1>1, <1>12, RefKeptIs
<1>15. CASE OrderMatters(s, t)
  <2>1. met = {k \in 1..n : \A j \in 1..(k - 1) : j \notin A}
    <3>1. met = {k \in 1..n : \A j \in 1..(k - 1) : ~ TakesShift(s, reds[j], t)}
      BY <1>1, <1>5, <1>12, <1>15 DEF Met, UpToTheFirst
    <3>2. \A k \in 1..n : \A j \in 1..(k - 1) : j \in 1..n
      OBVIOUS
    <3> QED
      BY <1>8, <3>1, <3>2
  <2>2. S = {i \in 1..n : ~ (i \in met /\ i \in B)}
    BY <1>10, <2>1
  <2>3. A # {} => \E k \in met : k \in A
    <3> SUFFICES ASSUME A # {} PROVE \E k \in met : k \in A
      OBVIOUS
    <3>1. PICK k \in A : \A j \in 1..(k - 1) : j \notin A
      BY <1>9, FirstOfAll
    <3> QED
      BY <1>9, <2>1, <3>1
  <2>4. A = {} <=> ~ \E k \in met : TakesShift(s, reds[k], t)
    BY <1>8, <1>9, <2>1, <2>3
  <2>5. (c.shift # NoState) = RefKept(s, t, Met(s, t)).shift
    BY <1>11, <1>14, <2>4
  <2>6. ToSymbolSet(c.reds) = LeftOf(s, t)
    BY <1>11, <1>13, <2>2
  <2> QED
    BY <2>5, <2>6
<1>16. CASE ~ OrderMatters(s, t)
  <2>1. met = 1..n
    BY <1>1, <1>5, <1>12, <1>16 DEF Met
  <2>2. A = {} <=> ~ \E k \in met : TakesShift(s, reds[k], t)
    BY <1>8, <1>9, <2>1
  <2>3. PICK K, R : K = ToSymbolSet(c.reds) /\ R = LeftOf(s, t)
    OBVIOUS
  <2>4. K = {reds[j] : j \in S} /\ R = {reds[j] : j \in 1..n \ B}
    <3>1. {i \in 1..n : ~ (i \in met /\ i \in B)} = 1..n \ B
      BY <2>1
    <3> QED
      BY <1>11, <1>13, <2>3, <3>1
  <2>5. R \subseteq K /\ K \subseteq R0
    <3>1. 1..n \ B \subseteq S /\ S \subseteq 1..n
      BY <1>10
    <3> QED
      BY <1>5, <2>4, <3>1
  <2>6. \A p \in R0 : Prec(p) \in Nat
    BY <1>4 DEF SoundGrammar, Prods, Prec
  <2>7. ASSUME NEW p \in K, p \notin R PROVE Prec(p) # 0 /\ \E q \in R : Prec(q) > Prec(p)
    <3>1. PICK j \in S : p = reds[j]
      BY <2>4
    <3>2. j \in 1..n /\ j \in B
      BY <1>10, <2>4, <2>7, <3>1
    <3>3. PICK i \in 1..(j - 1) : i \in A
      BY <1>10, <3>1, <3>2
    <3>4. i \in 1..n /\ i # j
      BY <3>2, <3>3
    <3>5. TakenByShift(s, reds[j], t) /\ TakesShift(s, reds[i], t)
      BY <1>8, <3>2, <3>3, <3>4
    <3>6. \E h \in 1..n : /\ ~ TakenByShift(s, reds[h], t)
                          /\ 0 < Prec(reds[j]) /\ Prec(reds[j]) < Prec(reds[h])
      BY <1>1, <1>5, <1>16, <3>2, <3>4, <3>5 DEF OrderMatters, ShiftAt
    <3>7. PICK h \in 1..n : /\ ~ TakenByShift(s, reds[h], t)
                            /\ 0 < Prec(reds[j]) /\ Prec(reds[j]) < Prec(reds[h])
      BY <3>6
    <3>8. reds[h] \in R
      BY <1>8, <2>4, <3>7
    <3>9. Prec(reds[j]) \in Nat /\ Prec(reds[h]) \in Nat
      BY <1>5, <2>6, <3>2
    <3> QED
      BY <3>1, <3>7, <3>8, <3>9
  <2>8. Highest(K) = Highest(R)
    <3>1. Outdone(K, R)
      BY <2>5, <2>6, <2>7 DEF Outdone
    <3> QED
      BY <3>1, HighestAlike
  <2>9. (c.shift # NoState) = RefKept(s, t, Met(s, t)).shift
    BY <1>11, <1>14, <2>2
  <2> QED
    BY <2>3, <2>8, <2>9
<1> QED
  BY <1>15, <1>16

LEMMA WhatIsLeft ==
  ASSUME SoundGrammar(grammar), SupersAre(Nonterms, grammar.subsets), SetsIn(grammar, sets),
         NEW s \in StateIds, NEW t \in Terms,
         NEW c, c = Disambiguated(s, t, PossibleActions(s, t)).cell
  PROVE  /\ (c.shift # NoState) = RefKept(s, t, Met(s, t)).shift
         /\ ToSymbolSet(c.reds) = RefKept(s, t, Met(s, t)).reds
<1>1. PICK cell, shift, reds : /\ cell = PossibleActions(s, t) /\ cell = Cell(shift, reds)
                               /\ reds = PossibleReductions(s, t)
  BY DEF PossibleActions
<1>2. cell.shift = shift /\ cell.reds = reds /\ (ShiftAt(s, t) <=> shift # NoState)
  BY <1>1 DEF Cell, ShiftAt
<1>3. PICK R0 : R0 = Reds(s, t) /\ R0 = ToSymbolSet(reds)
  BY <1>1 DEF Reds
<1>4. CellOf(cell, Shifts(s, t), R0) /\ R0 \subseteq Prods /\ NoState \in Shifts(s, t)
  BY <1>1, <1>3, PossibleIn DEF Shifts
<1>5. reds \in Seq(R0)
  BY <1>2, <1>4 DEF CellOf
<1>6. \A p \in R0 : Prec(p) \in Nat /\ Lhs(p) \in Nonterms
  BY <1>4 DEF SoundGrammar, Prods, Prec, Lhs, Nonterms
<1>7. RefKept(s, t, Met(s, t)).reds = LeastOf(Highest(LeftOf(s, t)))
  BY RefKeptIs
<1>8. ASSUME NEW r \in Seq(R0)
      PROVE  ToSymbolSet(IfSeveral(IfSeveral(r, HighestOnly), SubsetsOnly)) = LeastOf(Highest(ToSymbolSet(r)))
  <2>1. PICK r1 : r1 = IfSeveral(r, HighestOnly)
    OBVIOUS
  <2>2. ToSymbolSet(r1) = Highest(ToSymbolSet(r))
    BY <1>6, <2>1, HighestSet
  <2>3. r1 \in Seq(R0)
    <3>1. PICK K : K = {k \in DOMAIN r : Prec(r[k]) = 0 \/
                          \A i \in DOMAIN r : Prec(r[k]) >= Prec(r[i])}
      OBVIOUS
    <3>2. Selected(r, K) \in Seq(R0)
      <4>1. K \in SUBSET DOMAIN r
        BY <3>1
      <4> QED
        BY <4>1, SelectedIn
    <3>3. r1 = r \/ r1 = Selected(r, K)
      BY <2>1, <3>1 DEF IfSeveral, HighestOnly
    <3> QED
      BY <3>2, <3>3
  <2> QED
    BY <1>6, <2>1, <2>2, <2>3, LeastSet
<1>9. ~ ShiftAt(s, t) \/ DOMAIN reds = {} => LeftOf(s, t) = R0
  <2>1. R0 = {reds[k] : k \in DOMAIN reds}
    BY <1>3 DEF ToSymbolSet
  <2>2. LeftOf(s, t) = {reds[k] : k \in {i \in DOMAIN reds :
          ~ (i \in Met(s, t) /\ ShiftAt(s, t) /\ TakenByShift(s, reds[i], t))}}
    BY <1>1 DEF LeftOf
  <2>3. ~ ShiftAt(s, t) \/ DOMAIN reds = {} =>
          {i \in DOMAIN reds :
             ~ (i \in Met(s, t) /\ ShiftAt(s, t) /\ TakenByShift(s, reds[i], t))} = DOMAIN reds
    OBVIOUS
  <2> QED
    BY <2>1, <2>2, <2>3
<1>10. CASE Actions(cell) <= 1
  <2>1. c = cell
    <3>1. Disambiguated(s, t, cell) = Uncounted(cell)
      BY <1>10 DEF Disambiguated
    <3> QED
      BY <1>1, <3>1 DEF Uncounted
  <2>2. PICK n \in Nat : n = Len(reds) /\ DOMAIN reds = 1..n
    BY <1>5
  <2>3. ~ (n > 1) /\ (ShiftAt(s, t) => n = 0)
    <3>1. Actions(cell) = IF shift = NoState THEN n ELSE n + 1
      BY <1>2, <1>4, <2>2, ActionsIs
    <3> QED
      BY <1>2, <1>10, <3>1
  <2>4. LeftOf(s, t) = R0 /\ (ShiftAt(s, t) => DOMAIN reds = {})
    <3>1. ShiftAt(s, t) => DOMAIN reds = {}
      BY <2>2, <2>3
    <3> QED
      BY <1>9, <3>1
  <2>5. ToSymbolSet(reds) = LeastOf(Highest(R0))
    <3>1. IfSeveral(IfSeveral(reds, HighestOnly), SubsetsOnly) = reds
      BY <2>2, <2>3 DEF IfSeveral
    <3> QED
      BY <1>3, <1>5, <1>8, <3>1
  <2>6. RefKept(s, t, Met(s, t)).shift = ShiftAt(s, t)
    <3>1. ShiftAt(s, t) => Met(s, t) = {}
      BY <1>1, <2>4 DEF Met, UpToTheFirst
    <3>2. ShiftAt(s, t) \in BOOLEAN
      BY DEF ShiftAt
    <3> QED
      BY <3>1, <3>2, RefKeptIs
  <2> QED
    <3>1. (c.shift # NoState) = RefKept(s, t, Met(s, t)).shift
      BY <1>2, <2>1, <2>6 DEF ShiftAt
    <3>2. ToSymbolSet(c.reds) = RefKept(s, t, Met(s, t)).reds
      BY <1>2, <1>7, <2>1, <2>4, <2>5
    <3> QED
      BY <3>1, <3>2
<1>11. CASE ~ (Actions(cell) <= 1)
  <2>1. PICK shifted : shifted = IF cell.shift = NoState THEN Uncounted(cell)
                                 ELSE ResolveShift(s, t, cell)
    OBVIOUS
  <2>2. Counted(shifted, Shifts(s, t), R0)
    <3>1. Counted(Uncounted(cell), Shifts(s, t), R0)
      BY <1>4 DEF Counted, Uncounted
    <3> QED
      BY <1>4, <2>1, <3>1, ResolveShiftIn
  <2>3. PICK r, q, k : /\ r = shifted.cell.reds /\ k = shifted.cell.shift
                       /\ q = IfSeveral(IfSeveral(r, HighestOnly), SubsetsOnly)
    OBVIOUS
  <2>4. c = Cell(k, q)
    <3>1. Disambiguated(s, t, cell) = [shifted EXCEPT !.cell = Cell(@.shift, q)]
      BY <1>11, <2>1, <2>3 DEF Disambiguated
    <3>2. PICK x, d, e : shifted = [cell |-> x, dontWarns |-> d, errors |-> e]
      BY <2>2 DEF Counted
    <3>3. Disambiguated(s, t, cell).cell = Cell(k, q)
      BY <2>3, <3>1, <3>2
    <3> QED
      BY <1>1, <3>3
  <2>5. c.shift = k /\ c.reds = q
    BY <2>4 DEF Cell
  <2>6. r \in Seq(R0)
    BY <2>2, <2>3 DEF Counted, CellOf
  <2>7. ToSymbolSet(q) = LeastOf(Highest(ToSymbolSet(r)))
    BY <1>8, <2>3, <2>6
  <2>8. CASE ShiftAt(s, t)
    <3>1. PICK x : x = shifted.cell /\ x = ResolveShift(s, t, PossibleActions(s, t)).cell
      BY <1>1, <1>2, <2>1, <2>8
    <3>2. (x.shift # NoState) = RefKept(s, t, Met(s, t)).shift
      BY <2>8, <3>1, AfterResolving
    <3>3. Highest(ToSymbolSet(x.reds)) = Highest(LeftOf(s, t))
      BY <2>8, <3>1, AfterResolving
    <3> QED
      BY <1>7, <2>3, <2>5, <2>7, <3>1, <3>2, <3>3
  <2>9. CASE ~ ShiftAt(s, t)
    <3>1. r = reds /\ k = NoState
      BY <1>2, <2>1, <2>3, <2>9 DEF Uncounted
    <3>2. LeftOf(s, t) = R0
      BY <1>9, <2>9
    <3>3. RefKept(s, t, Met(s, t)).shift = FALSE
      BY <2>9, RefKeptIs
    <3> QED
      BY <1>3, <1>7, <2>5, <2>7, <3>1, <3>2, <3>3
  <2> QED
    BY <2>8, <2>9
<1> QED
  BY <1>10, <1>11

LEMMA ResolvedAre ==
  AnalysisInv => ConflictsResolved
<1> SUFFICES ASSUME AnalysisInv, phase = "tables", state \in StateIds, term \in Terms
             PROVE  LET kept == RefKept(state, term, Met(state, term))
                        cell == ResolvedCell(state, term)
                        reds == ToSymbolSet(cell.reds)
                    IN  IF build.allowAmbig
                        THEN (cell.shift # NoState) = kept.shift /\ reds = kept.reds
                        ELSE /\ (cell.shift # NoState) = kept.shift
                             /\ reds = IF kept.shift \/ kept.reds = {} THEN {} ELSE {Min(kept.reds)}
  BY DEF ConflictsResolved, Met
<1>1. SoundGrammar(grammar) /\ SetsIn(grammar, sets) /\ SupersAre(Nonterms, grammar.subsets)
  BY GivenIsSound, SupersSound DEF AnalysisInv, SetsInv, Typed
<1>2. PICK s \in StateIds, t \in Terms : s = state /\ t = term
  OBVIOUS
<1>3. PICK kept, c, R : /\ kept = RefKept(s, t, Met(s, t)) /\ R = kept.reds
                        /\ c = Disambiguated(s, t, PossibleActions(s, t)).cell
  OBVIOUS
<1>4. (c.shift # NoState) = kept.shift /\ ToSymbolSet(c.reds) = R
  BY <1>1, <1>2, <1>3, WhatIsLeft
<1>5. ResolvedCell(s, t) = IF build.allowAmbig \/ Actions(c) <= 1 THEN c ELSE OneAction(c)
  BY <1>3 DEF ResolvedCell
<1>6. CellOf(c, Shifts(s, t), Reds(s, t)) /\ Reds(s, t) \subseteq Prods
  <2>1. Counted(Disambiguated(s, t, PossibleActions(s, t)), Shifts(s, t), Reds(s, t))
    BY <1>1, ResolvedIn
  <2>2. Reds(s, t) \subseteq Prods
    BY <1>1, ResolvedIn
  <2> QED
    BY <1>3, <2>1, <2>2 DEF Counted
<1>7. PICK n \in Nat : n = Len(c.reds) /\ DOMAIN c.reds = 1..n
  BY <1>6 DEF CellOf
<1>8. R = {c.reds[i] : i \in 1..n}
  BY <1>4, <1>7 DEF ToSymbolSet
<1>9. Actions(c) = IF c.shift = NoState THEN n ELSE n + 1
  BY <1>6, <1>7, ActionsIs
<1>10. R \in SUBSET Nat
  <2>1. Prods \in SUBSET Nat
    BY <1>1, ListLength DEF SoundGrammar, Prods
  <2>2. R \subseteq Reds(s, t)
    BY <1>6, <1>7, <1>8 DEF CellOf
  <2> QED
    BY <1>6, <2>1, <2>2
<1>11. PICK cell : cell = ResolvedCell(s, t)
  OBVIOUS
<1>12. CASE build.allowAmbig
  BY <1>2, <1>3, <1>4, <1>5, <1>12
<1>13. CASE ~ build.allowAmbig
  <2>1. /\ (cell.shift # NoState) = kept.shift
        /\ ToSymbolSet(cell.reds) = IF kept.shift \/ R = {} THEN {} ELSE {Min(R)}
    <3>1. CASE Actions(c) <= 1
      <4>1. cell = c
        BY <1>5, <1>11, <3>1
      <4>2. CASE c.shift # NoState
        <5>1. n = 0
          BY <1>9, <3>1, <4>2
        <5>2. R = {}
          BY <1>8, <5>1
        <5> QED
          BY <1>4, <4>1, <5>2
      <4>3. CASE c.shift = NoState
        <5>1. n = 0 \/ n = 1
          BY <1>9, <3>1, <4>3
        <5>2. CASE n = 0
          BY <1>4, <1>8, <4>1, <5>2
        <5>3. CASE n = 1
          <6>1. R = {c.reds[1]}
            BY <1>8, <5>3
          <6>2. Min(R) \in R
            BY <1>10, <6>1, MinIs
          <6>3. R = {Min(R)} /\ R # {}
            BY <6>1, <6>2
          <6> QED
            BY <1>4, <4>1, <4>3, <6>3
        <5> QED
          BY <5>1, <5>2, <5>3
      <4> QED
        BY <4>2, <4>3
    <3>2. CASE ~ (Actions(c) <= 1)
      <4>1. cell = OneAction(c)
        BY <1>5, <1>11, <1>13, <3>2
      <4>2. CASE c.shift # NoState
        <5>1. cell.shift = c.shift /\ cell.reds = << >>
          BY <4>1, <4>2 DEF OneAction, Cell
        <5>2. ToSymbolSet(<< >>) = {}
          BY DEF ToSymbolSet
        <5> QED
          BY <1>4, <4>2, <5>1, <5>2
      <4>3. CASE c.shift = NoState
        <5>1. cell.shift = NoState /\ cell.reds = <<Min(R)>>
          BY <1>4, <4>1, <4>3 DEF OneAction, Cell
        <5>2. ToSymbolSet(<<Min(R)>>) = {Min(R)}
          BY DEF ToSymbolSet
        <5>3. R # {}
          <6>1. 1 \in 1..n
            BY <1>9, <3>2, <4>3
          <6> QED
            BY <1>8, <6>1
        <5> QED
          BY <1>4, <4>3, <5>1, <5>2, <5>3
      <4> QED
        BY <4>2, <4>3
    <3> QED
      BY <3>1, <3>2
  <2> QED
    BY <1>2, <1>3, <1>11, <1>13, <2>1
<1> QED
  BY <1>12, <1>13

(* The actions a cell keeps are those that precedence, associativity,      *)
(* maximal and subset declarations leave, although each resolution sees    *)
(* only what the one before has left and the shift can be dropped in the   *)
(* middle of the list.  The order in which the hash tables give the        *)
(* reductions decides in one case only, when a reduction takes the shift   *)
(* away that another was to be taken by (OrderMatters), and then only those*)
(* up to the first that takes it are weighed against it.  Where no         *)
(* ambiguity is allowed one action is kept, the shift if it is left.       *)
THEOREM ConflictsAlwaysResolved == Spec => []ConflictsResolved
BY AnalysisAlways, ResolvedAre, PTL
=============================================================================
