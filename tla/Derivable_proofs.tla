-------------------------- MODULE Derivable_proofs --------------------------
(***************************************************************************)
(* Proofs about the derivability analysis, for every set of grammars.      *)
(***************************************************************************)
EXTENDS Derivable, FiniteSetTheorems, TLAPS

-----------------------------------------------------------------------------
(* The symbols of a production are symbols of the grammar, and none is the *)
(* empty string.                                                           *)
LEMMA ProductionType ==
  ASSUME NEW g \in Grammars, NEW i \in DOMAIN g
  PROVE  /\ g[i].left \in Nonterm \ {EmptyString}
         /\ g[i].right \in Seq((Nonterm \ {EmptyString}) \cup {Terminal})
         /\ \A k \in DOMAIN g[i].right :
              g[i].right[k] \in (Nonterm \ {EmptyString}) \cup {Terminal}
<1>1. g[i] \in Production
  <2>1. g \in Seq(Production)
    BY GrammarsAssumption
  <2> QED
    BY <2>1
<1>2. g[i].right \in Seq((Nonterm \ {EmptyString}) \cup {Terminal})
  BY <1>1 DEF Production
<1>3. \A k \in DOMAIN g[i].right :
        g[i].right[k] \in (Nonterm \ {EmptyString}) \cup {Terminal}
  BY <1>2
<1> QED
  BY <1>1, <1>2, <1>3 DEF Production

(* Facts about the reference.                                              *)

(* The nullable symbols are themselves closed under the productions.       *)
LEMMA NullableClosed ==
  ASSUME NEW g \in Grammars, NEW i \in DOMAIN g,
         \A j \in DOMAIN g[i].right : g[i].right[j] \in Nullable(g)
  PROVE  g[i].left \in Nullable(g)
<1>1. g[i].left \in Nonterm
  BY ProductionType
<1>2. ASSUME NEW S \in SUBSET Nonterm, ClosedNullable(g, S)
      PROVE  g[i].left \in S
  BY <1>2 DEF ClosedNullable, Nullable
<1> QED
  BY <1>1, <1>2 DEF Nullable

LEMMA DerivesReflexive ==
  ASSUME NEW g, NEW n \in Nonterm
  PROVE  <<n, n>> \in Derives(g)
BY DEF Derives

LEMMA DerivesTransitive ==
  ASSUME NEW g, NEW a, NEW b, NEW c,
         <<a, b>> \in Derives(g), <<b, c>> \in Derives(g)
  PROVE  <<a, c>> \in Derives(g)
BY DEF Derives

LEMMA DerivesStep ==
  ASSUME NEW g, NEW a \in Nonterm, NEW b \in Nonterm,
         <<a, b>> \in DerivationSteps(g)
  PROVE  <<a, b>> \in Derives(g)
BY DEF Derives, ClosedUnder

(* What derives the empty string is nullable: otherwise the symbols that   *)
(* are not nullable would be closed under derivation.                      *)
LEMMA DerivesEmptyNullable ==
  ASSUME NEW g \in Grammars, NEW n \in Nonterm \ {EmptyString},
         <<n, EmptyString>> \in Derives(g)
  PROVE  n \in Nullable(g)
<1> DEFINE Z == Nonterm \ (Nullable(g) \cup {EmptyString})
<1>1. SUFFICES ASSUME n \notin Nullable(g)
               PROVE  FALSE
  OBVIOUS
<1>2. ClosedUnder(Z, DerivationSteps(g))
  <2>1. SUFFICES ASSUME NEW e \in DerivationSteps(g), e[1] \in Z
                 PROVE  e[2] \in Z
    BY DEF ClosedUnder
  <2>2. e \notin Nullable(g) \X {EmptyString}
    BY <2>1
  <2>3. PICK i \in DOMAIN g :
          e \in {g[i].left} \X LeavesAlone(g[i].right, Nullable(g))
    BY <2>1, <2>2 DEF DerivationSteps
  <2>4. PICK k \in DOMAIN g[i].right :
          /\ e[1] = g[i].left /\ e[2] = g[i].right[k]
          /\ g[i].right[k] # Terminal
          /\ \A j \in DOMAIN g[i].right \ {k} : g[i].right[j] \in Nullable(g)
    BY <2>3 DEF LeavesAlone
  <2>5. e[2] \in Nonterm \ {EmptyString}
    BY <2>4, ProductionType
  <2>6. e[2] \notin Nullable(g)
    BY <2>1, <2>4, NullableClosed
  <2> QED
    BY <2>5, <2>6
<1>3. Z \in SUBSET Nonterm /\ n \in Z /\ EmptyString \notin Z
  BY <1>1
<1> QED
  BY <1>2, <1>3 DEF Derives

-----------------------------------------------------------------------------
(* The inductive invariant: besides soundness, where the loops are.        *)
Inv ==
  /\ grammar \in Grammars
  /\ nextProd \in Nat \ {0}
  /\ derivable \subseteq DerivesIn[grammar]

LEMMA DerivesInDerives ==
  ASSUME NEW g \in Grammars
  PROVE  DerivesIn[g] = Derives(g)
BY DEF DerivesIn

LEMMA InvInit == Init => Inv
<1> SUFFICES ASSUME Init
             PROVE  Inv
  OBVIOUS
<1>1. grammar \in Grammars /\ nextProd \in Nat \ {0}
  BY DEF Init
<1>2. derivable \subseteq Derives(grammar)
  BY DerivesReflexive DEF Init
<1> QED
  BY <1>1, <1>2, DerivesInDerives DEF Inv

(* A step that adds derivations to the bits keeps the invariant.           *)
LEMMA AddingPreserves ==
  ASSUME Inv, UNCHANGED grammar, nextProd' \in Nat \ {0},
         NEW left, NEW rights, AddDerivable(left, rights),
         \A n \in rights : <<left, n>> \in Derives(grammar)
  PROVE  Inv'
BY DerivesInDerives DEF Inv, AddDerivable

LEMMA EmptyPreserves ==
  ASSUME Inv, ConsiderEmpty
  PROVE  Inv'
<1>1. nextProd \in DOMAIN grammar
  BY GrammarsAssumption DEF Inv, ConsiderEmpty, Considering
<1>2. Left \in Nullable(grammar) /\ Left \in Nonterm
  BY <1>1, NullableClosed, ProductionType DEF Inv, ConsiderEmpty, Left, Right
<1>3. EmptyString \in Nonterm
  BY GrammarsAssumption DEF Nonterm, EmptyString
<1>4. <<Left, EmptyString>> \in Derives(grammar)
  BY <1>2, <1>3, DerivesStep DEF DerivationSteps
<1> QED
  BY <1>4, AddingPreserves DEF Inv, ConsiderEmpty

LEMMA ProductionPreserves ==
  ASSUME Inv, ConsiderProduction
  PROVE  Inv'
<1>1. nextProd \in DOMAIN grammar
  BY GrammarsAssumption DEF Inv, ConsiderProduction, Considering
<1>2. ASSUME NEW n \in LeftAlone(Right)
      PROVE  <<Left, n>> \in Derives(grammar)
  <2>1. PICK k \in DOMAIN Right :
          /\ n = Right[k] /\ Right[k] # Terminal
          /\ \A j \in DOMAIN Right \ {k} : CanDeriveEmpty(Right[j])
    BY <1>2 DEF LeftAlone
  <2>2. ASSUME NEW j \in DOMAIN Right \ {k}
        PROVE  Right[j] \in Nullable(grammar)
    <3>1. Right[j] \in Nonterm \ {EmptyString}
      BY <1>1, <2>1, ProductionType DEF Inv, Right, CanDeriveEmpty
    <3>2. <<Right[j], EmptyString>> \in Derives(grammar)
      BY <2>1, DerivesInDerives DEF Inv, CanDeriveEmpty, CanDerive
    <3> QED
      BY <3>1, <3>2, DerivesEmptyNullable DEF Inv
  <2>3. n \in LeavesAlone(Right, Nullable(grammar))
    BY <2>1, <2>2 DEF LeavesAlone
  <2>4. <<Left, n>> \in DerivationSteps(grammar)
    BY <1>1, <2>3 DEF DerivationSteps, Left, Right
  <2>5. Left \in Nonterm /\ n \in Nonterm
    BY <1>1, <2>1, ProductionType DEF Inv, Left, Right
  <2> QED
    BY <2>4, <2>5, DerivesStep
<1>3. PICK new \in SUBSET LeftAlone(Right) : AddDerivable(Left, new)
  BY DEF ConsiderProduction
<1>4. UNCHANGED grammar /\ nextProd' \in Nat \ {0}
  BY DEF Inv, ConsiderProduction
<1> QED
  BY <1>2, <1>3, <1>4, AddingPreserves

LEMMA ClosurePreserves ==
  ASSUME Inv, ClosureStep
  PROVE  Inv'
<1>1. PICK e \in EdgesLeft : AddDerivable(e[1], EdgesFrom(e[2]))
  BY DEF ClosureStep
<1>2. <<e[1], e[2]>> \in Derives(grammar)
  BY DerivesInDerives DEF EdgesLeft, IsEdge, CanDerive, Inv
<1>3. \A n \in EdgesFrom(e[2]) : <<e[2], n>> \in Derives(grammar)
  BY DerivesInDerives DEF EdgesFrom, IsEdge, CanDerive, Inv
<1>4. \A n \in EdgesFrom(e[2]) : <<e[1], n>> \in Derives(grammar)
  BY <1>2, <1>3, DerivesTransitive
<1>5. UNCHANGED grammar /\ nextProd' \in Nat \ {0}
  BY DEF Inv, ClosureStep
<1> QED
  BY <1>1, <1>4, <1>5, AddingPreserves

(* The other steps leave the bits and the grammar alone.                   *)
LEMMA OthersPreserve ==
  ASSUME Inv, UNCHANGED <<grammar, derivable>>, nextProd' \in Nat \ {0}
  PROVE  Inv'
BY DEF Inv

LEMMA InvNext == Inv /\ [Next]_vars => Inv'
<1> SUFFICES ASSUME Inv, [Next]_vars
             PROVE  Inv'
  OBVIOUS
<1> USE DEF Inv
<1>1. CASE ConsiderEmpty
  BY <1>1, EmptyPreserves
<1>2. CASE ConsiderProduction
  BY <1>2, ProductionPreserves
<1>3. CASE ProductionsDone
  BY <1>3, OthersPreserve DEF ProductionsDone
<1>4. CASE ClosureStep
  BY <1>4, ClosurePreserves
<1>5. CASE ClosureDone
  BY <1>5, OthersPreserve DEF ClosureDone
<1>6. CASE TopologicalSort
  BY <1>6, OthersPreserve
     DEF TopologicalSort, SortFrom, SortDeriver, PutInOrder, SortDone,
         fixpointVars
<1>7. CASE UNCHANGED vars
  BY <1>7, OthersPreserve DEF vars, fixpointVars
<1> QED
  BY <1>1, <1>2, <1>3, <1>4, <1>5, <1>6, <1>7 DEF Next, Propagate

(* A bit of the matrix is set only for a derivation of the grammar, at     *)
(* every moment of the analysis (gramanl.cc, computeWhatCanDeriveWhat).    *)
THEOREM DerivableAlwaysSound == Spec => []DerivableSound
<1>1. Inv => DerivableSound
  BY DEF Inv, DerivableSound
<1> QED
  BY <1>1, InvInit, InvNext, PTL DEF Spec

-----------------------------------------------------------------------------
(* The fixpoint.  An edge is joined with those that follow it when what    *)
(* they lead to is derivable, and a cycle through it reported.             *)
Joined(u, v) ==
  /\ \A w \in EdgesFrom(v) : CanDerive(u, w)
  /\ u \in EdgesFrom(v) => u \in cyclic

Bits ==
  /\ pc \in {"productions", "closure", "sort", "done"}
  /\ grammar \in Grammars /\ nextProd \in Nat \ {0} /\ nextEdge \in Int \X Int
  /\ derivable \subseteq Nonterm \X Nonterm
  /\ \A n \in Nonterm : CanDerive(n, n)
  /\ \A n : ~ IsEdge(EmptyString, n)
  /\ changes \in BOOLEAN /\ (pc \in {"sort", "done"} => ~ changes)

(* What the loops have passed is settled, while they have changed nothing. *)
Closing ==
  /\ pc = "closure" /\ ~ changes =>
       \A u, v : IsEdge(u, v) => Joined(u, v) \/ <<u, v>> \in EdgesLeft
  /\ pc \in {"sort", "done"} => \A u, v : IsEdge(u, v) => Joined(u, v)
  /\ \A n \in cyclic : \E m : IsEdge(n, m) /\ IsEdge(m, n)

(* A bit of the closure is set only after the empty productions are known: *)
(* from then on they change nothing either.                                *)
Passed(i) == pc = "productions" => i < nextProd
EmptyKnown(i) ==
  grammar[i].right = << >> => CanDerive(grammar[i].left, EmptyString)
Known(i) == \A n \in LeftAlone(grammar[i].right) : CanDerive(grammar[i].left, n)

Considered ==
  /\ \A i \in DOMAIN grammar : Passed(i) => EmptyKnown(i)
  /\ SomeEdge /\ ~ changes =>
       \A i \in DOMAIN grammar : EmptyKnown(i) /\ (Passed(i) => Known(i))

Fixpoint == Bits /\ Closing /\ Considered

-----------------------------------------------------------------------------
(* The productions that the loop comes to.                                 *)
LEMMA AtProduction ==
  ASSUME grammar \in Grammars, nextProd \in Nat \ {0}
  PROVE  /\ nextProd <= Len(grammar) => nextProd \in DOMAIN grammar
         /\ \A i \in DOMAIN grammar : /\ i \in Nat /\ i <= Len(grammar)
                                      /\ i < nextProd + 1 => i < nextProd \/ i = nextProd
<1>1. grammar \in Seq(Production)
  BY GrammarsAssumption
<1>2. PICK l \in Nat : l = Len(grammar)
  BY <1>1
<1>3. DOMAIN grammar = 1..l
  BY <1>1, <1>2
<1> QED
  BY <1>2, <1>3

LEMMA FixpointInit == Init => Fixpoint
<1> SUFFICES ASSUME Init PROVE Fixpoint
  OBVIOUS
<1>1. /\ pc = "productions" /\ grammar \in Grammars /\ changes = FALSE /\ cyclic = {}
      /\ nextProd = 1 /\ nextEdge = <<1, 0>> /\ derivable = {<<n, n>> : n \in Nonterm}
  BY DEF Init
<1>2. \A u, v : ~ IsEdge(u, v)
  BY <1>1 DEF IsEdge, CanDerive
<1>3. Bits
  <2>1. derivable \subseteq Nonterm \X Nonterm /\ \A n \in Nonterm : CanDerive(n, n)
    BY <1>1 DEF CanDerive
  <2>2. nextEdge \in Int \X Int /\ nextProd \in Nat \ {0}
    BY <1>1
  <2> QED
    BY <1>1, <1>2, <2>1, <2>2 DEF Bits
<1>4. Closing
  BY <1>1, <1>2 DEF Closing
<1>5. Considered
  <2>1. ~ SomeEdge
    BY <1>1 DEF SomeEdge
  <2>2. \A i \in DOMAIN grammar : ~ (i < 1)
    BY <1>1, AtProduction
  <2> QED
    BY <1>1, <2>1, <2>2 DEF Considered, Passed
<1> QED
  BY <1>3, <1>4, <1>5 DEF Fixpoint

(* What a step that sets bits leaves as it was.                            *)
LEMMA BitsAdded ==
  ASSUME Bits, NEW left \in Nonterm \ {EmptyString}, NEW rights \in SUBSET Nonterm,
         AddDerivable(left, rights), UNCHANGED <<pc, grammar>>,
         pc \in {"productions", "closure"},
         changes' \in BOOLEAN, nextProd' \in Nat \ {0}, nextEdge' \in Int \X Int
  PROVE  /\ Bits'
         /\ \A a, b : CanDerive(a, b) => CanDerive(a, b)'
         /\ \A a, b : IsEdge(a, b) => IsEdge(a, b)'
         /\ (\A n \in rights : CanDerive(left, n)) => derivable' = derivable
<1>1. derivable' = derivable \cup ({left} \X rights)
  BY DEF AddDerivable
<1>2. \A a, b : CanDerive(a, b)' <=> CanDerive(a, b) \/ (a = left /\ b \in rights)
  BY <1>1 DEF CanDerive
<1>3. Bits'
  <2>1. derivable' \subseteq Nonterm \X Nonterm
    BY <1>1 DEF Bits
  <2>2. \A n : ~ IsEdge(EmptyString, n)'
    BY <1>2 DEF Bits, IsEdge
  <2> QED
    BY <1>2, <2>1, <2>2 DEF Bits
<1>4. (\A n \in rights : CanDerive(left, n)) => derivable' = derivable
  BY <1>1 DEF CanDerive
<1> QED
  BY <1>2, <1>3, <1>4 DEF IsEdge

(* Where no bit is set in this step, what is known stays known.            *)
LEMMA SameBits ==
  ASSUME UNCHANGED <<grammar, derivable>>
  PROVE  /\ \A a, b : CanDerive(a, b)' <=> CanDerive(a, b)
         /\ \A a, b : IsEdge(a, b)' <=> IsEdge(a, b)
         /\ \A v : EdgesFrom(v)' = EdgesFrom(v)
         /\ SomeEdge' <=> SomeEdge
         /\ \A i : /\ EmptyKnown(i)' <=> EmptyKnown(i)
                   /\ Known(i)' <=> Known(i)
<1>1. \A a, b : CanDerive(a, b)' <=> CanDerive(a, b)
  BY DEF CanDerive
<1>2. \A a, b : IsEdge(a, b)' <=> IsEdge(a, b)
  BY <1>1 DEF IsEdge
<1>3. \A v : EdgesFrom(v)' = EdgesFrom(v)
  BY <1>2 DEF EdgesFrom
<1>4. SomeEdge' <=> SomeEdge
  BY DEF SomeEdge
<1>5. \A i : EmptyKnown(i)' <=> EmptyKnown(i)
  BY <1>1 DEF EmptyKnown
<1>6. \A i : Known(i)' <=> Known(i)
  <2>1. \A x : CanDeriveEmpty(x)' <=> CanDeriveEmpty(x)
    BY <1>1 DEF CanDeriveEmpty
  <2>2. \A i : LeftAlone(grammar[i].right)' = LeftAlone(grammar[i].right)
    BY <2>1 DEF LeftAlone
  <2> QED
    BY <1>1, <2>2 DEF Known
<1> QED
  BY <1>1, <1>2, <1>3, <1>4, <1>5, <1>6

LEMMA ConsiderEmptySettles ==
  ASSUME Fixpoint, ConsiderEmpty
  PROVE  Fixpoint'
<1>1. /\ pc = "productions" /\ nextProd <= Len(grammar) /\ Right = << >>
      /\ UNCHANGED <<pc, grammar, nextEdge>> /\ changes' = changes /\ nextProd' = nextProd + 1
      /\ AddDerivable(Left, {EmptyString})
  BY DEF ConsiderEmpty, Considering, EmptyCounts
<1>2. grammar \in Grammars /\ nextProd \in Nat \ {0} /\ nextProd \in DOMAIN grammar
  BY <1>1, AtProduction DEF Fixpoint, Bits
<1>3. Left \in Nonterm \ {EmptyString} /\ {EmptyString} \in SUBSET Nonterm
  BY <1>2, ProductionType, GrammarsAssumption DEF Left, Nonterm, EmptyString
<1>4. /\ Bits'
      /\ \A a, b : CanDerive(a, b) => CanDerive(a, b)'
      /\ \A a, b : IsEdge(a, b) => IsEdge(a, b)'
      /\ CanDerive(Left, EmptyString) => derivable' = derivable
  <2>1. changes' \in BOOLEAN /\ nextProd' \in Nat \ {0} /\ nextEdge' \in Int \X Int
    BY <1>1, <1>2 DEF Fixpoint, Bits
  <2> QED
    BY <1>1, <1>3, <2>1, BitsAdded DEF Fixpoint
<1>5. cyclic' = cyclic /\ derivable' = derivable \cup {<<Left, EmptyString>>}
  BY <1>1, <1>3 DEF AddDerivable
<1>6. Closing'
  BY <1>1, <1>4, <1>5 DEF Fixpoint, Closing
<1>7. \A i : i = nextProd => EmptyKnown(i)'
  BY <1>1, <1>5 DEF EmptyKnown, Left, CanDerive
<1>8. \A i : EmptyKnown(i) => EmptyKnown(i)'
  BY <1>1, <1>4 DEF EmptyKnown
<1>9. \A i \in DOMAIN grammar : Passed(i)' => Passed(i) \/ i = nextProd
  BY <1>1, <1>2, AtProduction DEF Passed
<1>10. ASSUME SomeEdge', ~ changes' PROVE \A i \in DOMAIN grammar : Passed(i)' => Known(i)'
  <2>1. SomeEdge
    BY <1>5, <1>10 DEF SomeEdge
  <2>2. derivable' = derivable
    BY <1>1, <1>2, <1>4, <1>10, <2>1 DEF Fixpoint, Considered, EmptyKnown, Left, Right
  <2>3. Known(nextProd)
    BY <1>1 DEF Known, LeftAlone, Right
  <2> QED
    BY <1>1, <1>9, <1>10, <2>1, <2>2, <2>3, SameBits DEF Fixpoint, Considered
<1>11. SomeEdge' => SomeEdge
  BY <1>5 DEF SomeEdge
<1>12. Considered'
  BY <1>1, <1>7, <1>8, <1>9, <1>10, <1>11 DEF Fixpoint, Considered
<1> QED
  BY <1>4, <1>6, <1>12 DEF Fixpoint

LEMMA ConsiderProductionSettles ==
  ASSUME Fixpoint, ConsiderProduction
  PROVE  Fixpoint'
<1>1. /\ pc = "productions" /\ nextProd <= Len(grammar) /\ Right # << >>
      /\ UNCHANGED <<pc, grammar, nextEdge>> /\ nextProd' = nextProd + 1
  BY DEF ConsiderProduction, Considering
<1>2. PICK new : /\ new = {n \in LeftAlone(Right) : ~ CanDerive(Left, n)}
                 /\ AddDerivable(Left, new) /\ changes' = (changes \/ new # {})
  BY DEF ConsiderProduction
<1>3. grammar \in Grammars /\ nextProd \in Nat \ {0} /\ nextProd \in DOMAIN grammar
  BY <1>1, AtProduction DEF Fixpoint, Bits
<1>4. Left \in Nonterm \ {EmptyString} /\ LeftAlone(Right) \in SUBSET (Nonterm \ {EmptyString})
  <2>1. \A k \in DOMAIN Right : Right[k] \in (Nonterm \ {EmptyString}) \cup {Terminal}
    BY <1>3, ProductionType DEF Right
  <2> QED
    BY <1>3, <2>1, ProductionType DEF Left, LeftAlone
<1>5. new \in SUBSET (Nonterm \ {EmptyString}) /\ Left \notin new
  BY <1>2, <1>4 DEF Fixpoint, Bits
<1>6. /\ Bits'
      /\ \A a, b : CanDerive(a, b) => CanDerive(a, b)'
      /\ \A a, b : IsEdge(a, b) => IsEdge(a, b)'
  <2>1. changes' \in BOOLEAN /\ nextProd' \in Nat \ {0} /\ nextEdge' \in Int \X Int
    BY <1>1, <1>2, <1>3 DEF Fixpoint, Bits
  <2> QED
    BY <1>1, <1>2, <1>4, <1>5, <2>1, BitsAdded DEF Fixpoint
<1>7. cyclic' = cyclic /\ derivable' = derivable \cup ({Left} \X new)
  BY <1>2, <1>5 DEF AddDerivable
<1>8. Closing'
  BY <1>1, <1>6, <1>7 DEF Fixpoint, Closing
<1>9. \A i : EmptyKnown(i) => EmptyKnown(i)'
  BY <1>1, <1>6 DEF EmptyKnown
<1>10. \A i \in DOMAIN grammar : Passed(i)' => Passed(i) \/ i = nextProd
  BY <1>1, <1>3, AtProduction DEF Passed
<1>11. EmptyKnown(nextProd)
  BY <1>1 DEF EmptyKnown, Right
<1>12. ASSUME SomeEdge', ~ changes'
       PROVE  \A i \in DOMAIN grammar : EmptyKnown(i)' /\ (Passed(i)' => Known(i)')
  <2>1. new = {} /\ ~ changes
    BY <1>2, <1>12
  <2>2. derivable' = derivable
    BY <1>7, <2>1
  <2>3. Known(nextProd)
    BY <1>2, <2>1 DEF Known, Left, Right
  <2>4. SomeEdge
    BY <1>12, <2>2 DEF SomeEdge
  <2> QED
    BY <1>1, <1>9, <1>10, <2>1, <2>2, <2>3, <2>4, SameBits DEF Fixpoint, Considered
<1>13. Considered'
  BY <1>1, <1>9, <1>10, <1>11, <1>12 DEF Fixpoint, Considered
<1> QED
  BY <1>6, <1>8, <1>13 DEF Fixpoint

(* The closure starts with every edge before it.                           *)
LEMMA ProductionsDoneSettles ==
  ASSUME Fixpoint, ProductionsDone
  PROVE  Fixpoint'
<1>1. /\ pc = "productions" /\ nextProd > Len(grammar) /\ pc' = "closure"
      /\ nextEdge' = <<1, 0>>
      /\ UNCHANGED <<grammar, derivable, cyclic, changes, nextProd>>
  BY DEF ProductionsDone
<1>2. /\ \A a, b : CanDerive(a, b)' <=> CanDerive(a, b)
      /\ \A a, b : IsEdge(a, b)' <=> IsEdge(a, b)
      /\ SomeEdge' <=> SomeEdge
      /\ \A i : /\ EmptyKnown(i)' <=> EmptyKnown(i)
                /\ Known(i)' <=> Known(i)
  BY <1>1, SameBits
<1>3. Bits'
  BY <1>1, <1>2 DEF Fixpoint, Bits
<1>4. \A u, v : IsEdge(u, v)' => <<u, v>> \in EdgesLeft'
  <2> SUFFICES ASSUME NEW u, NEW v, IsEdge(u, v)'
               PROVE  <<u, v>> \in EdgesLeft'
    OBVIOUS
  <2>1. <<u, v>> \in derivable' /\ u # EmptyString /\ u \in Nonterm /\ v \in Nonterm
    BY <1>1, <1>2 DEF Fixpoint, Bits, IsEdge, CanDerive
  <2>2. u \in Nat /\ v \in Nat /\ u # 0
    BY <2>1, GrammarsAssumption DEF Nonterm, EmptyString
  <2>3. u > 1 \/ (u = 1 /\ v >= 0)
    BY <2>2
  <2>4. <<u, v>>[1] > nextEdge'[1] \/ (<<u, v>>[1] = nextEdge'[1] /\ <<u, v>>[2] >= nextEdge'[2])
    BY <1>1, <2>3
  <2> QED
    BY <2>1, <2>4 DEF EdgesLeft
<1>5. Closing'
  BY <1>1, <1>2, <1>4 DEF Fixpoint, Closing
<1>6. \A i \in DOMAIN grammar : Passed(i)
  <2>1. PICK l \in Int : l = Len(grammar)
    BY GrammarsAssumption DEF Fixpoint, Bits
  <2> QED
    BY <1>1, <2>1, AtProduction DEF Fixpoint, Bits, Passed
<1>7. Considered'
  BY <1>1, <1>2, <1>6 DEF Fixpoint, Considered
<1> QED
  BY <1>3, <1>5, <1>7 DEF Fixpoint

LEMMA ClosureStepSettles ==
  ASSUME Fixpoint, ClosureStep
  PROVE  Fixpoint'
<1>1. pc = "closure" /\ UNCHANGED <<pc, grammar, nextProd>>
  BY DEF ClosureStep
<1>2. PICK e \in EdgesLeft :
        /\ \A d \in EdgesLeft : e[1] < d[1] \/ (e[1] = d[1] /\ e[2] <= d[2])
        /\ AddDerivable(e[1], EdgesFrom(e[2]))
        /\ changes' = (changes \/ \E w \in EdgesFrom(e[2]) : ~ CanDerive(e[1], w))
        /\ nextEdge' = <<e[1], e[2] + 1>>
  BY DEF ClosureStep
<1>3. PICK u \in Nonterm, v \in Nonterm : e = <<u, v>>
  BY <1>2 DEF EdgesLeft, Fixpoint, Bits
<1>4. /\ e[1] = u /\ e[2] = v /\ IsEdge(u, v) /\ u \in Nonterm \ {EmptyString}
      /\ EdgesFrom(v) \in SUBSET Nonterm /\ u \in Int /\ v \in Int
  BY <1>2, <1>3, GrammarsAssumption DEF EdgesLeft, EdgesFrom, Nonterm
<1>5. /\ Bits'
      /\ \A a, b : CanDerive(a, b) => CanDerive(a, b)'
      /\ \A a, b : IsEdge(a, b) => IsEdge(a, b)'
      /\ (\A n \in EdgesFrom(v) : CanDerive(u, n)) => derivable' = derivable
  <2>1. changes' \in BOOLEAN /\ nextProd' \in Nat \ {0} /\ nextEdge' \in Int \X Int
    BY <1>1, <1>2, <1>4 DEF Fixpoint, Bits
  <2>2. AddDerivable(u, EdgesFrom(v))
    BY <1>2, <1>4
  <2> QED
    BY <1>1, <1>4, <2>1, <2>2, BitsAdded DEF Fixpoint
<1>6. cyclic' = IF u \in EdgesFrom(v) THEN cyclic \cup {u} ELSE cyclic
  BY <1>2, <1>4 DEF AddDerivable
<1>7. \A n \in cyclic' : \E m : IsEdge(n, m)' /\ IsEdge(m, n)'
  <2>1. u \in EdgesFrom(v) => IsEdge(u, v) /\ IsEdge(v, u)
    BY <1>4 DEF EdgesFrom
  <2> QED
    BY <1>5, <1>6, <2>1 DEF Fixpoint, Closing
<1>8. ASSUME ~ changes'
      PROVE  /\ ~ changes /\ derivable' = derivable
             /\ \A w \in EdgesFrom(v) : CanDerive(u, w)
  <2>1. ~ changes /\ \A w \in EdgesFrom(v) : CanDerive(u, w)
    BY <1>2, <1>4, <1>8
  <2> QED
    BY <1>5, <2>1
<1>9. ASSUME ~ changes', NEW a, NEW b, IsEdge(a, b)'
      PROVE  Joined(a, b)' \/ <<a, b>> \in EdgesLeft'
  <2>1. /\ ~ changes /\ UNCHANGED <<grammar, derivable>>
        /\ \A w \in EdgesFrom(v) : CanDerive(u, w)
    BY <1>1, <1>8, <1>9
  <2>2. /\ \A x, y : CanDerive(x, y)' <=> CanDerive(x, y)
        /\ \A x, y : IsEdge(x, y)' <=> IsEdge(x, y)
        /\ \A y : EdgesFrom(y)' = EdgesFrom(y)
    BY <2>1, SameBits
  <2>3. \A x, y : Joined(x, y) => Joined(x, y)'
    BY <1>6, <2>2 DEF Joined
  <2>4. Joined(u, v)'
    BY <1>6, <2>1, <2>2 DEF Joined
  <2>5. CASE <<a, b>> \in EdgesLeft
    <3>1. a \in Int /\ b \in Int /\ <<a, b>> \in derivable /\ a # EmptyString
      BY <2>5, GrammarsAssumption DEF EdgesLeft, Fixpoint, Bits, Nonterm
    <3>2. u < a \/ (u = a /\ v <= b)
      <4>1. /\ <<a, b>>[1] = a /\ <<a, b>>[2] = b
        OBVIOUS
      <4> QED
        BY <1>2, <1>4, <2>5, <4>1
    <3>3. CASE u = a /\ v = b
      BY <2>4, <3>3
    <3>4. CASE ~ (u = a /\ v = b)
      <4>1. a > u \/ (a = u /\ b >= v + 1)
        BY <1>4, <3>1, <3>2, <3>4
      <4>2. /\ <<a, b>>[1] > nextEdge'[1]
               \/ (<<a, b>>[1] = nextEdge'[1] /\ <<a, b>>[2] >= nextEdge'[2])
        BY <1>2, <1>4, <4>1
      <4>3. <<a, b>> \in derivable' /\ IsEdge(a, b)' /\ <<a, b>>[1] # EmptyString
        BY <1>9, <2>1, <3>1
      <4> QED
        BY <4>2, <4>3 DEF EdgesLeft
    <3> QED
      BY <3>3, <3>4
  <2>6. CASE <<a, b>> \notin EdgesLeft
    <3>1. Joined(a, b)
      BY <1>1, <1>9, <2>1, <2>2, <2>6 DEF Fixpoint, Closing
    <3> QED
      BY <2>3, <3>1
  <2> QED
    BY <2>5, <2>6
<1>10. Closing'
  BY <1>1, <1>7, <1>9 DEF Closing
<1>11. \A i : EmptyKnown(i) => EmptyKnown(i)'
  BY <1>1, <1>5 DEF EmptyKnown
<1>12. \A i : Passed(i)
  BY <1>1 DEF Passed
<1>13. ASSUME SomeEdge', ~ changes' PROVE \A i \in DOMAIN grammar : Known(i)'
  <2>1. ~ changes /\ UNCHANGED <<grammar, derivable>>
    BY <1>1, <1>8, <1>13
  <2> QED
    BY <1>12, <1>13, <2>1, SameBits DEF Fixpoint, Considered
<1>14. Considered'
  BY <1>1, <1>11, <1>12, <1>13 DEF Fixpoint, Considered
<1> QED
  BY <1>5, <1>10, <1>14 DEF Fixpoint

LEMMA ClosureDoneSettles ==
  ASSUME Fixpoint, ClosureDone
  PROVE  Fixpoint'
<1>1. /\ pc = "closure" /\ EdgesLeft = {} /\ changes' = FALSE /\ nextProd' = 1
      /\ pc' = (IF changes THEN "productions" ELSE "sort")
      /\ UNCHANGED <<grammar, derivable, cyclic, nextEdge>>
  BY DEF ClosureDone
<1>2. /\ \A a, b : CanDerive(a, b)' <=> CanDerive(a, b)
      /\ \A a, b : IsEdge(a, b)' <=> IsEdge(a, b)
      /\ \A v : EdgesFrom(v)' = EdgesFrom(v)
      /\ SomeEdge' <=> SomeEdge
      /\ \A i : /\ EmptyKnown(i)' <=> EmptyKnown(i)
                /\ Known(i)' <=> Known(i)
  BY <1>1, SameBits
<1>3. Bits'
  <2>1. pc' \in {"productions", "sort"} /\ changes' \in BOOLEAN /\ ~ changes'
    BY <1>1
  <2>2. nextProd' \in Nat \ {0} /\ nextEdge' \in Int \X Int
    BY <1>1 DEF Fixpoint, Bits
  <2> QED
    BY <1>1, <1>2, <2>1, <2>2 DEF Fixpoint, Bits
<1>4. Closing'
  <2>1. \A u, v : Joined(u, v) => Joined(u, v)'
    BY <1>1, <1>2 DEF Joined
  <2> QED
    BY <1>1, <1>2, <2>1 DEF Fixpoint, Closing
<1>5. \A i \in DOMAIN grammar : EmptyKnown(i)
  BY <1>1 DEF Fixpoint, Considered, Passed
<1>6. ASSUME SomeEdge, ~ changes PROVE \A i \in DOMAIN grammar : Known(i)
  BY <1>1, <1>6 DEF Fixpoint, Considered, Passed
<1>7. \A i \in DOMAIN grammar : pc' = "productions" => ~ Passed(i)'
  BY <1>1, AtProduction DEF Passed, Fixpoint, Bits
<1>8. Considered'
  BY <1>1, <1>2, <1>5, <1>6, <1>7 DEF Considered
<1> QED
  BY <1>3, <1>4, <1>8 DEF Fixpoint

(* The topological sort leaves the bits alone.                             *)
LEMMA SortSettles ==
  ASSUME Fixpoint, UNCHANGED <<grammar, fixpointVars>>,
         pc' = pc \/ (pc = "sort" /\ pc' = "done")
  PROVE  Fixpoint'
<1>1. UNCHANGED <<grammar, derivable, cyclic, changes, nextProd, nextEdge>>
  BY DEF fixpointVars
<1>2. /\ \A a, b : CanDerive(a, b)' <=> CanDerive(a, b)
      /\ \A a, b : IsEdge(a, b)' <=> IsEdge(a, b)
      /\ \A v : EdgesFrom(v)' = EdgesFrom(v)
      /\ SomeEdge' <=> SomeEdge
      /\ \A i : /\ EmptyKnown(i)' <=> EmptyKnown(i)
                /\ Known(i)' <=> Known(i)
  BY <1>1, SameBits
<1>3. Bits'
  BY <1>1, <1>2 DEF Fixpoint, Bits
<1>4. Closing'
  <2>1. \A u, v : Joined(u, v) => Joined(u, v)'
    BY <1>1, <1>2 DEF Joined
  <2>2. EdgesLeft' = EdgesLeft
    BY <1>1, <1>2 DEF EdgesLeft
  <2> QED
    BY <1>1, <1>2, <2>1, <2>2 DEF Fixpoint, Closing
<1>5. \A i : Passed(i)' <=> Passed(i)
  BY <1>1 DEF Passed
<1>6. Considered'
  BY <1>1, <1>2, <1>5 DEF Fixpoint, Considered
<1> QED
  BY <1>3, <1>4, <1>6 DEF Fixpoint

LEMMA FixpointNext == Fixpoint /\ [Next]_vars => Fixpoint'
<1> SUFFICES ASSUME Fixpoint, [Next]_vars PROVE Fixpoint'
  OBVIOUS
<1>1. CASE Propagate
  BY <1>1, ConsiderEmptySettles, ConsiderProductionSettles, ProductionsDoneSettles,
     ClosureStepSettles, ClosureDoneSettles DEF Propagate
<1>2. CASE TopologicalSort
  <2>1. UNCHANGED <<grammar, fixpointVars>> /\ (pc' = pc \/ (pc = "sort" /\ pc' = "done"))
    BY <1>2 DEF TopologicalSort, SortFrom, SortDeriver, PutInOrder, SortDone
  <2> QED
    BY <2>1, SortSettles
<1>3. CASE UNCHANGED vars
  BY <1>3, SortSettles DEF vars
<1> QED
  BY <1>1, <1>2, <1>3 DEF Next

LEMMA FixpointAlways == Spec => []Fixpoint
BY FixpointInit, FixpointNext, PTL DEF Spec

-----------------------------------------------------------------------------
(* What the fixpoint gives once it is reached.                             *)
LEMMA Transitive ==
  ASSUME Fixpoint, pc \in {"sort", "done"},
         NEW a, NEW b, NEW c, CanDerive(a, b), CanDerive(b, c)
  PROVE  CanDerive(a, c)
<1>1. c \in Nonterm
  BY DEF Fixpoint, Bits, CanDerive
<1>2. CASE a = b \/ b = c
  BY <1>2
<1>3. CASE a # b /\ b # c
  <2>1. IsEdge(a, b) /\ c \in EdgesFrom(b)
    BY <1>1, <1>3 DEF IsEdge, EdgesFrom
  <2> QED
    BY <2>1 DEF Fixpoint, Closing, Joined
<1> QED
  BY <1>2, <1>3

(* Every nullable nonterminal is known to derive the empty string: those   *)
(* that are known are closed under the productions.                        *)
LEMMA NullableKnown ==
  ASSUME Fixpoint, pc = "done", SomeEdge, NEW n \in Nullable(grammar)
  PROVE  CanDerive(n, EmptyString)
<1> DEFINE E == {x \in Nonterm : CanDerive(x, EmptyString)}
<1>1. ClosedNullable(grammar, E)
  <2> SUFFICES ASSUME NEW i \in DOMAIN grammar,
                      \A j \in DOMAIN grammar[i].right : grammar[i].right[j] \in E
               PROVE  grammar[i].left \in E
    BY DEF ClosedNullable
  <2>1. EmptyKnown(i) /\ Known(i) /\ grammar[i].left \in Nonterm
        /\ grammar[i].right \in Seq((Nonterm \ {EmptyString}) \cup {Terminal})
    BY ProductionType DEF Fixpoint, Bits, Considered, Passed
  <2>2. CASE grammar[i].right = << >>
    BY <2>1, <2>2 DEF EmptyKnown
  <2>3. CASE grammar[i].right # << >>
    <3>1. 1 \in DOMAIN grammar[i].right
      BY <2>1, <2>3
    <3>2. \A j \in DOMAIN grammar[i].right : /\ grammar[i].right[j] # Terminal
                                             /\ CanDeriveEmpty(grammar[i].right[j])
      <4>1. Terminal \notin Nonterm
        BY GrammarsAssumption DEF Terminal, Nonterm
      <4> QED
        BY <4>1 DEF CanDeriveEmpty
    <3>3. grammar[i].right[1] \in LeftAlone(grammar[i].right)
      BY <3>1, <3>2 DEF LeftAlone
    <3>4. CanDerive(grammar[i].left, grammar[i].right[1])
      BY <2>1, <3>3 DEF Known
    <3>5. CanDerive(grammar[i].right[1], EmptyString)
      BY <3>1
    <3> QED
      BY <2>1, <3>4, <3>5, Transitive
  <2> QED
    BY <2>2, <2>3
<1>2. E \in SUBSET Nonterm
  OBVIOUS
<1>3. n \in E
  BY <1>1, <1>2 DEF Nullable
<1> QED
  BY <1>3

(* So what is known from a nonterminal is closed under derivation.         *)
LEMMA AllKnown ==
  ASSUME Fixpoint, pc = "done", SomeEdge, NEW a, NEW b, <<a, b>> \in Derives(grammar)
  PROVE  CanDerive(a, b)
<1> DEFINE S == {x \in Nonterm : CanDerive(a, x)}
<1>1. a \in Nonterm
  BY DEF Derives
<1>2. ClosedUnder(S, DerivationSteps(grammar))
  <2> SUFFICES ASSUME NEW e \in DerivationSteps(grammar), CanDerive(a, e[1])
               PROVE  e[2] \in S
    BY DEF ClosedUnder
  <2>1. CASE e \in Nullable(grammar) \X {EmptyString}
    <3>1. CanDerive(e[1], e[2])
      BY <2>1, NullableKnown
    <3>2. e[2] \in Nonterm
      BY <2>1, GrammarsAssumption DEF Nonterm, EmptyString
    <3> QED
      BY <3>1, <3>2, Transitive
  <2>2. CASE e \notin Nullable(grammar) \X {EmptyString}
    <3>1. PICK i \in DOMAIN grammar :
            e \in {grammar[i].left} \X LeavesAlone(grammar[i].right, Nullable(grammar))
      BY <2>2 DEF DerivationSteps
    <3>2. PICK k \in DOMAIN grammar[i].right :
            /\ e[1] = grammar[i].left /\ e[2] = grammar[i].right[k]
            /\ grammar[i].right[k] # Terminal
            /\ \A j \in DOMAIN grammar[i].right \ {k} : grammar[i].right[j] \in Nullable(grammar)
      BY <3>1 DEF LeavesAlone
    <3>3. \A j \in DOMAIN grammar[i].right \ {k} : CanDeriveEmpty(grammar[i].right[j])
      <4>1. Terminal \notin Nonterm
        BY GrammarsAssumption DEF Terminal, Nonterm
      <4> QED
        BY <3>2, <4>1, NullableKnown DEF CanDeriveEmpty, Nullable
    <3>4. e[2] \in LeftAlone(grammar[i].right)
      BY <3>2, <3>3 DEF LeftAlone
    <3>5. CanDerive(e[1], e[2])
      BY <3>2, <3>4 DEF Fixpoint, Bits, Considered, Passed, Known
    <3>6. e[2] \in Nonterm
      BY <3>2, ProductionType DEF Fixpoint, Bits
    <3> QED
      BY <3>5, <3>6, Transitive
  <2> QED
    BY <2>1, <2>2
<1>3. S \in SUBSET Nonterm /\ a \in S
  BY <1>1 DEF Fixpoint, Bits
<1>4. b \in S
  BY <1>2, <1>3 DEF Derives
<1> QED
  BY <1>4

LEMMA CompleteWhenSettled == Fixpoint => SettledComplete
<1> SUFFICES ASSUME Fixpoint, pc = "done", SomeEdge
             PROVE  DerivesIn[grammar] \subseteq derivable
  BY DEF SettledComplete
<1>1. DerivesIn[grammar] = Derives(grammar)
  BY DerivesInDerives DEF Fixpoint, Bits
<1>2. ASSUME NEW p \in Derives(grammar) PROVE p \in derivable
  <2>1. p = <<p[1], p[2]>>
    BY DEF Derives
  <2>2. CanDerive(p[1], p[2])
    BY <2>1, AllKnown
  <2> QED
    BY <2>1, <2>2 DEF CanDerive
<1> QED
  BY <1>1, <1>2

(* When the fixpoint is reached every derivation is known, as soon as one  *)
(* between two different nonterminals is (computeWhatCanDeriveWhat).       *)
THEOREM DerivableAlwaysComplete == Spec => []SettledComplete
BY FixpointAlways, CompleteWhenSettled, PTL

LEMMA CyclesAreReal ==
  ASSUME Fixpoint, DerivableSound
  PROVE  cyclic \subseteq CyclicIn[grammar]
<1>1. CyclicIn[grammar] = {n \in Nonterm : \E m \in Nonterm \ {n} :
                             {<<n, m>>, <<m, n>>} \subseteq DerivesIn[grammar]}
  BY DEF CyclicIn, Fixpoint, Bits
<1>2. ASSUME NEW n \in cyclic PROVE n \in CyclicIn[grammar]
  <2>1. PICK m : IsEdge(n, m) /\ IsEdge(m, n)
    BY DEF Fixpoint, Closing
  <2>2. n # m /\ <<n, m>> \in derivable /\ <<m, n>> \in derivable
    BY <2>1 DEF IsEdge, CanDerive
  <2>3. n \in Nonterm /\ m \in Nonterm
    BY <2>2 DEF Fixpoint, Bits
  <2> QED
    BY <1>1, <2>2, <2>3 DEF DerivableSound
<1> QED
  BY <1>2

LEMMA CyclesAreFound ==
  ASSUME Fixpoint, pc = "done", SomeEdge
  PROVE  CyclicIn[grammar] \subseteq cyclic
<1>1. CyclicIn[grammar] = {n \in Nonterm : \E m \in Nonterm \ {n} :
                             {<<n, m>>, <<m, n>>} \subseteq DerivesIn[grammar]}
  BY DEF CyclicIn, Fixpoint, Bits
<1>2. ASSUME NEW n \in CyclicIn[grammar] PROVE n \in cyclic
  <2>1. PICK m \in Nonterm \ {n} : {<<n, m>>, <<m, n>>} \subseteq DerivesIn[grammar]
    BY <1>1
  <2>2. n \in Nonterm /\ DerivesIn[grammar] \subseteq derivable
    BY <1>1, CompleteWhenSettled DEF SettledComplete
  <2>3. IsEdge(n, m) /\ n \in EdgesFrom(m)
    BY <2>1, <2>2 DEF IsEdge, EdgesFrom, CanDerive
  <2> QED
    BY <2>3 DEF Fixpoint, Closing, Joined
<1> QED
  BY <1>2

(* No nonterminal is ever reported as cyclic that does not derive itself by*)
(* way of another, and in the end all that do are, unless the propagation  *)
(* has found no derivation at all between two nonterminals (addDerivable). *)
THEOREM CyclesAlwaysFound == Spec => []CyclesFound
<1>1. Fixpoint /\ DerivableSound => CyclesFound
  BY CyclesAreReal, CyclesAreFound DEF CyclesFound
<1> QED
  BY <1>1, FixpointAlways, DerivableAlwaysSound, PTL

-----------------------------------------------------------------------------
(* The topological sort.  The call stack is a path along the edges, from   *)
(* the last call to the first.                                             *)
OnPath ==
  /\ calls \in Seq(Nonterm) /\ DOMAIN order \in SUBSET Nonterm
  /\ seen = DOMAIN order \cup {calls[i] : i \in DOMAIN calls}
  /\ \A i \in DOMAIN calls : calls[i] \notin DOMAIN order
  /\ \A i, j \in DOMAIN calls :
       i < j => calls[i] # calls[j] /\ CanDerive(calls[i], calls[j])
  /\ pc \notin {"sort", "done"} => calls = << >> /\ DOMAIN order = {}
  /\ pc = "done" => DOMAIN order = Nonterm

(* The ordinals are given from the last one down, and a nonterminal has one*)
(* only when all that come after it do.                                    *)
Numbered ==
  /\ nextOrdinal \in Int
  /\ {order[n] : n \in DOMAIN order} = (nextOrdinal + 1)..(NumNonterms - 1)
  /\ Cardinality(DOMAIN order) = NumNonterms - 1 - nextOrdinal
  /\ \A a \in Nonterm : \A b \in DOMAIN order :
       CanDerive(a, b) /\ ~ CanDerive(b, a) => a \in DOMAIN order /\ order[b] < order[a]

Sorted == OnPath /\ Numbered

LEMMA SortedInit == Init => Sorted
<1> SUFFICES ASSUME Init PROVE Sorted
  OBVIOUS
<1>1. /\ pc = "productions" /\ calls = << >> /\ order = << >> /\ seen = {}
      /\ nextOrdinal = NumNonterms - 1 /\ NumNonterms \in Nat
  BY GrammarsAssumption DEF Init
<1>2. DOMAIN order = {} /\ DOMAIN calls = {} /\ calls \in Seq(Nonterm)
  BY <1>1
<1>3. OnPath
  BY <1>1, <1>2 DEF OnPath
<1>4. Cardinality(DOMAIN order) = 0
  BY <1>2, FS_EmptySet
<1>5. (nextOrdinal + 1)..(NumNonterms - 1) = {}
  BY <1>1
<1>6. Numbered
  BY <1>1, <1>2, <1>4, <1>5 DEF Numbered
<1> QED
  BY <1>3, <1>6 DEF Sorted

(* Nothing is sorted while bits are still set.                             *)
LEMMA PropagateKeepsSorted ==
  ASSUME Fixpoint, Sorted, Propagate
  PROVE  Sorted'
<1>1. /\ pc \in {"productions", "closure"} /\ pc' # "done"
      /\ UNCHANGED <<seen, calls, order, nextOrdinal>>
  BY DEF Propagate, ConsiderEmpty, ConsiderProduction, ProductionsDone, ClosureStep, ClosureDone,
         Considering, sortVars
<1>2. calls = << >> /\ DOMAIN order = {}
  BY <1>1 DEF Sorted, OnPath
<1>3. DOMAIN calls = {}
  BY <1>2
<1>4. OnPath'
  BY <1>1, <1>2, <1>3 DEF Sorted, OnPath
<1>5. Numbered'
  BY <1>1, <1>2 DEF Sorted, Numbered
<1> QED
  BY <1>4, <1>5 DEF Sorted

(* A call is for a nonterminal not seen, that derives the one before.      *)
LEMMA CallKeepsSorted ==
  ASSUME Fixpoint, Sorted, pc = "sort", UNCHANGED <<pc, grammar, fixpointVars, order, nextOrdinal>>,
         NEW n \in Nonterm \ seen, seen' = seen \cup {n}, calls' = <<n>> \o calls,
         calls # << >> => CanDerive(n, Head(calls))
  PROVE  Sorted'
<1>1. PICK l \in Nat : l = Len(calls)
  BY DEF Sorted, OnPath
<1>2. PICK longer : longer = <<n>> \o calls
  OBVIOUS
<1>3. /\ calls \in Seq(Nonterm) /\ longer \in Seq(Nonterm)
      /\ DOMAIN calls = 1..l /\ DOMAIN longer = 1..(l + 1)
      /\ longer[1] = n /\ \A i \in 1..l : longer[i + 1] = calls[i]
  BY <1>1, <1>2 DEF Sorted, OnPath
<1>4. \A i \in 1..(l + 1) : i = 1 \/ (i - 1 \in 1..l /\ longer[i] = calls[i - 1])
  <2> SUFFICES ASSUME NEW i \in 1..(l + 1), i # 1
               PROVE  i - 1 \in 1..l /\ longer[i] = calls[i - 1]
    OBVIOUS
  <2>1. i - 1 \in 1..l /\ (i - 1) + 1 = i
    OBVIOUS
  <2> QED
    BY <1>3, <2>1
<1>5. \A a, b : CanDerive(a, b)' <=> CanDerive(a, b)
  BY DEF fixpointVars, CanDerive
<1>6. {longer[i] : i \in DOMAIN longer} = {calls[i] : i \in DOMAIN calls} \cup {n}
  <2>1. 1 \in 1..(l + 1) /\ \A i \in 1..l : i + 1 \in 1..(l + 1)
    OBVIOUS
  <2>2. ASSUME NEW i \in 1..(l + 1)
        PROVE  longer[i] \in {calls[j] : j \in DOMAIN calls} \cup {n}
    <3>1. CASE i = 1
      BY <1>3, <3>1
    <3>2. CASE i - 1 \in 1..l /\ longer[i] = calls[i - 1]
      BY <1>3, <3>2
    <3> QED
      BY <1>4, <3>1, <3>2
  <2>3. ASSUME NEW i \in 1..l
        PROVE  calls[i] \in {longer[j] : j \in DOMAIN longer}
    <3>1. i + 1 \in DOMAIN longer /\ longer[i + 1] = calls[i]
      BY <1>3, <2>1
    <3> QED
      BY <3>1
  <2>4. n \in {longer[j] : j \in DOMAIN longer}
    BY <1>3, <2>1
  <2>5. {longer[i] : i \in DOMAIN longer} \subseteq {calls[i] : i \in DOMAIN calls} \cup {n}
    BY <1>3, <2>2
  <2>6. {calls[i] : i \in DOMAIN calls} \cup {n} \subseteq {longer[i] : i \in DOMAIN longer}
    BY <1>3, <2>3, <2>4
  <2> QED
    BY <2>5, <2>6
<1>7. \A i \in 1..l : CanDerive(n, calls[i]) /\ n # calls[i]
  <2> SUFFICES ASSUME NEW i \in 1..l PROVE CanDerive(n, calls[i]) /\ n # calls[i]
    OBVIOUS
  <2>1. n # calls[i]
    BY <1>3 DEF Sorted, OnPath
  <2>2. calls # << >> /\ Head(calls) = calls[1] /\ 1 \in 1..l
    BY <1>1, <1>3
  <2>3. i = 1 \/ CanDerive(calls[1], calls[i])
    <3> SUFFICES ASSUME i # 1 PROVE CanDerive(calls[1], calls[i])
      OBVIOUS
    <3>1. 1 < i
      OBVIOUS
    <3>2. 1 \in DOMAIN calls /\ i \in DOMAIN calls
      BY <1>3, <2>2
    <3> QED
      BY <3>1, <3>2 DEF Sorted, OnPath
  <2> QED
    BY <2>1, <2>2, <2>3, Transitive
<1>8. ASSUME NEW i \in 1..(l + 1), NEW j \in 1..(l + 1), i < j
      PROVE  longer[i] # longer[j] /\ CanDerive(longer[i], longer[j])
  <2>1. j - 1 \in 1..l /\ longer[j] = calls[j - 1]
    BY <1>4, <1>8
  <2>2. CASE i = 1
    BY <1>3, <1>7, <2>1, <2>2
  <2>3. CASE i # 1
    <3>1. i - 1 \in 1..l /\ longer[i] = calls[i - 1] /\ i - 1 < j - 1
      BY <1>4, <1>8, <2>3
    <3> QED
      BY <1>3, <2>1, <3>1 DEF Sorted, OnPath
  <2> QED
    BY <2>2, <2>3
<1>9. \A i \in 1..(l + 1) : longer[i] \notin DOMAIN order
  BY <1>3, <1>4 DEF Sorted, OnPath
<1>10. OnPath'
  <2>1. seen' = DOMAIN order \cup {longer[i] : i \in DOMAIN longer}
    BY <1>6 DEF Sorted, OnPath
  <2>2. calls' = longer /\ order' = order /\ pc' = "sort"
    BY <1>2
  <2>3. \A i, j \in DOMAIN longer :
          i < j => longer[i] # longer[j] /\ CanDerive(longer[i], longer[j])
    BY <1>3, <1>8
  <2>4. \A i \in DOMAIN longer : longer[i] \notin DOMAIN order
    BY <1>3, <1>9
  <2>5. DOMAIN order \in SUBSET Nonterm
    BY DEF Sorted, OnPath
  <2>6. derivable' = derivable
    BY DEF fixpointVars
  <2>7. (\A i, j \in DOMAIN calls :
           i < j => calls[i] # calls[j] /\ CanDerive(calls[i], calls[j]))'
    BY <2>2, <2>3, <2>6 DEF CanDerive
  <2>8. (calls \in Seq(Nonterm) /\ DOMAIN order \in SUBSET Nonterm)'
    BY <1>3, <2>2, <2>5
  <2>9. (seen = DOMAIN order \cup {calls[i] : i \in DOMAIN calls})'
    BY <2>1, <2>2
  <2>10. (\A i \in DOMAIN calls : calls[i] \notin DOMAIN order)'
    BY <2>2, <2>4
  <2>11. pc' = "sort"
    BY <2>2
  <2> QED
    BY <2>7, <2>8, <2>9, <2>10, <2>11 DEF OnPath
<1>11. Numbered'
  BY <1>5 DEF Sorted, Numbered
<1> QED
  BY <1>10, <1>11 DEF Sorted

(* A nonterminal whose derivers have all been seen: those that it does not *)
(* derive itself are not on the path below it, so they have their ordinals.*)
LEMMA PutKeepsSorted ==
  ASSUME Fixpoint, Sorted, PutInOrder
  PROVE  Sorted'
<1>1. PICK cur : cur = Head(calls)
  OBVIOUS
<1>2. /\ pc = "sort" /\ pc' = "sort" /\ calls # << >> /\ Derivers(cur) \subseteq seen
      /\ order' = [n \in DOMAIN order \cup {cur} |-> IF n = cur THEN nextOrdinal ELSE order[n]]
      /\ nextOrdinal' = nextOrdinal - 1 /\ calls' = Tail(calls) /\ seen' = seen
      /\ derivable' = derivable
  BY <1>1 DEF PutInOrder, fixpointVars
<1>3. PICK l \in Nat : l = Len(calls)
  BY DEF Sorted, OnPath
<1>4. PICK rest : rest = Tail(calls)
  OBVIOUS
<1>5. /\ calls \in Seq(Nonterm) /\ rest \in Seq(Nonterm) /\ l > 0
      /\ DOMAIN calls = 1..l /\ DOMAIN rest = 1..(l - 1) /\ cur = calls[1] /\ cur \in Nonterm
      /\ \A i \in 1..(l - 1) : rest[i] = calls[i + 1] /\ i + 1 \in 1..l
  <2>1. /\ calls \in Seq(Nonterm) /\ rest \in Seq(Nonterm) /\ l > 0
        /\ DOMAIN calls = 1..l /\ Len(rest) = l - 1 /\ cur = calls[1] /\ cur \in Nonterm
        /\ \A i \in 1..(l - 1) : rest[i] = calls[i + 1]
    BY <1>1, <1>2, <1>3, <1>4 DEF Sorted, OnPath
  <2> QED
    BY <2>1
<1>6. \A a, b : CanDerive(a, b)' <=> CanDerive(a, b)
  BY <1>2 DEF CanDerive
<1>7. /\ DOMAIN order' = DOMAIN order \cup {cur} /\ cur \notin DOMAIN order
      /\ order'[cur] = nextOrdinal /\ \A n \in DOMAIN order : order'[n] = order[n]
  <2>1. 1 \in DOMAIN calls
    BY <1>5
  <2>2. cur \notin DOMAIN order
    BY <1>5, <2>1 DEF Sorted, OnPath
  <2> QED
    BY <1>2, <2>2
<1>8. \A i \in 1..l : i = 1 \/ (i - 1 \in 1..(l - 1) /\ rest[i - 1] = calls[i])
  <2> SUFFICES ASSUME NEW i \in 1..l, i # 1
               PROVE  i - 1 \in 1..(l - 1) /\ rest[i - 1] = calls[i]
    OBVIOUS
  <2>1. i - 1 \in 1..(l - 1) /\ (i - 1) + 1 = i
    BY <1>3
  <2> QED
    BY <1>5, <2>1
<1>9. {calls[i] : i \in DOMAIN calls} = {rest[i] : i \in DOMAIN rest} \cup {cur}
  <2>1. 1 \in DOMAIN calls
    BY <1>5
  <2>2. ASSUME NEW i \in 1..l
        PROVE  calls[i] \in {rest[j] : j \in DOMAIN rest} \cup {cur}
    <3>1. CASE i = 1
      BY <1>5, <3>1
    <3>2. CASE i - 1 \in 1..(l - 1) /\ rest[i - 1] = calls[i]
      BY <1>5, <3>2
    <3> QED
      BY <1>8, <3>1, <3>2
  <2>3. ASSUME NEW i \in 1..(l - 1)
        PROVE  rest[i] \in {calls[j] : j \in DOMAIN calls}
    <3>1. i + 1 \in DOMAIN calls /\ rest[i] = calls[i + 1]
      BY <1>5
    <3> QED
      BY <3>1
  <2>4. cur \in {calls[j] : j \in DOMAIN calls}
    BY <1>5, <2>1
  <2>5. {calls[i] : i \in DOMAIN calls} \subseteq {rest[i] : i \in DOMAIN rest} \cup {cur}
    BY <1>5, <2>2
  <2>6. {rest[i] : i \in DOMAIN rest} \cup {cur} \subseteq {calls[i] : i \in DOMAIN calls}
    BY <1>5, <2>3, <2>4
  <2> QED
    BY <2>5, <2>6
<1>10. \A i \in 1..(l - 1) : rest[i] # cur /\ rest[i] \notin DOMAIN order
  <2> SUFFICES ASSUME NEW i \in 1..(l - 1) PROVE rest[i] # cur /\ rest[i] \notin DOMAIN order
    OBVIOUS
  <2>1. rest[i] = calls[i + 1] /\ i + 1 \in DOMAIN calls /\ 1 \in DOMAIN calls /\ 1 < i + 1
    BY <1>3, <1>5
  <2> QED
    BY <1>5, <2>1 DEF Sorted, OnPath
<1>11. ASSUME NEW i \in 1..(l - 1), NEW j \in 1..(l - 1), i < j
       PROVE  rest[i] # rest[j] /\ CanDerive(rest[i], rest[j])
  <2>1. /\ rest[i] = calls[i + 1] /\ rest[j] = calls[j + 1] /\ i + 1 < j + 1
        /\ i + 1 \in DOMAIN calls /\ j + 1 \in DOMAIN calls
    BY <1>3, <1>5, <1>11
  <2> QED
    BY <2>1 DEF Sorted, OnPath
<1>12. OnPath'
  <2>1. seen' = DOMAIN order' \cup {rest[i] : i \in DOMAIN rest}
    BY <1>2, <1>7, <1>9 DEF Sorted, OnPath
  <2>2. DOMAIN order' \in SUBSET Nonterm
    BY <1>5, <1>7 DEF Sorted, OnPath
  <2>3. \A i \in DOMAIN rest : rest[i] \notin DOMAIN order'
    BY <1>5, <1>7, <1>10
  <2>4. calls' = rest /\ pc' = "sort"
    BY <1>2, <1>4
  <2> QED
    BY <1>5, <1>6, <1>11, <2>1, <2>2, <2>3, <2>4 DEF OnPath
<1>13. nextOrdinal \in Int /\ NumNonterms \in Int
  BY GrammarsAssumption DEF Sorted, Numbered
<1>14. IsFiniteSet(DOMAIN order) /\ Cardinality(DOMAIN order) \in Nat
  <2>1. IsFiniteSet(Nonterm)
    BY GrammarsAssumption, FS_Interval DEF Nonterm
  <2>2. DOMAIN order \subseteq Nonterm
    BY DEF Sorted, OnPath
  <2> QED
    BY <2>1, <2>2, FS_Subset, FS_CardinalityType
<1>15. Cardinality(DOMAIN order') = Cardinality(DOMAIN order) + 1
  BY <1>7, <1>14, FS_AddElement
<1>16. {order'[n] : n \in DOMAIN order'} = (nextOrdinal' + 1)..(NumNonterms - 1)
  <2>1. {order'[n] : n \in DOMAIN order'} = {order[n] : n \in DOMAIN order} \cup {nextOrdinal}
    BY <1>7
  <2>2. nextOrdinal <= NumNonterms - 1
    BY <1>13, <1>14 DEF Sorted, Numbered
  <2>3. (nextOrdinal - 1) + 1 = nextOrdinal
    BY <1>13
  <2>4. nextOrdinal..(NumNonterms - 1) = ((nextOrdinal + 1)..(NumNonterms - 1)) \cup {nextOrdinal}
    BY <1>13, <2>2
  <2> QED
    BY <1>2, <2>1, <2>3, <2>4 DEF Sorted, Numbered
<1>17. \A n \in DOMAIN order : order[n] \in Int /\ nextOrdinal < order[n]
  <2> SUFFICES ASSUME NEW n \in DOMAIN order PROVE order[n] \in Int /\ nextOrdinal < order[n]
    OBVIOUS
  <2>1. order[n] \in (nextOrdinal + 1)..(NumNonterms - 1)
    BY DEF Sorted, Numbered
  <2> QED
    BY <1>13, <2>1
<1>18. ASSUME NEW a \in Nonterm, CanDerive(a, cur), ~ CanDerive(cur, a)
       PROVE  a \in DOMAIN order
  <2>1. a \in seen
    BY <1>2, <1>18 DEF Derivers
  <2>2. ASSUME NEW i \in DOMAIN calls, a = calls[i] PROVE FALSE
    <3>1. i = 1 \/ CanDerive(calls[1], calls[i])
      BY <1>5 DEF Sorted, OnPath
    <3> QED
      BY <1>5, <1>18, <2>2, <3>1 DEF Fixpoint, Bits
  <2> QED
    BY <2>1, <2>2 DEF Sorted, OnPath
<1>19. ASSUME NEW a \in Nonterm, NEW b \in DOMAIN order', CanDerive(a, b), ~ CanDerive(b, a)
       PROVE  a \in DOMAIN order' /\ order'[b] < order'[a]
  <2>1. CASE b = cur
    <3>1. a \in DOMAIN order
      BY <1>18, <1>19, <2>1
    <3> QED
      BY <1>7, <1>17, <2>1, <3>1
  <2>2. CASE b # cur
    <3>1. b \in DOMAIN order
      BY <1>7, <2>2
    <3>2. a \in DOMAIN order /\ order[b] < order[a]
      BY <1>19, <3>1 DEF Sorted, Numbered
    <3> QED
      BY <1>7, <3>1, <3>2
  <2> QED
    BY <2>1, <2>2
<1>20. Cardinality(DOMAIN order') = NumNonterms - 1 - nextOrdinal' /\ nextOrdinal' \in Int
  BY <1>2, <1>13, <1>15 DEF Sorted, Numbered
<1>21. Numbered'
  BY <1>6, <1>16, <1>19, <1>20 DEF Numbered
<1> QED
  BY <1>12, <1>21 DEF Sorted

LEMMA SortedNext == Fixpoint /\ Sorted /\ [Next]_vars => Sorted'
<1> SUFFICES ASSUME Fixpoint, Sorted, [Next]_vars PROVE Sorted'
  OBVIOUS
<1>1. CASE Propagate
  BY <1>1, PropagateKeepsSorted
<1>2. CASE SortFrom
  <2>1. PICK n \in Nonterm \ seen : seen' = seen \cup {n} /\ calls' = <<n>> \o calls
    BY <1>2 DEF SortFrom, CallFirst
  <2>2. /\ pc = "sort" /\ calls = << >>
        /\ UNCHANGED <<pc, grammar, fixpointVars, order, nextOrdinal>>
    BY <1>2 DEF SortFrom
  <2> QED
    BY <2>1, <2>2, CallKeepsSorted
<1>3. CASE SortDeriver
  <2>1. PICK n \in Derivers(Head(calls)) \ seen : seen' = seen \cup {n} /\ calls' = <<n>> \o calls
    BY <1>3 DEF SortDeriver, CallFirst
  <2>2. n \in Nonterm \ seen /\ CanDerive(n, Head(calls))
    BY DEF Derivers
  <2>3. /\ pc = "sort"
        /\ UNCHANGED <<pc, grammar, fixpointVars, order, nextOrdinal>>
    BY <1>3 DEF SortDeriver
  <2> QED
    BY <2>1, <2>2, <2>3, CallKeepsSorted
<1>4. CASE PutInOrder
  BY <1>4, PutKeepsSorted
<1>5. CASE SortDone
  <2>1. /\ pc = "sort" /\ pc' = "done" /\ calls = << >> /\ seen = Nonterm
        /\ UNCHANGED <<derivable, seen, calls, order, nextOrdinal>>
    BY <1>5 DEF SortDone, fixpointVars, sortVars
  <2>2. \A a, b : CanDerive(a, b)' <=> CanDerive(a, b)
    BY <2>1 DEF CanDerive
  <2>3. DOMAIN order = Nonterm
    <3>1. DOMAIN calls = {}
      BY <2>1
    <3> QED
      BY <2>1, <3>1 DEF Sorted, OnPath
  <2>4. OnPath'
    BY <2>1, <2>2, <2>3 DEF Sorted, OnPath
  <2>5. Numbered'
    BY <2>1, <2>2 DEF Sorted, Numbered
  <2> QED
    BY <2>4, <2>5 DEF Sorted
<1>6. CASE UNCHANGED vars
  <2>1. UNCHANGED <<pc, derivable, seen, calls, order, nextOrdinal>>
    BY <1>6 DEF vars, fixpointVars, sortVars
  <2>2. \A a, b : CanDerive(a, b)' <=> CanDerive(a, b)
    BY <2>1 DEF CanDerive
  <2> QED
    BY <2>1, <2>2 DEF Sorted, OnPath, Numbered
<1> QED
  BY <1>1, <1>2, <1>3, <1>4, <1>5, <1>6 DEF Next, TopologicalSort

LEMMA SortedIsInOrder == Sorted => OrderFollowsDerivable
<1> SUFFICES ASSUME Sorted, pc = "done"
             PROVE  /\ DOMAIN order = Nonterm
                    /\ {order[n] : n \in Nonterm} = Nonterm
                    /\ \A a, b \in Nonterm :
                         CanDerive(a, b) /\ ~ CanDerive(b, a) => order[b] < order[a]
  BY DEF OrderFollowsDerivable
<1>1. DOMAIN order = Nonterm
  BY DEF Sorted, OnPath
<1>2. Cardinality(Nonterm) = NumNonterms
  <2>1. NumNonterms \in Nat \ {0}
    BY GrammarsAssumption
  <2>2. 0 <= NumNonterms - 1 /\ (NumNonterms - 1) - 0 + 1 = NumNonterms /\ NumNonterms - 1 \in Int
    BY <2>1
  <2> QED
    BY <2>2, FS_Interval DEF Nonterm
<1>3. nextOrdinal = -1
  <2>1. NumNonterms = NumNonterms - 1 - nextOrdinal /\ nextOrdinal \in Int /\ NumNonterms \in Int
    BY <1>1, <1>2, GrammarsAssumption DEF Sorted, Numbered
  <2> QED
    BY <2>1
<1>4. {order[n] : n \in Nonterm} = Nonterm
  <2>1. nextOrdinal + 1 = 0
    BY <1>3
  <2> QED
    BY <1>1, <2>1 DEF Sorted, Numbered, Nonterm
<1> QED
  BY <1>1, <1>4 DEF Sorted, Numbered

(* The nonterminals are ordered totally, with one that derives another     *)
(* after it unless they derive each other, for every grammar, the cyclic   *)
(* ones included (topologicalSort in gramanl.cc).              *)
THEOREM OrderAlwaysFollowsDerivable == Spec => []OrderFollowsDerivable
BY FixpointAlways, SortedInit, SortedNext, SortedIsInOrder, PTL DEF Spec
=============================================================================
