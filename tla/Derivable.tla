----------------------------- MODULE Derivable -----------------------------
(***************************************************************************)
(* Which nonterminals derive which, and the total order of nonterminals    *)
(* that follows from it (GrammarAnalysis in elkhound/gramanl.cc).          *)
(*                                                                         *)
(* computeWhatCanDeriveWhat sets bits of a matrix until an iteration over  *)
(* the productions and the edges sets none.  topologicalSort then numbers  *)
(* the nonterminals for the reduction worklist.  A step considers one      *)
(* production, one edge, or one nonterminal of the depth-first search.     *)
(***************************************************************************)
EXTENDS Integers, Sequences

CONSTANTS
  NumNonterms,        \* with the empty string, which is nonterminal 0
  Grammars            \* each the sequence of its productions

Nonterm == 0..(NumNonterms - 1)
EmptyString == 0
Terminal == -1        \* the analysis does not tell terminals apart

Production == [left : Nonterm \ {EmptyString},
               right : Seq((Nonterm \ {EmptyString}) \cup {Terminal})]

ASSUME GrammarsAssumption ==
  /\ NumNonterms \in Nat \ {0}
  /\ Grammars \subseteq Seq(Production)

VARIABLES
  pc,                 \* "productions", "closure", "sort" or "done"
  grammar,
  derivable,          \* the pairs whose bit is set
  cyclic,             \* the nonterminals found to derive themselves
  changes,            \* whether this iteration has set a bit that counts
  nextProd,
  nextEdge,           \* u and v of the two outer loops of the closure
  seen, calls,        \* topologicalSort: its set and its call stack
  order,              \* the ordinals given so far
  nextOrdinal

fixpointVars == <<derivable, cyclic, changes, nextProd, nextEdge>>
sortVars == <<seen, calls, order, nextOrdinal>>
vars == <<pc, grammar, fixpointVars, sortVars>>

CanDerive(left, right) == <<left, right>> \in derivable
CanDeriveEmpty(symbol) == symbol # Terminal /\ CanDerive(symbol, EmptyString)

-----------------------------------------------------------------------------
(* initDerivableRelation sets the diagonal.                                *)
Init ==
  /\ pc = "productions"
  /\ grammar \in Grammars
  /\ derivable = {<<n, n>> : n \in Nonterm}
  /\ cyclic = {}
  /\ changes = FALSE
  /\ nextProd = 1
  /\ nextEdge = <<1, 0>>
  /\ seen = {} /\ calls = << >>
  /\ order = << >>
  /\ nextOrdinal = NumNonterms - 1

(* addDerivable for the pairs {left} \X rights, one of which may be a      *)
(* nonterminal with itself.                                                *)
AddDerivable(left, rights) ==
  /\ derivable' = derivable \cup ({left} \X rights)
  /\ cyclic' = IF left \in rights THEN cyclic \cup {left} ELSE cyclic

\* Variant of LeftAlone: what follows the symbol is not looked at.
LeftAlone_AnyRest(right) ==
  {right[i] : i \in {k \in DOMAIN right : right[k] # Terminal /\
     \A j \in 1..(k - 1) : CanDeriveEmpty(right[j])}}

(* The symbols of a right-hand side that are left when all the others      *)
(* derive the empty string.                                                *)
LeftAlone(right) ==
  {right[i] : i \in {k \in DOMAIN right : right[k] # Terminal /\
     \A j \in DOMAIN right \ {k} : CanDeriveEmpty(right[j])}}

\* Variant of EmptyCounts: each empty production counts as a change.
EmptyCounts_Always == TRUE

(* Whether an empty production counts as a change: no, even when it is one.*)
EmptyCounts == changes

Considering == pc = "productions" /\ nextProd <= Len(grammar)
Left == grammar[nextProd].left
Right == grammar[nextProd].right

ConsiderEmpty ==
  /\ Considering /\ Right = << >>
  /\ AddDerivable(Left, {EmptyString})
  /\ changes' = EmptyCounts
  /\ nextProd' = nextProd + 1
  /\ UNCHANGED <<pc, grammar, nextEdge, sortVars>>

(* What is known already is not added again, so that a production that     *)
(* derives its own left-hand side is not seen as a cycle.                  *)
ConsiderProduction ==
  /\ Considering /\ Right # << >>
  /\ LET new == {n \in LeftAlone(Right) : ~ CanDerive(Left, n)} IN
       /\ AddDerivable(Left, new)
       /\ changes' = (changes \/ new # {})
  /\ nextProd' = nextProd + 1
  /\ UNCHANGED <<pc, grammar, nextEdge, sortVars>>

ProductionsDone ==
  /\ pc = "productions" /\ nextProd > Len(grammar)
  /\ pc' = "closure"
  /\ nextEdge' = <<1, 0>>
  /\ UNCHANGED <<grammar, derivable, cyclic, changes, nextProd, sortVars>>

-----------------------------------------------------------------------------
(* One step of the closure for an edge (u, v): every w that v derives.     *)
(* Edges from a node to itself are passed over.                            *)
\* Variants of IsEdge: they are not, and so are the edges to the empty
\* string.
IsEdge_WithSelf(u, v) == CanDerive(u, v)
IsEdge_NoEmpty(u, v) == u # v /\ v # EmptyString /\ CanDerive(u, v)

IsEdge(u, v) == u # v /\ CanDerive(u, v)

EdgesFrom(u) == {v \in Nonterm : IsEdge(u, v)}

(* The edges that the loops over u and v have yet to come to.              *)
EdgesLeft ==
  {e \in derivable :
     /\ IsEdge(e[1], e[2]) /\ e[1] # EmptyString
     /\ e[1] > nextEdge[1] \/ (e[1] = nextEdge[1] /\ e[2] >= nextEdge[2])}

ClosureStep ==
  /\ pc = "closure"
  /\ LET edges == EdgesLeft IN
       \E e \in edges :
         /\ \A d \in edges : e[1] < d[1] \/ (e[1] = d[1] /\ e[2] <= d[2])
         /\ AddDerivable(e[1], EdgesFrom(e[2]))
         /\ changes' = (changes \/
                          \E w \in EdgesFrom(e[2]) : ~ CanDerive(e[1], w))
         /\ nextEdge' = <<e[1], e[2] + 1>>
  /\ UNCHANGED <<pc, grammar, nextProd, sortVars>>

(* Iterate until no changes.                                               *)
ClosureDone ==
  /\ pc = "closure" /\ EdgesLeft = {}
  /\ pc' = IF changes THEN "productions" ELSE "sort"
  /\ changes' = FALSE
  /\ nextProd' = 1
  /\ UNCHANGED <<grammar, derivable, cyclic, nextEdge, sortVars>>

-----------------------------------------------------------------------------
(* topologicalSort: the nonterminals that derive 'current' are expanded    *)
(* first, so that they come later in the order.  The loops go on from where*)
(* they were; what they have passed is in 'seen'.                          *)
\* Variant of Derivers: the edges are followed the other way.
Derivers_Backwards(current) == {n \in Nonterm : CanDerive(current, n)}

Derivers(current) == {n \in Nonterm : CanDerive(n, current)}

(* The recursive call for the first of the nonterminals 'next'.            *)
CallFirst(next) ==
  \E n \in next :
    /\ \A m \in next : n <= m
    /\ seen' = seen \cup {n}
    /\ calls' = <<n>> \o calls

SortFrom ==
  /\ pc = "sort" /\ calls = << >>
  /\ CallFirst(Nonterm \ seen)
  /\ UNCHANGED <<pc, grammar, fixpointVars, order, nextOrdinal>>

SortDeriver ==
  /\ pc = "sort" /\ calls # << >>
  /\ CallFirst(Derivers(Head(calls)) \ seen)
  /\ UNCHANGED <<pc, grammar, fixpointVars, order, nextOrdinal>>

PutInOrder ==
  /\ pc = "sort" /\ calls # << >> /\ Derivers(Head(calls)) \subseteq seen
  /\ order' = [n \in DOMAIN order \cup {Head(calls)} |->
                 IF n = Head(calls) THEN nextOrdinal ELSE order[n]]
  /\ nextOrdinal' = nextOrdinal - 1
  /\ calls' = Tail(calls)
  /\ UNCHANGED <<pc, grammar, fixpointVars, seen>>

SortDone ==
  /\ pc = "sort" /\ calls = << >> /\ seen = Nonterm
  /\ pc' = "done"
  /\ UNCHANGED <<grammar, fixpointVars, sortVars>>

-----------------------------------------------------------------------------
Propagate == \/ ConsiderEmpty \/ ConsiderProduction \/ ProductionsDone
             \/ ClosureStep \/ ClosureDone

TopologicalSort == SortFrom \/ SortDeriver \/ PutInOrder \/ SortDone

Next == Propagate \/ TopologicalSort

Spec == Init /\ [][Next]_vars

(* The analysis is one sequential computation.                             *)
FairSpec == Spec /\ WF_vars(Next)

-----------------------------------------------------------------------------
(* Every variable holds a value of its type.                               *)
TypeOK ==
  /\ pc \in {"productions", "closure", "sort", "done"}
  /\ grammar \in Grammars
  /\ derivable \subseteq Nonterm \X Nonterm
  /\ cyclic \subseteq Nonterm
  /\ changes \in BOOLEAN
  /\ nextProd \in Nat \ {0}
  /\ nextEdge \in Nat \X Nat
  /\ seen \subseteq Nonterm /\ calls \in Seq(Nonterm)
  /\ nextOrdinal \in Int

(* The reference.  A set of symbols is nullable in g if every set that is  *)
(* closed under the productions has it; from n the symbols are derivable   *)
(* that are in every set that has n and is closed under one derivation     *)
(* step that leaves one symbol.                                            *)
ClosedNullable(g, S) ==
  \A i \in DOMAIN g :
    (\A j \in DOMAIN g[i].right : g[i].right[j] \in S) => g[i].left \in S

Nullable(g) ==
  LET closed == {S \in SUBSET Nonterm : ClosedNullable(g, S)} IN
    {n \in Nonterm : \A S \in closed : n \in S}

(* What a right-hand side leaves when all the rest of it is nullable.      *)
LeavesAlone(right, nullable) ==
  {right[i] : i \in {k \in DOMAIN right : right[k] # Terminal /\
     \A j \in DOMAIN right \ {k} : right[j] \in nullable}}

DerivationSteps(g) ==
  LET nullable == Nullable(g) IN
    (nullable \X {EmptyString}) \cup
    UNION {{g[i].left} \X LeavesAlone(g[i].right, nullable) : i \in DOMAIN g}

ClosedUnder(S, steps) == \A e \in steps : e[1] \in S => e[2] \in S

Derives(g) ==
  LET steps == DerivationSteps(g)
      closed == {S \in SUBSET Nonterm : ClosedUnder(S, steps)}
  IN  {p \in Nonterm \X Nonterm : \A S \in closed : p[1] \in S => p[2] \in S}

DerivesIn == [g \in Grammars |-> Derives(g)]

(* Nothing is found that the grammar does not derive: a bit is set only    *)
(* for a derivation.                                                       *)
DerivableSound == derivable \subseteq DerivesIn[grammar]

\* A derivation between two different nonterminals is found.
SomeEdge == \E p \in derivable : p[1] # p[2] /\ p[2] # EmptyString

(* Once everything has settled every derivation is found, if one between   *)
(* two different nonterminals is: then an iteration has started with all   *)
(* the empty productions known.                                            *)
SettledComplete ==
  (pc = "done" /\ SomeEdge) => DerivesIn[grammar] \subseteq derivable

(* The nonterminals that derive themselves by way of another one.          *)
CyclicIn ==
  [g \in Grammars |->
     {n \in Nonterm : \E m \in Nonterm \ {n} :
                         {<<n, m>>, <<m, n>>} \subseteq DerivesIn[g]}]

(* At no time is a nonterminal reported as cyclic that is not, and in the  *)
(* end each that derives itself by way of another is, whatever the way and *)
(* whichever edge closed it: with the one exception of SettledComplete,    *)
(* that the propagation has ended too early.  This is less than the comment*)
(* in addDerivable promises, N ->+ N in 1 or more steps: a nonterminal that*)
(* derives itself only directly, as by A -> A, is not reported.            *)
CyclesFound ==
  /\ cyclic \subseteq CyclicIn[grammar]
  /\ (pc = "done" /\ SomeEdge) => CyclicIn[grammar] \subseteq cyclic

(* The order is a total order of all nonterminals, and one that derives    *)
(* another comes after it, unless they derive each other: whatever the     *)
(* order of the search and the cycles elsewhere.                           *)
OrderFollowsDerivable ==
  pc = "done" =>
    /\ DOMAIN order = Nonterm
    /\ {order[n] : n \in Nonterm} = Nonterm
    /\ \A a, b \in Nonterm :
         CanDerive(a, b) /\ ~ CanDerive(b, a) => order[b] < order[a]

(* The requirement of the worklist (parsetables.h, at nontermOrder): if A  *)
(* derives B then B is earlier in the order, assuming acyclicity.          *)
OrderRequirement ==
  pc = "done" =>
    \A a, b \in Nonterm :
      <<a, b>> \in DerivesIn[grammar] /\ <<b, a>> \notin DerivesIn[grammar]
        => order[b] < order[a]

(* The propagation settles and the search ends.                            *)
AnalysisEnds == <>(pc = "done")
=============================================================================
