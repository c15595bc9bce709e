-------------------------- MODULE GrammarAnalysis --------------------------
(***************************************************************************)
(* runAnalyses of GrammarAnalysis (elkhound/gramanl.cc): from a grammar to *)
(* its compressed parse tables.  The derivability relation and the order   *)
(* of the nonterminals are those of Derivable, run on the same variables.  *)
(***************************************************************************)
EXTENDS ParseTables

VARIABLES
  derive,             \* where Derivable is
  cyclic, nextEdge, seen, calls, order, nextOrdinal

deriveVars == <<derive, derivable, cyclic, changes, nextProd, nextEdge,
                seen, calls, order, nextOrdinal>>
firstFollowVars == <<first, follow, nextSym>>
vars == <<phase, input, grammar, hashOrder, build, firstFollowVars, setsVars,
          tablesVars, deriveVars>>

(* The derivability relation does not tell terminals apart, and its        *)
(* nonterminal 0 is the empty string.                                      *)
Erased(g) ==
  [i \in DOMAIN g.prods |->
     [left |-> g.prods[i].lhs + 1,
      right |-> [j \in DOMAIN g.prods[i].rhs |->
                   IF IsTerminal(g.prods[i].rhs[j]) THEN -1
                   ELSE NtIndex(g.prods[i].rhs[j]) + 1]]]

MostNonterms == Max({g.nonterms : g \in Inputs})

D == INSTANCE Derivable WITH
       NumNonterms <- MostNonterms + 1,
       Grammars <- {Erased(InitializeAuxData(g)) : g \in Inputs},
       pc <- derive, grammar <- Erased(grammar)

Init ==
  /\ phase = "derive"
  /\ FirstFollowInit
  /\ ItemSetsInit
  /\ TablesInit
  /\ D!Init

Derive ==
  /\ phase = "derive" /\ derive # "sort"
  /\ UNCHANGED <<phase, input, grammar, hashOrder, build, firstFollowVars,
                 setsVars, tablesVars>>
  /\ D!Propagate

DeriveDone ==
  /\ phase = "derive" /\ derive = "sort"
  /\ phase' = "first"
  /\ UNCHANGED <<input, grammar, hashOrder, build, firstFollowVars, setsVars,
                 tablesVars, deriveVars>>

ComputeFirstFollow ==
  /\ FirstFollowNext
  /\ UNCHANGED <<hashOrder, build, setsVars, tablesVars, derive, cyclic,
                 nextEdge, seen, calls, order, nextOrdinal>>

ConstructItemSets ==
  /\ ItemSetsNext
  /\ UNCHANGED <<build, tablesVars, derive, cyclic, nextEdge, seen, calls, order,
                 nextOrdinal>>

ComputeParseTables ==
  /\ TablesNext
  /\ UNCHANGED <<derive, cyclic, nextEdge, seen, calls, order, nextOrdinal>>

Order ==
  /\ phase = "order" /\ derive # "done"
  /\ UNCHANGED <<phase, input, grammar, hashOrder, build, firstFollowVars,
                 setsVars, tablesVars>>
  /\ D!TopologicalSort

OrderDone ==
  /\ phase = "order" /\ derive = "done"
  /\ phase' = "errorBits"
  /\ UNCHANGED <<input, grammar, hashOrder, build, firstFollowVars, setsVars,
                 tablesVars, deriveVars>>

(* The tables are there, or a code did not fit in an entry.                *)
Terminated == phase \in {"done", "failed"} /\ UNCHANGED vars

Next ==
  \/ Derive \/ DeriveDone \/ ComputeFirstFollow \/ ConstructItemSets
  \/ ComputeParseTables \/ Order \/ OrderDone \/ Terminated

Spec == Init /\ [][Next]_vars
=============================================================================
