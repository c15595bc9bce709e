---------------------------- MODULE FirstFollow ----------------------------
(***************************************************************************)
(* The start of GrammarAnalysis (elkhound/gramanl.cc): the grammar without *)
(* the symbols that cannot be reached, and the First and Follow sets of    *)
(* its nonterminals.                                                       *)
(*                                                                         *)
(* Symbols have the ids of parsetables.h: t + 1 for terminal t, -n - 1 for *)
(* nonterminal n.  Nonterminal 0 is the start symbol, production 1 is the  *)
(* one of the start symbol, terminal 0 is the end of the file.  A step of  *)
(* an iteration looks at one production or at one symbol of it.            *)
(***************************************************************************)
EXTENDS Integers, Sequences, FiniteSetsExt

CONSTANT Inputs       \* grammars as they are declared; see Input

VARIABLES
  phase,              \* where runAnalyses is
  input, grammar,     \* the grammar declared and the grammar analysed
  derivable,          \* what computeWhatCanDeriveWhat has found
  first, follow,      \* for each nonterminal a set of terminals
  changes,            \* whether this iteration has changed anything
  nextProd, nextSym   \* where it is

IsTerminal(x) == x > 0
TermIndex(x) == x - 1
NtIndex(x) == - x - 1
TermId(t) == t + 1
NontermId(n) == - n - 1

Associativity == {"LEFT", "RIGHT", "NONASSOC", "NEVERASSOC", "SPLIT"}

(* A production has a precedence, 0 if there is none, and the terminals    *)
(* that are forbidden to follow; so has a terminal, with the associativity *)
(* that counts at equal precedence.  maximal and subsets are declarations  *)
(* on nonterminals, subsets as pairs <<super, sub>>: a nonterminal is in   *)
(* one superset at most, and going from one to the next comes to an end.   *)
(* The start symbol is one that the generator adds, with its one           *)
(* production.                                                             *)
Input ==
  {g \in [terms : Nat, nonterms : Nat,
          prods : Seq([lhs : Nat, rhs : Seq(Int), prec : Nat,
                       forbid : SUBSET Nat]),
          tokens : Seq([prec : Nat, assoc : Associativity]),
          maximal : SUBSET Nat, subsets : SUBSET (Nat \X Nat)] :
     /\ g.nonterms > 0 /\ g.prods # << >> /\ g.prods[1].lhs = 0
     /\ \A i \in DOMAIN g.prods :
          i > 1 => g.prods[i].lhs \in 1..(g.nonterms - 1)
                     /\ g.prods[i].lhs >= g.prods[i - 1].lhs
     /\ \A i \in DOMAIN g.prods : \A j \in DOMAIN g.prods[i].rhs :
          LET x == g.prods[i].rhs[j] IN
            IF IsTerminal(x) THEN TermIndex(x) \in 0..(g.terms - 1)
            ELSE NtIndex(x) \in 1..(g.nonterms - 1)
     /\ Len(g.tokens) = g.terms
     /\ \A e, f \in g.subsets : e[2] = f[2] => e = f
     /\ \A S \in SUBSET (0..(g.nonterms - 1)) :
          S # {} => \E n \in S : \A e \in g.subsets : e[2] = n => e[1] \notin S}

ASSUME InputsAssumption == Inputs \subseteq Input

ToSymbolSet(seq) == {seq[i] : i \in DOMAIN seq}

(* The elements of a finite set from first to last, and those of a list    *)
(* that are at the given places.                                           *)
InOrder(S, Before(_, _)) ==
  [i \in 1..Cardinality(S) |->
     CHOOSE x \in S : Cardinality({y \in S : Before(y, x)}) = i - 1]
Selected(seq, places) ==
  LET at == InOrder(places, LAMBDA i, j : i < j) IN [k \in DOMAIN at |-> seq[at[k]]]

-----------------------------------------------------------------------------
(* computeReachable and initializeAuxData: what cannot be reached is       *)
(* dropped and the rest is numbered anew, in the order it is declared.     *)
UsedBy(g, nonterms) ==
  UNION {ToSymbolSet(g.prods[i].rhs) :
           i \in {k \in DOMAIN g.prods : g.prods[k].lhs \in nonterms}}

ReachableNonterms(g) ==
  LET reach[n \in 0..g.nonterms] ==
        IF n = 0 THEN {0}
        ELSE reach[n - 1] \cup
               {NtIndex(x) : x \in {y \in UsedBy(g, reach[n - 1]) :
                                      ~ IsTerminal(y)}}
  IN  reach[g.nonterms]

ReachableTerms(g) ==
  {TermIndex(x) : x \in {y \in UsedBy(g, ReachableNonterms(g)) :
                           IsTerminal(y)}}

NewIndex(kept, old) == Cardinality({k \in kept : k < old})

\* Variant of ForbidConverted: the forbidden terminals keep their old
\* numbers.
ForbidConverted_OldNumbers(forbid, kept) == forbid

(* TerminalSet::convert.  A terminal that is number 0 afterwards is left   *)
(* out, whether it was dropped or is the end of the file.                  *)
ForbidConverted(forbid, kept) ==
  {NewIndex(kept, t) : t \in forbid \cap kept} \ {0}

InitializeAuxData(g) ==
  LET nts == ReachableNonterms(g)
      ts == ReachableTerms(g)
      same == ts = 0..(g.terms - 1) /\ nts = 0..(g.nonterms - 1)
      symbol(x) == IF IsTerminal(x) THEN TermId(NewIndex(ts, TermIndex(x)))
                   ELSE NontermId(NewIndex(nts, NtIndex(x)))
      prod(p) == [lhs |-> NewIndex(nts, p.lhs),
                  rhs |-> [i \in DOMAIN p.rhs |-> symbol(p.rhs[i])],
                  prec |-> p.prec,
                  forbid |-> IF same THEN p.forbid
                             ELSE ForbidConverted(p.forbid, ts)]
      kept == Selected(g.prods, {i \in DOMAIN g.prods : g.prods[i].lhs \in nts})
      old(i) == CHOOSE t \in ts : NewIndex(ts, t) = i - 1
  IN  [terms |-> Cardinality(ts), nonterms |-> Cardinality(nts),
       prods |-> [i \in DOMAIN kept |-> prod(kept[i])],
       tokens |-> [i \in 1..Cardinality(ts) |-> g.tokens[old(i) + 1]],
       maximal |-> {NewIndex(nts, n) : n \in g.maximal \cap nts},
       subsets |-> {<<NewIndex(nts, e[1]), NewIndex(nts, e[2])>> :
                      e \in g.subsets \cap (nts \X nts)}]

-----------------------------------------------------------------------------
Terms == 0..(grammar.terms - 1)
Nonterms == 0..(grammar.nonterms - 1)
Prods == DOMAIN grammar.prods
Lhs(p) == grammar.prods[p].lhs
Rhs(p) == grammar.prods[p].rhs

(* The relation's nonterminal 0 is the empty string.                       *)
CanDeriveEmpty(x) == ~ IsTerminal(x) /\ <<NtIndex(x) + 1, 0>> \in derivable
SeqCanDeriveEmpty(seq) == \A i \in DOMAIN seq : CanDeriveEmpty(seq[i])

FirstOfSymbol(x) == IF IsTerminal(x) THEN {TermIndex(x)} ELSE first[NtIndex(x)]

(* The symbols that come after symbols that derive the empty string.       *)
FirstOfSequence(seq) ==
  UNION {FirstOfSymbol(seq[i]) : i \in {k \in DOMAIN seq :
           \A j \in 1..(k - 1) : CanDeriveEmpty(seq[j])}}

After(p, dot) == SubSeq(Rhs(p), dot + 1, Len(Rhs(p)))

FirstFollowInit ==
  /\ input \in Inputs
  /\ grammar = InitializeAuxData(input)
  /\ first = [n \in Nonterms |-> {}]
  /\ follow = [n \in Nonterms |-> {}]
  /\ nextSym = 1

FirstOfProduction ==
  /\ phase = "first" /\ nextProd \in Prods
  /\ LET new == FirstOfSequence(Rhs(nextProd)) IN
       /\ first' = [first EXCEPT ![Lhs(nextProd)] = @ \cup new]
       /\ changes' = (changes \/ ~ new \subseteq first[Lhs(nextProd)])
  /\ nextProd' = nextProd + 1
  /\ UNCHANGED <<phase, follow, nextSym>>

FirstIterationDone ==
  /\ phase = "first" /\ nextProd \notin Prods
  /\ phase' = IF changes THEN "first" ELSE "follow"
  /\ changes' = FALSE
  /\ nextProd' = 1
  /\ UNCHANGED <<first, follow, nextSym>>

\* Variant of FollowBy: what follows the left-hand side is added only when
\* the symbol is the last one.
FollowBy_LastOnly(p, i) ==
  FirstOfSequence(After(p, i)) \cup IF After(p, i) = << >> THEN follow[Lhs(p)] ELSE {}

(* The two rules for the symbol at position i of production p.             *)
FollowBy(p, i) ==
  FirstOfSequence(After(p, i)) \cup
    IF SeqCanDeriveEmpty(After(p, i)) THEN follow[Lhs(p)] ELSE {}

FollowOfSymbol ==
  /\ phase = "follow" /\ nextProd \in Prods /\ nextSym \in DOMAIN Rhs(nextProd)
  /\ LET x == Rhs(nextProd)[nextSym] IN
       IF IsTerminal(x) THEN UNCHANGED <<follow, changes>>
       ELSE LET new == FollowBy(nextProd, nextSym) IN
              /\ follow' = [follow EXCEPT ![NtIndex(x)] = @ \cup new]
              /\ changes' = (changes \/ ~ new \subseteq follow[NtIndex(x)])
  /\ nextSym' = nextSym + 1
  /\ UNCHANGED <<phase, first, nextProd>>

FollowProductionDone ==
  /\ phase = "follow" /\ nextProd \in Prods
  /\ nextSym \notin DOMAIN Rhs(nextProd)
  /\ nextProd' = nextProd + 1
  /\ nextSym' = 1
  /\ UNCHANGED <<phase, first, follow, changes>>

FollowIterationDone ==
  /\ phase = "follow" /\ nextProd \notin Prods
  /\ phase' = IF changes THEN "follow" ELSE "sets"
  /\ changes' = FALSE
  /\ nextProd' = 1
  /\ UNCHANGED <<first, follow, nextSym>>

FirstFollowNext ==
  /\ \/ FirstOfProduction \/ FirstIterationDone
     \/ FollowOfSymbol \/ FollowProductionDone \/ FollowIterationDone
  /\ UNCHANGED <<input, grammar, derivable>>
=============================================================================
