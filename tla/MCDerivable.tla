---------------------------- MODULE MCDerivable ----------------------------
(***************************************************************************)
(* An instance of Derivable: grammars of a start symbol 1 and nonterminals *)
(* 2, 3 and 4, each with one or two alternatives.  As in initializeAuxData *)
(* the productions are grouped by their left-hand sides, that of the start *)
(* symbol is first, and every nonterminal can be reached.                  *)
(***************************************************************************)
EXTENDS Derivable, SequencesExt

Alternatives ==
  << {<<2, Terminal>>},
     {<<3, 4>>, <<3, 3>>, <<4>>, <<Terminal, 3>>},
     {<< >>, <<Terminal>>, <<4>>, <<4, 2>>},
     {<< >>, <<Terminal>>, <<3>>, <<2, 3>>} >>

OneOrTwo(S) ==
  {<<x>> : x \in S} \cup {p \in S \X S : p[1] # p[2]}

ProductionsOf(left, rights) ==
  [i \in DOMAIN rights |-> [left |-> left, right |-> rights[i]]]

ReachableFrom(choice) ==
  LET uses(S) == S \cup {x \in 2..4 : \E n \in S, i \in 1..2 :
                           i \in DOMAIN choice[n] /\ \E k \in 1..2 :
                             k \in DOMAIN choice[n][i] /\ choice[n][i][k] = x}
  IN  uses(uses(uses({1})))

Chosen == {<< <<a>>, b, c, d >> : a \in Alternatives[1],
             b \in OneOrTwo(Alternatives[2]), c \in OneOrTwo(Alternatives[3]),
             d \in OneOrTwo(Alternatives[4])}

\* A -> A | A B | x, B -> C, C -> | x: A derives itself, but only directly.
Directly ==
  << <<<<2, Terminal>>>>, <<<<2>>, <<2, 3>>, <<Terminal>>>>, <<<<4>>>>,
     <<<< >>, <<Terminal>>>> >>

MCGrammars ==
  {FlattenSeq([n \in 1..4 |-> ProductionsOf(n, choice[n])]) :
     choice \in {c \in Chosen : ReachableFrom(c) = 1..4} \cup {Directly}}

\* S -> A A, A -> x | : an empty production, and no unit production.
OptionalPair ==
  {<<[left |-> 1, right |-> <<2, Terminal>>], [left |-> 2, right |-> <<3, 3>>],
     [left |-> 3, right |-> <<Terminal>>], [left |-> 3, right |-> << >>]>>}
=============================================================================
