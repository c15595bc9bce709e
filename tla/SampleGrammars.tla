--------------------------- MODULE SampleGrammars ---------------------------
(***************************************************************************)
(* Small grammars with the parse tables that GrammarAnalysis computes for  *)
(* them: the LALR(1) tables in which every conflict is kept, and the order *)
(* of the nonterminals.  Nonterminal 0 is Start and 1 the top symbol, and  *)
(* production 0 is Start -> top EOF; terminal 0 is EOF.  Symbols have the  *)
(* ids of parsetables.h: t + 1 for terminal t, -n - 1 for nonterminal n.   *)
(*                                                                         *)
(* 'action' has a row per state, with a cell per terminal; 'goto' lists    *)
(* <<state, nonterminal, target>>; 'order' is a nonterminal's ordinal.     *)
(***************************************************************************)
EXTENDS Integers, Sequences

t(n) == n + 1
N(n) == - n - 1

\* A production without a precedence or forbidden tokens.
P(lhs, rhs) == [lhs |-> lhs, rhs |-> rhs, prec |-> 0, forbid |-> {}]

\* The cells of an action table: error, shift, reduce, and a choice.
SR(shift, reds) == [shift |-> shift, reds |-> reds]
Err == SR(-1, << >>)
S(state) == SR(state, << >>)
R(prod) == SR(-1, <<prod>>)

\* E -> E + E | x, with x = 1 and + = 2: every longer sum is ambiguous.
sums ==
  [terms |-> 3, nonterms |-> 2,
   prods |-> <<P(0, <<N(1), t(0)>>), P(1, <<N(1), t(2), N(1)>>),
               P(1, <<t(1)>>)>>,
   action |-> <<<<Err, S(1), Err>>,
               <<R(2), Err, R(2)>>,
               <<S(3), Err, S(4)>>,
               <<Err, Err, Err>>,
               <<Err, S(1), Err>>,
               <<R(1), Err, SR(4, <<1>>)>>>>,
   goto |-> {<<0, 1, 2>>, <<4, 1, 5>>},
   order |-> <<1, 0>>]

\* M -> E | l L | t K, with l = 3 and t = 4. E is a sum. L -> S L | S, S ->
\* A | B | x, B -> A | x, A -> x: each x is an S in four ways that differ
\* only in their nonterminals. K -> K K C | x, C -> + | : an ambiguous K
\* before a C that may be empty.
forks ==
  [terms |-> 5, nonterms |-> 9,
   prods |-> <<P(0, <<N(1), t(0)>>), P(1, <<N(2)>>), P(1, <<t(3), N(3)>>),
               P(1, <<t(4), N(7)>>), P(2, <<N(2), t(2), N(2)>>),
               P(2, <<t(1)>>), P(3, <<N(4), N(3)>>), P(3, <<N(4)>>),
               P(4, <<N(6)>>), P(4, <<N(5)>>), P(4, <<t(1)>>), P(5, <<N(6)>>),
               P(5, <<t(1)>>), P(6, <<t(1)>>), P(7, <<N(7), N(7), N(8)>>),
               P(7, <<t(1)>>), P(8, <<t(2)>>), P(8, << >>)>>,
   action |-> <<<<Err, S(1), Err, S(2), S(3)>>,
               <<R(5), Err, R(5), Err, Err>>,
               <<Err, S(6), Err, Err, Err>>,
               <<Err, S(11), Err, Err, Err>>,
               <<S(13), Err, Err, Err, Err>>,
               <<R(1), Err, S(14), Err, Err>>,
               <<SR(-1, <<10, 12, 13>>), SR(-1, <<10, 12, 13>>),
                 Err, Err, Err>>,
               <<R(2), Err, Err, Err, Err>>,
               <<R(7), S(6), Err, Err, Err>>,
               <<R(9), R(9), Err, Err, Err>>,
               <<SR(-1, <<8, 11>>), SR(-1, <<8, 11>>), Err, Err, Err>>,
               <<R(15), R(15), R(15), Err, Err>>,
               <<R(3), S(11), Err, Err, Err>>,
               <<Err, Err, Err, Err, Err>>,
               <<Err, S(1), Err, Err, Err>>,
               <<R(6), Err, Err, Err, Err>>,
               <<R(17), SR(11, <<17>>), SR(18, <<17>>), Err, Err>>,
               <<R(4), Err, SR(14, <<4>>), Err, Err>>,
               <<R(16), R(16), R(16), Err, Err>>,
               <<R(14), R(14), R(14), Err, Err>>>>,
   goto |-> {<<0, 1, 4>>, <<0, 2, 5>>, <<2, 3, 7>>, <<2, 4, 8>>, <<2, 5, 9>>,
             <<2, 6, 10>>, <<3, 7, 12>>, <<8, 3, 15>>, <<8, 4, 8>>,
             <<8, 5, 9>>, <<8, 6, 10>>, <<12, 7, 16>>, <<14, 2, 17>>,
             <<16, 7, 16>>, <<16, 8, 19>>},
   order |-> <<7, 6, 5, 4, 3, 2, 1, 0, 9>>]

\* M -> E | h H | h H c | y Y, with c = 3, h = 4 and y = 5. E is a sum. H ->
\* A H + | x, A -> : hidden left recursion. Y -> Y Y | x | : a cyclic
\* nonterminal.
cycles ==
  [terms |-> 6, nonterms |-> 6,
   prods |-> <<P(0, <<N(1), t(0)>>), P(1, <<N(2)>>), P(1, <<t(4), N(3)>>),
               P(1, <<t(4), N(3), t(3)>>), P(1, <<t(5), N(5)>>),
               P(2, <<N(2), t(2), N(2)>>), P(2, <<t(1)>>),
               P(3, <<N(4), N(3), t(2)>>), P(3, <<t(1)>>), P(4, << >>),
               P(5, <<N(5), N(5)>>), P(5, <<t(1)>>), P(5, << >>)>>,
   action |-> <<<<Err, S(1), Err, Err, S(2), S(3)>>,
               <<R(6), Err, R(6), Err, Err, Err>>,
               <<Err, SR(6, <<9>>), Err, Err, Err, Err>>,
               <<R(12), SR(9, <<12>>), Err, Err, Err, Err>>,
               <<S(11), Err, Err, Err, Err, Err>>,
               <<R(1), Err, S(12), Err, Err, Err>>,
               <<R(8), Err, R(8), R(8), Err, Err>>,
               <<R(2), Err, Err, S(13), Err, Err>>,
               <<Err, SR(6, <<9>>), Err, Err, Err, Err>>,
               <<R(11), R(11), Err, Err, Err, Err>>,
               <<SR(-1, <<4, 12>>), SR(9, <<12>>), Err, Err, Err, Err>>,
               <<Err, Err, Err, Err, Err, Err>>,
               <<Err, S(1), Err, Err, Err, Err>>,
               <<R(3), Err, Err, Err, Err, Err>>,
               <<Err, Err, S(17), Err, Err, Err>>,
               <<SR(-1, <<10, 12>>), SR(9, <<10, 12>>), Err, Err, Err, Err>>,
               <<R(5), Err, SR(12, <<5>>), Err, Err, Err>>,
               <<R(7), Err, R(7), R(7), Err, Err>>>>,
   goto |-> {<<0, 1, 4>>, <<0, 2, 5>>, <<2, 3, 7>>, <<2, 4, 8>>, <<3, 5, 10>>,
             <<8, 3, 14>>, <<8, 4, 8>>, <<10, 5, 15>>, <<12, 2, 16>>,
             <<15, 5, 15>>},
   order |-> <<3, 2, 1, 0, 6, 5>>]

Grammars == [sums |-> sums, forks |-> forks, cycles |-> cycles]
=============================================================================
