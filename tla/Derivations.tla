---------------------------- MODULE Derivations ----------------------------
(***************************************************************************)
(* The reference semantics of a context-free grammar: in how many ways it  *)
(* derives a word.  Symbols are encoded as in parsetables.h: terminal t is *)
(* the id t + 1, nonterminal n the id -n - 1.                              *)
(***************************************************************************)
EXTENDS Integers, Sequences, FiniteSetsExt

CONSTANTS
  Nonterminals,
  Productions,        \* a sequence of [lhs, rhs]
  MaxHeight,          \* derivation trees up to this height are counted
  MaxCount            \* up to this number

Capped(n) == IF n > MaxCount THEN MaxCount ELSE n

SumOver(S, f(_)) == FoldSet(LAMBDA x, acc : Capped(f(x) + acc), 0, S)

(* The ways in which symbols derive word[i + 1 .. j], when trees[n][y][x]  *)
(* counts the trees of nonterminal n over word[y + 1 .. x].                *)
WaysOf(symbols, word, trees, i, j) ==
  LET part(k, y, x) ==
        IF symbols[k] > 0
        THEN IF x = y + 1 /\ word[x] = symbols[k] - 1 THEN 1 ELSE 0
        ELSE trees[- symbols[k] - 1][y][x]
      ways[k \in 0..Len(symbols), x \in i..j] ==
        IF k = 0 THEN IF x = i THEN 1 ELSE 0
        ELSE SumOver(i..x, LAMBDA y : LET p == part(k, y, x) IN
               IF p = 0 THEN 0 ELSE p * ways[k - 1, y])
  IN  ways[Len(symbols), j]

(* The trees of height at most one more than those of 'trees'.             *)
Higher(word, trees) ==
  LET span == 0..Len(word)
      count(n, i, j) ==
        SumOver({p \in DOMAIN Productions : i <= j /\ Productions[p].lhs = n},
                LAMBDA p : WaysOf(Productions[p].rhs, word, trees, i, j))
  IN  [n \in Nonterminals |-> [i \in span |-> [j \in span |-> count(n, i, j)]]]

(* TreesOf(word)[h][n][i][j]: the trees of height at most h.               *)
TreesOf(word) ==
  LET none == [n \in Nonterminals |-> [i \in 0..Len(word) |->
                 [j \in 0..Len(word) |-> 0]]]
      trees[h \in 0..MaxHeight] ==
        IF h = 0 THEN none ELSE Higher(word, trees[h - 1])
  IN  trees

DerivationCount(start, word) ==
  TreesOf(word)[MaxHeight][start][0][Len(word)]
=============================================================================
