------------------------------ MODULE MCGLR ------------------------------
(***************************************************************************)
(* Instances of GLR for TLC: a grammar of SampleGrammars with its tables,  *)
(* and as inputs every text of some shape up to a length.  A semantic value*)
(* is the number of derivation trees it stands for: a token counts 1, a    *)
(* reduction multiplies and a merge adds.                                  *)
(***************************************************************************)
EXTENDS GLRProperties, SampleGrammars, Derivations, SequencesExt

CONSTANT Grammar

G == Grammars[Grammar]

FromZero(seq) == [i \in 0..(Len(seq) - 1) |-> seq[i + 1]]

MCStateId == 0..(Len(G.action) - 1)
MCTermIndex == 0..(G.terms - 1)
MCNtIndex == 0..(G.nonterms - 1)
MCProdIndex == 0..(Len(G.prods) - 1)
MCProdInfo ==
  FromZero([i \in DOMAIN G.prods |->
              [lhsIndex |-> G.prods[i].lhs, rhsLen |-> Len(G.prods[i].rhs)]])
MCActionTable == FromZero([i \in DOMAIN G.action |-> FromZero(G.action[i])])
MCGotoTable ==
  [s \in MCStateId |-> [n \in MCNtIndex |->
     LET targets == {x \in MCStateId : <<s, n, x>> \in G.goto} IN
       IF targets = {} THEN NoState ELSE CHOOSE x \in targets : TRUE]]
MCNontermOrder == FromZero(G.order)

\* The items behind the tables, found backwards from where a production is
\* complete: the states that reduce by it or, for the final one, that are
\* reached over EOF.
MCItems ==
  LET states == DOMAIN G.action
      Targets(s) == {cell.shift + 1 : cell \in Range(G.action[s])}
                      \cup {g[3] + 1 : g \in {h \in G.goto : h[1] + 1 = s}}
      targets == [s \in states |-> Targets(s)]
      Complete(p) ==
        IF p = 1 THEN {G.action[s][1].shift + 1 : s \in states} \ {0}
        ELSE {s \in states :
                \E cell \in Range(G.action[s]) : p - 1 \in Range(cell.reds)}
      Of(p) ==
        LET len == Len(G.prods[p].rhs)
            at[d \in 0..len] ==
              IF d = len THEN Complete(p)
              ELSE LET later == at[d + 1] IN
                   {s \in states : targets[s] \cap later # {}}
        IN  UNION {{<<s - 1, <<p - 1, d>>>> : s \in at[d]} : d \in 0..len}
      all == UNION {Of(p) : p \in DOMAIN G.prods}
  IN  [s \in MCStateId |-> {i[2] : i \in {j \in all : j[1] = s}}]

\* C is the one nonterminal of forks that derives the empty string; sums has
\* none.  Both are without hidden left recursion.
MCEmpty == IF Grammar = "forks" THEN {8} ELSE {}
MCRest ==
  UNION {{<<p - 1, d>> : d \in
           {e \in 0..Len(G.prods[p].rhs) :
              \A k \in (e + 1)..Len(G.prods[p].rhs) :
                \E a \in MCEmpty : G.prods[p].rhs[k] = N(a)}} :
         p \in DOMAIN G.prods}
MCHeight ==
  [s \in MCStateId |-> IF \E g \in G.goto : g[3] = s /\ g[2] \in MCEmpty
                       THEN 0 ELSE 1]

ASSUME Grammar # "cycles" => NoEmptyLoop(MCEmpty, MCRest, MCHeight)

MCLexeme == MCTermIndex \ {0}
MCReclassify == [l \in MCLexeme |-> <<l>>]
MCToInternalType == [c \in MCTermIndex |-> c]

Words(lexemes, max) == UNION {[1..n -> lexemes] : n \in 0..max}
After(lexeme, words) == {<<lexeme>> \o w : w \in words}

\* Sums, one of them long enough for four derivations at one split; chains
\* after l; trails after t.
ForksTexts == Words({1, 2}, 5) \cup {<<1, 2, 1, 2, 1, 2, 1>>}
                \cup After(3, Words({1}, 3)) \cup After(4, Words({1, 2}, 4))

\* One more lexeme for cycles: an x and a + that touch, or a keyword that
\* is lexed as a name of its own.
ExtraLexeme == MCLexeme \cup {6}
SplitReclassify == [l \in ExtraLexeme |-> IF l = 6 THEN <<1, 2>> ELSE <<l>>]
KeywordReclassify == [l \in ExtraLexeme |-> IF l = 6 THEN <<2>> ELSE <<l>>]

\* Sums; hidden left recursion after h; the cyclic nonterminal after y.
CyclesTexts == Words({1, 2, 6}, 3) \cup After(4, Words({1, 2, 3}, 4))
                 \cup After(5, Words({1}, 3))
CancelTexts == Words({1, 2, 6}, 4) \cup After(4, Words({1, 2, 3}, 2))
SplitTexts == Words({1, 2, 6}, 2)
HiddenTexts == After(4, Words({1, 2, 3}, 2))

\* The tokens of sums when a token that no rule uses was declared first:
\* the lexer's codes are 1 for that token and 2 for x, and x is terminal 1
\* of the tables.  The texts use x alone.
DeclaredLexeme == {2}
DeclaredReclassify == [l \in DeclaredLexeme |-> <<l>>]
DeclaredToInternalType ==
  [c \in MCTermIndex |-> IF c <= 1 THEN 0 ELSE c - 1]
DeclaredTexts == Words(DeclaredLexeme, 3)

\* Values that count derivations.
MCSVal == Nat
MCTokenVal(c) == 1
MCReductionAction(p, svals) ==
  LET product[i \in 0..Len(svals)] ==
        IF i = 0 THEN 1 ELSE svals[i] * product[i - 1]
  IN  product[Len(svals)]
MCMerge(a, b) == a + b

\* Values that only say that there is a derivation.
RecognizerVal == {1}
RecognizerAction(p, svals) == 1
RecognizerMerge(a, b) == 1

Keep == {TRUE}
KeepOrCancel == {TRUE, FALSE}

MCProductions == G.prods

(* The grammar derives words of terminals, not of lexemes.                 *)
TerminalsOf(w) ==
  LET types == FlattenSeq([i \in DOMAIN w |-> Reclassify[w[i]]]) IN
    [i \in DOMAIN types |-> ToInternalType[types[i]]]
MCMeaning(w) ==
  LET count == DerivationCount(1, TerminalsOf(w)) IN
    IF count = 0 THEN << >> ELSE <<count>>
=============================================================================
