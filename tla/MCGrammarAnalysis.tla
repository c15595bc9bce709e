-------------------------- MODULE MCGrammarAnalysis --------------------------
(***************************************************************************)
(* Instances of GrammarAnalysis: the sample grammars that the parser is    *)
(* checked with, and small grammars for what these do not have.            *)
(***************************************************************************)
EXTENDS GrammarProperties, SampleGrammars

None == [prec |-> 0, assoc |-> "LEFT"]

(* A grammar without declarations.                                         *)
Declared(terms, nonterms, prods) ==
  [terms |-> terms, nonterms |-> nonterms, prods |-> prods,
   tokens |-> SubSeq(<<None, None, None, None, None, None, None>>, 1, terms),
   maximal |-> {}, subsets |-> {}]

Sample(g) == Declared(g.terms, g.nonterms, g.prods)

Start == P(0, <<N(1), t(0)>>)
Binary(prec, op) ==
  [lhs |-> 1, rhs |-> <<N(1), t(op), N(1)>>, prec |-> prec, forbid |-> {}]
Token0(prec, assoc) == [prec |-> prec, assoc |-> assoc]

\* Sums of x, here 2, with a terminal 1 and a nonterminal 2 that nothing
\* uses.  A sum may not be followed by + (here 3), nor by what is dropped,
\* nor by the end of the file, which is forgotten.
junk ==
  [Declared(4, 3, <<Start, P(1, <<N(1), t(3), N(1)>>),
                    P(1, <<t(2)>>), P(2, <<t(1), N(1)>>)>>)
     EXCEPT !.prods[2].forbid = {0, 1, 3}]

\* Operators of each associativity: = 2, + 3, ^ 4.
arith ==
  [Declared(5, 2, <<Start, P(1, <<t(1)>>)>>) EXCEPT
     !.prods = @ \o <<Binary(1, 2), Binary(2, 3), Binary(3, 4)>>,
     !.tokens = <<None, None, Token0(1, "NONASSOC"), Token0(2, "LEFT"),
                  Token0(3, "RIGHT")>>]

\* An operator that is declared unambiguous and one that splits the parse.
splits ==
  [Declared(4, 2, <<Start, P(1, <<t(1)>>)>>) EXCEPT
     !.prods = @ \o <<Binary(1, 2), Binary(2, 3)>>,
     !.tokens = <<None, None, Token0(1, "NEVERASSOC"), Token0(2, "SPLIT")>>]

\* S -> A x | B x | C x | x | A y | B y, with A, B and C empty.  Before x, here
\* 1 and not associative, the precedence of A is lower than that of x, that of
\* B is higher, and C has the same.  In the grammar 'rivals' B has the same as
\* well: either of B and C takes the shift away, and itself with it, before it
\* is the turn of the other.
Empty(lhs, prec) == [lhs |-> lhs, rhs |-> << >>, prec |-> prec, forbid |-> {}]
ranked ==
  [Declared(3, 5, <<Start>> \o
     [i \in 1..6 |-> P(1, <<<<N(2), t(1)>>, <<N(3), t(1)>>, <<N(4), t(1)>>, <<t(1)>>,
                           <<N(2), t(2)>>, <<N(3), t(2)>>>>[i])]
       \o <<Empty(2, 1), Empty(3, 3), Empty(4, 2)>>)
     EXCEPT !.tokens[2] = Token0(2, "NONASSOC")]
rivals == [ranked EXCEPT !.prods[9].prec = 2]

\* A list of words, each a string of letters 1; a word of one letter may be
\* a keyword, which is a subset of the words.  A word is maximal.
words ==
  [Declared(2, 4, <<Start, P(1, <<N(1), N(2)>>), P(1, <<N(2)>>),
                    P(1, <<N(3)>>), P(2, <<t(1), N(2)>>),
                    P(2, <<t(1)>>), P(3, <<t(1)>>)>>)
     EXCEPT !.maximal = {2}, !.subsets = {<<2, 3>>}]

\* S -> a A d | b B d | a B e | b A e, A -> c, B -> c: LR(1) but not LALR(1).
merged ==
  Declared(6, 4, <<Start, P(1, <<t(1), N(2), t(4)>>),
    P(1, <<t(2), N(3), t(4)>>), P(1, <<t(1), N(3), t(5)>>),
    P(1, <<t(2), N(2), t(5)>>), P(2, <<t(3)>>), P(3, <<t(3)>>)>>)

\* S -> L = R | R, L -> * R | x, R -> L.
assigns ==
  Declared(4, 4, <<Start, P(1, <<N(2), t(2), N(3)>>), P(1, <<N(3)>>),
    P(2, <<t(3), N(3)>>), P(2, <<t(1)>>), P(3, <<N(2)>>)>>)

\* S -> a S b | a T, T -> t: a state that adds to its own lookahead.  Nothing
\* is dropped, and T may not be followed by the end of the file.
nest ==
  [Declared(4, 3, <<Start, P(1, <<t(1), N(1), t(2)>>),
                    P(1, <<t(1), N(2)>>), P(2, <<t(3)>>)>>)
     EXCEPT !.prods[4].forbid = {0}]

\* S -> B end, B -> M T M, M -> empty | m, T -> x.
optional ==
  Declared(4, 5, <<Start, P(1, <<N(2), t(2)>>), P(2, <<N(3), N(4), N(3)>>),
    P(3, << >>), P(3, <<t(3)>>), P(4, <<t(1)>>)>>)

\* M -> a x | b x | c x | d x | e x: x leads to more states than a code of
\* this instance can tell apart.
wide ==
  Declared(7, 2, <<Start, P(1, <<t(2), t(1)>>), P(1, <<t(3), t(1)>>),
    P(1, <<t(4), t(1)>>), P(1, <<t(5), t(1)>>), P(1, <<t(6), t(1)>>)>>)

\* S -> D A, D -> x, A -> M M, M -> empty | m: no nonterminal is found to
\* derive another before it is known that A can vanish.
vanishing ==
  Declared(3, 5, <<Start, P(1, <<N(2), N(3)>>), P(2, <<t(1)>>),
    P(3, <<N(4), N(4)>>), P(4, << >>), P(4, <<t(2)>>)>>)

MCInputs == {Sample(sums), Sample(forks), Sample(cycles), junk, arith,
             splits, ranked, rivals, words, merged, assigns, nest, optional, wide,
             vanishing}

forwards == [i \in 1..20 |-> i]
backwards == [i \in 1..20 |-> - i]
shuffled == [i \in 1..20 |-> (7 * i) % 23]
MCHashOrders == {forwards, backwards, shuffled}

Build(merging, crs, allowAmbig) ==
  [eef |-> merging > 0, gcs |-> merging > 1, gcsc |-> merging > 2,
   crs |-> crs, allowAmbig |-> allowAmbig]

MCBuilds == {Build(3, TRUE, TRUE), Build(2, FALSE, TRUE), Build(0, TRUE, TRUE),
             Build(3, FALSE, FALSE)}

\* Each build with one of the orders.
MCInit ==
  /\ Init
  /\ <<hashOrder, build>> \in
       {<<forwards, Build(3, TRUE, TRUE)>>, <<shuffled, Build(2, FALSE, TRUE)>>,
        <<backwards, Build(0, TRUE, TRUE)>>, <<shuffled, Build(3, FALSE, FALSE)>>}

MCSpec == MCInit /\ [][Next]_vars

-----------------------------------------------------------------------------
(* The tables that the parser is checked with are the ones the analysis    *)
(* makes of their grammars, up to the numbers of the states, and so is the *)
(* order of the nonterminals.                                              *)
Recorded == {sums, forks, cycles}
Corresponding(g) ==
  LET all == {<<a, b>> \in StateIds \X (0..(Len(g.action) - 1)) : TRUE}
      target(b, x) ==
        IF IsTerminal(x) THEN g.action[b + 1][x].shift
        ELSE LET to == {e \in g.goto : e[1] = b /\ e[2] = NtIndex(x)} IN
               IF to = {} THEN NoState ELSE (CHOOSE e \in to : TRUE)[3]
      moves == UNION {{<<pair, <<sets[pair[1]].trans[x], target(pair[2], x)>>>> :
                         x \in DOMAIN sets[pair[1]].trans} : pair \in all}
  IN  Reach(moves, {<<0, 0>>})

TablesAsRecorded ==
  \A g \in Recorded :
    (phase = "done" /\ build.allowAmbig /\ input = Sample(g)) =>
      LET pairs == Corresponding(g) IN
        /\ {p[1] : p \in pairs} = StateIds
        /\ Cardinality(pairs) = Cardinality(StateIds)
        /\ {p[2] : p \in pairs} = 0..(Len(g.action) - 1)
        /\ \A p \in pairs, a \in Terms :
             LET cell == Decoded(GetActionEntry(p[1], a), p[1], a)
                 old == g.action[p[2] + 1][a + 1]
             IN  /\ ToSymbolSet(cell.reds) = {r + 1 : r \in ToSymbolSet(old.reds)}
                 /\ cell.shift = NoState <=> old.shift = NoState
                 /\ cell.shift # NoState => <<cell.shift, old.shift>> \in pairs
        /\ \A m, n \in Nonterms :
             order[m + 1] - order[n + 1] = g.order[m + 1] - g.order[n + 1]
=============================================================================
