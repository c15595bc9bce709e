------------------------- MODULE GrammarProperties -------------------------
(***************************************************************************)
(* What the analysis of a grammar must come to, against references that    *)
(* are defined by reachability: no iteration, no order, no worklist.       *)
(***************************************************************************)
EXTENDS GrammarAnalysis

(* The least set that has S and is closed under the edges.                 *)
Reach(edges, S) ==
  LET grown[T \in SUBSET (S \cup {e[2] : e \in edges})] ==
        LET U == T \cup {e[2] : e \in {f \in edges : f[1] \in T}} IN
          IF U = T THEN T ELSE grown[U]
  IN  grown[S]

Symbols(g) == {TermId(t) : t \in 0..(g.terms - 1)}
                \cup {NontermId(n) : n \in 0..(g.nonterms - 1)}
Dotted(g) == UNION {{p} \X (0..Len(g.prods[p].rhs)) : p \in DOMAIN g.prods}
BeforeSymbol(g) == {i \in Dotted(g) : i[2] < Len(g.prods[i[1]].rhs)}
NextSymbol(g, i) == g.prods[i[1]].rhs[i[2] + 1]
Rest(g, i) == SubSeq(g.prods[i[1]].rhs, i[2] + 2, Len(g.prods[i[1]].rhs))
Left(g, i) == NontermId(g.prods[i[1]].lhs)

RefNullable(g) ==
  LET grown[S \in SUBSET Symbols(g)] ==
        LET T == S \cup {Left(g, <<p>>) : p \in {q \in DOMAIN g.prods :
                                     ToSymbolSet(g.prods[q].rhs) \subseteq S}}
        IN  IF T = S THEN S ELSE grown[T]
  IN  grown[{}]

(* The positions that can be the leftmost of a string or the rightmost.    *)
FromLeft(seq, nullable) ==
  {seq[k] : k \in {j \in DOMAIN seq : \A i \in 1..(j - 1) : seq[i] \in nullable}}

(* <<x, y>> if a string derived from x can begin with y.                   *)
RefBegins(g, nullable) ==
  LET corners == UNION {{Left(g, <<p>>)} \X FromLeft(g.prods[p].rhs, nullable) :
                          p \in DOMAIN g.prods}
  IN  UNION {{x} \X Reach(corners, {x}) : x \in Symbols(g)}

\* The terminals, by number, that a string can begin with.
FirstOf(seq, nullable, begins) ==
  LET heads == {b[2] : b \in {c \in begins : c[1] \in FromLeft(seq, nullable)}} IN
    {TermIndex(y) : y \in {x \in heads : IsTerminal(x)}}

(* <<x, t>> if t can come after x: it can begin what is after x in a       *)
(* production, or come after a symbol whose derivations x can end.         *)
RefAfter(g, nullable, begins) ==
  LET ends == {<<NextSymbol(g, i), Left(g, i)>> : i \in {j \in BeforeSymbol(g) :
                 ToSymbolSet(Rest(g, j)) \subseteq nullable}}
      beside == UNION {{NextSymbol(g, i)} \X FirstOf(Rest(g, i), nullable, begins) :
                         i \in BeforeSymbol(g)}
  IN  UNION {{x} \X {b[2] : b \in {c \in beside : c[1] \in Reach(ends, {x})}} :
               x \in Symbols(g)}

(* The LR(0) automaton.  An item is <<production, dot>>; a state is found  *)
(* as its kernel and all its items.                                        *)
MovedDot(g, items, x) ==
  {<<i[1], i[2] + 1>> : i \in {j \in items \cap BeforeSymbol(g) : NextSymbol(g, j) = x}}

RefStates(g) ==
  LET added == {e \in BeforeSymbol(g) \X ((DOMAIN g.prods) \X {0}) :
                  NextSymbol(g, e[1]) = Left(g, e[2])}
      closed(kernel) == <<kernel, Reach(added, kernel)>>
      grown[S \in SUBSET ((SUBSET Dotted(g)) \X (SUBSET Dotted(g)))] ==
        LET T == S \cup UNION {{closed(MovedDot(g, s[2], x)) :
                     x \in {NextSymbol(g, i) : i \in s[2] \cap BeforeSymbol(g)}} :
                       s \in S}
        IN  IF T = S THEN S ELSE grown[T]
  IN  grown[{closed({<<1, 0>>})}]

(* Lookahead travels one terminal at a time, from an item of a state to the*)
(* items it calls for and, with the dot moved, to the next state.  -1 is   *)
(* an item without any.                                                    *)
RefLookaheads(g, nullable, begins, states) ==
  LET all == -1..(g.terms - 1)
      called(i) == {q \in DOMAIN g.prods : Left(g, <<q>>) = NextSymbol(g, i)}
      moves(s, i) ==
        {<<<<s[1], i, t>>, <<MovedDot(g, s[2], NextSymbol(g, i)), <<i[1], i[2] + 1>>, t>>>> :
           t \in all}
      begun(s, i) ==
        UNION {{<<s[1], i, t>> : t \in all} \X
                 {<<s[1], <<q, 0>>, u>> : u \in {-1} \cup
                    (FirstOf(Rest(g, i), nullable, begins) \ g.prods[q].forbid)} :
                 q \in called(i)}
      handed(s, i) ==
        IF ToSymbolSet(Rest(g, i)) \subseteq nullable
        THEN UNION {{<<<<s[1], i, t>>, <<s[1], <<q, 0>>, t>>>> :
                       t \in all \ g.prods[q].forbid} : q \in called(i)}
        ELSE {}
      edges == UNION {UNION {moves(s, i) \cup begun(s, i) \cup handed(s, i) :
                               i \in s[2] \cap BeforeSymbol(g)} : s \in states}
  IN  {n \in Reach(edges, {<<{<<1, 0>>}, <<1, 0>>, -1>>}) : n[3] # -1}

Reference(g) ==
  LET nullable == RefNullable(g)
      begins == RefBegins(g, nullable)
      states == RefStates(g)
  IN  [begins |-> begins, after |-> RefAfter(g, nullable, begins),
       states |-> states,
       lookaheads |-> RefLookaheads(g, nullable, begins, states)]

-----------------------------------------------------------------------------
(* Every variable holds a value of its type.                               *)
TypeOK ==
  /\ phase \in {"derive", "first", "follow", "sets", "number", "tables", "order",
                "errorBits", "actionColumns", "actionRows", "gotoColumns",
                "gotoRows", "done", "failed"}
  /\ first \in [Nonterms -> SUBSET Terms]
  /\ follow \in [Nonterms -> SUBSET Terms]
  /\ changes \in BOOLEAN
  /\ \A s \in StateIds : \A i \in DOMAIN AllItems(s) :
       LET item == AllItems(s)[i] IN
         /\ item.prod \in Prods /\ item.dot \in 0..Len(Rhs(item.prod))
         /\ item.la \subseteq Terms
  /\ pending \in Seq(StateIds) /\ done \subseteq StateIds
  /\ current \in StateIds \cup {NoState} /\ closing \in StateIds \cup {NoState}
  /\ sr \in Nat /\ rr \in Nat /\ errors \in Nat

(* What the relation says of the empty string is true of the grammar.  It  *)
(* may not know all that vanishes: SettledComplete of Derivable says when. *)
NullableKnown ==
  \A x \in Symbols(grammar) : CanDeriveEmpty(x) <=> x \in RefNullable(grammar)

(* First has exactly the terminals that can begin a string derived from    *)
(* the nonterminal, and Follow exactly those that can come after it: the   *)
(* iterations end no sooner, whatever cycles of nonterminals they run into.*)
FirstIsExact(ref) ==
  first = [n \in Nonterms |-> FirstOf(<<NontermId(n)>>, {}, ref.begins)]
FollowIsExact(ref) ==
  follow = [n \in Nonterms |-> {t \in Terms : <<NontermId(n), t>> \in ref.after}]

FirstFollowExact ==
  (phase = "sets" /\ sets = << >> /\ NullableKnown) =>
    LET ref == Reference(grammar) IN FirstIsExact(ref) /\ FollowIsExact(ref)

CoreSet(kernel) == ToSymbolSet(Core(kernel))

\* The moment after the states have got their numbers.
Numbered == phase = "tables" /\ state = 0 /\ term = 0

(* The states are those of the LR(0) automaton of the grammar, each once,  *)
(* with all their items and transitions: whatever the order of the work.   *)
AutomatonExact ==
  Numbered =>
    LET states == RefStates(grammar) IN
      /\ {<<CoreSet(sets[s].kernel), CoreSet(AllItems(s))>> : s \in StateIds} = states
      /\ Cardinality(StateIds) = Cardinality(states)
      /\ \A s \in StateIds :
           LET items == CoreSet(AllItems(s)) IN
             /\ Len(AllItems(s)) = Cardinality(items)
             /\ \A x \in Symbols(grammar) :
                  IF x \in DOMAIN sets[s].trans
                  THEN CoreSet(sets[sets[s].trans[x]].kernel) = MovedDot(grammar, items, x)
                  ELSE MovedDot(grammar, items, x) = {}

(* The lookahead of each item of each state is exactly what can follow its *)
(* production there, along any way into the state: none is lost when a     *)
(* state that is closed already, or is being looked at, gets more.         *)
LookaheadsExact ==
  (Numbered /\ NullableKnown) =>
    UNION {UNION {{<<CoreSet(sets[s].kernel), <<it.prod, it.dot>>, t>> : t \in it.la} :
                    it \in ToSymbolSet(AllItems(s))} : s \in StateIds}
      = Reference(grammar).lookaheads

(* Between two states of the stack, every state that is not on it has      *)
(* passed its lookahead on to the states it has transitions to.            *)
DoneHasPropagated ==
  (phase = "sets" /\ closing = NoState /\ current = NoState) =>
    \A s \in done :
      /\ s \notin ToSymbolSet(pending)
      /\ DOMAIN sets[s].trans = {SymbolAfterDot(it) :
           it \in {a \in ToSymbolSet(AllItems(s)) : ~ DotAtEnd(a)}}
      /\ \A x \in DOMAIN sets[s].trans :
           LET kernel == MoveDot(s, x)
               target == sets[sets[s].trans[x]].kernel
           IN  /\ Core(kernel) = Core(target)
               /\ \A i \in DOMAIN kernel : kernel[i].la \subseteq target[i].la

-----------------------------------------------------------------------------
(* What precedence and associativity say of a shift of t and a reduction.  *)
Beats(p, t) ==
  /\ Prec(p) # 0 /\ Token(t).prec # 0
  /\ Prec(p) > Token(t).prec \/ (Prec(p) = Token(t).prec /\ Token(t).assoc = "LEFT")
Loses(p, t) ==
  /\ Prec(p) # 0 /\ Token(t).prec # 0
  /\ Prec(p) < Token(t).prec \/ (Prec(p) = Token(t).prec /\ Token(t).assoc = "RIGHT")
Cancels(p, t) ==
  Prec(p) # 0 /\ Prec(p) = Token(t).prec /\ Token(t).assoc = "NONASSOC"

\* Whether an item of the state shifts t within a maximal n, or within the
\* nearest superset of it that is maximal.
Extended(s, left, t) ==
  LET extended[n \in Nonterms] ==
        IF n \in grammar.maximal
        THEN \E i \in DOMAIN AllItems(s) :
               LET item == AllItems(s)[i] IN
                 /\ ~ DotAtEnd(item) /\ Lhs(item.prod) = n
                 /\ t \in FirstOfSymbol(SymbolAfterDot(item))
        ELSE \E super \in Superset(n) : extended[super]
  IN  extended[left]

\* The shift takes the reduction away, or the reduction the shift, or both.
TakenByShift(s, p, t) == Loses(p, t) \/ Extended(s, Lhs(p), t) \/ Cancels(p, t)
TakesShift(s, p, t) == ~ Extended(s, Lhs(p), t) /\ (Beats(p, t) \/ Cancels(p, t))

(* Which actions a cell keeps, as sets, when the shift is weighed against  *)
(* the reductions at the places 'met': of the reductions that this leaves, *)
(* those of the highest precedence or of none, and of these the ones that  *)
(* have no subset among them.                                              *)
RefKept(s, t, met) ==
  LET possible == PossibleActions(s, t)
      reds == possible.reds
      shift == possible.shift # NoState
      taken == {k \in met : shift /\ TakenByShift(s, reds[k], t)}
      R1 == {reds[k] : k \in DOMAIN reds \ taken}
      R2 == {p \in R1 : Prec(p) = 0 \/ \A q \in R1 : Prec(q) <= Prec(p)}
      R3 == {p \in R2 : \A q \in R2 : <<Lhs(p), Lhs(q)>> \notin grammar.subsets}
  IN  [shift |-> shift /\ ~ \E k \in met : TakesShift(s, reds[k], t), reds |-> R3]

(* The order of the reductions matters when one takes the shift away before*)
(* it could take another that nothing else is sure to: not one that has a  *)
(* lower precedence than a reduction that stays in any case, which is the  *)
(* example in resolveConflicts (R1 < S < R2).  The shift is then weighed   *)
(* against the reductions up to the first one that takes it.               *)
OrderMatters(s, t) ==
  LET reds == PossibleReductions(s, t)
      outranked(k) == \E i \in DOMAIN reds : /\ ~ TakenByShift(s, reds[i], t)
                                            /\ 0 < Prec(reds[k])
                                            /\ Prec(reds[k]) < Prec(reds[i])
  IN  /\ PossibleActions(s, t).shift # NoState
      /\ \E k \in {i \in DOMAIN reds : TakenByShift(s, reds[i], t) /\ ~ outranked(i)} :
           \E j \in DOMAIN reds \ {k} : TakesShift(s, reds[j], t)

UpToTheFirst(s, t) ==
  LET reds == PossibleReductions(s, t) IN
    {k \in DOMAIN reds : \A j \in 1..(k - 1) : ~ TakesShift(s, reds[j], t)}

(* A cell keeps the actions that precedence, associativity, maximal and    *)
(* subset declarations leave, whatever the order in which the reductions   *)
(* come out of the hash table, and where that order matters those that it  *)
(* leaves; without ambiguity, one of them.                                 *)
ConflictsResolved ==
  (phase = "tables" /\ state \in StateIds /\ term \in Terms) =>
    LET kept == RefKept(state, term,
                        IF OrderMatters(state, term) THEN UpToTheFirst(state, term)
                        ELSE DOMAIN PossibleReductions(state, term))
        cell == ResolvedCell(state, term)
        reds == ToSymbolSet(cell.reds)
    IN  IF build.allowAmbig
        THEN (cell.shift # NoState) = kept.shift /\ reds = kept.reds
        ELSE /\ (cell.shift # NoState) = kept.shift
             /\ reds = IF kept.shift \/ kept.reds = {} THEN {} ELSE {Min(kept.reds)}

TablesDone == phase \in {"errorBits", "actionColumns", "actionRows",
                         "gotoColumns", "gotoRows", "done"}

(* The counts that are compared with what the grammar says it expects are  *)
(* the choices the parser has: a shift/reduce conflict for each cell with a*)
(* shift and something else, and a reduce/reduce conflict for each         *)
(* reduction of a choice beyond the first.  A token for which a split is   *)
(* declared is not counted on.                                             *)
ConflictsCounted ==
  (phase = "done" /\ build.allowAmbig /\ \A t \in Terms : Token(t).assoc # "SPLIT") =>
    LET choices == {c \in StateIds \X Terms :
                      Actions(Decoded(GetActionEntry(c[1], c[2]), c[1], c[2])) > 1}
        cell(c) == Decoded(GetActionEntry(c[1], c[2]), c[1], c[2])
    IN  /\ sr = Cardinality({c \in choices : cell(c).shift # NoState})
        /\ rr = Cardinality(UNION {{c} \X (2..Len(cell(c).reds)) : c \in choices})

(* However the tables are encoded and compressed, and at each stage of it, *)
(* what the parser reads in a cell is what was put there, and where it goes*)
(* after a reduction is where the automaton goes: the cells that are shared*)
(* differ only where an error is known to be or nothing is looked up.      *)
QueriesAgree ==
  TablesDone =>
    /\ \A s \in StateIds, t \in Terms :
         Decoded(GetActionEntry(s, t), s, t) = ResolvedCell(s, t)
    /\ \A s \in StateIds, n \in Nonterms :
         NontermId(n) \in DOMAIN sets[s].trans =>
           DecodeGoto(s, n) = sets[s].trans[NontermId(n)]

KeptProds ==
  Selected(input.prods,
           {i \in DOMAIN input.prods : input.prods[i].lhs \in ReachableNonterms(input)})

\* The terminals, by their new numbers, that the declaration of p forbids.
ForbiddenHere(p) ==
  {NewIndex(ReachableTerms(input), t) :
     t \in (KeptProds[p].forbid \cap ReachableTerms(input))}

(* What becomes of them: when symbols are dropped the sets are converted,  *)
(* and the conversion takes the number 0, that of the end of the file, for *)
(* a terminal that was dropped.                                            *)
Dropping ==
  \/ ReachableTerms(input) # 0..(input.terms - 1)
  \/ ReachableNonterms(input) # 0..(input.nonterms - 1)
StillForbidden(p) == IF Dropping THEN ForbiddenHere(p) \ {0} ELSE ForbiddenHere(p)

(* A production is never reduced before a terminal that its declaration    *)
(* forbids, whatever is renumbered in between, and before no other terminal*)
(* is it held back: the one exception is a forbidden end of the file, which*)
(* is forgotten when the grammar has any symbol that is dropped.           *)
ForbiddenNotReduced ==
  phase = "done" =>
    \A p \in Prods :
      /\ grammar.prods[p].forbid \cap Terms = StillForbidden(p)
      /\ \A s \in StateIds : \A t \in StillForbidden(p) :
           p \notin ToSymbolSet(Decoded(GetActionEntry(s, t), s, t).reds)
=============================================================================
