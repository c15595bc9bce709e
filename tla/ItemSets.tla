------------------------------ MODULE ItemSets ------------------------------
(***************************************************************************)
(* constructLRItemSets of GrammarAnalysis (elkhound/gramanl.cc): the states*)
(* of the LALR(1) automaton, and renumberStates, which gives them their    *)
(* final numbers.                                                          *)
(*                                                                         *)
(* An item is a production, a dot and a lookahead.  States are found from  *)
(* a stack of pending ones; a state that gets new lookahead from another   *)
(* one is closed again and goes back on the stack.  The items that closure *)
(* adds are kept in a hash table keyed by an address, so the order in which*)
(* they come out is anyone's guess: it is chosen once and for all.         *)
(***************************************************************************)
EXTENDS FirstFollow, SequencesExt

CONSTANT HashOrders   \* each a function that ranks productions

(* No two of the productions that are left have the same rank.             *)
ASSUME HashOrdersAssumption ==
  \A h \in HashOrders : \A g \in Inputs :
    \A i, j \in DOMAIN InitializeAuxData(g).prods :
      h[i] \in Int /\ (h[i] = h[j] => i = j)

VARIABLES
  hashOrder,
  sets,               \* [StateId -> [kernel, nonkernel, trans]]
  pending, done,      \* a stack and a set of states
  current, nextItem,  \* the state whose items are looked at, and where
  mustCloseMyself,
  closing, work       \* the state under closure; its items, finished and not

setsVars == <<sets, pending, done, current, nextItem, mustCloseMyself,
              closing, work>>

NoState == -1
NoWork == [finished |-> {}, list |-> << >>, kernel |-> << >>]

Item(p, dot, la) == [prod |-> p, dot |-> dot, la |-> la]
DotAtEnd(item) == item.dot = Len(Rhs(item.prod))
SymbolAfterDot(item) == Rhs(item.prod)[item.dot + 1]
Core(kernel) == [i \in DOMAIN kernel |-> <<kernel[i].prod, kernel[i].dot>>]
AllItems(s) == sets[s].kernel \o sets[s].nonkernel
StateIds == DOMAIN sets

ItemSetsInit ==
  /\ hashOrder \in HashOrders
  /\ sets = [s \in {} |-> NoState]
  /\ pending = << >> /\ done = {}
  /\ current = NoState /\ nextItem = 1
  /\ mustCloseMyself = FALSE
  /\ closing = NoState /\ work = NoWork

-----------------------------------------------------------------------------
(* What may follow production p where 'item' calls for it.                 *)
NewItemLookahead(item, p) ==
  LET beta == After(item.prod, item.dot + 1) IN
    (FirstOfSequence(beta) \cup IF SeqCanDeriveEmpty(beta) THEN item.la ELSE {})
      \ grammar.prods[p].forbid

(* The items that 'item' calls for.  Those on the worklist already take the*)
(* lookahead there; a finished one whose lookahead grows goes back on the  *)
(* worklist, and so does a new one, in the order of the productions.       *)
SingleItemClosure(w, item) ==
  IF DotAtEnd(item) \/ IsTerminal(SymbolAfterDot(item)) THEN w
  ELSE LET called == {p \in Prods : Lhs(p) = NtIndex(SymbolAfterDot(item))}
           la(p) == NewItemLookahead(item, p)
           finished(p) == {it \in w.finished : it.prod = p}
           listed == {w.list[i].prod : i \in DOMAIN w.list}
           queued == {p \in called \ listed :
                        ~ \E it \in finished(p) : la(p) \subseteq it.la}
           new == InOrder(queued, LAMBDA p, q : p < q)
       IN  [w EXCEPT
              !.finished = {it \in @ : it.prod \notin queued},
              !.list = [i \in DOMAIN @ |->
                          IF @[i].prod \in called
                          THEN Item(@[i].prod, 0, @[i].la \cup la(@[i].prod))
                          ELSE @[i]]
                       \o [i \in DOMAIN new |->
                             Item(new[i], 0, la(new[i]) \cup
                               UNION {it.la : it \in finished(new[i])})]]

(* itemSetClosure starts with what an earlier closure has found, and closes*)
(* the kernel items before those of the worklist.                          *)
BeginClosure(s, set) ==
  /\ closing' = s
  /\ work' = [finished |-> ToSymbolSet(set.nonkernel), list |-> << >>,
              kernel |-> set.kernel]

NoClosure == UNCHANGED <<closing, work>>

CloseKernelItem ==
  /\ closing # NoState /\ work.kernel # << >>
  /\ work' = SingleItemClosure([work EXCEPT !.kernel = Tail(@)], Head(work.kernel))
  /\ UNCHANGED <<phase, sets, pending, done, current, nextItem,
                 mustCloseMyself, closing>>

CloseItem ==
  /\ closing # NoState /\ work.kernel = << >> /\ work.list # << >>
  /\ work' = SingleItemClosure([work EXCEPT !.finished = @ \cup {Last(work.list)},
                                            !.list = Front(@)], Last(work.list))
  /\ UNCHANGED <<phase, sets, pending, done, current, nextItem,
                 mustCloseMyself, closing>>

InHashOrder(items) ==
  InOrder(items, LAMBDA a, b : hashOrder[a.prod] < hashOrder[b.prod])

ClosureDone ==
  /\ closing # NoState /\ work.kernel = << >> /\ work.list = << >>
  /\ sets' = [sets EXCEPT ![closing].nonkernel = InHashOrder(work.finished)]
  /\ closing' = NoState
  /\ work' = NoWork
  /\ UNCHANGED <<phase, pending, done, current, nextItem, mustCloseMyself>>

-----------------------------------------------------------------------------
NewSet(kernel) == [kernel |-> kernel, nonkernel |-> << >>, trans |-> << >>]

(* The first state; its reduction is not made by the parser, and so has no *)
(* lookahead.                                                              *)
MakeStartState ==
  /\ phase = "sets" /\ sets = << >>
  /\ LET is == NewSet(<<Item(1, 0, {})>>) IN
       /\ sets' = [s \in {0} |-> is]
       /\ BeginClosure(0, is)
  /\ pending' = <<0>>
  /\ UNCHANGED <<phase, done, current, nextItem, mustCloseMyself>>

PopItemSet ==
  /\ phase = "sets" /\ closing = NoState /\ current = NoState
  /\ pending # << >>
  /\ current' = Last(pending)
  /\ pending' = Front(pending)
  /\ done' = done \cup {Last(pending)}
  /\ nextItem' = 1
  /\ mustCloseMyself' = FALSE
  /\ UNCHANGED <<phase, sets, closing, work>>

(* The items of the current state to look at: those with the dot not at   *)
(* the end.                                                                *)
ItemsLeft ==
  {i \in DOMAIN AllItems(current) :
     i >= nextItem /\ ~ DotAtEnd(AllItems(current)[i])}

Considering == phase = "sets" /\ closing = NoState /\ current # NoState

ItemBefore(a, b) == a.prod < b.prod \/ (a.prod = b.prod /\ a.dot < b.dot)

(* moveDotNoClosure: the dot is moved in all items of s before symbol x.   *)
MoveDot(s, x) ==
  InOrder({Item(it.prod, it.dot + 1, it.la) :
                  it \in {a \in ToSymbolSet(AllItems(s)) :
                            ~ DotAtEnd(a) /\ SymbolAfterDot(a) = x}},
               ItemBefore)

\* Variant of SameKernel: only states still pending are looked through.
SameKernel_Pending(kernel) ==
  {s \in ToSymbolSet(pending) : Core(sets[s].kernel) = Core(kernel)}

(* The state with this kernel, lookahead aside, if there is one.           *)
SameKernel(kernel) ==
  {s \in ToSymbolSet(pending) \cup done : Core(sets[s].kernel) = Core(kernel)}

SetTransition(set, x, s) ==
  [set EXCEPT !.trans = [y \in DOMAIN @ \cup {x} |-> IF y = x THEN s ELSE @[y]]]

MakeItemSet ==
  /\ Considering
  /\ \E i \in ItemsLeft :
    /\ i = Min(ItemsLeft)
    /\ LET x == SymbolAfterDot(AllItems(current)[i])
           kernel == MoveDot(current, x)
           new == Cardinality(StateIds)
       IN  /\ SameKernel(kernel) = {}
           /\ sets' = [s \in StateIds \cup {new} |->
                         IF s = new THEN NewSet(kernel)
                         ELSE IF s = current THEN SetTransition(sets[s], x, new)
                         ELSE sets[s]]
           /\ BeginClosure(new, NewSet(kernel))
           /\ pending' = Append(pending, new)
    /\ nextItem' = i + 1
    /\ UNCHANGED <<phase, done, current, mustCloseMyself>>

MergeLookaheads(kernel, more) ==
  [i \in DOMAIN kernel |->
     Item(kernel[i].prod, kernel[i].dot, kernel[i].la \cup more[i].la)]

\* Variant of BackToPending: a state that was done stays so.
BackToPending_StaysDone(s) == FALSE

BackToPending(s) == s \in done

(* The moved dots lead to a state there is; it may have new lookahead to   *)
(* pass on.  The state under consideration is closed only after its items  *)
(* have been gone through.                                                 *)
FindItemSet ==
  /\ Considering
  /\ \E i \in ItemsLeft :
    /\ i = Min(ItemsLeft)
    /\ LET x == SymbolAfterDot(AllItems(current)[i])
           kernel == MoveDot(current, x)
       IN  \E s \in SameKernel(kernel) :
             LET merged == MergeLookaheads(sets[s].kernel, kernel)
                 changed == merged # sets[s].kernel
                 grown == [sets EXCEPT ![s].kernel = merged]
             IN  /\ sets' = [grown EXCEPT ![current] = SetTransition(@, x, s)]
                 /\ mustCloseMyself' = (mustCloseMyself \/ (changed /\ s = current))
                 /\ IF changed /\ s # current
                    THEN BeginClosure(s, grown[s])
                    ELSE NoClosure
                 /\ IF changed /\ BackToPending(s)
                    THEN done' = done \ {s} /\ pending' = Append(pending, s)
                    ELSE UNCHANGED <<done, pending>>
    /\ nextItem' = i + 1
    /\ UNCHANGED <<phase, current>>

\* Variant of ClosesItself: the postponed closure is forgotten.
ClosesItself_Never == FALSE

ClosesItself == mustCloseMyself

ItemSetDone ==
  /\ Considering
  /\ ItemsLeft = {}
  /\ IF ClosesItself THEN BeginClosure(current, sets[current]) ELSE NoClosure
  /\ current' = NoState
  /\ UNCHANGED <<phase, sets, pending, done, nextItem, mustCloseMyself>>

SetsDone ==
  /\ phase = "sets" /\ closing = NoState /\ current = NoState
  /\ sets # << >> /\ pending = << >>
  /\ phase' = "number"
  /\ UNCHANGED setsVars

-----------------------------------------------------------------------------
(* The symbol on the arcs into s; 0 for the start state.                   *)
StateSymbol(s) ==
  LET moved == {i \in DOMAIN sets[s].kernel : sets[s].kernel[i].dot > 0} IN
    IF moved = {} THEN 0
    ELSE LET item == sets[s].kernel[Min(moved)] IN Rhs(item.prod)[item.dot]

(* getPossibleReductions: in the order of the items.                       *)
PossibleReductions(s, t) ==
  LET items == AllItems(s)
      ready == Selected(items, {i \in DOMAIN items :
                                  DotAtEnd(items[i]) /\ t \in items[i].la})
  IN  [i \in DOMAIN ready |-> ready[i].prod]

(* Lists of numbers compare element by element, a prefix first.            *)
ListBefore(a, b) ==
  \E i \in DOMAIN b :
    /\ IF i \in DOMAIN a THEN a[i] < b[i] ELSE i = Len(a) + 1
    /\ SubSeq(a, 1, i - 1) = SubSeq(b, 1, i - 1)

(* arbitraryProductionOrder, with nonterminals before terminals.           *)
ProductionKey(p) ==
  <<Lhs(p)>> \o FlattenSeq([i \in DOMAIN Rhs(p) |->
    IF IsTerminal(Rhs(p)[i]) THEN <<1, TermIndex(Rhs(p)[i])>>
                             ELSE <<0, NtIndex(Rhs(p)[i])>>])

ProductionRanks ==
  LET keyed == {<<q, ProductionKey(q)>> : q \in Prods} IN
    {<<k[1], Cardinality({j[2] : j \in {i \in keyed : ListBefore(i[2], k[2])}})>> :
       k \in keyed}

IncomingKey(x) ==
  IF x = 0 THEN <<0, 0>>
  ELSE IF IsTerminal(x) THEN <<1, TermIndex(x)>>
  ELSE <<2, NtIndex(x)>>

(* renumberStatesDiff compares incoming symbols, then transitions by the   *)
(* old numbers of their targets, then reductions.  A list of reductions    *)
(* ends with a number below every rank, so that a prefix comes first.      *)
StateKey(s, ranked) ==
  LET target(x) == IF x \in DOMAIN sets[s].trans THEN <<0, sets[s].trans[x]>>
                   ELSE <<1, 0>>
      rank(p) == (CHOOSE r \in ranked : r[1] = p)[2]
      ranks(t) ==
        LET reds == PossibleReductions(s, t)
            before(i, j) == rank(reds[i]) < rank(reds[j]) \/
                            (rank(reds[i]) = rank(reds[j]) /\ i < j)
            sorted == InOrder(DOMAIN reds, before)
        IN  [i \in DOMAIN sorted |-> rank(reds[sorted[i]])]
  IN  IncomingKey(StateSymbol(s))
        \o FlattenSeq([i \in 1..grammar.terms |-> target(TermId(i - 1))])
        \o FlattenSeq([i \in 1..grammar.nonterms |-> target(NontermId(i - 1))])
        \o FlattenSeq([i \in 1..grammar.terms |-> Append(ranks(i - 1), -1)])

(* A stable sort by the key.                                               *)
RenumberStates ==
  /\ phase = "number"
  /\ \E ranked \in {ProductionRanks} :
     \E keyed \in {{<<StateKey(s, ranked), s>> : s \in StateIds}} :
       LET before(a, b) == ListBefore(a[1], b[1]) \/ (a[1] = b[1] /\ a[2] < b[2]) IN
         \E number \in {{<<k[2], Cardinality({j \in keyed : before(j, k)})>> : k \in keyed}} :
           LET new(s) == (CHOOSE e \in number : e[1] = s)[2]
               old(n) == (CHOOSE e \in number : e[2] = n)[1]
           IN  sets' = [n \in StateIds |-> [sets[old(n)] EXCEPT !.trans =
                          [x \in DOMAIN @ |-> new(@[x])]]]
  /\ phase' = "tables"
  /\ UNCHANGED <<pending, done, current, nextItem, mustCloseMyself, closing,
                 work>>

ItemSetsNext ==
  /\ \/ MakeStartState \/ PopItemSet \/ MakeItemSet \/ FindItemSet
     \/ ItemSetDone \/ SetsDone \/ CloseKernelItem \/ CloseItem \/ ClosureDone
     \/ RenumberStates
  /\ UNCHANGED <<input, grammar, derivable, first, follow, changes, nextProd,
                 nextSym, hashOrder>>
=============================================================================
