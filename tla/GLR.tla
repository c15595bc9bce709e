------------------------------- MODULE GLR -------------------------------
(***************************************************************************)
(* The parser core of Elkhound (elkhound/glr.cc, glr.h): one GLR object    *)
(* that parses one token stream after another with a graph-structured      *)
(* stack.  Each token is first given to the mini-LR core, which behaves    *)
(* like an ordinary LR parser while that is possible, and otherwise to the *)
(* nondeterministic core: a reduction worklist (RWL) ordered so that a     *)
(* semantic value is complete before it is handed to a reduction action,   *)
(* followed by the shifts.                                                 *)
(*                                                                         *)
(* The parse tables and the user's actions are parameters, as they are in  *)
(* the code.  The program is sequential; its loops and its recursions are  *)
(* unrolled into steps, so that what holds between two steps can be stated.*)
(***************************************************************************)
EXTENDS PathOrder, FiniteSets

CONSTANTS
  \* ---- the parse tables (parsetables.h) ----
  StateId, StartState,
  TermIndex,          \* terminal codes; 0 is the end of file
  FinalProduction,
  ActionTable,        \* [StateId -> [TermIndex -> ActionEntry]]
  GotoTable,          \* [StateId -> [NtIndex -> StateId \cup {NoState}]]
  \* ---- the lexer (lexerint.h) and the user's actions (useract.h) ----
  Texts,              \* the inputs: sequences of lexemes
  Lexeme,
  Reclassify,         \* [Lexeme -> nonempty sequences over TermIndex]
  ToInternalType,     \* [TermIndex -> TermIndex]
  SVal,               \* semantic values
  TokenVal(_),        \* the lexer's semantic value for a token
  ReductionAction(_, _),
  MergeAlternativeParses(_, _),
  KeepNontermValue,   \* the answers keepNontermValue may give
  \* ---- build options (glr.cc, glrconfig.h.in) ----
  EnableEEF,
  NDebug,             \* xassertdb checks nothing
  \* ---- the bound of the model ----
  MaxYieldThenMerge   \* yieldThenMergeCt counts up to this number

NoState == -1
Null == 0             \* no stack node

(* An action-table cell: where it shifts to, and the productions it may    *)
(* reduce by, in the order of the ambiguous entry that lists them.         *)
ActionEntry == [shift : StateId \cup {NoState}, reds : Seq(ProdIndex)]

ASSUME TablesAssumption ==
  /\ StartState \in StateId /\ NoState \notin StateId
  /\ 0 \in TermIndex
  /\ FinalProduction \in ProdIndex
  /\ ActionTable \in [StateId -> [TermIndex -> ActionEntry]]
  /\ GotoTable \in [StateId -> [NtIndex -> StateId \cup {NoState}]]

ASSUME LexerAssumption ==
  /\ Texts \subseteq Seq(Lexeme)
  /\ Reclassify \in [Lexeme -> Seq(TermIndex) \ {<< >>}]
  /\ ToInternalType \in [TermIndex -> TermIndex]

ASSUME OptionsAssumption ==
  /\ KeepNontermValue \subseteq BOOLEAN
  /\ {EnableEEF, NDebug} \subseteq BOOLEAN
  /\ MaxYieldThenMerge \in Nat

IsShiftAction(a) == a.shift # NoState /\ a.reds = << >>
IsReduceAction(a) == a.shift = NoState /\ Len(a.reds) = 1
IsErrorAction(a) == a.shift = NoState /\ a.reds = << >>

NodeId == Nat \ {0}

(* A link is named by the node that owns it and its position in 'sibs';    *)
(* position 1 is the embedded 'firstSib', the others are 'leftSiblings' in *)
(* the order they were added.                                              *)
LinkRef == NodeId \X NodeId
NoLink == <<Null, Null>>

SiblingLink == [sib : NodeId, sval : SVal, yielded : BOOLEAN]

StackNode == [state : StateId, sibs : Seq(SiblingLink),
              referenceCount : Nat, determinDepth : Nat, column : Nat]

Path == [prod : ProdIndex, leftEdge : NodeId, startColumn : Nat,
         sibLinks : Seq(LinkRef)]

(* One activation of rwlRecursiveEnqueue that has not run yet.             *)
Frame == [prod : ProdIndex, popsRemaining : Nat, currentNode : NodeId,
          sibLinks : Seq(LinkRef), mustUseLink : LinkRef \cup {NoLink}]

(* One call of rwlEnqueueReductions that a loop still has to make.         *)
Request == [parser : NodeId, mustUseLink : LinkRef \cup {NoLink}]

VARIABLES
  pc,              \* where glrParse is
  text, position,  \* the token stream, and the lexeme the lexer is at
  savedTokens,     \* pieces of a reclassified lexeme not parsed yet
  lexer,           \* [type, internalType]
  node,            \* the live stack nodes
  topmostParsers, prevTopmost,
  globalNodeColumn,
  reduction,       \* the mini-LR reduction under way
  pathQueue,       \* the reduction worklist
  frames, requests,
  depthSweep,      \* the loop that recomputes determinDepth
  lastShiftLink,   \* 'prev' of rwlShiftTerminals
  decs,            \* references about to be dropped by decRefCt
  owned,           \* semantic values the parser owns
  yieldThenMergeCt,
  treeTop

lexVars == <<text, position, savedTokens, lexer>>
stackVars == <<node, topmostParsers, prevTopmost, globalNodeColumn>>
workVars == <<pathQueue, frames, requests, depthSweep>>
resultVars == <<yieldThenMergeCt, treeTop>>

vars == <<pc, lexVars, stackVars, reduction, workVars, lastShiftLink, decs,
          owned, resultVars>>

Final == {"accepted", "rejected", "aborted"}

-----------------------------------------------------------------------------
(* Stack nodes.                                                            *)

(* An identity for the next node of the pool (MAKE_STACK_NODE).            *)
FreshNode ==
  CHOOSE n \in 1..(Cardinality(DOMAIN node) + 1) : n \notin DOMAIN node

(* The nodes 'ns' without node n, and with node n added or replaced.       *)
Without(ns, n) == [m \in DOMAIN ns \ {n} |-> ns[m]]
With(ns, n, r) == [m \in DOMAIN ns \cup {n} |-> IF m = n THEN r ELSE ns[m]]

NewLink(left, sval) == [sib |-> left, sval |-> sval, yielded |-> FALSE]

(* A node made by MAKE_STACK_NODE and addFirstSiblingLink_noRefCt.  Its    *)
(* one reference is from topmostParsers.                                   *)
NodeOn(left, state, sval, column) ==
  [state |-> state, sibs |-> <<NewLink(left, sval)>>, referenceCount |-> 1,
   determinDepth |-> node[left].determinDepth + 1, column |-> column]

\* Variants of IncRefCt: no count, and one too many.
IncRefCt_None(ns, n) == ns
IncRefCt_Twice(ns, n) == [ns EXCEPT ![n].referenceCount = @ + 2]

IncRefCt(ns, n) == [ns EXCEPT ![n].referenceCount = @ + 1]

(* StackNode::addAdditionalSiblingLink; the new link refers to 'left'.     *)
AddAdditionalLink(ns, n, left, sval) ==
  [IncRefCt(ns, left) EXCEPT
     ![n].sibs = Append(@, NewLink(left, sval)),
     ![n].determinDepth = 0]

(* The depth of a parser that gained a link changes what the depth of those*)
(* that point at it should be.                                             *)
\* Variant of NeedsSettling: the depths are never recomputed.
NeedsSettling_Never(ns, n) == FALSE

NeedsSettling(ns, n) == ns[n].referenceCount > 1

ComputeDeterminDepth(n) ==
  CASE node[n].sibs = << >> -> 1
    [] Len(node[n].sibs) = 1 -> node[node[n].sibs[1].sib].determinDepth + 1
    [] OTHER -> 0

(* The positions of the links of a node in the order in which a loop over  *)
(* firstSib and then leftSiblings meets them: links are prepended to       *)
(* leftSiblings.                                                           *)
IterationOrder(n) ==
  LET len == Len(node[n].sibs) IN
    [j \in 1..len |-> IF j = 1 THEN 1 ELSE len + 2 - j]

(* StackNode::getLinkTo: the positions of the links to 'left'.             *)
LinksTo(n, left) == {k \in DOMAIN node[n].sibs : node[n].sibs[k].sib = left}

\* Variants of FindTopmostParser: only the first parser is looked at, and
\* the parsers that shift are looked at as well.
FindTopmostParser_First(state) ==
  IF topmostParsers # << >> /\ node[topmostParsers[1]].state = state
  THEN topmostParsers[1] ELSE Null
FindTopmostParser_WithPrev(state) ==
  LET all == topmostParsers \o prevTopmost
      at == {i \in DOMAIN all : node[all[i]].state = state}
  IN  IF at = {} THEN Null ELSE all[CHOOSE i \in at : \A j \in at : i <= j]

(* GLR::findTopmostParser: the first parser in that state, or Null.        *)
FindTopmostParser(state) ==
  LET at == {i \in DOMAIN topmostParsers :
               node[topmostParsers[i]].state = state}
  IN  IF at = {} THEN Null
      ELSE topmostParsers[CHOOSE i \in at : \A j \in at : i <= j]

-----------------------------------------------------------------------------
(* The two ways the code looks up the action of a parser.  The mini-LR     *)
(* core uses the translated token, the rest of the code the lexer's own.   *)
MiniLRAction(n) == ActionTable[node[n].state][lexer.internalType]
GetActionEntry(n) == ActionTable[node[n].state][lexer.type]

CanMakeProgress(n) == ~ IsErrorAction(GetActionEntry(n))

\* Variant of GotoState: it starts from the first parser.
GotoState_FromTop(left, prod) ==
  GotoTable[node[topmostParsers[1]].state][ProdInfo[prod].lhsIndex]

GotoState(left, prod) == GotoTable[node[left].state][ProdInfo[prod].lhsIndex]

(* The loops over topmostParsers that call rwlEnqueueReductions.           *)
\* Variants of EnqueueAll: the first parser only, and any path for each.
EnqueueAll_First(link) ==
  <<[parser |-> topmostParsers[1], mustUseLink |-> link]>>
EnqueueAll_AnyPath(link) ==
  [i \in DOMAIN topmostParsers |->
     [parser |-> topmostParsers[i], mustUseLink |-> NoLink]]

EnqueueAll(link) ==
  [i \in DOMAIN topmostParsers |->
     [parser |-> topmostParsers[i], mustUseLink |-> link]]

NoReduction == [prod |-> FinalProduction, toPass |-> << >>]
NoSweep == [next |-> 1, changes |-> FALSE]

-----------------------------------------------------------------------------
(* Between parses the object holds no stack node.                          *)
Init ==
  /\ pc = "idle"
  /\ text = << >> /\ position = 1 /\ savedTokens = << >>
  /\ lexer = [type |-> 0, internalType |-> 0]
  /\ node = << >> /\ topmostParsers = << >> /\ prevTopmost = << >>
  /\ globalNodeColumn = 0
  /\ reduction = NoReduction
  /\ pathQueue = << >> /\ frames = << >> /\ requests = << >>
  /\ depthSweep = NoSweep
  /\ lastShiftLink = NoLink
  /\ decs = << >>
  /\ owned = 0
  /\ yieldThenMergeCt = 0
  /\ treeTop = << >>

(* glrParse is called with a primed lexer: the parser makes the bottom     *)
(* node of the stack, and owns the value of the first token.               *)
GlrParse ==
  /\ pc = "idle"
  /\ text' \in Texts
  /\ position' = 1
  /\ node' = With(node, FreshNode,
                  [state |-> StartState, sibs |-> << >>, referenceCount |-> 1,
                   determinDepth |-> 1, column |-> 0])
  /\ topmostParsers' = <<FreshNode>>
  /\ owned' = 1
  /\ pc' = "token"
  /\ UNCHANGED <<savedTokens, lexer, prevTopmost, globalNodeColumn, reduction,
                 workVars, lastShiftLink, decs, resultVars>>

(* The top of the token loop of innerGlrParse: the next piece of the       *)
(* lexeme that is being split, or the first piece of the current lexeme.   *)
(* Past the end of the text the lexer yields token 0.                      *)
Pieces == IF position <= Len(text) THEN Reclassify[text[position]] ELSE <<0>>

TakeToken ==
  /\ pc = "token"
  /\ LET pieces == IF savedTokens # << >> THEN savedTokens ELSE Pieces IN
       /\ lexer' = [type |-> Head(pieces),
                    internalType |-> ToInternalType[Head(pieces)]]
       /\ savedTokens' = Tail(pieces)
  /\ pc' = "mini-LR"
  /\ UNCHANGED <<text, position, stackVars, reduction, workVars,
                 lastShiftLink, decs, owned, resultVars>>

-----------------------------------------------------------------------------
(* deterministicParseToken, from its label tryDeterministic.               *)
OneParser == Len(topmostParsers) = 1
TopParser == topmostParsers[1]

\* Variant of CanReduceUnambiguously: the depth is not looked at.
CanReduceUnambiguously_AnyDepth(n) == IsReduceAction(MiniLRAction(n))

CanReduceUnambiguously(n) ==
  LET a == MiniLRAction(n) IN
    /\ IsReduceAction(a)
    /\ ProdInfo[a.reds[1]].rhsLen <= node[n].determinDepth

MiniLRError ==
  /\ pc = "mini-LR" /\ OneParser
  /\ EnableEEF /\ IsErrorAction(MiniLRAction(TopParser))
  /\ pc' = "rejected"
  /\ UNCHANGED <<lexVars, stackVars, reduction, workVars, lastShiftLink, decs,
                 owned, resultVars>>

MiniLRReduce ==
  /\ pc = "mini-LR" /\ OneParser
  /\ CanReduceUnambiguously(TopParser)
  /\ reduction' = [prod |-> MiniLRAction(TopParser).reds[1], toPass |-> << >>]
  /\ pc' = "pop"
  /\ UNCHANGED <<lexVars, stackVars, workVars, lastShiftLink, decs, owned,
                 resultVars>>

(* One turn of the loop that pops rhsLen nodes: the node goes to the free  *)
(* list without a decRefCt, so the node under it keeps the count that the  *)
(* popped link stood for, now on behalf of the local 'parser', the top of  *)
(* the stack here.                                                         *)
StillToPop == Len(reduction.toPass) < ProdInfo[reduction.prod].rhsLen
PoppedLink == node[TopParser].sibs[1]

MiniLRPop ==
  /\ pc = "pop" /\ StillToPop
  /\ node[PoppedLink.sib].referenceCount = 1 \/ NDebug
  /\ reduction' = [reduction EXCEPT !.toPass = <<PoppedLink.sval>> \o @]
  /\ topmostParsers' = <<PoppedLink.sib>>
  /\ node' = Without(node, TopParser)
  /\ UNCHANGED <<pc, lexVars, prevTopmost, globalNodeColumn, workVars,
                 lastShiftLink, decs, owned, resultVars>>

(* xassertdb(parser->referenceCount == 1) fails inside the loop.           *)
MiniLRPopAssertFails ==
  /\ pc = "pop" /\ StillToPop
  /\ node[PoppedLink.sib].referenceCount # 1 /\ ~ NDebug
  /\ pc' = "aborted"
  /\ UNCHANGED <<lexVars, stackVars, reduction, workVars, lastShiftLink, decs,
                 owned, resultVars>>

(* The user's action consumes the values and yields one; then the goto,    *)
(* and the user's say.  A cancelled reduction fails the parse.             *)
MiniLRPush ==
  /\ pc = "pop" /\ ~ StillToPop
  /\ LET sval == ReductionAction(reduction.prod, reduction.toPass)
         state == GotoState(TopParser, reduction.prod)
     IN  node' = With(node, FreshNode,
                      NodeOn(TopParser, state, sval, globalNodeColumn))
  /\ topmostParsers' = <<FreshNode>>
  /\ owned' = owned - Len(reduction.toPass) + 1
  /\ reduction' = NoReduction
  /\ \E keep \in KeepNontermValue :
       pc' = IF keep THEN "mini-LR" ELSE "rejected"
  /\ UNCHANGED <<lexVars, prevTopmost, globalNodeColumn, workVars,
                 lastShiftLink, decs, resultVars>>

MiniLRShift ==
  /\ pc = "mini-LR" /\ OneParser
  /\ IsShiftAction(MiniLRAction(TopParser))
  /\ globalNodeColumn' = globalNodeColumn + 1
  /\ node' = With(node, FreshNode,
                  NodeOn(TopParser, MiniLRAction(TopParser).shift,
                         TokenVal(lexer.type), globalNodeColumn + 1))
  /\ topmostParsers' = <<FreshNode>>
  /\ pc' = "next"
  /\ UNCHANGED <<lexVars, prevTopmost, reduction, workVars, lastShiftLink,
                 decs, owned, resultVars>>

(* deterministicParseToken returns 0, and nondeterministicParseToken       *)
(* starts to collect the reductions of every parser.                       *)
FallBack ==
  /\ pc = "mini-LR"
  /\ OneParser =>
       LET a == MiniLRAction(TopParser) IN
         /\ ~ IsShiftAction(a) /\ ~ CanReduceUnambiguously(TopParser)
         /\ ~ (EnableEEF /\ IsErrorAction(a))
  /\ requests' = EnqueueAll(NoLink)
  /\ pc' = "reduce"
  /\ UNCHANGED <<lexVars, stackVars, reduction, pathQueue, frames, depthSweep,
                 lastShiftLink, decs, owned, resultVars>>

-----------------------------------------------------------------------------
(* Enumeration of reduction paths: rwlEnqueueReductions, with the recursion*)
(* of rwlRecursiveEnqueue and rwlCollectPathLink as a stack of activations.*)

EnqueueReductions ==
  /\ pc = "reduce" /\ frames = << >> /\ requests # << >>
  /\ LET parser == Head(requests).parser
         reds == GetActionEntry(parser).reds
     IN  frames' = [i \in DOMAIN reds |->
                      [prod |-> reds[i],
                       popsRemaining |-> ProdInfo[reds[i]].rhsLen,
                       currentNode |-> parser,
                       sibLinks |-> << >>,
                       mustUseLink |-> Head(requests).mustUseLink]]
  /\ requests' = Tail(requests)
  /\ UNCHANGED <<pc, lexVars, stackVars, reduction, pathQueue, depthSweep,
                 lastShiftLink, decs, owned, resultVars>>

\* Variants of CollectPathLink: popsRemaining is not counted down, and the
\* links come in the wrong order.
CollectPathLink_NoCount(f, k) ==
  LET link == <<f.currentNode, k>> IN
    [f EXCEPT !.currentNode = node[f.currentNode].sibs[k].sib,
              !.sibLinks = <<link>> \o @,
              !.mustUseLink = IF link = @ THEN NoLink ELSE @]
CollectPathLink_Reversed(f, k) ==
  LET link == <<f.currentNode, k>> IN
    [f EXCEPT !.popsRemaining = @ - 1,
              !.currentNode = node[f.currentNode].sibs[k].sib,
              !.sibLinks = Append(@, link),
              !.mustUseLink = IF link = @ THEN NoLink ELSE @]

CollectPathLink(f, k) ==
  LET link == <<f.currentNode, k>> IN
    [f EXCEPT !.popsRemaining = @ - 1,
              !.currentNode = node[f.currentNode].sibs[k].sib,
              !.sibLinks = <<link>> \o @,
              !.mustUseLink = IF link = @ THEN NoLink ELSE @]

ExtendPath ==
  /\ pc = "reduce" /\ frames # << >>
  /\ Head(frames).popsRemaining > 0
  /\ LET f == Head(frames)
         order == IterationOrder(f.currentNode)
     IN  frames' = [i \in DOMAIN order |-> CollectPathLink(f, order[i])]
                     \o Tail(frames)
  /\ UNCHANGED <<pc, lexVars, stackVars, reduction, pathQueue, requests,
                 depthSweep, lastShiftLink, decs, owned, resultVars>>

(* A path of the required length is queued, unless it misses the link it   *)
(* has to use.                                                             *)
FinishPath ==
  /\ pc = "reduce" /\ frames # << >>
  /\ Head(frames).popsRemaining = 0
  /\ LET f == Head(frames)
         p == [prod |-> f.prod, leftEdge |-> f.currentNode,
               startColumn |-> node[f.currentNode].column,
               sibLinks |-> f.sibLinks]
     IN  pathQueue' = IF f.mustUseLink = NoLink
                      THEN InsertPathCopy(pathQueue, p)
                      ELSE pathQueue
  /\ frames' = Tail(frames)
  /\ UNCHANGED <<pc, lexVars, stackVars, reduction, requests, depthSweep,
                 lastShiftLink, decs, owned, resultVars>>

-----------------------------------------------------------------------------
(* rwlProcessWorklist: one path is taken from the queue and reduced, and   *)
(* rwlShiftNonterminal puts the result on the stack.                       *)

CanReduce == /\ pc = "reduce" /\ frames = << >> /\ requests = << >>
             /\ pathQueue # << >>

NextPath == Head(pathQueue)
NextReduction ==
  ReductionAction(NextPath.prod,
    [i \in DOMAIN NextPath.sibLinks |->
       LET link == NextPath.sibLinks[i] IN node[link[1]].sibs[link[2]].sval])

(* Every link of the path has yielded its value, and keeps a duplicate.    *)
Yielded ==
  [n \in DOMAIN node |->
     [node[n] EXCEPT !.sibs =
        [k \in DOMAIN node[n].sibs |->
           [node[n].sibs[k] EXCEPT !.yielded =
              @ \/ \E i \in DOMAIN NextPath.sibLinks :
                     NextPath.sibLinks[i] = <<n, k>>]]]]

RightState == GotoState(NextPath.leftEdge, NextPath.prod)
RightSibling == FindTopmostParser(RightState)
SibLinks == LinksTo(RightSibling, NextPath.leftEdge)

(* keepNontermValue says no: the user disposes of the value.               *)
ReduceCancelled ==
  /\ CanReduce
  /\ FALSE \in KeepNontermValue
  /\ node' = Yielded
  /\ pathQueue' = Tail(pathQueue)
  /\ UNCHANGED <<pc, lexVars, topmostParsers, prevTopmost, globalNodeColumn,
                 reduction, frames, requests, depthSweep, lastShiftLink, decs,
                 owned, resultVars>>

(* A parser for the result exists and has the link: two parses meet.  When *)
(* the parser is dead the new value is deallocated instead of merged.      *)
ReduceMerge ==
  /\ CanReduce /\ TRUE \in KeepNontermValue
  /\ RightSibling # Null /\ SibLinks # {}
  /\ LET k == CHOOSE k \in SibLinks : TRUE
         merging == CanMakeProgress(RightSibling)
         old == Yielded[RightSibling].sibs[k]
         lhs == ProdInfo[NextPath.prod].lhsIndex
     IN  /\ node' = IF merging
                    THEN [Yielded EXCEPT ![RightSibling].sibs[k].sval =
                            MergeAlternativeParses(old.sval, NextReduction)]
                    ELSE Yielded
         /\ yieldThenMergeCt' =
              IF merging /\ old.yielded /\ yieldThenMergeCt < MaxYieldThenMerge
              THEN yieldThenMergeCt + 1 ELSE yieldThenMergeCt
  /\ pathQueue' = Tail(pathQueue)
  /\ UNCHANGED <<pc, lexVars, topmostParsers, prevTopmost, globalNodeColumn,
                 reduction, frames, requests, depthSweep, lastShiftLink, decs,
                 owned, treeTop>>

(* A parser for the result exists without the link: the link is added, and *)
(* every parser retries the reductions that use it.  If something points at*)
(* the parser, determinDepth is recomputed first.                          *)
ReduceAddLink ==
  /\ CanReduce /\ TRUE \in KeepNontermValue
  /\ RightSibling # Null /\ SibLinks = {}
  /\ LET ns == AddAdditionalLink(Yielded, RightSibling, NextPath.leftEdge,
                                 NextReduction)
     IN  /\ node' = ns
         /\ pc' = IF NeedsSettling(ns, RightSibling) THEN "settle"
                  ELSE "reduce"
  /\ requests' = EnqueueAll(<<RightSibling, Len(node[RightSibling].sibs) + 1>>)
  /\ owned' = owned + 1
  /\ pathQueue' = Tail(pathQueue)
  /\ UNCHANGED <<lexVars, topmostParsers, prevTopmost, globalNodeColumn,
                 reduction, frames, depthSweep, lastShiftLink, decs,
                 resultVars>>

(* There is no parser for the result: one is made, and its own reductions  *)
(* are enqueued.                                                           *)
ReduceNewParser ==
  /\ CanReduce /\ TRUE \in KeepNontermValue
  /\ RightSibling = Null
  /\ node' = With(IncRefCt(Yielded, NextPath.leftEdge), FreshNode,
                  NodeOn(NextPath.leftEdge, RightState, NextReduction,
                         globalNodeColumn))
  /\ topmostParsers' = Append(topmostParsers, FreshNode)
  /\ requests' = <<[parser |-> FreshNode, mustUseLink |-> NoLink]>>
  /\ owned' = owned + 1
  /\ pathQueue' = Tail(pathQueue)
  /\ UNCHANGED <<pc, lexVars, prevTopmost, globalNodeColumn, reduction, frames,
                 depthSweep, lastShiftLink, decs, resultVars>>

(* The loop that recomputes determinDepth over topmostParsers until a sweep*)
(* changes nothing.                                                        *)
SettleParser ==
  /\ pc = "settle" /\ depthSweep.next <= Len(topmostParsers)
  /\ LET n == topmostParsers[depthSweep.next]
         depth == ComputeDeterminDepth(n)
     IN  /\ node' = [node EXCEPT ![n].determinDepth = depth]
         /\ depthSweep' = [depthSweep EXCEPT
              !.next = @ + 1,
              !.changes = @ \/ depth # node[n].determinDepth]
  /\ UNCHANGED <<pc, lexVars, topmostParsers, prevTopmost, globalNodeColumn,
                 reduction, pathQueue, frames, requests, lastShiftLink, decs,
                 owned, resultVars>>

\* Variant of SettleSweepDone: 'changes' is not reset.
SettleSweepDone_KeepsChanges ==
  /\ pc = "settle" /\ depthSweep.next > Len(topmostParsers)
  /\ depthSweep' = [depthSweep EXCEPT !.next = 1]
  /\ pc' = IF depthSweep.changes THEN "settle" ELSE "reduce"
  /\ UNCHANGED <<lexVars, stackVars, reduction, pathQueue, frames, requests,
                 lastShiftLink, decs, owned, resultVars>>

SettleSweepDone ==
  /\ pc = "settle" /\ depthSweep.next > Len(topmostParsers)
  /\ depthSweep' = NoSweep
  /\ pc' = IF depthSweep.changes THEN "settle" ELSE "reduce"
  /\ UNCHANGED <<lexVars, stackVars, reduction, pathQueue, frames, requests,
                 lastShiftLink, decs, owned, resultVars>>

-----------------------------------------------------------------------------
(* rwlShiftTerminals: once the worklist is empty the topmost parsers become*)
(* prevTopmost, and those that can shift the token do.                     *)
StartShifts ==
  /\ pc = "reduce" /\ frames = << >> /\ requests = << >> /\ pathQueue = << >>
  /\ globalNodeColumn' = globalNodeColumn + 1
  /\ prevTopmost' = topmostParsers
  /\ topmostParsers' = << >>
  /\ lastShiftLink' = NoLink
  /\ pc' = "shift"
  /\ UNCHANGED <<lexVars, node, reduction, workVars, decs, owned, resultVars>>

Shifting == pc = "shift" /\ decs = << >> /\ prevTopmost # << >>
LeftSibling == prevTopmost[Len(prevTopmost)]
ShiftState == GetActionEntry(LeftSibling).shift
ShiftTarget == FindTopmostParser(ShiftState)
PrevTopmostPopped == SubSeq(prevTopmost, 1, Len(prevTopmost) - 1)

(* The first link takes the lexer's value, the later ones duplicate it.    *)
ShiftValue ==
  IF lastShiftLink = NoLink THEN TokenVal(lexer.type)
  ELSE node[lastShiftLink[1]].sibs[lastShiftLink[2]].sval

\* Variant of OwnedAfterShift: the first value is used by every link.
OwnedAfterShift_NoDuplicate == owned

OwnedAfterShift == IF lastShiftLink = NoLink THEN owned ELSE owned + 1

(* The parser dies: the reference of the local RCPtr is dropped.           *)
ShiftDies ==
  /\ Shifting /\ ShiftState = NoState
  /\ decs' = <<LeftSibling>>
  /\ prevTopmost' = PrevTopmostPopped
  /\ UNCHANGED <<pc, lexVars, node, topmostParsers, globalNodeColumn,
                 reduction, workVars, lastShiftLink, owned, resultVars>>

(* The left sibling loses the reference of prevTopmost and gains the one   *)
(* of the new link.                                                        *)
ShiftToNew ==
  /\ Shifting /\ ShiftState # NoState /\ ShiftTarget = Null
  /\ node' = With(node, FreshNode,
                  NodeOn(LeftSibling, ShiftState, ShiftValue,
                         globalNodeColumn))
  /\ topmostParsers' = Append(topmostParsers, FreshNode)
  /\ lastShiftLink' = <<FreshNode, 1>>
  /\ owned' = OwnedAfterShift
  /\ prevTopmost' = PrevTopmostPopped
  /\ UNCHANGED <<pc, lexVars, globalNodeColumn, reduction, workVars, decs,
                 resultVars>>

ShiftToExisting ==
  /\ Shifting /\ ShiftState # NoState /\ ShiftTarget # Null
  /\ node' = [node EXCEPT
                ![ShiftTarget].sibs =
                  Append(@, NewLink(LeftSibling, ShiftValue)),
                ![ShiftTarget].determinDepth = 0]
  /\ lastShiftLink' = <<ShiftTarget, Len(node[ShiftTarget].sibs) + 1>>
  /\ owned' = OwnedAfterShift
  /\ prevTopmost' = PrevTopmostPopped
  /\ UNCHANGED <<pc, lexVars, topmostParsers, globalNodeColumn, reduction,
                 workVars, decs, resultVars>>

(* If all active parsers have died, there was an error.                    *)
ShiftsDone ==
  /\ pc = "shift" /\ decs = << >> /\ prevTopmost = << >>
  /\ pc' = IF topmostParsers = << >> THEN "rejected" ELSE "next"
  /\ UNCHANGED <<lexVars, stackVars, reduction, workVars, lastShiftLink, decs,
                 owned, resultVars>>

-----------------------------------------------------------------------------
(* StackNode::decRefCt.  A node whose count reaches zero goes back to the  *)
(* pool: deinit deallocates the values of its links and drops the          *)
(* references they hold, those of leftSiblings first.                      *)
DropReference ==
  /\ decs # << >>
  /\ node[Head(decs)].referenceCount > 1
  /\ node' = [node EXCEPT ![Head(decs)].referenceCount = @ - 1]
  /\ decs' = Tail(decs)
  /\ UNCHANGED <<pc, lexVars, topmostParsers, prevTopmost, globalNodeColumn,
                 reduction, workVars, lastShiftLink, owned, resultVars>>

FreeNode ==
  /\ decs # << >>
  /\ node[Head(decs)].referenceCount = 1
  /\ LET sibs == node[Head(decs)].sibs
         len == Len(sibs)
     IN  /\ decs' = [k \in 1..len |-> sibs[len + 1 - k].sib] \o Tail(decs)
         /\ owned' = owned - len
  /\ node' = Without(node, Head(decs))
  /\ UNCHANGED <<pc, lexVars, topmostParsers, prevTopmost, globalNodeColumn,
                 reduction, workVars, lastShiftLink, resultVars>>

-----------------------------------------------------------------------------
(* The bottom of the token loop: stop after the last token, otherwise go   *)
(* on with a saved piece or ask the lexer for a token and its value.       *)
NextToken ==
  /\ pc = "next"
  /\ IF lexer.type = 0
     THEN /\ pc' = "cleanup"
          /\ UNCHANGED <<position, owned>>
     ELSE /\ pc' = "token"
          /\ IF savedTokens # << >>
             THEN UNCHANGED <<position, owned>>
             ELSE /\ position' = position + 1
                  /\ owned' = owned + 1
  /\ UNCHANGED <<text, savedTokens, lexer, stackVars, reduction, workVars,
                 lastShiftLink, decs, resultVars>>

(* cleanupAfterParse: the production Start -> Something EOF is reduced by  *)
(* hand, with a duplicate left in the two links, and the stack is released.*)
CleanupAfterParse ==
  /\ pc = "cleanup"
  /\ IF Len(topmostParsers) # 1
     THEN /\ pc' = "rejected"
          /\ UNCHANGED <<topmostParsers, decs, owned, treeTop>>
     ELSE LET last == node[topmostParsers[1]].sibs[1]
              something == node[last.sib].sibs[1]
          IN  /\ treeTop' = <<ReductionAction(FinalProduction,
                                <<something.sval, last.sval>>)>>
              /\ owned' = owned + 1
              /\ decs' = topmostParsers
              /\ topmostParsers' = << >>
              /\ pc' = "release"
  /\ UNCHANGED <<lexVars, node, prevTopmost, globalNodeColumn, reduction,
                 workVars, lastShiftLink, yieldThenMergeCt>>

Accept ==
  /\ pc = "release" /\ decs = << >>
  /\ pc' = "accepted"
  /\ UNCHANGED <<lexVars, stackVars, reduction, workVars, lastShiftLink, decs,
                 owned, resultVars>>

(* glrParse returns: the node pool is gone, the lists are emptied, and the *)
(* caller takes the tree.  The statistics go on counting.  An aborted parse,*)
(* which leaves glrParse by an exception, is the end of the program.       *)
Return ==
  /\ pc \in {"accepted", "rejected"}
  /\ pc' = "idle"
  /\ text' = << >> /\ position' = 1 /\ savedTokens' = << >>
  /\ lexer' = [type |-> 0, internalType |-> 0]
  /\ node' = << >> /\ topmostParsers' = << >> /\ prevTopmost' = << >>
  /\ globalNodeColumn' = 0
  /\ owned' = 0
  /\ lastShiftLink' = NoLink
  /\ treeTop' = << >>
  /\ UNCHANGED <<reduction, workVars, decs, yieldThenMergeCt>>

Aborted == pc = "aborted" /\ UNCHANGED vars

-----------------------------------------------------------------------------
MiniLR == \/ MiniLRError \/ MiniLRReduce \/ MiniLRPop
          \/ MiniLRPopAssertFails \/ MiniLRPush \/ MiniLRShift \/ FallBack

Enumerate == EnqueueReductions \/ ExtendPath \/ FinishPath

Reduce == \/ ReduceCancelled \/ ReduceMerge \/ ReduceAddLink
          \/ ReduceNewParser \/ SettleParser \/ SettleSweepDone

Shift == \/ StartShifts \/ ShiftDies \/ ShiftToNew \/ ShiftToExisting
         \/ ShiftsDone

Release == DropReference \/ FreeNode

Parse == \/ TakeToken \/ MiniLR \/ Enumerate \/ Reduce \/ Shift \/ Release
         \/ NextToken \/ CleanupAfterParse \/ Accept

Next == GlrParse \/ Parse \/ Return \/ Aborted

Spec == Init /\ [][Next]_vars

(* A parse runs to its end once it has started: glrParse is a call.        *)
FairSpec == Spec /\ WF_vars(Parse)
=============================================================================
