--------------------------- MODULE GLRProperties ---------------------------
(***************************************************************************)
(* What the parser core of module GLR maintains.                           *)
(***************************************************************************)
EXTENDS GLR

CONSTANTS
  Meaning(_),         \* << >>, or the sequence of the value of a text
  Items               \* the generator's items of a state: <<p, d>>, when it is
                      \* reached over the first d symbols of production p

(* The ways from a state to the next one on the stack.                     *)
Leads(s, t) ==
  \/ \E x \in TermIndex : ActionTable[s][x].shift = t
  \/ \E a \in NtIndex : GotoTable[s][a] = t

(* The tables are made from items (gramanl.cc) and do not keep them.  A    *)
(* reduction is by a complete item; what leads to an item has the item     *)
(* before its last symbol; a nonterminal that may be reduced to has a goto *)
(* where its productions start; and nothing leads to the start state.      *)
ASSUME ItemsAssumption ==
  /\ Items \in [StateId -> SUBSET (ProdIndex \X Nat)]
  /\ \A s \in StateId, x \in TermIndex :
       \A p \in {ActionTable[s][x].reds[r] : r \in DOMAIN ActionTable[s][x].reds} :
         p # FinalProduction /\ <<p, ProdInfo[p].rhsLen>> \in Items[s]
  /\ \A s, t \in StateId : Leads(s, t) =>
       /\ t # StartState
       /\ \A i \in Items[t] : i[2] > 0 => <<i[1], i[2] - 1>> \in Items[s]
  /\ \A s \in StateId : \A i \in Items[s] :
       i[2] = 0 /\ i[1] # FinalProduction =>
         GotoTable[s][ProdInfo[i[1]].lhsIndex] \in StateId
  /\ \A i \in Items[StartState] : i[2] = 0

(* The final production is Start -> Something EOF, and no other has an EOF:*)
(* a state for each of its items, the first of them the start state.       *)
ASSUME FinalItemsAssumption ==
  /\ \A s \in StateId, x \in {0, ToInternalType[0]} :
       ActionTable[s][x].shift # NoState =>
         <<FinalProduction, 2>> \in Items[ActionTable[s][x].shift]
  /\ \A s, t \in StateId, d \in 0..2 :
       <<FinalProduction, d>> \in Items[s] \cap Items[t] => s = t
  /\ \A s \in StateId : <<FinalProduction, 0>> \in Items[s] => s = StartState

(* The tables of a grammar without hidden left recursion: what is empty    *)
(* cannot be put on a state again and again.  'empty' are nonterminals that*)
(* derive the empty string, 'rest' the items whose remaining symbols do,   *)
(* and 'height' bounds how many empty nonterminals can follow on a state.  *)
NoEmptyLoop(empty, rest, height) ==
  /\ empty \subseteq NtIndex /\ height \in [StateId -> Nat]
  /\ \A p \in ProdIndex \ {FinalProduction} :
       /\ <<p, ProdInfo[p].rhsLen>> \in rest
       /\ <<p, 0>> \in rest => ProdInfo[p].lhsIndex \in empty
  /\ \A s \in StateId, a \in empty :
       GotoTable[s][a] \in StateId =>
         /\ height[GotoTable[s][a]] < height[s]
         /\ \A i \in Items[GotoTable[s][a]] :
              i \in rest /\ i[2] > 0 => <<i[1], i[2] - 1>> \in rest

Live == DOMAIN node

(* Every variable holds a value of its type; node is a finite map.         *)
TypeOK ==
  /\ pc \in {"idle", "token", "mini-LR", "pop", "reduce", "settle", "shift",
             "next", "cleanup", "release"} \cup Final
  /\ text \in Seq(Lexeme) /\ position \in Nat \ {0}
  /\ savedTokens \in Seq(TermIndex)
  /\ lexer \in [type : TermIndex, internalType : TermIndex]
  /\ Live \in SUBSET NodeId /\ IsFiniteSet(Live)
  /\ node \in [Live -> StackNode]
  /\ topmostParsers \in Seq(NodeId) /\ prevTopmost \in Seq(NodeId)
  /\ globalNodeColumn \in Nat
  /\ reduction \in [prod : ProdIndex, toPass : Seq(SVal)]
  /\ pathQueue \in Seq(Path)
  /\ frames \in Seq(Frame) /\ requests \in Seq(Request)
  /\ depthSweep \in [next : NodeId, changes : BOOLEAN]
  /\ lastShiftLink \in LinkRef \cup {NoLink}
  /\ decs \in Seq(NodeId)
  /\ owned \in Int
  /\ yieldThenMergeCt \in Nat
  /\ treeTop \in Seq(SVal)

(* The unique-state property of the comment at the top of glr.cc: no two   *)
(* active parsers are in the same state.                                   *)
UniqueState ==
  \A i, j \in DOMAIN topmostParsers :
    node[topmostParsers[i]].state = node[topmostParsers[j]].state => i = j

(* The links of all stack nodes, and the node that one points at.          *)
Links == UNION {{<<n, k>> : k \in DOMAIN node[n].sibs} : n \in Live}
Target(link) == node[link[1]].sibs[link[2]].sib

PlacesOf(n, list) == {i \in DOMAIN list : list[i] = n}

(* A stack node's count is the number of links that point at it plus the   *)
(* number of times it appears on a list (the comment on referenceCount in  *)
(* glr.h), and nothing refers to a node that went back to the pool.        *)
RefCountExact ==
  /\ \A link \in Links : Target(link) \in Live
  /\ \A list \in {topmostParsers, prevTopmost, decs} :
       \A i \in DOMAIN list : list[i] \in Live
  /\ \A n \in Live :
       node[n].referenceCount =
         Cardinality({link \in Links : Target(link) = n})
           + Cardinality(PlacesOf(n, topmostParsers))
           + Cardinality(PlacesOf(n, prevTopmost))
           + Cardinality(PlacesOf(n, decs))

(* The paths waiting for their reduction are paths of the stack: each link *)
(* still exists and leads to the node that owns the link to its left, and  *)
(* the leftmost one leads to the left edge.  ReductionPathQueue keeps plain*)
(* pointers to links and nodes, without a reference count.                 *)
QueuedPathsExist ==
  \A q \in DOMAIN pathQueue :
    LET p == pathQueue[q] IN
      /\ p.leftEdge \in Live
      /\ p.startColumn = node[p.leftEdge].column
      /\ \A i \in DOMAIN p.sibLinks :
           /\ p.sibLinks[i] \in Links
           /\ Target(p.sibLinks[i]) =
                IF i = 1 THEN p.leftEdge ELSE p.sibLinks[i - 1][1]

(* determinDepth is what computeDeterminDepth would answer, for every node *)
(* and not only where checkLocalInvariants looks: the mini-LR core pops    *)
(* that many nodes without looking at their other links.                   *)
DeterminDepthExact ==
  pc # "settle" =>
    \A n \in Live : node[n].determinDepth = ComputeDeterminDepth(n)

(* xassert and xassertdb of the nondeterministic core, and of the mini-LR  *)
(* core before it pops: the reference counts they expect, a column for     *)
(* firstSib wherever a path continues, one parser at the end, and unique   *)
(* links under the start symbol.                                           *)
AssertionsHold ==
  /\ pc = "mini-LR" /\ OneParser => node[TopParser].referenceCount = 1
  /\ pc = "shift" =>
       \A i \in DOMAIN topmostParsers :
         node[topmostParsers[i]].referenceCount = 1
  /\ pc = "reduce" /\ frames # << >> /\ Head(frames).popsRemaining > 0 =>
       node[Head(frames).currentNode].sibs # << >>
  /\ pc = "cleanup" =>
       /\ Len(topmostParsers) = 1
       /\ Len(node[TopParser].sibs) = 1
       /\ Len(node[node[TopParser].sibs[1].sib].sibs) = 1

(* The mini-LR core assumes that a node is referred to only from the node  *)
(* above it when it pops that one (xassertdb in its pop loop).             *)
PoppedLinkUnshared ==
  pc = "pop" /\ StillToPop => node[PoppedLink.sib].referenceCount = 1

(* Every link owns its semantic value, alone: what the parser has received *)
(* from the lexer and the user's actions, less what it has handed back, is *)
(* one value per link, plus the token that is not shifted yet, the values  *)
(* on their way to a mini-LR reduction, and the tree.                      *)
TokenUnclaimed ==
  \/ pc \in {"token", "mini-LR", "pop", "reduce", "settle"}
  \/ pc = "shift" /\ lastShiftLink = NoLink

ValuesOwnedOnce ==
  pc \notin {"idle", "rejected", "aborted"} =>
    owned = Cardinality(Links) + Len(reduction.toPass) + Len(treeTop)
              + (IF TokenUnclaimed THEN 1 ELSE 0)

(* A successful parse gives everything back: when glrParse returns the tree*)
(* no stack node is left and the tree is the only value alive.             *)
EverythingReleased == pc = "accepted" => node = << >> /\ owned = 1

(* A value is never merged after it has been yielded to a reduction (the   *)
(* claim of the RWL core, for grammars without cycles).                    *)
NoYieldThenMerge == yieldThenMergeCt = 0

(* The nodes reached from n over exactly len links.                        *)
LeftEdges(n, len) ==
  LET back[i \in 0..len] ==
        IF i = 0 THEN {n}
        ELSE {Target(l) : l \in {m \in Links : m[1] \in back[i - 1]}}
  IN  back[len]

(* When the worklist is empty every reduction that any parser can make over*)
(* any path of the stack has been made: its result is a parser with a link *)
(* to the left edge.  Re-examining only paths that use the new link misses *)
(* none.                                                                   *)
ReductionsComplete ==
  pc = "reduce" /\ frames = << >> /\ requests = << >> /\ pathQueue = << >> =>
    \A i \in DOMAIN topmostParsers :
      LET n == topmostParsers[i]
          reds == GetActionEntry(n).reds
      IN  \A r \in DOMAIN reds :
            \A left \in LeftEdges(n, ProdInfo[reds[r]].rhsLen) :
              \E j \in DOMAIN topmostParsers :
                /\ node[topmostParsers[j]].state = GotoState(left, reds[r])
                /\ LinksTo(topmostParsers[j], left) # {}

(* No step changes the shape of the stack below the current token: a node  *)
(* of an earlier column keeps its state and its links.                     *)
OldNodesFrozen ==
  [][\A n \in Live \cap DOMAIN node' :
       node[n].column < globalNodeColumn =>
         /\ node'[n].state = node[n].state
         /\ DOMAIN node'[n].sibs = DOMAIN node[n].sibs
         /\ \A k \in DOMAIN node[n].sibs :
              node'[n].sibs[k].sib = node[n].sibs[k].sib]_vars

(* Every parse that starts comes to its end.                               *)
ParseEnds == pc = "token" ~> pc \in Final

(* What the caller of glrParse sees is the abstract parser: the tables, the*)
(* two cores and their lists only decide how the value of the text, or the *)
(* answer that it has none, is found.                                      *)
Caller == INSTANCE Parser WITH
  status <- IF pc \in {"idle", "accepted", "rejected"} THEN pc ELSE "parsing",
  input <- text,
  result <- treeTop

ImplementsParser == Caller!Spec
=============================================================================
