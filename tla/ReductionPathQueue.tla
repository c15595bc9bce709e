------------------------ MODULE ReductionPathQueue ------------------------
(***************************************************************************)
(* The class ReductionPathQueue (elkhound/glr.cc) on its pool of paths     *)
(* (ObjectPool, smbase/objpool.h), at the level of pointers.  A path is in *)
(* the sorted list that starts at 'top', in the free list that starts at   *)
(* 'head', or in the hands of the caller.  The two lists are linked through*)
(* the same word: next and nextInFreeList are a union.                     *)
(*                                                                         *)
(* The callers are rwlEnqueueReductions, which makes a prototype path,     *)
(* inserts copies of it and deletes it, and rwlProcessWorklist, which takes*)
(* one path at a time and deletes it when the reductions that its result   *)
(* enables have been enqueued.                                             *)
(***************************************************************************)
EXTENDS PathArrivals, FiniteSets

CONSTANTS
  RackSize,           \* the pool grows by this many paths, at least one
  NDebug              \* alloc leaves the link as it was

Null == 0

VARIABLES
  next,               \* the link of each path of the pool
  info,               \* the fields of each path
  top, head,          \* the two lists
  proto, path,        \* the prototype and the path taken, or Null
  new, prev,          \* insertPathCopy's p and the search's 'prev', or Null
  arrivals            \* how many paths were inserted

vars == <<next, info, top, head, proto, path, new, prev, arrivals>>

Paths == DOMAIN next

\* The fields of a path before init: the pool does not construct its paths.
Garbage == [prod |-> -1, startColumn |-> -1, arrival |-> -1]

Init ==
  /\ next = << >> /\ info = << >>
  /\ top = Null /\ head = Null
  /\ proto = Null /\ path = Null /\ new = Null /\ prev = Null
  /\ arrivals = 0

-----------------------------------------------------------------------------
(* ObjectPool.                                                             *)

(* ObjectPool::expandPool, on an empty free list: the rack is threaded from*)
(* its last path to its first.                                             *)
Expanded ==
  next \o [k \in 1..RackSize |->
             IF k = RackSize THEN Null ELSE Len(next) + k + 1]

(* ObjectPool::alloc yields path n and leaves these links and this head.   *)
Pool == IF head = Null THEN Expanded ELSE next
Allocated == IF head = Null THEN Len(next) + 1 ELSE head
AllocatedInfo(record) ==
  [k \in DOMAIN Pool |-> CASE k = Allocated -> record
                           [] k # Allocated /\ k \in Paths -> info[k]
                           [] OTHER -> Garbage]
AfterAlloc == IF NDebug THEN Pool ELSE [Pool EXCEPT ![Allocated] = Null]

\* Variant of Dealloc: the free list is cut off behind the path.
Dealloc_DropsList(n) ==
  /\ next' = [next EXCEPT ![n] = Null] /\ head' = n
  /\ info' = [info EXCEPT ![n] = Garbage]

(* ObjectPool::dealloc.  The fields stay in memory, but nobody may count on*)
(* them: they are the garbage that a later path starts with.               *)
Dealloc(n) ==
  /\ next' = [next EXCEPT ![n] = head] /\ head' = n
  /\ info' = [info EXCEPT ![n] = Garbage]

-----------------------------------------------------------------------------
(* ReductionPathQueue::newPath, for the prototype of a production.         *)
NewPath(prod) ==
  /\ proto = Null
  /\ proto' = Allocated
  /\ info' = AllocatedInfo([prod |-> prod, startColumn |-> -1, arrival |-> -1])
  /\ next' = AfterAlloc
  /\ head' = Pool[Allocated]
  /\ UNCHANGED <<top, path, new, prev, arrivals>>

(* insertPathCopy copies the prototype and fills in the left edge.  The    *)
(* copy is prepended when the list is empty or starts with a path that it  *)
(* precedes; otherwise the search starts at the top.                       *)
Copy(column) == [prod |-> info[proto].prod, startColumn |-> column,
                 arrival |-> arrivals]
GoesFirst(column) == top # Null => GoesBefore(Copy(column), info[top])

Copying(column) ==
  /\ proto # Null /\ new = Null
  /\ arrivals < MaxArrivals
  /\ info' = AllocatedInfo(Copy(column))
  /\ head' = Pool[Allocated]
  /\ UNCHANGED <<proto, path>>

InsertFirst(column) ==
  /\ Copying(column) /\ GoesFirst(column)
  /\ next' = [AfterAlloc EXCEPT ![Allocated] = top]
  /\ top' = Allocated
  /\ arrivals' = arrivals + 1
  /\ UNCHANGED <<new, prev>>

StartSearch(column) ==
  /\ Copying(column) /\ ~ GoesFirst(column)
  /\ next' = AfterAlloc
  /\ new' = Allocated /\ prev' = top
  /\ UNCHANGED <<top, arrivals>>

\* Variant of SearchGoesOn: the search looks at 'prev' itself.
SearchGoesOn_LooksBack ==
  next[prev] # Null /\ ~ GoesBefore(info[new], info[prev])

SearchGoesOn ==
  next[prev] # Null /\ ~ GoesBefore(info[new], info[next[prev]])

Search ==
  /\ new # Null /\ SearchGoesOn
  /\ prev' = next[prev]
  /\ UNCHANGED <<next, info, top, head, proto, path, new, arrivals>>

LinkedIn == [next EXCEPT ![new] = next[prev], ![prev] = new]

InsertAfter ==
  /\ new # Null /\ ~ SearchGoesOn
  /\ next' = LinkedIn
  /\ new' = Null /\ prev' = Null
  /\ arrivals' = arrivals + 1
  /\ UNCHANGED <<info, top, head, proto, path>>

(* The prototype is deleted when its paths are enqueued.                   *)
DeleteProto ==
  /\ proto # Null /\ new = Null
  /\ Dealloc(proto)
  /\ proto' = Null
  /\ UNCHANGED <<top, path, new, prev, arrivals>>

(* rwlProcessWorklist takes the top of the list, and deletes the path when *)
(* it has reduced it.                                                      *)
Dequeue ==
  /\ proto = Null /\ path = Null /\ top # Null
  /\ path' = top
  /\ top' = next[top]
  /\ UNCHANGED <<next, info, head, proto, new, prev, arrivals>>

DeletePath ==
  /\ proto = Null /\ path # Null
  /\ Dealloc(path)
  /\ path' = Null
  /\ UNCHANGED <<top, proto, new, prev, arrivals>>

Next ==
  \/ \E prod \in ProdIndex : NewPath(prod)
  \/ \E column \in Column : InsertFirst(column) \/ StartSearch(column)
  \/ Search \/ InsertAfter \/ DeleteProto \/ Dequeue \/ DeletePath

Spec == Init /\ [][Next]_vars

-----------------------------------------------------------------------------
(* The paths from 'start' along the links, Null after the last one.        *)
Walk(start) ==
  LET at[i \in Nat \ {0}] ==
        IF i = 1 THEN start
        ELSE IF at[i - 1] = Null THEN Null ELSE next[at[i - 1]]
  IN  [i \in 1..(Len(next) + 1) |-> at[i]]

Members(start) == {Walk(start)[i] : i \in DOMAIN Walk(start)} \ {Null}
ListLen(start) == Cardinality(Members(start))

(* Links lead to paths of the pool, and so do the pointers of the callers. *)
TypeOK ==
  /\ next \in Seq({Null} \cup Paths) /\ Len(info) = Len(next)
  /\ {top, head, proto, path, new, prev} \subseteq {Null} \cup Paths
  /\ arrivals \in 0..MaxArrivals

(* Each path of the pool is in one place: in the list, in the free list,   *)
(* or the caller's prototype, the path being reduced or the copy being     *)
(* inserted; and both lists end.  A path that is still used is never handed*)
(* out again, and none is lost.                                            *)
InHand == {proto, path, new} \ {Null}

EachPathInOnePlace ==
  /\ Walk(top)[Len(next) + 1] = Null /\ Walk(head)[Len(next) + 1] = Null
  /\ Members(top) \cap Members(head) = {}
  /\ (Members(top) \cup Members(head)) \cap InHand = {}
  /\ Members(top) \cup Members(head) \cup InHand = Paths
  /\ Cardinality(InHand) =
       Cardinality({v \in {1, 2, 3} : <<proto, path, new>>[v] # Null})
=============================================================================
