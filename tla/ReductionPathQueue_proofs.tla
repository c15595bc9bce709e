---------------------- MODULE ReductionPathQueue_proofs ----------------------
(***************************************************************************)
(* Proofs about the worklist, first as the abstract queue and then as a    *)
(* list of pointers that shares its links with the free list of its pool:  *)
(* no path is lost or in two places, and the list implements the queue, for*)
(* every rack size, every order of paths and every number of them.  The    *)
(* order is a strict weak one, and the insertion of a path finds its place *)
(* and keeps the list sorted.                                              *)
(***************************************************************************)
EXTENDS MCReductionPathQueue, Orders_proofs

-----------------------------------------------------------------------------
(* The fields of a path that the order looks at.                           *)
IsPath(p) == p.prod \in ProdIndex /\ p.startColumn \in Nat

LEMMA OrdinalType ==
  ASSUME NEW p, IsPath(p)
  PROVE  Ordinal(p) \in Nat
BY ProdInfoAssumption, NontermOrderAssumption DEF Ordinal, IsPath

(* goesBefore is a strict weak order.                                      *)
LEMMA GoesBeforeIrreflexive ==
  ASSUME NEW p, IsPath(p)
  PROVE  ~ GoesBefore(p, p)
BY OrdinalType DEF GoesBefore, IsPath

LEMMA GoesBeforeAsymmetric ==
  ASSUME NEW p, NEW q, IsPath(p), IsPath(q), GoesBefore(p, q)
  PROVE  ~ GoesBefore(q, p)
BY OrdinalType DEF GoesBefore, IsPath

LEMMA NotBeforeTransitive ==
  ASSUME NEW p, NEW q, NEW r, IsPath(p), IsPath(q), IsPath(r),
         ~ GoesBefore(p, q), ~ GoesBefore(q, r)
  PROVE  ~ GoesBefore(p, r)
BY OrdinalType DEF GoesBefore, IsPath

-----------------------------------------------------------------------------
(* The search of insertPathCopy finds its place.                           *)
LEMMA InsertionPointFound ==
  ASSUME NEW Elem, NEW q \in Seq(Elem), NEW p
  PROVE  LET i == InsertionPoint(q, p) IN
           /\ i \in 1..(Len(q) + 1)
           /\ \A j \in 1..(i - 1) : ~ GoesBefore(p, q[j])
           /\ i <= Len(q) => GoesBefore(p, q[i])
<1> DEFINE T == {i \in 1..(Len(q) + 1) : i <= Len(q) => GoesBefore(p, q[i])}
<1>1. Len(q) \in Nat
  OBVIOUS
<1>2. Len(q) + 1 \in T /\ T \in SUBSET Nat
  BY <1>1
<1>3. PICK i \in T : \A j \in T : i <= j
  BY <1>2, LeastElement
<1>4. \A j \in 1..(i - 1) : ~ GoesBefore(p, q[j])
  BY <1>1, <1>3
<1>5. /\ i \in 1..(Len(q) + 1)
      /\ \A j \in 1..(i - 1) : ~ GoesBefore(p, q[j])
      /\ i <= Len(q) => GoesBefore(p, q[i])
  BY <1>3, <1>4
<1> QED
  BY <1>5 DEF InsertionPoint

(* The list that results: the paths before the insertion point, the new    *)
(* one, and the others moved by one.                                       *)
LEMMA InsertPathCopyShape ==
  ASSUME NEW Elem, NEW q \in Seq(Elem), NEW p \in Elem
  PROVE  LET r == InsertPathCopy(q, p)
             i == InsertionPoint(q, p)
         IN  /\ r \in Seq(Elem) /\ Len(r) = Len(q) + 1
             /\ i \in 1..(Len(q) + 1)
             /\ \A k \in 1..(i - 1) : r[k] = q[k] /\ k \in 1..Len(q)
             /\ r[i] = p
             /\ \A k \in (i + 1)..(Len(q) + 1) :
                  r[k] = q[k - 1] /\ k - 1 \in 1..Len(q)
<1> DEFINE i == InsertionPoint(q, p)
           r == InsertPathCopy(q, p)
<1>1. Len(q) \in Nat /\ i \in 1..(Len(q) + 1)
  BY InsertionPointFound
<1>2. r = [k \in 1..(Len(q) + 1) |->
             IF k < i THEN q[k] ELSE IF k = i THEN p ELSE q[k - 1]]
  BY DEF InsertPathCopy
<1> HIDE DEF i, r
<1>3. \A k \in 1..(Len(q) + 1) : r[k] \in Elem
  BY <1>1, <1>2
<1>4. r \in [1..(Len(q) + 1) -> Elem]
  BY <1>2, <1>3
<1>5. r \in Seq(Elem) /\ Len(r) = Len(q) + 1
  BY <1>1, <1>4
<1>6. /\ \A k \in 1..(i - 1) : r[k] = q[k] /\ k \in 1..Len(q)
      /\ r[i] = p
      /\ \A k \in (i + 1)..(Len(q) + 1) :
           r[k] = q[k - 1] /\ k - 1 \in 1..Len(q)
  BY <1>1, <1>2
<1> QED
  BY <1>1, <1>5, <1>6 DEF i, r

(* Insertion keeps the list sorted.                                        *)
LEMMA InsertPathCopySorted ==
  ASSUME NEW Elem, \A e \in Elem : IsPath(e),
         NEW q \in Seq(Elem), NEW p \in Elem, Sorted(q)
  PROVE  Sorted(InsertPathCopy(q, p))
<1> DEFINE i == InsertionPoint(q, p)
           r == InsertPathCopy(q, p)
<1>0. Len(q) \in Nat
  OBVIOUS
<1>1. /\ r \in Seq(Elem) /\ Len(r) = Len(q) + 1
      /\ i \in 1..(Len(q) + 1)
      /\ \A k \in 1..(i - 1) : r[k] = q[k] /\ k \in 1..Len(q)
      /\ r[i] = p
      /\ \A k \in (i + 1)..(Len(q) + 1) :
           r[k] = q[k - 1] /\ k - 1 \in 1..Len(q)
  BY InsertPathCopyShape
<1>2. /\ \A j \in 1..(i - 1) : ~ GoesBefore(p, q[j])
      /\ i <= Len(q) => GoesBefore(p, q[i])
  BY InsertionPointFound
<1> HIDE DEF i, r
<1> SUFFICES ASSUME NEW j \in 1..Len(r), NEW k \in 1..Len(r), j < k
             PROVE  ~ GoesBefore(r[k], r[j])
  BY DEF Sorted, r
<1>3. CASE k < i
  <2>1. r[j] = q[j] /\ r[k] = q[k] /\ j \in 1..Len(q) /\ k \in 1..Len(q)
    BY <1>0, <1>1, <1>3
  <2> QED
    BY <2>1 DEF Sorted
<1>4. CASE k = i
  <2>1. r[j] = q[j] /\ r[k] = p /\ j \in 1..(i - 1)
    BY <1>0, <1>1, <1>4
  <2> QED
    BY <2>1, <1>2
<1>5. CASE i < k
  <2>1. r[k] = q[k - 1] /\ k - 1 \in 1..Len(q) /\ q[k - 1] \in Elem
    BY <1>0, <1>1, <1>5
  <2>2. CASE j < i
    <3>1. r[j] = q[j] /\ j \in 1..Len(q) /\ j < k - 1
      BY <1>0, <1>1, <1>5, <2>2
    <3> QED
      BY <2>1, <3>1 DEF Sorted
  <2>3. CASE j = i
    \* p precedes q[i], and q[k - 1] does not precede q[i].
    <3>1. r[j] = p /\ i \in 1..Len(q) /\ q[i] \in Elem /\ i <= k - 1
      BY <1>0, <1>1, <1>5, <2>3
    <3>2. GoesBefore(p, q[i])
      BY <1>2, <3>1
    <3>3. ~ GoesBefore(q[k - 1], q[i])
      BY <2>1, <3>1, GoesBeforeIrreflexive DEF Sorted
    <3>4. ~ GoesBefore(q[i], p)
      BY <3>1, <3>2, GoesBeforeAsymmetric
    <3>5. ~ GoesBefore(q[k - 1], p)
      BY <2>1, <3>1, <3>3, <3>4, NotBeforeTransitive
    <3> QED
      BY <2>1, <3>1, <3>5
  <2>4. CASE i < j
    <3>1. r[j] = q[j - 1] /\ j - 1 \in 1..Len(q) /\ j - 1 < k - 1
      BY <1>0, <1>1, <2>4
    <3> QED
      BY <2>1, <3>1 DEF Sorted
  <2> QED
    BY <1>0, <1>1, <2>2, <2>3, <2>4
<1> QED
  BY <1>0, <1>1, <1>3, <1>4, <1>5

-----------------------------------------------------------------------------
(* The variables of the worklist always hold values of their types.        *)
THEOREM TypeCorrect == Spec => []TypeOK
<1>1. Init => TypeOK
  BY DEF Init, TypeOK
<1>2. TypeOK /\ [Next]_vars => TypeOK'
  <2> SUFFICES ASSUME TypeOK, [Next]_vars
               PROVE  TypeOK'
    OBVIOUS
  <2> USE DEF TypeOK
  <2>1. ASSUME NEW prod \in ProdIndex, NEW column \in Column,
               Insert(prod, column)
        PROVE  TypeOK'
    <3> DEFINE p == [prod |-> prod, startColumn |-> column,
                     arrival |-> arrivals]
    <3>1. p \in QueuedPath
      BY DEF QueuedPath
    <3>2. queue' \in Seq(QueuedPath)
      BY <2>1, <3>1, InsertPathCopyShape DEF Insert
    <3> QED
      BY <2>1, <3>2 DEF Insert
  <2>2. CASE Dequeue
    BY <2>2 DEF Dequeue
  <2>3. CASE Delete
    BY <2>3 DEF Delete
  <2>4. CASE UNCHANGED vars
    BY <2>4 DEF vars
  <2> QED
    BY <2>1, <2>2, <2>3, <2>4 DEF Next
<1> QED
  BY <1>1, <1>2, PTL DEF Spec

LEMMA QueuedPathsArePaths == \A e \in QueuedPath : IsPath(e)
BY ColumnAssumption DEF QueuedPath, IsPath

(* Removing the first path keeps the list sorted.                          *)
LEMMA TailSorted ==
  ASSUME NEW Elem, NEW q \in Seq(Elem), q # << >>, Sorted(q)
  PROVE  Sorted(Tail(q))
<1>1. /\ Tail(q) \in Seq(Elem) /\ Len(Tail(q)) = Len(q) - 1
      /\ \A i \in 1..Len(Tail(q)) :
           Tail(q)[i] = q[i + 1] /\ i + 1 \in 1..Len(q)
  OBVIOUS
<1> QED
  BY <1>1 DEF Sorted

(* The list of ReductionPathQueue is sorted by goesBefore at all times, for*)
(* any order of nonterminals and however insertions and removals alternate.*)
THEOREM QueueAlwaysSorted == Spec => []QueueSorted
<1>1. Init => QueueSorted
  BY DEF Init, QueueSorted, Sorted
<1>2. TypeOK /\ QueueSorted /\ [Next]_vars => QueueSorted'
  <2> SUFFICES ASSUME TypeOK, QueueSorted, [Next]_vars
               PROVE  QueueSorted'
    OBVIOUS
  <2> USE DEF TypeOK, QueueSorted
  <2>1. ASSUME NEW prod \in ProdIndex, NEW column \in Column,
               Insert(prod, column)
        PROVE  QueueSorted'
    <3> DEFINE p == [prod |-> prod, startColumn |-> column,
                     arrival |-> arrivals]
    <3>1. p \in QueuedPath
      BY DEF QueuedPath
    <3>2. Sorted(InsertPathCopy(queue, p))
      BY <3>1, QueuedPathsArePaths, InsertPathCopySorted
    <3> QED
      BY <2>1, <3>2 DEF Insert
  <2>2. CASE Dequeue
    BY <2>2, TailSorted DEF Dequeue
  <2>3. CASE Delete
    BY <2>3 DEF Delete
  <2>4. CASE UNCHANGED vars
    BY <2>4 DEF vars
  <2> QED
    BY <2>1, <2>2, <2>3, <2>4 DEF Next
<1> QED
  BY <1>1, <1>2, TypeCorrect, PTL DEF Spec

(* Ties leave the list in the order in which they came.  That needs the    *)
(* list to be sorted, and no queued path to be from the future.            *)
ArrivalsPast == \A i \in 1..Len(queue) : queue[i].arrival < arrivals

FifoInv == TypeOK /\ QueueSorted /\ ArrivalsPast /\ TiesInArrivalOrder

LEMMA InsertKeepsFifo ==
  ASSUME FifoInv, NEW prod \in ProdIndex, NEW column \in Column,
         Insert(prod, column)
  PROVE  ArrivalsPast' /\ TiesInArrivalOrder'
<1> USE DEF FifoInv, TypeOK
<1> DEFINE p == [prod |-> prod, startColumn |-> column, arrival |-> arrivals]
           i == InsertionPoint(queue, p)
           r == InsertPathCopy(queue, p)
<1>1. p \in QueuedPath /\ p.arrival = arrivals
  BY DEF QueuedPath
<1>2. /\ r \in Seq(QueuedPath) /\ Len(r) = Len(queue) + 1
      /\ i \in 1..(Len(queue) + 1)
      /\ \A k \in 1..(i - 1) : r[k] = queue[k] /\ k \in 1..Len(queue)
      /\ r[i] = p
      /\ \A k \in (i + 1)..(Len(queue) + 1) :
           r[k] = queue[k - 1] /\ k - 1 \in 1..Len(queue)
  BY <1>1, InsertPathCopyShape
<1>3. i <= Len(queue) => GoesBefore(p, queue[i])
  BY InsertionPointFound
<1>4. queue' = r /\ arrivals' = arrivals + 1
  BY DEF Insert
<1>5. /\ Len(queue) \in Nat /\ arrivals \in Nat
      /\ \A k \in 1..Len(queue) :
           /\ queue[k] \in QueuedPath /\ IsPath(queue[k])
           /\ queue[k].arrival \in Nat /\ queue[k].arrival < arrivals
  <2>1. Len(queue) \in Nat /\ \A k \in 1..Len(queue) : queue[k] \in QueuedPath
    OBVIOUS
  <2>2. \A e \in QueuedPath : e.arrival \in Nat
    BY DEF QueuedPath
  <2> QED
    BY <2>1, <2>2, QueuedPathsArePaths DEF ArrivalsPast
<1>6. IsPath(p)
  BY <1>1, QueuedPathsArePaths
<1> HIDE DEF p, i, r, FifoInv, TypeOK
<1>7. \A k \in 1..Len(r) : r[k].arrival < arrivals + 1
  <2> TAKE k \in 1..Len(r)
  <2>1. CASE k < i
    BY <1>2, <1>5, <2>1
  <2>2. CASE k = i
    BY <1>1, <1>2, <1>5, <2>2
  <2>3. CASE i < k
    <3>1. k \in (i + 1)..(Len(queue) + 1)
      BY <1>2, <1>5, <2>3
    <3>2. r[k] = queue[k - 1] /\ k - 1 \in 1..Len(queue)
      BY <1>2, <3>1
    <3> QED
      BY <1>5, <3>2
  <2> QED
    BY <1>2, <2>1, <2>2, <2>3
<1>8. ASSUME NEW j \in 1..Len(r), NEW k \in 1..Len(r), j < k,
             ~ GoesBefore(r[j], r[k])
      PROVE  r[j].arrival < r[k].arrival
  <2>1. CASE k < i
    BY <1>2, <1>5, <1>8, <2>1 DEF TiesInArrivalOrder, FifoInv
  <2>2. CASE k = i
    <3>1. r[k] = p /\ r[j] = queue[j] /\ j \in 1..Len(queue)
      BY <1>2, <1>5, <1>8, <2>2
    <3> QED
      BY <1>1, <1>5, <3>1
  <2>3. CASE i < k /\ j < i
    <3>0. k \in (i + 1)..(Len(queue) + 1) /\ j \in 1..(i - 1) /\ j < k - 1
      BY <1>2, <1>5, <2>3
    <3>1. /\ r[k] = queue[k - 1] /\ k - 1 \in 1..Len(queue)
          /\ r[j] = queue[j] /\ j \in 1..Len(queue) /\ j < k - 1
      BY <1>2, <3>0
    <3> QED
      BY <1>8, <3>1 DEF TiesInArrivalOrder, FifoInv
  <2>4. CASE i < k /\ j = i
    \* p precedes queue[i], so it also precedes every path behind that one.
    <3>1. /\ r[k] = queue[k - 1] /\ k - 1 \in 1..Len(queue)
          /\ r[j] = p /\ i \in 1..Len(queue) /\ i <= k - 1
      BY <1>2, <1>5, <2>4
    <3>2. GoesBefore(p, queue[i])
      BY <1>3, <3>1
    <3>3. ~ GoesBefore(queue[k - 1], queue[i])
      BY <1>5, <3>1, GoesBeforeIrreflexive DEF QueueSorted, Sorted, FifoInv
    <3>4. ~ GoesBefore(p, queue[k - 1])
      BY <1>8, <3>1
    <3>5. ~ GoesBefore(p, queue[i])
      BY <1>5, <1>6, <3>1, <3>3, <3>4, NotBeforeTransitive
    <3> QED
      BY <3>2, <3>5
  <2>5. CASE i < k /\ i < j
    <3>1. /\ r[k] = queue[k - 1] /\ k - 1 \in 1..Len(queue)
          /\ r[j] = queue[j - 1] /\ j - 1 \in 1..Len(queue) /\ j - 1 < k - 1
      BY <1>2, <1>5, <1>8, <2>5
    <3> QED
      BY <1>8, <3>1 DEF TiesInArrivalOrder, FifoInv
  <2> QED
    BY <1>2, <1>5, <2>1, <2>2, <2>3, <2>4, <2>5
<1> QED
  BY <1>4, <1>7, <1>8 DEF ArrivalsPast, TiesInArrivalOrder

(* Reductions to the same nonterminal over the same tokens are done in the *)
(* order in which their paths were found.                                  *)
THEOREM TiesAlwaysInArrivalOrder == Spec => []TiesInArrivalOrder
<1>1. Init => ArrivalsPast /\ TiesInArrivalOrder
  BY DEF Init, ArrivalsPast, TiesInArrivalOrder
<1>2. FifoInv /\ [Next]_vars => (ArrivalsPast /\ TiesInArrivalOrder)'
  <2> SUFFICES ASSUME FifoInv, [Next]_vars
               PROVE  ArrivalsPast' /\ TiesInArrivalOrder'
    OBVIOUS
  <2>1. ASSUME NEW prod \in ProdIndex, NEW column \in Column,
               Insert(prod, column)
        PROVE  ArrivalsPast' /\ TiesInArrivalOrder'
    BY <2>1, InsertKeepsFifo
  <2>2. CASE Dequeue
    <3>1. /\ Len(queue') = Len(queue) - 1 /\ arrivals' = arrivals
          /\ \A k \in 1..Len(queue') :
               queue'[k] = queue[k + 1] /\ k + 1 \in 1..Len(queue)
      BY <2>2 DEF Dequeue, FifoInv, TypeOK
    <3>2. ArrivalsPast'
      BY <3>1 DEF ArrivalsPast, FifoInv
    <3>3. TiesInArrivalOrder'
      BY <3>1 DEF TiesInArrivalOrder, FifoInv
    <3> QED
      BY <3>2, <3>3
  <2>3. CASE Delete
    BY <2>3 DEF Delete, FifoInv, ArrivalsPast, TiesInArrivalOrder
  <2>4. CASE UNCHANGED vars
    BY <2>4 DEF vars, FifoInv, ArrivalsPast, TiesInArrivalOrder
  <2> QED
    BY <2>1, <2>2, <2>3, <2>4 DEF Next
<1>3. Spec => [](ArrivalsPast /\ TiesInArrivalOrder)
  BY <1>1, <1>2, TypeCorrect, QueueAlwaysSorted, PTL DEF Spec, FifoInv
<1> QED
  BY <1>3, PTL

-----------------------------------------------------------------------------
(* The list.                                                               *)
(* The paths s[1], ..., s[n] hang together from 'start' by the links nx.   *)
Chain(nx, s, n, start) ==
  /\ n \in Nat /\ s \in [1..n -> DOMAIN nx]
  /\ start = IF n = 0 THEN List!Null ELSE s[1]
  /\ \A i \in 1..n : nx[s[i]] = IF i = n THEN List!Null ELSE s[i + 1]
  /\ \A i, j \in 1..n : s[i] = s[j] => i = j
Linked(s, n) == {s[i] : i \in 1..n}

(* The two lists and what is in the hands of the callers are a partition of*)
(* the pool.                                                               *)
Partition(q, n, f, m) ==
  /\ Linked(q, n) \cap Linked(f, m) = {}
  /\ (Linked(q, n) \cup Linked(f, m)) \cap List!InHand = {}
  /\ Linked(q, n) \cup Linked(f, m) \cup List!InHand = DOMAIN next
  /\ proto # List!Null => proto # path /\ proto # new
  /\ path # List!Null => path # new

(* The search has passed only paths that the copy does not precede.        *)
Searching(q, n) ==
  /\ proto # List!Null
  /\ arrivals < MaxArrivals
  /\ \E column \in Column : info[new] = List!Copy(column)
  /\ \E k \in 1..n :
       prev = q[k] /\ \A j \in 1..k : ~ GoesBefore(info[new], info[q[j]])

(* The pool, with the paths of the list in q and those of the free list in *)
(* f.                                                                      *)
Shape(q, n, f, m) ==
  /\ Len(next) \in Nat
  /\ next = [k \in 1..Len(next) |-> next[k]]
  /\ info = [k \in 1..Len(next) |-> info[k]]
  /\ Chain(next, q, n, top) /\ Chain(next, f, m, head)
  /\ Partition(q, n, f, m)
  /\ proto # List!Null => info[proto].prod \in ProdIndex
  /\ new # List!Null => Searching(q, n)

(* What the list stands for.                                               *)
Stands(q, n) ==
  /\ queue = [i \in 1..n |-> info[q[i]]]
  /\ taken = TakenFromList

IInvList == \E q, n, f, m : Shape(q, n, f, m) /\ Stands(q, n)

-----------------------------------------------------------------------------
(* The links from the start of a chain lead through it and then nowhere.   *)
LEMMA WalkOfChain ==
  ASSUME NEW s, NEW n, NEW start, Chain(next, s, n, start),
         Len(next) \in Nat, DOMAIN next = 1..Len(next)
  PROVE  List!Walk(start) =
           [i \in 1..(Len(next) + 1) |-> IF i <= n THEN s[i] ELSE List!Null]
<1> DEFINE Pos == Nat \ {0}
           F(a) == [i \in Pos |-> IF i = 1 THEN start
                                  ELSE IF a[i - 1] = List!Null THEN List!Null
                                  ELSE next[a[i - 1]]]
           g == [i \in Pos |-> IF i <= n THEN s[i] ELSE List!Null]
           at == CHOOSE a : a = F(a)
<1>1. /\ n \in Nat /\ s \in [1..n -> 1..Len(next)]
      /\ start = IF n = 0 THEN 0 ELSE s[1]
      /\ \A i \in 1..n : next[s[i]] = IF i = n THEN 0 ELSE s[i + 1]
  BY DEF Chain, List!Null
<1>2. g = F(g)
  <2>1. ASSUME NEW i \in Pos PROVE g[i] = F(g)[i]
    <3>1. CASE i = 1
      BY <3>1, <1>1 DEF List!Null
    <3>2. CASE i # 1 /\ i <= n
      <4>1. i - 1 \in 1..n /\ i - 1 # n /\ i - 1 \in Pos /\ i - 1 + 1 = i
        BY <3>2, <1>1
      <4>2. g[i - 1] = s[i - 1] /\ s[i - 1] \in 1..Len(next)
        BY <4>1, <1>1
      <4>3. next[s[i - 1]] = s[i]
        BY <4>1, <1>1
      <4> QED
        BY <3>2, <4>1, <4>2, <4>3 DEF List!Null
    <3>3. CASE i # 1 /\ i = n + 1
      <4>1. i - 1 = n /\ n \in 1..n /\ n \in Pos /\ ~ (i <= n)
        BY <3>3, <1>1
      <4>2. g[i - 1] = s[n] /\ s[n] \in 1..Len(next)
        BY <4>1, <1>1
      <4>3. next[s[n]] = 0
        BY <4>1, <1>1
      <4> QED
        BY <3>3, <4>1, <4>2, <4>3 DEF List!Null
    <3>4. CASE i > n + 1
      <4>1. i - 1 \in Pos /\ ~ (i - 1 <= n) /\ ~ (i <= n) /\ i # 1
        BY <3>4, <1>1
      <4> QED
        BY <4>1
    <3> QED
      BY <3>1, <3>2, <3>3, <3>4, <1>1
  <2> HIDE DEF Pos
  <2>2. g = [i \in Pos |-> g[i]] /\ F(g) = [i \in Pos |-> F(g)[i]]
    OBVIOUS
  <2> HIDE DEF g, F
  <2> QED
    BY <2>1, <2>2
<1>3. at = F(at)
  <2> HIDE DEF g, F
  <2> QED
    BY <1>2
<1>4. \A i \in Pos : at[i] = g[i]
  <2> DEFINE T == {i \in Pos : at[i] # g[i]}
  <2>1. SUFFICES ASSUME T # {} PROVE FALSE
    OBVIOUS
  <2>2. T \in SUBSET Nat
    OBVIOUS
  <2>3. PICK i \in T : \A j \in T : i <= j
    <3> HIDE DEF T
    <3> QED
      BY <2>1, <2>2, LeastElement
  <2>4. i \in Pos /\ at[i] # g[i]
    BY <2>3
  <2>5. at[i] = F(at)[i] /\ g[i] = F(g)[i]
    <3> HIDE DEF at, g, F
    <3> QED
      BY <1>2, <1>3
  <2>6. i # 1 => i - 1 \in Pos /\ ~ (i <= i - 1)
    BY <2>4
  <2>7. i # 1 => at[i - 1] = g[i - 1]
    <3> HIDE DEF at, g, F
    <3> QED
      BY <2>3, <2>6
  <2>8. F(at)[i] = F(g)[i]
    <3> HIDE DEF at, g
    <3> QED
      BY <2>4, <2>7
  <2> HIDE DEF F, g, at
  <2> QED
    BY <2>4, <2>5, <2>8
<1>5. List!Walk(start) = [i \in 1..(Len(next) + 1) |-> at[i]]
  BY DEF List!Walk
<1>6. \A i \in 1..(Len(next) + 1) : i \in Pos
  OBVIOUS
<1>7. \A i \in Pos : g[i] = IF i <= n THEN s[i] ELSE List!Null
  OBVIOUS
<1> HIDE DEF at, g, F, Pos
<1> QED
  BY <1>4, <1>5, <1>6, <1>7

(* A chain has no more paths than there are.                               *)
LEMMA ChainFits ==
  ASSUME NEW nx, NEW N \in Nat, DOMAIN nx = 1..N,
         NEW s, NEW n, NEW start, Chain(nx, s, n, start)
  PROVE  n <= N
<1>1. n \in Nat /\ s \in [1..n -> 1..N] /\ \A i, j \in 1..n : s[i] = s[j] => i = j
  BY DEF Chain
<1>2. s \in Injection(1..n, 1..N)
  BY <1>1 DEF Injection, IsInjective
<1>3. /\ IsFiniteSet(1..N) /\ Cardinality(1..N) = N
      /\ IsFiniteSet(1..n) /\ Cardinality(1..n) = n
  BY <1>1, FS_Interval
<1> QED
  BY <1>2, <1>3, FS_Injection

LEMMA SameCardinality ==
  ASSUME NEW S
  PROVE  List!Cardinality(S) = Cardinality(S)
BY Zenon DEF List!Cardinality, Cardinality

LEMMA ChainCounted ==
  ASSUME NEW nx, NEW s, NEW n, NEW start, Chain(nx, s, n, start)
  PROVE  Cardinality(Linked(s, n)) = n
<1>1. n \in Nat /\ s \in [1..n -> DOMAIN nx] /\ \A i, j \in 1..n : s[i] = s[j] => i = j
  BY DEF Chain
<1>2. s \in Bijection(1..n, Linked(s, n))
  BY <1>1 DEF Bijection, Injection, Surjection, IsInjective, Linked
<1> QED
  BY <1>1, <1>2, FS_CountingElements DEF ExistsBijection

(* So a chain is what going along the links finds.                         *)
LEMMA ListOfChain ==
  ASSUME NEW s, NEW n, NEW start, Chain(next, s, n, start),
         Len(next) \in Nat, DOMAIN next = 1..Len(next)
  PROVE  /\ List!Members(start) = Linked(s, n)
         /\ List!ListLen(start) = n
         /\ List!Walk(start)[Len(next) + 1] = List!Null
         /\ \A i \in 1..n : List!Walk(start)[i] = s[i]
<1> DEFINE w == List!Walk(start)
           N == Len(next)
<1>1. w = [i \in 1..(N + 1) |-> IF i <= n THEN s[i] ELSE List!Null]
  BY WalkOfChain
<1>2. n <= N /\ n \in Nat /\ s \in [1..n -> 1..N]
  <2>1. n <= N
    BY ChainFits
  <2> QED
    BY <2>1 DEF Chain
<1> HIDE DEF w
<1>3. \A i \in 1..n : i \in 1..(N + 1) /\ w[i] = s[i] /\ s[i] # 0
  BY <1>1, <1>2
<1>4. w[N + 1] = List!Null
  BY <1>1, <1>2
<1>5. List!Members(start) = Linked(s, n)
  <2>1. List!Members(start) = {w[i] : i \in 1..(N + 1)} \ {0}
    BY <1>1 DEF List!Members, w, List!Null
  <2>2. \A i \in 1..(N + 1) : w[i] # 0 => i \in 1..n
    BY <1>1, <1>2 DEF List!Null
  <2> QED
    BY <2>1, <2>2, <1>3 DEF Linked
<1>6. List!ListLen(start) = n
  BY <1>5, ChainCounted, SameCardinality DEF List!ListLen
<1> QED
  BY <1>3, <1>4, <1>5, <1>6 DEF w

(* What the list stands for is in the order of the chain.                  *)
Seen ==
  \A q, n, f, m : Shape(q, n, f, m) => QueueOfList = [i \in 1..n |-> info[q[i]]]

LEMMA ListSeen == Seen
<1> SUFFICES ASSUME NEW q, NEW n, NEW f, NEW m, Shape(q, n, f, m)
             PROVE  QueueOfList = [i \in 1..n |-> info[q[i]]]
  BY DEF Seen
<1>1. /\ Len(next) \in Nat /\ DOMAIN next = 1..Len(next)
      /\ Chain(next, q, n, top)
  BY DEF Shape
<1>2. List!ListLen(top) = n /\ \A i \in 1..n : List!Walk(top)[i] = q[i]
  BY <1>1, ListOfChain
<1> QED
  BY <1>2 DEF QueueOfList

-----------------------------------------------------------------------------
(* Chains: links elsewhere do not matter; a path is pushed, popped or put  *)
(* behind another one.                                                     *)
LEMMA ChainFrame ==
  ASSUME NEW nx, NEW s, NEW n, NEW start, Chain(nx, s, n, start),
         NEW nx2, DOMAIN nx \subseteq DOMAIN nx2,
         \A x \in Linked(s, n) : nx2[x] = nx[x]
  PROVE  Chain(nx2, s, n, start)
<1>1. n \in Nat /\ s \in [1..n -> DOMAIN nx]
  BY DEF Chain
<1>2. s \in [1..n -> DOMAIN nx2]
  BY <1>1
<1>3. \A i \in 1..n : nx2[s[i]] = nx[s[i]]
  BY DEF Linked
<1> QED
  BY <1>2, <1>3 DEF Chain

Pushed(s, n, x) == [i \in 1..(n + 1) |-> IF i = 1 THEN x ELSE s[i - 1]]

LEMMA ChainPush ==
  ASSUME NEW nx, NEW s, NEW n, NEW start, Chain(nx, s, n, start),
         NEW nx2, DOMAIN nx \subseteq DOMAIN nx2,
         NEW x \in DOMAIN nx2, x \notin Linked(s, n), nx2[x] = start,
         \A y \in Linked(s, n) : nx2[y] = nx[y]
  PROVE  /\ Chain(nx2, Pushed(s, n, x), n + 1, x)
         /\ Linked(Pushed(s, n, x), n + 1) = Linked(s, n) \cup {x}
<1> DEFINE t == Pushed(s, n, x)
<1>1. /\ n \in Nat /\ s \in [1..n -> DOMAIN nx2]
      /\ start = IF n = 0 THEN List!Null ELSE s[1]
      /\ \A i \in 1..n : nx2[s[i]] = IF i = n THEN List!Null ELSE s[i + 1]
      /\ \A i, j \in 1..n : s[i] = s[j] => i = j
  <2>1. Chain(nx2, s, n, start)
    BY ChainFrame
  <2> QED
    BY <2>1 DEF Chain
<1>2. \A i \in 1..n : x # s[i]
  BY DEF Linked
<1>3. \A i \in 1..(n + 1) : i = 1 \/ i - 1 \in 1..n
  BY <1>1
<1>4. /\ t \in [1..(n + 1) -> DOMAIN nx2] /\ t[1] = x
      /\ \A i \in 1..(n + 1) : t[i] = IF i = 1 THEN x ELSE s[i - 1]
      /\ \A i \in 1..n : t[i + 1] = s[i]
  <2>1. \A i \in 1..n : i + 1 \in 1..(n + 1) /\ i + 1 # 1 /\ i + 1 - 1 = i
    BY <1>1
  <2>2. 1 \in 1..(n + 1)
    BY <1>1
  <2> QED
    BY <1>1, <1>3, <2>1, <2>2 DEF Pushed
<1> HIDE DEF t
<1>5. \A i \in 1..(n + 1) : nx2[t[i]] = IF i = n + 1 THEN List!Null ELSE t[i + 1]
  <2> SUFFICES ASSUME NEW i \in 1..(n + 1)
               PROVE  nx2[t[i]] = IF i = n + 1 THEN List!Null ELSE t[i + 1]
    OBVIOUS
  <2>1. CASE i = 1
    BY <2>1, <1>1, <1>4
  <2>2. CASE i # 1
    <3>1. i - 1 \in 1..n /\ (i # n + 1 => i \in 1..n /\ i - 1 # n /\ i - 1 + 1 = i)
      BY <2>2, <1>1
    <3>2. i = n + 1 => i - 1 = n
      BY <1>1
    <3> QED
      BY <2>2, <3>1, <3>2, <1>1, <1>4
  <2> QED
    BY <2>1, <2>2
<1>6. \A i, j \in 1..(n + 1) : t[i] = t[j] => i = j
  <2> SUFFICES ASSUME NEW i \in 1..(n + 1), NEW j \in 1..(n + 1), t[i] = t[j]
               PROVE  i = j
    OBVIOUS
  <2>1. i # 1 /\ j # 1 => i - 1 = j - 1
    BY <1>1, <1>3, <1>4
  <2>2. i = 1 <=> j = 1
    BY <1>2, <1>3, <1>4
  <2> QED
    BY <2>1, <2>2, <1>1
<1>7. Chain(nx2, t, n + 1, x)
  <2>1. n + 1 \in Nat /\ n + 1 # 0
    BY <1>1
  <2> QED
    BY <2>1, <1>4, <1>5, <1>6 DEF Chain
<1>8. Linked(t, n + 1) = Linked(s, n) \cup {x}
  <2>1. \A i \in 1..(n + 1) : t[i] \in Linked(s, n) \cup {x}
    BY <1>3, <1>4 DEF Linked
  <2>2. \A i \in 1..n : s[i] \in Linked(t, n + 1)
    <3>1. \A i \in 1..n : i + 1 \in 1..(n + 1)
      BY <1>1
    <3> QED
      BY <3>1, <1>4 DEF Linked
  <2>3. x \in Linked(t, n + 1)
    <3>1. 1 \in 1..(n + 1)
      BY <1>1
    <3> QED
      BY <3>1, <1>4 DEF Linked
  <2> QED
    BY <2>1, <2>2, <2>3 DEF Linked
<1> QED
  BY <1>7, <1>8 DEF t

Popped(s, n) == [i \in 1..(n - 1) |-> s[i + 1]]

LEMMA ChainPop ==
  ASSUME NEW nx, NEW s, NEW n, NEW start, Chain(nx, s, n, start),
         start # List!Null
  PROVE  /\ start \in Linked(s, n) /\ n > 0 /\ start = s[1]
         /\ Chain(nx, Popped(s, n), n - 1, nx[start])
         /\ Linked(Popped(s, n), n - 1) = Linked(s, n) \ {start}
         /\ \A i \in 1..(n - 1) : Popped(s, n)[i] = s[i + 1]
<1> DEFINE t == Popped(s, n)
<1>1. /\ n \in Nat /\ s \in [1..n -> DOMAIN nx]
      /\ start = IF n = 0 THEN List!Null ELSE s[1]
      /\ \A i \in 1..n : nx[s[i]] = IF i = n THEN List!Null ELSE s[i + 1]
      /\ \A i, j \in 1..n : s[i] = s[j] => i = j
  BY DEF Chain
<1>2. n > 0 /\ start = s[1] /\ 1 \in 1..n /\ n - 1 \in Nat
  BY <1>1
<1>3. \A i \in 1..(n - 1) : i \in 1..n /\ i + 1 \in 1..n /\ (i + 1 = n <=> i = n - 1)
  BY <1>1
<1>4. t \in [1..(n - 1) -> DOMAIN nx] /\ \A i \in 1..(n - 1) : t[i] = s[i + 1]
  BY <1>1, <1>3 DEF Popped
<1> HIDE DEF t
<1>5. Chain(nx, t, n - 1, nx[start])
  <2>1. nx[start] = IF n - 1 = 0 THEN List!Null ELSE t[1]
    <3>1. n # 1 => 1 \in 1..(n - 1)
      BY <1>1, <1>2
    <3> QED
      BY <3>1, <1>1, <1>2, <1>4
  <2>2. \A i \in 1..(n - 1) : nx[t[i]] = IF i = n - 1 THEN List!Null ELSE t[i + 1]
    <3>1. \A i \in 1..(n - 1) : i # n - 1 => i + 1 \in 1..(n - 1)
      BY <1>1
    <3> QED
      BY <3>1, <1>1, <1>3, <1>4
  <2>3. \A i, j \in 1..(n - 1) : t[i] = t[j] => i = j
    BY <1>1, <1>3, <1>4
  <2> QED
    BY <2>1, <2>2, <2>3, <1>2, <1>4 DEF Chain
<1>6. Linked(t, n - 1) = Linked(s, n) \ {start}
  <2>1. \A i \in 1..(n - 1) : t[i] \in Linked(s, n) /\ t[i] # start
    <3>1. \A i \in 1..(n - 1) : i + 1 # 1
      OBVIOUS
    <3> QED
      BY <3>1, <1>1, <1>2, <1>3, <1>4 DEF Linked
  <2>2. \A i \in 1..n : s[i] # start => s[i] \in Linked(t, n - 1)
    <3>1. \A i \in 1..n : i # 1 => i - 1 \in 1..(n - 1) /\ i - 1 + 1 = i
      BY <1>1
    <3>2. \A i \in 1..n : i # 1 => t[i - 1] = s[i]
      BY <3>1, <1>4
    <3> QED
      BY <3>1, <3>2, <1>2 DEF Linked
  <2> QED
    BY <2>1, <2>2 DEF Linked
<1>7. start \in Linked(s, n)
  BY <1>2 DEF Linked
<1> QED
  BY <1>2, <1>4, <1>5, <1>6, <1>7 DEF t

Inserted(s, n, k, x) ==
  [i \in 1..(n + 1) |-> IF i <= k THEN s[i] ELSE IF i = k + 1 THEN x ELSE s[i - 1]]

LEMMA ChainInsert ==
  ASSUME NEW nx, NEW s, NEW n, NEW start, Chain(nx, s, n, start),
         NEW x \in DOMAIN nx, x \notin Linked(s, n), NEW k \in 1..n, NEW nx2,
         DOMAIN nx2 = DOMAIN nx, nx2[s[k]] = x, nx2[x] = nx[s[k]],
         \A y \in Linked(s, n) : y # s[k] => nx2[y] = nx[y]
  PROVE  /\ Chain(nx2, Inserted(s, n, k, x), n + 1, start)
         /\ Linked(Inserted(s, n, k, x), n + 1) = Linked(s, n) \cup {x}
<1> DEFINE t == Inserted(s, n, k, x)
<1>1. /\ n \in Nat /\ s \in [1..n -> DOMAIN nx]
      /\ start = IF n = 0 THEN List!Null ELSE s[1]
      /\ \A i \in 1..n : nx[s[i]] = IF i = n THEN List!Null ELSE s[i + 1]
      /\ \A i, j \in 1..n : s[i] = s[j] => i = j
  BY DEF Chain
<1>2. \A i \in 1..n : s[i] # x
  BY DEF Linked
<1>3. /\ nx2[x] = IF k = n THEN List!Null ELSE s[k + 1]
      /\ \A i \in 1..n : i # k => nx2[s[i]] = nx[s[i]]
  BY <1>1, <1>2 DEF Linked
<1>4. /\ \A i \in 1..k : i \in 1..n /\ i \in 1..(n + 1)
      /\ k + 1 \in 1..(n + 1)
      /\ \A i \in 1..(n + 1) : i \in 1..k \/ i = k + 1 \/ (i > k + 1 /\ i - 1 \in 1..n)
  BY <1>1
<1>5. /\ t \in [1..(n + 1) -> DOMAIN nx2]
      /\ \A i \in 1..(n + 1) :
           t[i] = IF i <= k THEN s[i] ELSE IF i = k + 1 THEN x ELSE s[i - 1]
  BY <1>1, <1>3, <1>4 DEF Inserted
<1> HIDE DEF t
<1>6. \A i \in 1..(n + 1) : nx2[t[i]] = IF i = n + 1 THEN List!Null ELSE t[i + 1]
  <2> SUFFICES ASSUME NEW i \in 1..(n + 1)
               PROVE  nx2[t[i]] = IF i = n + 1 THEN List!Null ELSE t[i + 1]
    OBVIOUS
  <2>1. CASE i < k
    <3>1. i \in 1..n /\ i # n /\ i # k /\ i + 1 \in 1..(n + 1) /\ i + 1 <= k /\ i # n + 1
      BY <2>1, <1>1
    <3> QED
      BY <2>1, <3>1, <1>1, <1>3, <1>5
  <2>2. CASE i = k
    <3>1. ~ (k + 1 <= k) /\ k # n + 1
      BY <1>1
    <3> QED
      BY <2>2, <3>1, <1>3, <1>4, <1>5
  <2>3. CASE i = k + 1
    <3>1. ~ (k + 1 <= k) /\ (k + 1 = n + 1 <=> k = n)
      BY <1>1
    <3>2. k # n => k + 2 \in 1..(n + 1) /\ ~ (k + 2 <= k) /\ k + 2 # k + 1 /\ k + 2 - 1 = k + 1
      BY <1>1
    <3>3. t[i] = x /\ i + 1 = k + 2
      BY <2>3, <3>1, <1>4, <1>5
    <3>4. k # n => t[i + 1] = s[k + 1]
      BY <3>2, <3>3, <1>5
    <3> QED
      BY <2>3, <3>1, <3>3, <3>4, <1>3
  <2>4. CASE i > k + 1
    <3>1. i - 1 \in 1..n /\ i - 1 # k /\ ~ (i <= k) /\ i # k + 1
      BY <2>4, <1>1
    <3>2. t[i] = s[i - 1] /\ (i - 1 = n <=> i = n + 1) /\ i - 1 + 1 = i
      BY <3>1, <1>1, <1>5
    <3>3. i # n + 1 => i + 1 \in 1..(n + 1) /\ ~ (i + 1 <= k) /\ i + 1 # k + 1 /\ i + 1 - 1 = i
      <4>1. n \in Nat /\ k \in Nat /\ i \in Nat
        BY <1>1
      <4> QED
        BY <2>4, <4>1
    <3>4. i # n + 1 => t[i + 1] = s[i]
      BY <3>3, <1>5
    <3> QED
      BY <3>1, <3>2, <3>4, <1>1, <1>3
  <2> QED
    BY <2>1, <2>2, <2>3, <2>4, <1>1
<1>7. \A i, j \in 1..(n + 1) : t[i] = t[j] => i = j
  <2> SUFFICES ASSUME NEW i \in 1..(n + 1), NEW j \in 1..(n + 1), t[i] = t[j]
               PROVE  i = j
    OBVIOUS
  <2> QED
    BY <1>1, <1>2, <1>4, <1>5
<1>8. t[1] = s[1] /\ 1 \in 1..n
  BY <1>1, <1>4, <1>5
<1>9. Chain(nx2, t, n + 1, start)
  <2>1. n + 1 \in Nat /\ n # 0 /\ n + 1 # 0
    BY <1>1
  <2> QED
    BY <2>1, <1>1, <1>5, <1>6, <1>7, <1>8 DEF Chain
<1>10. Linked(t, n + 1) = Linked(s, n) \cup {x}
  <2>1. \A i \in 1..(n + 1) : t[i] \in Linked(s, n) \cup {x}
    BY <1>4, <1>5 DEF Linked
  <2>2. \A i \in 1..n : s[i] \in Linked(t, n + 1)
    <3> SUFFICES ASSUME NEW i \in 1..n PROVE s[i] \in Linked(t, n + 1)
      OBVIOUS
    <3>1. CASE i <= k
      <4>1. i \in 1..(n + 1) /\ t[i] = s[i]
        BY <3>1, <1>1, <1>5
      <4> QED
        BY <4>1 DEF Linked
    <3>2. CASE i > k
      <4>1. /\ i + 1 \in 1..(n + 1) /\ ~ (i + 1 <= k) /\ i + 1 # k + 1 /\ i + 1 - 1 = i
        BY <3>2, <1>1
      <4>2. t[i + 1] = s[i]
        BY <4>1, <1>5
      <4> QED
        BY <4>1, <4>2 DEF Linked
    <3> QED
      BY <3>1, <3>2, <1>1
  <2>3. x \in Linked(t, n + 1)
    <3>1. t[k + 1] = x
      BY <1>1, <1>4, <1>5
    <3> QED
      BY <3>1, <1>4 DEF Linked
  <2> QED
    BY <2>1, <2>2, <2>3 DEF Linked
<1> QED
  BY <1>9, <1>10 DEF t

-----------------------------------------------------------------------------
(* The pool when alloc has a path to give: the others keep their links.    *)
Ready(q, n, f, m) ==
  /\ Len(List!Pool) \in Nat
  /\ List!Pool = [k \in 1..Len(List!Pool) |-> List!Pool[k]]
  /\ DOMAIN next \subseteq DOMAIN List!Pool
  /\ \A x \in DOMAIN next : List!Pool[x] = next[x]
  /\ List!Allocated \in DOMAIN List!Pool
  /\ List!Allocated \notin Linked(q, n) \cup Linked(f, m) \cup List!InHand
  /\ Chain(List!Pool, f, m, List!Pool[List!Allocated])
  /\ Linked(f, m) \cap (Linked(q, n) \cup List!InHand) = {}
  /\ Linked(q, n) \cup Linked(f, m) \cup List!InHand \cup {List!Allocated}
       = DOMAIN List!Pool

LEMMA ConcatIs ==
  ASSUME NEW N \in Nat, NEW s, s = [i \in 1..N |-> s[i]],
         NEW R \in Nat, NEW t, t = [i \in 1..R |-> t[i]]
  PROVE  s \o t = [i \in 1..(N + R) |-> IF i <= N THEN s[i] ELSE t[i - N]]
<1> DEFINE S == {s[i] : i \in 1..N} \cup {t[i] : i \in 1..R}
<1>1. s \in Seq(S) /\ Len(s) = N /\ t \in Seq(S) /\ Len(t) = R
  <2>1. [i \in 1..N |-> s[i]] \in [1..N -> S] /\ [i \in 1..R |-> t[i]] \in [1..R -> S]
    OBVIOUS
  <2>2. s \in [1..N -> S] /\ t \in [1..R -> S]
    BY <2>1
  <2> QED
    BY <2>2
<1> HIDE DEF S
<1> DEFINE c == s \o t
<1>2. /\ c \in Seq(S) /\ Len(c) = N + R
      /\ \A i \in 1..(N + R) : c[i] = IF i <= N THEN s[i] ELSE t[i - N]
  BY <1>1
<1> HIDE DEF c
<1>3. c = [i \in 1..(N + R) |-> c[i]]
  BY <1>2
<1> QED
  BY <1>2, <1>3 DEF c

LEMMA RackThreaded ==
  ASSUME NEW N \in Nat, N = Len(next), next = [k \in 1..N |-> next[k]]
  PROVE  LET f == [i \in 1..(RackSize - 1) |-> N + 1 + i]
             nx == List!Expanded
         IN  /\ nx = [k \in 1..(N + RackSize) |-> nx[k]]
             /\ Len(nx) = N + RackSize
             /\ \A k \in 1..N : nx[k] = next[k]
             /\ Chain(nx, f, RackSize - 1, nx[N + 1])
             /\ Linked(f, RackSize - 1) = (N + 2)..(N + RackSize)
<1> DEFINE f == [i \in 1..(RackSize - 1) |-> N + 1 + i]
           nx == List!Expanded
           rack == [k \in 1..RackSize |-> IF k = RackSize THEN 0 ELSE N + k + 1]
<1>1. RackSize \in Nat /\ RackSize # 0 /\ RackSize - 1 \in Nat
  BY RackSizeAssumption
<1>2. nx = next \o rack
  BY DEF List!Expanded, List!Null
<1>3. nx = [i \in 1..(N + RackSize) |-> IF i <= N THEN next[i] ELSE rack[i - N]]
  <2>1. rack = [i \in 1..RackSize |-> rack[i]]
    OBVIOUS
  <2> HIDE DEF rack, nx
  <2> QED
    BY <1>1, <1>2, <2>1, ConcatIs
<1> HIDE DEF nx
<1>4. /\ N + RackSize \in Nat /\ nx = [k \in 1..(N + RackSize) |-> nx[k]]
      /\ Len(nx) = N + RackSize /\ DOMAIN nx = 1..(N + RackSize)
  BY <1>1, <1>3
<1>5. \A k \in 1..N : nx[k] = next[k]
  BY <1>1, <1>3
<1>6. \A k \in 1..RackSize :
        nx[N + k] = IF k = RackSize THEN 0 ELSE N + k + 1
  <2> SUFFICES ASSUME NEW k \in 1..RackSize
               PROVE  nx[N + k] = IF k = RackSize THEN 0 ELSE N + k + 1
    OBVIOUS
  <2>1. N + k \in 1..(N + RackSize) /\ ~ (N + k <= N) /\ N + k - N = k
    BY <1>1
  <2> QED
    BY <2>1, <1>3
<1>7. Chain(nx, f, RackSize - 1, nx[N + 1])
  <2>1. f \in [1..(RackSize - 1) -> DOMAIN nx]
    BY <1>1, <1>4
  <2>2. nx[N + 1] = IF RackSize - 1 = 0 THEN 0 ELSE f[1]
    <3>1. RackSize # 1 => 1 \in 1..(RackSize - 1)
      BY <1>1
    <3>2. nx[N + 1] = IF 1 = RackSize THEN 0 ELSE N + 1 + 1
      BY <1>1, <1>6
    <3> QED
      BY <3>1, <3>2, <1>1
  <2>3. \A i \in 1..(RackSize - 1) : nx[f[i]] = IF i = RackSize - 1 THEN 0 ELSE f[i + 1]
    <3> SUFFICES ASSUME NEW i \in 1..(RackSize - 1)
                 PROVE  nx[f[i]] = IF i = RackSize - 1 THEN 0 ELSE f[i + 1]
      OBVIOUS
    <3>1. i + 1 \in 1..RackSize /\ f[i] = N + (i + 1)
      BY <1>1
    <3>2. nx[f[i]] = IF i + 1 = RackSize THEN 0 ELSE N + (i + 1) + 1
      BY <3>1, <1>6
    <3>3. i # RackSize - 1 => i + 1 \in 1..(RackSize - 1)
      BY <1>1
    <3>4. i # RackSize - 1 => f[i + 1] = N + 1 + (i + 1)
      BY <3>3
    <3>5. (i = RackSize - 1 <=> i + 1 = RackSize) /\ N + (i + 1) + 1 = N + 1 + (i + 1)
      BY <1>1
    <3> HIDE DEF f
    <3> QED
      BY <3>2, <3>4, <3>5
  <2>4. \A i, j \in 1..(RackSize - 1) : f[i] = f[j] => i = j
    BY <1>1
  <2> HIDE DEF f
  <2> QED
    BY <2>1, <2>2, <2>3, <2>4, <1>1 DEF Chain, List!Null
<1>8. Linked(f, RackSize - 1) = (N + 2)..(N + RackSize)
  <2>1. \A i \in 1..(RackSize - 1) : f[i] \in (N + 2)..(N + RackSize)
    BY <1>1
  <2>2. ASSUME NEW x \in (N + 2)..(N + RackSize)
        PROVE  x - N - 1 \in 1..(RackSize - 1) /\ f[x - N - 1] = x
    <3> DEFINE i == x - N - 1
    <3>1. i \in 1..(RackSize - 1) /\ N + 1 + i = x
      BY <1>1
    <3> HIDE DEF i
    <3>2. f[i] = x
      BY <3>1
    <3> QED
      BY <3>1, <3>2 DEF i
  <2> HIDE DEF f
  <2> QED
    BY <2>1, <2>2 DEF Linked
<1> HIDE DEF f
<1> QED
  BY <1>4, <1>5, <1>7, <1>8 DEF nx, f

LEMMA AllocReady ==
  ASSUME NEW q, NEW n, NEW f, NEW m, Shape(q, n, f, m)
  PROVE  \E f2, m2 : Ready(q, n, f2, m2)
<1>1. /\ Len(next) \in Nat /\ DOMAIN next = 1..Len(next)
      /\ next = [k \in 1..Len(next) |-> next[k]]
      /\ Chain(next, f, m, head) /\ Partition(q, n, f, m)
  BY DEF Shape
<1>2. CASE head # List!Null
  <2>1. List!Pool = next /\ List!Allocated = head
    BY <1>2 DEF List!Pool, List!Allocated
  <2>2. /\ head \in Linked(f, m)
        /\ Chain(next, Popped(f, m), m - 1, next[head])
        /\ Linked(Popped(f, m), m - 1) = Linked(f, m) \ {head}
    BY <1>1, <1>2, ChainPop
  <2>3. Ready(q, n, Popped(f, m), m - 1)
    BY <1>1, <2>1, <2>2 DEF Ready, Partition
  <2> QED
    BY <2>3
<1>3. CASE head = List!Null
  <2> DEFINE N == Len(next)
             nx == List!Expanded
             f2 == [i \in 1..(RackSize - 1) |-> N + 1 + i]
             m2 == RackSize - 1
  <2>1. List!Pool = nx /\ List!Allocated = N + 1
    BY <1>3 DEF List!Pool, List!Allocated
  <2>2. /\ nx = [k \in 1..(N + RackSize) |-> nx[k]]
        /\ Len(nx) = N + RackSize
        /\ \A k \in 1..N : nx[k] = next[k]
        /\ Chain(nx, f2, m2, nx[N + 1])
        /\ Linked(f2, m2) = (N + 2)..(N + RackSize)
    BY <1>1, RackThreaded
  <2>3. Linked(f, m) = {}
    <3>1. m = 0
      <4>1. m \in Nat /\ f \in [1..m -> 1..N] /\ head = IF m = 0 THEN 0 ELSE f[1]
        BY <1>1 DEF Chain, List!Null
      <4>2. m # 0 => 1 \in 1..m
        BY <4>1
      <4> QED
        BY <4>1, <4>2, <1>3 DEF List!Null
    <3> QED
      BY <3>1 DEF Linked
  <2>4. /\ RackSize \in Nat /\ RackSize # 0 /\ N \in Nat
    BY <1>1, RackSizeAssumption
  <2> HIDE DEF nx, f2, m2, N
  <2>5. /\ DOMAIN nx = 1..(N + RackSize) /\ DOMAIN next = 1..N
        /\ DOMAIN next \subseteq DOMAIN nx
        /\ N + 1 \in DOMAIN nx /\ N + 1 \notin DOMAIN next
        /\ N + 1 \notin (N + 2)..(N + RackSize)
        /\ (N + 2)..(N + RackSize) \cap DOMAIN next = {}
        /\ DOMAIN next \cup (N + 2)..(N + RackSize) \cup {N + 1} = DOMAIN nx
    BY <1>1, <2>2, <2>4 DEF N
  <2>6. Linked(q, n) \cup List!InHand = DOMAIN next
    BY <1>1, <2>3 DEF Partition
  <2>7. Ready(q, n, f2, m2)
    <3>1. Len(nx) \in Nat /\ nx = [k \in 1..Len(nx) |-> nx[k]]
      BY <2>2, <2>4
    <3>2. \A x \in DOMAIN next : nx[x] = next[x]
      BY <2>2, <2>5
    <3>3. N + 1 \notin Linked(q, n) \cup Linked(f2, m2) \cup List!InHand
      BY <2>2, <2>5, <2>6
    <3>4. Linked(f2, m2) \cap (Linked(q, n) \cup List!InHand) = {}
      BY <2>2, <2>5, <2>6
    <3>5. Linked(q, n) \cup Linked(f2, m2) \cup List!InHand \cup {N + 1} = DOMAIN nx
      BY <2>2, <2>5, <2>6
    <3> QED
      BY <3>1, <3>2, <3>3, <3>4, <3>5, <2>1, <2>2, <2>5 DEF Ready
  <2> QED
    BY <2>7
<1> QED
  BY <1>2, <1>3

(* alloc leaves both lists as they were, whatever it does to the link of   *)
(* the path it gives, and the fields of the others.                        *)
LEMMA AllocKeeps ==
  ASSUME NEW q, NEW n, NEW f, NEW m, NEW f0, NEW m0,
         Shape(q, n, f0, m0), Ready(q, n, f, m),
         NEW nx, nx = [k \in DOMAIN List!Pool |-> nx[k]],
         \A x \in DOMAIN List!Pool : x # List!Allocated => nx[x] = List!Pool[x]
  PROVE  /\ Len(nx) \in Nat /\ nx = [k \in 1..Len(nx) |-> nx[k]]
         /\ DOMAIN nx = DOMAIN List!Pool /\ Len(nx) = Len(List!Pool)
         /\ DOMAIN next \subseteq DOMAIN nx /\ List!Allocated # List!Null
         /\ Chain(nx, q, n, top) /\ Chain(nx, f, m, List!Pool[List!Allocated])
<1>1. /\ Len(List!Pool) \in Nat
      /\ DOMAIN List!Pool = 1..Len(List!Pool)
      /\ DOMAIN next \subseteq DOMAIN List!Pool
      /\ \A x \in DOMAIN next : List!Pool[x] = next[x]
      /\ List!Allocated \notin Linked(q, n) \cup Linked(f, m)
      /\ List!Allocated \in DOMAIN List!Pool
  BY DEF Ready
<1>2. /\ Len(nx) \in Nat /\ nx = [k \in 1..Len(nx) |-> nx[k]]
      /\ DOMAIN nx = DOMAIN List!Pool /\ Len(nx) = Len(List!Pool)
  BY <1>1
<1>3. Chain(next, q, n, top) /\ Chain(List!Pool, f, m, List!Pool[List!Allocated])
  BY DEF Shape, Ready
<1>4. Linked(q, n) \subseteq DOMAIN next /\ Linked(f, m) \subseteq DOMAIN List!Pool
  BY <1>3 DEF Chain, Linked
<1>5. Chain(nx, q, n, top)
  <2>1. \A x \in Linked(q, n) : nx[x] = next[x]
    BY <1>1, <1>4
  <2> QED
    BY <2>1, <1>1, <1>2, <1>3, ChainFrame
<1>6. Chain(nx, f, m, List!Pool[List!Allocated])
  <2>1. \A x \in Linked(f, m) : nx[x] = List!Pool[x]
    BY <1>1, <1>4
  <2> QED
    BY <2>1, <1>2, <1>3, ChainFrame
<1>7. List!Allocated # List!Null
  BY <1>1 DEF List!Null
<1> QED
  BY <1>1, <1>2, <1>5, <1>6, <1>7

LEMMA AllocInfo ==
  ASSUME NEW q, NEW n, NEW f, NEW m, Ready(q, n, f, m),
         NEW f0, NEW m0, Shape(q, n, f0, m0), NEW r
  PROVE  LET i2 == List!AllocatedInfo(r) IN
           /\ i2 = [k \in DOMAIN List!Pool |-> i2[k]]
           /\ i2[List!Allocated] = r
           /\ \A x \in DOMAIN next : x # List!Allocated => i2[x] = info[x]
<1>1. /\ DOMAIN next \subseteq DOMAIN List!Pool
      /\ List!Allocated \in DOMAIN List!Pool
  BY DEF Ready
<1> QED
  BY <1>1 DEF List!AllocatedInfo, List!Paths

LEMMA AfterAllocIs ==
  ASSUME NEW q, NEW n, NEW f, NEW m, Ready(q, n, f, m)
  PROVE  LET nx == List!AfterAlloc IN
           /\ nx = [k \in DOMAIN List!Pool |-> nx[k]]
           /\ \A x \in DOMAIN List!Pool : x # List!Allocated => nx[x] = List!Pool[x]
<1>1. List!Pool = [k \in DOMAIN List!Pool |-> List!Pool[k]]
  BY DEF Ready
<1> QED
  BY <1>1 DEF List!AfterAlloc

(* What the abstract queue sees is as before.                              *)
Kept(q, n) ==
  /\ \A i \in 1..n : info'[q[i]] = info[q[i]]
  /\ TakenFromList' = TakenFromList
  /\ arrivals' = arrivals

(* Paths that are in use are in the pool.                                  *)
LEMMA InUse ==
  ASSUME NEW q, NEW n, NEW f, NEW m, Shape(q, n, f, m)
  PROVE  /\ \A i \in 1..n : q[i] \in DOMAIN next /\ q[i] \in Linked(q, n)
         /\ \A x \in {proto, path, new} : x # List!Null => x \in DOMAIN next
         /\ DOMAIN next = 1..Len(next) /\ List!Null \notin DOMAIN next
         /\ proto = List!Null => new = List!Null
<1>1. DOMAIN next = 1..Len(next) /\ Chain(next, q, n, top) /\ Partition(q, n, f, m)
  BY DEF Shape
<1>2. \A i \in 1..n : q[i] \in DOMAIN next /\ q[i] \in Linked(q, n)
  BY <1>1 DEF Chain, Linked
<1>3. List!InHand \subseteq DOMAIN next
  BY <1>1 DEF Partition
<1>4. \A x \in {proto, path, new} : x # List!Null => x \in DOMAIN next
  BY <1>3 DEF List!InHand
<1>5. proto = List!Null => new = List!Null
  BY DEF Shape, Searching
<1>6. List!Null \notin DOMAIN next
  BY <1>1 DEF List!Null
<1> QED
  BY <1>1, <1>2, <1>4, <1>5, <1>6

(* What alloc and init have done: path a, with the fields r, is apart from *)
(* everything that was there.                                              *)
Given(q, n, f, m, a, r) ==
  /\ Len(next') \in Nat /\ next' = [k \in 1..Len(next') |-> next'[k]]
  /\ info' = [k \in 1..Len(next') |-> info'[k]]
  /\ Chain(next', q, n, top) /\ Chain(next', f, m, head')
  /\ a # List!Null /\ a \in DOMAIN next'
  /\ a \notin Linked(q, n) \cup Linked(f, m) \cup List!InHand
  /\ Linked(q, n) \cap Linked(f, m) = {}
  /\ (Linked(q, n) \cup Linked(f, m)) \cap List!InHand = {}
  /\ Linked(q, n) \cup Linked(f, m) \cup List!InHand \cup {a} = DOMAIN next'
  /\ info'[a] = r
  /\ \A x \in DOMAIN next : x # a => info'[x] = info[x]
  /\ \A i \in 1..n : info'[q[i]] = info[q[i]]
  /\ path' = path => TakenFromList' = TakenFromList

LEMMA AllocStep ==
  ASSUME NEW q, NEW n, NEW f, NEW m, Shape(q, n, f, m),
         NEW r, info' = List!AllocatedInfo(r),
         head' = List!Pool[List!Allocated],
         next' = [k \in DOMAIN List!Pool |-> next'[k]],
         \A x \in DOMAIN List!Pool : x # List!Allocated => next'[x] = List!Pool[x]
  PROVE  \E f2, m2 : Given(q, n, f2, m2, List!Allocated, r)
<1>1. PICK f2, m2 : Ready(q, n, f2, m2)
  BY AllocReady
<1> DEFINE a == List!Allocated
<1>2. /\ Len(next') \in Nat /\ next' = [k \in 1..Len(next') |-> next'[k]]
      /\ DOMAIN next' = DOMAIN List!Pool /\ Len(next') = Len(List!Pool)
      /\ DOMAIN next \subseteq DOMAIN next' /\ a # List!Null
      /\ Chain(next', q, n, top) /\ Chain(next', f2, m2, head')
  BY <1>1, AllocKeeps
<1>3. /\ info' = [k \in DOMAIN List!Pool |-> info'[k]]
      /\ info'[a] = r /\ \A x \in DOMAIN next : x # a => info'[x] = info[x]
  BY <1>1, AllocInfo
<1>4. /\ a \in DOMAIN List!Pool
      /\ a \notin Linked(q, n) \cup Linked(f2, m2) \cup List!InHand
      /\ Linked(f2, m2) \cap (Linked(q, n) \cup List!InHand) = {}
      /\ Linked(q, n) \cup Linked(f2, m2) \cup List!InHand \cup {a} = DOMAIN List!Pool
  BY <1>1 DEF Ready
<1>5. Linked(q, n) \cap List!InHand = {}
  BY DEF Shape, Partition
<1> HIDE DEF a
<1>6. \A i \in 1..n : info'[q[i]] = info[q[i]]
  BY <1>3, <1>4, InUse
<1>7. path' = path => TakenFromList' = TakenFromList
  <2>1. path # List!Null => path \in DOMAIN next /\ path # a
    BY <1>4, InUse DEF List!InHand
  <2> QED
    BY <2>1, <1>3 DEF TakenFromList, List!Null
<1>8. info' = [k \in 1..Len(next') |-> info'[k]]
  BY <1>2, <1>3
<1> QED
  BY <1>2, <1>3, <1>4, <1>5, <1>6, <1>7, <1>8 DEF Given, a

LEMMA NewPathStep ==
  ASSUME NEW q, NEW n, NEW f, NEW m, Shape(q, n, f, m),
         NEW prod \in ProdIndex, List!NewPath(prod)
  PROVE  (\E f2, m2 : Shape(q, n, f2, m2)') /\ Kept(q, n)
<1> DEFINE a == List!Allocated
           r == [prod |-> prod, startColumn |-> -1, arrival |-> -1]
<1>1. /\ proto = List!Null /\ proto' = a
      /\ info' = List!AllocatedInfo(r)
      /\ next' = List!AfterAlloc /\ head' = List!Pool[a]
      /\ UNCHANGED <<top, path, new, prev, arrivals>>
  BY DEF List!NewPath
<1>2. PICK f2, m2 : Given(q, n, f2, m2, a, r)
  <2>1. PICK f3, m3 : Ready(q, n, f3, m3)
    BY AllocReady
  <2>2. /\ next' = [k \in DOMAIN List!Pool |-> next'[k]]
        /\ \A x \in DOMAIN List!Pool : x # a => next'[x] = List!Pool[x]
    BY <1>1, <2>1, AfterAllocIs
  <2> QED
    BY <1>1, <2>2, AllocStep
<1>3. new = List!Null
  BY <1>1, InUse
<1> HIDE DEF a
<1>4. List!InHand' = List!InHand \cup {a}
  BY <1>1, <1>2 DEF List!InHand, Given
<1>5. Partition(q, n, f2, m2)'
  <2>1. /\ Linked(q, n) \cap Linked(f2, m2) = {}
        /\ (Linked(q, n) \cup Linked(f2, m2)) \cap List!InHand' = {}
        /\ Linked(q, n) \cup Linked(f2, m2) \cup List!InHand' = DOMAIN next'
    BY <1>2, <1>4 DEF Given
  <2>2. path # List!Null => a # path
    BY <1>2 DEF Given, List!InHand
  <2>3. /\ proto' # List!Null => proto' # path' /\ proto' # new'
        /\ path' # List!Null => path' # new'
    BY <2>2, <1>1, <1>2, <1>3 DEF Given
  <2> QED
    BY <2>1, <2>3 DEF Partition, Linked, List!Null
<1>6. Shape(q, n, f2, m2)'
  BY <1>1, <1>2, <1>3, <1>5 DEF Given, Shape, Chain, List!Null
<1>7. Kept(q, n)
  BY <1>1, <1>2 DEF Given, Kept
<1> QED
  BY <1>6, <1>7

LEMMA StartSearchStep ==
  ASSUME NEW q, NEW n, NEW f, NEW m, Shape(q, n, f, m),
         NEW column \in Column, List!StartSearch(column)
  PROVE  (\E f2, m2 : Shape(q, n, f2, m2)') /\ Kept(q, n)
<1> DEFINE a == List!Allocated
           r == List!Copy(column)
<1>1. /\ proto # List!Null /\ new = List!Null /\ arrivals < MaxArrivals
      /\ info' = List!AllocatedInfo(r)
      /\ next' = List!AfterAlloc /\ head' = List!Pool[a]
      /\ new' = a /\ prev' = top
      /\ top # List!Null /\ ~ List!GoesBefore(r, info[top])
      /\ UNCHANGED <<top, path, proto, arrivals>>
  BY DEF List!StartSearch, List!Copying, List!GoesFirst
<1>2. PICK f2, m2 : Given(q, n, f2, m2, a, r)
  <2>1. PICK f3, m3 : Ready(q, n, f3, m3)
    BY AllocReady
  <2>2. /\ next' = [k \in DOMAIN List!Pool |-> next'[k]]
        /\ \A x \in DOMAIN List!Pool : x # a => next'[x] = List!Pool[x]
    BY <1>1, <2>1, AfterAllocIs
  <2> QED
    BY <1>1, <2>2, AllocStep
<1>3. proto \in DOMAIN next /\ proto \in List!InHand
  BY <1>1, InUse DEF List!InHand
<1> HIDE DEF a, r
<1>4. List!InHand' = List!InHand \cup {a}
  BY <1>1, <1>2 DEF List!InHand, Given
<1>5. Partition(q, n, f2, m2)'
  <2>1. /\ Linked(q, n) \cap Linked(f2, m2) = {}
        /\ (Linked(q, n) \cup Linked(f2, m2)) \cap List!InHand' = {}
        /\ Linked(q, n) \cup Linked(f2, m2) \cup List!InHand' = DOMAIN next'
    BY <1>2, <1>4 DEF Given
  <2>2. (path # List!Null => a # path) /\ a # proto
    BY <1>2, <1>3 DEF Given, List!InHand
  <2>3. /\ proto' # List!Null => proto' # path' /\ proto' # new'
        /\ path' # List!Null => path' # new'
    BY <2>2, <1>1 DEF Shape, Partition
  <2> QED
    BY <2>1, <2>3 DEF Partition, Linked, List!Null
<1>6. info'[proto] = info[proto] /\ info'[a] = r
  BY <1>2, <1>3 DEF Given
<1>7. Searching(q, n)'
  <2>1. info'[new'] = List!Copy(column)'
    BY <1>1, <1>6 DEF List!Copy, r
  <2>2. n > 0 /\ 1 \in 1..n /\ top = q[1]
    BY <1>1 DEF Shape, Chain
  <2>3. ~ GoesBefore(info'[new'], info'[q[1]])
    <3>1. info'[q[1]] = info[q[1]]
      BY <1>2, <2>2 DEF Given
    <3>2. ~ GoesBefore(r, info[q[1]])
      BY <1>1, <2>2 DEF GoesBefore, List!GoesBefore, Ordinal, List!Ordinal
    <3> QED
      BY <1>1, <1>6, <3>1, <3>2
  <2>4. \A j \in 1..1 : j = 1
    OBVIOUS
  <2>5. \A j \in 1..1 : ~ GoesBefore(info'[new'], info'[q[j]])
    BY <2>3, <2>4
  <2> QED
    BY <1>1, <2>1, <2>2, <2>5 DEF Searching, List!Null
<1>8. Shape(q, n, f2, m2)'
  BY <1>1, <1>2, <1>5, <1>6, <1>7 DEF Given, Shape, Chain, List!Null
<1>9. Kept(q, n)
  BY <1>1, <1>2 DEF Given, Kept
<1> QED
  BY <1>8, <1>9

LEMMA InsertFirstStep ==
  ASSUME NEW q, NEW n, NEW f, NEW m, Shape(q, n, f, m),
         NEW column \in Column, List!InsertFirst(column)
  PROVE  /\ \E a, f2, m2 : /\ Shape(Pushed(q, n, a), n + 1, f2, m2)'
                           /\ info'[a] = List!Copy(column)
         /\ \A i \in 1..n : info'[q[i]] = info[q[i]]
         /\ TakenFromList' = TakenFromList
<1> DEFINE r == List!Copy(column)
<1>0. PICK a : a = List!Allocated
  OBVIOUS
<1>1. /\ proto # List!Null /\ new = List!Null
      /\ info' = List!AllocatedInfo(r)
      /\ next' = [List!AfterAlloc EXCEPT ![a] = top] /\ head' = List!Pool[a]
      /\ top' = a
      /\ UNCHANGED <<proto, path, new, prev>>
  BY <1>0 DEF List!InsertFirst, List!Copying
<1>2. PICK f2, m2 : Given(q, n, f2, m2, a, r) /\ next'[a] = top
  <2>1. PICK f3, m3 : Ready(q, n, f3, m3)
    BY AllocReady
  <2>2. a \in DOMAIN List!Pool
    BY <1>0, <2>1 DEF Ready
  <2>3. /\ List!AfterAlloc = [k \in DOMAIN List!Pool |-> List!AfterAlloc[k]]
        /\ \A x \in DOMAIN List!Pool : x # a => List!AfterAlloc[x] = List!Pool[x]
    BY <1>0, <2>1, AfterAllocIs
  <2>4. /\ next' = [k \in DOMAIN List!Pool |-> next'[k]]
        /\ \A x \in DOMAIN List!Pool : x # a => next'[x] = List!Pool[x]
        /\ next'[a] = top
    <3> DEFINE nx == List!AfterAlloc
    <3> HIDE DEF nx
    <3>1. next' = [nx EXCEPT ![a] = top]
      BY <1>1 DEF nx
    <3> QED
      BY <2>2, <2>3, <3>1 DEF nx
  <2>5. \E f2, m2 : Given(q, n, f2, m2, a, r)
    BY <1>0, <1>1, <2>4, AllocStep
  <2> QED
    BY <2>4, <2>5
<1>3. proto \in DOMAIN next /\ proto \in List!InHand
  BY <1>1, InUse DEF List!InHand
<1>9. PICK t : t = Pushed(q, n, a)
  OBVIOUS
<1> HIDE DEF r
<1>4. Chain(next', t, n + 1, a) /\ Linked(t, n + 1) = Linked(q, n) \cup {a}
  <2>1. /\ Chain(next', q, n, top) /\ a \in DOMAIN next' /\ a \notin Linked(q, n)
    BY <1>2 DEF Given
  <2> QED
    BY <2>1, <1>2, <1>9, ChainPush
<1>5. List!InHand' = List!InHand
  BY <1>1 DEF List!InHand, List!Null
<1>6. Partition(t, n + 1, f2, m2)'
  <2>1. /\ Linked(t, n + 1) \cap Linked(f2, m2) = {}
        /\ (Linked(t, n + 1) \cup Linked(f2, m2)) \cap List!InHand' = {}
        /\ Linked(t, n + 1) \cup Linked(f2, m2) \cup List!InHand' = DOMAIN next'
    BY <1>2, <1>4, <1>5 DEF Given
  <2>2. /\ proto' # List!Null => proto' # path' /\ proto' # new'
        /\ path' # List!Null => path' # new'
    BY <1>1 DEF Shape, Partition
  <2> QED
    BY <2>1, <2>2 DEF Partition, Linked, List!Null
<1>7. info'[proto] = info[proto]
  BY <1>2, <1>3 DEF Given
<1>8. Shape(t, n + 1, f2, m2)'
  BY <1>1, <1>2, <1>4, <1>6, <1>7 DEF Given, Shape, Chain, List!Null
<1> QED
  BY <1>1, <1>2, <1>8, <1>9 DEF Given, r

LEMMA SearchStep ==
  ASSUME NEW q, NEW n, NEW f, NEW m, Shape(q, n, f, m), List!Search
  PROVE  Shape(q, n, f, m)' /\ Kept(q, n)
<1>1. /\ new # List!Null /\ next[prev] # List!Null
      /\ ~ List!GoesBefore(info[new], info[next[prev]])
      /\ prev' = next[prev]
      /\ UNCHANGED <<next, info, top, head, proto, path, new, arrivals>>
  BY DEF List!Search, List!SearchGoesOn
<1>2. PICK k \in 1..n :
        prev = q[k] /\ \A j \in 1..k : ~ GoesBefore(info[new], info[q[j]])
  BY <1>1 DEF Shape, Searching
<1>3. k # n /\ next[prev] = q[k + 1] /\ n \in Nat
  BY <1>1, <1>2 DEF Shape, Chain
<1>4. k + 1 \in 1..n
  BY <1>3
<1>5. \A j \in 1..(k + 1) : ~ GoesBefore(info[new], info[q[j]])
  <2>1. ~ GoesBefore(info[new], info[q[k + 1]])
    BY <1>1, <1>3 DEF GoesBefore, List!GoesBefore, Ordinal, List!Ordinal
  <2>2. \A j \in 1..(k + 1) : j \in 1..k \/ j = k + 1
    OBVIOUS
  <2> QED
    BY <2>1, <2>2, <1>2
<1>6. Searching(q, n)'
  <2>1. prev' = q[k + 1]
    BY <1>1, <1>3
  <2>2. \E column \in Column : info'[new'] = List!Copy(column)'
    BY <1>1 DEF Shape, Searching, List!Copy
  <2> QED
    BY <2>1, <2>2, <1>1, <1>4, <1>5 DEF Shape, Searching, List!Null
<1>7. Partition(q, n, f, m)'
  BY <1>1 DEF Shape, Partition, Linked, List!InHand, List!Null
<1>8. Shape(q, n, f, m)'
  BY <1>1, <1>6, <1>7 DEF Shape, Chain, List!Null
<1>9. Kept(q, n)
  BY <1>1 DEF Kept, TakenFromList, List!Null
<1> QED
  BY <1>8, <1>9

LEMMA InsertAfterStep ==
  ASSUME NEW q, NEW n, NEW f, NEW m, Shape(q, n, f, m), List!InsertAfter
  PROVE  \E x : \E k \in 1..n, column \in Column :
           /\ Shape(Inserted(q, n, k, x), n + 1, f, m)'
           /\ info[x] = List!Copy(column) /\ info' = info
           /\ \A j \in 1..k : ~ GoesBefore(info[x], info[q[j]])
           /\ k # n => GoesBefore(info[x], info[q[k + 1]])
           /\ TakenFromList' = TakenFromList
           /\ proto # List!Null /\ arrivals < MaxArrivals
<1>1. /\ new # List!Null
      /\ next[prev] # List!Null => List!GoesBefore(info[new], info[next[prev]])
      /\ next' = [next EXCEPT ![new] = next[prev], ![prev] = new]
      /\ new' = List!Null
      /\ UNCHANGED <<info, top, head, proto, path>>
  BY DEF List!InsertAfter, List!SearchGoesOn, List!LinkedIn
<1>2. /\ Searching(q, n) /\ Chain(next, q, n, top) /\ Chain(next, f, m, head)
      /\ Partition(q, n, f, m) /\ Len(next) \in Nat
      /\ next = [i \in 1..Len(next) |-> next[i]]
      /\ info = [i \in 1..Len(next) |-> info[i]]
      /\ proto # List!Null => info[proto].prod \in ProdIndex
  BY <1>1 DEF Shape
<1>3. PICK k \in 1..n :
        prev = q[k] /\ \A j \in 1..k : ~ GoesBefore(info[new], info[q[j]])
  BY <1>2 DEF Searching
<1>4. PICK column \in Column : info[new] = List!Copy(column)
  BY <1>2 DEF Searching
<1>5. PICK x : x = new
  OBVIOUS
<1>6. PICK t : t = Inserted(q, n, k, x)
  OBVIOUS
<1>7. /\ x \in List!InHand /\ x \in DOMAIN next
      /\ x \notin Linked(q, n) /\ x \notin Linked(f, m)
  BY <1>1, <1>2, <1>5, InUse DEF Partition, List!InHand
<1>8. next[prev] = IF k = n THEN List!Null ELSE q[k + 1]
  BY <1>2, <1>3 DEF Chain
<1>9. k # n => GoesBefore(info[x], info[q[k + 1]])
  <2>1. k # n => q[k + 1] # List!Null
    <3>1. k # n => k + 1 \in 1..n
      BY <1>2 DEF Chain
    <3> QED
      BY <3>1, InUse
  <2> QED
    BY <2>1, <1>1, <1>5, <1>8 DEF GoesBefore, List!GoesBefore, Ordinal, List!Ordinal
<1>13. /\ DOMAIN next' = DOMAIN next /\ Len(next') = Len(next)
       /\ next' = [i \in 1..Len(next) |-> next'[i]]
       /\ next'[q[k]] = x /\ next'[x] = next[q[k]]
       /\ \A y \in DOMAIN next : y # x /\ y # q[k] => next'[y] = next[y]
  <2>1. /\ DOMAIN next = 1..Len(next) /\ x \in 1..Len(next)
        /\ q[k] \in 1..Len(next) /\ q[k] # x
    BY <1>2, <1>3, <1>7, InUse
  <2>2. next' = [next EXCEPT ![x] = next[q[k]], ![q[k]] = x]
    BY <1>1, <1>3, <1>5
  <2>3. next' = [i \in 1..Len(next) |-> IF i = q[k] THEN x
                                        ELSE IF i = x THEN next[q[k]] ELSE next[i]]
    BY <2>1, <2>2, <1>2
  <2>4. Len(next') = Len(next)
    BY <2>3, <1>2
  <2> QED
    BY <2>1, <2>3, <2>4
<1>10. Chain(next', t, n + 1, top) /\ Linked(t, n + 1) = Linked(q, n) \cup {x}
  <2>1. \A y \in Linked(q, n) : y \in DOMAIN next /\ y # x
    BY <1>2, <1>7 DEF Partition
  <2>2. /\ Chain(next, q, n, top) /\ x \in DOMAIN next /\ x \notin Linked(q, n)
        /\ DOMAIN next' = DOMAIN next /\ next'[q[k]] = x /\ next'[x] = next[q[k]]
        /\ \A y \in Linked(q, n) : y # q[k] => next'[y] = next[y]
    BY <2>1, <1>2, <1>7, <1>13
  <2> QED
    BY <2>2, <1>6, ChainInsert
<1>11. Chain(next', f, m, head)
  <2>1. \A y \in Linked(f, m) : y \in DOMAIN next /\ y # x /\ y # prev
    <3>1. prev \in Linked(q, n)
      BY <1>3 DEF Linked
    <3>2. Linked(f, m) \cap Linked(q, n) = {}
      BY <1>2 DEF Partition
    <3>3. Linked(f, m) \subseteq DOMAIN next
      BY <1>2 DEF Partition
    <3> QED
      BY <3>1, <3>2, <3>3, <1>7
  <2>2. \A y \in Linked(f, m) : next'[y] = next[y]
    BY <2>1, <1>3, <1>13
  <2>3. DOMAIN next \subseteq DOMAIN next'
    BY <1>13
  <2> QED
    BY <2>2, <2>3, <1>2, ChainFrame
<1>12. List!InHand' = List!InHand \ {x}
  <2>1. proto # new /\ path # new
    BY <1>1, <1>2 DEF Partition, Searching
  <2> QED
    BY <2>1, <1>1, <1>5 DEF List!InHand, List!Null
<1>14. Partition(t, n + 1, f, m)'
  <2>1. /\ Linked(t, n + 1) \cap Linked(f, m) = {}
        /\ (Linked(t, n + 1) \cup Linked(f, m)) \cap List!InHand' = {}
        /\ Linked(t, n + 1) \cup Linked(f, m) \cup List!InHand' = DOMAIN next'
    BY <1>2, <1>7, <1>10, <1>12, <1>13 DEF Partition
  <2>2. /\ proto' # List!Null => proto' # path' /\ proto' # new'
        /\ path' # List!Null => path' # new'
    BY <1>1, <1>2 DEF Partition
  <2> QED
    BY <2>1, <2>2 DEF Partition, Linked, List!Null
<1>15. Shape(t, n + 1, f, m)'
  BY <1>1, <1>2, <1>10, <1>11, <1>13, <1>14 DEF Shape, Chain, List!Null
<1>16. TakenFromList' = TakenFromList
  BY <1>1 DEF TakenFromList, List!Null
<1> QED
  BY <1>1, <1>2, <1>3, <1>4, <1>5, <1>6, <1>9, <1>15, <1>16 DEF Searching

(* dealloc puts a path that is in the hands of a caller on the free list.  *)
LEMMA DeallocKeeps ==
  ASSUME NEW q, NEW n, NEW f, NEW m, Shape(q, n, f, m),
         NEW x \in List!InHand, List!Dealloc(x)
  PROVE  /\ Chain(next', q, n, top)
         /\ Chain(next', Pushed(f, m, x), m + 1, head')
         /\ Linked(Pushed(f, m, x), m + 1) = Linked(f, m) \cup {x}
         /\ Len(next') = Len(next) /\ DOMAIN next' = DOMAIN next
         /\ next' = [k \in 1..Len(next) |-> next'[k]]
         /\ info' = [k \in 1..Len(next) |-> info'[k]]
         /\ \A y \in DOMAIN next : y # x => info'[y] = info[y]
         /\ \A i \in 1..n : info'[q[i]] = info[q[i]]
<1>1. /\ next' = [next EXCEPT ![x] = head] /\ head' = x
      /\ info' = [info EXCEPT ![x] = List!Garbage]
  BY DEF List!Dealloc
<1>2. /\ Chain(next, q, n, top) /\ Chain(next, f, m, head)
      /\ Partition(q, n, f, m) /\ Len(next) \in Nat
      /\ next = [i \in 1..Len(next) |-> next[i]]
      /\ info = [i \in 1..Len(next) |-> info[i]]
  BY DEF Shape
<1>3. x \in DOMAIN next /\ x \notin Linked(q, n) /\ x \notin Linked(f, m)
  BY <1>2 DEF Partition
<1>4. /\ Len(next') = Len(next) /\ DOMAIN next' = DOMAIN next
      /\ next' = [k \in 1..Len(next) |-> next'[k]]
      /\ info' = [k \in 1..Len(next) |-> info'[k]]
      /\ next'[x] = head /\ \A y \in DOMAIN next : y # x => next'[y] = next[y]
      /\ \A y \in DOMAIN next : y # x => info'[y] = info[y]
  <2>1. DOMAIN next = 1..Len(next) /\ x \in 1..Len(next)
    BY <1>2, <1>3
  <2>2. next' = [k \in 1..Len(next) |-> IF k = x THEN head ELSE next[k]]
    BY <2>1, <1>1, <1>2
  <2>3. info' = [k \in 1..Len(next) |-> IF k = x THEN List!Garbage ELSE info[k]]
    BY <2>1, <1>1, <1>2
  <2>4. Len(next') = Len(next)
    BY <2>2, <1>2
  <2>5. /\ DOMAIN next' = DOMAIN next
        /\ next' = [k \in 1..Len(next) |-> next'[k]]
        /\ next'[x] = head /\ \A y \in DOMAIN next : y # x => next'[y] = next[y]
    BY <2>1, <2>2
  <2>6. /\ info' = [k \in 1..Len(next) |-> info'[k]]
        /\ \A y \in DOMAIN next : y # x => info'[y] = info[y]
    BY <2>1, <2>3
  <2> QED
    BY <2>4, <2>5, <2>6
<1>5. /\ Linked(q, n) \subseteq DOMAIN next /\ Linked(f, m) \subseteq DOMAIN next
  BY <1>2 DEF Partition
<1>6. /\ \A y \in Linked(q, n) : next'[y] = next[y]
      /\ \A y \in Linked(f, m) : next'[y] = next[y]
  BY <1>3, <1>4, <1>5
<1>7. Chain(next', q, n, top)
  BY <1>2, <1>4, <1>6, ChainFrame
<1>8. /\ Chain(next', Pushed(f, m, x), m + 1, x)
      /\ Linked(Pushed(f, m, x), m + 1) = Linked(f, m) \cup {x}
  <2>1. /\ Chain(next, f, m, head) /\ DOMAIN next \subseteq DOMAIN next'
        /\ x \in DOMAIN next' /\ x \notin Linked(f, m) /\ next'[x] = head
        /\ \A y \in Linked(f, m) : next'[y] = next[y]
    BY <1>2, <1>3, <1>4, <1>6
  <2> QED
    BY <2>1, ChainPush
<1>9. \A i \in 1..n : info'[q[i]] = info[q[i]]
  BY <1>3, <1>4, InUse
<1> QED
  BY <1>1, <1>4, <1>7, <1>8, <1>9

LEMMA DeleteProtoStep ==
  ASSUME NEW q, NEW n, NEW f, NEW m, Shape(q, n, f, m), List!DeleteProto
  PROVE  (\E f2, m2 : Shape(q, n, f2, m2)') /\ Kept(q, n)
<1>1. /\ proto # List!Null /\ new = List!Null
      /\ List!Dealloc(proto) /\ proto' = List!Null
      /\ UNCHANGED <<top, path, new, prev, arrivals>>
  BY DEF List!DeleteProto
<1>2. PICK x : x = proto
  OBVIOUS
<1>3. PICK t : t = Pushed(f, m, x)
  OBVIOUS
<1>4. x \in List!InHand /\ Partition(q, n, f, m) /\ Len(next) \in Nat
  BY <1>1, <1>2 DEF List!InHand, Shape
<1>5. /\ Chain(next', q, n, top) /\ Chain(next', t, m + 1, head')
      /\ Linked(t, m + 1) = Linked(f, m) \cup {x}
      /\ Len(next') = Len(next) /\ DOMAIN next' = DOMAIN next
      /\ next' = [k \in 1..Len(next) |-> next'[k]]
      /\ info' = [k \in 1..Len(next) |-> info'[k]]
      /\ \A y \in DOMAIN next : y # x => info'[y] = info[y]
      /\ \A i \in 1..n : info'[q[i]] = info[q[i]]
  BY <1>1, <1>2, <1>3, <1>4, DeallocKeeps
<1>6. List!InHand' = List!InHand \ {x}
  BY <1>1, <1>2, <1>4 DEF List!InHand, List!Null, Partition
<1>7. Partition(q, n, t, m + 1)'
  <2>1. /\ Linked(q, n) \cap Linked(t, m + 1) = {}
        /\ (Linked(q, n) \cup Linked(t, m + 1)) \cap List!InHand' = {}
        /\ Linked(q, n) \cup Linked(t, m + 1) \cup List!InHand' = DOMAIN next'
    BY <1>4, <1>5, <1>6 DEF Partition
  <2>2. /\ proto' # List!Null => proto' # path' /\ proto' # new'
        /\ path' # List!Null => path' # new'
    BY <1>1, <1>4 DEF Partition
  <2> QED
    BY <2>1, <2>2 DEF Partition, Linked, List!Null
<1>8. Shape(q, n, t, m + 1)'
  BY <1>1, <1>4, <1>5, <1>7 DEF Shape, Chain, List!Null
<1>9. Kept(q, n)
  <2>1. path # List!Null => path \in DOMAIN next /\ path # x
    BY <1>1, <1>2, <1>4, InUse DEF Partition
  <2> QED
    BY <2>1, <1>1, <1>5 DEF Kept, TakenFromList, List!Null
<1> QED
  BY <1>8, <1>9

LEMMA DeletePathStep ==
  ASSUME NEW q, NEW n, NEW f, NEW m, Shape(q, n, f, m), List!DeletePath
  PROVE  /\ \E f2, m2 : Shape(q, n, f2, m2)'
         /\ \A i \in 1..n : info'[q[i]] = info[q[i]]
         /\ path # List!Null /\ path' = List!Null
<1>1. /\ proto = List!Null /\ path # List!Null
      /\ List!Dealloc(path) /\ path' = List!Null
      /\ UNCHANGED <<top, proto, new, prev, arrivals>>
  BY DEF List!DeletePath
<1>2. PICK x : x = path
  OBVIOUS
<1>3. PICK t : t = Pushed(f, m, x)
  OBVIOUS
<1>4. /\ x \in List!InHand /\ Partition(q, n, f, m) /\ Len(next) \in Nat
      /\ new = List!Null
  BY <1>1, <1>2, InUse DEF List!InHand, Shape
<1>5. /\ Chain(next', q, n, top) /\ Chain(next', t, m + 1, head')
      /\ Linked(t, m + 1) = Linked(f, m) \cup {x}
      /\ Len(next') = Len(next) /\ DOMAIN next' = DOMAIN next
      /\ next' = [k \in 1..Len(next) |-> next'[k]]
      /\ info' = [k \in 1..Len(next) |-> info'[k]]
      /\ \A y \in DOMAIN next : y # x => info'[y] = info[y]
      /\ \A i \in 1..n : info'[q[i]] = info[q[i]]
  BY <1>1, <1>2, <1>3, <1>4, DeallocKeeps
<1>6. List!InHand' = List!InHand \ {x}
  BY <1>1, <1>2, <1>4 DEF List!InHand, List!Null
<1>7. Partition(q, n, t, m + 1)'
  <2>1. /\ Linked(q, n) \cap Linked(t, m + 1) = {}
        /\ (Linked(q, n) \cup Linked(t, m + 1)) \cap List!InHand' = {}
        /\ Linked(q, n) \cup Linked(t, m + 1) \cup List!InHand' = DOMAIN next'
    BY <1>4, <1>5, <1>6 DEF Partition
  <2>2. /\ proto' # List!Null => proto' # path' /\ proto' # new'
        /\ path' # List!Null => path' # new'
    BY <1>1, <1>4 DEF List!Null
  <2> QED
    BY <2>1, <2>2 DEF Partition, Linked, List!Null
<1>8. Shape(q, n, t, m + 1)'
  BY <1>1, <1>4, <1>5, <1>7 DEF Shape, Chain, List!Null
<1> QED
  BY <1>1, <1>5, <1>8

LEMMA DequeueStep ==
  ASSUME NEW q, NEW n, NEW f, NEW m, Shape(q, n, f, m), List!Dequeue
  PROVE  /\ Shape(Popped(q, n), n - 1, f, m)'
         /\ n > 0 /\ path = List!Null /\ path' = q[1] /\ path' # List!Null
         /\ info' = info /\ arrivals' = arrivals
<1>1. /\ proto = List!Null /\ path = List!Null /\ top # List!Null
      /\ path' = top /\ top' = next[top]
      /\ UNCHANGED <<next, info, head, proto, new, prev, arrivals>>
  BY DEF List!Dequeue
<1>2. /\ Chain(next, q, n, top) /\ Partition(q, n, f, m) /\ new = List!Null
  BY <1>1, InUse DEF Shape
<1>3. PICK t : t = Popped(q, n)
  OBVIOUS
<1>4. /\ top \in Linked(q, n) /\ n > 0 /\ top = q[1]
      /\ Chain(next, t, n - 1, next[top])
      /\ Linked(t, n - 1) = Linked(q, n) \ {top}
  BY <1>1, <1>2, <1>3, ChainPop
<1>5. List!InHand' = List!InHand \cup {top}
  BY <1>1, <1>2 DEF List!InHand, List!Null
<1>6. Partition(t, n - 1, f, m)'
  <2>1. /\ Linked(t, n - 1) \cap Linked(f, m) = {}
        /\ (Linked(t, n - 1) \cup Linked(f, m)) \cap List!InHand' = {}
        /\ Linked(t, n - 1) \cup Linked(f, m) \cup List!InHand' = DOMAIN next'
    BY <1>1, <1>2, <1>4, <1>5 DEF Partition
  <2>2. /\ proto' # List!Null => proto' # path' /\ proto' # new'
        /\ path' # List!Null => path' # new'
    BY <1>1, <1>2
  <2> QED
    BY <2>1, <2>2 DEF Partition, Linked, List!Null
<1>7. Shape(t, n - 1, f, m)'
  BY <1>1, <1>2, <1>4, <1>6 DEF Shape, Chain, List!Null
<1> QED
  BY <1>1, <1>3, <1>4, <1>7

-----------------------------------------------------------------------------
(* What a step of the list is to the queue.                                *)
Refines == IInvList' /\ [Next]_vars

(* The queue that is seen after a step, of a pool whose shape is known.    *)
LEMMA SeenAfter ==
  ASSUME NEW q, NEW n, NEW f, NEW m, Shape(q, n, f, m)',
         queue' = QueueOfList', taken' = TakenFromList'
  PROVE  /\ queue' = [i \in 1..n |-> info'[q[i]]]
         /\ IInvList'
<1>1. Seen'
  BY ListSeen, PTL
<1>2. queue' = [i \in 1..n |-> info'[q[i]]]
  BY <1>1 DEF Seen
<1>3. Stands(q, n)'
  BY <1>2 DEF Stands
<1> QED
  BY <1>2, <1>3 DEF IInvList

(* A step that keeps what is seen is no step of the queue.                 *)
LEMMA KeptStutters ==
  ASSUME NEW q, NEW n, NEW f, NEW m, Stands(q, n), Shape(q, n, f, m)', Kept(q, n),
         queue' = QueueOfList', taken' = TakenFromList'
  PROVE  Refines
<1>1. queue' = [i \in 1..n |-> info'[q[i]]] /\ IInvList'
  BY SeenAfter
<1>2. queue' = queue /\ taken' = taken /\ arrivals' = arrivals
  BY <1>1 DEF Stands, Kept
<1> QED
  BY <1>1, <1>2 DEF Refines, vars

(* The search for the place of p can stop at k, and nowhere else.          *)
StopsAt(s, n, p, k) ==
  /\ n \in Nat /\ Len(s) = n /\ k \in 1..(n + 1)
  /\ \A j \in 1..(k - 1) : ~ GoesBefore(p, s[j])
  /\ k <= n => GoesBefore(p, s[k])

LEMMA InsertionPointOnly ==
  ASSUME NEW s, NEW n, NEW p, NEW k, StopsAt(s, n, p, k)
  PROVE  InsertPathCopy(s, p) =
           [i \in 1..(n + 1) |->
              IF i < k THEN s[i] ELSE IF i = k THEN p ELSE s[i - 1]]
<1> DEFINE Stop(i) == /\ \A j \in 1..(i - 1) : ~ GoesBefore(p, s[j])
                      /\ i <= Len(s) => GoesBefore(p, s[i])
           c == CHOOSE i \in 1..(Len(s) + 1) : Stop(i)
<1>1. Stop(k) /\ k \in 1..(Len(s) + 1) /\ n \in Nat /\ Len(s) = n
  BY DEF StopsAt
<1>2. c \in 1..(n + 1) /\ Stop(c)
  BY <1>1
<1> HIDE DEF c
<1>3. c = k
  <2>1. ~ (c < k)
    BY <1>1, <1>2
  <2>2. ~ (k < c)
    BY <1>1, <1>2
  <2> QED
    BY <2>1, <2>2, <1>1, <1>2
<1>4. InsertionPoint(s, p) = k
  BY <1>3 DEF c, InsertionPoint
<1> QED
  BY <1>1, <1>4 DEF InsertPathCopy

LEMMA InsertFirstRefines ==
  ASSUME NEW q, NEW n, NEW f, NEW m, Shape(q, n, f, m), Stands(q, n),
         NEW column \in Column, List!InsertFirst(column),
         queue' = QueueOfList', taken' = TakenFromList'
  PROVE  Refines
<1>1. PICK a, f2, m2 : /\ Shape(Pushed(q, n, a), n + 1, f2, m2)'
                       /\ info'[a] = List!Copy(column)
  BY InsertFirstStep
<1>2. (\A i \in 1..n : info'[q[i]] = info[q[i]]) /\ TakenFromList' = TakenFromList
  BY InsertFirstStep
<1>3. /\ arrivals < MaxArrivals /\ arrivals' = arrivals + 1 /\ proto # List!Null
      /\ top # List!Null => List!GoesBefore(List!Copy(column), info[top])
  BY DEF List!InsertFirst, List!Copying, List!GoesFirst
<1>4. PICK t : t = Pushed(q, n, a)
  OBVIOUS
<1>5. queue' = [i \in 1..(n + 1) |-> info'[t[i]]] /\ IInvList'
  BY <1>1, <1>4, SeenAfter
<1> DEFINE prod == info[proto].prod
           p == [prod |-> prod, startColumn |-> column, arrival |-> arrivals]
<1>6. info'[a] = p /\ prod \in ProdIndex
  BY <1>1, <1>3 DEF List!Copy, Shape
<1>7. n \in Nat /\ (n # 0 => top = q[1] /\ top # List!Null)
  <2>1. n \in Nat /\ (n # 0 => top = q[1])
    BY DEF Shape, Chain
  <2>2. n # 0 => 1 \in 1..n
    BY <2>1
  <2> QED
    BY <2>1, <2>2, InUse
<1>8. queue = [i \in 1..n |-> info[q[i]]]
  BY DEF Stands
<1>9. Len(queue) = n
  BY <1>7, <1>8
<1>10. 1 <= n => GoesBefore(p, queue[1])
  <2>1. List!Copy(column) = p
    BY DEF List!Copy
  <2>2. 1 <= n => 1 \in 1..n
    BY <1>7
  <2> QED
    BY <2>1, <2>2, <1>3, <1>7, <1>8
       DEF GoesBefore, List!GoesBefore, Ordinal, List!Ordinal
<1> HIDE DEF p
<1>11. InsertPathCopy(queue, p) =
         [i \in 1..(n + 1) |->
            IF i < 1 THEN queue[i] ELSE IF i = 1 THEN p ELSE queue[i - 1]]
  <2>1. StopsAt(queue, n, p, 1)
    BY <1>7, <1>9, <1>10 DEF StopsAt
  <2> QED
    BY <2>1, InsertionPointOnly
<1>12. queue' = InsertPathCopy(queue, p)
  <2>1. ASSUME NEW i \in 1..(n + 1)
        PROVE  info'[t[i]] =
                 IF i < 1 THEN queue[i] ELSE IF i = 1 THEN p ELSE queue[i - 1]
    <3>1. t[i] = IF i = 1 THEN a ELSE q[i - 1]
      BY <1>4 DEF Pushed
    <3>2. ~ (i < 1) /\ (i # 1 => i - 1 \in 1..n)
      BY <1>7
    <3>3. i # 1 => queue[i - 1] = info[q[i - 1]] /\ info'[q[i - 1]] = info[q[i - 1]]
      BY <3>2, <1>2, <1>8
    <3> QED
      BY <3>1, <3>2, <3>3, <1>6
  <2> QED
    BY <2>1, <1>5, <1>11
<1>13. taken' = taken
  BY <1>2 DEF Stands
<1>14. Insert(prod, column)
  BY <1>3, <1>12, <1>13 DEF Insert, p
<1> HIDE DEF prod
<1> QED
  BY <1>5, <1>6, <1>14 DEF Refines, Next

LEMMA InsertAfterRefines ==
  ASSUME NEW q, NEW n, NEW f, NEW m, Shape(q, n, f, m), Stands(q, n),
         List!InsertAfter, queue' = QueueOfList', taken' = TakenFromList'
  PROVE  Refines
<1>1. PICK x : \E k \in 1..n, column \in Column :
           /\ Shape(Inserted(q, n, k, x), n + 1, f, m)'
           /\ info[x] = List!Copy(column) /\ info' = info
           /\ \A j \in 1..k : ~ GoesBefore(info[x], info[q[j]])
           /\ k # n => GoesBefore(info[x], info[q[k + 1]])
           /\ TakenFromList' = TakenFromList
           /\ proto # List!Null /\ arrivals < MaxArrivals
  BY InsertAfterStep
<1>2. PICK k \in 1..n, column \in Column :
           /\ Shape(Inserted(q, n, k, x), n + 1, f, m)'
           /\ info[x] = List!Copy(column) /\ info' = info
           /\ \A j \in 1..k : ~ GoesBefore(info[x], info[q[j]])
           /\ k # n => GoesBefore(info[x], info[q[k + 1]])
           /\ TakenFromList' = TakenFromList
           /\ proto # List!Null /\ arrivals < MaxArrivals
  BY <1>1
<1>3. arrivals' = arrivals + 1
  BY DEF List!InsertAfter
<1>4. PICK t : t = Inserted(q, n, k, x)
  OBVIOUS
<1>5. queue' = [i \in 1..(n + 1) |-> info'[t[i]]] /\ IInvList'
  BY <1>2, <1>4, SeenAfter
<1> DEFINE prod == info[proto].prod
           p == [prod |-> prod, startColumn |-> column, arrival |-> arrivals]
<1>6. info[x] = p /\ prod \in ProdIndex
  BY <1>2 DEF List!Copy, Shape
<1>7. n \in Nat /\ queue = [i \in 1..n |-> info[q[i]]]
  BY DEF Shape, Chain, Stands
<1>8. Len(queue) = n
  BY <1>7
<1> HIDE DEF p
<1>9. /\ k + 1 \in 1..(n + 1) /\ k + 1 - 1 = k
      /\ \A j \in 1..(k + 1 - 1) : ~ GoesBefore(p, queue[j])
      /\ k + 1 <= n => GoesBefore(p, queue[k + 1])
  <2>1. \A j \in 1..k : j \in 1..n
    BY <1>7
  <2>2. k + 1 <= n => k # n /\ k + 1 \in 1..n
    BY <1>7
  <2>3. k + 1 \in 1..(n + 1) /\ k + 1 - 1 = k
    BY <1>7
  <2> QED
    BY <2>1, <2>2, <2>3, <1>2, <1>6, <1>7
<1>10. InsertPathCopy(queue, p) =
         [i \in 1..(n + 1) |->
            IF i < k + 1 THEN queue[i] ELSE IF i = k + 1 THEN p ELSE queue[i - 1]]
  <2>1. PICK c : c = k + 1
    OBVIOUS
  <2>2. StopsAt(queue, n, p, c)
    BY <2>1, <1>7, <1>8, <1>9 DEF StopsAt
  <2>3. InsertPathCopy(queue, p) =
          [i \in 1..(n + 1) |->
             IF i < c THEN queue[i] ELSE IF i = c THEN p ELSE queue[i - 1]]
    BY <2>2, InsertionPointOnly
  <2> QED
    BY <2>1, <2>3
<1>11. queue' = InsertPathCopy(queue, p)
  <2>1. ASSUME NEW i \in 1..(n + 1)
        PROVE  info'[t[i]] =
                 IF i < k + 1 THEN queue[i] ELSE IF i = k + 1 THEN p ELSE queue[i - 1]
    <3>1. t[i] = IF i <= k THEN q[i] ELSE IF i = k + 1 THEN x ELSE q[i - 1]
      BY <1>4 DEF Inserted
    <3>2. /\ i <= k <=> i < k + 1
          /\ i <= k => i \in 1..n
          /\ ~ (i <= k) /\ i # k + 1 => i - 1 \in 1..n
      BY <1>7
    <3> QED
      BY <3>1, <3>2, <1>2, <1>6, <1>7
  <2> QED
    BY <2>1, <1>5, <1>10
<1>12. taken' = taken
  BY <1>2 DEF Stands
<1>13. Insert(prod, column)
  BY <1>2, <1>3, <1>11, <1>12 DEF Insert, p
<1> HIDE DEF prod
<1> QED
  BY <1>5, <1>6, <1>13 DEF Refines, Next

LEMMA DequeueRefines ==
  ASSUME NEW q, NEW n, NEW f, NEW m, Shape(q, n, f, m), Stands(q, n),
         List!Dequeue, queue' = QueueOfList', taken' = TakenFromList'
  PROVE  Refines
<1>1. /\ Shape(Popped(q, n), n - 1, f, m)'
      /\ n > 0 /\ path = List!Null /\ path' = q[1] /\ path' # List!Null
      /\ info' = info /\ arrivals' = arrivals
  BY DequeueStep
<1>2. PICK t, k : t = Popped(q, n) /\ k = n - 1
  OBVIOUS
<1>3. queue' = [i \in 1..k |-> info'[t[i]]] /\ IInvList'
  BY <1>1, <1>2, SeenAfter
<1>4. n \in Nat /\ queue = [i \in 1..n |-> info[q[i]]] /\ taken = << >>
  BY <1>1 DEF Shape, Chain, Stands, TakenFromList
<1>5. 1 \in 1..n /\ queue[1] = info[q[1]]
  BY <1>1, <1>4
<1>6. taken' = <<Head(queue)>>
  <2>1. taken' = <<info[q[1]]>>
    BY <1>1 DEF TakenFromList, List!Null
  <2>2. Head(queue) = queue[1]
    BY <1>4
  <2> QED
    BY <2>1, <2>2, <1>5
<1>7. Tail(queue) = [i \in 1..(n - 1) |-> queue[i + 1]]
  BY <1>1, <1>4
<1>8. queue' = Tail(queue)
  <2>1. ASSUME NEW i \in 1..(n - 1) PROVE info'[t[i]] = queue[i + 1]
    <3>1. t[i] = q[i + 1]
      BY <1>2 DEF Popped
    <3>2. i + 1 \in 1..n
      BY <1>4
    <3> QED
      BY <3>1, <3>2, <1>1, <1>4
  <2> QED
    BY <2>1, <1>2, <1>3, <1>7
<1>9. queue # << >>
  BY <1>1, <1>4
<1>10. Dequeue
  BY <1>1, <1>4, <1>6, <1>8, <1>9 DEF Dequeue
<1> QED
  BY <1>3, <1>10 DEF Refines, Next

LEMMA DeletePathRefines ==
  ASSUME NEW q, NEW n, NEW f, NEW m, Shape(q, n, f, m), Stands(q, n),
         List!DeletePath, queue' = QueueOfList', taken' = TakenFromList'
  PROVE  Refines
<1>1. PICK f2, m2 : Shape(q, n, f2, m2)'
  BY DeletePathStep
<1>2. /\ \A i \in 1..n : info'[q[i]] = info[q[i]]
      /\ path # List!Null /\ path' = List!Null /\ arrivals' = arrivals
  BY DeletePathStep DEF List!DeletePath
<1>3. queue' = [i \in 1..n |-> info'[q[i]]] /\ IInvList'
  BY <1>1, SeenAfter
<1>4. queue' = queue
  BY <1>2, <1>3 DEF Stands
<1>5. taken' = << >> /\ taken = <<info[path]>>
  BY <1>2 DEF Stands, TakenFromList, List!Null
<1>6. taken # << >>
  BY <1>5
<1>7. Delete
  BY <1>2, <1>4, <1>5, <1>6 DEF Delete
<1> QED
  BY <1>3, <1>7 DEF Refines, Next

-----------------------------------------------------------------------------
(* Every reachable state of the list has such a shape, and every step is a *)
(* step of the queue or none.                                              *)
LEMMA ShapeOfInit ==
  ASSUME ListInit
  PROVE  Shape(<< >>, 0, << >>, 0) /\ Stands(<< >>, 0)
<1>1. /\ next = << >> /\ info = << >> /\ top = List!Null /\ head = List!Null
      /\ proto = List!Null /\ path = List!Null /\ new = List!Null
  BY DEF ListInit, List!Init
<1>2. Len(next) = 0 /\ DOMAIN next = {} /\ 1..Len(next) = {} /\ 1..0 = {}
  BY <1>1
<1>3. /\ next = [k \in 1..Len(next) |-> next[k]]
      /\ info = [k \in 1..Len(next) |-> info[k]]
  BY <1>1, <1>2
<1>4. Chain(next, << >>, 0, top) /\ Chain(next, << >>, 0, head)
  <2>1. << >> \in [1..0 -> DOMAIN next]
    BY <1>2
  <2> QED
    BY <1>1, <1>2, <2>1 DEF Chain
<1>5. Linked(<< >>, 0) = {} /\ List!InHand = {}
  BY <1>1, <1>2 DEF Linked, List!InHand
<1>6. Partition(<< >>, 0, << >>, 0)
  BY <1>1, <1>2, <1>5 DEF Partition
<1>7. Shape(<< >>, 0, << >>, 0)
  BY <1>1, <1>2, <1>3, <1>4, <1>6 DEF Shape
<1>8. QueueOfList = [i \in 1..0 |-> info[<< >>[i]]]
  BY <1>7, ListSeen DEF Seen
<1> QED
  BY <1>7, <1>8 DEF Stands, ListInit

LEMMA InitRefines == ListInit => IInvList /\ Init
<1> SUFFICES ASSUME ListInit PROVE IInvList /\ Init
  OBVIOUS
<1>1. Shape(<< >>, 0, << >>, 0) /\ Stands(<< >>, 0)
  BY ShapeOfInit
<1>2. queue = [i \in 1..0 |-> info[<< >>[i]]] /\ taken = TakenFromList
  BY <1>1 DEF Stands
<1>3. queue = << >> /\ taken = << >> /\ arrivals = 0
  BY <1>2 DEF TakenFromList, ListInit, List!Init
<1> QED
  BY <1>1, <1>3 DEF IInvList, Init

LEMMA StepRefines == IInvList /\ [ListNext]_<<List!vars, vars>> => Refines
<1> SUFFICES ASSUME NEW q, NEW n, NEW f, NEW m, Shape(q, n, f, m), Stands(q, n),
                    [ListNext]_<<List!vars, vars>>
             PROVE  Refines
  BY DEF IInvList
<1>1. CASE UNCHANGED <<List!vars, vars>>
  <2>1. /\ next' = next /\ info' = info /\ top' = top /\ head' = head
        /\ proto' = proto /\ path' = path /\ new' = new /\ prev' = prev
        /\ arrivals' = arrivals /\ queue' = queue /\ taken' = taken
    BY <1>1 DEF List!vars, vars
  <2>2. Partition(q, n, f, m)' <=> Partition(q, n, f, m)
    BY <2>1 DEF Partition, Linked, List!InHand
  <2>3. Searching(q, n)' <=> Searching(q, n)
    BY <2>1 DEF Searching, List!Copy
  <2>4. Shape(q, n, f, m)'
    BY <2>1, <2>2, <2>3 DEF Shape
  <2>5. Stands(q, n)'
    BY <2>1 DEF Stands, TakenFromList
  <2> QED
    BY <2>1, <2>4, <2>5 DEF Refines, IInvList, vars
<1>2. CASE ListNext
  <2>1. queue' = QueueOfList' /\ taken' = TakenFromList'
    BY <1>2 DEF ListNext
  <2>2. CASE \E prod \in ProdIndex : List!NewPath(prod)
    <3>1. (\E f2, m2 : Shape(q, n, f2, m2)') /\ Kept(q, n)
      BY <2>2, NewPathStep
    <3> QED
      BY <2>1, <3>1, KeptStutters
  <2>3. CASE \E column \in Column : List!InsertFirst(column)
    BY <2>1, <2>3, InsertFirstRefines
  <2>4. CASE \E column \in Column : List!StartSearch(column)
    <3>1. (\E f2, m2 : Shape(q, n, f2, m2)') /\ Kept(q, n)
      BY <2>4, StartSearchStep
    <3> QED
      BY <2>1, <3>1, KeptStutters
  <2>5. CASE List!Search
    <3>1. Shape(q, n, f, m)' /\ Kept(q, n)
      BY <2>5, SearchStep
    <3> QED
      BY <2>1, <3>1, KeptStutters
  <2>6. CASE List!InsertAfter
    BY <2>1, <2>6, InsertAfterRefines
  <2>7. CASE List!DeleteProto
    <3>1. (\E f2, m2 : Shape(q, n, f2, m2)') /\ Kept(q, n)
      BY <2>7, DeleteProtoStep
    <3> QED
      BY <2>1, <3>1, KeptStutters
  <2>8. CASE List!Dequeue
    BY <2>1, <2>8, DequeueRefines
  <2>9. CASE List!DeletePath
    BY <2>1, <2>9, DeletePathRefines
  <2> QED
    BY <1>2, <2>2, <2>3, <2>4, <2>5, <2>6, <2>7, <2>8, <2>9 DEF ListNext, List!Next
<1> QED
  BY <1>1, <1>2

-----------------------------------------------------------------------------
(* How many hands hold a path is how many paths are in hand.               *)
LEMMA HandsCounted ==
  ASSUME proto # List!Null => proto # path /\ proto # new,
         path # List!Null => path # new
  PROVE  List!Cardinality(List!InHand) =
           List!Cardinality({v \in {1, 2, 3} :
                               <<proto, path, new>>[v] # List!Null})
<1> DEFINE V == {v \in {1, 2, 3} : <<proto, path, new>>[v] # List!Null}
           h == [v \in V |-> <<proto, path, new>>[v]]
<1>1. /\ <<proto, path, new>>[1] = proto /\ <<proto, path, new>>[2] = path
      /\ <<proto, path, new>>[3] = new
  OBVIOUS
<1>2. \A v \in V : h[v] \in List!InHand
  BY <1>1 DEF List!InHand
<1>3. \A u, v \in V : h[u] = h[v] => u = v
  BY <1>1
<1>4. \A x \in List!InHand : \E v \in V : h[v] = x
  <2> SUFFICES ASSUME NEW x \in List!InHand PROVE \E v \in V : h[v] = x
    OBVIOUS
  <2>1. x # List!Null /\ (x = proto \/ x = path \/ x = new)
    BY DEF List!InHand
  <2>2. CASE x = proto
    <3>1. 1 \in V /\ h[1] = x
      BY <1>1, <2>1, <2>2
    <3> QED
      BY <3>1
  <2>3. CASE x = path
    <3>1. 2 \in V /\ h[2] = x
      BY <1>1, <2>1, <2>3
    <3> QED
      BY <3>1
  <2>4. CASE x = new
    <3>1. 3 \in V /\ h[3] = x
      BY <1>1, <2>1, <2>4
    <3> QED
      BY <3>1
  <2> QED
    BY <2>1, <2>2, <2>3, <2>4
<1>5. h = [v \in V |-> h[v]]
  OBVIOUS
<1>6. IsFiniteSet(V)
  <2>1. PICK k \in Nat : k = 3
    OBVIOUS
  <2>2. IsFiniteSet(1..k)
    BY FS_Interval
  <2>3. V \subseteq 1..k
    BY <2>1
  <2> QED
    BY <2>2, <2>3, FS_Subset
<1> HIDE DEF h, V
<1>7. h \in Bijection(V, List!InHand)
  BY <1>2, <1>3, <1>4, <1>5 DEF Bijection, Injection, Surjection, IsInjective
<1>8. Cardinality(List!InHand) = Cardinality(V)
  BY <1>6, <1>7, FS_Bijection DEF ExistsBijection
<1> QED
  BY <1>8, SameCardinality DEF V

LEMMA IInvImplies == IInvList => EachPathInOnePlace
<1> SUFFICES ASSUME NEW q, NEW n, NEW f, NEW m, Shape(q, n, f, m)
             PROVE  EachPathInOnePlace
  BY DEF IInvList
<1>1. /\ Len(next) \in Nat /\ DOMAIN next = 1..Len(next)
      /\ Chain(next, q, n, top) /\ Chain(next, f, m, head) /\ Partition(q, n, f, m)
  BY DEF Shape
<1>2. List!Members(top) = Linked(q, n) /\ List!Walk(top)[Len(next) + 1] = List!Null
  BY <1>1, ListOfChain
<1>3. List!Members(head) = Linked(f, m) /\ List!Walk(head)[Len(next) + 1] = List!Null
  BY <1>1, ListOfChain
<1>4. /\ Linked(q, n) \cap Linked(f, m) = {}
      /\ (Linked(q, n) \cup Linked(f, m)) \cap List!InHand = {}
      /\ Linked(q, n) \cup Linked(f, m) \cup List!InHand = List!Paths
  BY <1>1 DEF Partition, List!Paths
<1>5. List!Cardinality(List!InHand) =
        List!Cardinality({v \in {1, 2, 3} : <<proto, path, new>>[v] # List!Null})
  BY <1>1, HandsCounted DEF Partition
<1> QED
  BY <1>2, <1>3, <1>4, <1>5 DEF EachPathInOnePlace, List!EachPathInOnePlace

(* What ObjectPool and ReductionPathQueue (glr.cc, objpool.h) promise, for *)
(* every rack size and every number of paths: a path of the pool is in the *)
(* list, in the free list or in one hand, never in two of them and never   *)
(* lost, and both lists end, though they use one word for their links and  *)
(* the copy is handed out before the search for its place has ended.       *)
THEOREM PoolPartitioned == ListSpec => []EachPathInOnePlace
<1>1. IInvList /\ [ListNext]_<<List!vars, vars>> => IInvList'
  BY StepRefines DEF Refines
<1> QED
  BY InitRefines, <1>1, IInvImplies, PTL DEF ListSpec

(* The list of pointers is the sorted queue of PathQueue: insertPathCopy,  *)
(* however many steps its search takes, inserts once, dequeue takes the    *)
(* first path, and nothing else that happens to the pool is seen.          *)
THEOREM ListImplementsQueue == ListSpec => ImplementsPathQueue
<1>1. IInvList /\ [ListNext]_<<List!vars, vars>> => IInvList' /\ [Next]_vars
  BY StepRefines DEF Refines
<1> QED
  BY InitRefines, <1>1, PTL DEF ListSpec, ImplementsPathQueue, Spec

(* So the paths come out of the list of pointers in the order in which the *)
(* reductions must be performed ...                                        *)
COROLLARY ListAlwaysSorted == ListSpec => []QueueSorted
  BY ListImplementsQueue, QueueAlwaysSorted, PTL DEF ImplementsPathQueue

(* ... and paths that tie in it come out in the order of their insertion.  *)
COROLLARY ListTiesInArrivalOrder == ListSpec => []TiesInArrivalOrder
  BY ListImplementsQueue, TiesAlwaysInArrivalOrder, PTL DEF ImplementsPathQueue
=============================================================================
