----------------------------- MODULE PathQueue -----------------------------
(***************************************************************************)
(* What the reduction worklist promises rwlProcessWorklist: paths come out *)
(* in the order of goesBefore, and one at a time; the path taken out stays *)
(* valid until it is deleted, whatever is inserted meanwhile.              *)
(***************************************************************************)
EXTENDS PathArrivals

VARIABLES
  queue,              \* the paths that wait, next one first
  taken,              \* << >>, or the path that is being reduced
  arrivals            \* how many paths were inserted

vars == <<queue, taken, arrivals>>

QueuedPath == [prod : ProdIndex, startColumn : Column, arrival : Nat]

Init == queue = << >> /\ taken = << >> /\ arrivals = 0

Insert(prod, column) ==
  /\ arrivals < MaxArrivals
  /\ queue' = InsertPathCopy(queue, [prod |-> prod, startColumn |-> column,
                                     arrival |-> arrivals])
  /\ arrivals' = arrivals + 1
  /\ UNCHANGED taken

Dequeue ==
  /\ queue # << >> /\ taken = << >>
  /\ taken' = <<Head(queue)>>
  /\ queue' = Tail(queue)
  /\ UNCHANGED arrivals

Delete ==
  /\ taken # << >>
  /\ taken' = << >>
  /\ UNCHANGED <<queue, arrivals>>

Next ==
  \/ \E prod \in ProdIndex, column \in Column : Insert(prod, column)
  \/ Dequeue
  \/ Delete

Spec == Init /\ [][Next]_vars

-----------------------------------------------------------------------------
(* The queue holds paths, and one path at most is being reduced.           *)
TypeOK ==
  /\ queue \in Seq(QueuedPath)
  /\ taken \in Seq(QueuedPath) /\ Len(taken) <= 1
  /\ arrivals \in Nat

(* The list is sorted by goesBefore: the path that rwlProcessWorklist takes*)
(* is one that no other precedes.                                          *)
QueueSorted == Sorted(queue)

(* Paths that tie under goesBefore come out in the order in which they were*)
(* inserted: goesBefore is strict and the search goes past equal paths.    *)
TiesInArrivalOrder ==
  \A i, j \in 1..Len(queue) :
    i < j /\ ~ GoesBefore(queue[i], queue[j]) =>
      queue[i].arrival < queue[j].arrival
=============================================================================
