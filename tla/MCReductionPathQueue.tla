------------------------ MODULE MCReductionPathQueue ------------------------
(***************************************************************************)
(* The worklist and its pool on the order of MCPathOrder, next to the queue*)
(* that the list stands for: 'queue' and 'taken' are what is found by going*)
(* along the links, so the properties of PathQueue, its specification      *)
(* among them, are asked of the list of pointers as they stand.            *)
(***************************************************************************)
EXTENDS PathQueue, MCPathOrder

CONSTANTS RackSize, NDebug

ASSUME RackSizeAssumption == RackSize \in Nat \ {0} /\ NDebug \in BOOLEAN

VARIABLES next, info, top, head, proto, path, new, prev

List == INSTANCE ReductionPathQueue

QueueOfList == [i \in 1..List!ListLen(top) |-> info[List!Walk(top)[i]]]
TakenFromList == IF path = List!Null THEN << >> ELSE <<info[path]>>

ListInit == List!Init /\ queue = QueueOfList /\ taken = TakenFromList
ListNext ==
  List!Next /\ queue' = QueueOfList' /\ taken' = TakenFromList'
ListSpec == ListInit /\ [][ListNext]_<<List!vars, vars>>

(* Each path of the pool is in one place, and the two lists end.           *)
EachPathInOnePlace == List!EachPathInOnePlace

(* The list of pointers implements the abstract queue.                     *)
ImplementsPathQueue == Spec
=============================================================================
