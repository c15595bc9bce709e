----------------------------- MODULE PathOrder -----------------------------
(***************************************************************************)
(* The order of the reduction worklist (class ReductionPathQueue of        *)
(* elkhound/glr.h).  A path that spans fewer tokens goes first; among paths*)
(* that start in the same column, one whose nonterminal can be derived     *)
(* from another's goes before it; ties keep their order of arrival.        *)
(***************************************************************************)
EXTENDS Integers, Sequences

CONSTANTS
  NtIndex,            \* nonterminal codes
  ProdIndex,          \* production codes
  ProdInfo,           \* [ProdIndex -> [lhsIndex : NtIndex, rhsLen : Nat]]
  NontermOrder        \* [NtIndex -> Nat], ParseTables::getNontermOrdinal

ASSUME ProdInfoAssumption ==
  ProdInfo \in [ProdIndex -> [lhsIndex : NtIndex, rhsLen : Nat]]

ASSUME NontermOrderAssumption == NontermOrder \in [NtIndex -> Nat]

Ordinal(p) == NontermOrder[ProdInfo[p.prod].lhsIndex]

\* Variants of GoesBefore: columns only, and ties that go before each other.
GoesBefore_ColumnOnly(p1, p2) == p1.startColumn > p2.startColumn
GoesBefore_Loose(p1, p2) ==
  p1.startColumn >= p2.startColumn /\ Ordinal(p1) <= Ordinal(p2)

(* ReductionPathQueue::goesBefore.                                         *)
GoesBefore(p1, p2) ==
  \/ p1.startColumn > p2.startColumn
  \/ p1.startColumn = p2.startColumn /\ Ordinal(p1) < Ordinal(p2)

(* The search of insertPathCopy: it stops before the first path that the   *)
(* new one precedes, or at the end.                                        *)
InsertionPoint(q, p) ==
  CHOOSE i \in 1..(Len(q) + 1) :
    /\ \A j \in 1..(i - 1) : ~ GoesBefore(p, q[j])
    /\ i <= Len(q) => GoesBefore(p, q[i])

(* The list after ReductionPathQueue::insertPathCopy.                      *)
InsertPathCopy(q, p) ==
  LET i == InsertionPoint(q, p) IN
    [k \in 1..(Len(q) + 1) |->
       IF k < i THEN q[k] ELSE IF k = i THEN p ELSE q[k - 1]]

(* No path in the list precedes one that is nearer to its head.            *)
Sorted(q) == \A i, j \in 1..Len(q) : i < j => ~ GoesBefore(q[j], q[i])
=============================================================================
