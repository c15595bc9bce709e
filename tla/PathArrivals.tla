---------------------------- MODULE PathArrivals ----------------------------
(***************************************************************************)
(* The paths that arrive at the worklist: a production and a left edge.    *)
(***************************************************************************)
EXTENDS PathOrder

CONSTANTS
  Column,             \* token columns
  MaxArrivals         \* bound on the number of insertions

ASSUME ColumnAssumption == Column \subseteq Nat
ASSUME MaxArrivalsAssumption == MaxArrivals \in Nat
=============================================================================
