---------------------------- MODULE MCPathOrder ----------------------------
(***************************************************************************)
(* A small order of paths for TLC: two nonterminals, the second of which   *)
(* derives the first, and two productions for the first.                   *)
(***************************************************************************)
EXTENDS Integers

MCNtIndex == {0, 1}
MCProdIndex == {0, 1, 2}
MCProdInfo == [p \in MCProdIndex |-> [lhsIndex |-> IF p = 1 THEN 1 ELSE 0,
                                      rhsLen |-> 1]]
MCNontermOrder == [n \in MCNtIndex |-> n]
=============================================================================
