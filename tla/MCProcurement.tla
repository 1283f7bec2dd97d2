---------------------------- MODULE MCProcurement ----------------------------
(***************************************************************************)
(* A small instance of Procurement: orders of one or two lines, which both *)
(* go into stock row 1 if there is no row 2, and receipts that accept one  *)
(* unit of a line, one of each, or nothing (all rejected).                 *)
(***************************************************************************)
EXTENDS Procurement, TLC

CONSTANTS m1, p1, s1, s2, q1, q2

MCMatOf == [r \in Rows |-> m1]
MCInitQty == [r \in Rows |-> IF r = 1 THEN 1 ELSE 0]
MCLineRow == [l \in Lines |-> IF l \in Rows THEN l ELSE 1]
MCContents == {[l \in Lines |-> IF l = 1 THEN 2 ELSE 1], [l \in Lines |-> IF l = 1 THEN 1 ELSE 0]}
MCRounds == {[l \in Lines |-> 0], [l \in Lines |-> IF l = 1 THEN 1 ELSE 0], [l \in Lines |-> 1]}

Goroutines == Permutations(Requests)
=============================================================================
