--------------------------------- MODULE MCBom ---------------------------------
(***************************************************************************)
(* A small instance of Bom: versions of two products, two sets of lines.   *)
(***************************************************************************)
EXTENDS Bom, TLC

CONSTANTS p1, p2, b1, b2, b3, c1, c2, q1, q2

Interchangeable ==
  Permutations(Requests) \union Permutations(Boms) \union Permutations(Products)
    \union Permutations(Components)
=============================================================================
