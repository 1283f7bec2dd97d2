------------------------------ MODULE MCPlanning ------------------------------
(***************************************************************************)
(* A small instance of Planning: one material of which none is on hand or  *)
(* need be kept, demands of one unit.                                      *)
(***************************************************************************)
EXTENDS Planning, TLC

CONSTANTS m1, d1, d2, q1, q2, x

MCMinStock == [m \in Materials |-> 0]
MCInitStock == [m \in Materials |-> 0]
MCForms == [mat : Materials, qty : {1}]

Interchangeable == Permutations(Requests) \union Permutations(Demands)
=============================================================================
