------------------------------ MODULE MCBomOrder ------------------------------
(***************************************************************************)
(* A small instance of BomOrder: two materials, two suppliers, two stamps  *)
(* and every table of up to two bindings with prices 1 and 2.              *)
(***************************************************************************)
EXTENDS BomOrder, TLC

CONSTANTS q1, q2, s1, s2

MCNeeds == {[m \in Materials |-> 1]}
MCForms == {r \in Rel : r.price = 1}
MCInitRels == {t \in [RelIds -> Rel \union {NoRel}] :
                 /\ t[3] = NoRel
                 /\ t[1] # NoRel => t[1].supplier = 1
                 /\ (t[2] # NoRel => t[1] # NoRel)}

Interchangeable == Permutations(Handlers) \union Permutations(Stamps)
=============================================================================
