----------------------------- MODULE MCApprovals -----------------------------
(***************************************************************************)
(* A small instance of Approvals: a group of two members in either mode,   *)
(* one task, a purchase order and a sales order, two requests at a time.   *)
(***************************************************************************)
EXTENDS Approvals

CONSTANTS po, so, t1, t2, u1, u2, q1, q2

MCGroupings == {[mode |-> m, members |-> Users] : m \in {"ALL", "ANY"}}
=============================================================================
