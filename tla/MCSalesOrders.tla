---------------------------- MODULE MCSalesOrders ----------------------------
(***************************************************************************)
(* Small instances of SalesOrders.  Rows 1 and 2 hold the same material,   *)
(* so that a reservation may have to be split, row 3 holds another.        *)
(***************************************************************************)
EXTENDS SalesOrders, TLC

CONSTANTS m1, m2, o1, o2, o3, o4, c1, c2, q1, q2

MCMatOf == [r \in Rows |-> IF r = 3 THEN m2 ELSE m1]

\* Row 3 does not exist at first; a movement creates it.
MCInitPresent == Rows \ {3}
MCInitQty == [r \in Rows |-> CASE r = 1 -> 1 [] r = 2 -> 2 [] OTHER -> 0]

MCMovements == {[r \in Rows |-> IF r = 1 THEN 1 ELSE 0],
                [r \in Rows |-> IF r = 3 THEN 1 ELSE 0],
                [r \in Rows |-> IF r = 2 THEN 2 ELSE IF r = 3 THEN 1 ELSE 0]}

\* Two rows of one material only; the second is created by its first movement.
MCFirstRow == {1}
MCFirstRowQty == [r \in Rows |-> IF r = 1 THEN 2 ELSE 0]
MCUnitMovements == {[r \in Rows |-> IF r = s THEN 1 ELSE 0] : s \in Rows}

\* o1 may take more than any one row holds, o2 needs both materials, o3 one unit of m1.
MCNeed ==
  [o \in Orders |-> [m \in Materials |-> CASE o = o1 /\ m = m1 -> IF 3 \in Rows THEN 3 ELSE 2
                                          [] o = o1 -> 0
                                          [] o = o2 -> 1
                                          [] OTHER  -> IF m = m1 THEN 1 ELSE 0]]

\* The concurrent instance: o1 or o2 fits the limit of 2 only after o3, an order of
\* negative amount, and then both do if their approvals overlap.
MCAmount == [o \in Orders |-> IF o = o3 THEN -1 ELSE 3]
MCLimitOfTwo == [c \in Customers |-> 2]

\* The serial instances: c1 has room for one of o1 and o2 only, but o4 makes room; c2 is
\* not under credit control.
MCSerialAmount == [o \in Orders |-> CASE o = o1 -> 3 [] o = o4 -> -1 [] OTHER -> 2]
MCCustOf == [o \in Orders |-> IF o = o3 /\ c2 \in Customers THEN c2 ELSE c1]
MCCreditLimit == [c \in Customers |-> IF c = c1 THEN 3 ELSE 0]

\* Which goroutine serves a request does not matter.
Goroutines == Permutations(Requests)
=============================================================================
