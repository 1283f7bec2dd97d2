------------------------------ MODULE StockPool ------------------------------
(***************************************************************************)
(* What the stock ledger promises to the rest of the system, whatever the  *)
(* orders, receipts and movements behind a step: a step reserves, releases,*)
(* receives or ships, it does one of these only, and a reservation never   *)
(* goes beyond what is on hand in the row it is taken from.                *)
(***************************************************************************)
EXTENDS Integers

CONSTANT Rows

VARIABLES quantity, locked

Init ==
  /\ quantity \in [Rows -> Nat]
  /\ locked = [r \in Rows |-> 0]

\* Reservations grow, and only where the goods are.
Reserve ==
  /\ locked' \in [Rows -> Nat]
  /\ \A r \in Rows : \/ locked'[r] = locked[r]
                     \/ locked'[r] > locked[r] /\ locked'[r] <= quantity[r]
  /\ UNCHANGED quantity

Release ==
  /\ locked' \in [Rows -> Nat]
  /\ \A r \in Rows : locked'[r] <= locked[r]
  /\ UNCHANGED quantity

Arrive ==
  /\ quantity' \in [Rows -> Nat]
  /\ \A r \in Rows : quantity'[r] >= quantity[r]
  /\ UNCHANGED locked

Ship ==
  /\ quantity' \in [Rows -> Nat]
  /\ \A r \in Rows : quantity'[r] <= quantity[r]
  /\ UNCHANGED locked

Next == Reserve \/ Release \/ Arrive \/ Ship

Spec == Init /\ [][Next]_<<quantity, locked>>
=============================================================================
