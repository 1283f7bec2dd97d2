------------------------------ MODULE Inventory ------------------------------
(***************************************************************************)
(* The stock ledger of opti-chain: table inv_stock as the services write   *)
(* it.  A row of the table is a (warehouse, location, material) triple; it *)
(* has an id, a quantity on hand and a locked quantity that sales orders   *)
(* have reserved.  The operators below are the bodies of the repository    *)
(* and service calls that change those two columns; the modules that       *)
(* EXTEND this one (SalesOrders, Procurement) use them inside their own    *)
(* transactions, as the Go services do.                                    *)
(*                                                                         *)
(* A transaction is one step: on SQLite, the default database, writers are *)
(* serialised and a transaction that read a stale snapshot fails.          *)
(* Quantities are whole numbers here (decimal(12,4) in the code).          *)
(***************************************************************************)
EXTENDS Integers, FiniteSets, Functions

CONSTANTS
  Materials,   \* material ids
  Rows,        \* primary keys of inv_stock, whose order breaks ties
  MatOf,       \* the material of each row
  InitPresent, \* the rows that exist at the start; the others are created on demand
  InitQty,     \* quantity of each row at the start
  Movements,   \* the details a movement may carry: quantity per row, 0 for none
  MaxStock     \* bound of the model: no row ever holds more

ASSUME InventoryAssumption ==
  /\ Rows \subseteq Nat /\ IsFiniteSet(Rows)
  /\ MatOf \in [Rows -> Materials]
  /\ InitPresent \subseteq Rows
  /\ MaxStock \in Nat
  /\ InitQty \in [Rows -> 0..MaxStock]
  /\ \A r \in Rows \ InitPresent : InitQty[r] = 0
  /\ Movements \subseteq [Rows -> Nat]

VARIABLES
  present,   \* the rows of inv_stock that exist
  quantity,  \* column quantity (0 for a row that does not exist)
  locked,    \* column locked_quantity
  moved      \* history: net quantity of the movements accepted so far

stockVars == <<present, quantity, locked, moved>>

InventoryTypeOK ==
  /\ present \subseteq Rows
  /\ quantity \in [Rows -> Int]
  /\ locked \in [Rows -> Int]
  /\ moved \in [Rows -> Int]

InventoryInit ==
  /\ present = InitPresent
  /\ quantity = InitQty
  /\ locked = [r \in Rows |-> 0]
  /\ moved = InitQty

-----------------------------------------------------------------------------
(* Reservation and release, as sales orders use them. *)

RowsOf(m) == {r \in Rows : MatOf[r] = m}

\* Mutant of Available: stock that others have reserved is offered again.
OnHand(r) == quantity[r]

\* What AvailableRowsInTx offers of a row: nothing unless quantity > locked_quantity.
Available(r) == IF quantity[r] > locked[r] THEN quantity[r] - locked[r] ELSE 0

\* ORDER BY (quantity - locked_quantity) DESC, id
Before(s, r) == \/ Available(s) > Available(r)
                \/ Available(s) = Available(r) /\ s < r

\* A way of taking quantities from rows that never takes more than a row offers.
Plans(offer) == {p \in [Rows -> 0..MaxStock] : \A r \in Rows : p[r] <= offer[r]}

\* Mutant of Covers: a plan that runs out of stock is accepted as it is.
CoversAtMost(plan, need) ==
  \A m \in Materials : SumFunctionOnSet(plan, RowsOf(m)) <= need[m]

Covers(plan, need) == \A m \in Materials : SumFunctionOnSet(plan, RowsOf(m)) = need[m]

\* lockStockTx for every line of an order: the plan exhausts the larger rows first
\* and the step exists only if the whole need is covered (otherwise: rollback).
LockStock(need) ==
  \E take \in Plans([r \in Rows |-> Available(r)]) :
    /\ Covers(take, need)
    /\ \A r, s \in Rows :
         MatOf[r] = MatOf[s] /\ Before(s, r) /\ take[r] > 0 => take[s] = Available(s)
    /\ locked' = [r \in Rows |-> locked[r] + take[r]]
    /\ UNCHANGED <<present, quantity, moved>>

\* unlockStockTx for every line: locked units are fungible, rows are emptied by id.
UnlockStock(need) ==
  \E take \in Plans(locked) :
    /\ Covers(take, need)
    /\ \A r, s \in Rows :
         MatOf[r] = MatOf[s] /\ s < r /\ take[r] > 0 => take[s] = locked[s]
    /\ locked' = [r \in Rows |-> locked[r] - take[r]]
    /\ UNCHANGED <<present, quantity, moved>>

-----------------------------------------------------------------------------
(* Movements: applyMovementInTx, all details or none. *)

Touched(mv) == {r \in Rows : mv[r] > 0}

\* Mutant of ApplyIn: the quantity received replaces the one on hand.
ApplyInReplaces(mv) ==
  /\ quantity' = [r \in Rows |-> IF mv[r] > 0 THEN mv[r] ELSE quantity[r]]
  /\ present' = present \union Touched(mv)
  /\ moved' = [r \in Rows |-> moved[r] + mv[r]]
  /\ UNCHANGED locked

ApplyIn(mv) ==
  /\ \A r \in Rows : quantity[r] + mv[r] <= MaxStock
  /\ quantity' = [r \in Rows |-> quantity[r] + mv[r]]
  /\ present' = present \union Touched(mv)
  /\ moved' = [r \in Rows |-> moved[r] + mv[r]]
  /\ UNCHANGED locked

\* Mutants of ApplyOut: the guard of AdjustGated dropped; a shortage cut to zero.
ApplyOutUnguarded(mv) ==
  /\ \A r \in Rows : quantity[r] - mv[r] >= -MaxStock
  /\ quantity' = [r \in Rows |-> quantity[r] - mv[r]]
  /\ present' = present \union Touched(mv)
  /\ moved' = [r \in Rows |-> moved[r] - mv[r]]
  /\ UNCHANGED locked
ApplyOutClamped(mv) ==
  /\ \A r \in Rows : moved[r] - mv[r] >= -MaxStock
  /\ quantity' = [r \in Rows |-> IF quantity[r] >= mv[r] THEN quantity[r] - mv[r] ELSE 0]
  /\ present' = present \union Touched(mv)
  /\ moved' = [r \in Rows |-> moved[r] - mv[r]]
  /\ UNCHANGED locked

\* AdjustGated guards rows that exist with quantity - mv >= 0 (locked_quantity plays
\* no part); a row that does not exist yet is created empty and the movement succeeds.
ApplyOut(mv) ==
  /\ \A r \in present : quantity[r] >= mv[r]
  /\ quantity' = [r \in Rows |-> IF r \in present THEN quantity[r] - mv[r] ELSE 0]
  /\ present' = present \union Touched(mv)
  /\ moved' = [r \in Rows |-> moved[r] - mv[r]]
  /\ UNCHANGED locked

MoveIn == \E mv \in Movements : ApplyIn(mv)

MoveOut == \E mv \in Movements : ApplyOut(mv)

-----------------------------------------------------------------------------
(* What the ledger promises. *)

\* On-hand stock never goes negative and neither does a reservation, whatever is
\* received, shipped, reserved and released in whatever order (the guards of
\* AdjustGated and UnlockRowInTx).
StockNonNegative ==
  \A r \in Rows : quantity[r] >= 0 /\ locked[r] >= 0

\* docs/dev/data-model.md, key invariant 2: at any time locked <= quantity.
LockedWithinQuantity ==
  \A r \in Rows : locked[r] <= quantity[r]

\* What is on hand is what the accepted movements add up to, for a row that was
\* there from the start.  A row that applyMovementInTx had to create may hold more:
\* a first movement out of it is accepted and takes nothing.  No row holds less.
MovementsExplainStock ==
  \A r \in Rows : IF r \in InitPresent THEN quantity[r] = moved[r]
                                       ELSE quantity[r] >= moved[r]
=============================================================================
