----------------------------- MODULE SalesOrders -----------------------------
(***************************************************************************)
(* The sales-order lifecycle (internal/service/sales_service.go) over the  *)
(* stock ledger and the customers' credit lines:                           *)
(*                                                                         *)
(*   DRAFT --approve--> APPROVED  reserves stock, charges credit           *)
(*   DRAFT, APPROVED --cancel--> CANCELLED  releases both                  *)
(*   DRAFT --delete--> (no row)                                            *)
(*                                                                         *)
(* Every HTTP request runs in a goroutine of its own.  Approve, Cancel and *)
(* Delete first read the order outside any transaction, validate what they *)
(* read, and write later: a request is therefore two steps, Begin and      *)
(* Commit, and everything else may happen in between.  A request may also  *)
(* end without effect at any moment (Abort): a guard inside the            *)
(* transaction refused it, the database failed it, the server stopped.     *)
(***************************************************************************)
EXTENDS Inventory

CONSTANTS
  Orders,      \* sales orders that clients may create
  Need,        \* Need[o][m]: quantity of material m on the lines of order o
  Amount,      \* total_amount of each order: below zero when a line has a negative price
  Customers,
  CustOf,      \* the customer of each order
  AuditPassed, \* customers whose audit_status is APPROVED
  CreditLimit, \* credit_limit of each customer; <= 0 turns credit control off
  Requests,    \* goroutines: how many requests are in flight at once
  Endpoints    \* the endpoints clients call in this instance

ASSUME SalesAssumption ==
  /\ IsFiniteSet(Orders)
  /\ IsFiniteSet(Requests) /\ Requests # {}
  /\ Need \in [Orders -> [Materials -> Nat]]
  /\ Amount \in [Orders -> Int]
  /\ CustOf \in [Orders -> Customers]
  /\ AuditPassed \subseteq Customers
  /\ CreditLimit \in [Customers -> Int]
  /\ Endpoints \subseteq {"approve", "cancel", "delete", "moveIn", "moveOut", "editCustomer"}

VARIABLES
  status,     \* status column of each order, "NONE" when it has no row
  usedCredit, \* used_credit column of each customer
  request,    \* what each goroutine has read and is about to write
  held,       \* history: reservations of the order's lines minus releases
  edited,     \* history: customers whose row a form has saved
  lifted      \* history: what cancelling orders of negative amount added to used_credit

orderVars == <<status, usedCredit, request, held, edited, lifted>>
vars == <<stockVars, orderVars>>

Statuses == {"NONE", "DRAFT", "APPROVED", "CANCELLED", "DELETED"}

Idle == [op |-> "idle"]

\* wasApproved and used are what the goroutine read before its transaction.
RequestRecords ==
  [op : {"approve", "delete"}, so : Orders]
    \union [op : {"cancel"}, so : Orders, wasApproved : BOOLEAN]
    \union [op : {"editCustomer"}, customer : Customers, used : Int]
    \union {Idle}

TypeOK ==
  /\ InventoryTypeOK
  /\ status \in [Orders -> Statuses]
  /\ usedCredit \in [Customers -> Int]
  /\ request \in [Requests -> RequestRecords]
  /\ held \in [Orders -> Int]
  /\ edited \subseteq Customers
  /\ lifted \in [Customers -> Nat]

Init ==
  /\ InventoryInit
  /\ status = [o \in Orders |-> "NONE"]
  /\ usedCredit = [c \in Customers |-> 0]
  /\ request = [q \in Requests |-> Idle]
  /\ held = [o \in Orders |-> 0]
  /\ edited = {}
  /\ lifted = [c \in Customers |-> 0]

-----------------------------------------------------------------------------
(* One order, one insert: nothing that Create reads can change before it.   *)
(* CreateBatch is the same step once per item.  Create checks that quantities  *)
(* are positive but not the prices, so that an order's amount may be negative. *)

Create(o) ==
  /\ status[o] = "NONE"
  /\ CustOf[o] \in AuditPassed
  /\ status' = [status EXCEPT ![o] = "DRAFT"]
  /\ UNCHANGED <<stockVars, usedCredit, request, held, edited, lifted>>

Exists(o) == status[o] \notin {"NONE", "DELETED"}

Start(q, r) ==
  /\ r.op \in Endpoints
  /\ request[q] = Idle
  /\ request' = [request EXCEPT ![q] = r]
  /\ UNCHANGED <<stockVars, status, usedCredit, held, edited, lifted>>

Finish(q) == request' = [request EXCEPT ![q] = Idle]

Abort(q) ==
  /\ request[q] # Idle
  /\ Finish(q)
  /\ UNCHANGED <<stockVars, status, usedCredit, held, edited, lifted>>

-----------------------------------------------------------------------------
(* Approve *)

\* Mutants of CreditAllows: the order's own amount forgotten; no check at all.
CreditAllowsUsedOnly(o) ==
  LET c == CustOf[o] IN CreditLimit[c] > 0 => usedCredit[c] <= CreditLimit[c]
CreditUnchecked(o) == TRUE

CreditAllows(o) ==
  LET c == CustOf[o] IN
  CreditLimit[c] > 0 => usedCredit[c] + Amount[o] <= CreditLimit[c]

\* The order is read, then its customer.  Both reads are one step here: an order
\* that is still DRAFT when the transaction checks it was DRAFT at both.
BeginApprove(q, o) ==
  /\ status[o] = "DRAFT"
  /\ CreditAllows(o)
  /\ Start(q, [op |-> "approve", so |-> o])

\* Mutants of StillDraft: the earlier read trusted; only a second approval refused.
DraftWhenRead(o) == TRUE
NotApprovedYet(o) == status[o] # "APPROVED"

\* WHERE status = DRAFT in the update of the order, and the rollback if no row matches.
StillDraft(o) == status[o] = "DRAFT"

\* The transaction: lock every line, charge the customer, and move the status only
\* if it is still DRAFT.  The credit line is not looked at again.
CommitApprove(q) ==
  /\ request[q].op = "approve"
  /\ LET o == request[q].so IN
       /\ StillDraft(o)
       /\ LockStock(Need[o])
       /\ usedCredit' = [usedCredit EXCEPT ![CustOf[o]] = @ + Amount[o]]
       /\ status' = [status EXCEPT ![o] = "APPROVED"]
       /\ held' = [held EXCEPT ![o] = @ + 1]
  /\ Finish(q)
  /\ UNCHANGED <<edited, lifted>>

-----------------------------------------------------------------------------
(* Cancel *)

BeginCancel(q, o) ==
  /\ status[o] \in {"DRAFT", "APPROVED"}
  /\ Start(q, [op |-> "cancel", so |-> o, wasApproved |-> status[o] = "APPROVED"])

\* The credit goes back only if used_credit covers it; that no row was updated then
\* is not noticed.  An order of negative amount raises used_credit again.
Refund(o) ==
  LET c == CustOf[o] IN
  IF usedCredit[c] >= Amount[o]
  THEN /\ usedCredit' = [usedCredit EXCEPT ![c] = @ - Amount[o]]
       /\ lifted' = IF Amount[o] < 0 THEN [lifted EXCEPT ![c] = @ - Amount[o]] ELSE lifted
  ELSE UNCHANGED <<usedCredit, lifted>>

\* Mutant of SetCancelled: the status column is cleared.
SetCancelledBlank(o) ==
  status' = IF Exists(o) THEN [status EXCEPT ![o] = ""] ELSE status

\* The status update matches any row with this id: none if the order was deleted.
SetCancelled(o) ==
  status' = IF Exists(o) THEN [status EXCEPT ![o] = "CANCELLED"] ELSE status

\* What is undone depends on what was read, not on what the order is now.
CommitCancel(q) ==
  /\ request[q].op = "cancel"
  /\ LET o == request[q].so IN
       /\ SetCancelled(o)
       /\ \/ /\ request[q].wasApproved
             /\ UnlockStock(Need[o])
             /\ held' = [held EXCEPT ![o] = @ - 1]
             /\ Refund(o)
          \/ /\ ~request[q].wasApproved
             /\ UNCHANGED <<stockVars, usedCredit, held, lifted>>
  /\ Finish(q)
  /\ UNCHANGED edited

-----------------------------------------------------------------------------
(* Delete: the DRAFT check is made on an earlier read. *)

\* Mutant of BeginDelete: any order can be deleted.
BeginDeleteUnchecked(q, o) ==
  /\ Exists(o)
  /\ Start(q, [op |-> "delete", so |-> o])

BeginDelete(q, o) ==
  /\ status[o] = "DRAFT"
  /\ Start(q, [op |-> "delete", so |-> o])

CommitDelete(q) ==
  /\ request[q].op = "delete"
  /\ status' = [status EXCEPT ![request[q].so] = "DELETED"]
  /\ Finish(q)
  /\ UNCHANGED <<stockVars, usedCredit, held, edited, lifted>>

-----------------------------------------------------------------------------
(* Update of a customer saves every column of the request body,            *)
(* used_credit included: the web form does not send it (0 is saved), an    *)
(* API client sends back the value it read.                                *)

BeginEditCustomer(q, c) ==
  \E used \in {0, usedCredit[c]} :
    Start(q, [op |-> "editCustomer", customer |-> c, used |-> used])

CommitEditCustomer(q) ==
  /\ request[q].op = "editCustomer"
  /\ LET c == request[q].customer IN
       /\ usedCredit' = [usedCredit EXCEPT ![c] = request[q].used]
       /\ edited' = edited \union {c}
  /\ Finish(q)
  /\ UNCHANGED <<stockVars, status, held, lifted>>

-----------------------------------------------------------------------------
(* Movements of goods, each a transaction of its own. *)

Move ==
  /\ \/ "moveIn" \in Endpoints /\ MoveIn
     \/ "moveOut" \in Endpoints /\ MoveOut
  /\ UNCHANGED orderVars

-----------------------------------------------------------------------------

OrderRequest(q, o) == BeginApprove(q, o) \/ BeginCancel(q, o) \/ BeginDelete(q, o)

Commit(q) ==
  CommitApprove(q) \/ CommitCancel(q) \/ CommitDelete(q) \/ CommitEditCustomer(q)

Next ==
  \/ \E o \in Orders : Create(o)
  \/ \E q \in Requests, o \in Orders : OrderRequest(q, o)
  \/ \E q \in Requests, c \in Customers : BeginEditCustomer(q, c)
  \/ \E q \in Requests : Commit(q) \/ Abort(q)
  \/ Move

Spec == Init /\ [][Next]_vars

-----------------------------------------------------------------------------
(* Properties that hold however requests interleave. *)

\* The locked units of a material are exactly those that orders hold: every
\* approval reserves its whole need and every release gives back all of it, or the
\* transaction leaves nothing behind (lockStockTx, unlockStockTx and the rollback).
ReservationLedger ==
  \A m \in Materials :
    SumFunctionOnSet(locked, RowsOf(m))
      = SumFunction([o \in Orders |-> held[o] * Need[o][m]])

\* Two approvals of one order, or an approval that another request overtook, never
\* reserve twice: the status guard inside Approve's transaction.
ApprovedAtMostOnce ==
  \A o \in Orders : held[o] <= 1

\* A cancelled or deleted order never comes back to life, not even through a request
\* that read it while it was still open.
ClosedStaysClosed ==
  [][\A o \in Orders :
       status[o] \in {"CANCELLED", "DELETED"} => status'[o] \in {"CANCELLED", "DELETED"}]_vars

\* The least amount, zero or above, that no order exceeds.
LargestAmounts ==
  {a \in {Amount[o] : o \in Orders} \union {0} : a >= 0 /\ \A o \in Orders : Amount[o] <= a}

\* The credit check is made before the transaction and not repeated in it, so
\* concurrent approvals can overshoot the limit, but each of the other requests in
\* flight adds one order at most.  Apart from that only the cancellation of orders of
\* negative amount carries used_credit further, by no more than it puts back, as long
\* as no form has overwritten the column.
CreditOvershootBounded ==
  \A c \in Customers \ edited, a \in LargestAmounts :
    CreditLimit[c] > 0 =>
      usedCredit[c] <= CreditLimit[c] + (Cardinality(Requests) - 1) * a + lifted[c]

\* The stock ledger as the rest of the system may rely on it.
Pool == INSTANCE StockPool WITH Rows <- Rows, quantity <- quantity, locked <- locked

\* Sales orders and movements together keep the promise of StockPool: a reservation
\* is backed by goods on hand in its row at the moment it is made.
KeepsPoolPromise == Pool!Spec

-----------------------------------------------------------------------------
(* Properties of requests handled one at a time (Requests has one element). *)

\* An order holds its reservation exactly while it is APPROVED: the lifecycle in the
\* comment of SalesOrderService and docs/dev/api.md (approve locks, cancel releases,
\* only DRAFT orders can be deleted).
HeldWhileApproved ==
  \A o \in Orders : held[o] = IF status[o] = "APPROVED" THEN 1 ELSE 0

\* What the customer's APPROVED orders amount to.
Exposure(c) ==
  SumFunctionOnSet(Amount, {o \in Orders : CustOf[o] = c /\ status[o] = "APPROVED"})

\* Customers who have, or had, an order of negative amount approved: the guard of the
\* refund may then withhold what a cancelled order had charged, and cancelling the
\* negative order takes the room away that others were approved in.
Discounted(c) ==
  \E o \in Orders :
    CustOf[o] = c /\ Amount[o] < 0 /\ status[o] \in {"APPROVED", "CANCELLED"}

\* used_credit is the exposure, and approval keeps it within the limit, until a form
\* saves the customer (docs/dev/architecture.md: used_credit + order <= limit) or an
\* order of negative amount is approved.
UsedCreditIsExposure ==
  \A c \in Customers \ edited :
    ~Discounted(c) =>
      /\ usedCredit[c] = Exposure(c)
      /\ CreditLimit[c] > 0 => Exposure(c) <= CreditLimit[c]
=============================================================================
