----------------------------- MODULE Procurement -----------------------------
(***************************************************************************)
(* Purchase orders and the receiving loop                                  *)
(* (internal/service/procurement_service.go, receiving_service.go) over    *)
(* the stock ledger.                                                       *)
(*                                                                         *)
(* A purchase order is a header and its detail lines.  Edits of the header *)
(* read the whole row, change a field and Save all columns back; Save also *)
(* inserts the row again if it has gone in between.  A receipt reads the   *)
(* order before its transaction and, inside it, adds what was accepted to  *)
(* the lines, books it into stock and moves the status.  As in SalesOrders *)
(* every request is two steps, Begin and Commit.                           *)
(***************************************************************************)
EXTENDS Inventory

CONSTANTS
  POs,              \* purchase orders that clients may create
  Lines,            \* line numbers of an order
  LineRow,          \* the stock row that goods of each line are put into
  Contents,         \* the details a client may send: quantity per line, 0 for no line
  Rounds,           \* the accepted quantities a receipt may carry
  ExplicitNumbers,  \* receipt numbers that clients pick themselves
  Suppliers,
  AuditPassed,      \* suppliers whose audit_status is APPROVED
  SettableStatuses, \* what clients and approvals pass to SetStatus
  Requests,         \* goroutines: how many requests are in flight at once
  Endpoints,        \* the endpoints clients call in this instance
  MaxEdits,         \* bound of the model: replacements of an order's lines
  MaxReceipts       \* bound of the model: receipts of one order

Statuses == {"NONE", "DRAFT", "APPROVED", "IN_PROGRESS", "COMPLETED", "CANCELLED"}

ASSUME ProcurementAssumption ==
  /\ IsFiniteSet(Lines) /\ LineRow \in [Lines -> Rows]
  /\ Contents \subseteq [Lines -> Nat]
  /\ Rounds \subseteq [Lines -> Nat]
  /\ ExplicitNumbers \subseteq Nat
  /\ AuditPassed \subseteq Suppliers
  /\ SettableStatuses \subseteq Statuses \ {"NONE"}
  /\ Endpoints \subseteq {"setStatus", "updateFull", "updateHeader", "delete", "receive"}
  /\ MaxEdits \in Nat /\ MaxReceipts \in Nat

VARIABLES
  header,   \* the row of pur_order: status, supplier_id, total_amount
  details,  \* the rows of pur_order_detail: a generation of ids, order_qty, received_qty
  receipts, \* the rows of pur_receipt with the accepted quantities of their lines
  request,  \* what each goroutine has read and is about to write
  raced     \* history: orders written while another request on them was open

orderVars == <<header, details, receipts, request, raced>>
vars == <<stockVars, orderVars>>

SumOver(f) == SumFunctionOnSet(f, Lines)

Header == [status : Statuses, supplier : Suppliers, total : Nat]
Details == [gen : Nat, order : [Lines -> Nat], received : [Lines -> Nat]]
Receipt == [po : POs, number : Nat, gen : Nat, passed : [Lines -> Nat]]

Idle == [op |-> "idle"]
NoLines == [gen |-> 0, order |-> [l \in Lines |-> 0], received |-> [l \in Lines |-> 0]]

\* header, gen and supplier are what the goroutine read or was sent.
RequestRecords ==
  [op : {"setStatus", "updateFull"}, po : POs, header : Header]
    \union [op : {"updateHeader"}, po : POs, supplier : Suppliers]
    \union [op : {"receive"}, po : POs, gen : Nat]
    \union {Idle}

TypeOK ==
  /\ InventoryTypeOK
  /\ header \in [POs -> Header]
  /\ details \in [POs -> Details]
  /\ receipts \subseteq Receipt
  /\ request \in [Requests -> RequestRecords]
  /\ raced \subseteq POs

Init ==
  /\ InventoryInit
  /\ \E s \in Suppliers :
       header = [p \in POs |-> [status |-> "NONE", supplier |-> s, total |-> 0]]
  /\ details = [p \in POs |-> NoLines]
  /\ receipts = {}
  /\ request = [q \in Requests |-> Idle]
  /\ raced = {}

-----------------------------------------------------------------------------
\* The row of pur_order is there.
Exists(p) == header[p].status # "NONE"

\* The rows that replace an order's lines: new ids, nothing received yet.
FreshLines(p, content) ==
  [gen |-> details[p].gen + 1, order |-> content, received |-> [l \in Lines |-> 0]]

Create(p) ==
  /\ details[p].gen = 0
  /\ \E s \in AuditPassed, content \in Contents :
       /\ header' = [header EXCEPT ![p] =
                       [status |-> "DRAFT", supplier |-> s, total |-> SumOver(content)]]
       /\ details' = [details EXCEPT ![p] = FreshLines(p, content)]
  /\ UNCHANGED <<stockVars, receipts, request, raced>>

Start(q, r) ==
  /\ r.op \in Endpoints
  /\ request[q] = Idle
  /\ request' = [request EXCEPT ![q] = r]
  /\ UNCHANGED <<stockVars, header, details, receipts, raced>>

Finish(q) == request' = [request EXCEPT ![q] = Idle]

OpenOn(p, others) == \E q \in others : request[q] # Idle /\ request[q].po = p

\* A write to p that other requests on p do not know of.
NoteRace(p, others) == raced' = IF OpenOn(p, others) THEN raced \union {p} ELSE raced

Abort(q) ==
  /\ request[q] # Idle
  /\ Finish(q)
  /\ UNCHANGED <<stockVars, header, details, receipts, raced>>

-----------------------------------------------------------------------------
(* Edits *)

\* Mutant of BeginSetStatus: a missing order is not noticed.
BeginSetStatusUnchecked(q, p) ==
  Start(q, [op |-> "setStatus", po |-> p, header |-> header[p]])

BeginSetStatus(q, p) ==
  Exists(p) /\ Start(q, [op |-> "setStatus", po |-> p, header |-> header[p]])

\* Mutant of SaveHeader: the total is left out.
SaveHeaderOldTotal(p, h) == header' = [header EXCEPT ![p] = [h EXCEPT !.total = header[p].total]]

\* Save writes every column of the header as it was read, whatever became of the row.
SaveHeader(p, h) == header' = [header EXCEPT ![p] = h]

\* No direction is checked.
CommitSetStatus(q) ==
  /\ request[q].op = "setStatus"
  /\ LET p == request[q].po IN
       /\ \E to \in SettableStatuses : SaveHeader(p, [request[q].header EXCEPT !.status = to])
       /\ NoteRace(p, Requests \ {q})
  /\ Finish(q)
  /\ UNCHANGED <<stockVars, details, receipts>>

BeginUpdateFull(q, p) ==
  Exists(p) /\ Start(q, [op |-> "updateFull", po |-> p, header |-> header[p]])

\* The lines are replaced, the header saved with its status as read; neither the
\* status nor the supplier is checked.
CommitUpdateFull(q) ==
  /\ request[q].op = "updateFull"
  /\ LET p == request[q].po IN
       /\ details[p].gen <= MaxEdits
       /\ \E s \in Suppliers, content \in Contents :
            /\ SaveHeader(p, [request[q].header EXCEPT !.supplier = s,
                                                       !.total = SumOver(content)])
            /\ details' = [details EXCEPT ![p] = FreshLines(p, content)]
       /\ NoteRace(p, Requests \ {q})
  /\ Finish(q)
  /\ UNCHANGED <<stockVars, receipts>>

\* A header-only edit checks a new supplier and writes that column alone; with the
\* supplier unchanged it writes none of the columns modelled here.
BeginUpdateHeader(q, p) ==
  /\ Exists(p)
  /\ \E s \in AuditPassed \ {header[p].supplier} :
       Start(q, [op |-> "updateHeader", po |-> p, supplier |-> s])

CommitUpdateHeader(q) ==
  /\ request[q].op = "updateHeader"
  /\ LET p == request[q].po IN
       /\ header' = IF Exists(p) THEN [header EXCEPT ![p].supplier = request[q].supplier]
                                 ELSE header
       /\ NoteRace(p, Requests \ {q})
  /\ Finish(q)
  /\ UNCHANGED <<stockVars, details, receipts>>

\* The header row only: the lines and the receipts stay.
Delete(p) ==
  /\ "delete" \in Endpoints
  /\ Exists(p)
  /\ header' = [header EXCEPT ![p].status = "NONE"]
  /\ NoteRace(p, Requests)
  /\ UNCHANGED <<stockVars, details, receipts, request>>

-----------------------------------------------------------------------------
(* Receiving *)

Receivable(p) == header[p].status \in {"APPROVED", "IN_PROGRESS"}

\* Mutant of BeginReceive: the status is not checked.
BeginReceiveAnyStatus(q, p) ==
  Exists(p) /\ Start(q, [op |-> "receive", po |-> p, gen |-> details[p].gen])

BeginReceive(q, p) ==
  /\ Receivable(p)
  /\ Start(q, [op |-> "receive", po |-> p, gen |-> details[p].gen])

ReceiptsOf(p) == {rc \in receipts : rc.po = p}

\* RCV-<po>-NN, counted in the transaction, unless the client sent a number.
NumberChoices(p) == {Cardinality(ReceiptsOf(p)) + 1} \union ExplicitNumbers

\* Mutants of IncrReceivedQty: over-receipt allowed; lines found by number, not by id.
IncrUnguarded(p, gen, passed) ==
  /\ \A l \in Lines : passed[l] > 0 => gen = details[p].gen
  /\ details' = [details EXCEPT ![p].received = [l \in Lines |-> @[l] + passed[l]]]
IncrByLineNumber(p, gen, passed) ==
  /\ \A l \in Lines : details[p].received[l] + passed[l] <= details[p].order[l]
  /\ details' = [details EXCEPT ![p].received = [l \in Lines |-> @[l] + passed[l]]]

\* IncrReceivedQtyInTx for every line with an accepted quantity: the line must still
\* be there under the id that was read, and must not be over-received.
IncrReceivedQty(p, gen, passed) ==
  /\ \A l \in Lines : passed[l] > 0 =>
       gen = details[p].gen /\ details[p].received[l] + passed[l] <= details[p].order[l]
  /\ details' = [details EXCEPT ![p].received = [l \in Lines |-> @[l] + passed[l]]]

\* What the lines put into each stock row.
Booked(passed) == [r \in Rows |-> SumFunctionOnSet(passed, {l \in Lines : LineRow[l] = r})]

\* Mutant of AdvanceStatus: a status outside the lifecycle.
AdvanceStatusUnknown(p) ==
  header' = IF Exists(p) THEN [header EXCEPT ![p].status = "RECEIVED"] ELSE header

\* COMPLETED once every line has its quantity; a header that is gone is not updated.
AdvanceStatus(p) ==
  LET full == \A l \in Lines : details'[p].received[l] >= details'[p].order[l] IN
  header' = IF Exists(p)
            THEN [header EXCEPT ![p].status = IF full THEN "COMPLETED" ELSE "IN_PROGRESS"]
            ELSE header

CommitReceive(q) ==
  /\ request[q].op = "receive"
  /\ LET p == request[q].po IN
     \E passed \in Rounds, n \in NumberChoices(p) :
       /\ Cardinality(ReceiptsOf(p)) < MaxReceipts
       /\ \A rc \in ReceiptsOf(p) : rc.number # n  \* unique index
       /\ receipts' = receipts \union
            {[po |-> p, number |-> n, gen |-> request[q].gen, passed |-> passed]}
       /\ IncrReceivedQty(p, request[q].gen, passed)
       /\ ApplyIn(Booked(passed))
       /\ AdvanceStatus(p)
       /\ NoteRace(p, Requests \ {q})
  /\ Finish(q)

-----------------------------------------------------------------------------

Begin(q, p) ==
  \/ BeginSetStatus(q, p)
  \/ BeginUpdateFull(q, p)
  \/ BeginUpdateHeader(q, p)
  \/ BeginReceive(q, p)

Commit(q) ==
  \/ CommitSetStatus(q)
  \/ CommitUpdateFull(q)
  \/ CommitUpdateHeader(q)
  \/ CommitReceive(q)

Next ==
  \/ \E p \in POs : Create(p) \/ Delete(p)
  \/ \E q \in Requests, p \in POs : Begin(q, p)
  \/ \E q \in Requests : Commit(q) \/ Abort(q)

Spec == Init /\ [][Next]_vars

-----------------------------------------------------------------------------
(* Properties that hold however requests interleave. *)

\* No line ever has more accepted than ordered, also when receipts race with each
\* other and with a replacement of the lines (the guard of IncrReceivedQtyInTx).
NoOverReceipt ==
  \A p \in POs, l \in Lines : details[p].received[l] <= details[p].order[l]

\* received_qty of a line is what the receipts booked against that very line accepted:
\* none is lost, doubled or booked against lines that a replacement brought in later
\* (model/procurement.go: received_qty accumulates ACCEPTED quantities only).
ReceivedIsAccepted ==
  \A p \in POs, l \in Lines :
    details[p].received[l]
      = SumFunctionOnSet([rc \in receipts |-> rc.passed[l]],
                         {rc \in ReceiptsOf(p) : rc.gen = details[p].gen})

\* Stock is what it was plus what all receipts accepted, those of cancelled and
\* deleted orders included: a receipt and its movement commit together or not at all.
ReceiptsExplainStock ==
  \A r \in Rows :
    quantity[r] =
      InitQty[r] + SumFunctionOnSet([rc \in receipts |-> Booked(rc.passed)[r]], receipts)

-----------------------------------------------------------------------------
(* Properties of an order that no two requests have worked on at once. *)

\* total_amount is the sum of the lines (unit price 1): UpdateFull writes both, and the
\* edits that save the whole header bring back no stale total.
TotalIsSumOfLines ==
  \A p \in POs \ raced : Exists(p) => header[p].total = SumOver(details[p].order)

\* Goods are received only on an order that is APPROVED or IN_PROGRESS.
ReceivedWhileOpen ==
  [][\A p \in POs \ raced : ReceiptsOf(p)' # ReceiptsOf(p) => Receivable(p)]_vars

\* A deleted order does not come back: Save inserts a row that is gone, but only for a
\* request that had read the order before it was deleted.
DeletedStaysDeleted ==
  [][\A p \in POs \ raced : details[p].gen > 0 /\ ~Exists(p) => ~Exists(p)']_vars

-----------------------------------------------------------------------------
(* What the documents say and the code does not keep. *)

\* docs/dev/data-model.md, key invariant 1: received_qty only grows, by what is accepted.
ReceivedOnlyGrows ==
  [][\A p \in POs, l \in Lines : details'[p].received[l] >= details[p].received[l]]_vars

\* docs/dev/architecture.md: a supplier that is not APPROVED can neither get a purchase
\* order nor have one rebound to it.
BoundToApproved ==
  \A p \in POs : Exists(p) => header[p].supplier \in AuditPassed
=============================================================================
