# TLA+ models of opti-chain

opti-chain is a supply-chain system: a Go backend (Gin, GORM, SQLite by default,
MySQL or PostgreSQL by configuration) and a React client. This directory holds
TLA+ models of its core, the TLC instances that check them, and proofs that the
TLA+ proof system checks. Every definition is translated from the source;
`PROJECT.json` ("map") names the lines.

To check it: `tlc -config SalesConcurrent.cfg MCSalesOrders`, and so on for each
pair in "Runs" below; `tlapm SalesOrdersProofs.tla` for the proofs.

## 1. How the system works, and what is hard about it

Every HTTP request runs in a goroutine of its own. A handler decodes the body and
calls one service method. The typical service method

1. reads rows outside any transaction and validates what it read,
2. opens a transaction, writes (some statements guarded by a WHERE), commits,
3. returns, sometimes after a further read and a further call.

Between requests there are no locks and no queues; the database is the only shared
state besides two in-memory caches and the files of the assistant's memory, which
have a mutex per user.
So the hard behaviour is nearly always the same: *what was checked in 1 may be
false in 2, and 3 may not happen*. What protects the data is the guards that are
repeated inside the transaction, and the models are about which properties these
guards are enough for.

### Inventory of components

| Component | State | Operations | What makes it correct | Status |
|---|---|---|---|---|
| Stock ledger (`inventory_service`, `inventory_repo`) | `inv_stock`: quantity, locked_quantity per row; movement documents | MoveIn, MoveOut, (un)lock inside sales transactions | nothing negative; locked <= quantity; stock explained by movements | partly: not the documents |
| Sales orders, customers (`sales_service`) | order status, lines, used_credit | Create(Batch), Approve, Cancel, Delete, customer Update | reservation exactly while APPROVED; exposure within the limit; closed stays closed | partly: a customer's limit and audit are constants |
| Purchase orders (`procurement_service`) | header, lines with received_qty | Create(Batch), SetStatus, UpdateFull, UpdateHeader, Delete | deleted stays deleted; approved suppliers; lines and header agree | partly: not renaming and dates |
| Receiving (`receiving_service`) | receipts | Receive | no over-receipt; received_qty and stock are what receipts accepted | modelled |
| Approvals (`approval_service`) | groups, tasks, member records | CreateGroup.., Submit, Act | a task is decided when all acted; a rejection stands; the decision takes effect | partly: one group per type |
| Planning (`planning_service`) | demands, MRP results | demand CRUD, ComputeMRP, ConvertMRP, deletion of results | every demand planned once, every suggestion ordered once, no supply counted twice | modelled |
| BOM (`rnd_service`) | versions with status and default flag, their lines; products | Create, Update, Delete, Release | one default per product; a released version is final | partly: not products |
| BOM ordering (`bom_order_service`, `supplier_material_service`) | bindings with price and preference | binding CRUD, audit, preview, Confirm | a confirmation that succeeds has ordered everything; two keep apart | modelled |
| Start-up of permissions (`rbac_seed`, `cmd/server`) | tenants, roles, modules, permissions, matrix, assignments | the seeds, the role migration, the four catalogs | repeatable after a crash; nobody loses a role | partly: not tenants' own roles |
| Permissions, accounts, API keys (`rbac_service`, `auth_service`, `api_key_service`) | permission cache; `sys_user`, `sys_api_key` | SetRolePermissions, RefreshCache, accounts' creation, status, password and roles; keys' creation, status and deletion | the cache follows the table; what was acknowledged stands | partly: not signatures and tokens |
| Assistant (`assistant`, `assistant_tools`, batch operations of the services) | one turn: messages, calls, counters | routing, loop, every tool, batch creation, QueryBatch | what the model is told is what was written; the loop ends; every message is answered | partly: documents and prompts are input |
| Assistant memory (`internal/memory`) | JSONL segments, watermark, graph tables | Append, rotate, consolidate, decay, Clear | no turn passed over or counted twice; cleared turns stay away | partly: not decay |
| Storage migration (`storage_service`) | data sources, status, the job's transaction | data source CRUD, Migrate in the background | what is called done is complete; one at a time; it ends | modelled |
| Master data, logistics | single rows | CRUD, batches, QueryBatch | - | partly: as the assistant and BOM ordering use them |
| Connection pool (`database.Open`) | 10 connections | every query and transaction | no circular wait | planned |
| Audit log, routing, configuration, document parsing, MCP proxy | little or none | I/O, plumbing | - | not modelled |
| Web client | forms | what a form sends | - | only as the inputs it produces |

### How they interact

- Sales orders, movements and receipts write the same `inv_stock` rows: the first
  through `locked_quantity`, the others through `quantity`. `Inventory.tla` holds
  those writes once; `SalesOrders.tla` and `Procurement.tla` use them in their
  transactions, as the Go services do.
- An approval task that completes calls `SetStatus` of a purchase order or
  `Approve` of a sales order, in a later transaction.
- A customer's `used_credit` is written by order approval and cancellation and,
  because GORM's `Save` writes all columns, by the customer form.
- Planning reads stock and open purchase orders, in two queries, and creates purchase
  orders; receipts, cancellations and movements run between those queries.
- BOM ordering creates one purchase order per supplier, and checks each supplier's audit.
- The assistant's tools call the services above with the user's permissions; the model
  decides what to call from what it is told of earlier calls.
- The start-up code writes the tables the permission cache is filled from, before the
  server serves; a crash in it is met by the next start.
- A storage migration reads all tables while everything above writes them.

`PROJECT.json` "hazards" lists, line by line, what can go wrong in these
interactions and which property would notice.

## 2. Modules

| Module | Models | Extends / uses |
|---|---|---|
| `Inventory` | the bodies of lock, unlock and movement on `inv_stock` | - |
| `StockPool` | abstract promise of the ledger: reserve, release, arrive, ship | - |
| `SalesOrders` | orders, credit, customer form, movements, as interleaved requests | Inventory; refines StockPool |
| `Procurement` | purchase orders and receipts, as interleaved requests | Inventory |
| `Approvals` | approval groups, tasks, `Act` and its side effect | - |
| `TurnLog` | the files of one user's conversation memory, byte by byte, and the operations on them | - |
| `Memory` | `Store`, `consolidate` and `Clear` as interleaved steps, with write errors and restarts | TurnLog |
| `Planning` | demands, `ComputeMRP` and `ConvertMRP` statement by statement, and what they read | - |
| `Bom` | versions of products under interleaved requests | - |
| `BomOrder` | bindings, choice of a supplier, confirmations order by order | - |
| `Startup` | the statements that seed and migrate the role tables, with crashes between any two | - |
| `Access` | permission changes and the cache, accounts, API keys of a running server | Startup |
| `Assistant` | one turn: routing, the loop and its rules, the tools, batches row by row | - |
| `Storage` | data sources, the migration job statement by statement, writes of requests meanwhile | - |
| `SumTheorems` | lemmas about sums over finite sets, for the proofs | the library's theorems |
| `SalesOrdersProofs` (with `Inventory`), `ProcurementProofs`, `ApprovalsProofs`, `PlanningProofs`, `AccessProofs` (with `Startup`) | theorems | the module of the name |
| `JobProofs` | theorems about `Storage`, `Assistant` and `Memory`, with the lemmas about `TurnLog` they rest on | Storage, Assistant, Memory |
| `BomProofs` | theorems about `Bom` and about `BomOrder` | Bom, BomOrder |
| `MCSalesOrders`, `MCProcurement`, `MCApprovals`, `MCMemory`, `MCPlanning`, `MCBom`, `MCBomOrder`, `MCAccess`, `MCAssistant`, `MCStorage` | instances for TLC | the above |

### From code to model

**Requests.** A request is `Begin...` (the reads outside the transaction, with the
early returns as guards; what later code uses of what was read goes into
`request[q]` or `acting[q]`) and `Commit...` (the transaction). `Abort`/`FailAct` ends it
without the rest of its effect: a guard in the transaction refused and rolled back,
the database failed, or the server stopped. `Requests` is the set of goroutines,
so its size is the number of requests in flight at once.

**Transactions.** In `SalesOrders` and `Procurement` a transaction is one step. On
SQLite writers are serialised, and a transaction whose snapshot is stale when it
first writes fails (an `Abort`). On MySQL the statements of two transactions
interleave at row locks; that is not modelled for these modules (plan, item 2).
`Approvals` models both: its constant `OneWriter` says which. So does `Bom`, whose release is
two steps, `Demote` and `CommitRelease`: with `ReadCommitted` two releases may be between them at
once. The creation of an order by the assistant is two steps too, for `Create` commits the order
and then reads it back.

**Save.** GORM's `Save` writes every column of the struct as it was read, and
inserts the row again if it is gone. `CommitSetStatus`, `CommitUpdateFull`,
`CommitEditCustomer` do just that.

**Stock.** A row is a (warehouse, location, material) triple with an id. `LockStock`
takes from the rows with most available stock first, ties by id, and exists as a
step only if the whole need is covered; `UnlockStock` takes by id. A movement out of
a row that does not exist creates it with quantity 0 and succeeds (`ApplyOut`).

**Approvals.** `BeginAct` reads the task; `EvaluateAct` is the update of the member's
record and the evaluation inside the transaction, `CommitAct` its commit, `Reread`
the second read, `BeginApply` and `CommitApply` the order's approval. The orders
are reduced to their status here, with `SetStatus`, `ApproveSale`, `CancelSale`,
`ReceiveGoods`, `DeleteOrder` standing for all other requests on them.

**Memory.** `TurnLog` keeps the unit the code reckons in: `log` is a sequence of bytes and
`mark` an offset into it, so that a watermark can point into the middle of a line and a
cut-off write can be continued by the next. Each operation of `JSONLStore` holds the
user's mutex, so it is one step; what a write error or a crash leaves of it is one of its
outcomes (`Rotations`, `StoreFails`, the argument of `RemoveAll`). The steps of `Memory`
between which others may run: `StoreTurn` and `CheckPending` (`Store`), `StartWork`,
`WriteEdges`, `WriteProfile`, `MarkConsolidated` (`consolidate`), `ClearFiles`, `ClearEdges`,
`ClearProfile` (`Clear`). `ServerStops` drops every goroutine and the guard `consolidating`.

**Planning.** `ComputeMRP` and `ConvertMRP` have no transaction, so every statement is a step
of its own and a request may end after any (`Abort`: the statement failed, or the server
stopped). A step reads what the Go variable holds from then on into `request[q]`.

**Versions.** `Begin...` in `Bom` is the read and its check for DRAFT, `Commit...` the transaction,
which checks nothing again; `CommitUpdate` saves the row as it was read and brings back one
that has been deleted. `Release` is two updates in one transaction: `Demote` is the first, and finds the defaults that are
committed, `CommitRelease` the second and the commit, when both become visible. `MayWrite` is the lock
that the first write takes where there is one.

**BOM ordering.** `PickSupplier` is the loop that chooses among the bindings; a confirmation
is `BeginConfirm`, one `ResolveNext` per material and one `CreateNext` per supplier, in the
order in which the materials name them (`Left(r)` is what is still to be ordered; the next
order is that of its least material, numbered by how many there are). Bindings, audits and orders change between the steps.

**Start-up.** `at` is the statement that runs next. None of the seeds runs in a transaction,
so `Crash` may come before each; a Go map is ranged over in any order, so the statements of a
loop over one take its elements in any order. The four `Ensure...Catalog` functions are one
operator over the constants in which they differ (`Catalogs`).

**Access.** A change of a role's permissions is a transaction followed by `RefreshCache`, which
is two steps: load the tables, replace the map. Accounts and keys are read, changed and
saved as whole rows. What a request asks for may leave fields out, and a status of 0 is one
of those to the code: `Edited` is what is saved, `Said` what was asked. `Crash` is the one of `Startup`; what the restart finds is what was
committed.

**Assistant.** The language model answers with any sequence of calls, with text, or with an
error; it sees only what is in `chat`. A tool is a record of what its execution does
(permission checked, what it writes and how); the executor runs a call's rows one
transaction after the other where the service does, and another user may write, or delete,
between. `InsertNext` is the commit of an order, `Reread` the read after it, which may fail or find
nothing; what the call returned to `executeTool` is kept beside what it wrote (`Outcome`), and
`Told` is what `executeTool` makes of it.

**Storage.** The job is one step per statement against the target; its transaction keeps
what it has inserted in `job[j].inserted` until `Commit`. The source is read table by
table as it is at that moment.

### Abstractions

- Quantities and amounts are small integers (decimal(12,4) and (14,2) in the code);
  unit prices are 1 but may be negative, as the single creation of an order lets them. No
  property depends on fractions.
- The lines of one order name distinct materials, the details of one movement
  distinct rows. One tenant: every query is scoped by tenant_id.
- The two reads of `Approve` (order, customer) are one step: the transaction checks
  DRAFT again, and a credit check on an older read is covered by requests that
  begin earlier.
- `CreateBatch` is `Create` once per item. Creation of an order is one step: nothing
  it reads is changed by a modelled request.
- Not modelled: changes of credit_limit or audit_status, deletion of a customer,
  movement documents, the audit log, the renaming of an order and its dates, groups
  that list a user twice, two groups of one type.
- `IN_PROGRESS` in `Approvals` also stands for COMPLETED.
- The text of a turn is as many bytes as `Size` says; it can be parsed when it is complete
  and alone on its line. Of the graph the models keep which turns its edges and its profile
  stem from; nodes are not kept apart from edges, and weights not beyond "twice or more".
- Not modelled of the memory: the decay of edges, and two archives with the same second in
  their names. `ImportBulk` runs with the server stopped and is an initial state.
- Planning: one tenant's materials; of a purchase order only number, line and whether it
  counts as on order. Conversion to a work order writes the status only and is not modelled.
- The role tables are cut down to three roles, the modules and permissions of which two
  catalogs bring their module and two need it there; tenants' own roles are left out.
- A migrated row is its order's key; in the assistant's tables a row is its code and the
  partner it names. Other fields, prompts and wording are left out.
- History variables (`held`, `edited`, `moved`, `raced`, `lifted`, `applied`, `failed`,
  `acked` and those after it in `Memory`)
  record what happened; no action reads them.

## 3. Runs

Bounds that are not in the code: `MaxStock`, `MaxEdits`, `MaxReceipts` guard arrivals of
goods, replacements of lines, and receipts; `MaxTorn`, `MaxStores`, `MaxImport` guard writes cut
short, Store calls at once, and turns imported before the start (`MaxBytes` and `TailChunk` are the code's);
`MaxResults`, `MaxOrders`, `MaxRows` the rows planning makes; `MaxRel`, `MaxConfirmations`,
`MaxChanges` the bindings, confirmations and changes around them; `MaxCrashes`, `MaxRequests`,
`MaxWrites` crashes, requests and writes; `PerResponse` the calls in each answer of the model,
`MaxOthers` the steps of other users; the sets `Edits`, `GivenRoles`, `Calls`, `Jobs` what is asked.
`MaxIters`, `MaxRepeatExact`, `MaxRepeatPage` and `ChunkSize` are in the code, with larger values.

| Run (cfg) | Instance | What it shows |
|---|---|---|
| `sales_serial` (SalesSerial) | requests one at a time, no movement out | the documented lifecycle: reservation exactly while APPROVED, used_credit = approved exposure within the limit but for customers of an order of negative total, locked <= quantity |
| `sales_concurrent` (SalesConcurrent) | two requests at once, all endpoints | what holds in every interleaving: reservations add up, at most once per order, overshoot of the credit limit bounded, closed stays closed, `StockPool` is implemented |
| `procurement` (Procurement) | one order of two lines, two requests at once, two contents, three receipts | over-receipt impossible, received_qty and stock are what receipts accepted; receivability and deletion for orders nobody raced on |
| `approvals` (Approvals) | one task, two members, two requests at once, SQLite | decided once all acted, rejection stands, decision final unless requests overlapped, an approval takes effect, once, and while it stands unless requests overlapped |
| `approvals_write_skew` (ApprovalsWriteSkew) | violation, MySQL/PostgreSQL | the last two members approve at once, the task stays PENDING for ever |
| `memory` (Memory) | three turns of 2, 3 and 2 bytes, rotation from one turn on, two consolidations, one write cut short, restarts at any time | no turn passed over or counted twice unless the watermark is of a log that is gone; a cut-off append costs one turn; `Tail` returns the last turns; what Clear wiped stays away unless a consolidation held it |
| `planning` (Planning) | one material, two demands, two requests at once, two results and orders, one edit | a demand is planned once unless it appeared during a computation, two computed at once or one stopped half-way; a suggestion is ordered once unless two conversions overlapped or one stopped; what a computation takes for supply is never more than there was |
| `bom` (Bom) | three versions of two products, two sets of lines, two requests at once, one transaction writing at a time | one default per product in every interleaving; a version nobody raced on goes forward only and keeps its lines once released |
| `bom_order` (BomOrder) | two materials, two suppliers, every table of up to two bindings, two confirmations at once, of one second or of two, one change | the orders of one number series are of one confirmation; a confirmation that succeeds has ordered everything, each material once |
| `access` (Access) | a new and a legacy database, one account, one key, a crash anywhere, then two requests at once | assignments survive the migration unless it was cut short; the cache is the table's content unless changes overlapped or a refresh failed; what the last acknowledged request asked for an account or key is what is stored, a status of 0 apart; a start that is not killed comes to serve unless the seed was cut short |
| `assistant` (Assistant) | an answer of two calls and one of a single call, nine calls, one step of another user, a crash at any time | the rows the model is told of are written; a failed call has written what it returned, or one order more whose reading back failed; no turn goes on past its rules; every message is answered |
| `storage` (Storage) | three tables, two orders, two targets, two requests to migrate, three writes, one restart | what Status calls done is complete and its orders have lines; a job ends and says so |

Why the bounds are enough. Every interference in this code is between one request
or goroutine that has read and one that writes, so two requests at once reach each of the races,
and a third only repeats one of them; the one property whose strength depends on the
number of requests is `CreditOvershootBounded`, which states that dependence. Two
rows of one material make a reservation split, a third that does not exist at first
makes a movement create it; the need of one order exceeds what any one row holds;
the credit line has room for one order only, and one order has a negative total. Two lines and two generations of lines
let a receipt hit a replaced line; an explicit receipt number equal to the next
default one makes the unique index refuse. Two members are the smallest group where
both modes differ. In `memory` the first turn can be consolidated, the second rotates
the log and is consolidated there, and the third meets whatever either has left; a
consolidation starts at one pending turn, a lower threshold than the code's 5, which
makes consolidations overlap appends most often. Symmetry is used for values that only
their equality tells apart (goroutines, time stamps, products, demands and the like), and only
where no liveness is checked.

In `planning` one material is enough, for no statement relates two; the two reads, the
insert and the marking of one computation meet each statement of the other request. In `bom`
three versions are a default, a version to be released and one more edited meanwhile. In
`bom_order` the two suppliers make two orders, the second of which can fail; ties of price and
two preferred bindings occur among the initial tables; two stamps are a confirmation in the
same second as another and one in a later one. In `access` every statement of start-up
may be the last one before a crash, and a second start meets each of the halves. In
`assistant` a batch of two rows can fail at either, when it is written or when it is read back,
and a later call meets what the first has left; three calls over two answers break either rule, the
one about pages with the limit 3 for the code's 5. In `storage` three tables put one before, between or after the
two that are related, and three writes are a creation before, during and a deletion.

Deadlock is checked except where the system may really stop: an only order deleted for good
(`procurement`), nothing left to plan or release (`planning`, `bom`), the last bounded
request, turn or job over (`bom_order`, `access`, `assistant`, `storage`).

**Fairness.** Sales orders, procurement, planning, versions, BOM ordering and memory state
safety only: clients owe the system no request, so nothing must eventually happen. `Approvals`
assumes weak fairness of `ActStep(q)` for each goroutine: a request once in flight is run by the
Go scheduler until it returns. No fairness is assumed for clients or for success: `FailAct` is an
`ActStep`, and `VerdictTakesEffect` excuses tasks on which a request failed. `Access` assumes it
of the statements of start-up: main runs to its end unless the process dies. Nobody owes
the system a restart (`restart.sh` is run by a person), so `EventuallyServes` speaks of starts,
not of a server that is down. `Assistant` assumes it of `TurnStep`: the calls to
the language model and to the carrier return, with an error if nothing else, since their clients
time out (300 s and 30 s), and the handler runs on its goroutine. `Storage` assumes it of each
job's goroutine; that the statements against the target return is the driver's part.

## 4. Proofs

For every value of the constants that meets the named ASSUMEs (any number of orders,
rows, customers, members, tables, suppliers, roles, accounts, goroutines):

| Theorem | Statement | Argument |
|---|---|---|
| `SalesTypeOK`, `StockStaysNonNegative` | types; quantity and locked >= 0 | `LedgerInv`: the guards of lock and unlock, and of a movement out. used_credit has no such bound: an order of negative total lowers it |
| `SalesImplementsPool` | Spec => StockPool!Spec | from `LedgerInv`, each action maps to Reserve, Release, Arrive, Ship or a stutter |
| `LockedWithinQuantityInbound` | without `moveOut`, locked <= quantity | a reservation never exceeds what a row offers, and nothing else lowers quantity |
| `ReservedIsHeld` | the locked units of a material are those the orders hold | `HeldSteps`: every step reserves and holds, releases and gives back, or does neither; both move the two sums by the same need, over rows on one side and over orders on the other |
| `StockIsExplained` | quantity is what movements add up to | by row: movements change both sides alike, reservations neither; a row not there yet holds 0 (`PresentRows`) |
| `ReservedAtMostOnce` | held[o] <= 1 | `ReserveInv` ties held to the status: an approval needs DRAFT at commit, and no order returns to DRAFT |
| `ClosedForGood` | CANCELLED, DELETED are final | every write of a status is guarded or writes a closed one |
| `CreditOvershoot` | used_credit <= limit + (Requests - 1) * largest order + what cancelled orders of negative total put back (`lifted`), customers saved by a form apart | `ChargeInv` counts what is not yet written: used_credit, plus the orders of positive total of all open approvals, less `lifted` (`Burden`), is within the same bound. An approval that begins has seen used_credit plus its own order within the limit, and each other request open then adds one order at most; a commit moves its order from the open approvals to used_credit |
| `SerialHeldWhileApproved` | one goroutine: held = 1 exactly while APPROVED | `SerialInv`: what the only open request read is still true (`ReadsStillTrue`) |
| `SerialCredit` | one goroutine: used_credit is the exposure, within the limit, of customers without an order of negative total approved | `ExposureInv`: an open approval still fits (`OpenApprovalsFit`); a change of one status moves the exposure by that order's amount |
| `ProcurementTypeOK` | types | a receipt adds to a finite set, numbers are free ones |
| `NeverOverReceived` | received_qty <= ordered_qty | the guard of the receipt's UPDATE, and every replacement of lines starts at 0 |
| `ReceivedQtyExplained`, `StockMatchesReceipts` | received_qty of a line, and stock, are what receipts accepted | `ReceiptInv`: receipts are finitely many and none is booked against lines still to come (`PastLinesInv`), so lines that are replaced start with none of their own and a new receipt adds to exactly one sum |
| `ReceivesWhileOpen`, `DeletedForGood` | without a race on the order, a receipt finds it open and a deleted order stays away | both checks precede the transaction. `StillTrueInv`: what an open request checked is still true of an order that nobody raced on; `HasLinesInv`: an order that exists has been given lines, so a Save cannot insert one that never was |
| `TotalFollowsLines` | without a race, the total is that of the lines | `SavesTotalInv`: the total an open change of status is about to save is still right |
| `ApprovalsTypeOK`, `EffectStands` | on any database: types; a request about to approve an order is on a task that still stands APPROVED and has not had its effect, unless requests on it overlapped | `EffectInv`: a request alone on its task works on one without effect, and a task that has had it is decided, so that no request begins on it |
| `AllActedDecides`, `RejectionStands` | `OneWriter` => decided once all acted, no approval over a rejection | not inductive alone: a commit uses an evaluation made earlier. `EvaluatedInv` says it is still the evaluation of the verdicts as they will be, which holds because only one transaction is open (`OneWriterInv`) |
| `DecisionStands` | on any database, a task without overlapping requests keeps its decision | `SoloInv` (two requests on one task have been noted as a race) and `StillPendingInv` (without a race the task read as PENDING still is) |
| `PlanningTypeOK` | types | what each statement leaves in the request is stated once per action (`...Outcome`) |
| `DemandsPlannedOnce` | a GENERATED demand has been planned, once unless excused | `Tracked(d)` follows one demand through all computations: while it is OPEN every computation has summed it (or it appeared late); planned and still OPEN, it waits for a marking or is excused; two that sum it at once excuse it |
| `SupplyNotCountedTwice` | a receipt between the two reads is not counted twice | `ReadInv`: what was read as stock is still there or was issued since; the second read of the goods on order is then no more than is outstanding |
| `ResultsConvertedOnce` | a suggestion is ordered once unless excused | `Settled(r)`: an order that was made is about to be saved by its conversion, or the row is CONVERTED or excused; `Contiguous`: new rows take unused ids |
| `AccessTypeOK` | types, of the role tables and of the running server | `OrderInv`: what earlier statements of start-up have done when a later one runs |
| `AssignmentsKept` | a migration not cut short loses no assignment | `OwedInv` says where an assignment that is owed is at each statement: in the table under the legacy role, then in memory only, then in the table under its successor. A start after the migration finds no legacy role (`OrderInv`) and leaves it alone |
| `AccessIsTheTable` | with no change open the cache answers as the tables do, unless disturbed | `CacheInv`: undisturbed, at most one refresh is open, what it has loaded is the table's content, and with none open the cache holds it; requests are open only while the server serves (`OpenInv`) |
| `WordsStand` | the last acknowledged word on an account or key is what is stored, unless muddled | `WordInv`: an edit between its Save and its roles has the row it saved; `SettledInv`: once anything was acknowledged, no restart seeds or migrates again. The word is what the request asked for (`Said`), not the row it saved; a field left out, or 0, asks for nothing |
| `BomTypeCorrect`, `BomOneDefault` | types; `~ReadCommitted` => one default per product | `BomInv`: the product in a request's memory is the one of the row it read (`ReadInv`), so a release clears the default of the right product; `LockInv`: between its two updates a release is the only writer, and has found each default of its product |
| `BomReleasedIsFinal` | without a race, a version goes forward and keeps its lines once released | `ReadInv`: what a request checked to be a draft still is, unchanged, unless another request wrote it |
| `StampIsOneConfirmation` | the orders under one stamp are of one confirmation (two repetitions of one confirmation are two) | `StampInv`: whoever is past its first order owns number 1 (`OwnsFirst`), without number 1 there is no order (`FirstInv`), and po_number is unique |
| `SucceededIsComplete` | a confirmation that succeeded has ordered what was needed, each material once | `SuccessInv`: a confirmation's orders are one for each supplier it is done with, each with all that supplier is to deliver (`Wrote`), under a number of its own (`ByInv`); a needed material has a supplier once it is resolved (`Planned`) |
| `StorageOneAtATime` | one job runs, on the database Status shows | the guard, and that only a job's end clears it (`OneAtATime`) |
| `StorageNothingLost` | what is done has every table and every row that stayed | `CopyInv`: after the insert of a table the job holds each of its rows that is still in the source; `DoneInv` carries it past the commit |
| `StorageOrdersHaveLines` | what is done has an order's lines | `SourceInv` (the source has them, for both are created in one transaction) and `HeadersFirst`: headers are copied before lines, so lines read later cover the headers read earlier |
| `TurnTypeCorrect` | types of a turn | every step ends the turn, takes an answer's calls, closes a call or goes on with its batch (`Kinds`); `TurnFields` says which fields are in use in which phase |
| `NeverRunsAway` | the calls executed in a turn break no rule, the page rule being one about the tools whose names the code looks at | not inductive over what was executed: an answer's calls are checked before any of them is. `Traces`: of all calls let through, executed or not, no first part breaks a rule, and the trace is their window. Tracing answer by answer forgets nothing a rule looks at (`WindowOfConcat`, `RulesSeeTheWindow`) |
| `ToldIsWritten` | the rows the model is told of are written; success is all rows; failure of master data none; failure of orders the rows returned to `executeTool`, or one more | `Batches`: orders at row n have written the n - 1 rows before it, and the nth too while it is read back, so that success is all of them and a failure a first part |
| `MemoryType` | types of the memory | what a write or a removal leaves is a sequence of bytes |
| `NoTurnPassedOver` | a turn in the files is pending or was consolidated, unless the watermark is of another log | `MarkInv`: the watermark is the end of a line, the lines before it and those archived are consolidated, and no line after it is |
| `NoTurnCountedTwice` | a turn is counted once in the graph, batches written and not marked apart | `Single` (one batch in hand, the guard's), `BatchInv` (it is the lines from the watermark to its own mark, or has nothing in common with the files any more) and `EdgesInv` (counted is consolidated, or in the batch in hand) |
| `NoTurnLostButTorn` | a write cut short costs one stored turn at most | `TornInv`: turns lost, and one more where the log ends inside a line, are no more than the torn writes; the line that a write is glued to is that one |
| `WipedIsForgotten` | what Clear wiped stays out of the graph, unless a consolidation held it | `ClearInv` follows a Clear step by step: what it has wiped is not in the log, in no batch, and in no table it is done with, but for what was spared |
| `TailShowsLast` | `Tail` returns the last turns | `ScanInv`: after every chunk the turns found are the last ones, latest first, and what is unread with the start of a line pending holds those before (`ChunkRecords`); as many chunks as `TailScan` allows read the whole log (`ScanAdvances`). `TailScanLast` has it for any number of turns asked for |

**Sums.** The ledgers add up over sets (`SumFunctionOnSet`, a fold of the community modules: a
function defined by recursion on subsets, picking an element by CHOOSE). `SumTheorems` first
shows that this function exists on the subsets of a finite set (`SumExists`, `SumUnique`), then
that a sum may be taken apart at any element (`SumTakeOut`), changes by what one term changes
(`SumChangeOne`), grows by the term of a new index (`SumNewIndex`), and is bounded by the number of
terms times the largest (`SumAtMost`). The inductions run over a set `Good` of index sets rather
than over a predicate (`SubsetInduction`), since a theorem with an operator for a parameter cannot
be instantiated here; well-foundedness of strict inclusion is the library's.

**Bytes and lines.** `Split` and `Records` of `TurnLog` are recursions over the bytes of a file and
the lines of it. `RecursionExists` shows that such a function exists, one argument at a time, and
`SetInduction` that what holds at 0 and is passed on holds up to n, again over a set `Good` of
numbers. From there on nothing is about the recursion: `SplitFacts` says that the lines are where
the newlines put them, `RecordsSet` which turns are read, and the invariants of the memory speak of
places: `LineAt(b, t, p)` is a complete line of turn t that starts after p bytes, `Before` and `After` the
turns with a line that starts on either side of an offset. A write adds at most one line, its own, at the
end (`AppendFacts`), and leaves the lines before any offset alone, so no operation is looked at
byte by byte. `SplitConcat` gives the lines of two texts put together, which is what a backward scan
undoes.

**Assumptions beyond types.** `ModelsInOrder` and `HeadersFirst` are the order of the list of models
in `storage_service.go`. `Rows`, `Orders`, `Lines`, `Materials`, `Demands` and `Boms` are finite, as what a
database holds is, and so are the goroutines of `SalesOrders`, of which there is one at least;
without that a sum over them means nothing. An account is not a key; bounds are naturals. TLC evaluates each in a run.
`MemoryAssumption` says that the turns
imported before the start are turns. `AssistantAssumption` says what the JSON schemas of the tools admit: one row for a tool that writes
one, two for the update (the row read, the row written), and a window of the trace with room for
either rule. `OneWriter` is a hypothesis of two theorems about
approvals, and `approvals_write_skew` shows that it is needed; `~ReadCommitted` is one of
`BomOneDefault`, and with `ReadCommitted = TRUE` in `Bom.cfg` TLC shows the same of it; `Serial` (one goroutine) is one of
`SerialHeldWhileApproved` and `SerialCredit`, and `sales_service.go:369` in the findings is why.
`MovementsExplainStock` and `TotalIsSumOfLines` were model-checked before they were proved, and
are stated in `Inventory` and `Procurement`; no run repeats them.

**Left to TLC.** Liveness (`VerdictTakesEffect`, `EventuallyServes`, `AlwaysAnswers`, `JobEnds`), since the
prover does not handle fairness and ENABLED. Every other property of the passing runs is a
theorem.

## 5. Findings

`PROJECT.json` "findings" quotes the text that the code at each line disagrees with. One has a run
of its own whose counterexample shows it (`approvals_write_skew`); the others are what the
properties of the passing runs excuse, or steps of the models named there.

- `Cancel` decides on a stale status (`sales_service.go:369`).
- An order of negative total makes a later cancellation release no credit (`sales_service.go:362`).
- Movements out ignore reservations (`inventory_repo.go:84`).
- Saving a customer overwrites used_credit (`sales_service.go:71`).
- `UpdateFull` of a purchase order resets received_qty and binds unapproved suppliers
  (`procurement_service.go:239`, `:217`).
- On MySQL and PostgreSQL, `Act` has a write skew (`approval_service.go:240`).
- `Clear` does not wait for a consolidation in flight (`memory.go:312`).
- Two conversions of one suggestion at once create two orders (`planning_service.go:218`).
- `ComputeMRP` marks demands it has not summed (`planning_service.go:158`).
- A version number is given twice after a deletion (`rnd_service.go:137`).
- On PostgreSQL two releases at once leave two defaults (`rnd_service.go:215`): `OneDefault` with
  `ReadCommitted = TRUE` in `Bom.cfg`.
- A BOM order confirmed again after a failure orders the first suppliers again
  (`bom_order_service.go:108`).
- Disabling an account is acknowledged and not done (`rbac_service.go:370`).
- `MigrateRoles` and `SeedRBAC` are not repeatable after a crash inside them
  (`rbac_seed.go:427`, `:19`).
- Two refreshes of the permission cache may end in the wrong order (`rbac_service.go:488`).
- Numbers documented as generated when blank are stored blank (`assistant_tools.go:998`).
- Batches of orders are not one transaction, as the assistant says they are, and what a batch
  wrote before it failed is not reported to the model (`procurement_service.go:148`,
  `assistant.go:713`).
- An order that is written and cannot be read back is reported as failed, and one deleted
  before it is read back makes its batch panic (`procurement_service.go:86`, `:158`).
- The page rule passes over `bom_list` and `logistics_history` (`assistant.go:469`).
- A migration repeated into a filled target and failing leaves it empty (`storage_service.go:169`).

The properties of `Memory` excuse a stale watermark, which three paths of the code leave
behind: a rotation whose second step is missing (`jsonl.go:148`), a consolidation that
overlapped `Clear` (`jsonl.go:278`), and a removal cut short (`jsonl.go:292`). Without the
excuse TLC finds turns that are passed over or counted again: `Unconsolidated` recognises a
watermark beyond the end of the log, but not one inside it, and `MarkConsolidated` never
lowers one.

## 6. Plan

What is left, in this order; each item comes with its instance, properties, mutants and, where
they say something, theorems.

1. An abstract specification of BOM versions and one of purchase orders (open, received, closed),
   with the refinements proved as that of `StockPool` is.
2. `StockRows`: the reservation on MySQL, statement by statement, shown to implement
   `Inventory` where row locks suffice and not where they do not.
3. `ConnectionPool`: the circular wait of transactions that need a second connection
   (`approval_service.go:287`).
4. `Memory`: decay; an abstract specification (a queue from which each turn is handed over
   once).
5. The rest of master data (products, warehouses, locations), shipments, tenants' own roles.

Not planned, and why: signatures and tokens, the audit log (nothing reads it back into a
decision), configuration, routing, the parsing of documents, prompts and the MCP proxy are
computation or input and output without state that others change under them.
