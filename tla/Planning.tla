------------------------------- MODULE Planning -------------------------------
(***************************************************************************)
(* Demands, material requirements and their conversion into purchase       *)
(* orders (internal/service/planning_service.go).                          *)
(*                                                                         *)
(* ComputeMRP and ConvertMRP are sequences of statements without a         *)
(* transaction, so each is several steps here and other requests run in    *)
(* between: demands are created, edited and deleted, goods arrive and      *)
(* leave, purchase orders are cancelled, a second computation or           *)
(* conversion runs.  A request may end after any of its steps, because a   *)
(* statement failed or the server stopped.                                 *)
(*                                                                         *)
(* Of a purchase order only what planning reads is kept: its number, its   *)
(* one line and whether it still counts as on order.                       *)
(***************************************************************************)
EXTENDS Integers, FiniteSets, Functions

CONSTANTS
  Materials,
  MinStock,        \* sys_material.min_stock
  InitStock,       \* on hand at the start, all warehouses together
  Demands,         \* ids of plan_demand
  Forms,           \* what a client may send as a demand: material and quantity
  ExplicitNumbers, \* purchase order numbers that clients pick themselves
  Requests,        \* goroutines
  Batches,         \* batch numbers; they are made of the second the computation starts in
  MaxResults,      \* bound of the model: rows of plan_mrp_result
  MaxOrders,       \* bound of the model: purchase orders
  MaxRows,         \* bound of the model: purchase orders and twice the results
  MaxEdits,        \* bound of the model: rows that clients edit, cancel or delete
  MaxStock         \* bound of the model: no goods arrive beyond it

ASSUME PlanningAssumption ==
  /\ IsFiniteSet(Materials) /\ IsFiniteSet(Demands)
  /\ MinStock \in [Materials -> Nat] /\ InitStock \in [Materials -> Nat]
  /\ Forms \subseteq [mat : Materials, qty : Nat \ {0}]
  /\ Batches \subseteq Nat \ {0}
  /\ {MaxResults, MaxOrders, MaxRows, MaxEdits, MaxStock} \subseteq Nat

VARIABLES
  demand,  \* rows of plan_demand
  stock,   \* quantity on hand per material
  results, \* rows of plan_mrp_result; ids are 1..n
  orders,  \* rows of pur_order with their line; ids are 1..n
  request, \* how far each goroutine is and what it has read
  planned, \* history: in how many batches each demand has been summed
  late,    \* history: demands that appeared while a computation was running
  again,   \* history: demands summed twice at once, or summed and left unmarked
  made,    \* history: orders made from each result
  excused  \* history: conversions of a result that overlapped or stopped half way

core == <<demand, stock, results, orders>>
history == <<planned, late, again, made, excused>>
vars == <<core, request, history>>

Results == 1..MaxResults
OrderIds == 1..MaxOrders
Unread == -1
Idle == [op |-> "idle"]
Absent == [status |-> "NONE"]
Gone == [status |-> "DELETED"]

DemandRow == [status : {"OPEN", "GENERATED", "BLANK"}, mat : Materials, qty : Nat]
ResultRow == [status : {"PENDING", "CONVERTED"}, mat : Materials, batch : Batches,
              suggested : Nat]
Numbers == (Batches \X Materials) \union ({0} \X ExplicitNumbers)
OrderRow == [status : {"OPEN", "CANCELLED", "COMPLETED"}, number : Numbers, mat : Materials,
             qty : Nat, received : Nat, from : Results]
Reads == [op : {"compute"}, step : {"read"}, batch : Batches, summed : SUBSET Demands,
          gross : [Materials -> Nat], current : [Materials -> Nat \union {Unread}],
          onOrder : [Materials -> Int], spent : [Materials -> Nat]]
Marks == [op : {"compute"}, step : {"mark"}, summed : SUBSET Demands]
Conversions == [op : {"convert"}, step : {"create", "save"}, id : Results, row : ResultRow]

TypeOK ==
  /\ demand \in [Demands -> DemandRow \union {Absent, Gone}]
  /\ stock \in [Materials -> Nat]
  /\ results \in [Results -> ResultRow \union {Absent, Gone}]
  /\ orders \in [OrderIds -> OrderRow \union {Absent, Gone}]
  /\ request \in [Requests -> Reads \union Marks \union Conversions \union {Idle}]

Init ==
  /\ demand = [d \in Demands |-> Absent]
  /\ stock = InitStock
  /\ results = [r \in Results |-> Absent]
  /\ orders = [o \in OrderIds |-> Absent]
  /\ request = [q \in Requests |-> Idle]
  /\ planned = [d \in Demands |-> 0]
  /\ late = {} /\ again = {}
  /\ made = [r \in Results |-> 0]
  /\ excused = {}

Set(q, r) == request' = [request EXCEPT ![q] = r]
Doing(op) == {q \in Requests : request[q].op = op}

-----------------------------------------------------------------------------
(* Demands *)

Edited(rows) ==
  Cardinality({i \in DOMAIN rows : rows[i].status \in {"BLANK", "CANCELLED", "DELETED"}})
MayEdit == Edited(demand) + Edited(results) + Edited(orders) < MaxEdits

Exists(d) == demand[d] \notin {Absent, Gone}

\* A new row; a computation under way has not summed it.
Appear(d, form) ==
  /\ demand[d] = Absent
  /\ demand' = [demand EXCEPT ![d] = [status |-> "OPEN", mat |-> form.mat, qty |-> form.qty]]
  /\ late' = IF Doing("compute") # {} THEN late \union {d} ELSE late
  /\ UNCHANGED <<stock, results, orders, request, planned, again, made, excused>>

CreateDemand(d, form) == Appear(d, form)

\* The handler builds a new row without a status and Save writes every column; a row
\* that is not there is inserted, with the default status (here only under a fresh id).
UpdateDemand(d, form) ==
  \/ /\ Exists(d) /\ MayEdit
     /\ demand' = [demand EXCEPT ![d] = [status |-> "BLANK", mat |-> form.mat, qty |-> form.qty]]
     /\ UNCHANGED <<stock, results, orders, request, history>>
  \/ Appear(d, form)

DeleteDemand(d) ==
  /\ Exists(d) /\ MayEdit
  /\ demand' = [demand EXCEPT ![d] = Gone]
  /\ UNCHANGED <<stock, results, orders, request, history>>

-----------------------------------------------------------------------------
(* The computation *)

OpenDemands == {d \in Demands : demand[d].status = "OPEN"}

\* SumOpenByMaterial: open demand quantity of one material.
OpenQty(m) ==
  LET of == {d \in OpenDemands : demand[d].mat = m}
  IN  SumFunctionOnSet([d \in of |-> demand[d].qty], of)

\* With no open demand there is nothing to compute.
BeginCompute(q) ==
  /\ request[q] = Idle
  /\ OpenDemands # {}
  /\ \E b \in Batches :
       Set(q, [op |-> "compute", step |-> "read", batch |-> b, summed |-> OpenDemands,
               gross |-> [m \in Materials |-> OpenQty(m)],
               current |-> [m \in Materials |-> Unread],
               onOrder |-> [m \in Materials |-> Unread],
               spent |-> [m \in Materials |-> 0]])
  /\ again' = again \union
       (OpenDemands \intersect UNION {request[p].summed : p \in Doing("compute")})
  /\ UNCHANGED <<core, planned, late, made, excused>>

Reading(q) == request[q].op = "compute" /\ request[q].step = "read"
ToPlan(q) == {m \in Materials : request[q].gross[m] > 0}
HalfRead(q) == {m \in ToPlan(q) : request[q].current[m] # Unread /\ request[q].onOrder[m] = Unread}

\* StockRepo.SumByMaterial of the next material, in the order of a Go map.
ReadStock(q, m) ==
  /\ Reading(q) /\ m \in ToPlan(q)
  /\ HalfRead(q) = {} /\ request[q].current[m] = Unread
  /\ request' = [request EXCEPT ![q].current[m] = stock[m], ![q].spent[m] = 0]
  /\ UNCHANGED <<core, history>>

OrdersOf(m) == {o \in OrderIds : orders[o].status = "OPEN" /\ orders[o].mat = m}

\* Mutant of OnOrder: what has been received is not subtracted.
OnOrderInFull(m) == SumFunctionOnSet([o \in OrdersOf(m) |-> orders[o].qty], OrdersOf(m))

\* sumOnOrder: ordered and not received, neither CANCELLED nor COMPLETED.
OnOrder(m) ==
  SumFunctionOnSet([o \in OrdersOf(m) |-> orders[o].qty - orders[o].received], OrdersOf(m))

ReadOnOrder(q, m) ==
  /\ Reading(q) /\ m \in HalfRead(q)
  /\ request' = [request EXCEPT ![q].onOrder[m] = OnOrder(m)]
  /\ UNCHANGED <<core, history>>

\* gross + min_stock - current - on order, never below 0
Suggested(q, m) ==
  LET net == request[q].gross[m] + MinStock[m] - request[q].current[m] - request[q].onOrder[m]
  IN  IF net > 0 THEN net ELSE 0

Inserted(rows) == Cardinality({i \in DOMAIN rows : rows[i] # Absent})
NextId(rows) == Inserted(rows) + 1
RoomFor(newResults, newOrders) ==
  2 * (Inserted(results) + newResults) + Inserted(orders) + newOrders <= MaxRows

\* MrpResultRepo.BatchCreate: one row per material, in one statement.
InsertResults(q) ==
  /\ Reading(q)
  /\ \A m \in ToPlan(q) : request[q].onOrder[m] # Unread
  /\ LET ids == NextId(results)..(NextId(results) + Cardinality(ToPlan(q)) - 1) IN
       /\ ids \subseteq Results /\ RoomFor(Cardinality(ids), 0)
       /\ \E matOf \in Bijection(ids, ToPlan(q)) :
            results' = [r \in Results |->
              IF r \in ids
              THEN [status |-> "PENDING", mat |-> matOf[r], batch |-> request[q].batch,
                    suggested |-> Suggested(q, matOf[r])]
              ELSE results[r]]
  /\ planned' = [d \in Demands |-> IF d \in request[q].summed THEN planned[d] + 1 ELSE planned[d]]
  /\ Set(q, [op |-> "compute", step |-> "mark", summed |-> request[q].summed])
  /\ UNCHANGED <<demand, stock, orders, late, again, made, excused>>

\* Mutant of MarkGenerated: the update is left out.
MarkNothing(q) ==
  /\ request[q].op = "compute" /\ request[q].step = "mark"
  /\ Set(q, Idle)
  /\ UNCHANGED <<core, history>>

\* Every demand that is OPEN now, not those that were summed.
MarkGenerated(q) ==
  /\ request[q].op = "compute" /\ request[q].step = "mark"
  /\ demand' = [d \in Demands |->
       IF d \in OpenDemands THEN [demand[d] EXCEPT !.status = "GENERATED"] ELSE demand[d]]
  /\ Set(q, Idle)
  /\ UNCHANGED <<stock, results, orders, history>>

-----------------------------------------------------------------------------
(* Conversion *)

ConvertingNow(r) == \E q \in Doing("convert") : request[q].id = r

\* Mutant of Convertible: converted results are not turned away.
ConvertibleAny(row) == row \notin {Absent, Gone} /\ row.suggested > 0

\* The checks at the start of ConvertMRP.
Convertible(row) == row \notin {Absent, Gone} /\ row.suggested > 0 /\ row.status # "CONVERTED"

BeginConvert(q, r) ==
  /\ request[q] = Idle
  /\ Convertible(results[r])
  /\ Set(q, [op |-> "convert", step |-> "create", id |-> r, row |-> results[r]])
  /\ excused' = IF ConvertingNow(r) THEN excused \union {r} ELSE excused
  /\ UNCHANGED <<core, planned, late, again, made>>

\* "MRP-<batch>-<material>", unless the client sent a number.
NumberChoices(row) == {<<row.batch, row.mat>>} \union ({0} \X ExplicitNumbers)

\* PurchaseOrderService.Create with one line; po_number is unique.
CreateOrder(q) ==
  /\ request[q].op = "convert" /\ request[q].step = "create"
  /\ NextId(orders) \in OrderIds /\ RoomFor(0, 1)
  /\ \E n \in NumberChoices(request[q].row) :
       /\ \A o \in OrderIds : orders[o] \notin {Absent, Gone} => orders[o].number # n
       /\ orders' = [orders EXCEPT ![NextId(orders)] =
            [status |-> "OPEN", number |-> n, mat |-> request[q].row.mat,
             qty |-> request[q].row.suggested, received |-> 0, from |-> request[q].id]]
  /\ request' = [request EXCEPT ![q].step = "save"]
  /\ made' = [made EXCEPT ![request[q].id] = @ + 1]
  /\ UNCHANGED <<demand, stock, results, planned, late, again, excused>>

\* Save of the row as it was read; a result deleted in between is inserted again.
SaveConverted(q) ==
  /\ request[q].op = "convert" /\ request[q].step = "save"
  /\ results' = [results EXCEPT ![request[q].id] = [request[q].row EXCEPT !.status = "CONVERTED"]]
  /\ Set(q, Idle)
  /\ UNCHANGED <<demand, stock, orders, history>>

DeleteMrp(r) ==
  /\ results[r] \notin {Absent, Gone} /\ MayEdit
  /\ results' = [results EXCEPT ![r] = Gone]
  /\ UNCHANGED <<demand, stock, orders, request, history>>

\* A statement fails (no supplier, a number in use, the database) or the server stops:
\* what the request has written so far stays.
Abort(q) ==
  /\ request[q] # Idle
  /\ Set(q, Idle)
  /\ again' = IF request[q].op = "compute" /\ request[q].step = "mark"
              THEN again \union request[q].summed ELSE again
  /\ excused' = IF request[q].op = "convert" /\ request[q].step = "save"
                THEN excused \union {request[q].id} ELSE excused
  /\ UNCHANGED <<core, planned, late, made>>

-----------------------------------------------------------------------------
(* What other requests do to stock and to purchase orders. *)

ReceiveGoods(o) ==
  /\ orders[o].status = "OPEN" /\ orders[o].received < orders[o].qty
  /\ stock[orders[o].mat] < MaxStock
  /\ orders' = [orders EXCEPT ![o].received = @ + 1,
                              ![o].status = IF orders[o].received + 1 = orders[o].qty
                                            THEN "COMPLETED" ELSE "OPEN"]
  /\ stock' = [stock EXCEPT ![orders[o].mat] = @ + 1]
  /\ UNCHANGED <<demand, results, request, history>>

CancelOrder(o) ==
  /\ orders[o].status = "OPEN" /\ MayEdit
  /\ orders' = [orders EXCEPT ![o].status = "CANCELLED"]
  /\ UNCHANGED <<demand, stock, results, request, history>>

DeleteOrder(o) ==
  /\ orders[o] \notin {Absent, Gone} /\ MayEdit
  /\ orders' = [orders EXCEPT ![o] = Gone]
  /\ UNCHANGED <<demand, stock, results, request, history>>

\* Goods leave; computations that have read the stock no longer count what is there.
IssueGoods(m) ==
  /\ stock[m] > 0
  /\ stock' = [stock EXCEPT ![m] = @ - 1]
  /\ request' = [q \in Requests |->
       IF Reading(q) /\ m \in HalfRead(q) THEN [request[q] EXCEPT !.spent[m] = @ + 1]
       ELSE request[q]]
  /\ UNCHANGED <<demand, results, orders, history>>

-----------------------------------------------------------------------------

Compute(q) ==
  \/ BeginCompute(q)
  \/ \E m \in Materials : ReadStock(q, m) \/ ReadOnOrder(q, m)
  \/ InsertResults(q)
  \/ MarkGenerated(q)

ConvertMRP(q) ==
  \/ \E r \in Results : BeginConvert(q, r)
  \/ CreateOrder(q)
  \/ SaveConverted(q)

Elsewhere ==
  \/ \E d \in Demands, form \in Forms : CreateDemand(d, form) \/ UpdateDemand(d, form)
  \/ \E d \in Demands : DeleteDemand(d)
  \/ \E r \in Results : DeleteMrp(r)
  \/ \E o \in OrderIds : ReceiveGoods(o) \/ CancelOrder(o) \/ DeleteOrder(o)
  \/ \E m \in Materials : IssueGoods(m)

Next ==
  \/ \E q \in Requests : Compute(q) \/ ConvertMRP(q) \/ Abort(q)
  \/ Elsewhere

Spec == Init /\ [][Next]_vars

-----------------------------------------------------------------------------

\* A demand marked GENERATED has been planned, although ComputeMRP marks whatever is OPEN at
\* the end, unless it appeared while a computation was running; and no demand is planned
\* twice unless two computations summed it at once or one stopped before marking it.
PlannedOnce ==
  \A d \in Demands \ late :
    /\ demand[d].status = "GENERATED" => planned[d] > 0
    /\ planned[d] > 1 => d \in again

Outstanding(m) ==
  LET open == {o \in OrderIds : orders[o].status = "OPEN" /\ orders[o].mat = m}
  IN  SumFunctionOnSet([o \in open |-> orders[o].qty - orders[o].received], open)

\* Goods received while ComputeMRP is between its two reads of a material are not counted
\* both as stock and as on order, so what it counts is never more than there is or comes
\* (goods issued in between apart): a suggestion is not too low because of a receipt.
SupplyCountedOnce ==
  [][\A q \in Requests, m \in Materials :
       Reading(q) /\ m \in HalfRead(q) /\ Reading(q)' /\ m \notin HalfRead(q)' =>
         request'[q].current[m] + request'[q].onOrder[m]
           <= stock[m] + Outstanding(m) + request[q].spent[m]]_vars

\* A result marked CONVERTED has an order, and more than one only if two conversions of it
\* ran at once or one stopped between creating the order and marking the result.
ConvertedOnce ==
  \A r \in Results :
    /\ results[r].status = "CONVERTED" => made[r] > 0
    /\ made[r] > 1 => r \in excused
=============================================================================
