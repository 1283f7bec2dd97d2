-------------------------------- MODULE BomOrder --------------------------------
(***************************************************************************)
(* Ordering what bills of material require                                 *)
(* (internal/service/bom_order_service.go) from suppliers bound to the     *)
(* materials (internal/service/supplier_material_service.go).              *)
(*                                                                         *)
(* A confirmation picks a supplier for one material after the other, then  *)
(* creates one purchase order per supplier, each in a transaction of its   *)
(* own, and stops at the first that fails.  Bindings, prices and audits    *)
(* change meanwhile.                                                       *)
(***************************************************************************)
EXTENDS Integers, FiniteSetsExt, Functions

CONSTANTS
  Suppliers,
  NumMaterials,     \* materials are 1..NumMaterials
  Needs,            \* what a confirmation may require: quantity per material, 0 for none
  MaxRel,           \* bound of the model: rows of base_supplier_material
  InitRels,         \* the tables it may be at the start
  Prices,
  Forms,            \* the bindings that clients send while the system runs
  Stamps,           \* order dates, to the second: the client's, or the time of the request
  Handlers,         \* goroutines
  MaxConfirmations, \* bound of the model
  MaxChanges        \* bound of the model: bindings, audits and orders changed

Materials == 1..NumMaterials
RelIds == 1..MaxRel
Rel == [supplier : Suppliers, mat : Materials, price : Prices, preferred : BOOLEAN]
NoRel == [mat |-> 0]
GoneRel == [mat |-> -1]

ASSUME BomOrderAssumption ==
  /\ {NumMaterials, MaxRel, MaxConfirmations, MaxChanges} \subseteq Nat
  /\ InitRels \subseteq [RelIds -> Rel \union {NoRel}]
  /\ Forms \subseteq Rel
  /\ Needs \subseteq [Materials -> Nat] /\ Prices \subseteq Nat

VARIABLES
  rel,       \* rows of base_supplier_material
  approved,  \* suppliers that are enabled and whose audit_status is APPROVED
  orders,    \* rows of pur_order made here: number, supplier, quantities, confirmation
  confirming, \* how far each goroutine is with a confirmation or a binding
  begun,     \* history: confirmations so far
  succeeded, \* history: confirmations that returned their orders, with what was needed
  cleared,   \* history: stamps of which an order has been deleted
  changes    \* how many changes have been made, for MaxChanges

history == <<begun, succeeded, cleared, changes>>
orderingVars == <<rel, approved, orders, confirming, history>>

None == 0
NoWork == [op |-> "idle"]
Plan == [Materials -> Suppliers \union {None}]

OrderingTypeOK ==
  /\ rel \in [RelIds -> Rel \union {NoRel, GoneRel}]
  /\ approved \subseteq Suppliers
  /\ orders \subseteq [number : Stamps \X Nat, supplier : Suppliers,
                       qty : [Materials -> Nat], by : 1..MaxConfirmations]
  /\ confirming \in [Handlers ->
       [op : {"bind"}, id : RelIds \union {None}, row : Rel]
         \union [op : {"resolve"}, next : Nat, need : Needs, plan : Plan, by : Nat]
         \union [op : {"order"}, stamp : Stamps, done : SUBSET Suppliers, need : Needs, plan : Plan,
                    by : Nat]
         \union {NoWork}]

OrderingInit ==
  /\ rel \in InitRels
  /\ approved = Suppliers
  /\ orders = {}
  /\ confirming = [q \in Handlers |-> NoWork]
  /\ begun = 0 /\ succeeded = {} /\ cleared = {} /\ changes = 0

Set(q, r) == confirming' = [confirming EXCEPT ![q] = r]

-----------------------------------------------------------------------------
(* Suppliers and their materials *)

Change == changes < MaxChanges /\ changes' = changes + 1

SetAudit(s) ==
  /\ Change
  /\ approved' = IF s \in approved THEN approved \ {s} ELSE approved \union {s}
  /\ UNCHANGED <<rel, orders, confirming, begun, succeeded, cleared>>

Rels == {i \in RelIds : rel[i] \notin {NoRel, GoneRel}}
PairRels(s, m) == {i \in Rels : rel[i].supplier = s /\ rel[i].mat = m}

StartSave(q, id, row) ==
  /\ confirming[q] = NoWork
  /\ changes < MaxChanges
  /\ Set(q, [op |-> "bind", id |-> id, row |-> row])
  /\ UNCHANGED <<rel, approved, orders, history>>

\* Bind reads the first row of the pair, Update the row with an id; either saves it later.
BeginBind(q, row) ==
  LET pair == PairRels(row.supplier, row.mat) IN
  StartSave(q, IF pair = {} THEN None ELSE Min(pair), row)

BeginUpdateRel(q, i, price, preferred) ==
  i \in Rels /\ StartSave(q, i, [rel[i] EXCEPT !.price = price, !.preferred = preferred])

\* A new row, or Save of the one that was read, which is inserted again if it has gone.
CommitBind(q) ==
  /\ confirming[q].op = "bind" /\ Change
  /\ LET used == {i \in RelIds : rel[i] # NoRel}
         id == IF confirming[q].id # None THEN confirming[q].id ELSE Cardinality(used) + 1
     IN  id \in RelIds /\ rel' = [rel EXCEPT ![id] = confirming[q].row]
  /\ Set(q, NoWork)
  /\ UNCHANGED <<approved, orders, begun, succeeded, cleared>>

Unbind(i) ==
  /\ i \in Rels /\ Change
  /\ rel' = [rel EXCEPT ![i] = GoneRel]
  /\ UNCHANGED <<approved, orders, confirming, begun, succeeded, cleared>>

-----------------------------------------------------------------------------
(* The choice of a supplier *)

Usable(m) == {i \in Rels : rel[i].mat = m /\ rel[i].supplier \in approved}

\* pickSupplier: the rows by id; a preferred one ends the search, else a lower price
\* replaces the best so far.  scan[i] is the row kept after the first i rows.
PickSupplier(m) ==
  LET scan[i \in 0..MaxRel] ==
        IF i = 0 THEN None
        ELSE LET best == scan[i - 1] IN
          CASE i \notin Usable(m) -> best
            [] best # None /\ rel[best].preferred -> best
            [] best = None \/ rel[i].preferred \/ rel[i].price < rel[best].price -> i
            [] OTHER -> best
  IN  IF scan[MaxRel] = None THEN None ELSE rel[scan[MaxRel]].supplier

-----------------------------------------------------------------------------
(* A confirmation *)

NoPlan == [m \in Materials |-> None]

BeginConfirm(q, need) ==
  /\ confirming[q] = NoWork
  /\ begun < MaxConfirmations
  /\ Set(q, [op |-> "resolve", next |-> 1, need |-> need, plan |-> NoPlan, by |-> begun + 1])
  /\ begun' = begun + 1
  /\ UNCHANGED <<rel, approved, orders, succeeded, cleared, changes>>

\* The next material; one without a supplier makes the whole confirmation fail.
ResolveNext(q) ==
  /\ confirming[q].op = "resolve" /\ confirming[q].next \in Materials
  /\ LET r == confirming[q]
         supplier == IF r.need[r.next] > 0 THEN PickSupplier(r.next) ELSE None
     IN  /\ r.need[r.next] > 0 => supplier # None
         /\ Set(q, [r EXCEPT !.next = @ + 1, !.plan = [@ EXCEPT ![r.next] = supplier]])
  /\ UNCHANGED <<rel, approved, orders, history>>

Resolved(q) ==
  /\ confirming[q].op = "resolve" /\ confirming[q].next \notin Materials
  /\ \E t \in Stamps :
       Set(q, [op |-> "order", stamp |-> t, done |-> {}, need |-> confirming[q].need,
               plan |-> confirming[q].plan, by |-> confirming[q].by])
  /\ UNCHANGED <<rel, approved, orders, history>>

\* The materials whose suppliers have no order yet.
Left(r) == {m \in Materials : r.plan[m] \notin r.done \union {None}}

\* Mutant of Number: orders are numbered by supplier.
NumberBySupplier(r, s) == <<r.stamp, s>>

\* BOM-<stamp>-<i>: the suppliers with an order are counted, the new one with them.
Number(r, s) == <<r.stamp, Cardinality(r.done \union {s})>>

\* PurchaseOrderService.Create for the next supplier, in the order in which the materials
\* name them first; it must still be approved, and po_number is unique.
CreateNext(q) ==
  LET r == confirming[q] IN
  /\ r.op = "order"
  /\ \E m \in Left(r) :
       /\ \A n \in Left(r) : m <= n
       /\ r.plan[m] \in approved
       /\ \A o \in orders : o.number # Number(r, r.plan[m])
       /\ orders' = orders \union
            {[number |-> Number(r, r.plan[m]), supplier |-> r.plan[m], by |-> r.by,
              qty |-> [n \in Materials |-> IF r.plan[n] = r.plan[m] THEN r.need[n] ELSE 0]]}
       /\ Set(q, [r EXCEPT !.done = @ \union {r.plan[m]}])
  /\ UNCHANGED <<rel, approved, history>>

\* Mutant of Succeed: an order that could not be created is passed over.
SucceedAnyway(q) ==
  /\ confirming[q].op = "order"
  /\ succeeded' = succeeded \union {[by |-> confirming[q].by, need |-> confirming[q].need]}
  /\ Set(q, NoWork)
  /\ UNCHANGED <<rel, approved, orders, begun, cleared, changes>>

Succeed(q) ==
  /\ confirming[q].op = "order" /\ Left(confirming[q]) = {}
  /\ succeeded' = succeeded \union {[by |-> confirming[q].by, need |-> confirming[q].need]}
  /\ Set(q, NoWork)
  /\ UNCHANGED <<rel, approved, orders, begun, cleared, changes>>

\* The first error ends the request; the orders created so far stay.
GiveUp(q) ==
  /\ confirming[q] # NoWork
  /\ Set(q, NoWork)
  /\ UNCHANGED <<rel, approved, orders, history>>

DeleteOrder(o) ==
  /\ Change
  /\ orders' = orders \ {o}
  /\ cleared' = cleared \union {o.number[1]}
  /\ UNCHANGED <<rel, approved, confirming, begun, succeeded>>

OrderingNext ==
  \/ \E s \in Suppliers : SetAudit(s)
  \/ \E i \in RelIds : Unbind(i)
  \/ \E o \in orders : DeleteOrder(o)
  \/ \E q \in Handlers :
       \/ \E row \in Forms : BeginBind(q, row)
       \/ \E i \in RelIds, row \in Forms : BeginUpdateRel(q, i, row.price, row.preferred)
       \/ \E need \in Needs : BeginConfirm(q, need)
       \/ CommitBind(q) \/ ResolveNext(q) \/ Resolved(q)
       \/ CreateNext(q) \/ Succeed(q) \/ GiveUp(q)

OrderingSpec == OrderingInit /\ [][OrderingNext]_orderingVars

-----------------------------------------------------------------------------

\* Confirmations that share a stamp, being of one second or carrying one order_date, do
\* not mix their orders: those under one stamp are of one confirmation, unless some of
\* them have been deleted.  A second try without order_date has a stamp of its own, and
\* orders again what the first try had ordered when it failed.
OneConfirmationPerStamp ==
  \A o, p \in orders : o.number[1] = p.number[1] /\ o.number[1] \notin cleared => o.by = p.by

\* A confirmation that succeeded has ordered what was needed of each material, from one
\* supplier (orders deleted since apart).
SuccessIsComplete ==
  \A c \in succeeded :
    LET mine == {o \in orders : o.by = c.by} IN
    \/ \E t \in cleared : TRUE
    \/ \A m \in Materials :
         /\ SumFunctionOnSet([o \in mine |-> o.qty[m]], mine) = c.need[m]
         /\ Cardinality({o \in mine : o.qty[m] > 0}) <= 1
=============================================================================
