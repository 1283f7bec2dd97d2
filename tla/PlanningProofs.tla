---------------------------- MODULE PlanningProofs ----------------------------
(***************************************************************************)
(* Theorems about Planning, for any materials, demands, concurrent         *)
(* computations and conversions, in three parts:                           *)
(*                                                                         *)
(*   1. types;                                                             *)
(*   2. demands: what a computation has summed is what it marks, and what  *)
(*      it counts of supply is there or comes;                             *)
(*   3. results: a converted one has an order, and only one.               *)
(*                                                                         *)
(* The numbers of planned and made say nothing by themselves: what has to  *)
(* be known is which request has summed a demand and has yet to mark it,   *)
(* or has ordered a result and has yet to save it.                         *)
(***************************************************************************)
EXTENDS Planning, SumTheorems

HistoryTypes ==
  /\ planned \in [Demands -> Nat] /\ late \subseteq Demands /\ again \subseteq Demands
  /\ made \in [Results -> Nat] /\ excused \subseteq Results

-----------------------------------------------------------------------------
(* 1. Types *)

\* What a request in flight holds, by its operation and step.
LEMMA RequestCases ==
  ASSUME TypeOK, NEW q \in Requests
  PROVE  /\ request[q].op = "compute" /\ request[q].step = "read" => request[q] \in Reads
         /\ request[q].op = "compute" /\ request[q].step = "mark" => request[q] \in Marks
         /\ request[q].op = "compute" =>
              request[q].step \in {"read", "mark"} /\ request[q].summed \subseteq Demands
         /\ request[q].op = "convert" => request[q] \in Conversions
         /\ request[q] # Idle => request[q].op \in {"compute", "convert"}
         /\ request[q] = Idle => request[q].op = "idle"
  BY DEF TypeOK, Reads, Marks, Conversions, Idle

\* Rows with a status of their table are rows of it, not absent or gone.
LEMMA RowCases ==
  ASSUME TypeOK
  PROVE  /\ \A d \in Demands : /\ demand[d] \notin {Absent, Gone} <=> demand[d] \in DemandRow
                               /\ demand[d].status \in {"OPEN", "GENERATED", "BLANK"}
                                    <=> demand[d] \in DemandRow
         /\ \A r \in Results : /\ results[r] \notin {Absent, Gone} <=> results[r] \in ResultRow
                               /\ results[r].status \in {"PENDING", "CONVERTED"}
                                    <=> results[r] \in ResultRow
         /\ \A o \in OrderIds : /\ orders[o] \notin {Absent, Gone} <=> orders[o] \in OrderRow
                                /\ orders[o].status = "OPEN" => orders[o] \in OrderRow
  BY DEF TypeOK, DemandRow, ResultRow, OrderRow, Absent, Gone

\* The open quantity of a material is a natural number.
LEMMA OpenQtyType ==
  ASSUME TypeOK, NEW m
  PROVE  OpenQty(m) \in Nat
  <1> DEFINE of == {d \in OpenDemands : demand[d].mat = m}
             term == [d \in of |-> demand[d].qty]
  <1>1. IsFiniteSet(of)
    BY PlanningAssumption, FS_Subset DEF OpenDemands
  <1>2. \A d \in of : term[d] \in Nat
    BY RowCases DEF OpenDemands, DemandRow
  <1>3. OpenQty(m) = SumFunctionOnSet(term, of)
    BY DEF OpenQty
  <1> HIDE DEF of, term
  <1> QED
    BY <1>1, <1>2, <1>3, SumNonNegative

\* The quantity on order of a material is an integer.
LEMMA OnOrderType ==
  ASSUME TypeOK, NEW m
  PROVE  OnOrder(m) \in Int
  <1> DEFINE term == [o \in OrdersOf(m) |-> orders[o].qty - orders[o].received]
  <1>1. IsFiniteSet(OrdersOf(m))
    <2>1. IsFiniteSet(OrderIds)
      <3>1. MaxOrders \in Int /\ 1 \in Int
        BY PlanningAssumption
      <3> QED
        BY <3>1, FS_Interval, Zenon DEF OrderIds
    <2> QED
      BY <2>1, FS_Subset DEF OrdersOf
  <1>2. \A o \in OrdersOf(m) : term[o] \in Int
    BY RowCases DEF OrdersOf, OrderRow
  <1>3. OnOrder(m) = SumFunctionOnSet(term, OrdersOf(m))
    BY DEF OnOrder
  <1> HIDE DEF term
  <1> QED
    BY <1>1, <1>2, <1>3, SumType

\* A request moves by its own goroutine's record.
LEMMA SetTyped ==
  ASSUME TypeOK, NEW q \in Requests, NEW r \in Reads \union Marks \union Conversions \union {Idle},
         Set(q, r)
  PROVE  /\ request' \in [Requests -> Reads \union Marks \union Conversions \union {Idle}]
         /\ request'[q] = r /\ \A p \in Requests \ {q} : request'[p] = request[p]
  BY DEF Set, TypeOK

\* The types hold before the first demand.
LEMMA InitTyped == Init => TypeOK /\ HistoryTypes
  BY PlanningAssumption DEF Init, TypeOK, HistoryTypes

\* What clients do to demands.
LEMMA AppearTyped ==
  ASSUME TypeOK, HistoryTypes, NEW d \in Demands, NEW form \in Forms, Appear(d, form)
  PROVE  TypeOK' /\ HistoryTypes'
  <1>1. [status |-> "OPEN", mat |-> form.mat, qty |-> form.qty] \in DemandRow
    BY PlanningAssumption DEF DemandRow
  <1> QED
    BY <1>1 DEF Appear, TypeOK, HistoryTypes

LEMMA DemandTyped ==
  ASSUME TypeOK, HistoryTypes, NEW d \in Demands,
         \/ \E form \in Forms : CreateDemand(d, form) \/ UpdateDemand(d, form)
         \/ DeleteDemand(d)
  PROVE  TypeOK' /\ HistoryTypes'
  <1>1. ASSUME NEW form \in Forms
        PROVE  [status |-> "BLANK", mat |-> form.mat, qty |-> form.qty] \in DemandRow
    BY PlanningAssumption DEF DemandRow
  <1>2. CASE DeleteDemand(d)
    BY <1>2 DEF DeleteDemand, TypeOK, HistoryTypes, history
  <1>3. ASSUME NEW form \in Forms, CreateDemand(d, form) \/ UpdateDemand(d, form)
        PROVE  TypeOK' /\ HistoryTypes'
    BY <1>1, <1>3, AppearTyped DEF CreateDemand, UpdateDemand, TypeOK, HistoryTypes, history
  <1> QED
    BY <1>2, <1>3

\* A computation begins with the demands that are OPEN and nothing read.
LEMMA BeginComputeOutcome ==
  ASSUME TypeOK, HistoryTypes, NEW q \in Requests, BeginCompute(q)
  PROVE  /\ TypeOK' /\ HistoryTypes'
         /\ request[q] = Idle /\ UNCHANGED <<core, planned, late, made, excused>>
         /\ again' = again \union
              (OpenDemands \intersect UNION {request[p].summed : p \in Doing("compute")})
         /\ request'[q] \in Reads /\ request'[q].summed = OpenDemands
         /\ \A m \in Materials : request'[q].current[m] = Unread
         /\ \A p \in Requests \ {q} : request'[p] = request[p]
  <1>1. PICK b \in Batches :
          Set(q, [op |-> "compute", step |-> "read", batch |-> b, summed |-> OpenDemands,
                  gross |-> [m \in Materials |-> OpenQty(m)],
                  current |-> [m \in Materials |-> Unread],
                  onOrder |-> [m \in Materials |-> Unread],
                  spent |-> [m \in Materials |-> 0]])
    BY DEF BeginCompute
  <1> DEFINE r == [op |-> "compute", step |-> "read", batch |-> b, summed |-> OpenDemands,
                   gross |-> [m \in Materials |-> OpenQty(m)],
                   current |-> [m \in Materials |-> Unread],
                   onOrder |-> [m \in Materials |-> Unread],
                   spent |-> [m \in Materials |-> 0]]
  <1>2. OpenDemands \subseteq Demands
    BY DEF OpenDemands
  <1>3. r \in Reads
    BY <1>2, OpenQtyType DEF Reads, Unread
  <1>4. r.summed = OpenDemands /\ \A m \in Materials : r.current[m] = Unread
    OBVIOUS
  <1>5. /\ request[q] = Idle /\ UNCHANGED <<core, planned, late, made, excused>>
        /\ again' = again \union
             (OpenDemands \intersect UNION {request[p].summed : p \in Doing("compute")})
    BY DEF BeginCompute
  <1> HIDE DEF r
  <1>6. /\ request' \in [Requests -> Reads \union Marks \union Conversions \union {Idle}]
        /\ request'[q] = r /\ \A p \in Requests \ {q} : request'[p] = request[p]
    BY <1>1, <1>3, SetTyped DEF r
  <1>7. TypeOK' /\ HistoryTypes'
    BY <1>2, <1>5, <1>6 DEF TypeOK, HistoryTypes, core
  <1> QED
    BY <1>3, <1>4, <1>5, <1>6, <1>7

\* It reads the stock of one material.
LEMMA ReadStockOutcome ==
  ASSUME TypeOK, HistoryTypes, NEW q \in Requests, NEW m \in Materials, ReadStock(q, m)
  PROVE  /\ TypeOK' /\ HistoryTypes' /\ UNCHANGED <<core, history>>
         /\ Reading(q) /\ request'[q] \in Reads
         /\ request'[q].summed = request[q].summed /\ request'[q].gross = request[q].gross
         /\ request'[q].onOrder = request[q].onOrder
         /\ request'[q].current = [request[q].current EXCEPT ![m] = stock[m]]
         /\ request'[q].spent = [request[q].spent EXCEPT ![m] = 0]
         /\ \A p \in Requests \ {q} : request'[p] = request[p]
  <1>1. request[q] \in Reads
    BY RequestCases DEF ReadStock, Reading
  <1>2. request' = [request EXCEPT ![q].current[m] = stock[m], ![q].spent[m] = 0]
    BY DEF ReadStock
  <1> DEFINE r == [request[q] EXCEPT !.current = [@ EXCEPT ![m] = stock[m]],
                                     !.spent = [@ EXCEPT ![m] = 0]]
  <1>3. request'[q] = r /\ \A p \in Requests \ {q} : request'[p] = request[p]
    BY <1>1, <1>2 DEF TypeOK, Reads
  <1>4. /\ r \in Reads /\ r.summed = request[q].summed /\ r.onOrder = request[q].onOrder
        /\ r.gross = request[q].gross
        /\ r.current = [request[q].current EXCEPT ![m] = stock[m]]
        /\ r.spent = [request[q].spent EXCEPT ![m] = 0]
    BY <1>1 DEF Reads, TypeOK
  <1> HIDE DEF r
  <1>5. request' \in [Requests -> Reads \union Marks \union Conversions \union {Idle}]
    BY <1>2, <1>3, <1>4 DEF TypeOK
  <1>6. UNCHANGED <<core, history>> /\ Reading(q)
    BY DEF ReadStock
  <1>7. TypeOK' /\ HistoryTypes'
    BY <1>5, <1>6 DEF TypeOK, HistoryTypes, core, history
  <1> QED
    BY <1>3, <1>4, <1>6, <1>7

\* It reads what is on order of one material whose stock it has read.
LEMMA ReadOnOrderOutcome ==
  ASSUME TypeOK, HistoryTypes, NEW q \in Requests, NEW m \in Materials, ReadOnOrder(q, m)
  PROVE  /\ TypeOK' /\ HistoryTypes' /\ UNCHANGED <<core, history>>
         /\ Reading(q) /\ m \in HalfRead(q) /\ request'[q] \in Reads
         /\ request'[q].summed = request[q].summed /\ request'[q].gross = request[q].gross
         /\ request'[q].current = request[q].current
         /\ request'[q].spent = request[q].spent
         /\ request'[q].onOrder = [request[q].onOrder EXCEPT ![m] = OnOrder(m)]
         /\ \A p \in Requests \ {q} : request'[p] = request[p]
  <1>1. request[q] \in Reads
    BY RequestCases DEF ReadOnOrder, Reading
  <1>2. request' = [request EXCEPT ![q].onOrder[m] = OnOrder(m)]
    BY DEF ReadOnOrder
  <1> DEFINE r == [request[q] EXCEPT !.onOrder = [@ EXCEPT ![m] = OnOrder(m)]]
  <1>3. request'[q] = r /\ \A p \in Requests \ {q} : request'[p] = request[p]
    BY <1>1, <1>2 DEF TypeOK, Reads
  <1>4. /\ r \in Reads /\ r.summed = request[q].summed /\ r.current = request[q].current
        /\ r.spent = request[q].spent /\ r.gross = request[q].gross
        /\ r.onOrder = [request[q].onOrder EXCEPT ![m] = OnOrder(m)]
    BY <1>1, OnOrderType DEF Reads
  <1> HIDE DEF r
  <1>5. request' \in [Requests -> Reads \union Marks \union Conversions \union {Idle}]
    BY <1>2, <1>3, <1>4 DEF TypeOK
  <1>6. UNCHANGED <<core, history>> /\ Reading(q) /\ m \in HalfRead(q)
    BY DEF ReadOnOrder
  <1>7. TypeOK' /\ HistoryTypes'
    BY <1>5, <1>6 DEF TypeOK, HistoryTypes, core, history
  <1> QED
    BY <1>3, <1>4, <1>6, <1>7

\* Goods that leave are counted by the requests that have read the stock.
LEMMA IssueOutcome ==
  ASSUME TypeOK, HistoryTypes, NEW m \in Materials, IssueGoods(m)
  PROVE  /\ TypeOK' /\ HistoryTypes' /\ UNCHANGED <<demand, results, orders, history>>
         /\ stock[m] > 0 /\ stock' = [stock EXCEPT ![m] = @ - 1]
         /\ \A q \in Requests :
              \/ request'[q] = request[q] /\ ~(Reading(q) /\ m \in HalfRead(q))
              \/ /\ Reading(q) /\ m \in HalfRead(q) /\ request'[q] \in Reads
                 /\ request'[q].summed = request[q].summed
                 /\ request'[q].gross = request[q].gross
                 /\ request'[q].current = request[q].current
                 /\ request'[q].onOrder = request[q].onOrder
                 /\ request'[q].spent = [request[q].spent EXCEPT ![m] = @ + 1]
  <1>1. /\ stock[m] > 0 /\ stock' = [stock EXCEPT ![m] = @ - 1]
        /\ UNCHANGED <<demand, results, orders, history>>
        /\ request' = [q \in Requests |->
             IF Reading(q) /\ m \in HalfRead(q) THEN [request[q] EXCEPT !.spent[m] = @ + 1]
             ELSE request[q]]
    BY DEF IssueGoods
  <1>2. ASSUME NEW q \in Requests, Reading(q)
        PROVE  LET r == [request[q] EXCEPT !.spent[m] = @ + 1]
               IN  /\ r \in Reads /\ r.summed = request[q].summed
                   /\ r.current = request[q].current /\ r.onOrder = request[q].onOrder
                   /\ r.gross = request[q].gross
                   /\ r.spent = [request[q].spent EXCEPT ![m] = @ + 1]
    <2>1. request[q] \in Reads
      BY <1>2, RequestCases DEF Reading
    <2> QED
      BY <2>1 DEF Reads
  <1>3. stock' \in [Materials -> Nat]
    BY <1>1 DEF TypeOK
  <1>4. request' \in [Requests -> Reads \union Marks \union Conversions \union {Idle}]
    BY <1>1, <1>2 DEF TypeOK
  <1>5. TypeOK' /\ HistoryTypes'
    BY <1>1, <1>3, <1>4 DEF TypeOK, HistoryTypes, history
  <1> QED
    BY <1>1, <1>2, <1>5

\* It inserts its suggestions in free rows and has planned the demands it summed.
LEMMA InsertOutcome ==
  ASSUME TypeOK, HistoryTypes, NEW q \in Requests, InsertResults(q)
  PROVE  /\ TypeOK' /\ HistoryTypes'
         /\ UNCHANGED <<demand, stock, orders, late, again, made, excused>>
         /\ Reading(q) /\ request'[q] \in Marks /\ request'[q].summed = request[q].summed
         /\ \A p \in Requests \ {q} : request'[p] = request[p]
         /\ planned' = [d \in Demands |->
              IF d \in request[q].summed THEN planned[d] + 1 ELSE planned[d]]
         /\ \E k \in Nat :
              LET ids == NextId(results)..(NextId(results) + k - 1) IN
              /\ ids \subseteq Results
              /\ \A r \in Results :
                   IF r \in ids THEN results'[r] \in ResultRow /\ results'[r].status = "PENDING"
                   ELSE results'[r] = results[r]
  <1>1. request[q] \in Reads /\ Reading(q)
    BY RequestCases DEF InsertResults, Reading
  <1> DEFINE k == Cardinality(ToPlan(q))
             ids == NextId(results)..(NextId(results) + k - 1)
             r == [op |-> "compute", step |-> "mark", summed |-> request[q].summed]
  <1>2. PICK matOf \in Bijection(ids, ToPlan(q)) :
          results' = [x \in Results |->
            IF x \in ids
            THEN [status |-> "PENDING", mat |-> matOf[x], batch |-> request[q].batch,
                  suggested |-> Suggested(q, matOf[x])]
            ELSE results[x]]
    BY DEF InsertResults
  <1>3. /\ ids \subseteq Results /\ Set(q, r)
        /\ UNCHANGED <<demand, stock, orders, late, again, made, excused>>
        /\ planned' = [d \in Demands |->
             IF d \in request[q].summed THEN planned[d] + 1 ELSE planned[d]]
    BY DEF InsertResults
  <1>4. k \in Nat
    <2>1. IsFiniteSet(ToPlan(q))
      BY PlanningAssumption, FS_Subset DEF ToPlan
    <2> QED
      BY <2>1, FS_CardinalityType
  <1>5. ASSUME NEW x \in ids
        PROVE  [status |-> "PENDING", mat |-> matOf[x], batch |-> request[q].batch,
                suggested |-> Suggested(q, matOf[x])] \in ResultRow
    <2>1. matOf[x] \in Materials
      BY <1>2 DEF Bijection, Injection, Surjection, ToPlan
    <2>2. \A m \in Materials : Suggested(q, m) \in Nat
      <3> TAKE m \in Materials
      <3>1. /\ request[q].gross[m] \in Nat /\ request[q].current[m] \in Int
            /\ request[q].onOrder[m] \in Int /\ MinStock[m] \in Nat
        BY <1>1, PlanningAssumption DEF Reads, Unread
      <3> QED
        BY <3>1 DEF Suggested
    <2>3. Suggested(q, matOf[x]) \in Nat /\ request[q].batch \in Batches
      BY <1>1, <2>1, <2>2 DEF Reads
    <2> QED
      BY <2>1, <2>3 DEF ResultRow
  <1>6. r \in Marks /\ r.summed = request[q].summed
    BY <1>1 DEF Reads, Marks
  <1> HIDE DEF r
  <1>7. /\ request' \in [Requests -> Reads \union Marks \union Conversions \union {Idle}]
        /\ request'[q] = r /\ \A p \in Requests \ {q} : request'[p] = request[p]
    BY <1>3, <1>6, SetTyped
  <1>8. \A x \in Results :
          IF x \in ids THEN results'[x] \in ResultRow /\ results'[x].status = "PENDING"
          ELSE results'[x] = results[x]
    BY <1>2, <1>5
  <1> HIDE DEF ids
  <1>9. results' \in [Results -> ResultRow \union {Absent, Gone}]
    BY <1>2, <1>8 DEF TypeOK
  <1>10. planned' \in [Demands -> Nat]
    BY <1>3 DEF HistoryTypes
  <1>11. TypeOK' /\ HistoryTypes'
    BY <1>3, <1>7, <1>9, <1>10 DEF TypeOK, HistoryTypes
  <1> QED
    BY <1>1, <1>3, <1>4, <1>6, <1>7, <1>8, <1>11 DEF ids

\* It marks whatever is OPEN by then, and ends.
LEMMA MarkOutcome ==
  ASSUME TypeOK, HistoryTypes, NEW q \in Requests, MarkGenerated(q)
  PROVE  /\ TypeOK' /\ HistoryTypes' /\ UNCHANGED <<stock, results, orders, history>>
         /\ request[q].op = "compute" /\ request[q].step = "mark" /\ request'[q] = Idle
         /\ \A p \in Requests \ {q} : request'[p] = request[p]
         /\ \A d \in Demands : IF d \in OpenDemands THEN demand'[d].status = "GENERATED"
                               ELSE demand'[d] = demand[d]
  <1>1. /\ request[q].op = "compute" /\ request[q].step = "mark" /\ Set(q, Idle)
        /\ demand' = [d \in Demands |->
             IF d \in OpenDemands THEN [demand[d] EXCEPT !.status = "GENERATED"] ELSE demand[d]]
        /\ UNCHANGED <<stock, results, orders, history>>
    BY DEF MarkGenerated
  <1>2. ASSUME NEW d \in OpenDemands
        PROVE  /\ [demand[d] EXCEPT !.status = "GENERATED"] \in DemandRow
               /\ [demand[d] EXCEPT !.status = "GENERATED"].status = "GENERATED"
    <2>1. demand[d] \in DemandRow
      BY <1>2, RowCases DEF OpenDemands
    <2> QED
      BY <2>1 DEF DemandRow
  <1>3. /\ request' \in [Requests -> Reads \union Marks \union Conversions \union {Idle}]
        /\ request'[q] = Idle /\ \A p \in Requests \ {q} : request'[p] = request[p]
    BY <1>1, SetTyped
  <1>4. demand' \in [Demands -> DemandRow \union {Absent, Gone}]
    BY <1>1, <1>2 DEF TypeOK
  <1>5. TypeOK' /\ HistoryTypes'
    BY <1>1, <1>3, <1>4 DEF TypeOK, HistoryTypes, history
  <1> QED
    BY <1>1, <1>2, <1>3, <1>5

\* A conversion begins with a suggestion it has found PENDING.
LEMMA BeginConvertOutcome ==
  ASSUME TypeOK, HistoryTypes, NEW q \in Requests, NEW r \in Results, BeginConvert(q, r)
  PROVE  /\ TypeOK' /\ HistoryTypes' /\ UNCHANGED <<core, planned, late, again, made>>
         /\ request[q] = Idle /\ results[r] \in ResultRow /\ results[r].status = "PENDING"
         /\ request'[q] = [op |-> "convert", step |-> "create", id |-> r, row |-> results[r]]
         /\ request'[q] \in Conversions
         /\ \A p \in Requests \ {q} : request'[p] = request[p]
         /\ excused' = IF ConvertingNow(r) THEN excused \union {r} ELSE excused
  <1>1. /\ request[q] = Idle /\ Convertible(results[r])
        /\ Set(q, [op |-> "convert", step |-> "create", id |-> r, row |-> results[r]])
        /\ excused' = IF ConvertingNow(r) THEN excused \union {r} ELSE excused
        /\ UNCHANGED <<core, planned, late, again, made>>
    BY DEF BeginConvert
  <1>2. results[r] \in ResultRow /\ results[r].status = "PENDING"
    <2>1. results[r] \in ResultRow
      BY <1>1, RowCases DEF Convertible
    <2> QED
      BY <1>1, <2>1 DEF Convertible, ResultRow
  <1>3. [op |-> "convert", step |-> "create", id |-> r, row |-> results[r]] \in Conversions
    BY <1>2 DEF Conversions
  <1>4. /\ request' \in [Requests -> Reads \union Marks \union Conversions \union {Idle}]
        /\ request'[q] = [op |-> "convert", step |-> "create", id |-> r, row |-> results[r]]
        /\ \A p \in Requests \ {q} : request'[p] = request[p]
    BY <1>1, <1>3, SetTyped
  <1>5. TypeOK' /\ HistoryTypes'
    BY <1>1, <1>4 DEF TypeOK, HistoryTypes, core
  <1> QED
    BY <1>1, <1>2, <1>3, <1>4, <1>5

\* It creates one order for it.
LEMMA CreateOrderOutcome ==
  ASSUME TypeOK, HistoryTypes, NEW q \in Requests, CreateOrder(q)
  PROVE  /\ TypeOK' /\ HistoryTypes'
         /\ UNCHANGED <<demand, stock, results, planned, late, again, excused>>
         /\ request[q] \in Conversions /\ request[q].step = "create"
         /\ request'[q] \in Conversions /\ request'[q].step = "save"
         /\ request'[q].id = request[q].id /\ request'[q].row = request[q].row
         /\ \A p \in Requests \ {q} : request'[p] = request[p]
         /\ made' = [made EXCEPT ![request[q].id] = @ + 1]
  <1>1. /\ request[q] \in Conversions /\ request[q].step = "create"
        /\ request' = [request EXCEPT ![q].step = "save"]
        /\ made' = [made EXCEPT ![request[q].id] = @ + 1]
        /\ UNCHANGED <<demand, stock, results, planned, late, again, excused>>
    BY RequestCases DEF CreateOrder
  <1> DEFINE r == [request[q] EXCEPT !.step = "save"]
  <1>2. r \in Conversions /\ r.step = "save" /\ r.id = request[q].id /\ r.row = request[q].row
    BY <1>1 DEF Conversions
  <1>3. Set(q, r)
    BY <1>1 DEF Set
  <1> HIDE DEF r
  <1>4. /\ request' \in [Requests -> Reads \union Marks \union Conversions \union {Idle}]
        /\ request'[q] = r /\ \A p \in Requests \ {q} : request'[p] = request[p]
    BY <1>2, <1>3, SetTyped
  <1>5. orders' \in [OrderIds -> OrderRow \union {Absent, Gone}]
    <2>1. request[q].row \in ResultRow /\ request[q].id \in Results
      BY <1>1 DEF Conversions
    <2>2. PICK n \in NumberChoices(request[q].row) :
            orders' = [orders EXCEPT ![NextId(orders)] =
              [status |-> "OPEN", number |-> n, mat |-> request[q].row.mat,
               qty |-> request[q].row.suggested, received |-> 0, from |-> request[q].id]]
      BY DEF CreateOrder
    <2>3. n \in Numbers
      BY <2>1 DEF NumberChoices, Numbers, ResultRow
    <2>4. [status |-> "OPEN", number |-> n, mat |-> request[q].row.mat,
           qty |-> request[q].row.suggested, received |-> 0, from |-> request[q].id] \in OrderRow
      BY <2>1, <2>3 DEF OrderRow, ResultRow
    <2> QED
      BY <2>2, <2>4 DEF TypeOK
  <1>6. made' \in [Results -> Nat]
    <2>1. request[q].id \in Results
      BY <1>1 DEF Conversions
    <2> QED
      BY <1>1, <2>1 DEF HistoryTypes
  <1>7. TypeOK' /\ HistoryTypes'
    BY <1>1, <1>4, <1>5, <1>6 DEF TypeOK, HistoryTypes
  <1> QED
    BY <1>1, <1>2, <1>4, <1>7

\* It saves the row it read, now CONVERTED, and ends.
LEMMA SaveOutcome ==
  ASSUME TypeOK, HistoryTypes, NEW q \in Requests, SaveConverted(q)
  PROVE  /\ TypeOK' /\ HistoryTypes' /\ UNCHANGED <<demand, stock, orders, history>>
         /\ request[q] \in Conversions /\ request[q].step = "save" /\ request[q].id \in Results
         /\ request'[q] = Idle /\ \A p \in Requests \ {q} : request'[p] = request[p]
         /\ results'[request[q].id] \in ResultRow
         /\ results'[request[q].id].status = "CONVERTED"
         /\ \A r \in Results \ {request[q].id} : results'[r] = results[r]
  <1>1. /\ request[q] \in Conversions /\ request[q].step = "save" /\ Set(q, Idle)
        /\ results' = [results EXCEPT ![request[q].id] =
                        [request[q].row EXCEPT !.status = "CONVERTED"]]
        /\ UNCHANGED <<demand, stock, orders, history>>
    BY RequestCases DEF SaveConverted
  <1>2. request[q].id \in Results /\ request[q].row \in ResultRow
    BY <1>1 DEF Conversions
  <1>3. /\ [request[q].row EXCEPT !.status = "CONVERTED"] \in ResultRow
        /\ [request[q].row EXCEPT !.status = "CONVERTED"].status = "CONVERTED"
    BY <1>2 DEF ResultRow
  <1>4. /\ request' \in [Requests -> Reads \union Marks \union Conversions \union {Idle}]
        /\ request'[q] = Idle /\ \A p \in Requests \ {q} : request'[p] = request[p]
    BY <1>1, SetTyped
  <1>5. /\ results' \in [Results -> ResultRow \union {Absent, Gone}]
        /\ results'[request[q].id] \in ResultRow
        /\ results'[request[q].id].status = "CONVERTED"
        /\ \A r \in Results \ {request[q].id} : results'[r] = results[r]
    BY <1>1, <1>2, <1>3 DEF TypeOK
  <1>6. TypeOK' /\ HistoryTypes'
    BY <1>1, <1>4, <1>5 DEF TypeOK, HistoryTypes, history
  <1> QED
    BY <1>1, <1>2, <1>4, <1>5, <1>6

\* A request that stops leaves the rows as they are.
LEMMA AbortOutcome ==
  ASSUME TypeOK, HistoryTypes, NEW q \in Requests, Abort(q)
  PROVE  /\ TypeOK' /\ HistoryTypes' /\ UNCHANGED <<core, planned, late, made>>
         /\ request[q] # Idle /\ request'[q] = Idle
         /\ \A p \in Requests \ {q} : request'[p] = request[p]
         /\ again' = IF request[q].op = "compute" /\ request[q].step = "mark"
                     THEN again \union request[q].summed ELSE again
         /\ excused' = IF request[q].op = "convert" /\ request[q].step = "save"
                       THEN excused \union {request[q].id} ELSE excused
  <1>1. /\ request[q] # Idle /\ Set(q, Idle) /\ UNCHANGED <<core, planned, late, made>>
        /\ again' = IF request[q].op = "compute" /\ request[q].step = "mark"
                    THEN again \union request[q].summed ELSE again
        /\ excused' = IF request[q].op = "convert" /\ request[q].step = "save"
                      THEN excused \union {request[q].id} ELSE excused
    BY DEF Abort
  <1>2. /\ request' \in [Requests -> Reads \union Marks \union Conversions \union {Idle}]
        /\ request'[q] = Idle /\ \A p \in Requests \ {q} : request'[p] = request[p]
    BY <1>1, SetTyped
  <1>3. again' \subseteq Demands /\ excused' \subseteq Results
    BY <1>1, RequestCases DEF HistoryTypes, Conversions
  <1>4. TypeOK' /\ HistoryTypes'
    BY <1>1, <1>2, <1>3 DEF TypeOK, HistoryTypes, core
  <1> QED
    BY <1>1, <1>2, <1>4

\* What clients do to results, and other requests to purchase orders.
LEMMA ElsewhereTyped ==
  ASSUME TypeOK, HistoryTypes,
         \/ \E r \in Results : DeleteMrp(r)
         \/ \E o \in OrderIds : ReceiveGoods(o) \/ CancelOrder(o) \/ DeleteOrder(o)
  PROVE  TypeOK' /\ HistoryTypes' /\ UNCHANGED <<demand, request, history>>
  <1>1. ASSUME NEW r \in Results, DeleteMrp(r)
        PROVE  TypeOK' /\ HistoryTypes' /\ UNCHANGED <<demand, request, history>>
    BY <1>1 DEF DeleteMrp, TypeOK, HistoryTypes, history
  <1>2. ASSUME NEW o \in OrderIds, ReceiveGoods(o)
        PROVE  TypeOK' /\ HistoryTypes' /\ UNCHANGED <<demand, request, history>>
    <2>1. orders[o] \in OrderRow
      BY <1>2, RowCases DEF ReceiveGoods
    <2>2. /\ orders' = [orders EXCEPT ![o].received = @ + 1,
                                      ![o].status = IF orders[o].received + 1 = orders[o].qty
                                                    THEN "COMPLETED" ELSE "OPEN"]
          /\ stock' = [stock EXCEPT ![orders[o].mat] = @ + 1]
          /\ UNCHANGED <<demand, results, request, history>>
      BY <1>2 DEF ReceiveGoods
    <2>3. stock' \in [Materials -> Nat]
      BY <2>1, <2>2 DEF TypeOK, OrderRow
    <2>4. orders' \in [OrderIds -> OrderRow \union {Absent, Gone}]
      <3> DEFINE s == IF orders[o].received + 1 = orders[o].qty THEN "COMPLETED" ELSE "OPEN"
                 more == [orders[o] EXCEPT !.received = @ + 1]
      <3>1. s \in {"OPEN", "COMPLETED"}
        OBVIOUS
      <3>2. orders' = [orders EXCEPT ![o] = [more EXCEPT !.status = s]]
        BY <2>2 DEF TypeOK
      <3>3. more \in OrderRow
        BY <2>1 DEF OrderRow
      <3> HIDE DEF s, more
      <3>4. [more EXCEPT !.status = s] \in OrderRow
        BY <3>1, <3>3 DEF OrderRow
      <3> QED
        BY <3>2, <3>4 DEF TypeOK
    <2> QED
      BY <2>2, <2>3, <2>4 DEF TypeOK, HistoryTypes, history
  <1>3. ASSUME NEW o \in OrderIds, CancelOrder(o) \/ DeleteOrder(o)
        PROVE  TypeOK' /\ HistoryTypes' /\ UNCHANGED <<demand, request, history>>
    <2>1. \A x \in OrderRow : [x EXCEPT !.status = "CANCELLED"] \in OrderRow
      BY DEF OrderRow
    <2>2. CASE CancelOrder(o)
      <3>1. orders' = [orders EXCEPT ![o] = [orders[o] EXCEPT !.status = "CANCELLED"]]
        BY <2>2 DEF CancelOrder
      <3>2. orders[o] \in OrderRow
        BY <2>2, RowCases DEF CancelOrder
      <3> QED
        BY <2>1, <2>2, <3>1, <3>2 DEF CancelOrder, TypeOK, HistoryTypes, history
    <2>3. CASE DeleteOrder(o)
      BY <2>3 DEF DeleteOrder, TypeOK, HistoryTypes, history
    <2> QED
      BY <1>3, <2>2, <2>3
  <1> QED
    BY <1>1, <1>2, <1>3


\* Every step keeps the types.
LEMMA TypeStep == TypeOK /\ HistoryTypes /\ [Next]_vars => (TypeOK /\ HistoryTypes)'
  <1> SUFFICES ASSUME TypeOK, HistoryTypes, [Next]_vars
               PROVE  TypeOK' /\ HistoryTypes'
    OBVIOUS
  <1>1. ASSUME NEW q \in Requests, Compute(q)
        PROVE  TypeOK' /\ HistoryTypes'
    BY <1>1, BeginComputeOutcome, ReadStockOutcome, ReadOnOrderOutcome, InsertOutcome,
       MarkOutcome DEF Compute
  <1>2. ASSUME NEW q \in Requests, ConvertMRP(q)
        PROVE  TypeOK' /\ HistoryTypes'
    BY <1>2, BeginConvertOutcome, CreateOrderOutcome, SaveOutcome DEF ConvertMRP
  <1>3. ASSUME NEW q \in Requests, Abort(q)
        PROVE  TypeOK' /\ HistoryTypes'
    BY <1>3, AbortOutcome
  <1>4. ASSUME Elsewhere
        PROVE  TypeOK' /\ HistoryTypes'
    BY <1>4, DemandTyped, ElsewhereTyped, IssueOutcome DEF Elsewhere
  <1>5. CASE UNCHANGED vars
    BY <1>5 DEF vars, core, history, TypeOK, HistoryTypes
  <1> QED
    BY <1>1, <1>2, <1>3, <1>4, <1>5 DEF Next

\* Rows and requests keep their types; a suggestion is never below 0.
THEOREM PlanningTypeOK == Spec => []TypeOK
  <1>1. Spec => [](TypeOK /\ HistoryTypes)
    BY InitTyped, TypeStep, PTL DEF Spec
  <1> QED
    BY <1>1, PTL

-----------------------------------------------------------------------------
(* 2. Demands *)

AtMark(q) == request[q].op = "compute" /\ request[q].step = "mark"
Summing(q, d) == request[q].op = "compute" /\ d \in request[q].summed

\* Whoever runs has summed every open demand that is not late, an open demand that has been
\* planned waits for a request that will mark it, and a request that is still reading has
\* summed nothing that was planned before.
Tracked(d) ==
  /\ demand[d] = Absent => planned[d] = 0 /\ \A q \in Requests : ~Summing(q, d)
  /\ demand[d].status = "OPEN" /\ d \notin late =>
       \A q \in Requests : request[q].op = "compute" => Summing(q, d)
  /\ demand[d].status = "OPEN" /\ planned[d] > 0 =>
       d \in again \/ \E q \in Requests : AtMark(q) /\ Summing(q, d)
  /\ \A q \in Requests : AtMark(q) /\ Summing(q, d) => planned[d] > 0
  /\ \A q \in Requests : Reading(q) /\ Summing(q, d) /\ planned[d] > 0 => d \in again
  /\ \A p, q \in Requests : p # q /\ Summing(p, d) /\ Summing(q, d) => d \in again
  /\ demand[d].status = "GENERATED" /\ d \notin late => planned[d] > 0
  /\ planned[d] > 1 => d \in again

\* A step that leaves a demand alone and starts or ends no computation.
LEMMA DemandApart ==
  ASSUME NEW d, Tracked(d),
         demand'[d] = demand[d], planned'[d] = planned[d],
         d \in late' <=> d \in late, d \in again => d \in again',
         \A q \in Requests : /\ request'[q].op = "compute" <=> request[q].op = "compute"
                             /\ request[q].op = "compute" =>
                                  /\ request'[q].step = request[q].step
                                  /\ request'[q].summed = request[q].summed
  PROVE  Tracked(d)'
  BY DEF Tracked, AtMark, Summing, Reading

\* A demand that appears has been planned by nobody.
LEMMA AppearTracked ==
  ASSUME TypeOK, NEW d \in Demands, Tracked(d), NEW x \in Demands, NEW form \in Forms,
         Appear(x, form)
  PROVE  Tracked(d)'
  <1>1. CASE x = d
    <2>1. /\ demand'[d].status = "OPEN" /\ planned[d] = 0 /\ demand'[d] # Absent
          /\ \A q \in Requests : ~Summing(q, d)
      BY <1>1 DEF Appear, Tracked, TypeOK, Absent
    <2>2. \/ \A q \in Requests : request[q].op # "compute"
          \/ d \in late'
      BY <1>1 DEF Appear, Doing
    <2>3. UNCHANGED <<planned, again, request>>
      BY DEF Appear
    <2> QED
      BY <2>1, <2>2, <2>3 DEF Tracked, AtMark, Summing, Reading
  <1>2. CASE x # d
    BY <1>2, DemandApart DEF Appear
  <1> QED
    BY <1>1, <1>2

\* Clients' edits keep every demand tracked.
LEMMA DemandTracked ==
  ASSUME TypeOK, NEW d \in Demands, Tracked(d), NEW x \in Demands,
         \/ \E form \in Forms : CreateDemand(x, form) \/ UpdateDemand(x, form)
         \/ DeleteDemand(x)
  PROVE  Tracked(d)'
  <1>1. CASE \E form \in Forms : Appear(x, form)
    BY <1>1, AppearTracked
  <1>2. CASE ~ \E form \in Forms : Appear(x, form)
    <2>1. /\ UNCHANGED <<request, history>>
          /\ \/ x # d /\ demand'[d] = demand[d]
             \/ demand'[d].status \in {"BLANK", "DELETED"}
      BY <1>2 DEF CreateDemand, UpdateDemand, DeleteDemand, Gone, TypeOK
    <2>2. CASE demand'[d] = demand[d]
      BY <2>1, <2>2, DemandApart DEF history
    <2>3. CASE demand'[d].status \in {"BLANK", "DELETED"}
      BY <2>1, <2>3 DEF Tracked, AtMark, Summing, Reading, history, Absent
    <2> QED
      BY <2>1, <2>2, <2>3
  <1> QED
    BY <1>1, <1>2

\* A computation that begins on demands another one sums counts them as planned again.
LEMMA BeginComputeTracked ==
  ASSUME TypeOK, HistoryTypes, NEW d \in Demands, Tracked(d), NEW q \in Requests, BeginCompute(q)
  PROVE  Tracked(d)'
  <1>1. /\ request[q] = Idle /\ UNCHANGED <<core, planned, late>>
        /\ again' = again \union
             (OpenDemands \intersect UNION {request[p].summed : p \in Doing("compute")})
        /\ request'[q] \in Reads /\ request'[q].summed = OpenDemands
        /\ \A p \in Requests \ {q} : request'[p] = request[p]
    BY BeginComputeOutcome
  <1>2. /\ request[q].op # "compute" /\ request'[q].op = "compute" /\ request'[q].step = "read"
        /\ request'[q].summed = OpenDemands
    BY <1>1 DEF Idle, Reads
  <1>3. ASSUME NEW p \in Requests, Summing(p, d), d \in OpenDemands
        PROVE  d \in again'
    BY <1>1, <1>3 DEF Summing, Doing
  <1>4. d \in again => d \in again'
    BY <1>1
  <1>5. demand' = demand /\ planned' = planned /\ late' = late
    BY <1>1 DEF core
  <1>6. d \in OpenDemands <=> demand[d].status = "OPEN"
    BY DEF OpenDemands
  <1>7. \A p \in Requests : p # q => request'[p] = request[p]
    BY <1>1
  <1>8. demand[d] = Absent => d \notin OpenDemands
    BY <1>6 DEF Absent
  <1> QED
    BY ONLY <1>2, <1>3, <1>4, <1>5, <1>6, <1>7, <1>8, Tracked(d)
    DEF Tracked, AtMark, Summing, Reading

\* The insert plans a demand it has summed, for the second time only if it is excused.
LEMMA InsertTracked ==
  ASSUME TypeOK, HistoryTypes, NEW d \in Demands, Tracked(d), NEW q \in Requests, InsertResults(q)
  PROVE  Tracked(d)'
  <1>1. /\ demand' = demand /\ late' = late /\ again' = again
        /\ request[q].op = "compute" /\ request[q].step = "read"
        /\ request'[q].op = "compute" /\ request'[q].step = "mark"
        /\ request'[q].summed = request[q].summed
        /\ \A p \in Requests : p # q => request'[p] = request[p]
    BY InsertOutcome DEF Reading, Marks
  <1>2. /\ planned[d] \in Nat
        /\ planned'[d] = IF d \in request[q].summed THEN planned[d] + 1 ELSE planned[d]
    BY InsertOutcome DEF HistoryTypes
  <1> QED
    BY ONLY <1>1, <1>2, Tracked(d), q \in Requests DEF Tracked, AtMark, Summing, Reading

\* The marking makes GENERATED what was planned, or appeared meanwhile.
LEMMA MarkTracked ==
  ASSUME TypeOK, HistoryTypes, NEW d \in Demands, Tracked(d), NEW q \in Requests, MarkGenerated(q)
  PROVE  Tracked(d)'
  <1>1. /\ planned' = planned /\ late' = late /\ again' = again
        /\ AtMark(q) /\ request'[q].op = "idle"
        /\ \A p \in Requests : p # q => request'[p] = request[p]
    BY MarkOutcome DEF AtMark, Idle, history
  <1>2. \/ demand[d].status = "OPEN" /\ demand'[d].status = "GENERATED"
        \/ demand[d].status # "OPEN" /\ demand'[d] = demand[d]
    BY MarkOutcome DEF OpenDemands
  <1>3. \A p \in Requests : request'[p].op = "compute" =>
                              p # q /\ request[p].op = "compute" /\ request'[p] = request[p]
    BY <1>1
  <1>4. CASE demand[d].status = "OPEN"
    <2>1. demand'[d].status = "GENERATED" /\ demand'[d] # Absent
      BY <1>2, <1>4 DEF Absent
    <2>2. d \notin late => planned[d] > 0
      BY <1>1, <1>4 DEF Tracked, AtMark
    <2> QED
      BY <1>1, <1>3, <2>1, <2>2 DEF Tracked, AtMark, Summing, Reading
  <1>5. CASE demand[d].status # "OPEN"
    BY <1>1, <1>2, <1>3, <1>5 DEF Tracked, AtMark, Summing, Reading
  <1> QED
    BY <1>4, <1>5

\* A computation that stops before it has marked what it summed is excused.
LEMMA AbortTracked ==
  ASSUME TypeOK, HistoryTypes, NEW d \in Demands, Tracked(d), NEW q \in Requests, Abort(q)
  PROVE  Tracked(d)'
  <1>1. /\ demand' = demand /\ planned' = planned /\ late' = late /\ request'[q].op = "idle"
        /\ \A p \in Requests : p # q => request'[p] = request[p]
    BY AbortOutcome DEF Idle, core
  <1>2. /\ AtMark(q) /\ Summing(q, d) => d \in again'
        /\ d \in again => d \in again'
    BY AbortOutcome DEF AtMark, Summing
  <1> QED
    BY <1>1, <1>2 DEF Tracked, AtMark, Summing, Reading

\* Every step keeps every demand tracked.
LEMMA TrackedStep ==
  ASSUME TypeOK, HistoryTypes, NEW d \in Demands, Tracked(d), [Next]_vars
  PROVE  Tracked(d)'
  <1>1. ASSUME NEW q \in Requests, NEW m \in Materials, ReadStock(q, m) \/ ReadOnOrder(q, m)
        PROVE  Tracked(d)'
    <2>1. /\ UNCHANGED <<core, history>> /\ Reading(q) /\ request'[q] \in Reads
          /\ request'[q].summed = request[q].summed
          /\ \A p \in Requests \ {q} : request'[p] = request[p]
      BY <1>1, ReadStockOutcome, ReadOnOrderOutcome
    <2>2. \A p \in Requests :
            /\ request'[p].op = request[p].op /\ request'[p].step = request[p].step
            /\ request'[p].summed = request[p].summed
      BY <2>1 DEF Reading, Reads
    <2> QED
      BY <2>1, <2>2, DemandApart DEF core, history
  <1>2. ASSUME NEW q \in Requests, Compute(q)
        PROVE  Tracked(d)'
    BY <1>1, <1>2, BeginComputeTracked, InsertTracked, MarkTracked DEF Compute
  <1>3. ASSUME NEW q \in Requests, ConvertMRP(q)
        PROVE  Tracked(d)'
    <2>1. /\ UNCHANGED <<demand, planned, late, again>>
          /\ \A p \in Requests \ {q} : request'[p] = request[p]
          /\ request[q].op # "compute" /\ request'[q].op # "compute"
      <3>1. CASE \E r \in Results : BeginConvert(q, r)
        <4>1. PICK r \in Results : BeginConvert(q, r)
          BY <3>1
        <4>2. /\ UNCHANGED <<core, planned, late, again, made>>
              /\ request[q] = Idle /\ request'[q] \in Conversions
              /\ \A p \in Requests \ {q} : request'[p] = request[p]
          BY <4>1, BeginConvertOutcome
        <4> QED
          BY <4>2 DEF Idle, Conversions, core
      <3>2. CASE CreateOrder(q)
        BY <3>2, CreateOrderOutcome DEF Conversions
      <3>3. CASE SaveConverted(q)
        BY <3>3, SaveOutcome DEF Conversions, Idle, history
      <3> QED
        BY <1>3, <3>1, <3>2, <3>3 DEF ConvertMRP
    <2> QED
      BY <2>1, DemandApart
  <1>4. ASSUME Elsewhere
        PROVE  Tracked(d)'
    <2>1. ASSUME NEW m \in Materials, IssueGoods(m)
          PROVE  Tracked(d)'
      <3>1. UNCHANGED <<demand, history>>
        BY <2>1, IssueOutcome
      <3>2. \A p \in Requests :
              \/ request'[p] = request[p]
              \/ /\ Reading(p) /\ request'[p] \in Reads /\ request'[p].summed = request[p].summed
        BY <2>1, IssueOutcome
      <3>3. \A p \in Requests :
              /\ request'[p].op = request[p].op /\ request'[p].step = request[p].step
              /\ request'[p].summed = request[p].summed
        BY <3>2 DEF Reading, Reads
      <3> QED
        BY <3>1, <3>3, DemandApart DEF history
    <2>2. ASSUME \/ \E r \in Results : DeleteMrp(r)
                 \/ \E o \in OrderIds : ReceiveGoods(o) \/ CancelOrder(o) \/ DeleteOrder(o)
          PROVE  Tracked(d)'
      <3>1. UNCHANGED <<demand, request, history>>
        BY <2>2, ElsewhereTyped
      <3> QED
        BY <3>1, DemandApart DEF history
    <2> QED
      BY <1>4, <2>1, <2>2, DemandTracked DEF Elsewhere
  <1>5. CASE UNCHANGED vars
    BY <1>5, DemandApart DEF vars, core, history
  <1> QED
    BY <1>2, <1>3, <1>4, <1>5, AbortTracked DEF Next

\* A demand marked GENERATED has been planned unless it came while a computation was
\* running, and none is planned twice unless computations overlapped or one stopped before
\* it marked its demands.
THEOREM DemandsPlannedOnce == Spec => []PlannedOnce
  <1> DEFINE Inv == TypeOK /\ HistoryTypes /\ \A d \in Demands : Tracked(d)
  <1>1. Init => Inv
    <2>1. Init => \A d \in Demands : Tracked(d)
      BY DEF Init, Tracked, Summing, AtMark, Reading, Idle, Absent
    <2> QED
      BY <2>1, InitTyped
  <1>2. Inv /\ [Next]_vars => Inv'
    BY TypeStep, TrackedStep
  <1>3. Inv => PlannedOnce
    BY DEF PlannedOnce, Tracked
  <1> QED
    BY <1>1, <1>2, <1>3, PTL DEF Spec


\* What a request has read of the stock of a material, whose orders it reads next, is there
\* or has left since.
ReadInv ==
  \A q \in Requests, m \in Materials :
    Reading(q) /\ m \in HalfRead(q) => request[q].current[m] <= stock[m] + request[q].spent[m]

\* A request whose record stays, while no stock falls.
LEMMA ReadApart ==
  ASSUME ReadInv, TypeOK, NEW q \in Requests, request'[q] = request[q],
         NEW m \in Materials, stock'[m] \in Int, stock'[m] >= stock[m],
         Reading(q)', m \in HalfRead(q)'
  PROVE  request'[q].current[m] <= stock'[m] + request'[q].spent[m]
  <1>1. Reading(q) /\ m \in HalfRead(q)
    BY DEF Reading, HalfRead, ToPlan
  <1>2. request[q] \in Reads /\ stock[m] \in Int
    BY <1>1, RequestCases DEF Reading, TypeOK
  <1>3. request[q].current[m] \in Int /\ request[q].spent[m] \in Int
    BY <1>2 DEF Reads, Unread
  <1>4. request[q].current[m] <= stock[m] + request[q].spent[m]
    BY <1>1 DEF ReadInv
  <1> QED
    BY <1>2, <1>3, <1>4

\* A read of the stock starts the account of what is issued since.
LEMMA ReadStockKeeps ==
  ASSUME TypeOK, HistoryTypes, ReadInv, NEW x \in Requests, NEW n \in Materials, ReadStock(x, n)
  PROVE  ReadInv'
  <1>1. /\ stock' = stock /\ Reading(x) /\ request'[x].gross = request[x].gross
        /\ request'[x].onOrder = request[x].onOrder
        /\ request'[x].current = [request[x].current EXCEPT ![n] = stock[n]]
        /\ request'[x].spent = [request[x].spent EXCEPT ![n] = 0]
        /\ \A p \in Requests \ {x} : request'[p] = request[p]
    BY ReadStockOutcome DEF core
  <1>2. request[x] \in Reads
    BY <1>1, RequestCases DEF Reading
  <1>3. ASSUME NEW m \in Materials, m \in HalfRead(x)'
        PROVE  request'[x].current[m] <= stock'[m] + request'[x].spent[m]
    <2>1. stock[m] \in Int
      BY DEF TypeOK
    <2>2. CASE m = n
      BY <1>1, <1>2, <2>1, <2>2 DEF Reads
    <2>3. CASE m # n
      <3>1. m \in HalfRead(x)
        BY <1>1, <1>2, <1>3, <2>3 DEF HalfRead, ToPlan, Reads
      <3> QED
        BY <3>1 DEF ReadStock
    <2> QED
      BY <2>2, <2>3
  <1>4. \A m \in Materials : stock'[m] \in Int /\ stock'[m] >= stock[m]
    BY <1>1 DEF TypeOK
  <1>5. ASSUME NEW q \in Requests, NEW m \in Materials, Reading(q)', m \in HalfRead(q)'
        PROVE  request'[q].current[m] <= stock'[m] + request'[q].spent[m]
    <2>1. CASE q = x
      BY <1>3, <1>5, <2>1
    <2>2. CASE q # x
      <3>1. request'[q] = request[q]
        BY <1>1, <2>2
      <3> QED
        BY <1>4, <1>5, <3>1, ReadApart
    <2> QED
      BY <2>1, <2>2
  <1> QED
    BY <1>5 DEF ReadInv

\* A read of what is on order closes it.
LEMMA ReadOnOrderKeeps ==
  ASSUME TypeOK, HistoryTypes, ReadInv, NEW x \in Requests, NEW n \in Materials, ReadOnOrder(x, n)
  PROVE  ReadInv'
  <1>1. /\ stock' = stock /\ Reading(x) /\ request'[x].gross = request[x].gross
        /\ request'[x].current = request[x].current /\ request'[x].spent = request[x].spent
        /\ request'[x].onOrder = [request[x].onOrder EXCEPT ![n] = OnOrder(n)]
        /\ n \in HalfRead(x) /\ \A p \in Requests \ {x} : request'[p] = request[p]
    BY ReadOnOrderOutcome DEF core
  <1>2. request[x] \in Reads
    BY <1>1, RequestCases DEF Reading
  <1>3. ASSUME NEW m \in Materials, m \in HalfRead(x)'
        PROVE  request'[x].current[m] <= stock'[m] + request'[x].spent[m]
    <2>1. m \in HalfRead(x)
      BY <1>1, <1>2, <1>3 DEF HalfRead, ToPlan, Reads
    <2> QED
      BY <1>1, <2>1 DEF ReadInv
  <1>4. \A m \in Materials : stock'[m] \in Int /\ stock'[m] >= stock[m]
    BY <1>1 DEF TypeOK
  <1>5. ASSUME NEW q \in Requests, NEW m \in Materials, Reading(q)', m \in HalfRead(q)'
        PROVE  request'[q].current[m] <= stock'[m] + request'[q].spent[m]
    <2>1. CASE q = x
      BY <1>3, <1>5, <2>1
    <2>2. CASE q # x
      <3>1. request'[q] = request[q]
        BY <1>1, <2>2
      <3> QED
        BY <1>4, <1>5, <3>1, ReadApart
    <2> QED
      BY <2>1, <2>2
  <1> QED
    BY <1>5 DEF ReadInv

\* What leaves the stock is noted by every request that counts on it.
LEMMA IssueKeeps ==
  ASSUME TypeOK, HistoryTypes, ReadInv, NEW n \in Materials, IssueGoods(n)
  PROVE  ReadInv'
  <1>1. stock' = [stock EXCEPT ![n] = @ - 1] /\ stock \in [Materials -> Nat]
    BY IssueOutcome DEF TypeOK
  <1>2. ASSUME NEW q \in Requests, NEW m \in Materials, Reading(q)', m \in HalfRead(q)'
        PROVE  request'[q].current[m] <= stock'[m] + request'[q].spent[m]
    <2>1. CASE request'[q] = request[q] /\ ~(Reading(q) /\ n \in HalfRead(q))
      <3>1. Reading(q) /\ m \in HalfRead(q)
        BY <1>2, <2>1 DEF Reading, HalfRead, ToPlan
      <3>2. m # n
        BY <2>1, <3>1
      <3> QED
        BY <1>1, <1>2, <2>1, <3>2, ReadApart
    <2>2. CASE /\ Reading(q) /\ n \in HalfRead(q)
               /\ request'[q].gross = request[q].gross
               /\ request'[q].current = request[q].current
               /\ request'[q].onOrder = request[q].onOrder
               /\ request'[q].spent = [request[q].spent EXCEPT ![n] = @ + 1]
      <3>1. request[q] \in Reads
        BY <2>2, RequestCases DEF Reading
      <3>2. m \in HalfRead(q)
        BY <1>2, <2>2 DEF HalfRead, ToPlan
      <3>3. request[q].current[m] <= stock[m] + request[q].spent[m]
        BY <2>2, <3>2 DEF ReadInv
      <3>4. request[q].current[m] \in Int /\ request[q].spent[m] \in Nat /\ stock[m] \in Nat
        BY <1>1, <3>1 DEF Reads, Unread
      <3>5. \/ m = n /\ request'[q].spent[m] = request[q].spent[m] + 1 /\ stock'[m] = stock[m] - 1
            \/ request'[q].spent[m] = request[q].spent[m] /\ stock'[m] = stock[m]
        BY <1>1, <2>2, <3>1 DEF Reads
      <3> QED
        BY <2>2, <3>3, <3>4, <3>5
    <2> QED
      BY <2>1, <2>2, IssueOutcome
  <1> QED
    BY <1>2 DEF ReadInv

\* A step that moves one request, not to a half read material, while no stock falls.
LEMMA OneMovesKeeps ==
  ASSUME TypeOK, ReadInv, NEW x \in Requests, \A p \in Requests \ {x} : request'[p] = request[p],
         UNCHANGED stock,
         Reading(x)' => \A m \in Materials : request'[x].current[m] = Unread
  PROVE  ReadInv'
  <1>1. \A m \in Materials : stock'[m] \in Int /\ stock'[m] >= stock[m]
    BY DEF TypeOK
  <1>2. ASSUME NEW q \in Requests, NEW m \in Materials, Reading(q)', m \in HalfRead(q)'
        PROVE  request'[q].current[m] <= stock'[m] + request'[q].spent[m]
    <2>1. q # x
      BY <1>2 DEF HalfRead
    <2>2. request'[q] = request[q]
      BY <2>1
    <2> QED
      BY <1>1, <1>2, <2>2, ReadApart
  <1> QED
    BY <1>2 DEF ReadInv

\* A step in which no request moves and no stock falls.
LEMMA NoneMovesKeeps ==
  ASSUME TypeOK, ReadInv, UNCHANGED request,
         \A m \in Materials : stock'[m] \in Int /\ stock'[m] >= stock[m]
  PROVE  ReadInv'
  <1>1. ASSUME NEW q \in Requests, NEW m \in Materials, Reading(q)', m \in HalfRead(q)'
        PROVE  request'[q].current[m] <= stock'[m] + request'[q].spent[m]
    <2>1. request'[q] = request[q]
      OBVIOUS
    <2> QED
      BY <1>1, <2>1, ReadApart
  <1> QED
    BY <1>1 DEF ReadInv

\* Receipts, cancellations and deletions of orders leave the account right.
LEMMA ElsewhereKeeps ==
  ASSUME TypeOK, HistoryTypes, ReadInv, Elsewhere
  PROVE  ReadInv'
  <1>1. ASSUME UNCHANGED <<stock, request>>
        PROVE  ReadInv'
    <2>1. \A m \in Materials : stock'[m] \in Int /\ stock'[m] >= stock[m]
      BY <1>1 DEF TypeOK
    <2> QED
      BY <1>1, <2>1, NoneMovesKeeps
  <1>2. ASSUME \/ \E d \in Demands, form \in Forms : CreateDemand(d, form) \/ UpdateDemand(d, form)
               \/ \E d \in Demands : DeleteDemand(d)
               \/ \E r \in Results : DeleteMrp(r)
               \/ \E o \in OrderIds : CancelOrder(o) \/ DeleteOrder(o)
        PROVE  ReadInv'
    BY <1>1, <1>2 DEF CreateDemand, UpdateDemand, DeleteDemand, Appear, DeleteMrp, CancelOrder,
                      DeleteOrder
  <1>3. ASSUME NEW o \in OrderIds, ReceiveGoods(o)
        PROVE  ReadInv'
    <2>1. UNCHANGED request /\ stock' = [stock EXCEPT ![orders[o].mat] = @ + 1]
      BY <1>3 DEF ReceiveGoods
    <2>2. \A m \in Materials : stock'[m] \in Int /\ stock'[m] >= stock[m]
      BY <2>1 DEF TypeOK
    <2> QED
      BY <2>1, <2>2, NoneMovesKeeps
  <1> QED
    BY <1>2, <1>3, IssueKeeps DEF Elsewhere

\* Every step keeps the accounts of all computations right.
LEMMA ReadStep ==
  ASSUME TypeOK, HistoryTypes, ReadInv, [Next]_vars
  PROVE  ReadInv'
  <1>1. ASSUME NEW q \in Requests, BeginCompute(q)
        PROVE  ReadInv'
    BY <1>1, BeginComputeOutcome, OneMovesKeeps DEF core
  <1>2. ASSUME NEW q \in Requests,
               \/ InsertResults(q) \/ MarkGenerated(q) \/ CreateOrder(q)
               \/ SaveConverted(q) \/ Abort(q) \/ \E r \in Results : BeginConvert(q, r)
        PROVE  ReadInv'
    <2>1. /\ UNCHANGED stock /\ request'[q] \in Marks \union Conversions \union {Idle}
          /\ \A p \in Requests \ {q} : request'[p] = request[p]
      <3>1. CASE \E r \in Results : BeginConvert(q, r)
        BY <3>1, BeginConvertOutcome DEF core
      <3>2. CASE Abort(q)
        BY <3>2, AbortOutcome DEF core
      <3> QED
        BY <1>2, <3>1, <3>2, InsertOutcome, MarkOutcome, CreateOrderOutcome, SaveOutcome
    <2>2. ~Reading(q)'
      BY <2>1 DEF Reading, Marks, Conversions, Idle
    <2> QED
      BY <2>1, <2>2, OneMovesKeeps
  <1>3. CASE UNCHANGED vars
    <2>1. \A m \in Materials : stock'[m] \in Int /\ stock'[m] >= stock[m]
      BY <1>3 DEF TypeOK, vars, core
    <2> QED
      BY <1>3, <2>1, NoneMovesKeeps DEF vars
  <1> QED
    BY <1>1, <1>2, <1>3, ReadStockKeeps, ReadOnOrderKeeps, ElsewhereKeeps
    DEF Next, Compute, ConvertMRP

\* Only the second of its two reads takes a material out of those half read.
LEMMA SecondRead ==
  ASSUME TypeOK, HistoryTypes, [Next]_vars, NEW q \in Requests, NEW m \in Materials,
         Reading(q), m \in HalfRead(q), Reading(q)', m \notin HalfRead(q)'
  PROVE  ReadOnOrder(q, m)
  <1>1. request[q].op = "compute" /\ request[q].step = "read" /\ request[q] # Idle
        /\ request'[q].op = "compute" /\ request'[q].step = "read" /\ request'[q] # Idle
    BY DEF Reading, Idle
  <1>2. ~ /\ request'[q].gross = request[q].gross
          /\ request'[q].current = request[q].current
          /\ request'[q].onOrder = request[q].onOrder
    BY DEF HalfRead, ToPlan
  <1>3. ASSUME NEW p \in Requests, \A x \in Requests \ {p} : request'[x] = request[x]
        PROVE  p = q
    BY <1>2, <1>3
  <1>4. ASSUME NEW p \in Requests, NEW n \in Materials, ReadStock(p, n)
        PROVE  FALSE
    <2>1. p = q
      BY <1>3, <1>4, ReadStockOutcome
    <2> QED
      BY <1>4, <2>1 DEF ReadStock
  <1>5. ASSUME NEW p \in Requests, NEW n \in Materials, ReadOnOrder(p, n)
        PROVE  ReadOnOrder(q, m)
    <2>1. p = q /\ request[q] \in Reads
      BY <1>1, <1>3, <1>5, ReadOnOrderOutcome, RequestCases
    <2>2. /\ request'[q].gross = request[q].gross /\ request'[q].current = request[q].current
          /\ request'[q].onOrder = [request[q].onOrder EXCEPT ![n] = OnOrder(n)]
      BY <1>5, <2>1, ReadOnOrderOutcome
    <2>3. n = m
      BY <2>1, <2>2 DEF HalfRead, ToPlan, Reads
    <2> QED
      BY <1>5, <2>1, <2>3
  <1>6. ASSUME NEW p \in Requests,
               \/ BeginCompute(p) \/ InsertResults(p) \/ MarkGenerated(p) \/ ConvertMRP(p)
               \/ Abort(p)
        PROVE  FALSE
    <2>1. \A x \in Requests \ {p} : request'[x] = request[x]
      <3>1. CASE ConvertMRP(p)
        BY <3>1, BeginConvertOutcome, CreateOrderOutcome, SaveOutcome DEF ConvertMRP
      <3> QED
        BY <1>6, <3>1, BeginComputeOutcome, InsertOutcome, MarkOutcome, AbortOutcome
    <2>2. p = q
      BY <1>3, <2>1
    <2>3. CASE ConvertMRP(q)
      BY <1>1, <2>3 DEF ConvertMRP, BeginConvert, CreateOrder, SaveConverted
    <2>4. CASE InsertResults(q)
      BY <1>1, <2>4, InsertOutcome DEF Marks
    <2>5. CASE BeginCompute(q) \/ MarkGenerated(q) \/ Abort(q)
      BY <1>1, <2>5, BeginComputeOutcome, MarkOutcome, AbortOutcome
    <2> QED
      BY <1>6, <2>2, <2>3, <2>4, <2>5
  <1>7. ASSUME Elsewhere \/ UNCHANGED vars
        PROVE  FALSE
    <2>1. request'[q] # request[q]
      BY <1>2
    <2>2. ASSUME NEW n \in Materials, IssueGoods(n)
          PROVE  FALSE
      BY <1>2, <2>1, <2>2, IssueOutcome
    <2> QED
      BY <1>7, <2>1, <2>2
      DEF Elsewhere, CreateDemand, UpdateDemand, DeleteDemand, Appear, DeleteMrp, ReceiveGoods,
          CancelOrder, DeleteOrder, vars
  <1> QED
    BY <1>4, <1>5, <1>6, <1>7 DEF Next, Compute

\* Goods received between the two reads of a material are not counted twice.
THEOREM SupplyNotCountedTwice == Spec => SupplyCountedOnce
  <1> DEFINE Inv == TypeOK /\ HistoryTypes /\ ReadInv
             Step == \A q \in Requests, m \in Materials :
                       Reading(q) /\ m \in HalfRead(q) /\ Reading(q)' /\ m \notin HalfRead(q)' =>
                         request'[q].current[m] + request'[q].onOrder[m]
                           <= stock[m] + Outstanding(m) + request[q].spent[m]
  <1>1. Init => Inv
    BY InitTyped DEF Init, ReadInv, Reading, Idle
  <1>2. Inv /\ [Next]_vars => Inv'
    BY TypeStep, ReadStep
  <1>3. Inv /\ [Next]_vars => Step
    <2> SUFFICES ASSUME TypeOK, HistoryTypes, ReadInv, [Next]_vars,
                        NEW q \in Requests, NEW m \in Materials,
                        Reading(q), m \in HalfRead(q), Reading(q)', m \notin HalfRead(q)'
                 PROVE  request'[q].current[m] + request'[q].onOrder[m]
                          <= stock[m] + Outstanding(m) + request[q].spent[m]
      OBVIOUS
    <2>1. ReadOnOrder(q, m)
      BY SecondRead
    <2>2. request[q] \in Reads
      BY RequestCases DEF Reading
    <2>3. request'[q].current = request[q].current /\ request'[q].onOrder[m] = OnOrder(m)
      <3>1. /\ request'[q].current = request[q].current
            /\ request'[q].onOrder = [request[q].onOrder EXCEPT ![m] = OnOrder(m)]
        BY <2>1, ReadOnOrderOutcome
      <3>2. m \in DOMAIN request[q].onOrder
        BY <2>2 DEF Reads
      <3> QED
        BY <3>1, <3>2
    <2>4. OnOrder(m) = Outstanding(m) /\ OnOrder(m) \in Int
      BY OnOrderType DEF OnOrder, Outstanding, OrdersOf
    <2>5. request[q].current[m] <= stock[m] + request[q].spent[m]
      BY DEF ReadInv
    <2>6. request[q].current[m] \in Int /\ request[q].spent[m] \in Int /\ stock[m] \in Int
      BY <2>2 DEF Reads, Unread, TypeOK
    <2> QED
      BY <2>3, <2>4, <2>5, <2>6
  <1>4. Spec => []Inv
    BY <1>1, <1>2, PTL DEF Spec
  <1> QED
    BY <1>3, <1>4, PTL DEF Spec, SupplyCountedOnce


-----------------------------------------------------------------------------
(* 3. Results *)

Converting(q, r) == request[q].op = "convert" /\ request[q].id = r

\* The ids used are the first n.
Contiguous == \E n \in 0..MaxResults : \A r \in Results : results[r] # Absent <=> r <= n

\* A pending result with an order waits for the request that has yet to save it, and no
\* second request is at it without an excuse.
Settled(r) ==
  /\ results[r] = Absent => made[r] = 0 /\ \A q \in Requests : ~Converting(q, r)
  /\ \A q \in Requests : Converting(q, r) /\ request[q].step = "save" => made[r] > 0
  /\ \A q \in Requests : Converting(q, r) /\ request[q].step = "create" /\ made[r] > 0 =>
       r \in excused
  /\ \A p, q \in Requests : p # q /\ Converting(p, r) /\ Converting(q, r) => r \in excused
  /\ results[r].status = "PENDING" /\ made[r] > 0 =>
       r \in excused \/ \E q \in Requests : Converting(q, r) /\ request[q].step = "save"
  /\ results[r].status = "CONVERTED" => made[r] > 0
  /\ made[r] > 1 => r \in excused

\* The next id is the first free one.
LEMMA InsertedCount ==
  ASSUME NEW n \in 0..MaxResults, \A r \in Results : results[r] # Absent <=> r <= n,
         DOMAIN results = Results
  PROVE  NextId(results) = n + 1
  <1>1. MaxResults \in Nat
    BY PlanningAssumption
  <1>2. {r \in DOMAIN results : results[r] # Absent} = 1..n
    BY <1>1 DEF Results
  <1>3. Cardinality(1..n) = n
    <2>1. 1 \in Int /\ n \in Int /\ (IF 1 > n THEN 0 ELSE n - 1 + 1) = n
      BY <1>1
    <2>2. Cardinality(1..n) = IF 1 > n THEN 0 ELSE n - 1 + 1
      BY <2>1, FS_Interval, Zenon
    <2> QED
      BY <2>1, <2>2
  <1> QED
    BY <1>2, <1>3 DEF NextId, Inserted

\* New rows take the free ids that follow.
LEMMA InsertRows ==
  ASSUME TypeOK, HistoryTypes, Contiguous, NEW q \in Requests, InsertResults(q)
  PROVE  /\ Contiguous'
         /\ \A r \in Results : \/ results'[r] = results[r]
                               \/ /\ results[r] = Absent /\ results'[r] # Absent
                                  /\ results'[r].status = "PENDING"
  <1>1. PICK n \in 0..MaxResults : \A r \in Results : results[r] # Absent <=> r <= n
    BY DEF Contiguous
  <1>2. MaxResults \in Nat /\ n \in Nat /\ n <= MaxResults
    BY PlanningAssumption
  <1>3. NextId(results) = n + 1
    BY <1>1, InsertedCount DEF TypeOK
  <1>4. PICK k \in Nat :
          LET ids == NextId(results)..(NextId(results) + k - 1) IN
          /\ ids \subseteq Results
          /\ \A r \in Results :
               IF r \in ids THEN results'[r] \in ResultRow /\ results'[r].status = "PENDING"
               ELSE results'[r] = results[r]
    BY InsertOutcome
  <1>5. /\ (n + 1)..(n + k) \subseteq Results
        /\ \A r \in Results :
             IF r \in (n + 1)..(n + k)
             THEN results'[r] \in ResultRow /\ results'[r].status = "PENDING"
             ELSE results'[r] = results[r]
    <2>1. n + 1 + k - 1 = n + k
      BY <1>2, <1>4
    <2> QED
      BY <1>3, <1>4, <2>1
  <1>6. n + k \in 0..MaxResults
    <2>1. k > 0 => n + k \in (n + 1)..(n + k)
      BY <1>2, <1>4
    <2> QED
      BY <1>2, <1>4, <1>5, <2>1 DEF Results
  <1>7. \A r \in Results : r \in Nat /\ r >= 1
    BY <1>2 DEF Results
  <1>8. \A row \in ResultRow : row # Absent
    BY DEF ResultRow, Absent
  <1>9. \A r \in Results : results'[r] # Absent <=> r <= n + k
    BY <1>1, <1>2, <1>4, <1>5, <1>7, <1>8
  <1>10. \A r \in Results : r \in (n + 1)..(n + k) => results[r] = Absent
    BY <1>1, <1>2, <1>7
  <1> QED
    BY <1>5, <1>6, <1>8, <1>9, <1>10 DEF Contiguous

\* A step that leaves a result and the requests that convert it alone.
LEMMA ResultApart ==
  ASSUME NEW r, Settled(r), made'[r] = made[r], r \in excused => r \in excused',
         \/ results'[r] = results[r]
         \/ results[r] = Absent /\ results'[r] # Absent /\ results'[r].status = "PENDING"
         \/ results'[r].status = "DELETED",
         \A q \in Requests : /\ request'[q].op = "convert" <=> request[q].op = "convert"
                             /\ request[q].op = "convert" =>
                                  /\ request'[q].id = request[q].id
                                  /\ request'[q].step = request[q].step
  PROVE  Settled(r)'
  <1>1. CASE results'[r] = results[r]
    BY <1>1 DEF Settled, Converting
  <1>2. CASE results[r] = Absent /\ results'[r] # Absent /\ results'[r].status = "PENDING"
    BY <1>2 DEF Settled, Converting
  <1>3. CASE results'[r].status = "DELETED"
    <2>1. results'[r] # Absent
      BY <1>3 DEF Absent
    <2> QED
      BY <1>3, <2>1 DEF Settled, Converting
  <1> QED
    BY <1>1, <1>2, <1>3

\* A conversion that begins while another works on the row excuses it.
LEMMA BeginConvertSettled ==
  ASSUME TypeOK, HistoryTypes, NEW r \in Results, Settled(r), NEW q \in Requests,
         NEW x \in Results, BeginConvert(q, x)
  PROVE  Settled(r)'
  <1>1. /\ UNCHANGED <<core, planned, late, again, made>>
        /\ request[q] = Idle /\ results[x] \in ResultRow /\ results[x].status = "PENDING"
        /\ request'[q] = [op |-> "convert", step |-> "create", id |-> x, row |-> results[x]]
        /\ \A p \in Requests \ {q} : request'[p] = request[p]
        /\ excused' = IF ConvertingNow(x) THEN excused \union {x} ELSE excused
    BY BeginConvertOutcome
  <1>2. /\ results' = results /\ made' = made /\ request[q].op = "idle"
        /\ results[x].status = "PENDING" /\ results[x] # Absent
        /\ request'[q].op = "convert" /\ request'[q].step = "create" /\ request'[q].id = x
        /\ \A p \in Requests : p # q => request'[p] = request[p]
        /\ r \in excused => r \in excused'
    BY <1>1 DEF Idle, core, Absent
  <1>3. \A p \in Requests : Converting(p, x) => x \in excused'
    BY <1>1 DEF ConvertingNow, Converting, Doing
  <1> QED
    BY <1>2, <1>3 DEF Settled, Converting

\* An order is made for a row that had none, or is excused.
LEMMA CreateOrderSettled ==
  ASSUME TypeOK, HistoryTypes, NEW r \in Results, Settled(r), NEW q \in Requests, CreateOrder(q)
  PROVE  Settled(r)'
  <1>1. /\ results' = results /\ excused' = excused
        /\ request[q].op = "convert" /\ request[q].step = "create" /\ request[q].id \in Results
        /\ request'[q].op = "convert" /\ request'[q].step = "save"
        /\ request'[q].id = request[q].id
        /\ \A p \in Requests : p # q => request'[p] = request[p]
    BY CreateOrderOutcome DEF Conversions
  <1>2. /\ made[r] \in Nat
        /\ made'[r] = IF request[q].id = r THEN made[r] + 1 ELSE made[r]
    BY <1>1, CreateOrderOutcome DEF HistoryTypes
  <1>3. \A p \in Requests : Converting(p, r) => request[p].step \in {"create", "save"}
    BY RequestCases DEF Converting, Conversions
  <1>4. CASE request[q].id = r
    BY <1>1, <1>2, <1>3, <1>4 DEF Settled, Converting
  <1>5. CASE request[q].id # r
    BY <1>1, <1>2, <1>5 DEF Settled, Converting
  <1> QED
    BY <1>4, <1>5

\* A row saved as CONVERTED has its order.
LEMMA SaveSettled ==
  ASSUME TypeOK, HistoryTypes, NEW r \in Results, Settled(r), NEW q \in Requests, SaveConverted(q)
  PROVE  Settled(r)'
  <1>1. /\ made' = made /\ excused' = excused
        /\ request[q].op = "convert" /\ request[q].step = "save" /\ request'[q].op = "idle"
        /\ \A p \in Requests : p # q => request'[p] = request[p]
    BY SaveOutcome DEF Conversions, Idle, history
  <1>2. CASE request[q].id = r
    <2>1. results'[r].status = "CONVERTED" /\ results'[r] # Absent
      BY <1>2, SaveOutcome DEF Absent
    <2> QED
      BY <1>1, <1>2, <2>1 DEF Settled, Converting
  <1>3. CASE request[q].id # r
    <2>1. results'[r] = results[r]
      BY <1>3, SaveOutcome
    <2> QED
      BY <1>1, <1>3, <2>1 DEF Settled, Converting
  <1> QED
    BY <1>2, <1>3

\* A conversion that stops between the order and the result is excused.
LEMMA AbortSettled ==
  ASSUME TypeOK, HistoryTypes, NEW r \in Results, Settled(r), NEW q \in Requests, Abort(q)
  PROVE  Settled(r)'
  <1>1. /\ results' = results /\ made' = made /\ request'[q].op = "idle"
        /\ \A p \in Requests : p # q => request'[p] = request[p]
        /\ r \in excused => r \in excused'
        /\ Converting(q, r) /\ request[q].step = "save" => r \in excused'
    BY AbortOutcome DEF Idle, core, Converting
  <1> QED
    BY <1>1 DEF Settled, Converting

\* Every step keeps all rows of suggestions settled and without gaps.
LEMMA ResultStep ==
  ASSUME TypeOK, HistoryTypes, Contiguous, \A r \in Results : Settled(r), [Next]_vars
  PROVE  Contiguous' /\ \A r \in Results : Settled(r)'
  <1>1. ASSUME UNCHANGED results, UNCHANGED <<made, excused>>,
               \A q \in Requests : /\ request'[q].op = "convert" <=> request[q].op = "convert"
                                   /\ request[q].op = "convert" => request'[q] = request[q]
        PROVE  Contiguous' /\ \A r \in Results : Settled(r)'
    BY <1>1, ResultApart DEF Contiguous
  <1>2. ASSUME NEW q \in Requests,
               \/ BeginCompute(q) \/ MarkGenerated(q)
               \/ \E m \in Materials : ReadStock(q, m) \/ ReadOnOrder(q, m)
        PROVE  Contiguous' /\ \A r \in Results : Settled(r)'
    <2>1. /\ UNCHANGED <<results, made, excused>>
          /\ request[q] = Idle \/ request[q].op = "compute"
          /\ request'[q] \in Reads \union {Idle}
          /\ \A p \in Requests \ {q} : request'[p] = request[p]
      <3>1. CASE \E m \in Materials : ReadStock(q, m) \/ ReadOnOrder(q, m)
        <4>1. PICK m \in Materials : ReadStock(q, m) \/ ReadOnOrder(q, m)
          BY <3>1
        <4> QED
          BY <4>1, ReadStockOutcome, ReadOnOrderOutcome DEF Reading, core, history
      <3>2. CASE BeginCompute(q)
        BY <3>2, BeginComputeOutcome DEF core
      <3>3. CASE MarkGenerated(q)
        BY <3>3, MarkOutcome DEF history
      <3> QED
        BY <1>2, <3>1, <3>2, <3>3
    <2>2. request[q].op # "convert" /\ request'[q].op # "convert"
      BY <2>1 DEF Idle, Reads
    <2> QED
      BY <1>1, <2>1, <2>2
  <1>3. ASSUME NEW q \in Requests, InsertResults(q)
        PROVE  Contiguous' /\ \A r \in Results : Settled(r)'
    <2>1. /\ UNCHANGED <<made, excused>> /\ request[q].op = "compute" /\ request'[q].op = "compute"
          /\ \A p \in Requests \ {q} : request'[p] = request[p]
      BY <1>3, InsertOutcome DEF Reading, Marks
    <2>2. \A p \in Requests : /\ request'[p].op = "convert" <=> request[p].op = "convert"
                              /\ request[p].op = "convert" => request'[p] = request[p]
      BY <2>1
    <2> QED
      BY <1>3, <2>1, <2>2, InsertRows, ResultApart
  <1>4. ASSUME NEW q \in Requests, ConvertMRP(q) \/ Abort(q)
        PROVE  Contiguous' /\ \A r \in Results : Settled(r)'
    <2>1. \A r \in Results : results'[r] # Absent <=> results[r] # Absent
      <3>1. CASE Abort(q)
        BY <3>1, AbortOutcome DEF core
      <3>2. CASE \E r \in Results : BeginConvert(q, r)
        BY <3>2 DEF BeginConvert, core
      <3>3. CASE CreateOrder(q)
        BY <3>3, CreateOrderOutcome
      <3>4. CASE SaveConverted(q)
        <4>1. results[request[q].id] # Absent
          BY <3>4, SaveOutcome DEF Settled, Converting, Conversions
        <4>2. results'[request[q].id] # Absent
          BY <3>4, SaveOutcome DEF Absent
        <4> QED
          BY <3>4, <4>1, <4>2, SaveOutcome
      <3> QED
        BY <1>4, <3>1, <3>2, <3>3, <3>4 DEF ConvertMRP
    <2>2. Contiguous'
      BY <2>1 DEF Contiguous
    <2> QED
      BY <1>4, <2>2, BeginConvertSettled, CreateOrderSettled, SaveSettled, AbortSettled
      DEF ConvertMRP
  <1>5. ASSUME NEW x \in Results, DeleteMrp(x)
        PROVE  Contiguous' /\ \A r \in Results : Settled(r)'
    <2>1. /\ UNCHANGED <<request, made, excused>> /\ results[x] # Absent
          /\ results' = [results EXCEPT ![x] = Gone]
      BY <1>5 DEF DeleteMrp, history
    <2>2. \A r \in Results : \/ results'[r] = results[r]
                             \/ results'[r].status = "DELETED"
      BY <2>1 DEF TypeOK, Gone
    <2>3. \A r \in Results : results'[r] # Absent <=> results[r] # Absent
      BY <2>1 DEF TypeOK, Gone, Absent
    <2> QED
      BY <2>1, <2>2, <2>3, ResultApart DEF Contiguous
  <1>6. ASSUME NEW m \in Materials, IssueGoods(m)
        PROVE  Contiguous' /\ \A r \in Results : Settled(r)'
    <2>1. UNCHANGED <<results, made, excused>>
      BY <1>6, IssueOutcome DEF history
    <2>2. \A p \in Requests :
            \/ request'[p] = request[p]
            \/ /\ Reading(p) /\ request'[p] \in Reads /\ request'[p].summed = request[p].summed
      BY <1>6, IssueOutcome
    <2>3. \A p \in Requests : /\ request'[p].op = "convert" <=> request[p].op = "convert"
                              /\ request[p].op = "convert" => request'[p] = request[p]
      BY <2>2 DEF Reading, Reads
    <2> QED
      BY <1>1, <2>1, <2>3
  <1>7. ASSUME \/ \E d \in Demands, form \in Forms : CreateDemand(d, form) \/ UpdateDemand(d, form)
               \/ \E d \in Demands : DeleteDemand(d)
               \/ \E o \in OrderIds : ReceiveGoods(o) \/ CancelOrder(o) \/ DeleteOrder(o)
               \/ UNCHANGED vars
        PROVE  Contiguous' /\ \A r \in Results : Settled(r)'
    <2>1. UNCHANGED <<results, request, made, excused>>
      BY <1>7 DEF CreateDemand, UpdateDemand, DeleteDemand, Appear, ReceiveGoods, CancelOrder,
                  DeleteOrder, vars, core, history
    <2> QED
      BY <1>1, <2>1
  <1> QED
    BY <1>2, <1>3, <1>4, <1>5, <1>6, <1>7 DEF Next, Compute, Elsewhere

\* A converted result has an order, and more than one only if two conversions of it ran at
\* once or one stopped between the order and the result.
THEOREM ResultsConvertedOnce == Spec => []ConvertedOnce
  <1> DEFINE Inv == TypeOK /\ HistoryTypes /\ Contiguous /\ \A r \in Results : Settled(r)
  <1>1. Init => Inv
    <2>1. Init => Contiguous
      <3>1. 0 \in 0..MaxResults /\ \A r \in Results : ~(r <= 0)
        BY PlanningAssumption DEF Results
      <3> QED
        BY <3>1 DEF Init, Contiguous
    <2>2. Init => \A r \in Results : Settled(r)
      BY DEF Init, Settled, Converting, Idle, Absent
    <2> QED
      BY <2>1, <2>2, InitTyped
  <1>2. Inv /\ [Next]_vars => Inv'
    BY TypeStep, ResultStep
  <1>3. Inv => ConvertedOnce
    BY DEF ConvertedOnce, Settled
  <1> QED
    BY <1>1, <1>2, <1>3, PTL DEF Spec
=============================================================================
