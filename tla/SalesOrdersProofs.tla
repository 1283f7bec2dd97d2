-------------------------- MODULE SalesOrdersProofs --------------------------
(***************************************************************************)
(* Theorems about SalesOrders for any number of orders, customers, rows    *)
(* and concurrent requests, in four parts:                                 *)
(*                                                                         *)
(*   1. what each operation of the stock ledger preserves; the later parts *)
(*      cite these lemmas and do not look inside its operations again;     *)
(*   2. the ledgers: typing, no negative stock, reservations, the abstract  *)
(*      pool, movements;                                                   *)
(*   3. the life of an order: what the status guards of the service        *)
(*      achieve, and what they achieve only when requests do not overlap;  *)
(*   4. the credit line, with and without overlapping requests.            *)
(***************************************************************************)
EXTENDS SalesOrders, SumTheorems

-----------------------------------------------------------------------------
(* 1. The stock ledger *)

\* The ledger has its types and nothing in it is negative.
StockOK == InventoryTypeOK /\ StockNonNegative

\* The ledger the service starts from is well formed and nothing is reserved.
LEMMA InventoryInitOK ==
  ASSUME InventoryInit
  PROVE  StockOK /\ LockedWithinQuantity
BY InventoryAssumption, SMT
   DEF InventoryInit, StockOK, InventoryTypeOK, StockNonNegative, LockedWithinQuantity

\* lockStockTx: a reservation only grows, and where it grows it ends within what is
\* on hand.  The quantity in stock is not touched.
LEMMA LockStockOK ==
  ASSUME StockOK, NEW need, LockStock(need)
  PROVE  /\ StockOK'
         /\ quantity' = quantity
         /\ \A r \in Rows : \/ locked'[r] = locked[r]
                            \/ locked'[r] > locked[r] /\ locked'[r] <= quantity[r]
<1>1. PICK take \in Plans([r \in Rows |-> Available(r)]) :
        /\ locked' = [r \in Rows |-> locked[r] + take[r]]
        /\ UNCHANGED <<present, quantity, moved>>
  BY DEF LockStock
<1>2. take \in [Rows -> 0..MaxStock] /\ \A r \in Rows : take[r] <= Available(r)
  BY <1>1 DEF Plans
<1>3. ASSUME NEW r \in Rows
      PROVE  /\ locked'[r] \in Int /\ locked'[r] >= 0
             /\ \/ locked'[r] = locked[r]
                \/ locked'[r] > locked[r] /\ locked'[r] <= quantity[r]
  BY <1>1, <1>2, InventoryAssumption, SMT
     DEF Available, StockOK, InventoryTypeOK, StockNonNegative
<1>4. locked' \in [Rows -> Int]
  BY <1>1, <1>3
<1> QED
  BY <1>1, <1>3, <1>4 DEF StockOK, InventoryTypeOK, StockNonNegative

\* unlockStockTx: a release never takes more than a row has reserved.
LEMMA UnlockStockOK ==
  ASSUME StockOK, NEW need, UnlockStock(need)
  PROVE  /\ StockOK'
         /\ quantity' = quantity
         /\ \A r \in Rows : locked'[r] <= locked[r]
<1>1. PICK take \in Plans(locked) :
        /\ locked' = [r \in Rows |-> locked[r] - take[r]]
        /\ UNCHANGED <<present, quantity, moved>>
  BY DEF UnlockStock
<1>2. take \in [Rows -> 0..MaxStock] /\ \A r \in Rows : take[r] <= locked[r]
  BY <1>1 DEF Plans
<1>3. ASSUME NEW r \in Rows
      PROVE  locked'[r] \in Int /\ locked'[r] >= 0 /\ locked'[r] <= locked[r]
  BY <1>1, <1>2, InventoryAssumption, SMT DEF StockOK, InventoryTypeOK, StockNonNegative
<1>4. locked' \in [Rows -> Int]
  BY <1>1, <1>3
<1> QED
  BY <1>1, <1>3, <1>4 DEF StockOK, InventoryTypeOK, StockNonNegative

\* A material's rows are finitely many and hold whole numbers.
LEMMA RowsOfFinite ==
  ASSUME NEW m
  PROVE  IsFiniteSet(RowsOf(m)) /\ RowsOf(m) \subseteq Rows
BY InventoryAssumption, FS_Subset DEF RowsOf

\* The whole need is reserved, spread over the rows in whatever way.
LEMMA LockStockSum ==
  ASSUME StockOK, NEW need, LockStock(need), NEW m \in Materials
  PROVE  SumFunctionOnSet(locked', RowsOf(m))
           = SumFunctionOnSet(locked, RowsOf(m)) + need[m]
<1>1. PICK take \in [Rows -> 0..MaxStock] :
        /\ SumFunctionOnSet(take, RowsOf(m)) = need[m]
        /\ locked' = [r \in Rows |-> locked[r] + take[r]]
  BY DEF LockStock, Plans, Covers
<1>2. \A r \in RowsOf(m) :
        locked[r] \in Int /\ take[r] \in Int /\ locked'[r] = locked[r] + take[r]
  BY <1>1, InventoryAssumption, SMT DEF StockOK, InventoryTypeOK, RowsOf
<1>3. SumFunctionOnSet(locked', RowsOf(m))
        = SumFunctionOnSet(locked, RowsOf(m)) + SumFunctionOnSet(take, RowsOf(m))
  BY <1>2, RowsOfFinite, SumOfSums
<1> QED
  BY <1>1, <1>3

\* The whole need is released again.
LEMMA UnlockStockSum ==
  ASSUME StockOK, NEW need, UnlockStock(need), NEW m \in Materials
  PROVE  /\ SumFunctionOnSet(locked, RowsOf(m))
              = SumFunctionOnSet(locked', RowsOf(m)) + need[m]
         /\ SumFunctionOnSet(locked', RowsOf(m)) \in Int
<1>1. PICK take \in [Rows -> 0..MaxStock] :
        /\ SumFunctionOnSet(take, RowsOf(m)) = need[m]
        /\ locked' = [r \in Rows |-> locked[r] - take[r]]
  BY DEF UnlockStock, Plans, Covers
<1>2. \A r \in RowsOf(m) :
        locked'[r] \in Int /\ take[r] \in Int /\ locked[r] = locked'[r] + take[r]
  BY <1>1, InventoryAssumption, SMT DEF StockOK, InventoryTypeOK, RowsOf
<1>3. IsFiniteSet(RowsOf(m))
  BY RowsOfFinite
<1>4. SumFunctionOnSet(locked, RowsOf(m))
        = SumFunctionOnSet(locked', RowsOf(m)) + SumFunctionOnSet(take, RowsOf(m))
  BY <1>2, <1>3, SumOfSums
<1>5. SumFunctionOnSet(locked', RowsOf(m)) \in Int
  BY <1>2, <1>3, SumType
<1> QED
  BY <1>1, <1>4, <1>5

\* A movement in adds to rows and leaves reservations alone.
LEMMA ApplyInOK ==
  ASSUME StockOK, NEW mv \in [Rows -> Nat], ApplyIn(mv)
  PROVE  /\ StockOK'
         /\ locked' = locked
         /\ \A r \in Rows : quantity'[r] >= quantity[r]
<1>1. present' \subseteq Rows /\ locked' = locked
  BY DEF ApplyIn, Touched, StockOK, InventoryTypeOK
<1>2. quantity' \in [Rows -> Int] /\ moved' \in [Rows -> Int]
  BY SMT DEF ApplyIn, StockOK, InventoryTypeOK
<1>3. \A r \in Rows : quantity'[r] >= quantity[r]
  BY SMT DEF ApplyIn, StockOK, InventoryTypeOK
<1> QED
  BY <1>1, <1>2, <1>3, SMT DEF StockOK, InventoryTypeOK, StockNonNegative

\* A movement out takes from rows, never below zero, and leaves reservations alone.
LEMMA ApplyOutOK ==
  ASSUME StockOK, NEW mv \in [Rows -> Nat], ApplyOut(mv)
  PROVE  /\ StockOK'
         /\ locked' = locked
         /\ \A r \in Rows : quantity'[r] <= quantity[r]
<1>1. present' \subseteq Rows /\ locked' = locked
  BY DEF ApplyOut, Touched, StockOK, InventoryTypeOK
<1>2. quantity' \in [Rows -> Int] /\ moved' \in [Rows -> Int]
  BY SMT DEF ApplyOut, StockOK, InventoryTypeOK
<1>3. \A r \in Rows : quantity'[r] >= 0 /\ quantity'[r] <= quantity[r]
  BY SMT DEF ApplyOut, StockOK, InventoryTypeOK, StockNonNegative
<1> QED
  BY <1>1, <1>2, <1>3, SMT DEF StockOK, InventoryTypeOK, StockNonNegative

\* Receipts and reservations keep the reserved quantity within what is on hand:
\* key invariant 2 of docs/dev/data-model.md, as long as nothing is moved out.
LEMMA InboundKeepsLockedWithin ==
  ASSUME StockOK, LockedWithinQuantity,
         \/ \E need : LockStock(need)
         \/ \E need : UnlockStock(need)
         \/ \E mv \in [Rows -> Nat] : ApplyIn(mv)
         \/ UNCHANGED stockVars
  PROVE  LockedWithinQuantity'
<1>1. CASE \E need : LockStock(need)
  <2>1. PICK need : LockStock(need)
    BY <1>1
  <2> QED
    BY <2>1, LockStockOK, SMT DEF LockedWithinQuantity, StockOK, InventoryTypeOK
<1>2. CASE \E need : UnlockStock(need)
  <2>1. PICK need : UnlockStock(need)
    BY <1>2
  <2>2. quantity' = quantity /\ (\A r \in Rows : locked'[r] <= locked[r]) /\ StockOK'
    BY <2>1, UnlockStockOK
  <2> QED
    BY <2>2, SMT DEF LockedWithinQuantity, StockOK, InventoryTypeOK
<1>3. CASE \E mv \in [Rows -> Nat] : ApplyIn(mv)
  <2>1. PICK mv \in [Rows -> Nat] : ApplyIn(mv)
    BY <1>3
  <2>2. locked' = locked /\ (\A r \in Rows : quantity'[r] >= quantity[r]) /\ StockOK'
    BY <2>1, ApplyInOK
  <2> QED
    BY <2>2, SMT DEF LockedWithinQuantity, StockOK, InventoryTypeOK
<1>4. CASE UNCHANGED stockVars
  BY <1>4 DEF LockedWithinQuantity, stockVars
<1> QED
  BY <1>1, <1>2, <1>3, <1>4

-----------------------------------------------------------------------------
(* 2. The ledgers *)

\* What a goroutine holds while its request is open.
LEMMA RequestFields ==
  ASSUME TypeOK, NEW q \in Requests
  PROVE  /\ request[q].op \in {"approve", "delete", "cancel"} => request[q].so \in Orders
         /\ request[q].op = "cancel" => request[q].wasApproved \in BOOLEAN
         /\ request[q].op = "editCustomer" =>
              request[q].customer \in Customers /\ request[q].used \in Int
BY SMT DEF TypeOK, RequestRecords, Idle

(***************************************************************************)
(* Typing, and the stock that never goes negative.  used_credit may: an    *)
(* order of negative amount is charged like any other.                     *)
(***************************************************************************)
LedgerInv == TypeOK /\ StockNonNegative

\* Opening a request writes nothing but the request.
LEMMA StartOK ==
  ASSUME LedgerInv, NEW q \in Requests, NEW r \in RequestRecords, Start(q, r)
  PROVE  LedgerInv'
<1>1. request' \in [Requests -> RequestRecords]
  BY DEF Start, LedgerInv, TypeOK
<1> QED
  BY <1>1 DEF Start, LedgerInv, TypeOK, InventoryTypeOK, StockNonNegative, stockVars

\* Closing a request leaves the others as they are.
LEMMA FinishOK ==
  ASSUME LedgerInv, NEW q \in Requests, Finish(q)
  PROVE  request' \in [Requests -> RequestRecords]
<1>1. request' = [request EXCEPT ![q] = Idle] /\ Idle \in RequestRecords
  BY DEF Finish, RequestRecords
<1> QED
  BY <1>1 DEF LedgerInv, TypeOK

\* The ledgers have their types and are not negative at first.
LEMMA LedgerInit == Init => LedgerInv
<1> SUFFICES ASSUME Init PROVE LedgerInv
  OBVIOUS
<1>1. StockOK
  BY InventoryInitOK DEF Init
<1>2. TypeOK
  BY <1>1, SMT DEF Init, TypeOK, StockOK, Statuses, RequestRecords, Idle
<1> QED
  BY <1>1, <1>2 DEF LedgerInv, StockOK

\* Every step keeps them so.
LEMMA LedgerStep == LedgerInv /\ [Next]_vars => LedgerInv'
<1> SUFFICES ASSUME LedgerInv, [Next]_vars PROVE LedgerInv'
  OBVIOUS
<1> USE DEF LedgerInv
<1>0. StockOK
  BY DEF TypeOK, StockNonNegative, StockOK
<1>1. ASSUME NEW o \in Orders, Create(o)
      PROVE  LedgerInv'
  <2>1. TypeOK'
    BY <1>1 DEF Create, TypeOK, InventoryTypeOK, stockVars, Statuses
  <2> QED
    BY <1>1, <2>1 DEF Create, StockNonNegative, stockVars
<1>2. ASSUME NEW q \in Requests, NEW o \in Orders, OrderRequest(q, o)
      PROVE  LedgerInv'
  <2>1. CASE BeginApprove(q, o)
    BY <2>1, StartOK DEF BeginApprove, RequestRecords
  <2>2. CASE BeginCancel(q, o)
    BY <2>2, StartOK DEF BeginCancel, RequestRecords
  <2>3. CASE BeginDelete(q, o)
    BY <2>3, StartOK DEF BeginDelete, RequestRecords
  <2> QED
    BY <1>2, <2>1, <2>2, <2>3 DEF OrderRequest
<1>3. ASSUME NEW q \in Requests, NEW c \in Customers, BeginEditCustomer(q, c)
      PROVE  LedgerInv'
  <2>1. PICK used \in {0, usedCredit[c]} :
          Start(q, [op |-> "editCustomer", customer |-> c, used |-> used])
    BY <1>3 DEF BeginEditCustomer
  <2>2. used \in Int
    BY SMT DEF TypeOK
  <2> QED
    BY <2>1, <2>2, StartOK DEF RequestRecords
<1>4. ASSUME NEW q \in Requests, CommitApprove(q)
      PROVE  LedgerInv'
  <2>1. PICK o \in Orders : /\ o = request[q].so
                            /\ LockStock(Need[o])
                            /\ usedCredit' = [usedCredit EXCEPT ![CustOf[o]] = @ + Amount[o]]
                            /\ status' = [status EXCEPT ![o] = "APPROVED"]
                            /\ held' = [held EXCEPT ![o] = @ + 1]
    BY <1>4, RequestFields DEF CommitApprove
  <2>2. StockOK'
    BY <1>0, <2>1, LockStockOK
  <2>3. usedCredit' \in [Customers -> Int]
    <3>1. CustOf[o] \in Customers /\ Amount[o] \in Int
      BY SalesAssumption
    <3> QED
      BY <2>1, <3>1, SMT DEF TypeOK
  <2>4. status' \in [Orders -> Statuses] /\ edited' = edited /\ lifted' = lifted
    BY <1>4, <2>1 DEF CommitApprove, TypeOK, Statuses
  <2>5. held' \in [Orders -> Int]
    BY <2>1, SMT DEF TypeOK
  <2> QED
    BY <1>4, <2>2, <2>3, <2>4, <2>5, FinishOK
       DEF CommitApprove, TypeOK, StockOK, StockNonNegative
<1>5. ASSUME NEW q \in Requests, CommitCancel(q)
      PROVE  LedgerInv'
  <2>1. PICK o \in Orders : /\ o = request[q].so
                            /\ SetCancelled(o)
                            /\ \/ /\ UnlockStock(Need[o])
                                  /\ held' = [held EXCEPT ![o] = @ - 1]
                                  /\ Refund(o)
                               \/ UNCHANGED <<stockVars, usedCredit, held, lifted>>
    BY <1>5, RequestFields DEF CommitCancel
  <2>2. StockOK'
    BY <1>0, <2>1, UnlockStockOK
       DEF StockOK, InventoryTypeOK, StockNonNegative, stockVars
  <2>3. usedCredit' \in [Customers -> Int] /\ lifted' \in [Customers -> Nat]
    BY <2>1, SalesAssumption, SMT DEF Refund, TypeOK
  <2>4. status' \in [Orders -> Statuses] /\ held' \in [Orders -> Int] /\ edited' = edited
    BY <1>5, <2>1, SMT DEF CommitCancel, SetCancelled, TypeOK, Statuses
  <2> QED
    BY <1>5, <2>2, <2>3, <2>4, FinishOK
       DEF CommitCancel, TypeOK, StockOK, StockNonNegative
<1>6. ASSUME NEW q \in Requests, CommitDelete(q)
      PROVE  LedgerInv'
  <2>1. status' \in [Orders -> Statuses]
    BY <1>6 DEF CommitDelete, TypeOK, Statuses
  <2> QED
    BY <1>6, <2>1, FinishOK DEF CommitDelete, TypeOK, InventoryTypeOK, StockNonNegative, stockVars
<1>7. ASSUME NEW q \in Requests, CommitEditCustomer(q)
      PROVE  LedgerInv'
  <2>1. PICK c \in Customers : /\ usedCredit' = [usedCredit EXCEPT ![c] = request[q].used]
                               /\ edited' = edited \union {c}
    BY <1>7, RequestFields DEF CommitEditCustomer
  <2>2. request[q].used \in Int
    BY <1>7, RequestFields DEF CommitEditCustomer
  <2>3. usedCredit' \in [Customers -> Int]
    BY <2>1, <2>2, SMT DEF TypeOK
  <2> QED
    BY <1>7, <2>1, <2>3, FinishOK DEF CommitEditCustomer, TypeOK, InventoryTypeOK, StockNonNegative, stockVars
<1>8. ASSUME NEW q \in Requests, Abort(q)
      PROVE  LedgerInv'
  BY <1>8, FinishOK DEF Abort, TypeOK, InventoryTypeOK,
       StockNonNegative, stockVars
<1>9. CASE Move
  <2>1. StockOK'
    BY <1>0, <1>9, ApplyInOK, ApplyOutOK, InventoryAssumption DEF Move, MoveIn, MoveOut
  <2> QED
    BY <1>9, <2>1 DEF Move, orderVars, TypeOK, StockOK, StockNonNegative
<1>10. CASE UNCHANGED vars
  BY <1>10 DEF vars, orderVars, stockVars, TypeOK, InventoryTypeOK,
       StockNonNegative
<1> QED
  BY <1>1, <1>2, <1>3, <1>4, <1>5, <1>6, <1>7, <1>8, <1>9, <1>10 DEF Next, Commit

\* So they always are.
LEMMA LedgerInvariant == Spec => []LedgerInv
BY LedgerInit, LedgerStep, PTL DEF Spec

\* Every variable keeps its type, whatever requests do to each other.
THEOREM SalesTypeOK == Spec => []TypeOK
<1>1. LedgerInv => TypeOK
  BY DEF LedgerInv
<1> QED
  BY <1>1, LedgerInvariant, PTL

\* No interleaving of approvals, cancellations (doubled ones included), deletions,
\* edits and movements drives a row's stock or its reservations below zero.
THEOREM StockStaysNonNegative == Spec => []StockNonNegative
<1>1. LedgerInv => StockNonNegative
  BY DEF LedgerInv
<1> QED
  BY <1>1, LedgerInvariant, PTL

(***************************************************************************)
(* What a step of the sales orders does to the stock: one of the ledger's  *)
(* four operations, or nothing.                                            *)
(***************************************************************************)
LEMMA StockSteps ==
  ASSUME LedgerInv, [Next]_vars
  PROVE  \/ \E need : LockStock(need)
         \/ \E need : UnlockStock(need)
         \/ \E mv \in [Rows -> Nat] : ApplyIn(mv)
         \/ "moveOut" \in Endpoints /\ \E mv \in [Rows -> Nat] : ApplyOut(mv)
         \/ UNCHANGED stockVars
<1>1. ASSUME NEW o \in Orders, Create(o) PROVE UNCHANGED stockVars
  BY <1>1 DEF Create
<1>2. ASSUME NEW q \in Requests, NEW o \in Orders, OrderRequest(q, o)
      PROVE  UNCHANGED stockVars
  BY <1>2 DEF OrderRequest, BeginApprove, BeginCancel, BeginDelete, Start
<1>3. ASSUME NEW q \in Requests, NEW c \in Customers, BeginEditCustomer(q, c)
      PROVE  UNCHANGED stockVars
  BY <1>3 DEF BeginEditCustomer, Start
<1>4. ASSUME NEW q \in Requests, CommitApprove(q) PROVE \E need : LockStock(need)
  BY <1>4 DEF CommitApprove
<1>5. ASSUME NEW q \in Requests, CommitCancel(q)
      PROVE  (\E need : UnlockStock(need)) \/ UNCHANGED stockVars
  BY <1>5 DEF CommitCancel
<1>6. ASSUME NEW q \in Requests, CommitDelete(q) \/ CommitEditCustomer(q) \/ Abort(q)
      PROVE  UNCHANGED stockVars
  BY <1>6 DEF CommitDelete, CommitEditCustomer, Abort
<1>7. CASE Move
  <2>1. Movements \subseteq [Rows -> Nat]
    BY InventoryAssumption
  <2> QED
    BY <1>7, <2>1 DEF Move, MoveIn, MoveOut
<1>8. CASE UNCHANGED vars
  BY <1>8 DEF vars
<1> QED
  BY <1>1, <1>2, <1>3, <1>4, <1>5, <1>6, <1>7, <1>8 DEF Next, Commit

(***************************************************************************)
(* Implementation of StockPool.                                            *)
(***************************************************************************)
LEMMA PoolStep ==
  ASSUME LedgerInv, LedgerInv', [Next]_vars
  PROVE  [Pool!Next]_<<quantity, locked>>
<1>1. StockOK /\ StockOK'
  BY DEF LedgerInv, TypeOK, StockNonNegative, StockOK
<1>2. locked' \in [Rows -> Nat] /\ quantity' \in [Rows -> Nat]
  BY <1>1, SMT DEF StockOK, InventoryTypeOK, StockNonNegative
<1>3. ASSUME NEW need, LockStock(need) PROVE Pool!Reserve
  <2>1. /\ quantity' = quantity
        /\ \A r \in Rows : \/ locked'[r] = locked[r]
                           \/ locked'[r] > locked[r] /\ locked'[r] <= quantity[r]
    BY <1>1, <1>3, LockStockOK
  <2> QED
    BY <1>2, <2>1 DEF Pool!Reserve
<1>4. ASSUME NEW need, UnlockStock(need) PROVE Pool!Release
  BY <1>1, <1>2, <1>4, UnlockStockOK DEF Pool!Release
<1>5. ASSUME NEW mv \in [Rows -> Nat], ApplyIn(mv) PROVE Pool!Arrive
  BY <1>1, <1>2, <1>5, ApplyInOK DEF Pool!Arrive
<1>6. ASSUME NEW mv \in [Rows -> Nat], ApplyOut(mv) PROVE Pool!Ship
  BY <1>1, <1>2, <1>6, ApplyOutOK DEF Pool!Ship
<1>7. CASE UNCHANGED stockVars
  BY <1>7 DEF stockVars
<1> QED
  BY <1>3, <1>4, <1>5, <1>6, <1>7, StockSteps DEF Pool!Next

\* Whatever requests interleave, the ledger behaves like the abstract pool: one kind
\* of change at a time, and a reservation only where the goods are on hand.
THEOREM SalesImplementsPool == Spec => KeepsPoolPromise
<1>1. Init => Pool!Init
  <2> SUFFICES ASSUME Init PROVE Pool!Init
    OBVIOUS
  <2>1. InitQty \in [Rows -> Nat]
    BY InventoryAssumption, SMT
  <2> QED
    BY <2>1 DEF Init, InventoryInit, Pool!Init
<1>2. LedgerInv /\ LedgerInv' /\ [Next]_vars => [Pool!Next]_<<quantity, locked>>
  BY PoolStep
<1> QED
  BY <1>1, <1>2, LedgerInvariant, PTL DEF Spec, KeepsPoolPromise, Pool!Spec

(***************************************************************************)
(* Reserved stock is on hand as long as nothing is moved out.              *)
(***************************************************************************)
\* docs/dev/data-model.md, key invariant 2, holds of every mix of orders, receipts and
\* concurrent requests; only a movement out can break it (and does).
THEOREM LockedWithinQuantityInbound ==
  ASSUME "moveOut" \notin Endpoints
  PROVE  Spec => []LockedWithinQuantity
<1>1. Init => LockedWithinQuantity
  BY InventoryInitOK DEF Init
<1>2. ASSUME LedgerInv, LockedWithinQuantity, [Next]_vars
      PROVE  LockedWithinQuantity'
  <2>1. StockOK
    BY <1>2 DEF LedgerInv, TypeOK, StockNonNegative, StockOK
  <2>2. \/ \E need : LockStock(need)
        \/ \E need : UnlockStock(need)
        \/ \E mv \in [Rows -> Nat] : ApplyIn(mv)
        \/ UNCHANGED stockVars
    BY <1>2, StockSteps
  <2> QED
    BY <1>2, <2>1, <2>2, InboundKeepsLockedWithin
<1>3. LedgerInv /\ LockedWithinQuantity /\ [Next]_vars => LockedWithinQuantity'
  BY <1>2
<1> QED
  BY <1>1, <1>3, LedgerInvariant, PTL DEF Spec

(***************************************************************************)
(* Reserved stock is what orders hold.                                     *)
(***************************************************************************)
\* What the orders hold of material m.
HeldOf(h, m) == SumFunction([o \in Orders |-> h[o] * Need[o][m]])

\* What orders hold of a material is an integer.
LEMMA HeldOfType ==
  ASSUME NEW h \in [Orders -> Int], NEW m \in Materials
  PROVE  HeldOf(h, m) \in Int
<1> DEFINE f == [o \in Orders |-> h[o] * Need[o][m]]
<1>1. \A o \in DOMAIN f : f[o] \in Int
  BY SalesAssumption, SMT
<1>2. IsFiniteSet(DOMAIN f)
  BY SalesAssumption
<1> HIDE DEF f
<1>3. SumFunction(f) \in Int
  BY <1>1, <1>2, SumType DEF SumFunction
<1> QED
  BY <1>3 DEF HeldOf, f

\* One reservation more of the lines of order o.
LEMMA HeldOfOneMore ==
  ASSUME NEW h \in [Orders -> Int], NEW m \in Materials, NEW o \in Orders
  PROVE  HeldOf([h EXCEPT ![o] = @ + 1], m) = HeldOf(h, m) + Need[o][m]
<1> DEFINE n == [p \in Orders |-> Need[p][m]]
           i == [h EXCEPT ![o] = @ + 1]
           f == [p \in Orders |-> h[p] * Need[p][m]]
           g == [p \in Orders |-> i[p] * Need[p][m]]
<1>1. n \in [Orders -> Int]
  BY SalesAssumption, SMT
<1>2. \A p \in Orders : f[p] = h[p] * n[p] /\ g[p] = i[p] * n[p]
  OBVIOUS
<1>3. \A p \in Orders : i[p] \in Int /\ (p # o => i[p] = h[p])
  BY SMT
<1>4. \A p \in Orders : f[p] \in Int /\ g[p] \in Int
  BY <1>1, <1>2, <1>3, SMT
<1>5. \A p \in Orders \ {o} : f[p] = g[p]
  BY <1>2, <1>3
<1>6. g[o] = f[o] + n[o]
  <2>1. \A x, y \in Int : (x + 1) * y = x * y + y
    BY SMT
  <2>2. i[o] = h[o] + 1 /\ h[o] \in Int /\ n[o] \in Int
    BY <1>1
  <2>3. (h[o] + 1) * n[o] = h[o] * n[o] + n[o]
    BY <2>1, <2>2
  <2> QED
    BY <1>2, <2>2, <2>3
<1>7. DOMAIN f = Orders /\ DOMAIN g = Orders /\ IsFiniteSet(Orders)
  BY SalesAssumption
<1>8. n[o] \in Int /\ n[o] = Need[o][m]
  BY <1>1
<1>9. HeldOf(h, m) = SumFunction(f) /\ HeldOf(i, m) = SumFunction(g)
  BY DEF HeldOf
<1> HIDE DEF f, g, i, n
<1>10. SumFunctionOnSet(g, Orders) = SumFunctionOnSet(f, Orders) - f[o] + g[o]
  BY <1>4, <1>5, <1>7, SumChangeOne
<1>11. SumFunctionOnSet(f, Orders) \in Int
  BY <1>4, <1>7, SumType
<1>12. HeldOf(i, m) = HeldOf(h, m) + n[o]
  BY <1>4, <1>6, <1>7, <1>8, <1>9, <1>10, <1>11 DEF SumFunction
<1> QED
  BY <1>8, <1>12 DEF i

\* A hold that is given back takes its order's need off what is held.
LEMMA HeldOfOneLess ==
  ASSUME NEW h \in [Orders -> Int], NEW m \in Materials, NEW o \in Orders
  PROVE  /\ HeldOf(h, m) = HeldOf([h EXCEPT ![o] = @ - 1], m) + Need[o][m]
         /\ HeldOf([h EXCEPT ![o] = @ - 1], m) \in Int
<1> DEFINE g == [h EXCEPT ![o] = @ - 1]
           i == [g EXCEPT ![o] = @ + 1]
<1>1. g \in [Orders -> Int] /\ i \in [Orders -> Int]
  OBVIOUS
<1>2. \A p \in Orders : i[p] = h[p]
  BY SMT
<1>3. i = h
  <2> HIDE DEF i
  <2> QED
    BY <1>1, <1>2
<1> HIDE DEF g
<1>4. HeldOf(i, m) = HeldOf(g, m) + Need[o][m] /\ HeldOf(g, m) \in Int
  BY <1>1, HeldOfOneMore, HeldOfType
<1> QED
  BY <1>3, <1>4 DEF g

\* Reservations change together with what the orders hold.
LEMMA HeldSteps ==
  ASSUME LedgerInv, [Next]_vars
  PROVE  \/ \E o \in Orders : LockStock(Need[o]) /\ held' = [held EXCEPT ![o] = @ + 1]
         \/ \E o \in Orders : UnlockStock(Need[o]) /\ held' = [held EXCEPT ![o] = @ - 1]
         \/ UNCHANGED <<locked, held>>
<1> USE DEF stockVars
<1>1. ASSUME NEW o \in Orders, Create(o) PROVE UNCHANGED <<locked, held>>
  BY <1>1 DEF Create
<1>2. ASSUME NEW q \in Requests, NEW o \in Orders, OrderRequest(q, o)
      PROVE  UNCHANGED <<locked, held>>
  BY <1>2 DEF OrderRequest, BeginApprove, BeginCancel, BeginDelete, Start
<1>3. ASSUME NEW q \in Requests, NEW c \in Customers, BeginEditCustomer(q, c)
      PROVE  UNCHANGED <<locked, held>>
  BY <1>3 DEF BeginEditCustomer, Start
<1>4. ASSUME NEW q \in Requests, CommitApprove(q)
      PROVE  \E o \in Orders : LockStock(Need[o]) /\ held' = [held EXCEPT ![o] = @ + 1]
  BY <1>4, RequestFields DEF CommitApprove, LedgerInv
<1>5. ASSUME NEW q \in Requests, CommitCancel(q)
      PROVE  \/ \E o \in Orders : UnlockStock(Need[o]) /\ held' = [held EXCEPT ![o] = @ - 1]
             \/ UNCHANGED <<locked, held>>
  BY <1>5, RequestFields DEF CommitCancel, LedgerInv
<1>6. ASSUME NEW q \in Requests, CommitDelete(q) \/ CommitEditCustomer(q) \/ Abort(q)
      PROVE  UNCHANGED <<locked, held>>
  BY <1>6 DEF CommitDelete, CommitEditCustomer, Abort
<1>7. CASE Move
  BY <1>7 DEF Move, MoveIn, MoveOut, ApplyIn, ApplyOut, orderVars
<1>8. CASE UNCHANGED vars
  BY <1>8 DEF vars, orderVars
<1> QED
  BY <1>1, <1>2, <1>3, <1>4, <1>5, <1>6, <1>7, <1>8 DEF Next, Commit

\* The locked units of every material are those that orders hold, through any
\* interleaving of approvals, cancellations and movements: whatever a request has read,
\* its reservation and its status commit together, and a release gives back the whole.
THEOREM ReservedIsHeld == Spec => []ReservationLedger
<1> DEFINE Inv == \A m \in Materials : SumFunctionOnSet(locked, RowsOf(m)) = HeldOf(held, m)
<1>1. Init => Inv
  <2> SUFFICES ASSUME Init, NEW m \in Materials
               PROVE  SumFunctionOnSet(locked, RowsOf(m)) = HeldOf(held, m)
    OBVIOUS
  <2>1. SumFunctionOnSet(locked, RowsOf(m)) = 0
    BY RowsOfFinite, SumOfZeros DEF Init, InventoryInit
  <2> DEFINE f == [o \in Orders |-> held[o] * Need[o][m]]
  <2>2. \A o \in DOMAIN f : f[o] = 0
    BY SalesAssumption, SMT DEF Init
  <2>3. IsFiniteSet(DOMAIN f)
    BY SalesAssumption
  <2> HIDE DEF f
  <2>4. SumFunction(f) = 0
    BY <2>2, <2>3, SumOfZeros DEF SumFunction
  <2> QED
    BY <2>1, <2>4 DEF HeldOf, f
<1>2. ASSUME LedgerInv, Inv, [Next]_vars
      PROVE  Inv'
  <2>1. StockOK /\ held \in [Orders -> Int]
    BY <1>2 DEF LedgerInv, TypeOK, StockNonNegative, StockOK
  <2>2. ASSUME NEW o \in Orders, LockStock(Need[o]), held' = [held EXCEPT ![o] = @ + 1],
               NEW m \in Materials
        PROVE  SumFunctionOnSet(locked', RowsOf(m)) = HeldOf(held', m)
    <3>1. SumFunctionOnSet(locked', RowsOf(m)) = HeldOf(held, m) + Need[o][m]
      BY <1>2, <2>1, <2>2, LockStockSum
    <3>2. HeldOf([held EXCEPT ![o] = @ + 1], m) = HeldOf(held, m) + Need[o][m]
      BY <2>1, HeldOfOneMore
    <3> QED
      BY <3>1, <3>2, <2>2
  <2>3. ASSUME NEW o \in Orders, UnlockStock(Need[o]), held' = [held EXCEPT ![o] = @ - 1],
               NEW m \in Materials
        PROVE  SumFunctionOnSet(locked', RowsOf(m)) = HeldOf(held', m)
    <3>1. /\ HeldOf(held, m) = SumFunctionOnSet(locked', RowsOf(m)) + Need[o][m]
          /\ SumFunctionOnSet(locked', RowsOf(m)) \in Int
      BY <1>2, <2>1, <2>3, UnlockStockSum
    <3>2. HeldOf(held, m) = HeldOf(held', m) + Need[o][m] /\ HeldOf(held', m) \in Int
      BY <2>1, <2>3, HeldOfOneLess
    <3>3. Need[o][m] \in Int
      BY SalesAssumption, SMT
    <3> QED
      BY <3>1, <3>2, <3>3
  <2>4. CASE UNCHANGED <<locked, held>>
    BY <1>2, <2>4
  <2>5. \/ \E o \in Orders : LockStock(Need[o]) /\ held' = [held EXCEPT ![o] = @ + 1]
        \/ \E o \in Orders : UnlockStock(Need[o]) /\ held' = [held EXCEPT ![o] = @ - 1]
        \/ UNCHANGED <<locked, held>>
    BY <1>2, HeldSteps
  <2> QED
    BY <2>2, <2>3, <2>4, <2>5
<1>3. LedgerInv /\ Inv /\ [Next]_vars => Inv'
  BY <1>2
<1>4. Inv => ReservationLedger
  BY DEF ReservationLedger, HeldOf
<1> QED
  BY <1>1, <1>3, <1>4, LedgerInvariant, PTL DEF Spec

(***************************************************************************)
(* Stock is what the accepted movements make it.                           *)
(***************************************************************************)
\* A row that does not exist holds nothing; the rows there from the start stay.
PresentRows == InitPresent \subseteq present /\ \A r \in Rows \ present : quantity[r] = 0

\* Whatever orders reserve and release meanwhile, a row from the start holds what the
\* movements add up to; one created by a movement out of nothing may hold more, never less.
THEOREM StockIsExplained == Spec => []MovementsExplainStock
<1> DEFINE Inv == PresentRows /\ MovementsExplainStock
<1>1. Init => Inv
  BY InventoryAssumption, SMT DEF Init, InventoryInit, PresentRows, MovementsExplainStock
<1>2. ASSUME LedgerInv, Inv, [Next]_vars
      PROVE  Inv'
  <2> USE <1>2 DEF PresentRows, MovementsExplainStock
  <2>1. /\ quantity \in [Rows -> Int] /\ moved \in [Rows -> Int] /\ present \subseteq Rows
        /\ \A r \in Rows : quantity[r] >= 0
    BY DEF LedgerInv, TypeOK, InventoryTypeOK, StockNonNegative
  <2>2. ASSUME NEW mv \in [Rows -> Nat], ApplyIn(mv)
        PROVE  Inv'
    BY <2>1, <2>2, SMT DEF ApplyIn, Touched
  <2>3. ASSUME NEW mv \in [Rows -> Nat], ApplyOut(mv)
        PROVE  Inv'
    BY <2>1, <2>3, SMT DEF ApplyOut, Touched
  <2>4. CASE UNCHANGED <<present, quantity, moved>>
    BY <2>4
  <2> QED
    BY <2>2, <2>3, <2>4, StockSteps DEF LockStock, UnlockStock, stockVars
<1>3. LedgerInv /\ Inv /\ [Next]_vars => Inv'
  BY <1>2
<1>4. Inv => MovementsExplainStock
  OBVIOUS
<1> QED
  BY <1>1, <1>3, <1>4, LedgerInvariant, PTL DEF Spec

-----------------------------------------------------------------------------
(* 3. The life of an order *)

(***************************************************************************)
(* One reservation per order at most.  The invariant adds that an order    *)
(* which can still be approved holds none.                                 *)
(***************************************************************************)
ReserveInv ==
  /\ ApprovedAtMostOnce
  /\ \A o \in Orders : status[o] \in {"NONE", "DRAFT"} => held[o] <= 0

\* At first no order holds anything.
LEMMA ReserveInit == Init => ReserveInv
BY SMT DEF Init, ReserveInv, ApprovedAtMostOnce

\* An approval needs a DRAFT at its commit, and no order becomes a DRAFT again.
LEMMA ReserveStep ==
  ASSUME TypeOK, ReserveInv, [Next]_vars
  PROVE  ReserveInv'
<1> USE DEF ReserveInv, ApprovedAtMostOnce
<1>1. ASSUME NEW o \in Orders, Create(o) PROVE ReserveInv'
  BY <1>1, SMT DEF Create, TypeOK
<1>2. ASSUME NEW q \in Requests, NEW o \in Orders, OrderRequest(q, o) PROVE ReserveInv'
  BY <1>2 DEF OrderRequest, BeginApprove, BeginCancel, BeginDelete, Start
<1>3. ASSUME NEW q \in Requests, NEW c \in Customers, BeginEditCustomer(q, c)
      PROVE  ReserveInv'
  BY <1>3 DEF BeginEditCustomer, Start
<1>4. ASSUME NEW q \in Requests, CommitApprove(q) PROVE ReserveInv'
  <2>1. PICK o \in Orders : /\ status[o] = "DRAFT"
                            /\ status' = [status EXCEPT ![o] = "APPROVED"]
                            /\ held' = [held EXCEPT ![o] = @ + 1]
    BY <1>4, RequestFields DEF CommitApprove, StillDraft
  <2> QED
    BY <2>1, SMT DEF TypeOK
<1>5. ASSUME NEW q \in Requests, CommitCancel(q) PROVE ReserveInv'
  <2>1. PICK o \in Orders : /\ SetCancelled(o)
                            /\ \/ held' = [held EXCEPT ![o] = @ - 1]
                               \/ held' = held
    BY <1>5, RequestFields DEF CommitCancel
  <2>2. \A p \in Orders : held'[p] \in Int /\ held'[p] <= held[p]
    BY <2>1, SMT DEF TypeOK
  <2>3. \A p \in Orders : status'[p] = status[p] \/ status'[p] = "CANCELLED"
    BY <2>1 DEF SetCancelled, TypeOK
  <2> QED
    BY <2>2, <2>3, SMT DEF TypeOK
<1>6. ASSUME NEW q \in Requests, CommitDelete(q) PROVE ReserveInv'
  BY <1>6, RequestFields DEF CommitDelete, TypeOK
<1>7. ASSUME NEW q \in Requests, CommitEditCustomer(q) \/ Abort(q) PROVE ReserveInv'
  BY <1>7 DEF CommitEditCustomer, Abort
<1>8. CASE Move
  BY <1>8 DEF Move, orderVars
<1>9. CASE UNCHANGED vars
  BY <1>9 DEF vars, orderVars
<1> QED
  BY <1>1, <1>2, <1>3, <1>4, <1>5, <1>6, <1>7, <1>8, <1>9 DEF Next, Commit

\* However approvals of one order race, with each other or with cancellations, the
\* order reserves its lines at most once.
THEOREM ReservedAtMostOnce == Spec => []ApprovedAtMostOnce
<1>1. TypeOK /\ ReserveInv /\ [Next]_vars => ReserveInv'
  BY ReserveStep
<1>2. ReserveInv => ApprovedAtMostOnce
  BY DEF ReserveInv
<1> QED
  BY <1>1, <1>2, ReserveInit, SalesTypeOK, PTL DEF Spec

(***************************************************************************)
(* Closed orders.                                                          *)
(***************************************************************************)
LEMMA ClosedStep ==
  ASSUME TypeOK, [Next]_vars, NEW o \in Orders, status[o] \in {"CANCELLED", "DELETED"}
  PROVE  status'[o] \in {"CANCELLED", "DELETED"}
<1>1. ASSUME NEW p \in Orders, Create(p) PROVE status'[o] = status[o]
  BY <1>1 DEF Create, TypeOK
<1>2. ASSUME NEW q \in Requests, NEW p \in Orders, OrderRequest(q, p) PROVE status' = status
  BY <1>2 DEF OrderRequest, BeginApprove, BeginCancel, BeginDelete, Start
<1>3. ASSUME NEW q \in Requests, NEW c \in Customers, BeginEditCustomer(q, c)
      PROVE  status' = status
  BY <1>3 DEF BeginEditCustomer, Start
<1>4. ASSUME NEW q \in Requests, CommitApprove(q) PROVE status'[o] = status[o]
  BY <1>4, RequestFields DEF CommitApprove, StillDraft, TypeOK
<1>5. ASSUME NEW q \in Requests, CommitCancel(q)
      PROVE  status'[o] \in {status[o], "CANCELLED"}
  BY <1>5, RequestFields DEF CommitCancel, SetCancelled, TypeOK
<1>6. ASSUME NEW q \in Requests, CommitDelete(q)
      PROVE  status'[o] \in {status[o], "DELETED"}
  BY <1>6, RequestFields DEF CommitDelete, TypeOK
<1>7. ASSUME NEW q \in Requests, CommitEditCustomer(q) \/ Abort(q) PROVE status' = status
  BY <1>7 DEF CommitEditCustomer, Abort
<1>8. CASE Move
  BY <1>8 DEF Move, orderVars
<1>9. CASE UNCHANGED vars
  BY <1>9 DEF vars, orderVars
<1> QED
  BY <1>1, <1>2, <1>3, <1>4, <1>5, <1>6, <1>7, <1>8, <1>9 DEF Next, Commit

\* No request, however long ago it read the order, reopens one that was cancelled or
\* deleted in the meantime.
THEOREM ClosedForGood == Spec => ClosedStaysClosed
<1>1. TypeOK /\ [Next]_vars =>
        [\A o \in Orders :
           status[o] \in {"CANCELLED", "DELETED"} =>
             status'[o] \in {"CANCELLED", "DELETED"}]_vars
  BY ClosedStep
<1> QED
  BY <1>1, SalesTypeOK, PTL DEF Spec, ClosedStaysClosed

(***************************************************************************)
(* Requests one at a time.  The invariant says that what the open request  *)
(* has read is still true, which is just what overlapping requests break.  *)
(***************************************************************************)
ReadsStillTrue ==
  \A q \in Requests :
    /\ request[q].op = "cancel" =>
         /\ status[request[q].so] \in {"DRAFT", "APPROVED"}
         /\ request[q].wasApproved = (status[request[q].so] = "APPROVED")
    /\ request[q].op = "delete" => status[request[q].so] = "DRAFT"

SerialInv == HeldWhileApproved /\ ReadsStillTrue

Serial == \A p, q \in Requests : p = q

\* At first no order is held.
LEMMA SerialInit == Init => SerialInv
BY SMT DEF Init, SerialInv, HeldWhileApproved, ReadsStillTrue, Idle

\* The only request there is has closed: nothing is left to be stale.
LEMMA SerialFinish ==
  ASSUME Serial, TypeOK, NEW q \in Requests, Finish(q)
  PROVE  ReadsStillTrue'
<1>1. \A p \in Requests : request'[p] = Idle
  BY DEF Serial, Finish, TypeOK
<1> QED
  BY <1>1 DEF ReadsStillTrue, Idle

\* With requests one at a time, an order is held exactly while APPROVED.
LEMMA SerialStep ==
  ASSUME Serial, TypeOK, SerialInv, [Next]_vars
  PROVE  SerialInv'
<1> USE DEF SerialInv, HeldWhileApproved
<1>1. ASSUME NEW o \in Orders, Create(o) PROVE SerialInv'
  <2>1. status[o] = "NONE" /\ status' = [status EXCEPT ![o] = "DRAFT"]
        /\ request' = request /\ held' = held
    BY <1>1 DEF Create
  <2>2. HeldWhileApproved'
    BY <2>1 DEF TypeOK
  <2>3. ReadsStillTrue'
    BY <2>1, RequestFields DEF ReadsStillTrue, TypeOK
  <2> QED
    BY <2>2, <2>3
<1>2. ASSUME NEW q \in Requests, NEW o \in Orders, OrderRequest(q, o) PROVE SerialInv'
  <2>1. status' = status /\ held' = held
    BY <1>2 DEF OrderRequest, BeginApprove, BeginCancel, BeginDelete, Start
  <2>2. CASE BeginApprove(q, o)
    BY <2>1, <2>2 DEF BeginApprove, Start, ReadsStillTrue, TypeOK
  <2>3. CASE BeginCancel(q, o)
    BY <2>1, <2>3 DEF BeginCancel, Start, ReadsStillTrue, TypeOK
  <2>4. CASE BeginDelete(q, o)
    BY <2>1, <2>4 DEF BeginDelete, Start, ReadsStillTrue, TypeOK
  <2> QED
    BY <1>2, <2>2, <2>3, <2>4 DEF OrderRequest
<1>3. ASSUME NEW q \in Requests, NEW c \in Customers, BeginEditCustomer(q, c)
      PROVE  SerialInv'
  BY <1>3 DEF BeginEditCustomer, Start, ReadsStillTrue, TypeOK
<1>4. ASSUME NEW q \in Requests, CommitApprove(q) PROVE SerialInv'
  <2>1. PICK o \in Orders : /\ status[o] = "DRAFT"
                            /\ status' = [status EXCEPT ![o] = "APPROVED"]
                            /\ held' = [held EXCEPT ![o] = @ + 1]
    BY <1>4, RequestFields DEF CommitApprove, StillDraft
  <2>2. HeldWhileApproved'
    BY <2>1, SMT DEF TypeOK
  <2> QED
    BY <1>4, <2>2, SerialFinish DEF CommitApprove
<1>5. ASSUME NEW q \in Requests, CommitCancel(q) PROVE SerialInv'
  <2>1. PICK o \in Orders :
          /\ o = request[q].so
          /\ SetCancelled(o)
          /\ \/ request[q].wasApproved /\ held' = [held EXCEPT ![o] = @ - 1]
             \/ ~request[q].wasApproved /\ held' = held
    BY <1>5, RequestFields DEF CommitCancel
  <2>2. status[o] \in {"DRAFT", "APPROVED"}
        /\ request[q].wasApproved = (status[o] = "APPROVED")
    BY <1>5, <2>1 DEF CommitCancel, ReadsStillTrue
  <2>3. status' = [status EXCEPT ![o] = "CANCELLED"]
    BY <2>1, <2>2 DEF SetCancelled, Exists
  <2>4. held[o] = IF status[o] = "APPROVED" THEN 1 ELSE 0
    OBVIOUS
  <2>5. CASE status[o] = "APPROVED"
    <3>1. held' = [held EXCEPT ![o] = @ - 1] /\ held[o] = 1
      BY <2>1, <2>2, <2>4, <2>5
    <3>2. HeldWhileApproved'
      BY <2>3, <3>1, SMT DEF TypeOK
    <3> QED
      BY <3>2, <1>5, SerialFinish DEF CommitCancel
  <2>6. CASE status[o] # "APPROVED"
    <3>1. held' = held /\ held[o] = 0
      BY <2>1, <2>2, <2>4, <2>6
    <3> QED
      BY <2>3, <3>1, <1>5, SerialFinish DEF CommitCancel, TypeOK
  <2> QED
    BY <2>5, <2>6
<1>6. ASSUME NEW q \in Requests, CommitDelete(q) PROVE SerialInv'
  <2>1. PICK o \in Orders : /\ status[o] = "DRAFT"
                            /\ status' = [status EXCEPT ![o] = "DELETED"]
                            /\ held' = held
    BY <1>6, RequestFields DEF CommitDelete, ReadsStillTrue
  <2>2. HeldWhileApproved'
    BY <2>1 DEF TypeOK
  <2> QED
    BY <1>6, <2>2, SerialFinish DEF CommitDelete
<1>7. ASSUME NEW q \in Requests, CommitEditCustomer(q) \/ Abort(q) PROVE SerialInv'
  BY <1>7, SerialFinish DEF CommitEditCustomer, Abort
<1>8. CASE Move
  BY <1>8 DEF Move, orderVars, ReadsStillTrue
<1>9. CASE UNCHANGED vars
  BY <1>9 DEF vars, orderVars, ReadsStillTrue
<1> QED
  BY <1>1, <1>2, <1>3, <1>4, <1>5, <1>6, <1>7, <1>8, <1>9 DEF Next, Commit

\* The documented lifecycle holds of requests that do not overlap: an order holds its
\* reservation exactly while it is APPROVED.
THEOREM SerialHeldWhileApproved ==
  ASSUME Serial
  PROVE  Spec => []HeldWhileApproved
<1>1. TypeOK /\ SerialInv /\ [Next]_vars => SerialInv'
  BY SerialStep
<1>2. SerialInv => HeldWhileApproved
  BY DEF SerialInv
<1> QED
  BY <1>1, <1>2, SerialInit, SalesTypeOK, PTL DEF Spec

-----------------------------------------------------------------------------
(* 4. The credit line *)

(***************************************************************************)
(* Approvals that overlap.  The invariant counts what the approvals still  *)
(* open will charge as if it were charged already: each was allowed when   *)
(* it began, and at most all the others were open then.  A negative amount *)
(* does not count before it is charged, nor what is lifted when it is put  *)
(* back.                                                                   *)
(***************************************************************************)
Charge(r, c) ==
  IF r.op = "approve" /\ CustOf[r.so] = c /\ Amount[r.so] > 0 THEN Amount[r.so] ELSE 0

\* What the open requests rs are going to charge customer c.
Charges(rs, c) == SumFunctionOnSet([q \in Requests |-> Charge(rs[q], c)], Requests)

Burden(c) == usedCredit[c] + Charges(request, c) - lifted[c]

ChargeInv ==
  \A c \in Customers \ edited, a \in LargestAmounts :
    CreditLimit[c] > 0 => Burden(c) <= CreditLimit[c] + (Cardinality(Requests) - 1) * a

\* A request that has checked the credit will charge at most the largest amount.
LEMMA ChargeType ==
  ASSUME NEW r \in RequestRecords, NEW c
  PROVE  /\ Charge(r, c) \in Nat
         /\ \A a \in LargestAmounts : a \in Nat /\ Charge(r, c) <= a
<1>1. r.op = "approve" => r.so \in Orders
  BY SMT DEF RequestRecords, Idle
<1>2. \A a \in LargestAmounts : a \in Nat /\ \A o \in Orders : Amount[o] <= a
  BY SalesAssumption DEF LargestAmounts
<1> QED
  BY <1>1, <1>2, SalesAssumption, SMT DEF Charge

\* So the charges pending are a natural number.
LEMMA ChargesType ==
  ASSUME NEW rs \in [Requests -> RequestRecords], NEW c
  PROVE  Charges(rs, c) \in Nat
<1> DEFINE f == [q \in Requests |-> Charge(rs[q], c)]
<1>1. \A q \in Requests : f[q] \in Nat
  BY ChargeType
<1> HIDE DEF f
<1>2. SumFunctionOnSet(f, Requests) \in Nat
  BY <1>1, SalesAssumption, SumNonNegative
<1> QED
  BY <1>2 DEF Charges, f

\* One goroutine turns to another request.
LEMMA ChargesStep ==
  ASSUME NEW rs \in [Requests -> RequestRecords], NEW q \in Requests,
         NEW r \in RequestRecords, NEW c
  PROVE  Charges([rs EXCEPT ![q] = r], c) = Charges(rs, c) - Charge(rs[q], c) + Charge(r, c)
<1> DEFINE new == [rs EXCEPT ![q] = r]
           f == [p \in Requests |-> Charge(rs[p], c)]
           g == [p \in Requests |-> Charge(new[p], c)]
<1>1. new \in [Requests -> RequestRecords] /\ new[q] = r
      /\ \A p \in Requests \ {q} : new[p] = rs[p]
  OBVIOUS
<1>2. \A p \in Requests : f[p] \in Int /\ g[p] \in Int
  <2> HIDE DEF new
  <2> QED
    BY <1>1, ChargeType
<1>3. \A p \in Requests \ {q} : f[p] = g[p]
  BY <1>1
<1>4. f[q] = Charge(rs[q], c) /\ g[q] = Charge(r, c)
  BY <1>1
<1>5. Charges(rs, c) = SumFunctionOnSet(f, Requests)
      /\ Charges(new, c) = SumFunctionOnSet(g, Requests)
  BY DEF Charges
<1> HIDE DEF f, g, new
<1>6. SumFunctionOnSet(g, Requests) = SumFunctionOnSet(f, Requests) - f[q] + g[q]
  BY <1>2, <1>3, SalesAssumption, SumChangeOne
<1> QED
  BY <1>4, <1>5, <1>6 DEF new

\* What the others can charge, while q is idle.
LEMMA ChargesOfOthers ==
  ASSUME NEW rs \in [Requests -> RequestRecords], NEW q \in Requests, rs[q] = Idle,
         NEW c, NEW a \in LargestAmounts
  PROVE  Charges(rs, c) <= (Cardinality(Requests) - 1) * a
<1> DEFINE f == [p \in Requests |-> Charge(rs[p], c)]
           others == Requests \ {q}
<1>1. \A p \in Requests : f[p] \in Int /\ f[p] <= a
  BY ChargeType
<1>2. a \in Int /\ f[q] = 0
  BY ChargeType DEF Charge, Idle, RequestRecords
<1>3. IsFiniteSet(others) /\ Cardinality(others) = Cardinality(Requests) - 1
  BY SalesAssumption, FS_RemoveElement
<1>4. Charges(rs, c) = SumFunctionOnSet(f, Requests)
  BY DEF Charges
<1> HIDE DEF f
<1>5. SumFunctionOnSet(f, Requests) = f[q] + SumFunctionOnSet(f, others)
  BY <1>1, SalesAssumption, SumTakeOut
<1>6. SumFunctionOnSet(f, others) <= Cardinality(others) * a
  BY <1>1, <1>2, <1>3, SumAtMost
<1>7. SumFunctionOnSet(f, others) \in Int
  BY <1>1, <1>3, SumType
<1> HIDE DEF others
<1> QED
  BY <1>2, <1>3, <1>4, <1>5, <1>6, <1>7

\* Some customer's order of the largest amount, or no order at all.
LEMMA ChargeInit == Init => ChargeInv
<1> SUFFICES ASSUME Init, NEW c \in Customers, NEW a \in LargestAmounts, CreditLimit[c] > 0
             PROVE  Burden(c) <= CreditLimit[c] + (Cardinality(Requests) - 1) * a
  BY DEF ChargeInv
<1>1. PICK q \in Requests : TRUE
  BY SalesAssumption
<1>2. request \in [Requests -> RequestRecords] /\ request[q] = Idle
      /\ usedCredit[c] = 0 /\ lifted[c] = 0
  BY <1>1, SMT DEF Init, RequestRecords
<1>3. PICK k \in Int : k = (Cardinality(Requests) - 1) * a /\ Charges(request, c) <= k
  <2>1. Cardinality(Requests) \in Nat /\ a \in Nat
    BY SalesAssumption, FS_CardinalityType, ChargeType, <1>2
  <2>2. (Cardinality(Requests) - 1) * a \in Int
    BY <2>1
  <2> QED
    BY <1>2, <2>2, ChargesOfOthers
<1>4. CreditLimit[c] \in Int /\ Charges(request, c) \in Nat
  BY <1>2, ChargesType, SalesAssumption
<1> QED
  BY <1>2, <1>3, <1>4 DEF Burden

\* A customer that a form has saved stays on record as edited.
LEMMA EditedGrows ==
  ASSUME [Next]_vars
  PROVE  edited \subseteq edited'
<1>1. ASSUME NEW o \in Orders, Create(o) PROVE edited' = edited
  BY <1>1 DEF Create
<1>2. ASSUME NEW q \in Requests, NEW o \in Orders, OrderRequest(q, o) PROVE edited' = edited
  BY <1>2 DEF OrderRequest, BeginApprove, BeginCancel, BeginDelete, Start
<1>3. ASSUME NEW q \in Requests, NEW c \in Customers, BeginEditCustomer(q, c)
      PROVE  edited' = edited
  BY <1>3 DEF BeginEditCustomer, Start
<1>4. ASSUME NEW q \in Requests, Commit(q) \/ Abort(q) PROVE edited \subseteq edited'
  BY <1>4 DEF Commit, CommitApprove, CommitCancel, CommitDelete, CommitEditCustomer, Abort
<1>5. CASE Move \/ UNCHANGED vars
  BY <1>5 DEF Move, vars, orderVars
<1> QED
  BY <1>1, <1>2, <1>3, <1>4, <1>5 DEF Next

\* No step but the beginning of an approval brings a customer closer to the bound.
LEMMA ChargeSteps ==
  ASSUME LedgerInv, [Next]_vars, NEW c \in Customers \ edited'
  PROVE  \/ Burden(c)' <= Burden(c)
         \/ \E q \in Requests, o \in Orders : BeginApprove(q, o) /\ CustOf[o] = c /\ Amount[o] > 0
<1> USE DEF LedgerInv
<1>1. /\ request \in [Requests -> RequestRecords] /\ usedCredit \in [Customers -> Int]
      /\ lifted \in [Customers -> Nat] /\ lifted[c] \in Nat
      /\ Charges(request, c) \in Nat /\ usedCredit[c] \in Int
  BY ChargesType DEF TypeOK
<1>2. CASE UNCHANGED <<usedCredit, request, lifted>>
  BY <1>1, <1>2 DEF Burden
<1>3. ASSUME NEW q \in Requests, NEW r \in RequestRecords, Charge(r, c) = 0,
             request' = [request EXCEPT ![q] = r],
             usedCredit'[c] \in Int, lifted'[c] \in Int,
             usedCredit'[c] - lifted'[c] <= usedCredit[c] - lifted[c]
      PROVE  Burden(c)' <= Burden(c)
  <2>1. Charges(request', c) = Charges(request, c) - Charge(request[q], c) + Charge(r, c)
    <3>1. request \in [Requests -> RequestRecords]
      BY <1>1
    <3> QED
      BY ONLY <1>3, <3>1, ChargesStep
  <2>2. Charge(request[q], c) \in Nat
    BY <1>1, ChargeType
  <2>3. Charges(request', c) <= Charges(request, c) /\ Charges(request', c) \in Int
    BY <1>1, <1>3, <2>1, <2>2
  <2> QED
    BY <1>1, <1>3, <2>3 DEF Burden
<1>4. ASSUME NEW q \in Requests, NEW r \in RequestRecords, Charge(r, c) = 0,
              request' = [request EXCEPT ![q] = r], UNCHANGED <<usedCredit, lifted>>
       PROVE  Burden(c)' <= Burden(c)
  <2>1. /\ usedCredit'[c] \in Int /\ lifted'[c] \in Int
        /\ usedCredit'[c] - lifted'[c] <= usedCredit[c] - lifted[c]
    BY <1>1, <1>4
  <2> QED
    BY <1>3, <1>4, <2>1
<1>5. Idle \in RequestRecords /\ Charge(Idle, c) = 0
  BY DEF RequestRecords, Charge, Idle
<1>6. ASSUME NEW o \in Orders, Create(o) PROVE UNCHANGED <<usedCredit, request, lifted>>
  BY <1>6 DEF Create
<1>7. ASSUME NEW q \in Requests, NEW o \in Orders, OrderRequest(q, o)
      PROVE  \/ Burden(c)' <= Burden(c)
             \/ BeginApprove(q, o) /\ CustOf[o] = c /\ Amount[o] > 0
  <2>1. CASE BeginApprove(q, o)
    <3> DEFINE r == [op |-> "approve", so |-> o]
    <3>1. r \in RequestRecords /\ (~(CustOf[o] = c /\ Amount[o] > 0) => Charge(r, c) = 0)
      BY DEF RequestRecords, Charge
    <3>2. request' = [request EXCEPT ![q] = r] /\ UNCHANGED <<usedCredit, lifted>>
      BY <2>1 DEF BeginApprove, Start
    <3> HIDE DEF r
    <3> QED
      BY <1>4, <2>1, <3>1, <3>2
  <2>2. CASE BeginCancel(q, o)
    <3> DEFINE r == [op |-> "cancel", so |-> o, wasApproved |-> status[o] = "APPROVED"]
    <3>1. r \in RequestRecords /\ Charge(r, c) = 0
      BY DEF RequestRecords, Charge
    <3>2. request' = [request EXCEPT ![q] = r] /\ UNCHANGED <<usedCredit, lifted>>
      BY <2>2 DEF BeginCancel, Start
    <3> HIDE DEF r
    <3> QED
      BY <1>4, <3>1, <3>2
  <2>3. CASE BeginDelete(q, o)
    <3> DEFINE r == [op |-> "delete", so |-> o]
    <3>1. r \in RequestRecords /\ Charge(r, c) = 0
      BY DEF RequestRecords, Charge
    <3>2. request' = [request EXCEPT ![q] = r] /\ UNCHANGED <<usedCredit, lifted>>
      BY <2>3 DEF BeginDelete, Start
    <3> HIDE DEF r
    <3> QED
      BY <1>4, <3>1, <3>2
  <2> QED
    BY <1>7, <2>1, <2>2, <2>3 DEF OrderRequest
<1>8. ASSUME NEW q \in Requests, NEW d \in Customers, BeginEditCustomer(q, d)
      PROVE  Burden(c)' <= Burden(c)
  <2>1. PICK used \in {0, usedCredit[d]} :
          Start(q, [op |-> "editCustomer", customer |-> d, used |-> used])
    BY <1>8 DEF BeginEditCustomer
  <2> DEFINE r == [op |-> "editCustomer", customer |-> d, used |-> used]
  <2>2. r \in RequestRecords /\ Charge(r, c) = 0
    BY SMT DEF RequestRecords, Charge, TypeOK
  <2>3. request' = [request EXCEPT ![q] = r] /\ UNCHANGED <<usedCredit, lifted>>
    BY <2>1 DEF Start
  <2> HIDE DEF r
  <2> QED
    BY <1>4, <2>2, <2>3
<1>9. ASSUME NEW q \in Requests, CommitApprove(q)
      PROVE  Burden(c)' <= Burden(c)
  <2>1. PICK o \in Orders :
          /\ o = request[q].so /\ request[q].op = "approve"
          /\ usedCredit' = [usedCredit EXCEPT ![CustOf[o]] = @ + Amount[o]]
          /\ request' = [request EXCEPT ![q] = Idle] /\ lifted' = lifted
    BY <1>9, RequestFields DEF CommitApprove, Finish
  <2>2. /\ CustOf[o] \in Customers /\ Amount[o] \in Int
        /\ Charge(request[q], c) = IF CustOf[o] = c /\ Amount[o] > 0 THEN Amount[o] ELSE 0
    BY <2>1, SalesAssumption DEF Charge
  <2>3. usedCredit'[c] \in Int /\ usedCredit'[c] <= usedCredit[c] + Charge(request[q], c)
    BY <1>1, <2>1, <2>2
  <2>4. Charges(request', c) = Charges(request, c) - Charge(request[q], c) + Charge(Idle, c)
    <3>1. request \in [Requests -> RequestRecords]
      BY <1>1
    <3> QED
      BY ONLY <1>5, <2>1, <3>1, ChargesStep
  <2>5. Charge(request[q], c) \in Nat
    BY <1>1, ChargeType
  <2> QED
    BY <1>1, <1>5, <2>1, <2>3, <2>4, <2>5 DEF Burden
<1>10. ASSUME NEW q \in Requests, CommitCancel(q)
      PROVE  Burden(c)' <= Burden(c)
  <2>1. PICK o \in Orders : Refund(o) \/ UNCHANGED <<usedCredit, lifted>>
    BY <1>10, RequestFields DEF CommitCancel
  <2>2. /\ usedCredit'[c] \in Int /\ lifted'[c] \in Int
        /\ usedCredit'[c] - lifted'[c] <= usedCredit[c] - lifted[c]
    <3>1. Amount[o] \in Int /\ CustOf[o] \in Customers
      BY SalesAssumption
    <3>2. CASE UNCHANGED <<usedCredit, lifted>>
      BY <1>1, <3>2
    <3>3. CASE Refund(o) /\ Amount[o] < 0
      BY <1>1, <3>1, <3>3, SMT DEF Refund
    <3>4. CASE Refund(o) /\ ~(Amount[o] < 0)
      BY <1>1, <3>1, <3>4, SMT DEF Refund
    <3> QED
      BY <2>1, <3>2, <3>3, <3>4
  <2> QED
    BY <1>3, <1>5, <1>10, <2>2 DEF CommitCancel, Finish
<1>11. ASSUME NEW q \in Requests, CommitDelete(q) \/ CommitEditCustomer(q) \/ Abort(q)
       PROVE  Burden(c)' <= Burden(c)
  <2>1. usedCredit'[c] = usedCredit[c] /\ lifted' = lifted
    BY <1>1, <1>11, RequestFields DEF CommitDelete, CommitEditCustomer, Abort
  <2>2. request' = [request EXCEPT ![q] = Idle]
    BY <1>11 DEF CommitDelete, CommitEditCustomer, Abort, Finish
  <2>3. /\ usedCredit'[c] \in Int /\ lifted'[c] \in Int
        /\ usedCredit'[c] - lifted'[c] <= usedCredit[c] - lifted[c]
    BY <1>1, <2>1
  <2> QED
    BY <1>3, <1>5, <2>2, <2>3
<1>12. CASE Move
  BY <1>2, <1>12 DEF Move, orderVars
<1>13. CASE UNCHANGED vars
  BY <1>2, <1>13 DEF vars, orderVars
<1> QED
  BY <1>2, <1>6, <1>7, <1>8, <1>9, <1>10, <1>11, <1>12, <1>13 DEF Next, Commit

\* Every step keeps used_credit and the charges pending within the bound.
LEMMA ChargeStep ==
  ASSUME LedgerInv, LedgerInv', ChargeInv, [Next]_vars
  PROVE  ChargeInv'
<1> SUFFICES ASSUME NEW c \in Customers \ edited', NEW a \in LargestAmounts, CreditLimit[c] > 0
             PROVE  Burden(c)' <= CreditLimit[c] + (Cardinality(Requests) - 1) * a
  BY DEF ChargeInv
<1>1. edited \subseteq edited'
  BY EditedGrows
<1>2. /\ request \in [Requests -> RequestRecords] /\ request' \in [Requests -> RequestRecords]
      /\ usedCredit[c] \in Int /\ usedCredit'[c] \in Int /\ CreditLimit[c] \in Int
      /\ lifted[c] \in Nat /\ lifted'[c] \in Nat /\ Burden(c) \in Int /\ Burden(c)' \in Int
      /\ Charges(request, c) \in Nat /\ Charges(request', c) \in Nat
  BY ChargesType, SalesAssumption DEF LedgerInv, TypeOK, Burden
<1>3. PICK k \in Int : k = (Cardinality(Requests) - 1) * a
  <2>1. Cardinality(Requests) \in Nat /\ a \in Nat
    BY SalesAssumption, FS_CardinalityType, ChargeType, <1>2
  <2> QED
    BY <2>1
<1>4. Burden(c) <= CreditLimit[c] + k
  BY <1>1, <1>3 DEF ChargeInv
<1>5. CASE Burden(c)' <= Burden(c)
  <2>1. Burden(c)' <= CreditLimit[c] + k
    BY <1>2, <1>4, <1>5
  <2> QED
    BY <1>3, <2>1
<1>6. ASSUME NEW q \in Requests, NEW o \in Orders, BeginApprove(q, o), CustOf[o] = c,
             Amount[o] > 0
      PROVE  Burden(c)' <= CreditLimit[c] + k
  <2> DEFINE r == [op |-> "approve", so |-> o]
  <2>1. r \in RequestRecords /\ Charge(r, c) = Amount[o] /\ Amount[o] \in Nat
    <3>1. r \in RequestRecords
      BY DEF RequestRecords
    <3>2. Amount[o] \in Nat
      BY <1>6, SalesAssumption
    <3> QED
      BY <1>6, <3>1, <3>2 DEF Charge
  <2>2. request' = [request EXCEPT ![q] = r] /\ request[q] = Idle
        /\ UNCHANGED <<usedCredit, lifted>>
    BY <1>6 DEF BeginApprove, Start
  <2> HIDE DEF r
  <2>3. Charges(request', c) = Charges(request, c) - Charge(request[q], c) + Charge(r, c)
    <3>1. PICK s \in RequestRecords : s = r
      BY <2>1
    <3>2. request \in [Requests -> RequestRecords]
      BY <1>2
    <3>3. Charges([request EXCEPT ![q] = s], c)
            = Charges(request, c) - Charge(request[q], c) + Charge(s, c)
      BY <3>2, ChargesStep
    <3> QED
      BY <2>2, <3>1, <3>3
  <2>4. Charge(request[q], c) = 0
    BY <2>2 DEF Charge, Idle
  <2>5. Charges(request, c) <= k
    BY <1>2, <1>3, <2>2, ChargesOfOthers
  <2>6. usedCredit[c] + Amount[o] <= CreditLimit[c]
    BY <1>6 DEF BeginApprove, CreditAllows
  <2>7. Charges(request', c) = Charges(request, c) + Amount[o] /\ usedCredit'[c] = usedCredit[c]
    BY <1>2, <2>1, <2>2, <2>3, <2>4
  <2>8. Burden(c)' = usedCredit[c] + Amount[o] + Charges(request, c) - lifted'[c]
    BY <1>2, <2>1, <2>7 DEF Burden
  <2> QED
    BY ONLY <1>2, <1>3, <2>1, <2>5, <2>6, <2>8
<1> QED
  BY <1>3, <1>5, <1>6, ChargeSteps

\* Approvals that overlap overshoot the limit by what the other requests in flight can
\* add, one order each, and no sequence of requests carries used_credit further, except
\* by what the cancellation of orders of negative amount puts back.
THEOREM CreditOvershoot == Spec => []CreditOvershootBounded
<1>1. LedgerInv /\ LedgerInv' /\ ChargeInv /\ [Next]_vars => ChargeInv'
  BY ChargeStep
<1>2. LedgerInv /\ ChargeInv => CreditOvershootBounded
  <2> SUFFICES ASSUME LedgerInv, ChargeInv, NEW c \in Customers \ edited,
                      NEW a \in LargestAmounts, CreditLimit[c] > 0
               PROVE  usedCredit[c]
                        <= CreditLimit[c] + (Cardinality(Requests) - 1) * a + lifted[c]
    BY DEF CreditOvershootBounded
  <2>1. usedCredit[c] \in Int /\ CreditLimit[c] \in Int /\ Charges(request, c) \in Nat
        /\ lifted[c] \in Nat
    BY ChargesType, SalesAssumption DEF LedgerInv, TypeOK
  <2>2. PICK k \in Int : k = (Cardinality(Requests) - 1) * a
    <3>1. Cardinality(Requests) \in Nat /\ a \in Nat
      BY SalesAssumption, FS_CardinalityType, ChargeType DEF LedgerInv, TypeOK
    <3> QED
      BY <3>1
  <2>3. Burden(c) <= CreditLimit[c] + k
    BY <2>2 DEF ChargeInv
  <2> QED
    BY <2>1, <2>2, <2>3 DEF Burden
<1> QED
  BY <1>1, <1>2, ChargeInit, LedgerInvariant, PTL DEF Spec

(***************************************************************************)
(* Approvals one at a time.  The invariant adds that an open approval      *)
(* still fits the limit: nobody has charged or refunded anything since.    *)
(***************************************************************************)
OpenApprovalsFit == \A q \in Requests : request[q].op = "approve" => CreditAllows(request[q].so)

ExposureInv == UsedCreditIsExposure /\ OpenApprovalsFit

\* The approved orders of customer c, when the status columns are st.
ApprovedOf(st, c) == {o \in Orders : CustOf[o] = c /\ st[o] = "APPROVED"}

\* The exposure of a customer is the sum of its approved orders' amounts.
LEMMA ExposureIsSum ==
  /\ \A c : Exposure(c) = SumFunctionOnSet(Amount, ApprovedOf(status, c))
  /\ \A c : Exposure(c)' = SumFunctionOnSet(Amount, ApprovedOf(status', c))
BY DEF Exposure, ApprovedOf

\* Sums of amounts are finite, and not negative where no amount is.
LEMMA AmountsFinite ==
  ASSUME NEW T, T \subseteq Orders
  PROVE  /\ IsFiniteSet(T) /\ SumFunctionOnSet(Amount, T) \in Int
         /\ (\A o \in T : Amount[o] >= 0) => SumFunctionOnSet(Amount, T) \in Nat
<1>1. IsFiniteSet(T)
  BY SalesAssumption, FS_Subset
<1>2. \A o \in T : Amount[o] \in Int
  BY SalesAssumption
<1>3. SumFunctionOnSet(Amount, T) \in Int
  BY <1>1, <1>2, SumType
<1>4. ASSUME \A o \in T : Amount[o] >= 0
      PROVE  SumFunctionOnSet(Amount, T) \in Nat
  <2>1. \A o \in T : Amount[o] \in Nat
    BY <1>2, <1>4
  <2> QED
    BY <1>1, <2>1, SumNonNegative
<1> QED
  BY <1>1, <1>3, <1>4

\* One more approved order adds its amount to its customer's exposure.
LEMMA ApprovedMore ==
  ASSUME NEW st \in [Orders -> Statuses], NEW o \in Orders, st[o] # "APPROVED", NEW c
  PROVE  SumFunctionOnSet(Amount, ApprovedOf([st EXCEPT ![o] = "APPROVED"], c))
           = SumFunctionOnSet(Amount, ApprovedOf(st, c))
               + (IF CustOf[o] = c THEN Amount[o] ELSE 0)
<1> DEFINE S == ApprovedOf(st, c)
           T == ApprovedOf([st EXCEPT ![o] = "APPROVED"], c)
<1>1. S \subseteq Orders /\ o \notin S
  BY DEF ApprovedOf
<1>2. T = IF CustOf[o] = c THEN S \union {o} ELSE S
  BY DEF ApprovedOf
<1>3. /\ \A p \in S \union {o} : Amount[p] \in Int
      /\ Amount[o] \in Int /\ SumFunctionOnSet(Amount, S) \in Int /\ IsFiniteSet(S)
  BY <1>1, AmountsFinite, SalesAssumption
<1> HIDE DEF S, T
<1>4. SumFunctionOnSet(Amount, S \union {o}) = Amount[o] + SumFunctionOnSet(Amount, S)
  BY <1>1, <1>3, SumPutIn
<1>5. SumFunctionOnSet(Amount, T)
        = SumFunctionOnSet(Amount, S) + (IF CustOf[o] = c THEN Amount[o] ELSE 0)
  BY <1>2, <1>3, <1>4
<1> QED
  BY <1>5 DEF S, T

\* With requests one at a time, an approved order can only be cancelled, and stays so.
LEMMA DiscountedGrows ==
  ASSUME LedgerInv, SerialInv, [Next]_vars, NEW c, Discounted(c)
  PROVE  Discounted(c)'
<1>0. TypeOK
  BY DEF LedgerInv
<1>1. PICK o \in Orders :
        CustOf[o] = c /\ Amount[o] < 0 /\ status[o] \in {"APPROVED", "CANCELLED"}
  BY DEF Discounted
<1>2. ASSUME NEW p \in Orders, Create(p) PROVE status'[o] = status[o]
  BY <1>0, <1>1, <1>2 DEF Create, TypeOK
<1>3. ASSUME NEW q \in Requests, NEW p \in Orders, OrderRequest(q, p) PROVE status' = status
  BY <1>3 DEF OrderRequest, BeginApprove, BeginCancel, BeginDelete, Start
<1>4. ASSUME NEW q \in Requests, NEW d \in Customers, BeginEditCustomer(q, d)
      PROVE  status' = status
  BY <1>4 DEF BeginEditCustomer, Start
<1>5. ASSUME NEW q \in Requests, CommitApprove(q) PROVE status'[o] = status[o]
  BY <1>0, <1>1, <1>5, RequestFields DEF CommitApprove, StillDraft, TypeOK
<1>6. ASSUME NEW q \in Requests, CommitCancel(q)
      PROVE  status'[o] \in {status[o], "CANCELLED"}
  BY <1>0, <1>6, RequestFields DEF CommitCancel, SetCancelled, TypeOK
<1>7. ASSUME NEW q \in Requests, CommitDelete(q) PROVE status'[o] = status[o]
  <2>1. status[request[q].so] = "DRAFT"
    BY <1>7 DEF CommitDelete, SerialInv, ReadsStillTrue
  <2> QED
    BY <1>0, <1>1, <1>7, <2>1 DEF CommitDelete, TypeOK
<1>8. ASSUME NEW q \in Requests, CommitEditCustomer(q) \/ Abort(q) PROVE status' = status
  BY <1>8 DEF CommitEditCustomer, Abort
<1>9. ASSUME Move \/ UNCHANGED vars PROVE status' = status
  BY <1>9 DEF Move, vars, orderVars
<1>10. status'[o] \in {"APPROVED", "CANCELLED"}
  BY <1>1, <1>2, <1>3, <1>4, <1>5, <1>6, <1>7, <1>8, <1>9 DEF Next, Commit
<1> QED
  BY <1>1, <1>10 DEF Discounted

\* A step that leaves the approved orders and used_credit as they are.
LEMMA ExposureKept ==
  ASSUME LedgerInv, SerialInv, ExposureInv, [Next]_vars, usedCredit' = usedCredit,
         \A c : ApprovedOf(status', c) = ApprovedOf(status, c)
  PROVE  UsedCreditIsExposure'
<1> SUFFICES ASSUME NEW c \in Customers \ edited', ~Discounted(c)'
             PROVE  /\ usedCredit'[c] = Exposure(c)'
                    /\ CreditLimit[c] > 0 => Exposure(c)' <= CreditLimit[c]
  BY DEF UsedCreditIsExposure
<1>1. c \in Customers \ edited /\ ~Discounted(c)
  BY EditedGrows, DiscountedGrows
<1>2. usedCredit[c] = Exposure(c) /\ (CreditLimit[c] > 0 => Exposure(c) <= CreditLimit[c])
  BY <1>1 DEF ExposureInv, UsedCreditIsExposure
<1>3. Exposure(c)' = Exposure(c)
  BY ExposureIsSum
<1> QED
  BY <1>2, <1>3

\* The only request there is has closed: no approval is open.
LEMMA FitFinish ==
  ASSUME Serial, TypeOK, NEW q \in Requests, Finish(q)
  PROVE  OpenApprovalsFit'
<1>1. \A p \in Requests : request'[p] = Idle
  BY DEF Serial, Finish, TypeOK
<1> QED
  BY <1>1 DEF OpenApprovalsFit, Idle

\* At first there is no exposure.
LEMMA ExposureInit == Init => ExposureInv
<1> SUFFICES ASSUME Init PROVE ExposureInv
  OBVIOUS
<1>1. ASSUME NEW c \in Customers PROVE Exposure(c) = 0 /\ usedCredit[c] = 0
  <2>1. ApprovedOf(status, c) = {}
    BY DEF Init, ApprovedOf
  <2> QED
    BY <2>1, ExposureIsSum, SumOfNothing DEF Init
<1>2. OpenApprovalsFit
  BY DEF Init, OpenApprovalsFit, Idle
<1> QED
  BY <1>1, <1>2, SalesAssumption, SMT DEF ExposureInv, UsedCreditIsExposure

\* With requests one at a time, used_credit follows the exposure.
LEMMA ExposureStep ==
  ASSUME Serial, LedgerInv, SerialInv, ExposureInv, [Next]_vars
  PROVE  ExposureInv'
<1> USE DEF ExposureInv
<1>1. /\ TypeOK /\ status \in [Orders -> Statuses] /\ usedCredit \in [Customers -> Int]
      /\ edited \subseteq edited'
  BY EditedGrows DEF LedgerInv, TypeOK
<1>2. ASSUME UNCHANGED <<usedCredit, request>> PROVE OpenApprovalsFit'
  BY <1>2 DEF OpenApprovalsFit, CreditAllows
<1>3. ASSUME NEW o \in Orders, Create(o) PROVE ExposureInv'
  <2>1. status[o] = "NONE" /\ status' = [status EXCEPT ![o] = "DRAFT"]
        /\ UNCHANGED <<usedCredit, request>>
    BY <1>3 DEF Create
  <2>2. \A c : ApprovedOf(status', c) = ApprovedOf(status, c)
    BY <1>1, <2>1 DEF ApprovedOf
  <2> QED
    BY <1>2, <2>1, <2>2, ExposureKept
<1>4. ASSUME NEW q \in Requests, NEW o \in Orders, OrderRequest(q, o) PROVE ExposureInv'
  <2>1. UNCHANGED <<status, usedCredit>>
    BY <1>4 DEF OrderRequest, BeginApprove, BeginCancel, BeginDelete, Start
  <2>2. CASE BeginApprove(q, o)
    <3>1. request' = [request EXCEPT ![q] = [op |-> "approve", so |-> o]] /\ CreditAllows(o)
      BY <2>2 DEF BeginApprove, Start
    <3>2. \A p \in Requests : request'[p].op = "approve" => CreditAllows(request'[p].so)
      BY <1>1, <3>1 DEF TypeOK, OpenApprovalsFit
    <3> QED
      BY <2>1, <3>2, ExposureKept DEF OpenApprovalsFit, CreditAllows
  <2>3. CASE BeginCancel(q, o) \/ BeginDelete(q, o)
    <3>1. PICK r : request' = [request EXCEPT ![q] = r] /\ r.op # "approve"
      <4>1. \A w : [op |-> "cancel", so |-> o, wasApproved |-> w].op # "approve"
        OBVIOUS
      <4>2. [op |-> "delete", so |-> o].op # "approve"
        OBVIOUS
      <4> QED
        BY <2>3, <4>1, <4>2, Zenon DEF BeginCancel, BeginDelete, Start
    <3>2. \A p \in Requests : request'[p].op = "approve" => CreditAllows(request'[p].so)
      BY <1>1, <3>1 DEF TypeOK, OpenApprovalsFit
    <3> QED
      BY <2>1, <3>2, ExposureKept DEF OpenApprovalsFit, CreditAllows
  <2> QED
    BY <1>4, <2>2, <2>3 DEF OrderRequest
<1>5. ASSUME NEW q \in Requests, NEW d \in Customers, BeginEditCustomer(q, d)
      PROVE  ExposureInv'
  <2>1. UNCHANGED <<status, usedCredit>>
    BY <1>5 DEF BeginEditCustomer, Start
  <2>2. PICK r : request' = [request EXCEPT ![q] = r] /\ r.op # "approve"
    <3>1. PICK used : Start(q, [op |-> "editCustomer", customer |-> d, used |-> used])
      BY <1>5 DEF BeginEditCustomer
    <3>2. [op |-> "editCustomer", customer |-> d, used |-> used].op # "approve"
      OBVIOUS
    <3> QED
      BY <3>1, <3>2, Zenon DEF Start
  <2>3. \A p \in Requests : request'[p].op = "approve" => CreditAllows(request'[p].so)
    BY <1>1, <2>2 DEF TypeOK, OpenApprovalsFit
  <2> QED
    BY <2>1, <2>3, ExposureKept DEF OpenApprovalsFit, CreditAllows
<1>6. ASSUME NEW q \in Requests, CommitApprove(q) PROVE ExposureInv'
  <2>1. PICK o \in Orders :
          /\ o = request[q].so /\ status[o] = "DRAFT"
          /\ usedCredit' = [usedCredit EXCEPT ![CustOf[o]] = @ + Amount[o]]
          /\ status' = [status EXCEPT ![o] = "APPROVED"]
    BY <1>1, <1>6, RequestFields DEF CommitApprove, StillDraft
  <2>2. CreditAllows(o)
    BY <1>6, <2>1 DEF CommitApprove, OpenApprovalsFit
  <2>3. ASSUME NEW c \in Customers \ edited', ~Discounted(c)'
        PROVE  /\ usedCredit'[c] = Exposure(c)'
               /\ CreditLimit[c] > 0 => Exposure(c)' <= CreditLimit[c]
    <3>1. Exposure(c)' = Exposure(c) + (IF CustOf[o] = c THEN Amount[o] ELSE 0)
      <4>1. SumFunctionOnSet(Amount, ApprovedOf([status EXCEPT ![o] = "APPROVED"], c))
              = SumFunctionOnSet(Amount, ApprovedOf(status, c))
                  + (IF CustOf[o] = c THEN Amount[o] ELSE 0)
        <5>1. status \in [Orders -> Statuses] /\ status[o] # "APPROVED"
          BY <1>1, <2>1
        <5> QED
          BY ONLY <5>1, ApprovedMore
      <4> QED
        BY <2>1, <4>1, ExposureIsSum
    <3>2. usedCredit[c] = Exposure(c) /\ (CreditLimit[c] > 0 => Exposure(c) <= CreditLimit[c])
      BY <1>1, <2>3, DiscountedGrows DEF UsedCreditIsExposure
    <3>3. usedCredit[c] \in Int /\ Amount[o] \in Int /\ CreditLimit[c] \in Int
      BY <1>1, SalesAssumption, SMT
    <3>4. CustOf[o] = c => (CreditLimit[c] > 0 => usedCredit[c] + Amount[o] <= CreditLimit[c])
      BY <2>2 DEF CreditAllows
    <3>5. usedCredit'[c] = usedCredit[c] + (IF CustOf[o] = c THEN Amount[o] ELSE 0)
      BY <1>1, <2>1, <3>3
    <3> QED
      BY <3>1, <3>2, <3>3, <3>4, <3>5
  <2> QED
    BY <1>1, <1>6, <2>3, FitFinish DEF CommitApprove, UsedCreditIsExposure
<1>7. ASSUME NEW q \in Requests, CommitCancel(q) PROVE ExposureInv'
  <2>1. PICK o \in Orders :
          /\ o = request[q].so /\ SetCancelled(o)
          /\ \/ request[q].wasApproved /\ Refund(o)
             \/ ~request[q].wasApproved /\ usedCredit' = usedCredit
    BY <1>1, <1>7, RequestFields DEF CommitCancel
  <2>2. status[o] \in {"DRAFT", "APPROVED"}
        /\ request[q].wasApproved = (status[o] = "APPROVED")
    BY <1>7, <2>1 DEF CommitCancel, SerialInv, ReadsStillTrue
  <2>3. status' = [status EXCEPT ![o] = "CANCELLED"]
    BY <2>1, <2>2 DEF SetCancelled, Exists
  <2>4. CASE status[o] = "DRAFT"
    <3>1. usedCredit' = usedCredit
      BY <2>1, <2>2, <2>4
    <3>2. \A c : ApprovedOf(status', c) = ApprovedOf(status, c)
      BY <1>1, <2>3, <2>4 DEF ApprovedOf
    <3> QED
      BY <1>1, <1>7, <3>1, <3>2, ExposureKept, FitFinish DEF CommitCancel
  <2>5. CASE status[o] = "APPROVED"
    <3>1. status'[o] # "APPROVED" /\ status' \in [Orders -> Statuses]
          /\ status = [status' EXCEPT ![o] = "APPROVED"]
      BY <1>1, <2>3, <2>5 DEF Statuses
    <3>2. ASSUME NEW c \in Customers \ edited', ~Discounted(c)'
          PROVE  /\ usedCredit'[c] = Exposure(c)'
                 /\ CreditLimit[c] > 0 => Exposure(c)' <= CreditLimit[c]
      <4>1. PICK st \in [Orders -> Statuses] : st = status'
        BY <3>1
      <4>2. SumFunctionOnSet(Amount, ApprovedOf([st EXCEPT ![o] = "APPROVED"], c))
              = SumFunctionOnSet(Amount, ApprovedOf(st, c))
                  + (IF CustOf[o] = c THEN Amount[o] ELSE 0)
        BY <3>1, <4>1, ApprovedMore
      <4>3. Exposure(c) = Exposure(c)' + (IF CustOf[o] = c THEN Amount[o] ELSE 0)
        BY <3>1, <4>1, <4>2, ExposureIsSum
      <4>4. usedCredit[c] = Exposure(c)
            /\ (CreditLimit[c] > 0 => Exposure(c) <= CreditLimit[c])
        BY <1>1, <3>2, DiscountedGrows DEF UsedCreditIsExposure
      <4>5. Exposure(c)' \in Nat
        <5>1. \A p \in ApprovedOf(status', c) : p \in Orders /\ Amount[p] \in Int
          BY SalesAssumption DEF ApprovedOf
        <5>2. \A p \in ApprovedOf(status', c) : ~(Amount[p] < 0)
          BY <3>2 DEF ApprovedOf, Discounted
        <5>3. ApprovedOf(status', c) \subseteq Orders
              /\ \A p \in ApprovedOf(status', c) : Amount[p] >= 0
          BY <5>1, <5>2
        <5>4. SumFunctionOnSet(Amount, ApprovedOf(status', c)) \in Nat
          BY <5>3, AmountsFinite
        <5> QED
          BY <5>4, ExposureIsSum
      <4>6. usedCredit[c] \in Int /\ Amount[o] \in Int /\ CreditLimit[c] \in Int
            /\ (CustOf[o] = c => Amount[o] >= 0)
        <5>1. usedCredit[c] \in Int /\ Amount[o] \in Int /\ CreditLimit[c] \in Int
          BY <1>1, SalesAssumption, SMT
        <5>2. ~Discounted(c)
          BY <3>2, DiscountedGrows
        <5>3. CustOf[o] = c => ~(Amount[o] < 0)
          BY <2>5, <5>2 DEF Discounted
        <5> QED
          BY <5>1, <5>3
      <4>7. CustOf[o] = c => usedCredit[c] >= Amount[o]
        BY <4>3, <4>4, <4>5, <4>6
      <4>8. usedCredit'[c] = usedCredit[c] - (IF CustOf[o] = c THEN Amount[o] ELSE 0)
        <5>1. IF usedCredit[CustOf[o]] >= Amount[o]
              THEN usedCredit' = [usedCredit EXCEPT ![CustOf[o]] = @ - Amount[o]]
              ELSE usedCredit' = usedCredit
          BY <2>1, <2>2, <2>5 DEF Refund
        <5>2. CASE CustOf[o] = c
          BY <1>1, <4>6, <4>7, <5>1, <5>2
        <5>3. CASE CustOf[o] # c
          <6>1. usedCredit'[c] = usedCredit[c]
            BY <1>1, <5>1, <5>3
          <6> QED
            BY <4>6, <5>3, <6>1
        <5> QED
          BY <5>2, <5>3
      <4> QED
        BY <4>3, <4>4, <4>5, <4>6, <4>8
    <3> QED
      BY <1>1, <1>7, <3>2, FitFinish DEF CommitCancel, UsedCreditIsExposure
  <2> QED
    BY <2>2, <2>4, <2>5
<1>8. ASSUME NEW q \in Requests, CommitDelete(q) PROVE ExposureInv'
  <2>1. PICK o \in Orders : /\ status[o] = "DRAFT"
                            /\ status' = [status EXCEPT ![o] = "DELETED"]
                            /\ usedCredit' = usedCredit
    BY <1>1, <1>8, RequestFields DEF CommitDelete, SerialInv, ReadsStillTrue
  <2>2. \A c : ApprovedOf(status', c) = ApprovedOf(status, c)
    BY <1>1, <2>1 DEF ApprovedOf
  <2> QED
    BY <1>1, <1>8, <2>1, <2>2, ExposureKept, FitFinish DEF CommitDelete
<1>9. ASSUME NEW q \in Requests, CommitEditCustomer(q) PROVE ExposureInv'
  <2>1. PICK d \in Customers : /\ usedCredit' = [usedCredit EXCEPT ![d] = request[q].used]
                               /\ edited' = edited \union {d} /\ status' = status
    BY <1>1, <1>9, RequestFields DEF CommitEditCustomer
  <2>2. \A c \in Customers \ edited' :
          /\ c \in Customers \ edited
          /\ usedCredit'[c] = usedCredit[c] /\ Exposure(c)' = Exposure(c)
          /\ ~Discounted(c)' => ~Discounted(c)
    BY <1>1, <2>1, ExposureIsSum, DiscountedGrows
  <2> QED
    BY <1>1, <1>9, <2>2, FitFinish DEF CommitEditCustomer, UsedCreditIsExposure
<1>10. ASSUME NEW q \in Requests, Abort(q) PROVE ExposureInv'
  BY <1>1, <1>10, ExposureKept, FitFinish DEF Abort
<1>11. CASE Move
  BY <1>2, <1>11, ExposureKept DEF Move, orderVars
<1>12. CASE UNCHANGED vars
  BY <1>2, <1>12, ExposureKept DEF vars, orderVars
<1> QED
  BY <1>3, <1>4, <1>5, <1>6, <1>7, <1>8, <1>9, <1>10, <1>11, <1>12 DEF Next, Commit

\* While requests do not overlap, used_credit is what a customer's approved orders
\* amount to, cancellations and refunds included, and stays within the limit, for every
\* customer whose row no form has saved and who has had no order of negative amount
\* approved.
THEOREM SerialCredit ==
  ASSUME Serial
  PROVE  Spec => []UsedCreditIsExposure
<1>1. LedgerInv /\ SerialInv /\ ExposureInv /\ [Next]_vars => SerialInv' /\ ExposureInv'
  BY SerialStep, ExposureStep DEF LedgerInv
<1>2. ExposureInv => UsedCreditIsExposure
  BY DEF ExposureInv
<1> QED
  BY <1>1, <1>2, SerialInit, ExposureInit, LedgerInvariant, PTL DEF Spec
=============================================================================
