-------------------------- MODULE ProcurementProofs --------------------------
(***************************************************************************)
(* Theorems about Procurement for any number of orders, lines, suppliers   *)
(* and concurrent requests, in three parts:                                *)
(*                                                                         *)
(*   1. a line is never over-received; without a race on the order a       *)
(*      receipt finds it open, and a deleted order stays away.  The last   *)
(*      two concern checks made before a transaction: what holds at the    *)
(*      check still holds in the transaction unless another request wrote  *)
(*      the order in between, and then it is in raced (StillTrueInv);      *)
(*   2. the total of an order nobody raced on is that of its lines;        *)
(*   3. typing, and what receipts explain: the received quantity of every  *)
(*      line and the stock of every row, in every interleaving.            *)
(***************************************************************************)
EXTENDS Procurement, SumTheorems

\* The rows of pur_order: the total is 0 or the sum of some details.
Headers == [status : Statuses, supplier : Suppliers,
            total : {0} \union {SumOver(content) : content \in Contents}]

\* What a goroutine holds; a header it read was that of an order that exists.
IsRequest(r) ==
  \/ r = Idle
  \/ /\ r.op \in {"setStatus", "updateFull", "updateHeader", "receive"}
     /\ r.po \in POs
     /\ r.op \in {"setStatus", "updateFull"} => r.header \in Headers /\ r.header.status # "NONE"
     /\ r.op = "updateHeader" => r.supplier \in Suppliers

ShapeInv ==
  /\ header \in [POs -> Headers]
  /\ details \in [POs -> Details]
  /\ request = [q \in Requests |-> request[q]]
  /\ \A q \in Requests : IsRequest(request[q])

\* What an open request has checked is still true of an order nobody raced on.
StillTrueInv ==
  \A q \in Requests :
    request[q] # Idle /\ request[q].po \notin raced =>
      /\ Exists(request[q].po)
      /\ request[q].op = "receive" => Receivable(request[q].po)

\* An order that exists, or that a request has read, has been given lines.
HasLinesInv ==
  /\ \A p \in POs : Exists(p) => details[p].gen > 0
  /\ \A q \in Requests : request[q] # Idle => details[request[q].po].gen > 0

\* Lines are replaced by younger ones only.
LinesGrow == \A p \in POs : details'[p].gen >= details[p].gen

ProcurementInv == ShapeInv /\ StillTrueInv /\ HasLinesInv /\ NoOverReceipt

\* The invariant holds before the first order.
LEMMA InitProcurement == Init => ProcurementInv
<1> SUFFICES ASSUME Init PROVE ProcurementInv
  OBVIOUS
<1>1. PICK s \in Suppliers :
        header = [p \in POs |-> [status |-> "NONE", supplier |-> s, total |-> 0]]
  BY DEF Init
<1>2. header \in [POs -> Headers]
  BY <1>1 DEF Headers, Statuses
<1>3. details \in [POs -> Details]
  BY DEF Init, NoLines, Details
<1>4. ShapeInv
  BY <1>1, <1>2, <1>3 DEF Init, ShapeInv, IsRequest
<1>5. StillTrueInv
  BY DEF Init, StillTrueInv
<1>6. NoOverReceipt
  BY DEF Init, NoOverReceipt, NoLines
<1>7. HasLinesInv
  BY <1>1 DEF Init, HasLinesInv, Exists
<1> QED
  BY <1>4, <1>5, <1>6, <1>7 DEF ProcurementInv

\* Opening a request: it has just checked what StillTrueInv says of it.
LEMMA StartStep ==
  ASSUME ProcurementInv, NEW q \in Requests, NEW r, Start(q, r),
         IsRequest(r), r # Idle, r.po \in POs, Exists(r.po),
         r.op = "receive" => Receivable(r.po)
  PROVE  ProcurementInv'
<1> USE DEF ProcurementInv
<1>1. /\ request' = [request EXCEPT ![q] = r]
      /\ UNCHANGED <<header, details, receipts, raced>>
  BY DEF Start
<1>2. request'[q] = r /\ \A p \in Requests \ {q} : request'[p] = request[p]
  BY <1>1 DEF ShapeInv
<1>3. ShapeInv'
  BY <1>1, <1>2 DEF ShapeInv, IsRequest
<1>4. StillTrueInv'
  BY <1>1, <1>2 DEF StillTrueInv, Exists, Receivable
<1>5. NoOverReceipt'
  BY <1>1 DEF NoOverReceipt
<1>6. HasLinesInv'
  BY <1>1, <1>2 DEF HasLinesInv, Exists
<1> QED
  BY <1>3, <1>4, <1>5, <1>6

\* The reads before a transaction keep it.
LEMMA BeginStep ==
  ASSUME ProcurementInv, NEW q \in Requests, NEW p \in POs, Begin(q, p)
  PROVE  ProcurementInv'
<1>1. CASE BeginSetStatus(q, p)
  <2> DEFINE r == [op |-> "setStatus", po |-> p, header |-> header[p]]
  <2>1. IsRequest(r) /\ r # Idle
    BY <1>1 DEF BeginSetStatus, Exists, IsRequest, Idle, ProcurementInv, ShapeInv
  <2> QED
    BY <1>1, <2>1, StartStep DEF BeginSetStatus
<1>2. CASE BeginUpdateFull(q, p)
  <2> DEFINE r == [op |-> "updateFull", po |-> p, header |-> header[p]]
  <2>1. IsRequest(r) /\ r # Idle
    BY <1>2 DEF BeginUpdateFull, Exists, IsRequest, Idle, ProcurementInv, ShapeInv
  <2> QED
    BY <1>2, <2>1, StartStep DEF BeginUpdateFull
<1>3. CASE BeginUpdateHeader(q, p)
  <2>1. PICK s \in AuditPassed : Start(q, [op |-> "updateHeader", po |-> p, supplier |-> s])
    BY <1>3 DEF BeginUpdateHeader
  <2> DEFINE r == [op |-> "updateHeader", po |-> p, supplier |-> s]
  <2>2. IsRequest(r) /\ r # Idle
    BY ProcurementAssumption DEF IsRequest, Idle
  <2> QED
    BY <1>3, <2>1, <2>2, StartStep DEF BeginUpdateHeader
<1>4. CASE BeginReceive(q, p)
  <2> DEFINE r == [op |-> "receive", po |-> p, gen |-> details[p].gen]
  <2>1. IsRequest(r) /\ r # Idle
    BY DEF IsRequest, Idle
  <2>2. Exists(p)
    BY <1>4 DEF BeginReceive, Receivable, Exists
  <2> QED
    BY <1>4, <2>1, <2>2, StartStep DEF BeginReceive
<1> QED
  BY <1>1, <1>2, <1>3, <1>4 DEF Begin

\* A request that writes p and ends: whatever else is open on p is noted as a race, and
\* the row it leaves is one of pur_order.
LEMMA WriteStep ==
  ASSUME ProcurementInv, NEW q \in Requests, NEW p \in POs, NEW h \in Headers,
         header' = [header EXCEPT ![p] = h],
         p = request[q].po, request[q] # Idle,
         details' \in [POs -> Details], LinesGrow, NoOverReceipt',
         Finish(q), NoteRace(p, Requests \ {q})
  PROVE  ProcurementInv'
<1> USE DEF ProcurementInv
<1>1. request'[q] = Idle /\ \A o \in Requests \ {q} : request'[o] = request[o]
  BY DEF Finish, ShapeInv
<1>2. header'[p] = h /\ \A o \in POs \ {p} : header'[o] = header[o]
  BY DEF ShapeInv
<1>3. ShapeInv'
  <2>1. header' \in [POs -> Headers]
    BY DEF ShapeInv
  <2>2. request' = [o \in Requests |-> request'[o]]
    BY DEF Finish, ShapeInv
  <2>3. \A o \in Requests : IsRequest(request'[o])
    BY <1>1 DEF ShapeInv, IsRequest
  <2> QED
    BY <2>1, <2>2, <2>3 DEF ShapeInv
<1>4. ASSUME NEW o \in Requests, request'[o] # Idle, request'[o].po \notin raced'
      PROVE  /\ header'[request'[o].po].status # "NONE"
             /\ request'[o].op = "receive" =>
                  header'[request'[o].po].status \in {"APPROVED", "IN_PROGRESS"}
  <2>1. o # q /\ request'[o] = request[o]
    BY <1>1, <1>4
  <2>2. raced \subseteq raced'
    BY DEF NoteRace
  <2>3. request[o].po # p
    BY <1>4, <2>1 DEF NoteRace, OpenOn
  <2>4. request[o].po \in POs
    BY <1>4, <2>1 DEF ShapeInv, IsRequest
  <2>5. header'[request[o].po] = header[request[o].po]
    BY <1>2, <2>3, <2>4
  <2> QED
    BY <1>4, <2>1, <2>2, <2>5 DEF StillTrueInv, Exists, Receivable
<1>5. StillTrueInv'
  BY <1>4 DEF StillTrueInv, Exists, Receivable
<1>6. HasLinesInv'
  <2>1. ASSUME NEW o \in POs, details[o].gen > 0 PROVE details'[o].gen > 0
    <3>1. details[o] \in Details /\ details'[o] \in Details
      BY DEF ShapeInv
    <3>2. details'[o].gen >= details[o].gen
      BY DEF LinesGrow
    <3> QED
      BY <2>1, <3>1, <3>2 DEF Details
  <2>2. \A o \in POs : header'[o].status # "NONE" => details'[o].gen > 0
    BY <1>2, <2>1 DEF HasLinesInv, Exists
  <2>3. \A o \in Requests : request'[o] # Idle => details'[request'[o].po].gen > 0
    BY <1>1, <2>1 DEF HasLinesInv, ShapeInv, IsRequest
  <2> QED
    BY <2>2, <2>3 DEF HasLinesInv, Exists
<1> QED
  BY <1>3, <1>5, <1>6

\* Nothing an order's lines say is changed.
LEMMA SameLines ==
  ASSUME ShapeInv, NoOverReceipt, details' = details
  PROVE  LinesGrow /\ NoOverReceipt'
  BY DEF NoOverReceipt, LinesGrow, ShapeInv, Details

\* New lines have received nothing.
LEMMA ReplacedLines ==
  ASSUME ShapeInv, NoOverReceipt, NEW p \in POs, NEW content \in Contents,
         details' = [details EXCEPT ![p] = FreshLines(p, content)]
  PROVE  details' \in [POs -> Details] /\ LinesGrow /\ NoOverReceipt'
<1>1. content \in [Lines -> Nat]
  BY ProcurementAssumption
<1>2. FreshLines(p, content) \in Details
  BY <1>1 DEF FreshLines, ShapeInv, Details
<1>3. details' \in [POs -> Details]
  BY <1>2 DEF ShapeInv
<1>4. ASSUME NEW o \in POs, NEW l \in Lines
      PROVE  details'[o].received[l] <= details'[o].order[l]
  BY <1>1, <1>4 DEF ShapeInv, NoOverReceipt, FreshLines
<1>5. LinesGrow
  BY DEF LinesGrow, ShapeInv, Details, FreshLines
<1> QED
  BY <1>3, <1>4, <1>5 DEF NoOverReceipt

\* A receipt adds to a line no more than is still open.
LEMMA ReceivedLines ==
  ASSUME ShapeInv, NoOverReceipt, NEW p \in POs, NEW gen, NEW passed \in Rounds,
         IncrReceivedQty(p, gen, passed)
  PROVE  details' \in [POs -> Details] /\ LinesGrow /\ NoOverReceipt'
<1> DEFINE added == [l \in Lines |-> details[p].received[l] + passed[l]]
<1>1. passed \in [Lines -> Nat]
  BY ProcurementAssumption
<1>2. details[p] \in Details
  BY DEF ShapeInv
<1>3. added \in [Lines -> Nat]
  BY <1>1, <1>2 DEF Details
<1>4. details' = [details EXCEPT ![p].received = added]
  BY DEF IncrReceivedQty
<1>5. details'[p] = [details[p] EXCEPT !.received = added]
  BY <1>4 DEF ShapeInv
<1>6. details'[p].received = added /\ details'[p].order = details[p].order
  BY <1>2, <1>5 DEF Details
<1>7. \A o \in POs \ {p} : details'[o] = details[o]
  BY <1>4 DEF ShapeInv
<1>8. details' \in [POs -> Details]
  <2>1. [details[p] EXCEPT !.received = added] \in Details
    BY <1>2, <1>3 DEF Details
  <2> QED
    BY <1>4, <2>1 DEF ShapeInv
<1>9. ASSUME NEW l \in Lines PROVE details'[p].received[l] <= details'[p].order[l]
  <2>1. details[p].received[l] <= details[p].order[l]
    BY DEF NoOverReceipt
  <2>2. CASE passed[l] = 0
    BY <1>2, <1>6, <2>1, <2>2 DEF Details
  <2>3. CASE passed[l] > 0
    BY <1>6, <2>3 DEF IncrReceivedQty
  <2> QED
    BY <1>1, <2>2, <2>3
<1>10. LinesGrow
  BY <1>2, <1>5, <1>7 DEF LinesGrow, ShapeInv, Details
<1> QED
  BY <1>7, <1>8, <1>9, <1>10 DEF NoOverReceipt

\* The transactions keep it.
LEMMA CommitStep ==
  ASSUME ProcurementInv, NEW q \in Requests, Commit(q)
  PROVE  ProcurementInv'
<1> USE DEF ProcurementInv
<1> DEFINE p == request[q].po
<1>1. request[q] # Idle
  <2>1. request[q].op \in {"setStatus", "updateFull", "updateHeader", "receive"}
    BY Zenon DEF Commit, CommitSetStatus, CommitUpdateFull, CommitUpdateHeader, CommitReceive
  <2> QED
    BY <2>1 DEF Idle
<1>2. IsRequest(request[q]) /\ p \in POs
  BY <1>1 DEF ShapeInv, IsRequest
<1>3. details \in [POs -> Details]
  BY DEF ShapeInv
<1>4. CASE CommitSetStatus(q)
  <2>1. PICK to \in SettableStatuses :
          header' = [header EXCEPT ![p] = [request[q].header EXCEPT !.status = to]]
    BY <1>4 DEF CommitSetStatus, SaveHeader
  <2>2. [request[q].header EXCEPT !.status = to] \in Headers
    BY <1>1, <1>2, <1>4, ProcurementAssumption DEF CommitSetStatus, IsRequest, Headers
  <2> QED
    BY <1>1, <1>2, <1>3, <1>4, <2>1, <2>2, SameLines, WriteStep DEF CommitSetStatus
<1>5. CASE CommitUpdateFull(q)
  <2>1. PICK s \in Suppliers, content \in Contents :
          /\ header' = [header EXCEPT ![p] = [request[q].header EXCEPT
                                                !.supplier = s, !.total = SumOver(content)]]
          /\ details' = [details EXCEPT ![p] = FreshLines(p, content)]
    BY <1>5 DEF CommitUpdateFull, SaveHeader
  <2>2. [request[q].header EXCEPT !.supplier = s, !.total = SumOver(content)] \in Headers
    BY <1>1, <1>2, <1>5 DEF CommitUpdateFull, IsRequest, Headers
  <2> QED
    BY <1>1, <1>2, <1>5, <2>1, <2>2, ReplacedLines, WriteStep DEF CommitUpdateFull
<1>6. CASE CommitUpdateHeader(q)
  <2> DEFINE h == IF Exists(p) THEN [header[p] EXCEPT !.supplier = request[q].supplier]
                               ELSE header[p]
  <2>1. h \in Headers
    BY <1>1, <1>2, <1>6 DEF CommitUpdateHeader, IsRequest, ShapeInv, Headers
  <2>2. header' = [header EXCEPT ![p] = h]
    BY <1>2, <1>6 DEF CommitUpdateHeader, ShapeInv
  <2> QED
    BY <1>1, <1>2, <1>3, <1>6, <2>1, <2>2, SameLines, WriteStep DEF CommitUpdateHeader
<1>7. CASE CommitReceive(q)
  <2>1. PICK passed \in Rounds : IncrReceivedQty(p, request[q].gen, passed)
    BY <1>7 DEF CommitReceive
  <2>2. PICK to \in {"COMPLETED", "IN_PROGRESS"} :
          header' = IF Exists(p) THEN [header EXCEPT ![p].status = to] ELSE header
    BY <1>7 DEF CommitReceive, AdvanceStatus
  <2> DEFINE h == IF Exists(p) THEN [header[p] EXCEPT !.status = to] ELSE header[p]
  <2>3. h \in Headers
    BY <1>2 DEF ShapeInv, Headers, Statuses
  <2>4. header' = [header EXCEPT ![p] = h]
    BY <1>2, <2>2 DEF ShapeInv
  <2> QED
    BY <1>1, <1>2, <1>7, <2>1, <2>3, <2>4, ReceivedLines, WriteStep DEF CommitReceive
<1> QED
  BY <1>4, <1>5, <1>6, <1>7 DEF Commit

\* A new order is one that no open request has read: it never had lines.
LEMMA CreateStep ==
  ASSUME ProcurementInv, NEW p \in POs, Create(p)
  PROVE  ProcurementInv'
<1> USE DEF ProcurementInv
<1>1. PICK s \in AuditPassed, content \in Contents :
        /\ header' = [header EXCEPT ![p] =
                        [status |-> "DRAFT", supplier |-> s, total |-> SumOver(content)]]
        /\ details' = [details EXCEPT ![p] = FreshLines(p, content)]
        /\ UNCHANGED <<receipts, request, raced>>
  BY DEF Create
<1>2. [status |-> "DRAFT", supplier |-> s, total |-> SumOver(content)] \in Headers
  BY ProcurementAssumption DEF Headers, Statuses
<1>3. details' \in [POs -> Details] /\ LinesGrow /\ NoOverReceipt'
  BY <1>1, ReplacedLines
<1>4. ShapeInv'
  BY <1>1, <1>2, <1>3 DEF ShapeInv, IsRequest
<1>5. \A o \in POs \ {p} : header'[o] = header[o]
  BY <1>1 DEF ShapeInv
<1>6. \A q \in Requests : request[q] # Idle => request[q].po \in POs \ {p}
  BY DEF Create, HasLinesInv, ShapeInv, IsRequest
<1>7. StillTrueInv'
  BY <1>1, <1>5, <1>6 DEF StillTrueInv, Exists, Receivable
<1>8. HasLinesInv'
  <2>1. details'[p].gen > 0
    BY <1>1 DEF FreshLines, ShapeInv, Details
  <2>2. \A o \in POs \ {p} : details'[o] = details[o]
    BY <1>1 DEF ShapeInv
  <2> QED
    BY <1>1, <1>5, <1>6, <2>1, <2>2 DEF HasLinesInv, Exists
<1> QED
  BY <1>3, <1>4, <1>7, <1>8

\* A deletion keeps it.
LEMMA DeleteStep ==
  ASSUME ProcurementInv, NEW p \in POs, Delete(p)
  PROVE  ProcurementInv'
<1> USE DEF ProcurementInv
<1>1. /\ header' = [header EXCEPT ![p].status = "NONE"]
      /\ UNCHANGED <<details, receipts, request>>
      /\ raced \subseteq raced'
      /\ OpenOn(p, Requests) => p \in raced'
  BY DEF Delete, NoteRace
<1>2. ShapeInv'
  <2>1. [header[p] EXCEPT !.status = "NONE"] \in Headers
    BY DEF ShapeInv, Headers, Statuses
  <2> QED
    BY <1>1, <2>1 DEF ShapeInv, IsRequest
<1>3. /\ header'[p].status = "NONE"
      /\ \A o \in POs \ {p} : header'[o] = header[o]
  BY <1>1 DEF ShapeInv, Headers
<1>4. \A q \in Requests : request[q] # Idle => request[q].po \in POs
  BY DEF ShapeInv, IsRequest
<1>5. StillTrueInv'
  BY <1>1, <1>3, <1>4 DEF StillTrueInv, OpenOn, Exists, Receivable
<1>6. HasLinesInv' /\ NoOverReceipt'
  BY <1>1, <1>3 DEF HasLinesInv, Exists, NoOverReceipt
<1> QED
  BY <1>2, <1>5, <1>6

\* A request that fails keeps it.
LEMMA AbortStep ==
  ASSUME ProcurementInv, NEW q \in Requests, Abort(q)
  PROVE  ProcurementInv'
<1> USE DEF ProcurementInv
<1>1. /\ request' = [request EXCEPT ![q] = Idle]
      /\ UNCHANGED <<header, details, receipts, raced>>
  BY DEF Abort, Finish
<1>2. request'[q] = Idle /\ \A p \in Requests \ {q} : request'[p] = request[p]
  BY <1>1 DEF ShapeInv
<1>3. ShapeInv' /\ NoOverReceipt'
  BY <1>1, <1>2 DEF ShapeInv, IsRequest, NoOverReceipt
<1>4. StillTrueInv' /\ HasLinesInv'
  BY <1>1, <1>2 DEF StillTrueInv, HasLinesInv, Exists, Receivable
<1> QED
  BY <1>3, <1>4

\* Every step keeps it.
LEMMA NextProcurement == ProcurementInv /\ [Next]_vars => ProcurementInv'
<1> SUFFICES ASSUME ProcurementInv, [Next]_vars PROVE ProcurementInv'
  OBVIOUS
<1>1. CASE UNCHANGED vars
  BY <1>1 DEF vars, orderVars, ProcurementInv, ShapeInv, IsRequest, StillTrueInv, HasLinesInv,
       NoOverReceipt, Exists, Receivable
<1>2. CASE Next
  BY <1>2, CreateStep, DeleteStep, BeginStep, CommitStep, AbortStep DEF Next
<1> QED
  BY <1>1, <1>2

\* So it always holds.
LEMMA AlwaysProcurement == Spec => []ProcurementInv
  BY InitProcurement, NextProcurement, PTL DEF Spec

-----------------------------------------------------------------------------

\* Whatever receipts and replacements of lines race, no line is over-received.
THEOREM NeverOverReceived == Spec => []NoOverReceipt
<1>1. ProcurementInv => NoOverReceipt
  BY DEF ProcurementInv
<1> QED
  BY <1>1, AlwaysProcurement, PTL

\* A receipt on an order nobody raced on finds it APPROVED or IN_PROGRESS.
THEOREM ReceivesWhileOpen == Spec => ReceivedWhileOpen
<1> DEFINE Kept == \A p \in POs \ raced : ReceiptsOf(p)' # ReceiptsOf(p) => Receivable(p)
<1>1. ASSUME ProcurementInv, Next PROVE Kept
  <2>1. CASE receipts' = receipts
    BY <2>1 DEF ReceiptsOf
  <2>2. ASSUME NEW q \in Requests, CommitReceive(q) PROVE Kept
    <3> DEFINE o == request[q].po
    <3>1. \A p \in POs : p # o => ReceiptsOf(p)' = ReceiptsOf(p)
      <4>1. PICK passed \in Rounds : \E n :
              receipts' = receipts \union
                {[po |-> o, number |-> n, gen |-> request[q].gen, passed |-> passed]}
        BY <2>2 DEF CommitReceive
      <4> QED
        BY <4>1 DEF ReceiptsOf
    <3>2. request[q] # Idle /\ request[q].op = "receive"
      BY <2>2 DEF CommitReceive, Idle
    <3>3. o \notin raced => Receivable(o)
      BY <1>1, <3>2 DEF ProcurementInv, StillTrueInv
    <3> QED
      BY <3>1, <3>3
  <2> QED
    BY <1>1, <2>1, <2>2
    DEF Next, Create, Delete, Begin, BeginSetStatus, BeginUpdateFull, BeginUpdateHeader,
        BeginReceive, Start, Commit, CommitSetStatus, CommitUpdateFull, CommitUpdateHeader, Abort
<1>2. ASSUME ProcurementInv, [Next]_vars PROVE [Kept]_vars
  BY <1>1, <1>2
<1> QED
  BY <1>2, AlwaysProcurement, PTL DEF Spec, ReceivedWhileOpen

\* A deleted order that nobody raced on does not come back.
THEOREM DeletedForGood == Spec => DeletedStaysDeleted
<1> DEFINE Kept == \A p \in POs \ raced : details[p].gen > 0 /\ ~Exists(p) => ~Exists(p)'
<1>1. ASSUME ProcurementInv, Next PROVE Kept
  <2> USE <1>1 DEF ProcurementInv
  <2>1. CASE header' = header
    BY <2>1 DEF Exists
  <2>2. ASSUME NEW p \in POs, Create(p) PROVE Kept
    BY <2>2 DEF Create, Exists, ShapeInv
  <2>3. ASSUME NEW p \in POs, Delete(p) PROVE Kept
    BY <2>3 DEF Delete, Exists, ShapeInv, Headers
  <2>4. ASSUME NEW q \in Requests, Commit(q) PROVE Kept
    <3> DEFINE o == request[q].po
    <3>1. request[q] # Idle
      <4>1. request[q].op \in {"setStatus", "updateFull", "updateHeader", "receive"}
        BY <2>4, Zenon
        DEF Commit, CommitSetStatus, CommitUpdateFull, CommitUpdateHeader, CommitReceive
      <4> QED
        BY <4>1 DEF Idle
    <3>2. \A p \in POs \ {o} : header'[p] = header[p]
      <4>1. \E h : header' = [header EXCEPT ![o] = h] \/ header' = header
        BY <2>4, Zenon
        DEF Commit, CommitSetStatus, CommitUpdateFull, CommitUpdateHeader, CommitReceive,
            SaveHeader, AdvanceStatus
      <4> QED
        BY <4>1 DEF ShapeInv
    <3>3. o \notin raced => Exists(o)
      BY <3>1 DEF StillTrueInv
    <3> QED
      BY <3>2, <3>3 DEF Exists
  <2> QED
    BY <1>1, <2>1, <2>2, <2>3, <2>4
    DEF Next, Begin, BeginSetStatus, BeginUpdateFull, BeginUpdateHeader, BeginReceive, Start, Abort
<1>2. ASSUME ProcurementInv, [Next]_vars PROVE [Kept]_vars
  BY <1>1, <1>2
<1> QED
  BY <1>2, AlwaysProcurement, PTL DEF Spec, DeletedStaysDeleted

-----------------------------------------------------------------------------
(* The total of an order and its lines. *)

\* What a change of status is about to save is the total of the lines that are there.
SavesTotalInv ==
  \A q \in Requests :
    request[q].op = "setStatus" /\ request[q].po \notin raced
      => request[q].header.total = SumOver(details[request[q].po].order)

TotalInv == TotalIsSumOfLines /\ SavesTotalInv

\* A write that leaves a total of the lines it leaves.
LEMMA TotalWrite ==
  ASSUME ProcurementInv, TotalInv, NEW q \in Requests, NEW p \in POs, NEW h,
         p = request[q].po, header' = [header EXCEPT ![p] = h],
         \A o \in POs \ {p} : details'[o] = details[o],
         p \notin raced /\ h.status # "NONE" => h.total = SumOver(details'[p].order),
         Finish(q), NoteRace(p, Requests \ {q})
  PROVE  TotalInv'
<1> USE DEF ProcurementInv, TotalInv
<1>1. request'[q] = Idle /\ \A o \in Requests \ {q} : request'[o] = request[o]
  BY DEF Finish, ShapeInv
<1>2. header'[p] = h /\ \A o \in POs \ {p} : header'[o] = header[o]
  BY DEF ShapeInv
<1>3. raced \subseteq raced' /\ (OpenOn(p, Requests \ {q}) => p \in raced')
  BY DEF NoteRace
<1>4. TotalIsSumOfLines'
  BY <1>2, <1>3 DEF TotalIsSumOfLines, Exists
<1>5. ASSUME NEW o \in Requests, request'[o].op = "setStatus", request'[o].po \notin raced'
      PROVE  request'[o].header.total = SumOver(details'[request'[o].po].order)
  <2>1. o # q /\ request'[o] = request[o] /\ request[o] # Idle
    BY <1>1, <1>5 DEF Idle
  <2>2. request[o].po \in POs /\ request[o].po # p
    BY <1>3, <1>5, <2>1 DEF OpenOn, ShapeInv, IsRequest
  <2> QED
    BY <1>3, <1>5, <2>1, <2>2 DEF SavesTotalInv
<1> QED
  BY <1>4, <1>5 DEF SavesTotalInv

\* A transaction writes a total that is that of the lines, unless the order was raced on.
LEMMA TotalCommit ==
  ASSUME ProcurementInv, TotalInv, NEW q \in Requests, Commit(q)
  PROVE  TotalInv'
<1> USE DEF ProcurementInv, TotalInv
<1> DEFINE p == request[q].po
<1>1. request[q] # Idle
  <2>1. request[q].op \in {"setStatus", "updateFull", "updateHeader", "receive"}
    BY Zenon DEF Commit, CommitSetStatus, CommitUpdateFull, CommitUpdateHeader, CommitReceive
  <2> QED
    BY <2>1 DEF Idle
<1>2. IsRequest(request[q]) /\ p \in POs
  BY <1>1 DEF ShapeInv, IsRequest
<1>3. header[p] \in Headers /\ details[p] \in Details
  BY <1>2 DEF ShapeInv
<1>4. CASE CommitSetStatus(q)
  <2>1. PICK to \in SettableStatuses :
          header' = [header EXCEPT ![p] = [request[q].header EXCEPT !.status = to]]
    BY <1>4 DEF CommitSetStatus, SaveHeader
  <2> DEFINE h == [request[q].header EXCEPT !.status = to]
  <2>2. h.total = request[q].header.total
    BY <1>1, <1>2, <1>4 DEF CommitSetStatus, IsRequest, Headers
  <2>3. details' = details
    BY <1>4 DEF CommitSetStatus
  <2>4. p \notin raced => h.total = SumOver(details'[p].order)
    BY <1>4, <2>2, <2>3 DEF CommitSetStatus, SavesTotalInv
  <2> QED
    BY <1>2, <1>4, <2>1, <2>3, <2>4, TotalWrite DEF CommitSetStatus
<1>5. CASE CommitUpdateFull(q)
  <2>1. PICK s \in Suppliers, content \in Contents :
          /\ header' = [header EXCEPT ![p] = [request[q].header EXCEPT
                                                !.supplier = s, !.total = SumOver(content)]]
          /\ details' = [details EXCEPT ![p] = FreshLines(p, content)]
    BY <1>5 DEF CommitUpdateFull, SaveHeader
  <2> DEFINE h == [request[q].header EXCEPT !.supplier = s, !.total = SumOver(content)]
  <2>2. h.total = SumOver(content)
    BY <1>1, <1>2, <1>5 DEF CommitUpdateFull, IsRequest, Headers
  <2>3. details'[p].order = content /\ \A o \in POs \ {p} : details'[o] = details[o]
    BY <1>2, <2>1 DEF FreshLines, ShapeInv
  <2> QED
    BY <1>2, <1>5, <2>1, <2>2, <2>3, TotalWrite DEF CommitUpdateFull
<1>6. CASE CommitUpdateHeader(q)
  <2> DEFINE h == IF Exists(p) THEN [header[p] EXCEPT !.supplier = request[q].supplier]
                               ELSE header[p]
  <2>1. header' = [header EXCEPT ![p] = h] /\ details' = details
    BY <1>2, <1>6 DEF CommitUpdateHeader, ShapeInv
  <2>2. h.status = header[p].status /\ h.total = header[p].total
    BY <1>3 DEF Headers
  <2>3. p \notin raced /\ h.status # "NONE" => h.total = SumOver(details'[p].order)
    BY <1>2, <2>1, <2>2 DEF TotalIsSumOfLines, Exists
  <2> QED
    BY <1>2, <1>6, <2>1, <2>3, TotalWrite DEF CommitUpdateHeader
<1>7. CASE CommitReceive(q)
  <2>1. PICK passed \in Rounds : IncrReceivedQty(p, request[q].gen, passed)
    BY <1>7 DEF CommitReceive
  <2>2. PICK to \in {"COMPLETED", "IN_PROGRESS"} :
          header' = IF Exists(p) THEN [header EXCEPT ![p].status = to] ELSE header
    BY <1>7 DEF CommitReceive, AdvanceStatus
  <2> DEFINE h == IF Exists(p) THEN [header[p] EXCEPT !.status = to] ELSE header[p]
  <2>3. header' = [header EXCEPT ![p] = h]
    BY <1>2, <2>2 DEF ShapeInv
  <2>4. /\ details'[p].order = details[p].order
        /\ \A o \in POs \ {p} : details'[o] = details[o]
    BY <1>2, <1>3, <2>1 DEF IncrReceivedQty, ShapeInv, Details
  <2>5. h.total = header[p].total /\ (h.status # "NONE" => Exists(p))
    BY <1>3 DEF Headers, Exists
  <2>6. p \notin raced /\ h.status # "NONE" => h.total = SumOver(details'[p].order)
    BY <1>2, <2>4, <2>5 DEF TotalIsSumOfLines
  <2> QED
    BY <1>2, <1>7, <2>3, <2>4, <2>6, TotalWrite DEF CommitReceive
<1> QED
  BY <1>4, <1>5, <1>6, <1>7 DEF Commit

\* What a request has read of an order nobody else works on stays the order's.
LEMMA TotalBegin ==
  ASSUME ProcurementInv, TotalInv, NEW q \in Requests, NEW p \in POs, Begin(q, p)
  PROVE  TotalInv'
<1> USE DEF ProcurementInv, TotalInv
<1>1. PICK r : /\ Start(q, r)
               /\ r.op = "setStatus" => Exists(p) /\ r.po = p /\ r.header = header[p]
  <2>1. CASE BeginSetStatus(q, p)
    BY <2>1 DEF BeginSetStatus
  <2>2. CASE BeginUpdateFull(q, p)
    <3> DEFINE r == [op |-> "updateFull", po |-> p, header |-> header[p]]
    <3>1. Start(q, r) /\ r.op # "setStatus"
      BY <2>2 DEF BeginUpdateFull
    <3> QED
      BY <3>1
  <2>3. CASE BeginUpdateHeader(q, p)
    <3>1. PICK s : Start(q, [op |-> "updateHeader", po |-> p, supplier |-> s])
      BY <2>3 DEF BeginUpdateHeader
    <3> DEFINE r == [op |-> "updateHeader", po |-> p, supplier |-> s]
    <3>2. Start(q, r) /\ r.op # "setStatus"
      BY <3>1
    <3> QED
      BY <3>2
  <2>4. CASE BeginReceive(q, p)
    <3> DEFINE r == [op |-> "receive", po |-> p, gen |-> details[p].gen]
    <3>1. Start(q, r) /\ r.op # "setStatus"
      BY <2>4 DEF BeginReceive
    <3> QED
      BY <3>1
  <2> QED
    BY <2>1, <2>2, <2>3, <2>4 DEF Begin
<1>2. UNCHANGED <<header, details, raced>> /\ request' = [request EXCEPT ![q] = r]
  BY <1>1 DEF Start
<1>3. request'[q] = r /\ \A o \in Requests \ {q} : request'[o] = request[o]
  BY <1>2 DEF ShapeInv
<1>4. TotalIsSumOfLines'
  BY <1>2 DEF TotalIsSumOfLines, Exists
<1>5. SavesTotalInv'
  BY <1>1, <1>2, <1>3 DEF SavesTotalInv, TotalIsSumOfLines
<1> QED
  BY <1>4, <1>5

\* A new order has the total of its lines.
LEMMA TotalCreate ==
  ASSUME ProcurementInv, TotalInv, NEW p \in POs, Create(p)
  PROVE  TotalInv'
<1> USE DEF ProcurementInv, TotalInv
<1>1. PICK s \in AuditPassed, content \in Contents :
        /\ header' = [header EXCEPT ![p] =
                        [status |-> "DRAFT", supplier |-> s, total |-> SumOver(content)]]
        /\ details' = [details EXCEPT ![p] = FreshLines(p, content)]
        /\ UNCHANGED <<request, raced>>
  BY DEF Create
<1>2. header'[p].total = SumOver(content) /\ details'[p].order = content
  BY <1>1 DEF FreshLines, ShapeInv
<1>3. \A o \in POs \ {p} : header'[o] = header[o] /\ details'[o] = details[o]
  BY <1>1 DEF ShapeInv
<1>4. \A q \in Requests : request[q] # Idle => request[q].po \in POs \ {p}
  BY DEF Create, HasLinesInv, ShapeInv, IsRequest
<1>5. TotalIsSumOfLines'
  BY <1>1, <1>2, <1>3 DEF TotalIsSumOfLines, Exists
<1>6. SavesTotalInv'
  BY <1>1, <1>3, <1>4 DEF SavesTotalInv, Idle
<1> QED
  BY <1>5, <1>6

\* A deletion leaves no order with a wrong total.
LEMMA TotalDelete ==
  ASSUME ProcurementInv, TotalInv, NEW p \in POs, Delete(p)
  PROVE  TotalInv'
<1> USE DEF ProcurementInv, TotalInv
<1>1. /\ header' = [header EXCEPT ![p].status = "NONE"]
      /\ UNCHANGED <<details, request>> /\ raced \subseteq raced'
  BY DEF Delete, NoteRace
<1>2. header'[p].status = "NONE" /\ \A o \in POs \ {p} : header'[o] = header[o]
  BY <1>1 DEF ShapeInv, Headers
<1>3. TotalIsSumOfLines' /\ SavesTotalInv'
  BY <1>1, <1>2 DEF TotalIsSumOfLines, SavesTotalInv, Exists
<1> QED
  BY <1>3

\* The total of an order nobody raced on is that of its lines: the change of status, which
\* saves a header read earlier, brings back no total of lines that have been replaced.
THEOREM TotalFollowsLines == Spec => []TotalIsSumOfLines
<1>1. Init => TotalInv
  BY DEF Init, TotalInv, TotalIsSumOfLines, SavesTotalInv, Exists, Idle
<1>2. ASSUME ProcurementInv, TotalInv, [Next]_vars
      PROVE  TotalInv'
  <2>1. ASSUME NEW q \in Requests, Abort(q) PROVE TotalInv'
    BY <1>2, <2>1 DEF Abort, Finish, Idle, ProcurementInv, ShapeInv, TotalInv,
         TotalIsSumOfLines, SavesTotalInv, Exists
  <2>2. CASE UNCHANGED vars
    BY <1>2, <2>2 DEF vars, orderVars, TotalInv, TotalIsSumOfLines, SavesTotalInv, Exists
  <2> QED
    BY <1>2, <2>1, <2>2, TotalCreate, TotalDelete, TotalBegin, TotalCommit DEF Next
<1>3. ProcurementInv /\ TotalInv /\ [Next]_vars => TotalInv'
  BY <1>2
<1>4. TotalInv => TotalIsSumOfLines
  BY DEF TotalInv
<1> QED
  BY <1>1, <1>3, <1>4, AlwaysProcurement, PTL DEF Spec

-----------------------------------------------------------------------------
(* Receipts, the received quantities and the stock.                         *)
(*                                                                          *)
(* received_qty is compared with the receipts booked against the lines that *)
(* are there now.  The strengthening is that no receipt, and no request on  *)
(* its way to book one, refers to lines that do not exist yet: new lines    *)
(* then start without receipts.                                             *)

\* The receipts booked against the present lines of an order, those of a table of
\* receipts, and what they accepted of a line or put into a row.
Current(rs, p, gen) == {rc \in rs : rc.po = p /\ rc.gen = gen}
Passed(rs, l) == [rc \in rs |-> rc.passed[l]]
PutInto(rs, r) == [rc \in rs |-> Booked(rc.passed)[r]]

PastLinesInv ==
  /\ \A rc \in receipts : rc.gen <= details[rc.po].gen
  /\ \A q \in Requests :
       request[q].op = "receive" => request[q].gen <= details[request[q].po].gen

ReceiptInv ==
  /\ TypeOK /\ IsFiniteSet(receipts)
  /\ PastLinesInv /\ ReceivedIsAccepted /\ ReceiptsExplainStock

\* What a receipt puts into a row is a natural number.
LEMMA BookedType ==
  ASSUME NEW passed \in [Lines -> Nat]
  PROVE  Booked(passed) \in [Rows -> Nat]
<1>1. ASSUME NEW r \in Rows
      PROVE  SumFunctionOnSet(passed, {l \in Lines : LineRow[l] = r}) \in Nat
  <2> DEFINE S == {l \in Lines : LineRow[l] = r}
  <2>1. IsFiniteSet(S)
    BY ProcurementAssumption, FS_Subset
  <2>2. \A l \in S : passed[l] \in Nat
    OBVIOUS
  <2> QED
    BY <2>1, <2>2, SumNonNegative
<1> QED
  BY <1>1 DEF Booked

\* The totals the code computes are natural numbers.
LEMMA HeadersTyped == Headers \subseteq Header
<1>1. ASSUME NEW content \in Contents PROVE SumOver(content) \in Nat
  <2>1. IsFiniteSet(Lines) /\ \A l \in Lines : content[l] \in Nat
    BY ProcurementAssumption
  <2> QED
    BY <2>1, SumNonNegative DEF SumOver
<1> QED
  BY <1>1 DEF Headers, Header

\* Before the first order there are no receipts and stock is the initial one.
LEMMA InitReceipts == Init => ReceiptInv
<1> SUFFICES ASSUME Init PROVE ReceiptInv
  OBVIOUS
<1>1. InventoryTypeOK
  BY InventoryAssumption DEF Init, InventoryInit, InventoryTypeOK
<1>2. header \in [POs -> Header] /\ details \in [POs -> Details]
  BY InitProcurement, HeadersTyped DEF ProcurementInv, ShapeInv
<1>3. request \in [Requests -> RequestRecords] /\ receipts = {} /\ raced = {}
  BY DEF Init, RequestRecords
<1>4. TypeOK /\ IsFiniteSet(receipts)
  BY <1>1, <1>2, <1>3, FS_EmptySet DEF TypeOK
<1>5. PastLinesInv
  BY DEF Init, PastLinesInv, Idle
<1>6. ReceivedIsAccepted
  <2> SUFFICES ASSUME NEW p \in POs, NEW l \in Lines
               PROVE  details[p].received[l]
                        = SumFunctionOnSet([rc \in receipts |-> rc.passed[l]],
                                           {rc \in ReceiptsOf(p) : rc.gen = details[p].gen})
    BY DEF ReceivedIsAccepted
  <2>1. {rc \in ReceiptsOf(p) : rc.gen = details[p].gen} = {}
    BY <1>3 DEF ReceiptsOf
  <2>2. details[p].received[l] = 0
    BY DEF Init, NoLines
  <2> QED
    BY <2>1, <2>2, SumOfNothing
<1>7. ReceiptsExplainStock
  <2> SUFFICES ASSUME NEW r \in Rows
               PROVE  quantity[r] = InitQty[r] +
                        SumFunctionOnSet([rc \in receipts |-> Booked(rc.passed)[r]], receipts)
    BY DEF ReceiptsExplainStock
  <2>1. SumFunctionOnSet([rc \in receipts |-> Booked(rc.passed)[r]], receipts) = 0
    BY <1>3, SumOfNothing
  <2>2. quantity[r] = InitQty[r] /\ InitQty[r] \in Int
    BY InventoryAssumption DEF Init, InventoryInit
  <2> QED
    BY ONLY <2>1, <2>2
<1> QED
  BY <1>4, <1>5, <1>6, <1>7 DEF ReceiptInv

\* A movement in keeps the ledger's types.
LEMMA ApplyInTyped ==
  ASSUME InventoryTypeOK, NEW mv \in [Rows -> Nat], ApplyIn(mv)
  PROVE  InventoryTypeOK'
BY SMT DEF ApplyIn, Touched, InventoryTypeOK

\* What a receipt does: it is new, it accepts quantities for the lines its request read.
LEMMA ReceiveOutcome ==
  ASSUME TypeOK, IsFiniteSet(receipts), NEW q \in Requests, CommitReceive(q)
  PROVE  LET p == request[q].po
             gen == request[q].gen IN
         /\ p \in POs /\ gen \in Nat
         /\ \E passed \in Rounds, n \in Nat :
              LET new == [po |-> p, number |-> n, gen |-> gen, passed |-> passed] IN
              /\ passed \in [Lines -> Nat]
              /\ new \in Receipt /\ new \notin receipts
              /\ receipts' = receipts \union {new}
              /\ IncrReceivedQty(p, gen, passed)
              /\ Booked(passed) \in [Rows -> Nat] /\ ApplyIn(Booked(passed))
<1> DEFINE p == request[q].po
           gen == request[q].gen
<1>1. request[q].op = "receive" /\ request[q] \in RequestRecords
  BY DEF CommitReceive, TypeOK
<1>2. p \in POs /\ gen \in Nat
  BY <1>1 DEF RequestRecords, Idle
<1>3. NumberChoices(p) \subseteq Nat
  <2>1. IsFiniteSet(ReceiptsOf(p))
    BY FS_Subset DEF ReceiptsOf
  <2>2. Cardinality(ReceiptsOf(p)) \in Nat
    BY <2>1, FS_CardinalityType
  <2>3. Cardinality(ReceiptsOf(p)) + 1 \in Nat
    BY <2>2
  <2>4. ExplicitNumbers \subseteq Nat
    BY ProcurementAssumption
  <2> QED
    BY <2>3, <2>4, Zenon DEF NumberChoices
<1>4. PICK passed \in Rounds, n \in NumberChoices(p) :
        /\ \A rc \in ReceiptsOf(p) : rc.number # n
        /\ receipts' = receipts \union
             {[po |-> p, number |-> n, gen |-> gen, passed |-> passed]}
        /\ IncrReceivedQty(p, gen, passed)
        /\ ApplyIn(Booked(passed))
  BY DEF CommitReceive
<1> DEFINE new == [po |-> p, number |-> n, gen |-> gen, passed |-> passed]
<1>5. passed \in [Lines -> Nat]
  BY ProcurementAssumption
<1>6. new \in Receipt
  BY <1>2, <1>3, <1>5 DEF Receipt
<1>7. new \notin receipts
  BY <1>4 DEF ReceiptsOf
<1> QED
  BY <1>2, <1>3, <1>4, <1>5, <1>6, <1>7, BookedType

\* A request that begins is a record of one of the operations, and a receipt has read
\* the lines that are there.
LEMMA BeginOutcome ==
  ASSUME TypeOK, NEW q \in Requests, NEW p \in POs, Begin(q, p)
  PROVE  \E r \in RequestRecords :
           /\ Start(q, r)
           /\ r.op = "receive" => r.po = p /\ r.gen = details[p].gen
<1>1. CASE BeginSetStatus(q, p)
  <2> DEFINE r == [op |-> "setStatus", po |-> p, header |-> header[p]]
  <2>1. r \in RequestRecords /\ r.op # "receive"
    BY DEF RequestRecords, TypeOK
  <2> QED
    BY <1>1, <2>1 DEF BeginSetStatus
<1>2. CASE BeginUpdateFull(q, p)
  <2> DEFINE r == [op |-> "updateFull", po |-> p, header |-> header[p]]
  <2>1. r \in RequestRecords /\ r.op # "receive"
    BY DEF RequestRecords, TypeOK
  <2> QED
    BY <1>2, <2>1 DEF BeginUpdateFull
<1>3. CASE BeginUpdateHeader(q, p)
  <2>1. PICK s \in AuditPassed : Start(q, [op |-> "updateHeader", po |-> p, supplier |-> s])
    BY <1>3 DEF BeginUpdateHeader
  <2> DEFINE r == [op |-> "updateHeader", po |-> p, supplier |-> s]
  <2>2. r \in RequestRecords /\ r.op # "receive"
    BY ProcurementAssumption DEF RequestRecords
  <2> QED
    BY <2>1, <2>2
<1>4. CASE BeginReceive(q, p)
  <2> DEFINE r == [op |-> "receive", po |-> p, gen |-> details[p].gen]
  <2>1. r \in RequestRecords /\ r.po = p /\ r.gen = details[p].gen
    BY DEF RequestRecords, TypeOK, Details
  <2> QED
    BY <1>4, <2>1 DEF BeginReceive
<1> QED
  BY <1>1, <1>2, <1>3, <1>4 DEF Begin

\* What the steps other than a receipt leave alone: the receipts and the stock.
LEMMA OtherOutcome ==
  ASSUME [Next]_vars, \A q \in Requests : ~CommitReceive(q)
  PROVE  UNCHANGED <<stockVars, receipts>>
<1>1. CASE UNCHANGED vars
  BY <1>1 DEF vars, orderVars
<1>2. CASE Next
  BY <1>2 DEF Next, Create, Delete, Begin, BeginSetStatus, BeginUpdateFull, BeginUpdateHeader,
       BeginReceive, Start, Commit, CommitSetStatus, CommitUpdateFull, CommitUpdateHeader, Abort
<1> QED
  BY <1>1, <1>2

\* Every step keeps the types of orders, lines, stock and receipts.
LEMMA TypeStep ==
  ASSUME ProcurementInv, TypeOK, IsFiniteSet(receipts), [Next]_vars
  PROVE  TypeOK'
<1>1. header' \in [POs -> Header] /\ details' \in [POs -> Details]
  BY NextProcurement, HeadersTyped DEF ProcurementInv, ShapeInv
<1>2. InventoryTypeOK' /\ receipts' \subseteq Receipt
  <2>1. CASE \A q \in Requests : ~CommitReceive(q)
    <3>1. UNCHANGED <<stockVars, receipts>>
      BY <2>1, OtherOutcome
    <3> QED
      BY <3>1 DEF TypeOK, InventoryTypeOK, stockVars
  <2>2. ASSUME NEW q \in Requests, CommitReceive(q) PROVE InventoryTypeOK' /\ receipts' \subseteq Receipt
    <3>1. PICK passed \in Rounds, new \in Receipt :
            /\ receipts' = receipts \union {new}
            /\ Booked(passed) \in [Rows -> Nat] /\ ApplyIn(Booked(passed))
      BY <2>2, ReceiveOutcome
    <3> QED
      BY <3>1, ApplyInTyped DEF TypeOK
  <2> QED
    BY <2>1, <2>2
<1>3. request' \in [Requests -> RequestRecords]
  <2>1. CASE UNCHANGED request
    BY <2>1 DEF TypeOK
  <2>2. ASSUME NEW q \in Requests, NEW p \in POs, Begin(q, p)
        PROVE  request' \in [Requests -> RequestRecords]
    <3>1. PICK r \in RequestRecords : Start(q, r)
      BY <2>2, BeginOutcome
    <3> QED
      BY <3>1 DEF Start, TypeOK
  <2>3. ASSUME NEW q \in Requests, Commit(q) \/ Abort(q)
        PROVE  request' \in [Requests -> RequestRecords]
    <3>1. Finish(q)
      BY <2>3
      DEF Commit, CommitSetStatus, CommitUpdateFull, CommitUpdateHeader, CommitReceive, Abort
    <3> QED
      BY <3>1 DEF Finish, TypeOK, RequestRecords
  <2> QED
    BY <2>1, <2>2, <2>3 DEF Next, Create, Delete, vars, orderVars
<1>4. raced' \subseteq POs
  <2>1. ASSUME NEW p \in POs, NEW others, NoteRace(p, others) PROVE raced' \subseteq POs
    BY <2>1 DEF NoteRace, TypeOK
  <2>2. CASE raced' = raced
    BY <2>2 DEF TypeOK
  <2>3. ASSUME NEW p \in POs, Delete(p) PROVE raced' \subseteq POs
    BY <2>1, <2>3 DEF Delete
  <2>4. ASSUME NEW q \in Requests, Commit(q) PROVE raced' \subseteq POs
    <3>1. NoteRace(request[q].po, Requests \ {q})
      BY <2>4 DEF Commit, CommitSetStatus, CommitUpdateFull, CommitUpdateHeader, CommitReceive
    <3>2. request[q].op \in {"setStatus", "updateFull", "updateHeader", "receive"}
      BY <2>4, Zenon DEF Commit, CommitSetStatus, CommitUpdateFull, CommitUpdateHeader, CommitReceive
    <3>3. request[q].po \in POs
      BY <3>2 DEF TypeOK, RequestRecords, Idle
    <3> QED
      BY <2>1, <3>1, <3>3
  <2> QED
    BY <2>2, <2>3, <2>4
    DEF Next, vars, orderVars, Create, Begin, BeginSetStatus, BeginUpdateFull,
        BeginUpdateHeader, BeginReceive, Start, Abort
<1> QED
  BY <1>1, <1>2, <1>3, <1>4 DEF TypeOK

\* A step that books no receipt: an order's lines stay as they are or are replaced by
\* new ones, for which there is no receipt yet.
LEMMA KeepReceipts ==
  ASSUME TypeOK, IsFiniteSet(receipts), PastLinesInv, ReceivedIsAccepted, receipts' = receipts,
         \A p \in POs : \/ details'[p] = details[p]
                        \/ /\ details'[p].gen = details[p].gen + 1
                           /\ \A l \in Lines : details'[p].received[l] = 0
  PROVE  ReceivedIsAccepted'
<1> SUFFICES ASSUME NEW p \in POs, NEW l \in Lines
             PROVE  details'[p].received[l]
                      = SumFunctionOnSet([rc \in receipts |-> rc.passed[l]],
                                         {rc \in ReceiptsOf(p) : rc.gen = details'[p].gen})
  BY DEF ReceivedIsAccepted, ReceiptsOf
<1>1. CASE details'[p] = details[p]
  BY <1>1 DEF ReceivedIsAccepted
<1>2. CASE /\ details'[p].gen = details[p].gen + 1
           /\ \A k \in Lines : details'[p].received[k] = 0
  <2>1. {rc \in ReceiptsOf(p) : rc.gen = details'[p].gen} = {}
    <3>1. details[p].gen \in Nat /\ \A rc \in receipts : rc.gen \in Nat
      BY DEF TypeOK, Details, Receipt
    <3>2. \A rc \in ReceiptsOf(p) : rc.gen <= details[p].gen
      BY DEF PastLinesInv, ReceiptsOf
    <3> QED
      BY <1>2, <3>1, <3>2 DEF ReceiptsOf
  <2> QED
    BY <1>2, <2>1, SumOfNothing
<1> QED
  BY <1>1, <1>2

\* What a receipt books is added to the received quantities of the lines it read, and
\* to the stock: both sums gain the term of the new receipt.
LEMMA ReceiveSums ==
  ASSUME ReceiptInv, NEW q \in Requests, CommitReceive(q)
  PROVE  ReceivedIsAccepted' /\ ReceiptsExplainStock' /\ IsFiniteSet(receipts')
<1> USE DEF ReceiptInv
<1> DEFINE p == request[q].po
           gen == request[q].gen
<1>1. /\ p \in POs /\ gen \in Nat
      /\ \E passed \in Rounds, n \in Nat :
           LET new == [po |-> p, number |-> n, gen |-> gen, passed |-> passed] IN
           /\ passed \in [Lines -> Nat]
           /\ new \in Receipt /\ new \notin receipts
           /\ receipts' = receipts \union {new}
           /\ IncrReceivedQty(p, gen, passed)
           /\ Booked(passed) \in [Rows -> Nat] /\ ApplyIn(Booked(passed))
  BY ReceiveOutcome
<1>2. PICK new \in Receipt :
        /\ new.po = p /\ new.gen = gen /\ new.passed \in [Lines -> Nat]
        /\ new \notin receipts
        /\ receipts' = receipts \union {new}
        /\ IncrReceivedQty(p, gen, new.passed)
        /\ Booked(new.passed) \in [Rows -> Nat] /\ ApplyIn(Booked(new.passed))
  BY <1>1, Zenon
<1>3. IsFiniteSet(receipts')
  BY <1>2, FS_AddElement
<1>4. \A rc \in receipts : rc.passed \in [Lines -> Nat]
  BY DEF TypeOK, Receipt
<1>5. details[p] \in Details
  BY <1>1 DEF TypeOK
<1>6. ASSUME NEW r \in Rows
      PROVE  quantity'[r] = InitQty[r] + SumFunctionOnSet(PutInto(receipts', r), receipts')
  <2> DEFINE f == PutInto(receipts, r)
             g == PutInto(receipts', r)
  <2>1. \A rc \in receipts : f[rc] \in Int /\ g[rc] = f[rc]
    <3>1. ASSUME NEW rc \in receipts PROVE Booked(rc.passed)[r] \in Int
      BY <1>4, BookedType
    <3> QED
      BY <1>2, <3>1 DEF PutInto
  <2>2. g[new] = Booked(new.passed)[r] /\ g[new] \in Int
    BY <1>2 DEF PutInto
  <2>3. SumFunctionOnSet(g, receipts \union {new}) = g[new] + SumFunctionOnSet(f, receipts)
    <3> HIDE DEF f, g
    <3> QED
      BY <1>2, <2>1, <2>2, SumNewIndex
  <2>4. SumFunctionOnSet(f, receipts) \in Int
    <3> HIDE DEF f, g
    <3> QED
      BY <2>1, SumType
  <2>5. quantity[r] = InitQty[r] + SumFunctionOnSet(f, receipts)
    BY DEF ReceiptsExplainStock, PutInto
  <2>6. quantity'[r] = quantity[r] + Booked(new.passed)[r]
    BY <1>2 DEF ApplyIn
  <2>7. InitQty[r] \in Int
    BY InventoryAssumption
  <2>8. \A a, b, c, d \in Int : a = b + c => a + d = b + (d + c)
    BY SMT
  <2>9. quantity[r] + Booked(new.passed)[r]
          = InitQty[r] + (g[new] + SumFunctionOnSet(f, receipts))
    <3> HIDE DEF f, g
    <3>1. quantity[r] \in Int
      BY DEF TypeOK, InventoryTypeOK
    <3> QED
      BY ONLY <2>2, <2>4, <2>5, <2>7, <2>8, <3>1
  <2> QED
    <3> HIDE DEF f, g
    <3>1. quantity'[r] = InitQty[r] + SumFunctionOnSet(g, receipts')
      BY ONLY <1>2, <2>3, <2>6, <2>9
    <3> QED
      BY <3>1 DEF g
<1>7. ReceiptsExplainStock'
  BY <1>6 DEF ReceiptsExplainStock, PutInto
<1>8. ASSUME NEW o \in POs, NEW l \in Lines
      PROVE  details'[o].received[l]
               = SumFunctionOnSet(Passed(receipts', l), Current(receipts', o, details'[o].gen))
  <2> DEFINE f == Passed(receipts, l)
             g == Passed(receipts', l)
             S == Current(receipts, o, details[o].gen)
  <2>1. \A rc \in receipts : f[rc] \in Int /\ g[rc] = f[rc]
    <3>1. \A rc \in receipts : rc.passed[l] \in Int
      BY <1>4
    <3> QED
      BY <1>2, <3>1 DEF Passed
  <2>2. g[new] = new.passed[l] /\ g[new] \in Int
    BY <1>2 DEF Passed
  <2>3. IsFiniteSet(S) /\ S \subseteq receipts
    BY FS_Subset DEF Current
  <2>4. details[o].received[l] = SumFunctionOnSet(f, S)
    BY DEF ReceivedIsAccepted, ReceiptsOf, Passed, Current
  <2>5. SumFunctionOnSet(f, S) \in Int /\ SumFunctionOnSet(g, S) = SumFunctionOnSet(f, S)
    <3> HIDE DEF f, g, S
    <3> QED
      BY <2>1, <2>3, SumType, SumSameTerms
  <2>6. /\ details'[o].gen = details[o].gen
        /\ details'[o].received[l]
             = details[o].received[l] + (IF o = p THEN new.passed[l] ELSE 0)
    <3>1. details[o].received[l] \in Nat
      BY DEF TypeOK, Details
    <3>2. CASE o = p
      BY <1>1, <1>2, <1>5, <3>2 DEF IncrReceivedQty, TypeOK, Details
    <3>3. CASE o # p
      BY <1>1, <1>2, <3>1, <3>3 DEF IncrReceivedQty, TypeOK
    <3> QED
      BY <3>2, <3>3
  <2>7. CASE o = p /\ gen = details[p].gen
    <3>1. Current(receipts', o, details'[o].gen) = S \union {new}
      BY <1>2, <2>6, <2>7 DEF Current
    <3>2. new \notin S
      BY <1>2, <2>3
    <3>3. SumFunctionOnSet(g, S \union {new}) = g[new] + SumFunctionOnSet(f, S)
      <4> HIDE DEF f, g, S
      <4> QED
        BY <2>1, <2>2, <2>3, <3>2, SumNewIndex
    <3>4. details'[o].received[l] = SumFunctionOnSet(f, S) + g[new]
      BY <2>2, <2>4, <2>6, <2>7
    <3>5. SumFunctionOnSet(f, S) + g[new] = g[new] + SumFunctionOnSet(f, S)
      <4> HIDE DEF f, g, S
      <4> QED
        BY <2>2, <2>5
    <3> QED
      BY <3>1, <3>3, <3>4, <3>5
  <2>8. CASE ~(o = p /\ gen = details[p].gen)
    <3>1. Current(receipts', o, details'[o].gen) = S
      BY <1>2, <2>6, <2>8 DEF Current
    <3>2. o = p => new.passed[l] = 0
      BY <1>2, <2>8 DEF IncrReceivedQty
    <3>3. details'[o].received[l] = details[o].received[l]
      <4>1. details[o].received[l] \in Int
        BY DEF TypeOK, Details
      <4> QED
        BY <2>6, <3>2, <4>1
    <3> QED
      BY <2>4, <2>5, <3>1, <3>3
  <2> QED
    BY <2>7, <2>8
<1>9. ReceivedIsAccepted'
  BY <1>8 DEF ReceivedIsAccepted, ReceiptsOf, Passed, Current
<1> QED
  BY <1>3, <1>7, <1>9

\* What the steps other than a receipt do to the lines of the orders.
LEMMA LinesOutcome ==
  ASSUME TypeOK, [Next]_vars, \A q \in Requests : ~CommitReceive(q), NEW p \in POs
  PROVE  \/ details'[p] = details[p]
         \/ /\ details'[p].gen = details[p].gen + 1
            /\ \A l \in Lines : details'[p].received[l] = 0
<1>1. ASSUME NEW o \in POs, NEW content,
             details' = [details EXCEPT ![o] = FreshLines(o, content)]
      PROVE  \/ details'[p] = details[p]
             \/ /\ details'[p].gen = details[p].gen + 1
                /\ \A l \in Lines : details'[p].received[l] = 0
  <2>1. CASE o = p
    <3>1. details'[p] = FreshLines(p, content)
      BY <1>1, <2>1 DEF TypeOK
    <3> QED
      BY <3>1 DEF FreshLines
  <2>2. CASE o # p
    BY <1>1, <2>2 DEF TypeOK
  <2> QED
    BY <2>1, <2>2
<1>2. CASE details' = details
  BY <1>2
<1>3. ASSUME NEW o \in POs, Create(o)
      PROVE  \E content : details' = [details EXCEPT ![o] = FreshLines(o, content)]
  BY <1>3 DEF Create
<1>4. ASSUME NEW q \in Requests, CommitUpdateFull(q)
      PROVE  /\ request[q].po \in POs
             /\ \E content : details' = [details EXCEPT ![request[q].po] =
                                                          FreshLines(request[q].po, content)]
  <2>1. request[q].op = "updateFull" /\ request[q] \in RequestRecords
    BY <1>4 DEF CommitUpdateFull, TypeOK
  <2>2. request[q].po \in POs
    BY <2>1 DEF RequestRecords, Idle
  <2> QED
    BY <1>4, <2>2 DEF CommitUpdateFull
<1> QED
  BY <1>1, <1>2, <1>3, <1>4
  DEF Next, vars, orderVars, Delete, Begin, BeginSetStatus, BeginUpdateFull,
      BeginUpdateHeader, BeginReceive, Start, Commit, CommitSetStatus, CommitUpdateHeader, Abort

\* A receipt on its way was on its way before, or has just read the lines that are there.
LEMMA RequestOutcome ==
  ASSUME TypeOK, [Next]_vars, NEW q \in Requests, request'[q].op = "receive"
  PROVE  \/ request'[q] = request[q]
         \/ /\ details' = details
            /\ request'[q].po \in POs
            /\ request'[q].gen = details[request'[q].po].gen
<1>1. CASE request' = request
  BY <1>1
<1>2. ASSUME NEW o \in Requests, NEW p \in POs, Begin(o, p)
      PROVE  \/ request'[q] = request[q]
             \/ /\ details' = details
                /\ request'[q].po \in POs
                /\ request'[q].gen = details[request'[q].po].gen
  <2>1. PICK r \in RequestRecords :
          /\ Start(o, r)
          /\ r.op = "receive" => r.po = p /\ r.gen = details[p].gen
    BY <1>2, BeginOutcome
  <2>2. request' = [request EXCEPT ![o] = r] /\ details' = details
    BY <2>1 DEF Start
  <2> QED
    BY <2>1, <2>2 DEF TypeOK
<1>3. ASSUME NEW o \in Requests, Commit(o) \/ Abort(o)
      PROVE  request'[q] = request[q]
  <2>1. request' = [request EXCEPT ![o] = Idle]
    BY <1>3
    DEF Commit, CommitSetStatus, CommitUpdateFull, CommitUpdateHeader, CommitReceive, Abort, Finish
  <2> QED
    BY <2>1 DEF TypeOK, Idle
<1> QED
  BY <1>1, <1>2, <1>3 DEF Next, vars, orderVars, Create, Delete

\* No receipt is booked against lines that are still to come.
LEMMA PastLinesStep ==
  ASSUME ReceiptInv, [Next]_vars, TypeOK'
  PROVE  PastLinesInv'
<1> USE DEF ReceiptInv
<1>1. \A p \in POs : /\ details[p].gen \in Nat /\ details'[p].gen \in Nat
                     /\ details'[p].gen >= details[p].gen
  <2>1. \A p \in POs : details[p].gen \in Nat /\ details'[p].gen \in Nat
    BY DEF TypeOK, Details
  <2>2. CASE \A q \in Requests : ~CommitReceive(q)
    BY <2>1, <2>2, LinesOutcome
  <2>3. ASSUME NEW q \in Requests, CommitReceive(q), NEW p \in POs
        PROVE  details'[p].gen = details[p].gen
    BY <2>3 DEF CommitReceive, IncrReceivedQty, TypeOK, Details
  <2> QED
    BY <2>1, <2>2, <2>3
<1>2. ASSUME NEW rc \in receipts'
      PROVE  rc.gen <= details'[rc.po].gen
  <2>1. CASE rc \in receipts
    <3>1. rc.po \in POs /\ rc.gen \in Nat /\ rc.gen <= details[rc.po].gen
      BY <2>1 DEF TypeOK, Receipt, PastLinesInv
    <3> QED
      BY <1>1, <3>1
  <2>2. CASE rc \notin receipts
    <3>1. PICK q \in Requests : CommitReceive(q)
      BY <1>2, <2>2, OtherOutcome
    <3> DEFINE p == request[q].po
               gen == request[q].gen
    <3>2. /\ p \in POs /\ gen \in Nat
          /\ rc.po = p /\ rc.gen = gen
      <4>1. /\ p \in POs /\ gen \in Nat
            /\ \E passed \in Rounds, n \in Nat :
                 receipts' = receipts \union
                   {[po |-> p, number |-> n, gen |-> gen, passed |-> passed]}
        BY <3>1, ReceiveOutcome
      <4>2. PICK passed \in Rounds, n \in Nat :
              rc = [po |-> p, number |-> n, gen |-> gen, passed |-> passed]
        BY <1>2, <2>2, <4>1
      <4> QED
        BY <4>1, <4>2
    <3>3. request[q].gen <= details[request[q].po].gen
      BY <3>1 DEF CommitReceive, PastLinesInv
    <3> QED
      BY <1>1, <3>2, <3>3
  <2> QED
    BY <2>1, <2>2
<1>3. ASSUME NEW q \in Requests, request'[q].op = "receive"
      PROVE  request'[q].gen <= details'[request'[q].po].gen
  <2>1. request'[q].po \in POs /\ request'[q].gen \in Nat
    BY <1>3 DEF TypeOK, RequestRecords, Idle
  <2>2. CASE request'[q] = request[q]
    <3>1. request'[q].gen <= details[request'[q].po].gen
      BY <1>3, <2>2 DEF PastLinesInv
    <3> QED
      BY <1>1, <2>1, <3>1
  <2>3. CASE details' = details /\ request'[q].gen = details[request'[q].po].gen
    BY <1>1, <2>1, <2>3
  <2> QED
    BY <1>3, <2>2, <2>3, RequestOutcome
<1> QED
  BY <1>2, <1>3 DEF PastLinesInv

\* Every step keeps quantities received and stock explained by the receipts.
LEMMA NextReceipts ==
  ASSUME ProcurementInv, ReceiptInv, [Next]_vars
  PROVE  ReceiptInv'
<1>1. TypeOK'
  BY TypeStep DEF ReceiptInv
<1>2. PastLinesInv'
  BY <1>1, PastLinesStep
<1>3. IsFiniteSet(receipts') /\ ReceivedIsAccepted' /\ ReceiptsExplainStock'
  <2>1. CASE \E q \in Requests : CommitReceive(q)
    BY <2>1, ReceiveSums
  <2>2. CASE \A q \in Requests : ~CommitReceive(q)
    <3>1. UNCHANGED <<stockVars, receipts>>
      BY <2>2, OtherOutcome
    <3>2. ReceivedIsAccepted'
      BY <2>2, <3>1, LinesOutcome, KeepReceipts DEF ReceiptInv
    <3>3. IsFiniteSet(receipts') /\ ReceiptsExplainStock'
      BY <3>1 DEF ReceiptInv, ReceiptsExplainStock, stockVars
    <3> QED
      BY <3>2, <3>3
  <2> QED
    BY <2>1, <2>2
<1> QED
  BY <1>1, <1>2, <1>3 DEF ReceiptInv

\* So they always are.
LEMMA AlwaysReceipts == Spec => []ReceiptInv
BY InitReceipts, NextReceipts, AlwaysProcurement, PTL DEF Spec

-----------------------------------------------------------------------------

\* The rows of orders, lines, receipts and stock are well typed, and so is what a
\* request holds.
THEOREM ProcurementTypeOK == Spec => []TypeOK
<1>1. ReceiptInv => TypeOK
  BY DEF ReceiptInv
<1> QED
  BY <1>1, AlwaysReceipts, PTL

\* received_qty of every line is what the receipts booked against that very line
\* accepted, whatever replacements of the lines race with them.
THEOREM ReceivedQtyExplained == Spec => []ReceivedIsAccepted
<1>1. ReceiptInv => ReceivedIsAccepted
  BY DEF ReceiptInv
<1> QED
  BY <1>1, AlwaysReceipts, PTL

\* Every receipt is in the stock exactly once, those of orders that have been edited,
\* cancelled or deleted since included.
THEOREM StockMatchesReceipts == Spec => []ReceiptsExplainStock
<1>1. ReceiptInv => ReceiptsExplainStock
  BY DEF ReceiptInv
<1> QED
  BY <1>1, AlwaysReceipts, PTL
=============================================================================
