------------------------------ MODULE Approvals ------------------------------
(***************************************************************************)
(* The approval workflow (internal/service/approval_service.go): an order  *)
(* is submitted to the group of its type, each member approves or rejects, *)
(* and the member who completes the task triggers the order's own approval.*)
(*                                                                         *)
(* Act runs in steps, with every other request free to run between them:   *)
(* it reads the task; a transaction records the member's verdict, evaluates*)
(* the task and commits; the task is read again; if it is APPROVED then,   *)
(* the order is read and approved.  A purchase order is saved as APPROVED  *)
(* whatever its status, a sales order only out of DRAFT and only if stock  *)
(* and credit allow (modules Procurement and SalesOrders have the details, *)
(* here these calls are reduced to the status of the order).               *)
(*                                                                         *)
(* OneWriter is the database: SQLite admits one writing transaction at a   *)
(* time; on MySQL and PostgreSQL two transactions wait for each other only *)
(* when they write the same row, and neither sees the other's writes       *)
(* before they are committed.                                              *)
(***************************************************************************)
EXTENDS Integers, FiniteSets

CONSTANTS
  PurchaseOrders,
  SalesOrders,
  Tasks,        \* ids of the tasks that may be created
  Users,
  Groupings,    \* what a group may be configured to: mode and members
  Requests,     \* goroutines: how many Act requests are in flight at once
  OneWriter     \* the database is SQLite

Modes == {"ALL", "ANY"}

ASSUME ApprovalsAssumption ==
  /\ PurchaseOrders \intersect SalesOrders = {}
  /\ Groupings \subseteq [mode : Modes, members : (SUBSET Users) \ {{}}]
  /\ OneWriter \in BOOLEAN

VARIABLES
  status,   \* status of each order, "NONE" once it is deleted
  group,    \* the group of each order type, NoGroup if there is none
  task,     \* the tasks and the records of their members
  acting,   \* what each goroutine has read and is about to do
  raced,    \* history: tasks on which two members' requests overlapped
  applied,  \* history: tasks whose order has been approved in consequence
  failed    \* history: tasks a request left after its verdict, without its effect

vars == <<status, group, task, acting, raced, applied, failed>>

Orders == PurchaseOrders \union SalesOrders
Types == {"PO", "SO"}
TypeOf(o) == IF o \in PurchaseOrders THEN "PO" ELSE "SO"

Verdicts == {"APPROVED", "REJECTED"}
NoGroup == [mode |-> "ALL", members |-> {}]
NoTask == [order |-> "none", status |-> "NONE", verdict |-> <<>>]
Idle == [phase |-> "idle"]

\* verdict has one record per member: a user of the group when the task was created.
TaskRecords ==
  {NoTask} \union
    UNION {[order : Orders, status : Verdicts \union {"PENDING"},
            verdict : [ms -> Verdicts \union {"PENDING"}]] : ms \in (SUBSET Users) \ {{}}}

ActingRecords ==
  [phase : {"tx"}, task : Tasks, user : Users, action : Verdicts]
    \union [phase : {"commit"}, task : Tasks, user : Users, action : Verdicts,
             final : Verdicts \union {"PENDING"}]
    \union [phase : {"reread", "apply", "save"}, task : Tasks]
    \union {Idle}

TypeOK ==
  /\ status \in [Orders -> {"NONE", "DRAFT", "APPROVED", "IN_PROGRESS", "CANCELLED"}]
  /\ group \in [Types -> Groupings \union {NoGroup}]
  /\ task \in [Tasks -> TaskRecords]
  /\ acting \in [Requests -> ActingRecords]
  /\ raced \subseteq Tasks
  /\ applied \subseteq Tasks /\ failed \subseteq Tasks

Init ==
  /\ status = [o \in Orders |-> "DRAFT"]
  /\ group = [y \in Types |-> NoGroup]
  /\ task = [t \in Tasks |-> NoTask]
  /\ acting = [q \in Requests |-> Idle]
  /\ raced = {} /\ applied = {} /\ failed = {}

-----------------------------------------------------------------------------
(* Groups and tasks *)

\* CreateGroup, UpdateGroup and DeleteGroup.  Tasks keep their members but are
\* evaluated by whatever mode the group has at that moment.
ConfigureGroup(y) ==
  /\ \E g \in Groupings \union {NoGroup} : group' = [group EXCEPT ![y] = g]
  /\ UNCHANGED <<status, task, acting, raced, applied, failed>>

\* Any order that exists can be submitted, in any status and more than once.
Submit(t, o) ==
  /\ task[t] = NoTask
  /\ status[o] # "NONE"
  /\ group[TypeOf(o)].members # {}
  /\ task' = [task EXCEPT ![t] =
                [order |-> o, status |-> "PENDING",
                 verdict |-> [u \in group[TypeOf(o)].members |-> "PENDING"]]]
  /\ UNCHANGED <<status, group, acting, raced, applied, failed>>

-----------------------------------------------------------------------------
(* What other requests do to the orders meanwhile. *)

\* A purchase order that exists is set to any status; nobody asks where it comes from.
SetStatus(o) ==
  /\ o \in PurchaseOrders /\ status[o] # "NONE"
  /\ \E new \in {"DRAFT", "APPROVED", "IN_PROGRESS", "CANCELLED"} :
       status' = [status EXCEPT ![o] = new]
  /\ UNCHANGED <<group, task, acting, raced, applied, failed>>

\* The sales order's own approval endpoint, which asks for no task, and its cancellation.
ApproveSale(o) ==
  /\ o \in SalesOrders /\ status[o] = "DRAFT"
  /\ status' = [status EXCEPT ![o] = "APPROVED"]
  /\ UNCHANGED <<group, task, acting, raced, applied, failed>>

CancelSale(o) ==
  /\ o \in SalesOrders /\ status[o] \in {"DRAFT", "APPROVED"}
  /\ status' = [status EXCEPT ![o] = "CANCELLED"]
  /\ UNCHANGED <<group, task, acting, raced, applied, failed>>

\* A receipt; IN_PROGRESS also stands for COMPLETED here.
ReceiveGoods(o) ==
  /\ o \in PurchaseOrders
  /\ status[o] = "APPROVED"
  /\ status' = [status EXCEPT ![o] = "IN_PROGRESS"]
  /\ UNCHANGED <<group, task, acting, raced, applied, failed>>

\* A purchase order in any status, a sales order in DRAFT.
DeleteOrder(o) ==
  /\ status[o] # "NONE"
  /\ o \in SalesOrders => status[o] = "DRAFT"
  /\ status' = [status EXCEPT ![o] = "NONE"]
  /\ UNCHANGED <<group, task, acting, raced, applied, failed>>

OrderRequest(o) ==
  SetStatus(o) \/ ApproveSale(o) \/ CancelSale(o) \/ ReceiveGoods(o) \/ DeleteOrder(o)

-----------------------------------------------------------------------------
(* Act *)

ActsOn(p, t) == acting[p] # Idle /\ acting[p].task = t

\* Mutant: whether the task is still open is not asked.
BeginActDecided(q, t, u) ==
  /\ acting[q] = Idle
  /\ u \in DOMAIN task[t].verdict /\ task[t].verdict[u] = "PENDING"
  /\ \E a \in Verdicts :
       acting' = [acting EXCEPT ![q] = [phase |-> "tx", task |-> t, user |-> u, action |-> a]]
  /\ raced' = IF \E p \in Requests : ActsOn(p, t) THEN raced \union {t} ELSE raced
  /\ UNCHANGED <<status, group, task, applied, failed>>

\* Act reads the task with its members and checks both.
BeginAct(q, t, u) ==
  /\ acting[q] = Idle
  /\ task[t].status = "PENDING"
  /\ u \in DOMAIN task[t].verdict /\ task[t].verdict[u] = "PENDING"
  /\ \E a \in Verdicts :
       acting' = [acting EXCEPT ![q] = [phase |-> "tx", task |-> t, user |-> u, action |-> a]]
  /\ raced' = IF \E p \in Requests : ActsOn(p, t) THEN raced \union {t} ELSE raced
  /\ UNCHANGED <<status, group, task, applied, failed>>

ApprovedBy(verdict) == {u \in DOMAIN verdict : verdict[u] = "APPROVED"}
RejectedBy(verdict) == {u \in DOMAIN verdict : verdict[u] = "REJECTED"}

\* Whether the approvals are as many as the mode asks for.
ModeSatisfied(verdict, mode) ==
  \/ mode = "ALL" /\ ApprovedBy(verdict) = DOMAIN verdict
  \/ mode = "ANY" /\ ApprovedBy(verdict) # {}

\* Mutant: a task that stays open is evaluated to the empty string.
EvaluateBlank(verdict, mode) ==
  IF RejectedBy(verdict) # {} THEN "REJECTED"
  ELSE IF ModeSatisfied(verdict, mode) THEN "APPROVED" ELSE ""

\* Mutant: only the rejections of all members reject the task.
EvaluateAllReject(verdict, mode) ==
  IF RejectedBy(verdict) = DOMAIN verdict THEN "REJECTED"
  ELSE IF ModeSatisfied(verdict, mode) THEN "APPROVED" ELSE "PENDING"

\* Mutant: the approvals are looked at before the rejections.
EvaluateApprovalsFirst(verdict, mode) ==
  IF ModeSatisfied(verdict, mode) THEN "APPROVED"
  ELSE IF RejectedBy(verdict) # {} THEN "REJECTED" ELSE "PENDING"

\* evaluateTx: one rejection decides; otherwise the mode of the group does.
Evaluate(verdict, mode) ==
  IF RejectedBy(verdict) # {} THEN "REJECTED"
  ELSE IF ModeSatisfied(verdict, mode) THEN "APPROVED" ELSE "PENDING"

\* What q's transaction sees once it has updated its own member's record: that, and
\* what the others have committed.
Recorded(q) == [task[acting[q].task].verdict EXCEPT ![acting[q].user] = acting[q].action]

\* The locks another transaction holds that q's update has to wait for.
MayWrite(q) ==
  \A p \in Requests \ {q} :
    acting[p].phase = "commit" =>
      /\ ~OneWriter
      /\ <<acting[p].task, acting[p].user>> # <<acting[q].task, acting[q].user>>

\* The transaction begins: the member's record is updated, whatever it is by now, and
\* the task is evaluated by what the transaction sees.
EvaluateAct(q) ==
  /\ acting[q].phase = "tx"
  /\ MayWrite(q)
  /\ LET t == acting[q].task IN
       acting' = [acting EXCEPT ![q] =
         [phase |-> "commit", task |-> t, user |-> acting[q].user, action |-> acting[q].action,
          final |-> Evaluate(Recorded(q), group[TypeOf(task[t].order)].mode)]]
  /\ UNCHANGED <<status, group, task, raced, applied, failed>>

\* It commits.  The status of the task is overwritten too, unless the evaluation is open.
CommitAct(q) ==
  /\ acting[q].phase = "commit"
  /\ LET t == acting[q].task
         final == acting[q].final IN
       /\ task' = [task EXCEPT ![t].verdict = Recorded(q),
                               ![t].status = IF final = "PENDING" THEN @ ELSE final]
       /\ acting' = [acting EXCEPT ![q] = [phase |-> "reread", task |-> t]]
  /\ UNCHANGED <<status, group, raced, applied, failed>>

\* Mutant: the order is approved only if every member approved.
RereadUnanimous(q) ==
  /\ acting[q].phase = "reread"
  /\ LET t == acting[q].task IN
       acting' = [acting EXCEPT ![q] = IF ApprovedBy(task[t].verdict) = DOMAIN task[t].verdict
                                       THEN [phase |-> "apply", task |-> t] ELSE Idle]
  /\ UNCHANGED <<status, group, task, raced, applied, failed>>

\* The task is read again, outside the transaction.
Reread(q) ==
  /\ acting[q].phase = "reread"
  /\ LET t == acting[q].task IN
       acting' = [acting EXCEPT ![q] = IF task[t].status = "APPROVED"
                                       THEN [phase |-> "apply", task |-> t] ELSE Idle]
  /\ UNCHANGED <<status, group, task, raced, applied, failed>>

\* applyOrderApproval reads the order.
BeginApply(q) ==
  /\ acting[q].phase = "apply"
  /\ LET o == task[acting[q].task].order IN
     IF o \in PurchaseOrders THEN status[o] # "NONE" ELSE status[o] = "DRAFT"
  /\ acting' = [acting EXCEPT ![q].phase = "save"]
  /\ UNCHANGED <<status, group, task, raced, applied, failed>>

\* SetStatus saves APPROVED over whatever is there; the update of a sales order still
\* asks for DRAFT.
CommitApply(q) ==
  /\ acting[q].phase = "save"
  /\ LET o == task[acting[q].task].order IN
       /\ o \in SalesOrders => status[o] = "DRAFT"
       /\ status' = [status EXCEPT ![o] = "APPROVED"]
       /\ applied' = applied \union {acting[q].task}
  /\ acting' = [acting EXCEPT ![q] = Idle]
  /\ UNCHANGED <<group, task, raced, failed>>

\* The request ends before its effect: the transaction fails, the order is gone or no
\* longer in DRAFT, stock or credit do not allow it, the server stops.  What is
\* committed stays and nothing repeats the rest.
FailAct(q) ==
  /\ acting[q] # Idle
  /\ failed' = IF acting[q].phase \in {"tx", "commit"} THEN failed ELSE failed \union {acting[q].task}
  /\ acting' = [acting EXCEPT ![q] = Idle]
  /\ UNCHANGED <<status, group, task, raced, applied>>

ActStep(q) ==
  \/ EvaluateAct(q) \/ CommitAct(q)
  \/ Reread(q) \/ BeginApply(q) \/ CommitApply(q)
  \/ FailAct(q)

-----------------------------------------------------------------------------

Next ==
  \/ \E y \in Types : ConfigureGroup(y)
  \/ \E t \in Tasks, o \in Orders : Submit(t, o)
  \/ \E o \in Orders : OrderRequest(o)
  \/ \E q \in Requests, t \in Tasks, u \in Users : BeginAct(q, t, u)
  \/ \E q \in Requests : ActStep(q)

\* A goroutine that serves a request goes on; nobody has to send requests.
Fairness == \A q \in Requests : WF_vars(ActStep(q))

Spec == Init /\ [][Next]_vars /\ Fairness

-----------------------------------------------------------------------------
Decided(t) == task[t].status \in Verdicts

\* A task whose members have all acted is decided, in whatever order their
\* transactions commit and however the group's mode changes meanwhile: the evaluation
\* runs in the transaction of each verdict.  (Act's comment: re-evaluates the whole task,
\* on full approval it triggers the order's own approval.)
AllActedIsDecided ==
  \A t \in Tasks :
    task[t].status # "NONE" /\ (\A u \in DOMAIN task[t].verdict : task[t].verdict[u] # "PENDING")
      => Decided(t)

\* No task stands APPROVED over a member's rejection, not even one that was open when
\* the others' approval decided the task.
ApprovedMeansNoRejection ==
  \A t \in Tasks :
    task[t].status = "APPROVED" =>
      \A u \in DOMAIN task[t].verdict : task[t].verdict[u] # "REJECTED"

\* The side effect is decided from a read after the commit and carried out later, while
\* other members may act and the order may change.  Unless two requests on the task
\* overlapped, the request that carries it out does so for a task that still stands
\* APPROVED, and it is the first to do so: an approval takes effect at most once.
EffectOfStandingApproval ==
  \A q \in Requests :
    acting[q].phase \in {"apply", "save"} /\ acting[q].task \notin raced =>
      task[acting[q].task].status = "APPROVED" /\ acting[q].task \notin applied

\* A decided task keeps its decision, unless two requests on it overlapped: the check
\* that it is PENDING is made before the transaction.
DecisionFinal ==
  [][\A t \in Tasks \ raced : Decided(t) => task'[t].status = task[t].status]_vars

\* An approval takes effect (docs/user/changelog.md: takes effect when the approval
\* completes): some request goes on to approve the order, unless one failed on the way
\* or a later rejection overturned the task.
VerdictTakesEffect ==
  \A t \in Tasks :
    task[t].status = "APPROVED" ~> t \in applied \union failed \/ task[t].status = "REJECTED"
=============================================================================
