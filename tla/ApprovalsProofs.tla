--------------------------- MODULE ApprovalsProofs ---------------------------
(***************************************************************************)
(* For any number of orders, tasks, members and concurrent requests, on any*)
(* database: the state is well typed; and unless two requests on a task    *)
(* overlapped, a decided task keeps its decision and takes effect at most  *)
(* once, while it stands APPROVED.                                         *)
(*                                                                         *)
(* With one writing transaction at a time (SQLite) also: a task whose      *)
(* members have all acted is decided, and no task stands APPROVED over a   *)
(* rejection.  These two are not inductive: a transaction commits an       *)
(* evaluation it made earlier.  What carries them over is that the         *)
(* evaluation is still the one of the current verdicts when it commits     *)
(* (EvaluatedInv), because no other transaction is open meanwhile          *)
(* (OneWriterInv).  Without OneWriter both fail: the run approvals_write_skew*)
(* shows a task left open for ever.                                        *)
(***************************************************************************)
EXTENDS Approvals, TLAPS

-----------------------------------------------------------------------------
(* The inductive invariants. *)

\* At most one transaction is open.
OneWriterInv ==
  \A p, q \in Requests :
    acting[p].phase = "commit" /\ acting[q].phase = "commit" => p = q

\* A request acts for a member of an existing task.
MemberInv ==
  \A q \in Requests :
    acting[q].phase \in {"tx", "commit"} =>
      /\ task[acting[q].task].status # "NONE"
      /\ acting[q].user \in DOMAIN task[acting[q].task].verdict

\* What an open transaction is about to commit is the evaluation, in some mode, of the
\* verdicts as they will then be.
EvaluatedInv ==
  \A q \in Requests :
    acting[q].phase = "commit" =>
      \E mode \in Modes : acting[q].final = Evaluate(Recorded(q), mode)

\* What holds on any database, and what needs one writer besides.
WellFormed == TypeOK /\ MemberInv
VerdictInv == OneWriterInv /\ EvaluatedInv /\ AllActedIsDecided /\ ApprovedMeansNoRejection

-----------------------------------------------------------------------------
(* What the definitions say of a task, a group, and an evaluation. *)

\* A task that exists has an order, at least one member, and a verdict of each.
LEMMA TaskFacts ==
  ASSUME TypeOK, NEW t \in Tasks, task[t].status # "NONE"
  PROVE  /\ task[t].order \in Orders
         /\ task[t].status \in Verdicts \union {"PENDING"}
         /\ DOMAIN task[t].verdict \in SUBSET Users
         /\ DOMAIN task[t].verdict # {}
         /\ task[t].verdict \in [DOMAIN task[t].verdict -> Verdicts \union {"PENDING"}]
  <1>1. task[t] \in TaskRecords
    BY DEF TypeOK
  <1>2. task[t] # NoTask
    BY DEF NoTask
  <1>3. PICK ms \in (SUBSET Users) \ {{}} :
          task[t] \in [order : Orders, status : Verdicts \union {"PENDING"},
                       verdict : [ms -> Verdicts \union {"PENDING"}]]
    BY <1>1, <1>2 DEF TaskRecords
  <1> QED
    BY <1>3

\* Every mode a group can have is ALL or ANY, that of a deleted group ALL.
LEMMA GroupFacts ==
  ASSUME TypeOK, NEW y \in Types
  PROVE  /\ group[y].mode \in Modes
         /\ group[y].members \in SUBSET Users
  BY ApprovalsAssumption DEF TypeOK, NoGroup, Modes

\* The evaluation is a status, final as soon as all have acted, and an approval or an
\* open evaluation has seen no rejection.
LEMMA EvaluateFacts ==
  ASSUME NEW ms, ms # {},
         NEW verdict \in [ms -> Verdicts \union {"PENDING"}],
         NEW mode \in Modes
  PROVE  /\ Evaluate(verdict, mode) \in Verdicts \union {"PENDING"}
         /\ (\A u \in ms : verdict[u] # "PENDING") => Evaluate(verdict, mode) \in Verdicts
         /\ Evaluate(verdict, mode) # "REJECTED" => \A u \in ms : verdict[u] # "REJECTED"
  <1>1. ASSUME \A u \in ms : verdict[u] # "PENDING", RejectedBy(verdict) = {}
        PROVE  ModeSatisfied(verdict, mode)
    <2>1. \A u \in ms : verdict[u] = "APPROVED"
      BY <1>1 DEF RejectedBy, Verdicts
    <2>2. ApprovedBy(verdict) = ms
      BY <2>1 DEF ApprovedBy
    <2> QED
      BY <2>2 DEF ModeSatisfied, Modes
  <1> QED
    BY <1>1 DEF Evaluate, RejectedBy, Verdicts

\* A request in flight works on a task; the transactions also carry the member.
LEMMA RequestFacts ==
  ASSUME TypeOK, NEW q \in Requests, acting[q] # Idle
  PROVE  /\ acting[q].task \in Tasks
         /\ acting[q].phase \in {"tx", "commit"} =>
              acting[q].user \in Users /\ acting[q].action \in Verdicts
         /\ acting[q].phase = "commit" => acting[q].final \in Verdicts \union {"PENDING"}
         /\ acting[q].phase \in {"tx", "commit", "reread", "apply", "save"}
  <1>1. acting[q] \in ActingRecords \ {Idle}
    BY DEF TypeOK
  <1> QED
    BY <1>1 DEF ActingRecords

\* What a transaction sees is again a verdict of each member.
LEMMA RecordedFacts ==
  ASSUME TypeOK, MemberInv, NEW q \in Requests, acting[q].phase \in {"tx", "commit"}
  PROVE  LET t == acting[q].task IN
         /\ t \in Tasks
         /\ task[t].status # "NONE"
         /\ DOMAIN Recorded(q) = DOMAIN task[t].verdict
         /\ Recorded(q) \in [DOMAIN task[t].verdict -> Verdicts \union {"PENDING"}]
  <1> DEFINE t == acting[q].task
  <1>1. acting[q] # Idle
    BY DEF Idle
  <1>2. t \in Tasks /\ acting[q].action \in Verdicts
    BY <1>1, RequestFacts
  <1>3. task[t].status # "NONE"
    BY DEF MemberInv
  <1>4. task[t].verdict \in [DOMAIN task[t].verdict -> Verdicts \union {"PENDING"}]
    BY <1>2, <1>3, TaskFacts
  <1> QED
    BY <1>2, <1>3, <1>4 DEF Recorded

-----------------------------------------------------------------------------
(* The state stays well formed, on any database. *)

\* Before the first submission the workflow is well formed.
LEMMA InitWellFormed == Init => WellFormed
  <1> SUFFICES ASSUME Init PROVE WellFormed
    OBVIOUS
  <1>1. TypeOK
    BY DEF Init, TypeOK, TaskRecords, ActingRecords, NoTask
  <1>2. MemberInv
    BY DEF Init, MemberInv, Idle
  <1> QED
    BY <1>1, <1>2 DEF WellFormed

\* What a commit makes of the task: its order and members stay, the verdicts are those
\* the transaction saw, the status is its evaluation unless that is open.
LEMMA CommitOutcome ==
  ASSUME WellFormed, NEW q \in Requests, CommitAct(q)
  PROVE  LET t == acting[q].task
             final == acting[q].final
             outcome == IF final = "PENDING" THEN task[t].status ELSE final IN
         /\ t \in Tasks /\ task[t].status # "NONE"
         /\ final \in Verdicts \union {"PENDING"}
         /\ outcome \in Verdicts \union {"PENDING"}
         /\ task'[t] = [order |-> task[t].order, status |-> outcome, verdict |-> Recorded(q)]
         /\ task'[t] \in TaskRecords
         /\ task'[t].status # "NONE" /\ DOMAIN task'[t].verdict = DOMAIN task[t].verdict
         /\ task'[t].status = "APPROVED" => final = "APPROVED" \/ task[t].status = "APPROVED"
         /\ DOMAIN Recorded(q) = DOMAIN task[t].verdict
         /\ task' = [task EXCEPT ![t] = task'[t]]
         /\ \A s \in Tasks \ {t} : task'[s] = task[s]
         /\ acting' = [acting EXCEPT ![q] = [phase |-> "reread", task |-> t]]
         /\ acting'[q] = [phase |-> "reread", task |-> t]
         /\ \A p \in Requests \ {q} : acting'[p] = acting[p]
  <1> USE DEF WellFormed
  <1> DEFINE t == acting[q].task
             final == acting[q].final
             outcome == IF final = "PENDING" THEN task[t].status ELSE final
             new == [phase |-> "reread", task |-> t]
  <1>1. /\ acting[q].phase = "commit"
        /\ task' = [task EXCEPT ![t].verdict = Recorded(q), ![t].status = outcome]
        /\ acting' = [acting EXCEPT ![q] = new]
        /\ UNCHANGED <<status, group, raced, applied, failed>>
    BY DEF CommitAct
  <1>2. /\ t \in Tasks /\ task[t].status # "NONE"
        /\ DOMAIN Recorded(q) = DOMAIN task[t].verdict
        /\ Recorded(q) \in [DOMAIN task[t].verdict -> Verdicts \union {"PENDING"}]
    BY <1>1, RecordedFacts
  <1>3. /\ task[t].order \in Orders
        /\ task[t].status \in Verdicts \union {"PENDING"}
        /\ DOMAIN task[t].verdict \in (SUBSET Users) \ {{}}
    BY <1>2, TaskFacts
  <1>4. final \in Verdicts \union {"PENDING"}
    BY <1>1, RequestFacts DEF Idle
  <1>5. outcome \in Verdicts \union {"PENDING"}
    BY <1>3, <1>4
  <1>6. task'[t] = [order |-> task[t].order, status |-> outcome, verdict |-> Recorded(q)]
    <2>1. task[t] \in TaskRecords
      BY <1>2 DEF TypeOK
    <2>2. PICK ms \in (SUBSET Users) \ {{}} :
            task[t] \in [order : Orders, status : Verdicts \union {"PENDING"},
                         verdict : [ms -> Verdicts \union {"PENDING"}]]
      BY <1>2, <2>1 DEF TaskRecords, NoTask
    <2> QED
      BY <1>1, <1>2, <2>2 DEF TypeOK
  <1>7. task'[t] \in TaskRecords
    <2>1. task'[t] \in [order : Orders, status : Verdicts \union {"PENDING"},
                        verdict : [DOMAIN task[t].verdict -> Verdicts \union {"PENDING"}]]
      BY <1>2, <1>3, <1>5, <1>6
    <2> QED
      BY <1>3, <2>1, Zenon DEF TaskRecords
  <1>8. \A s \in Tasks \ {t} : task'[s] = task[s]
    BY <1>1, <1>2 DEF TypeOK
  <1>9. task' = [task EXCEPT ![t] = task'[t]]
    BY <1>1, <1>2, <1>8 DEF TypeOK
  <1>10. acting'[q] = new /\ \A p \in Requests \ {q} : acting'[p] = acting[p]
    BY <1>1 DEF TypeOK
  <1>11. /\ task'[t].status # "NONE" /\ DOMAIN task'[t].verdict = DOMAIN task[t].verdict
         /\ task'[t].status = "APPROVED" => final = "APPROVED" \/ task[t].status = "APPROVED"
    BY <1>2, <1>5, <1>6 DEF Verdicts
  <1> QED
    BY <1>1, <1>2, <1>4, <1>5, <1>6, <1>7, <1>8, <1>9, <1>10, <1>11

\* The steps that only write the status of an order, or the group.
LEMMA OtherWellFormed ==
  ASSUME WellFormed, UNCHANGED <<task, acting, raced, applied, failed>>,
         status' \in [Orders -> {"NONE", "DRAFT", "APPROVED", "IN_PROGRESS", "CANCELLED"}],
         group' \in [Types -> Groupings \union {NoGroup}]
  PROVE  WellFormed'
  BY DEF WellFormed, TypeOK, MemberInv

\* A submission adds a task with the members its group has then.
LEMMA SubmitWellFormed ==
  ASSUME WellFormed, NEW t \in Tasks, NEW o \in Orders, Submit(t, o)
  PROVE  WellFormed'
  <1> USE DEF WellFormed
  <1> DEFINE ms == group[TypeOf(o)].members
             new == [order |-> o, status |-> "PENDING", verdict |-> [u \in ms |-> "PENDING"]]
  <1>1. ms \in (SUBSET Users) \ {{}}
    BY GroupFacts DEF Submit, TypeOf, Types
  <1>2. new \in TaskRecords
    BY <1>1 DEF TaskRecords
  <1>3. /\ task' = [task EXCEPT ![t] = new]
        /\ task[t] = NoTask
        /\ UNCHANGED <<status, group, acting, raced, applied, failed>>
    BY DEF Submit
  <1>4. TypeOK'
    BY <1>2, <1>3 DEF TypeOK
  <1>5. \A s \in Tasks \ {t} : task'[s] = task[s]
    BY <1>3 DEF TypeOK
  <1>6. \A q \in Requests : acting[q].phase \in {"tx", "commit"} =>
                            acting[q].task \in Tasks \ {t}
    BY <1>3, RequestFacts DEF MemberInv, NoTask, Idle
  <1>7. MemberInv'
    BY <1>3, <1>5, <1>6 DEF MemberInv
  <1> QED
    BY <1>4, <1>7

\* An Act opens its transaction on a task it has found PENDING.
LEMMA BeginActWellFormed ==
  ASSUME WellFormed, NEW q \in Requests, NEW t \in Tasks, NEW u \in Users, BeginAct(q, t, u)
  PROVE  WellFormed'
  <1> USE DEF WellFormed
  <1>1. PICK a \in Verdicts :
          acting' = [acting EXCEPT ![q] =
                       [phase |-> "tx", task |-> t, user |-> u, action |-> a]]
    BY DEF BeginAct
  <1>2. UNCHANGED <<status, group, task, applied, failed>> /\ raced' \subseteq Tasks
    BY DEF BeginAct, TypeOK
  <1>3. [phase |-> "tx", task |-> t, user |-> u, action |-> a] \in ActingRecords
    BY DEF ActingRecords
  <1>4. TypeOK'
    BY <1>1, <1>2, <1>3 DEF TypeOK
  <1>5. \A p \in Requests \ {q} : acting'[p] = acting[p]
    BY <1>1 DEF TypeOK
  <1>6. acting'[q] = [phase |-> "tx", task |-> t, user |-> u, action |-> a]
    BY <1>1 DEF TypeOK
  <1>7. task[t].status # "NONE" /\ u \in DOMAIN task[t].verdict
    BY DEF BeginAct
  <1>8. MemberInv'
    BY <1>2, <1>5, <1>6, <1>7 DEF MemberInv
  <1> QED
    BY <1>4, <1>8

\* The evaluation in the transaction reads tasks and moves its request only.
LEMMA EvaluateActWellFormed ==
  ASSUME WellFormed, NEW q \in Requests, EvaluateAct(q)
  PROVE  WellFormed'
  <1> USE DEF WellFormed
  <1> DEFINE t == acting[q].task
             mode == group[TypeOf(task[t].order)].mode
             new == [phase |-> "commit", task |-> t, user |-> acting[q].user,
                     action |-> acting[q].action, final |-> Evaluate(Recorded(q), mode)]
  <1>1. /\ acting[q].phase = "tx"
        /\ acting' = [acting EXCEPT ![q] = new]
        /\ UNCHANGED <<status, group, task, raced, applied, failed>>
    BY DEF EvaluateAct
  <1>2. /\ t \in Tasks /\ task[t].status # "NONE"
        /\ DOMAIN Recorded(q) = DOMAIN task[t].verdict
        /\ Recorded(q) \in [DOMAIN task[t].verdict -> Verdicts \union {"PENDING"}]
    BY <1>1, RecordedFacts
  <1>3. DOMAIN task[t].verdict # {} /\ task[t].order \in Orders
    BY <1>2, TaskFacts
  <1>4. mode \in Modes
    BY <1>3, GroupFacts DEF TypeOf, Types
  <1>5. Evaluate(Recorded(q), mode) \in Verdicts \union {"PENDING"}
    BY <1>2, <1>3, <1>4, EvaluateFacts
  <1>6. acting[q].user \in Users /\ acting[q].action \in Verdicts
    BY <1>1, RequestFacts DEF Idle
  <1>7. new \in ActingRecords
    BY <1>2, <1>5, <1>6 DEF ActingRecords
  <1>8. TypeOK'
    BY <1>1, <1>7 DEF TypeOK
  <1>9. acting'[q] = new /\ \A p \in Requests \ {q} : acting'[p] = acting[p]
    BY <1>1 DEF TypeOK
  <1>10. MemberInv'
    BY <1>1, <1>9 DEF MemberInv
  <1> QED
    BY <1>8, <1>10

\* The commit writes one verdict and one status of one task.
LEMMA CommitActWellFormed ==
  ASSUME WellFormed, NEW q \in Requests, CommitAct(q)
  PROVE  WellFormed'
  <1> USE DEF WellFormed
  <1> DEFINE t == acting[q].task
  <1>1. /\ t \in Tasks
        /\ task' = [task EXCEPT ![t] = task'[t]] /\ task'[t] \in TaskRecords
        /\ \A s \in Tasks \ {t} : task'[s] = task[s]
        /\ task'[t].status # "NONE" /\ DOMAIN task'[t].verdict = DOMAIN task[t].verdict
        /\ acting' = [acting EXCEPT ![q] = [phase |-> "reread", task |-> t]]
        /\ acting'[q] = [phase |-> "reread", task |-> t]
        /\ \A p \in Requests \ {q} : acting'[p] = acting[p]
    BY CommitOutcome
  <1>2. TypeOK'
    <2>1. task' \in [Tasks -> TaskRecords]
      BY <1>1 DEF TypeOK
    <2>2. acting' \in [Requests -> ActingRecords]
      BY <1>1 DEF TypeOK, ActingRecords
    <2> QED
      BY <1>1, <2>1, <2>2 DEF TypeOK, CommitAct
  <1>3. MemberInv'
    <2>1. \A p \in Requests : acting[p].phase \in {"tx", "commit"} => acting[p].task \in Tasks
      BY RequestFacts DEF Idle
    <2> QED
      BY <1>1, <2>1 DEF MemberInv
  <1> QED
    BY <1>2, <1>3

\* The steps of a request that has no transaction open after them and leaves the task.
Leaving(q, new) ==
  /\ new \in ActingRecords /\ new.phase \notin {"tx", "commit"}
  /\ acting' = [acting EXCEPT ![q] = new]
  /\ status' \in [Orders -> {"NONE", "DRAFT", "APPROVED", "IN_PROGRESS", "CANCELLED"}]
  /\ failed' \subseteq Tasks /\ applied' \subseteq Tasks
  /\ UNCHANGED <<group, task, raced>>

\* The steps after the commit move their own request on.
LEMMA LeavingSteps ==
  ASSUME WellFormed, NEW q \in Requests,
         Reread(q) \/ BeginApply(q) \/ CommitApply(q) \/ FailAct(q)
  PROVE  /\ acting[q] # Idle
         /\ \E new \in ActingRecords :
              /\ Leaving(q, new)
              /\ new # Idle => new.task = acting[q].task
              /\ new.phase \in {"apply", "save"} =>
                   \/ acting[q].phase \in {"apply", "save"}
                   \/ task[acting[q].task].status = "APPROVED"
  <1> USE DEF WellFormed
  <1>1. acting[q] # Idle
    BY DEF Reread, BeginApply, CommitApply, FailAct, Idle
  <1>2. acting[q].task \in Tasks
    BY <1>1, RequestFacts
  <1>3. Idle \in ActingRecords /\ Idle.phase \notin {"tx", "commit", "apply", "save"}
    BY DEF ActingRecords, Idle
  <1>4. CASE Reread(q)
    <2> DEFINE t == acting[q].task
               go == [phase |-> "apply", task |-> t]
               new == IF task[t].status = "APPROVED" THEN go ELSE Idle
    <2>1. go \in ActingRecords /\ go.phase \notin {"tx", "commit"}
      BY <1>2 DEF ActingRecords
    <2>2. acting' = [acting EXCEPT ![q] = new]
      BY <1>4 DEF Reread
    <2>3. CASE task[t].status = "APPROVED"
      BY <1>1, <1>4, <2>1, <2>2, <2>3 DEF Reread, TypeOK, Leaving
    <2>4. CASE task[t].status # "APPROVED"
      BY <1>1, <1>3, <1>4, <2>2, <2>4 DEF Reread, TypeOK, Leaving
    <2> QED
      BY <2>3, <2>4
  <1>5. CASE BeginApply(q)
    <2> DEFINE new == [phase |-> "save", task |-> acting[q].task]
    <2>1. acting[q] \in [phase : {"reread", "apply", "save"}, task : Tasks]
      BY <1>5 DEF BeginApply, TypeOK, ActingRecords, Idle
    <2>2. new \in ActingRecords /\ new.phase \notin {"tx", "commit"}
      BY <2>1 DEF ActingRecords
    <2>3. [acting[q] EXCEPT !.phase = "save"] = new
      BY <2>1
    <2>4. acting' = [acting EXCEPT ![q] = new]
      BY <1>5, <2>3 DEF BeginApply
    <2>5. Leaving(q, new)
      BY <1>5, <2>2, <2>4 DEF BeginApply, TypeOK, Leaving
    <2>6. acting[q].phase = "apply"
      BY <1>5 DEF BeginApply
    <2> QED
      BY <1>1, <2>2, <2>5, <2>6
  <1>6. CASE CommitApply(q) \/ FailAct(q)
    <2>1. /\ acting' = [acting EXCEPT ![q] = Idle]
          /\ UNCHANGED <<group, task, raced>>
      BY <1>6 DEF CommitApply, FailAct
    <2>2. failed' \subseteq Tasks /\ applied' \subseteq Tasks
      BY <1>2, <1>6 DEF CommitApply, FailAct, TypeOK
    <2>3. status' \in [Orders -> {"NONE", "DRAFT", "APPROVED", "IN_PROGRESS", "CANCELLED"}]
      BY <1>6 DEF CommitApply, FailAct, TypeOK
    <2>4. Leaving(q, Idle)
      BY <1>3, <2>1, <2>2, <2>3 DEF Leaving
    <2> QED
      BY <1>1, <1>3, <2>4
  <1> QED
    BY <1>4, <1>5, <1>6

\* So they keep the workflow well formed.
LEMMA LeavingWellFormed ==
  ASSUME WellFormed, NEW q \in Requests, NEW new, Leaving(q, new)
  PROVE  WellFormed'
  <1> USE DEF WellFormed, Leaving
  <1>1. acting'[q] = new /\ \A p \in Requests \ {q} : acting'[p] = acting[p]
    BY DEF TypeOK
  <1>2. TypeOK'
    BY DEF TypeOK
  <1>3. MemberInv'
    BY <1>1 DEF MemberInv
  <1> QED
    BY <1>2, <1>3

\* Every step keeps the workflow well formed.
LEMMA NextWellFormed == ASSUME WellFormed, [Next]_vars PROVE WellFormed'
  <1>1. CASE UNCHANGED vars
    BY <1>1, OtherWellFormed DEF vars, WellFormed, TypeOK
  <1>2. ASSUME NEW y \in Types, ConfigureGroup(y) PROVE WellFormed'
    BY <1>2, OtherWellFormed DEF ConfigureGroup, WellFormed, TypeOK
  <1>3. ASSUME NEW t \in Tasks, NEW o \in Orders, Submit(t, o) PROVE WellFormed'
    BY <1>3, SubmitWellFormed
  <1>4. ASSUME NEW o \in Orders, OrderRequest(o) PROVE WellFormed'
    BY <1>4, OtherWellFormed
    DEF OrderRequest, SetStatus, ApproveSale, CancelSale, ReceiveGoods, DeleteOrder,
        WellFormed, TypeOK
  <1>5. ASSUME NEW q \in Requests, NEW t \in Tasks, NEW u \in Users, BeginAct(q, t, u)
        PROVE  WellFormed'
    BY <1>5, BeginActWellFormed
  <1>6. ASSUME NEW q \in Requests, ActStep(q) PROVE WellFormed'
    BY <1>6, EvaluateActWellFormed, CommitActWellFormed, LeavingSteps, LeavingWellFormed
    DEF ActStep
  <1> QED
    BY <1>1, <1>2, <1>3, <1>4, <1>5, <1>6 DEF Next

\* So it always is.
LEMMA AlwaysWellFormed == Spec => []WellFormed
  BY InitWellFormed, NextWellFormed, PTL DEF Spec

\* The state of the workflow is well typed, whatever the number of requests and the
\* database.
THEOREM ApprovalsTypeOK == Spec => []TypeOK
  <1>1. WellFormed => TypeOK
    BY DEF WellFormed
  <1> QED
    BY <1>1, AlwaysWellFormed, PTL

-----------------------------------------------------------------------------
(* With one writer: what a commit decides is the evaluation of the verdicts *)
(* as they are then.                                                        *)

\* Before the first submission no task is decided or waits for a decision.
LEMMA InitVerdict == Init => VerdictInv
  <1> SUFFICES ASSUME Init PROVE VerdictInv
    OBVIOUS
  <1>1. OneWriterInv /\ EvaluatedInv
    BY DEF Init, OneWriterInv, EvaluatedInv, Idle
  <1>2. AllActedIsDecided /\ ApprovedMeansNoRejection
    BY DEF Init, AllActedIsDecided, ApprovedMeansNoRejection, NoTask
  <1> QED
    BY <1>1, <1>2 DEF VerdictInv

\* A new task is PENDING with every verdict open.
LEMMA SubmitVerdict ==
  ASSUME WellFormed, VerdictInv, NEW t \in Tasks, NEW o \in Orders, Submit(t, o)
  PROVE  VerdictInv'
  <1> USE DEF WellFormed, VerdictInv
  <1> DEFINE ms == group[TypeOf(o)].members
             new == [order |-> o, status |-> "PENDING", verdict |-> [u \in ms |-> "PENDING"]]
  <1>1. ms # {} /\ task[t] = NoTask /\ UNCHANGED <<group, acting>>
    BY DEF Submit
  <1>2. task'[t] = new /\ \A s \in Tasks \ {t} : task'[s] = task[s]
    BY DEF Submit, TypeOK
  <1>3. \A q \in Requests : acting[q].phase = "commit" => acting[q].task \in Tasks \ {t}
    BY <1>1, RequestFacts DEF MemberInv, NoTask, Idle
  <1>4. OneWriterInv' /\ EvaluatedInv'
    BY <1>1, <1>2, <1>3 DEF OneWriterInv, EvaluatedInv, Recorded
  <1>5. AllActedIsDecided' /\ ApprovedMeansNoRejection'
    BY <1>1, <1>2 DEF AllActedIsDecided, ApprovedMeansNoRejection, Decided
  <1> QED
    BY <1>4, <1>5

\* What a lone writer evaluates still stands when it commits.
LEMMA EvaluateActVerdict ==
  ASSUME WellFormed, VerdictInv, OneWriter, NEW q \in Requests, EvaluateAct(q)
  PROVE  VerdictInv'
  <1> USE DEF WellFormed, VerdictInv
  <1> DEFINE t == acting[q].task
             mode == group[TypeOf(task[t].order)].mode
             new == [phase |-> "commit", task |-> t, user |-> acting[q].user,
                     action |-> acting[q].action, final |-> Evaluate(Recorded(q), mode)]
  <1>1. /\ acting[q].phase = "tx"
        /\ acting' = [acting EXCEPT ![q] = new]
        /\ UNCHANGED <<status, group, task, raced, applied, failed>>
    BY DEF EvaluateAct
  <1>2. t \in Tasks /\ task[t].status # "NONE"
    BY <1>1, RecordedFacts
  <1>3. mode \in Modes
    BY <1>2, TaskFacts, GroupFacts DEF TypeOf, Types
  <1>4. \A p \in Requests \ {q} : acting'[p] = acting[p] /\ acting'[p].phase # "commit"
    <2>1. \A p \in Requests \ {q} : acting[p].phase # "commit"
      BY DEF EvaluateAct, MayWrite
    <2> QED
      BY <1>1, <2>1 DEF TypeOK
  <1>5. acting'[q] = new
    BY <1>1 DEF TypeOK
  <1>6. OneWriterInv'
    BY <1>4 DEF OneWriterInv
  <1>7. EvaluatedInv'
    <2>1. Recorded(q)' = Recorded(q)
      BY <1>1, <1>5 DEF Recorded
    <2>2. acting'[q].final = Evaluate(Recorded(q)', mode)
      BY <1>5, <2>1
    <2> QED
      BY <1>3, <1>4, <2>2 DEF EvaluatedInv
  <1>8. AllActedIsDecided' /\ ApprovedMeansNoRejection'
    BY <1>1 DEF AllActedIsDecided, ApprovedMeansNoRejection, Decided
  <1> QED
    BY <1>6, <1>7, <1>8

\* The commit decides the task as evaluated.
LEMMA CommitActVerdict ==
  ASSUME WellFormed, VerdictInv, NEW q \in Requests, CommitAct(q)
  PROVE  VerdictInv'
  <1> USE DEF WellFormed, VerdictInv
  <1> DEFINE t == acting[q].task
             final == acting[q].final
             outcome == IF final = "PENDING" THEN task[t].status ELSE final
  <1>1. /\ t \in Tasks /\ task[t].status # "NONE"
        /\ task'[t] = [order |-> task[t].order, status |-> outcome, verdict |-> Recorded(q)]
        /\ DOMAIN Recorded(q) = DOMAIN task[t].verdict
        /\ \A s \in Tasks \ {t} : task'[s] = task[s]
        /\ acting'[q] = [phase |-> "reread", task |-> t]
        /\ \A p \in Requests \ {q} : acting'[p] = acting[p]
    BY CommitOutcome
  <1>2. acting[q].phase = "commit"
    BY DEF CommitAct
  <1>3. Recorded(q) \in [DOMAIN task[t].verdict -> Verdicts \union {"PENDING"}]
    BY <1>2, RecordedFacts
  <1>4. DOMAIN task[t].verdict # {}
    BY <1>1, TaskFacts
  <1>5. PICK mode \in Modes : final = Evaluate(Recorded(q), mode)
    BY <1>2 DEF EvaluatedInv
  <1>6. /\ (\A u \in DOMAIN Recorded(q) : Recorded(q)[u] # "PENDING") => final \in Verdicts
        /\ final # "REJECTED" => \A u \in DOMAIN Recorded(q) : Recorded(q)[u] # "REJECTED"
    BY <1>1, <1>3, <1>4, <1>5, EvaluateFacts
  <1>7. \A p \in Requests : acting'[p].phase # "commit"
    BY <1>1, <1>2 DEF OneWriterInv
  <1>8. OneWriterInv' /\ EvaluatedInv'
    BY <1>7 DEF OneWriterInv, EvaluatedInv
  <1>9. AllActedIsDecided'
    BY <1>1, <1>6 DEF AllActedIsDecided, Decided, Verdicts
  <1>10. ApprovedMeansNoRejection'
    BY <1>1, <1>6 DEF ApprovedMeansNoRejection
  <1> QED
    BY <1>8, <1>9, <1>10

\* The steps that leave the tasks alone, after which no transaction is open but those
\* that were.
LEMMA OtherVerdict ==
  ASSUME WellFormed, VerdictInv, task' = task,
         \A q \in Requests : acting'[q] = acting[q] \/ acting'[q].phase # "commit"
  PROVE  VerdictInv'
  <1> USE DEF VerdictInv
  <1>1. OneWriterInv'
    BY DEF OneWriterInv
  <1>2. EvaluatedInv'
    BY DEF EvaluatedInv, Recorded
  <1>3. AllActedIsDecided' /\ ApprovedMeansNoRejection'
    BY DEF AllActedIsDecided, ApprovedMeansNoRejection, Decided
  <1> QED
    BY <1>1, <1>2, <1>3

\* Every step of the next-state relation, one case per action.
LEMMA NextVerdict == ASSUME WellFormed, VerdictInv, OneWriter, [Next]_vars PROVE VerdictInv'
  <1>1. CASE UNCHANGED <<task, acting>>
    BY <1>1, OtherVerdict
  <1>2. ASSUME NEW t \in Tasks, NEW o \in Orders, Submit(t, o) PROVE VerdictInv'
    BY <1>2, SubmitVerdict
  <1>3. ASSUME NEW q \in Requests, NEW t \in Tasks, NEW u \in Users, BeginAct(q, t, u)
        PROVE  VerdictInv'
    <2>1. /\ task' = task
          /\ acting'[q].phase = "tx"
          /\ \A p \in Requests \ {q} : acting'[p] = acting[p]
      BY <1>3 DEF BeginAct, WellFormed, TypeOK
    <2> QED
      BY <2>1, OtherVerdict
  <1>4. ASSUME NEW q \in Requests, ActStep(q) PROVE VerdictInv'
    <2>1. CASE EvaluateAct(q)
      BY <2>1, EvaluateActVerdict
    <2>2. CASE CommitAct(q)
      BY <2>2, CommitActVerdict
    <2>3. CASE Reread(q) \/ BeginApply(q) \/ CommitApply(q) \/ FailAct(q)
      <3>1. PICK new : Leaving(q, new)
        BY <2>3, LeavingSteps
      <3>2. /\ task' = task
            /\ acting'[q].phase # "commit"
            /\ \A p \in Requests \ {q} : acting'[p] = acting[p]
        BY <3>1 DEF Leaving, WellFormed, TypeOK
      <3> QED
        BY <3>2, OtherVerdict
    <2> QED
      BY <1>4, <2>1, <2>2, <2>3 DEF ActStep
  <1> QED
    BY <1>1, <1>2, <1>3, <1>4
    DEF Next, vars, ConfigureGroup, OrderRequest, SetStatus, ApproveSale, CancelSale,
        ReceiveGoods, DeleteOrder

\* With one writer at a time, statuses always follow the verdicts.
LEMMA AlwaysVerdict == ASSUME OneWriter PROVE Spec => []VerdictInv
  BY InitVerdict, NextVerdict, AlwaysWellFormed, PTL DEF Spec

\* A task is decided once its members have all acted, in whatever order their
\* transactions commit and however the group is reconfigured.
THEOREM AllActedDecides == ASSUME OneWriter PROVE Spec => []AllActedIsDecided
  <1>1. VerdictInv => AllActedIsDecided
    BY DEF VerdictInv
  <1> QED
    BY <1>1, AlwaysVerdict, PTL

\* A rejection is never outvoted.
THEOREM RejectionStands == ASSUME OneWriter PROVE Spec => []ApprovedMeansNoRejection
  <1>1. VerdictInv => ApprovedMeansNoRejection
    BY DEF VerdictInv
  <1> QED
    BY <1>1, AlwaysVerdict, PTL

-----------------------------------------------------------------------------
(* A decision is final unless requests overlapped.  The check that the task *)
(* is PENDING is made before the transaction, so this rests on what a task  *)
(* nobody raced on guarantees a request: that it is the only one in flight. *)

\* Two requests on one task are a race that has been noted.
SoloInv ==
  \A p, q \in Requests :
    p # q /\ acting[p] # Idle /\ acting[q] # Idle /\ acting[p].task = acting[q].task
      => acting[p].task \in raced

\* Without a race the task is still PENDING when the transaction runs.
StillPendingInv ==
  \A q \in Requests :
    acting[q].phase \in {"tx", "commit"} /\ acting[q].task \notin raced
      => task[acting[q].task].status = "PENDING"

\* Before the first submission no two requests overlap.
LEMMA InitSolo == Init => SoloInv /\ StillPendingInv
  BY DEF Init, SoloInv, StillPendingInv, Idle

\* A request alone on a task finds it PENDING until it commits.
LEMMA NextSolo ==
  ASSUME TypeOK, SoloInv, StillPendingInv, [Next]_vars
  PROVE  SoloInv' /\ StillPendingInv'
  <1>1. CASE UNCHANGED <<task, acting, raced>>
    BY <1>1 DEF SoloInv, StillPendingInv
  <1>2. ASSUME NEW t \in Tasks, NEW o \in Orders, Submit(t, o)
        PROVE  SoloInv' /\ StillPendingInv'
    <2>1. /\ UNCHANGED <<acting, raced>>
          /\ \A s \in Tasks : task[s].status = "PENDING" => task'[s].status = "PENDING"
      BY <1>2 DEF Submit, TypeOK
    <2>2. \A q \in Requests : acting[q].phase \in {"tx", "commit"} => acting[q].task \in Tasks
      BY RequestFacts DEF Idle
    <2> QED
      BY <2>1, <2>2 DEF SoloInv, StillPendingInv
  <1>3. ASSUME NEW q \in Requests, NEW t \in Tasks, NEW u \in Users, BeginAct(q, t, u)
        PROVE  SoloInv' /\ StillPendingInv'
    <2>1. PICK a \in Verdicts :
            acting' = [acting EXCEPT ![q] =
                         [phase |-> "tx", task |-> t, user |-> u, action |-> a]]
      BY <1>3 DEF BeginAct
    <2>2. /\ acting'[q].task = t /\ acting[q] = Idle
          /\ \A p \in Requests \ {q} : acting'[p] = acting[p]
      BY <1>3, <2>1 DEF BeginAct, TypeOK
    <2>3. /\ task[t].status = "PENDING" /\ task' = task
          /\ raced \subseteq raced'
          /\ (\E p \in Requests : ActsOn(p, t)) => t \in raced'
      BY <1>3 DEF BeginAct
    <2> QED
      BY <2>2, <2>3 DEF SoloInv, StillPendingInv, ActsOn
  <1>4. ASSUME NEW q \in Requests, ActStep(q), ~ UNCHANGED <<task, acting, raced>>
        PROVE  SoloInv' /\ StillPendingInv'
    <2>1. acting[q] # Idle /\ raced' = raced
      BY <1>4 DEF ActStep, EvaluateAct, CommitAct, Reread, BeginApply, CommitApply, FailAct, Idle
    <2>2. /\ acting'[q] # Idle => acting'[q].task = acting[q].task
          /\ acting'[q].phase \in {"tx", "commit"} => acting[q].phase = "tx" /\ task' = task
          /\ \A p \in Requests \ {q} : acting'[p] = acting[p]
      <3>1. CASE EvaluateAct(q)
        BY <3>1 DEF EvaluateAct, TypeOK
      <3>2. CASE CommitAct(q)
        BY <3>2 DEF CommitAct, TypeOK
      <3>3. CASE Reread(q)
        BY <3>3 DEF Reread, TypeOK, Idle
      <3>4. CASE BeginApply(q)
        <4>1. acting[q] \in [phase : {"reread", "apply", "save"}, task : Tasks]
          BY <3>4 DEF BeginApply, TypeOK, ActingRecords, Idle
        <4> QED
          BY <3>4, <4>1 DEF BeginApply, TypeOK
      <3>5. CASE CommitApply(q) \/ FailAct(q)
        BY <3>5 DEF CommitApply, FailAct, TypeOK, Idle
      <3> QED
        BY <1>4, <3>1, <3>2, <3>3, <3>4, <3>5 DEF ActStep
    <2>3. SoloInv'
      BY <2>1, <2>2 DEF SoloInv
    <2>4. \A s \in Tasks \ {acting[q].task} : task'[s] = task[s]
      BY <1>4 DEF ActStep, EvaluateAct, CommitAct, Reread, BeginApply, CommitApply, FailAct, TypeOK
    <2>5. ASSUME NEW p \in Requests, acting'[p].phase \in {"tx", "commit"},
                 acting'[p].task \notin raced'
          PROVE  task'[acting'[p].task].status = "PENDING"
      <3>1. CASE p = q
        BY <2>1, <2>2, <2>5, <3>1 DEF StillPendingInv, Idle
      <3>2. CASE p # q
        <4>1. acting[p] # Idle /\ acting[p].task # acting[q].task
          BY <2>1, <2>2, <2>5, <3>2 DEF SoloInv, Idle
        <4>2. acting[p].task \in Tasks
          BY <4>1, RequestFacts
        <4> QED
          BY <2>1, <2>2, <2>4, <2>5, <3>2, <4>1, <4>2 DEF StillPendingInv
      <3> QED
        BY <3>1, <3>2
    <2> QED
      BY <2>3, <2>5 DEF StillPendingInv
  <1> QED
    BY <1>1, <1>2, <1>3, <1>4
    DEF Next, vars, ConfigureGroup, OrderRequest, SetStatus, ApproveSale, CancelSale,
        ReceiveGoods, DeleteOrder

\* A decided task keeps its decision unless two requests on it overlapped, on any database.
THEOREM DecisionStands == Spec => DecisionFinal
  <1> DEFINE Keeps == \A t \in Tasks \ raced : Decided(t) => task'[t].status = task[t].status
  <1>1. ASSUME TypeOK, StillPendingInv, Next PROVE Keeps
    <2>1. CASE UNCHANGED task
      BY <2>1
    <2>2. ASSUME NEW t \in Tasks, NEW o \in Orders, Submit(t, o) PROVE Keeps
      BY <1>1, <2>2 DEF Submit, TypeOK, Decided, NoTask, Verdicts
    <2>3. ASSUME NEW q \in Requests, CommitAct(q) PROVE Keeps
      <3> DEFINE s == acting[q].task
      <3>1. \A t \in Tasks \ {s} : task'[t] = task[t]
        BY <1>1, <2>3 DEF CommitAct, TypeOK
      <3>2. s \in raced \/ task[s].status = "PENDING"
        BY <1>1, <2>3 DEF CommitAct, StillPendingInv
      <3> QED
        BY <3>1, <3>2 DEF Decided, Verdicts
    <2> QED
      BY <1>1, <2>1, <2>2, <2>3
      DEF Next, ActStep, ConfigureGroup, OrderRequest, SetStatus, ApproveSale, CancelSale,
        ReceiveGoods, DeleteOrder,
          BeginAct, EvaluateAct, Reread, BeginApply, CommitApply, FailAct
  <1>2. ASSUME TypeOK, StillPendingInv, [Next]_vars PROVE [Keeps]_vars
    BY <1>1, <1>2
  <1> QED
    BY <1>2, InitSolo, NextSolo, ApprovalsTypeOK, PTL DEF Spec, DecisionFinal

-----------------------------------------------------------------------------
(* An approval takes effect once.  A task nobody raced on is decided by a   *)
(* request that is alone on it until its effect is done, and no request     *)
(* begins on a decided task.                                                *)

EffectInv ==
  /\ EffectOfStandingApproval
  /\ \A q \in Requests :
       acting[q] # Idle /\ acting[q].task \notin raced => acting[q].task \notin applied
  /\ \A t \in applied \ raced : Decided(t)

\* Before the first submission nothing has an effect.
LEMMA InitEffect == Init => EffectInv
  BY DEF Init, EffectInv, EffectOfStandingApproval, Idle

\* The steps that write no task, apply nothing and move no request on to its effect.
LEMMA EffectKept ==
  ASSUME EffectInv, UNCHANGED <<task, applied>>, raced \subseteq raced',
         \A q \in Requests :
           \/ acting'[q] = acting[q]
           \/ acting'[q] = Idle
           \/ /\ acting[q] # Idle /\ acting'[q].task = acting[q].task
              /\ acting'[q].phase \in {"apply", "save"} =>
                   \/ acting[q].phase \in {"apply", "save"}
                   \/ task[acting[q].task].status = "APPROVED"
  PROVE  EffectInv'
  <1>1. \A q \in Requests :
          acting'[q].phase \in {"apply", "save"} /\ acting'[q].task \notin raced' =>
            task[acting'[q].task].status = "APPROVED" /\ acting'[q].task \notin applied
    BY DEF EffectInv, EffectOfStandingApproval, Idle
  <1>2. \A q \in Requests :
          acting'[q] # Idle /\ acting'[q].task \notin raced' => acting'[q].task \notin applied
    BY DEF EffectInv
  <1>3. \A t \in applied \ raced' : Decided(t)
    BY DEF EffectInv
  <1> QED
    BY <1>1, <1>2, <1>3 DEF EffectInv, EffectOfStandingApproval, Decided

\* Every step keeps the effect unique and the approval standing, races apart.
LEMMA NextEffect ==
  ASSUME WellFormed, SoloInv, StillPendingInv, EffectInv, [Next]_vars
  PROVE  EffectInv'
  <1> USE DEF WellFormed
  <1>1. CASE UNCHANGED <<task, acting, raced, applied>>
    BY <1>1, EffectKept
  <1>2. ASSUME NEW t \in Tasks, NEW o \in Orders, Submit(t, o) PROVE EffectInv'
    <2>1. /\ task[t] = NoTask /\ UNCHANGED <<acting, raced, applied>>
          /\ \A s \in Tasks \ {t} : task'[s] = task[s]
      BY <1>2 DEF Submit, TypeOK
    <2>2. applied \subseteq Tasks
      BY DEF TypeOK
    <2>3. t \notin applied \ raced
      BY <2>1 DEF EffectInv, Decided, NoTask, Verdicts
    <2>4. \A q \in Requests :
            acting[q].phase \in {"apply", "save"} /\ acting[q].task \notin raced
              => acting[q].task \in Tasks \ {t}
      BY <2>1, RequestFacts DEF EffectInv, EffectOfStandingApproval, NoTask, Idle
    <2>5. EffectOfStandingApproval'
      BY <2>1, <2>4 DEF EffectInv, EffectOfStandingApproval
    <2>6. \A s \in applied \ raced : task'[s] = task[s]
      BY <2>1, <2>2, <2>3
    <2> QED
      BY <2>1, <2>5, <2>6 DEF EffectInv, Decided
  <1>3. ASSUME NEW q \in Requests, NEW t \in Tasks, NEW u \in Users, BeginAct(q, t, u)
        PROVE  EffectInv'
    <2>1. /\ UNCHANGED <<task, applied>> /\ raced \subseteq raced'
          /\ task[t].status = "PENDING"
          /\ acting'[q].phase = "tx" /\ acting'[q].task = t
          /\ \A p \in Requests \ {q} : acting'[p] = acting[p]
      BY <1>3 DEF BeginAct, TypeOK
    <2>2. t \notin applied \ raced
      BY <2>1 DEF EffectInv, Decided, Verdicts
    <2>3. EffectOfStandingApproval'
      BY <2>1 DEF EffectInv, EffectOfStandingApproval
    <2>4. (\A p \in Requests :
             acting[p] # Idle /\ acting[p].task \notin raced => acting[p].task \notin applied)'
      BY <2>1, <2>2 DEF EffectInv
    <2>5. (\A s \in applied \ raced : Decided(s))'
      BY <2>1 DEF EffectInv, Decided
    <2> QED
      BY <2>3, <2>4, <2>5 DEF EffectInv
  <1>4. ASSUME NEW q \in Requests, EvaluateAct(q) PROVE EffectInv'
    <2>1. /\ UNCHANGED <<task, applied, raced>> /\ acting[q] # Idle
          /\ acting'[q].phase = "commit" /\ acting'[q].task = acting[q].task
          /\ \A p \in Requests \ {q} : acting'[p] = acting[p]
      BY <1>4 DEF EvaluateAct, TypeOK, Idle
    <2> QED
      BY <2>1, EffectKept
  <1>5. ASSUME NEW q \in Requests, CommitAct(q) PROVE EffectInv'
    <2> DEFINE t == acting[q].task
    <2>1. /\ t \in Tasks
          /\ \A s \in Tasks \ {t} : task'[s] = task[s]
          /\ acting'[q] = [phase |-> "reread", task |-> t]
          /\ \A p \in Requests \ {q} : acting'[p] = acting[p]
      BY <1>5, CommitOutcome
    <2>2. /\ UNCHANGED <<raced, applied>> /\ acting[q] # Idle
          /\ applied \subseteq Tasks
      BY <1>5 DEF CommitAct, TypeOK, Idle
    <2>3. t \notin applied \ raced
      BY <2>2 DEF EffectInv
    <2>4. \A p \in Requests \ {q} :
            acting[p] # Idle /\ acting[p].task \notin raced => acting[p].task \in Tasks \ {t}
      BY <2>2, RequestFacts DEF SoloInv
    <2>5. EffectOfStandingApproval'
      BY <2>1, <2>2, <2>4 DEF EffectInv, EffectOfStandingApproval, Idle
    <2>6. (\A p \in Requests :
             acting[p] # Idle /\ acting[p].task \notin raced => acting[p].task \notin applied)'
      BY <2>1, <2>2, <2>3 DEF EffectInv
    <2>7. \A s \in applied \ raced : task'[s] = task[s]
      BY <2>1, <2>2, <2>3
    <2>8. (\A s \in applied \ raced : Decided(s))'
      BY <2>2, <2>7 DEF EffectInv, Decided
    <2> QED
      BY <2>5, <2>6, <2>8 DEF EffectInv
  <1>6. ASSUME NEW q \in Requests, Reread(q) \/ BeginApply(q) \/ FailAct(q)
        PROVE  EffectInv'
    <2>1. PICK new \in ActingRecords :
            /\ Leaving(q, new)
            /\ new # Idle => new.task = acting[q].task
            /\ new.phase \in {"apply", "save"} =>
                 \/ acting[q].phase \in {"apply", "save"}
                 \/ task[acting[q].task].status = "APPROVED"
      BY <1>6, LeavingSteps
    <2>2. acting[q] # Idle
      BY <1>6, LeavingSteps
    <2>3. /\ acting'[q] = new /\ \A p \in Requests \ {q} : acting'[p] = acting[p]
          /\ UNCHANGED <<task, raced>>
      BY <2>1 DEF Leaving, TypeOK
    <2>4. applied' = applied
      BY <1>6 DEF Reread, BeginApply, FailAct
    <2> QED
      BY <2>1, <2>2, <2>3, <2>4, EffectKept
  <1>7. ASSUME NEW q \in Requests, CommitApply(q) PROVE EffectInv'
    <2> DEFINE t == acting[q].task
    <2>1. /\ acting[q].phase = "save" /\ acting[q] # Idle
          /\ applied' = applied \union {t}
          /\ acting'[q] = Idle
          /\ \A p \in Requests \ {q} : acting'[p] = acting[p]
          /\ UNCHANGED <<task, raced>>
      BY <1>7 DEF CommitApply, TypeOK, Idle
    <2>2. t \in raced \/ task[t].status = "APPROVED"
      BY <2>1 DEF EffectInv, EffectOfStandingApproval
    <2>3. \A p \in Requests \ {q} :
            acting[p] # Idle /\ acting[p].task \notin raced => acting[p].task # t
      BY <2>1 DEF SoloInv
    <2>4. EffectOfStandingApproval'
      BY <2>1, <2>3 DEF EffectInv, EffectOfStandingApproval, Idle
    <2>5. (\A p \in Requests :
             acting[p] # Idle /\ acting[p].task \notin raced => acting[p].task \notin applied)'
      BY <2>1, <2>3 DEF EffectInv
    <2>6. (\A s \in applied \ raced : Decided(s))'
      BY <2>1, <2>2 DEF EffectInv, Decided, Verdicts
    <2> QED
      BY <2>4, <2>5, <2>6 DEF EffectInv
  <1> QED
    BY <1>1, <1>2, <1>3, <1>4, <1>5, <1>6, <1>7
    DEF Next, vars, ActStep, ConfigureGroup, OrderRequest, SetStatus, ApproveSale, CancelSale,
        ReceiveGoods, DeleteOrder

\* Unless two requests on a task overlapped, its order is approved in consequence at most
\* once, by a request for which the task still stands APPROVED, on any database, whatever
\* happens to the order and the group meanwhile.
THEOREM EffectStands == Spec => []EffectOfStandingApproval
  <1>1. EffectInv => EffectOfStandingApproval
    BY DEF EffectInv
  <1>2. WellFormed => TypeOK
    BY DEF WellFormed
  <1> QED
    BY <1>1, <1>2, InitSolo, NextSolo, InitEffect, NextEffect, AlwaysWellFormed, PTL DEF Spec
=============================================================================
