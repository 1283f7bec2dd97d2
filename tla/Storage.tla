-------------------------------- MODULE Storage --------------------------------
(***************************************************************************)
(* The migration of the live database into another one                     *)
(* (internal/service/storage_service.go, internal/database/database.go).   *)
(*                                                                         *)
(* A background job drops the tables of the target, creates them again,    *)
(* and copies one table after the other inside one transaction of the      *)
(* target; the reads of the source are not in one transaction, and the     *)
(* requests go on writing.  The status is in memory only.                  *)
(*                                                                         *)
(* A row is its order's key: an order has one in the table of headers and  *)
(* one in the table of lines, which stays when the order is deleted.  The  *)
(* data sources are other databases than the live one: nothing in the code *)
(* checks that they are.  Progress counters and sequences of the target    *)
(* are left out.                                                           *)
(***************************************************************************)
EXTENDS Integers, Sequences

CONSTANTS
  AllModels,  \* allModels: the tables in the order they are created and copied
  Headers, Lines, \* the table of the orders and the one of their lines
  Keys,       \* orders
  Targets,    \* other databases
  Jobs,       \* bound: requests to migrate
  NoTable,    \* a table that is not there
  MaxWrites,  \* bound: writes of the requests
  MaxCrashes  \* bound: restarts of the server

Tables == {AllModels[n] : n \in 1..Len(AllModels)}

ASSUME ModelsInOrder ==
  /\ AllModels \in Seq(Tables)
  /\ \A m, n \in 1..Len(AllModels) : AllModels[m] = AllModels[n] => m = n

(* The table of the orders comes before the one of their lines. *)
ASSUME HeadersFirst ==
  /\ Headers \in Tables /\ Lines \in Tables
  /\ \A m, n \in 1..Len(AllModels) : AllModels[m] = Headers /\ AllModels[n] = Lines => m < n

ASSUME NoTableIsNone == NoTable \notin Targets /\ \A rows \in SUBSET Keys : rows # NoTable
ASSUME Bounds == MaxWrites \in Nat /\ MaxCrashes \in Nat

VARIABLES
  source,   \* the live database: rows of each table
  target,   \* each other database: rows of each table, or NoTable
  listed,   \* data sources configured
  state,    \* what Status shows: idle | running | done | failed, and the target
  job,      \* what each request to migrate is at
  kept,     \* history: rows in the source ever since the migration was asked for
  writes, crashes

storage == <<target, listed, state, job>>
vars == <<source, target, listed, state, job, kept, writes, crashes>>

NoJob == [at |-> "none", ds |-> NoTable, table |-> 0, inserted |-> <<>>]

Init ==
  /\ source = [t \in Tables |-> {}]
  /\ target \in [Targets -> {[t \in Tables |-> NoTable]}]
  /\ listed \in SUBSET Targets
  /\ state = [status |-> "idle", target |-> NoTable]
  /\ job = [j \in Jobs |-> NoJob]
  /\ kept = source
  /\ writes = 0 /\ crashes = 0

At(j, step) == job[j].at = step
To(j, step) == job' = [job EXCEPT ![j].at = step]
Db(j) == target[job[j].ds]

(* fail, and the end of the request or of the goroutine. *)
FailQuietly(j) == UNCHANGED state /\ To(j, "over")     \* mutant: returns without fail
Fail(j) == state' = [state EXCEPT !.status = "failed"] /\ To(j, "over")

-----------------------------------------------------------------------------
(* Data sources: one is kept only if it can be connected to. *)
CreateDataSource(ds) ==
  /\ ds \notin listed
  /\ listed' = listed \cup {ds}
  /\ UNCHANGED <<source, target, state, job, kept, writes, crashes>>

DeleteDataSource(ds) ==
  /\ ds \in listed
  /\ listed' = listed \ {ds}
  /\ UNCHANGED <<source, target, state, job, kept, writes, crashes>>

-----------------------------------------------------------------------------
(* Migrate, under the lock: refused while one runs. *)
MayStartAny == TRUE                                    \* mutant: no guard
MayStart == state.status # "running"

Migrate(j, ds) ==
  /\ At(j, "none") /\ MayStart
  /\ state' = [status |-> "running", target |-> NoTable]
  /\ job' = [job EXCEPT ![j] = [NoJob EXCEPT !.at = "asked", !.ds = ds]]
  /\ kept' = source
  /\ UNCHANGED <<source, target, listed, writes, crashes>>

(* Migrate, after the lock: the data source may be gone. *)
FindSource(j) ==
  /\ At(j, "asked")
  /\ IF job[j].ds \in listed
     THEN To(j, "open") /\ state' = [state EXCEPT !.target = job[j].ds]
     ELSE Fail(j)
  /\ UNCHANGED <<source, target, listed, kept, writes, crashes>>

(* run: opens the target, and drops its tables from the last one; the error of a drop is *)
(* ignored.                                                                              *)
OpenTarget(j) ==
  /\ At(j, "open")
  /\ \/ Fail(j)
     \/ /\ job' = [job EXCEPT ![j].at = "drop", ![j].table = Len(AllModels)]
        /\ UNCHANGED state
  /\ UNCHANGED <<source, target, listed, kept, writes, crashes>>

DropTable(j) ==
  /\ At(j, "drop") /\ job[j].table > 0
  /\ \/ target' = [target EXCEPT ![job[j].ds][AllModels[job[j].table]] = NoTable]
     \/ UNCHANGED target
  /\ job' = [job EXCEPT ![j].table = @ - 1]
  /\ UNCHANGED <<source, listed, state, kept, writes, crashes>>

(* Migrate of the schema: the tables that are not there are created. *)
CreateTables(j) ==
  /\ At(j, "drop") /\ job[j].table = 0
  /\ \/ Fail(j) /\ UNCHANGED target
     \/ /\ target' = [target EXCEPT ![job[j].ds] =
                        [t \in Tables |-> IF @[t] = NoTable THEN {} ELSE @[t]]]
        /\ job' = [job EXCEPT ![j].at = "copy", ![j].table = 1,
                              ![j].inserted = [t \in Tables |-> {}]]
        /\ UNCHANGED state
  /\ UNCHANGED <<source, listed, kept, writes, crashes>>

(* The transaction of the target, one table at a time: copyTable reads the table of the   *)
(* source as it is now.  A row whose key is there already, or any other error, rolls all  *)
(* of it back.                                                                            *)
LinesFirst == [n \in 1..Len(AllModels) |-> AllModels[Len(AllModels) + 1 - n]] \* mutant
CopyOrder == AllModels
Copied(j, t) == source[t]

CopyTable(j) ==
  /\ At(j, "copy") /\ job[j].table <= Len(AllModels)
  /\ LET t == CopyOrder[job[j].table]
     IN  \/ Fail(j)
         \/ /\ Db(j)[t] # NoTable /\ Db(j)[t] \cap Copied(j, t) = {}
            /\ job' = [job EXCEPT ![j].table = @ + 1, ![j].inserted[t] = Copied(j, t)]
            /\ UNCHANGED state
  /\ UNCHANGED <<source, target, listed, kept, writes, crashes>>

Commit(j) ==
  /\ At(j, "copy") /\ job[j].table > Len(AllModels)
  /\ \/ Fail(j) /\ UNCHANGED target
     \/ /\ target' = [target EXCEPT ![job[j].ds] =
                        [t \in Tables |-> @[t] \cup job[j].inserted[t]]]
        /\ To(j, "committed") /\ UNCHANGED state
  /\ UNCHANGED <<source, listed, kept, writes, crashes>>

Finish(j) ==
  /\ At(j, "committed")
  /\ state' = [state EXCEPT !.status = "done"] /\ To(j, "over")
  /\ UNCHANGED <<source, target, listed, kept, writes, crashes>>

-----------------------------------------------------------------------------
(* The requests: an order is written with its lines in one transaction; deleting it        *)
(* leaves its lines (the orphans the migration tolerates).                                *)
Create(k) ==
  /\ writes < MaxWrites /\ \A t \in Tables : k \notin source[t]
  /\ source' = [t \in Tables |-> source[t] \cup {k}]
  /\ writes' = writes + 1
  /\ UNCHANGED <<storage, kept, crashes>>

Delete(k) ==
  /\ writes < MaxWrites /\ k \in source[Headers]
  /\ source' = [source EXCEPT ![Headers] = @ \ {k}]
  /\ kept' = [kept EXCEPT ![Headers] = @ \ {k}]
  /\ writes' = writes + 1
  /\ UNCHANGED <<storage, crashes>>

(* The server stops: the job and the status with it; its transaction is rolled back. *)
Crash ==
  /\ crashes < MaxCrashes
  /\ crashes' = crashes + 1
  /\ state' = [status |-> "idle", target |-> NoTable]
  /\ job' = [j \in Jobs |-> IF At(j, "none") THEN NoJob ELSE [NoJob EXCEPT !.at = "over"]]
  /\ UNCHANGED <<source, target, listed, kept, writes>>

JobStep(j) ==
  \/ FindSource(j) \/ OpenTarget(j) \/ DropTable(j) \/ CreateTables(j) \/ CopyTable(j)
  \/ Commit(j) \/ Finish(j)

Next ==
  \/ \E ds \in Targets : CreateDataSource(ds) \/ DeleteDataSource(ds)
  \/ \E j \in Jobs, ds \in Targets : Migrate(j, ds)
  \/ \E j \in Jobs : JobStep(j)
  \/ \E k \in Keys : Create(k) \/ Delete(k)
  \/ Crash

(* The job is a goroutine of its own. *)
Spec == Init /\ [][Next]_vars /\ \A j \in Jobs : WF_vars(JobStep(j))

-----------------------------------------------------------------------------
(* Properties. *)

Rows == [Tables -> SUBSET Keys]
Job == [at : {"none", "asked", "open", "drop", "copy", "committed", "over"},
        ds : Targets \cup {NoTable}, table : 0..(Len(AllModels) + 1),
        inserted : Rows \cup {<<>>}]

TypeOK ==
  /\ source \in Rows
  /\ target \in [Targets -> [Tables -> (SUBSET Keys) \cup {NoTable}]]
  /\ listed \in SUBSET Targets
  /\ state \in [status : {"idle", "running", "done", "failed"}, target : Targets \cup {NoTable}]
  /\ job \in [Jobs -> Job]
  /\ kept \in Rows
  /\ writes \in 0..MaxWrites /\ crashes \in 0..MaxCrashes

(* What Status calls done is: the database it names has every table, and every row that   *)
(* has been in the source since the migration was asked for, whatever was written and     *)
(* restarted meanwhile (run; "only one migration runs at a time", Migrate).               *)
Filled == target[state.target]
NothingLost ==
  state.status = "done" =>
    /\ state.target \in Targets
    /\ \A t \in Tables : Filled[t] # NoTable /\ kept[t] \subseteq Filled[t]

(* An order that a request wrote while the tables were copied is in the copy with its     *)
(* lines or not at all: allModels has each table of headers before its table of lines.    *)
OrdersHaveLines ==
  state.status = "done" => Filled[Headers] \subseteq Filled[Lines]

(* A migration ends: a job that fails on any way says so, or every later one would be     *)
(* refused until the server is started again (fail, run).                                 *)
JobEnds == state.status = "running" ~> state.status # "running"
=============================================================================
