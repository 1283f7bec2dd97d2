------------------------------- MODULE JobProofs -------------------------------
(***************************************************************************)
(* Theorems about what goes on for longer than one request: the migration  *)
(* job (Storage), the assistant's turn (Assistant) and its memory of a     *)
(* user (Memory).  The modules share no state; each theorem is about the   *)
(* specification of one.                                                   *)
(*                                                                         *)
(* Storage, for any list of tables, any number of databases, requests to   *)
(* migrate, writes and restarts: one migration at a time, what is done is  *)
(* complete, and the orders copied have their lines.  Rows that are kept   *)
(* are in the source when their table is read (SourceInv), so they are in  *)
(* what the tables before the job's contributed (CopyInv); headers         *)
(* anywhere, copied or left by an earlier migration, have had lines in the *)
(* source, and lines stay, so the table of lines, read later, has them     *)
(* all.                                                                    *)
(*                                                                         *)
(* Assistant, for any calls, answers of any length, limits and batches:    *)
(* every step is of one kind (Kinds): it ends the turn, takes an answer's  *)
(* calls, closes a call, or goes on with its batch.  The trace is the      *)
(* window of the calls let through, and neither rule looks further back    *)
(* (Traces); a batch knows the rows it has written (Batches).              *)
(*                                                                         *)
(* Memory, for any turns, sizes, limits and goroutines: what a file holds  *)
(* is told by where its lines are (LineAt, Before, After), which writes at *)
(* the end and removals change in few ways.  The watermark is the end of a *)
(* line, with the consolidated lines before it and no other (MarkInv); a   *)
(* batch in hand is the lines between it and the batch's own mark          *)
(* (BatchInv), so what is counted was not counted before (EdgesInv); a     *)
(* line without an end is a torn write that has cost nothing yet           *)
(* (TornInv); what is wiped is in nobody's hands but those of a spared     *)
(* consolidation (ClearInv).  Reading backwards, the turns found and the   *)
(* turns of what is left, with the start of a line that is pending at its  *)
(* end, make up the log after every chunk (ScanInv).                       *)
(***************************************************************************)
EXTENDS Storage, Assistant, Memory, SequenceTheorems, FiniteSetTheorems, WellFoundedInduction, TLAPS

Active(j) == job[j].at \in {"asked", "open", "drop", "copy", "committed"}
Opened(j) == job[j].at \in {"open", "drop", "copy", "committed"}

\* One migration at a time, while Status shows it, on the database it shows.
OneAtATime ==
  /\ \A j \in Jobs : Active(j) => state.status = "running" /\ job[j].ds \in Targets
  /\ \A i, j \in Jobs : Active(i) /\ Active(j) => i = j
  /\ \A j \in Jobs : Opened(j) => state.target = job[j].ds

SourceInv ==
  /\ \A t \in Tables : kept[t] \subseteq source[t]
  /\ source[Headers] \subseteq source[Lines]

\* Headers wherever they are have their lines in the source.
TargetInv ==
  \A ds \in Targets : target[ds][Headers] # NoTable => target[ds][Headers] \subseteq source[Lines]

\* What the job j has read so far: the tables before its own.
CopyInv ==
  \A j \in Jobs : At(j, "copy") =>
    /\ job[j].inserted \in Rows /\ job[j].table \in Nat
    /\ \A t \in Tables : Db(j)[t] # NoTable
    /\ \A n \in 1..Len(AllModels) :
         n < job[j].table => kept[AllModels[n]] \subseteq job[j].inserted[AllModels[n]]
    /\ job[j].inserted[Headers] \subseteq source[Lines]
    /\ \A n \in 1..Len(AllModels) : AllModels[n] = Lines /\ n < job[j].table =>
         /\ Db(j)[Headers] \subseteq job[j].inserted[Lines]
         /\ job[j].inserted[Headers] \subseteq job[j].inserted[Lines]

\* The database ds has been filled.
Full(ds) ==
  /\ \A t \in Tables : target[ds][t] # NoTable /\ kept[t] \subseteq target[ds][t]
  /\ target[ds][Headers] \subseteq target[ds][Lines]

DoneInv ==
  /\ \A j \in Jobs : At(j, "committed") => Full(job[j].ds)
  /\ state.status = "done" => state.target \in Targets /\ Full(state.target)

StorageInv == TypeOK /\ OneAtATime /\ SourceInv /\ TargetInv /\ CopyInv /\ DoneInv

\* The list of tables has every table, and tables only.
LEMMA TablesListed ==
  /\ Len(AllModels) \in Nat
  /\ \A n \in 1..Len(AllModels) : AllModels[n] \in Tables
  /\ \A t \in Tables : \E n \in 1..Len(AllModels) : t = AllModels[n]
BY ModelsInOrder DEF Tables

\* The invariant holds before the first data source.
LEMMA InitStorage == Init => StorageInv
<1> SUFFICES ASSUME Init PROVE StorageInv
  OBVIOUS
<1>1. TypeOK
  BY Bounds, TablesListed DEF Init, TypeOK, Rows, Job, NoJob
<1>2. \A j \in Jobs : job[j].at = "none"
  BY DEF Init, NoJob
<1>3. OneAtATime /\ CopyInv /\ DoneInv
  BY <1>2 DEF Init, OneAtATime, CopyInv, DoneInv, Active, Opened, At
<1>4. SourceInv /\ TargetInv
  BY HeadersFirst DEF Init, SourceInv, TargetInv
<1> QED
  BY <1>1, <1>3, <1>4 DEF StorageInv

-----------------------------------------------------------------------------
(* What a step of one job leaves to show. *)

\* While j is at work the other jobs are not.
LEMMA Alone ==
  ASSUME StorageInv, NEW j \in Jobs, Active(j)
  PROVE  \A i \in Jobs : i # j => job[i].at \in {"none", "over"}
BY DEF StorageInv, TypeOK, Job, OneAtATime, Active

\* The job j writes its own record and nothing but the target and the status.
LEMMA OwnRecord ==
  ASSUME StorageInv, NEW j \in Jobs, NEW r \in Job, job' = [job EXCEPT ![j] = r]
  PROVE  job' \in [Jobs -> Job] /\ job'[j] = r /\ \A i \in Jobs : i # j => job'[i] = job[i]
BY DEF StorageInv, TypeOK

\* A job that ends, having failed: nobody is at work any more.
LEMMA FailStep ==
  ASSUME StorageInv, NEW j \in Jobs, Active(j), Fail(j),
         UNCHANGED <<source, target, listed, kept, writes, crashes>>
  PROVE  StorageInv'
<1>1. PICK r \in Job : r.at = "over" /\ job' = [job EXCEPT ![j] = r]
  BY DEF Fail, To, StorageInv, TypeOK, Job
<1>2. /\ job' \in [Jobs -> Job]
      /\ \A i \in Jobs : job'[i].at \in {"none", "over"}
  BY <1>1, OwnRecord, Alone
<1>3. state' = [state EXCEPT !.status = "failed"]
  BY DEF Fail
<1>4. TypeOK'
  BY <1>2, <1>3 DEF StorageInv, TypeOK
<1>5. OneAtATime' /\ CopyInv'
  BY <1>2 DEF OneAtATime, CopyInv, Active, Opened, At
<1>6. DoneInv'
  BY <1>2, <1>3 DEF StorageInv, TypeOK, DoneInv, At
<1>7. SourceInv' /\ TargetInv'
  BY DEF StorageInv, SourceInv, TargetInv
<1> QED
  BY <1>4, <1>5, <1>6, <1>7 DEF StorageInv

\* A job before its copy: nothing is promised yet but what concerns the target.
LEMMA EarlyStep ==
  ASSUME StorageInv, NEW j \in Jobs, Active(j), NEW r \in Job,
         job' = [job EXCEPT ![j] = r], r.at \in {"open", "drop"}, r.ds = job[j].ds,
         state' = [state EXCEPT !.target = r.ds],
         target' \in [Targets -> [Tables -> (SUBSET Keys) \cup {NoTable}]], TargetInv',
         UNCHANGED <<source, listed, kept, writes, crashes>>
  PROVE  StorageInv'
<1>1. state'.status = "running" /\ state'.target = r.ds /\ r.ds \in Targets
  BY DEF StorageInv, TypeOK, OneAtATime
<1>2. /\ job' \in [Jobs -> Job] /\ job'[j] = r
      /\ \A i \in Jobs : i # j => job'[i].at \in {"none", "over"}
  BY OwnRecord, Alone
<1>3. TypeOK'
  BY <1>1, <1>2 DEF StorageInv, TypeOK
<1>4. OneAtATime'
  BY <1>1, <1>2 DEF OneAtATime, Active, Opened
<1>5. CopyInv' /\ DoneInv'
  BY <1>1, <1>2 DEF CopyInv, DoneInv, At
<1>6. SourceInv'
  BY DEF StorageInv, SourceInv
<1> QED
  BY <1>3, <1>4, <1>5, <1>6 DEF StorageInv

\* A job that has looked up its target has copied nothing.
LEMMA FindSourceStep ==
  ASSUME StorageInv, NEW j \in Jobs, FindSource(j) PROVE StorageInv'
<1>1. Active(j)
  BY DEF FindSource, At, Active
<1>2. CASE Fail(j)
  BY <1>1, <1>2, FailStep DEF FindSource
<1>3. CASE To(j, "open") /\ state' = [state EXCEPT !.target = job[j].ds]
  <2>1. PICK r \in Job : r.at = "open" /\ r.ds = job[j].ds /\ job' = [job EXCEPT ![j] = r]
    BY <1>3 DEF To, StorageInv, TypeOK, Job
  <2>2. TargetInv'
    BY DEF FindSource, StorageInv, TargetInv
  <2> QED
    BY <1>1, <1>3, <2>1, <2>2, EarlyStep DEF FindSource, StorageInv, TypeOK
<1> QED
  BY <1>2, <1>3 DEF FindSource

\* Status shows the database of a job that is at work.
LEMMA SameTarget ==
  ASSUME StorageInv, NEW j \in Jobs, Opened(j)
  PROVE  /\ Active(j) /\ job[j].ds \in Targets
         /\ state.status = "running" /\ state = [state EXCEPT !.target = job[j].ds]
<1>1. Active(j) /\ state.target = job[j].ds
  BY DEF StorageInv, OneAtATime, Opened, Active
<1> QED
  BY <1>1 DEF StorageInv, OneAtATime, TypeOK

\* Nor has one that opens its target.
LEMMA OpenTargetStep ==
  ASSUME StorageInv, NEW j \in Jobs, OpenTarget(j) PROVE StorageInv'
<1>1. Opened(j)
  BY DEF OpenTarget, At, Opened
<1>2. CASE Fail(j)
  BY <1>1, <1>2, SameTarget, FailStep DEF OpenTarget
<1>3. CASE /\ job' = [job EXCEPT ![j].at = "drop", ![j].table = Len(AllModels)]
           /\ UNCHANGED state
  <2> DEFINE r == [job[j] EXCEPT !.at = "drop", !.table = Len(AllModels)]
  <2>1. r \in Job /\ r.at = "drop" /\ r.ds = job[j].ds
    <3>1. job[j] \in Job /\ Len(AllModels) \in 0..(Len(AllModels) + 1)
      BY TablesListed DEF StorageInv, TypeOK
    <3> QED
      BY <3>1 DEF Job
  <2>2. job' = [job EXCEPT ![j] = r]
    BY <1>3 DEF StorageInv, TypeOK
  <2>3. /\ TargetInv' /\ target' = target
        /\ UNCHANGED <<source, listed, kept, writes, crashes>>
    BY DEF OpenTarget, StorageInv, TargetInv
  <2>4. /\ Active(j) /\ state' = [state EXCEPT !.target = job[j].ds]
        /\ target' \in [Targets -> [Tables -> (SUBSET Keys) \cup {NoTable}]]
    BY <1>1, <1>3, <2>3, SameTarget DEF StorageInv, TypeOK
  <2> HIDE DEF r
  <2> QED
    BY <2>1, <2>2, <2>3, <2>4, EarlyStep
<1> QED
  BY <1>2, <1>3 DEF OpenTarget

\* Nor has one that drops the target's tables.
LEMMA DropTableStep ==
  ASSUME StorageInv, NEW j \in Jobs, DropTable(j) PROVE StorageInv'
<1>1. Opened(j) /\ job[j].table > 0
  BY DEF DropTable, At, Opened
<1> DEFINE r == [job[j] EXCEPT !.table = @ - 1]
<1>2. r \in Job /\ r.at = "drop" /\ r.ds = job[j].ds /\ job' = [job EXCEPT ![j] = r]
  <2>1. job[j] \in Job /\ job[j].at = "drop"
    BY DEF DropTable, At, StorageInv, TypeOK
  <2>2. job[j].table - 1 \in 0..(Len(AllModels) + 1)
    BY <1>1, <2>1, TablesListed DEF Job
  <2> QED
    BY <2>1, <2>2 DEF DropTable, Job, StorageInv, TypeOK
<1>3. UNCHANGED <<source, listed, state, kept, writes, crashes>>
  BY DEF DropTable
<1>4. /\ target' \in [Targets -> [Tables -> (SUBSET Keys) \cup {NoTable}]]
      /\ \A ds \in Targets, t \in Tables : target'[ds][t] \in {NoTable, target[ds][t]}
  <2>1. target \in [Targets -> [Tables -> (SUBSET Keys) \cup {NoTable}]]
    BY DEF StorageInv, TypeOK
  <2> DEFINE d == job[j].ds
             t == AllModels[job[j].table]
  <2>2. CASE target' = [target EXCEPT ![d][t] = NoTable]
    BY <2>1, <2>2
  <2>3. CASE target' = target
    BY <2>1, <2>3
  <2> QED
    BY <2>2, <2>3 DEF DropTable
<1>5. TargetInv'
  BY <1>3, <1>4, HeadersFirst DEF StorageInv, TargetInv
<1>6. Active(j) /\ state' = [state EXCEPT !.target = job[j].ds]
  BY <1>1, <1>3, SameTarget
<1> HIDE DEF r
<1> QED
  BY <1>2, <1>3, <1>4, <1>5, <1>6, EarlyStep

\* A job that is at its copy, or past it: what is asked of it, and only of it.
LEMMA CopyingStep ==
  ASSUME StorageInv, NEW j \in Jobs, Opened(j), NEW r \in Job,
         job' = [job EXCEPT ![j] = r], r.ds = job[j].ds,
         r.at = "copy" \/ (r.at = "committed" /\ Full(r.ds)'),
         target' \in [Targets -> [Tables -> (SUBSET Keys) \cup {NoTable}]], TargetInv',
         r.at = "copy" =>
           /\ r.inserted \in Rows /\ r.table \in Nat
           /\ \A t \in Tables : target'[r.ds][t] # NoTable
           /\ \A n \in 1..Len(AllModels) :
                n < r.table => kept[AllModels[n]] \subseteq r.inserted[AllModels[n]]
           /\ r.inserted[Headers] \subseteq source[Lines]
           /\ \A n \in 1..Len(AllModels) : AllModels[n] = Lines /\ n < r.table =>
                /\ target'[r.ds][Headers] \subseteq r.inserted[Lines]
                /\ r.inserted[Headers] \subseteq r.inserted[Lines],
         UNCHANGED <<source, listed, state, kept, writes, crashes>>
  PROVE  StorageInv'
<1>1. Active(j) /\ state.status = "running" /\ state.target = r.ds /\ r.ds \in Targets
  BY SameTarget DEF StorageInv, OneAtATime
<1>2. /\ job' \in [Jobs -> Job] /\ job'[j] = r
      /\ \A i \in Jobs : i # j => job'[i].at \in {"none", "over"}
  BY <1>1, OwnRecord, Alone
<1>3. TypeOK'
  BY <1>2 DEF StorageInv, TypeOK
<1>4. OneAtATime'
  BY <1>1, <1>2 DEF OneAtATime, Active, Opened
<1>5. CopyInv'
  <2> SUFFICES ASSUME NEW i \in Jobs, At(i, "copy")'
               PROVE  /\ job'[i].inserted \in Rows /\ job'[i].table \in Nat
                      /\ \A t \in Tables : Db(i)'[t] # NoTable
                      /\ \A n \in 1..Len(AllModels) : n < job'[i].table =>
                           kept'[AllModels[n]] \subseteq job'[i].inserted[AllModels[n]]
                      /\ job'[i].inserted[Headers] \subseteq source'[Lines]
                      /\ \A n \in 1..Len(AllModels) : AllModels[n] = Lines /\ n < job'[i].table =>
                           /\ Db(i)'[Headers] \subseteq job'[i].inserted[Lines]
                           /\ job'[i].inserted[Headers] \subseteq job'[i].inserted[Lines]
    BY DEF CopyInv
  <2>1. i = j /\ r.at = "copy"
    BY <1>2 DEF At
  <2> QED
    BY <1>2, <2>1 DEF Db
<1>6. DoneInv'
  <2>1. \A i \in Jobs : At(i, "committed")' => i = j /\ Full(r.ds)'
    BY <1>2 DEF At
  <2> QED
    BY <1>1, <1>2, <2>1 DEF DoneInv
<1>7. SourceInv'
  BY DEF StorageInv, SourceInv
<1> QED
  BY <1>3, <1>4, <1>5, <1>6, <1>7 DEF StorageInv

\* It creates the tables that are missing, empty, and has copied none yet.
LEMMA CreateTablesStep ==
  ASSUME StorageInv, NEW j \in Jobs, CreateTables(j) PROVE StorageInv'
<1>1. Opened(j)
  BY DEF CreateTables, At, Opened
<1>2. UNCHANGED <<source, listed, kept, writes, crashes>>
  BY DEF CreateTables
<1>3. CASE Fail(j) /\ UNCHANGED target
  BY <1>1, <1>2, <1>3, SameTarget, FailStep
<1>4. CASE /\ target' = [target EXCEPT ![job[j].ds] =
                           [t \in Tables |-> IF @[t] = NoTable THEN {} ELSE @[t]]]
           /\ job' = [job EXCEPT ![j].at = "copy", ![j].table = 1,
                                 ![j].inserted = [t \in Tables |-> {}]]
           /\ UNCHANGED state
  <2> DEFINE none == [t \in Tables |-> {}]
             r == [job[j] EXCEPT !.at = "copy", !.table = 1, !.inserted = none]
  <2>1. none \in Rows
    BY DEF Rows
  <2>2. /\ r \in Job /\ job' = [job EXCEPT ![j] = r]
        /\ r.at = "copy" /\ r.table = 1 /\ r.inserted = none /\ r.ds = job[j].ds
    <3>1. job[j] \in Job /\ 1 \in 0..(Len(AllModels) + 1)
      BY TablesListed DEF StorageInv, TypeOK
    <3>2. job' = [job EXCEPT ![j] = r]
      BY <1>4 DEF StorageInv, TypeOK
    <3> HIDE DEF none
    <3>3. r \in Job /\ r.at = "copy" /\ r.table = 1 /\ r.inserted = none /\ r.ds = job[j].ds
      BY <2>1, <3>1 DEF Job
    <3> QED
      BY <3>2, <3>3
  <2>3. /\ target' \in [Targets -> [Tables -> (SUBSET Keys) \cup {NoTable}]]
        /\ \A ds \in Targets \ {r.ds} : target'[ds] = target[ds]
        /\ \A t \in Tables :
             target'[r.ds][t] = IF target[r.ds][t] = NoTable THEN {} ELSE target[r.ds][t]
    <3>1. /\ target \in [Targets -> [Tables -> (SUBSET Keys) \cup {NoTable}]]
          /\ job[j].ds \in Targets
      BY <1>1, SameTarget DEF StorageInv, TypeOK
    <3> QED
      BY <1>4, <2>2, <3>1
  <2>4. TargetInv'
    BY <1>2, <2>3, HeadersFirst DEF StorageInv, TargetInv
  <2>5. \A t \in Tables : target'[r.ds][t] # NoTable
    BY <2>3, NoTableIsNone
  <2>6. r.inserted[Headers] = {}
    BY <2>2, HeadersFirst
  <2> HIDE DEF r, none
  <2>7. /\ r.inserted \in Rows /\ r.table \in Nat
        /\ \A n \in 1..Len(AllModels) : ~(n < r.table)
        /\ r.inserted[Headers] \subseteq source[Lines]
    BY <2>1, <2>2, <2>6, TablesListed
  <2>8. UNCHANGED <<source, listed, state, kept, writes, crashes>>
    BY <1>2, <1>4
  <2> QED
    BY ONLY <1>1, <2>2, <2>3, <2>4, <2>5, <2>7, <2>8, StorageInv, j \in Jobs, CopyingStep
<1> QED
  BY <1>3, <1>4 DEF CreateTables

\* It copies a table as the source has it then.
LEMMA CopyTableStep ==
  ASSUME StorageInv, NEW j \in Jobs, CopyTable(j) PROVE StorageInv'
<1>1. Opened(j) /\ At(j, "copy")
  BY DEF CopyTable, At, Opened
<1>2. UNCHANGED <<source, target, listed, kept, writes, crashes>>
  BY DEF CopyTable
<1>3. CASE Fail(j)
  BY <1>1, <1>2, <1>3, SameTarget, FailStep
<1> DEFINE m == job[j].table
           t == AllModels[m]
           was == job[j].inserted
           ins == [was EXCEPT ![t] = source[t]]
           r == [job[j] EXCEPT !.table = m + 1, !.inserted = ins]
<1>4. CASE job' = [job EXCEPT ![j].table = @ + 1, ![j].inserted[t] = source[t]] /\ UNCHANGED state
  <2>1. /\ m \in 1..Len(AllModels) \/ m = 0
        /\ was \in Rows /\ source \in Rows /\ job[j] \in Job
    BY <1>1, TablesListed DEF CopyTable, StorageInv, TypeOK, CopyInv, Job
  <2>2. ins \in Rows /\ m + 1 \in 0..(Len(AllModels) + 1) /\ m + 1 \in Nat
    <3>1. ins \in Rows
      BY <2>1 DEF Rows
    <3>2. m + 1 \in 0..(Len(AllModels) + 1) /\ m + 1 \in Nat
      BY <2>1, TablesListed
    <3> QED
      BY <3>1, <3>2
  <2>3. job' = [job EXCEPT ![j] = r]
    BY <1>4 DEF StorageInv, TypeOK
  <2>4. /\ \A u \in Tables \ {t} : ins[u] = was[u]
        /\ t \in Tables => ins[t] = source[t]
    BY <2>1 DEF Rows
  <2> HIDE DEF ins
  <2>5. /\ r \in Job /\ r.at = "copy" /\ r.table = m + 1 /\ r.inserted = ins
        /\ r.ds = job[j].ds
    BY <1>1, <2>1, <2>2 DEF Job, At
  <2> HIDE DEF r
  <2>6. \A n \in 1..Len(AllModels) :
          n < m + 1 => kept[AllModels[n]] \subseteq ins[AllModels[n]]
    <3> SUFFICES ASSUME NEW n \in 1..Len(AllModels), n < m + 1
                 PROVE  kept[AllModels[n]] \subseteq ins[AllModels[n]]
      OBVIOUS
    <3>1. AllModels[n] \in Tables
      BY TablesListed
    <3>2. CASE n = m
      BY <2>4, <3>1, <3>2 DEF StorageInv, SourceInv
    <3>3. CASE n < m
      <4>1. AllModels[n] # t
        BY <2>1, <3>3, ModelsInOrder
      <4> QED
        BY <1>1, <2>4, <3>1, <3>3, <4>1 DEF StorageInv, CopyInv
    <3> QED
      BY <2>1, <3>2, <3>3, TablesListed
  <2>7. ins[Headers] \subseteq source[Lines]
    BY <1>1, <2>4, HeadersFirst DEF StorageInv, CopyInv, SourceInv
  <2>8. \A n \in 1..Len(AllModels) : AllModels[n] = Lines /\ n < m + 1 =>
          target[r.ds][Headers] \subseteq ins[Lines] /\ ins[Headers] \subseteq ins[Lines]
    <3> SUFFICES ASSUME NEW n \in 1..Len(AllModels), AllModels[n] = Lines, n < m + 1
                 PROVE  target[r.ds][Headers] \subseteq ins[Lines] /\ ins[Headers] \subseteq ins[Lines]
      OBVIOUS
    <3>1. CASE n = m
      <4>1. r.ds \in Targets /\ target[r.ds][Headers] # NoTable
        BY <1>1, <2>5, SameTarget, HeadersFirst DEF StorageInv, CopyInv, Db
      <4>2. ins[Lines] = source[Lines]
        BY <2>4, <3>1, HeadersFirst
      <4> QED
        BY <2>7, <4>1, <4>2 DEF StorageInv, TargetInv
    <3>2. CASE n < m
      <4>1. t # Lines /\ t # Headers
        BY <2>1, <3>2, ModelsInOrder, HeadersFirst
      <4> QED
        BY <1>1, <2>4, <2>5, <3>2, <4>1, HeadersFirst DEF StorageInv, CopyInv, Db
    <3> QED
      BY <2>1, <3>1, <3>2, TablesListed
  <2>9. TargetInv' /\ target' \in [Targets -> [Tables -> (SUBSET Keys) \cup {NoTable}]]
    BY <1>2 DEF StorageInv, TypeOK, TargetInv
  <2>10. \A u \in Tables : target'[r.ds][u] # NoTable
    BY <1>1, <1>2, <2>5 DEF StorageInv, CopyInv, Db
  <2>11. /\ r.inserted \in Rows /\ r.table \in Nat
         /\ \A n \in 1..Len(AllModels) :
              n < r.table => kept[AllModels[n]] \subseteq r.inserted[AllModels[n]]
         /\ r.inserted[Headers] \subseteq source[Lines]
         /\ \A n \in 1..Len(AllModels) : AllModels[n] = Lines /\ n < r.table =>
              /\ target'[r.ds][Headers] \subseteq r.inserted[Lines]
              /\ r.inserted[Headers] \subseteq r.inserted[Lines]
    BY <1>2, <2>2, <2>5, <2>6, <2>7, <2>8
  <2>12. UNCHANGED <<source, listed, state, kept, writes, crashes>>
    BY <1>2, <1>4
  <2> QED
    BY ONLY <1>1, <2>3, <2>5, <2>9, <2>10, <2>11, <2>12, StorageInv, j \in Jobs, CopyingStep
<1> QED
  BY <1>3, <1>4 DEF CopyTable, CopyOrder, Copied

\* Its transaction ends with every table copied, or leaves no row.
LEMMA CommitStep ==
  ASSUME StorageInv, NEW j \in Jobs, Commit(j) PROVE StorageInv'
<1>1. Opened(j) /\ At(j, "copy") /\ job[j].table > Len(AllModels)
  BY DEF Commit, At, Opened
<1>2. UNCHANGED <<source, listed, kept, writes, crashes>>
  BY DEF Commit
<1>3. CASE Fail(j) /\ UNCHANGED target
  BY <1>1, <1>2, <1>3, SameTarget, FailStep
<1> DEFINE ds == job[j].ds
           ins == job[j].inserted
<1>a. PICK r : r = [job[j] EXCEPT !.at = "committed"]
  OBVIOUS
<1>4. CASE /\ target' = [target EXCEPT ![ds] = [t \in Tables |-> @[t] \cup ins[t]]]
           /\ To(j, "committed") /\ UNCHANGED state
  <2>1. /\ target \in [Targets -> [Tables -> (SUBSET Keys) \cup {NoTable}]]
        /\ ds \in Targets /\ job[j] \in Job /\ ins \in Rows
    BY <1>1, SameTarget DEF StorageInv, TypeOK, CopyInv
  <2>2. /\ r \in Job /\ r.at = "committed" /\ r.ds = ds
        /\ job' = [job EXCEPT ![j] = r]
    BY <1>a, <1>4, <2>1 DEF Job, To, StorageInv, TypeOK
  <2>3. /\ \A t \in Tables : target[ds][t] \in SUBSET Keys /\ kept[t] \subseteq ins[t]
        /\ ins[Headers] \subseteq source[Lines]
        /\ target[ds][Headers] \subseteq ins[Lines] /\ ins[Headers] \subseteq ins[Lines]
    <3>1. \A t \in Tables : target[ds][t] # NoTable
      BY <1>1 DEF StorageInv, CopyInv, Db
    <3>2. \A n \in 1..Len(AllModels) : n < job[j].table
      <4>1. job[j].table \in Nat
        BY <1>1 DEF StorageInv, CopyInv
      <4>2. job[j].table > Len(AllModels) /\ Len(AllModels) \in Nat
        BY <1>1, TablesListed
      <4> QED
        BY ONLY <4>1, <4>2
    <3>3. \A t \in Tables : kept[t] \subseteq ins[t]
      BY <1>1, <3>2, TablesListed DEF StorageInv, CopyInv
    <3>4. PICK n \in 1..Len(AllModels) : AllModels[n] = Lines
      BY HeadersFirst, TablesListed
    <3>5. target[ds][Headers] \subseteq ins[Lines] /\ ins[Headers] \subseteq ins[Lines]
      BY <1>1, <3>2, <3>4 DEF StorageInv, CopyInv, Db
    <3> QED
      BY <1>1, <2>1, <3>1, <3>3, <3>5 DEF StorageInv, CopyInv
  <2>4. /\ \A d \in Targets \ {r.ds} : target'[d] = target[d]
        /\ \A t \in Tables : target'[r.ds][t] = target[r.ds][t] \cup ins[t]
        /\ target' \in [Targets -> [Tables -> (SUBSET Keys) \cup {NoTable}]]
    <3>1. \A t \in Tables : target[ds][t] \cup ins[t] \in SUBSET Keys
      BY <2>1, <2>3 DEF Rows
    <3> DEFINE filled == [t \in Tables |-> target[ds][t] \cup ins[t]]
    <3>2. filled \in [Tables -> (SUBSET Keys) \cup {NoTable}]
      BY <3>1
    <3>3. target' = [target EXCEPT ![ds] = filled]
      BY <1>4
    <3>4. \A t \in Tables : filled[t] = target[ds][t] \cup ins[t]
      OBVIOUS
    <3> HIDE DEF filled
    <3> QED
      BY <2>1, <2>2, <3>2, <3>3, <3>4
  <2>5. TargetInv'
    <3>1. target[ds][Headers] \subseteq source[Lines]
      BY <2>1, <2>3, HeadersFirst, NoTableIsNone DEF StorageInv, TargetInv
    <3> QED
      BY <1>2, <2>2, <2>3, <2>4, <3>1, HeadersFirst DEF StorageInv, TargetInv
  <2>6. Full(r.ds)'
    <3>1. \A t \in Tables : target'[r.ds][t] \in SUBSET Keys
      BY <2>1, <2>2, <2>3, <2>4 DEF Rows
    <3>2. \A t \in Tables : target'[r.ds][t] # NoTable /\ kept'[t] \subseteq target'[r.ds][t]
      BY <1>2, <2>2, <2>3, <2>4, <3>1, NoTableIsNone
    <3>3. target'[r.ds][Headers] \subseteq target'[r.ds][Lines]
      BY <2>2, <2>3, <2>4, HeadersFirst
    <3> QED
      BY <3>2, <3>3 DEF Full
  <2>7. UNCHANGED <<source, listed, state, kept, writes, crashes>>
    BY <1>2, <1>4
  <2> QED
    BY ONLY <1>1, <2>2, <2>4, <2>5, <2>6, <2>7, StorageInv, j \in Jobs, CopyingStep
<1> QED
  BY <1>3, <1>4 DEF Commit

\* It reports done after that only.
LEMMA FinishStep ==
  ASSUME StorageInv, NEW j \in Jobs, Finish(j) PROVE StorageInv'
<1>1. /\ Opened(j) /\ At(j, "committed")
      /\ state' = [state EXCEPT !.status = "done"]
      /\ UNCHANGED <<source, target, listed, kept, writes, crashes>>
  BY DEF Finish, At, Opened
<1>2. PICK r \in Job : r.at = "over" /\ job' = [job EXCEPT ![j] = r]
  BY DEF Finish, To, StorageInv, TypeOK, Job
<1>3. /\ job' \in [Jobs -> Job]
      /\ \A i \in Jobs : job'[i].at \in {"none", "over"}
  BY <1>1, <1>2, SameTarget, OwnRecord, Alone
<1>4. TypeOK'
  BY <1>1, <1>3 DEF StorageInv, TypeOK
<1>5. OneAtATime' /\ CopyInv'
  BY <1>3 DEF OneAtATime, CopyInv, Active, Opened, At
<1>6. (state.target \in Targets /\ Full(state.target))'
  <2>1. state'.target = job[j].ds /\ job[j].ds \in Targets
    BY <1>1, SameTarget DEF StorageInv, TypeOK, OneAtATime
  <2>2. Full(job[j].ds)
    BY <1>1 DEF StorageInv, DoneInv
  <2> QED
    BY <1>1, <2>1, <2>2 DEF Full
<1>7. DoneInv'
  BY <1>3, <1>6 DEF DoneInv, At
<1>8. SourceInv' /\ TargetInv'
  BY <1>1 DEF StorageInv, SourceInv, TargetInv
<1> QED
  BY <1>4, <1>5, <1>7, <1>8 DEF StorageInv

\* A migration is accepted when none is shown as running: then no job is at work.
LEMMA MigrateStep ==
  ASSUME StorageInv, NEW j \in Jobs, NEW ds \in Targets, Migrate(j, ds) PROVE StorageInv'
<1>1. /\ state' = [status |-> "running", target |-> NoTable]
      /\ kept' = source
      /\ UNCHANGED <<source, target, listed, writes, crashes>>
  BY DEF Migrate
<1>2. PICK r \in Job : r.at = "asked" /\ r.ds = ds /\ job' = [job EXCEPT ![j] = r]
  <2> DEFINE r == [NoJob EXCEPT !.at = "asked", !.ds = ds]
  <2>1. r \in Job /\ r.at = "asked" /\ r.ds = ds
    <3>1. NoJob \in Job
      BY TablesListed DEF NoJob, Job
    <3> QED
      BY <3>1 DEF Job
  <2>2. job' = [job EXCEPT ![j] = r]
    BY DEF Migrate
  <2> HIDE DEF r
  <2> QED
    BY <2>1, <2>2
<1>3. \A i \in Jobs : job[i].at \in {"none", "over"}
  BY DEF Migrate, MayStart, StorageInv, OneAtATime, Active, TypeOK, Job
<1>4. /\ job' \in [Jobs -> Job] /\ job'[j] = r
      /\ \A i \in Jobs : i # j => job'[i].at \in {"none", "over"}
  BY <1>2, <1>3, OwnRecord
<1>5. TypeOK'
  BY <1>1, <1>4 DEF StorageInv, TypeOK
<1>6. OneAtATime' /\ CopyInv' /\ DoneInv'
  BY <1>1, <1>2, <1>4 DEF OneAtATime, CopyInv, DoneInv, Active, Opened, At
<1>7. SourceInv' /\ TargetInv'
  BY <1>1 DEF StorageInv, SourceInv, TargetInv
<1> QED
  BY <1>5, <1>6, <1>7 DEF StorageInv

\* A restart ends every job that runs.
LEMMA CrashStep ==
  ASSUME StorageInv, Crash PROVE StorageInv'
<1>1. /\ state' = [status |-> "idle", target |-> NoTable]
      /\ crashes' = crashes + 1 /\ crashes < MaxCrashes
      /\ UNCHANGED <<source, target, listed, kept, writes>>
  BY DEF Crash
<1>2. NoJob \in Job /\ [NoJob EXCEPT !.at = "over"] \in Job
  BY TablesListed DEF NoJob, Job
<1>3. job' \in [Jobs -> Job] /\ \A i \in Jobs : job'[i].at \in {"none", "over"}
  BY <1>2 DEF Crash, NoJob
<1>4. TypeOK'
  BY <1>1, <1>3, Bounds DEF StorageInv, TypeOK
<1>5. OneAtATime' /\ CopyInv' /\ DoneInv'
  BY <1>1, <1>3 DEF OneAtATime, CopyInv, DoneInv, Active, Opened, At
<1>6. SourceInv' /\ TargetInv'
  BY <1>1 DEF StorageInv, SourceInv, TargetInv
<1> QED
  BY <1>4, <1>5, <1>6 DEF StorageInv

-----------------------------------------------------------------------------
\* The requests write: lines are only added, and what is kept stays in the source.
LEMMA WriteStep ==
  ASSUME StorageInv, UNCHANGED <<target, state, job, crashes>>, TypeOK', SourceInv',
         source[Lines] \subseteq source'[Lines], \A t \in Tables : kept'[t] \subseteq kept[t]
  PROVE  StorageInv'
<1>1. OneAtATime'
  BY DEF StorageInv, OneAtATime, Active, Opened
<1>2. TargetInv'
  BY DEF StorageInv, TargetInv
<1>3. CopyInv'
  <2> SUFFICES ASSUME NEW j \in Jobs, job[j].at = "copy"
               PROVE  /\ job[j].inserted \in Rows /\ job[j].table \in Nat
                      /\ \A t \in Tables : target[job[j].ds][t] # NoTable
                      /\ \A n \in 1..Len(AllModels) : n < job[j].table =>
                           kept'[AllModels[n]] \subseteq job[j].inserted[AllModels[n]]
                      /\ job[j].inserted[Headers] \subseteq source'[Lines]
                      /\ \A n \in 1..Len(AllModels) : AllModels[n] = Lines /\ n < job[j].table =>
                           /\ target[job[j].ds][Headers] \subseteq job[j].inserted[Lines]
                           /\ job[j].inserted[Headers] \subseteq job[j].inserted[Lines]
    BY DEF CopyInv, At, Db
  <2> QED
    BY TablesListed DEF StorageInv, CopyInv, At, Db
<1>4. \A ds : Full(ds) => Full(ds)'
  BY DEF Full
<1>5. DoneInv'
  BY <1>4 DEF StorageInv, DoneInv, At, Full
<1> QED
  BY <1>1, <1>2, <1>3, <1>5 DEF StorageInv

\* A request that creates an order adds to the source, headers and lines at once.
LEMMA CreateStep ==
  ASSUME StorageInv, NEW k \in Keys, Create(k) PROVE StorageInv'
<1>1. /\ source' = [t \in Tables |-> source[t] \cup {k}] /\ writes' = writes + 1
      /\ writes < MaxWrites /\ UNCHANGED <<target, listed, state, job, kept, crashes>>
  BY DEF Create, storage
<1>2. TypeOK'
  BY <1>1, Bounds DEF StorageInv, TypeOK, Rows
<1>3. SourceInv' /\ source[Lines] \subseteq source'[Lines]
  BY <1>1, HeadersFirst DEF StorageInv, SourceInv
<1> QED
  BY <1>1, <1>2, <1>3, WriteStep

\* A request that deletes an order leaves its lines, and the header need not be copied.
LEMMA DeleteStep ==
  ASSUME StorageInv, NEW k \in Keys, Delete(k) PROVE StorageInv'
<1>1. /\ source' = [source EXCEPT ![Headers] = @ \ {k}]
      /\ kept' = [kept EXCEPT ![Headers] = @ \ {k}] /\ writes' = writes + 1
      /\ writes < MaxWrites /\ UNCHANGED <<target, listed, state, job, crashes>>
  BY DEF Delete, storage
<1>2. source \in [Tables -> SUBSET Keys] /\ kept \in [Tables -> SUBSET Keys]
  BY DEF StorageInv, TypeOK, Rows
<1>3. /\ source'[Headers] = source[Headers] \ {k} /\ kept'[Headers] = kept[Headers] \ {k}
      /\ \A t \in Tables \ {Headers} : source'[t] = source[t] /\ kept'[t] = kept[t]
  BY <1>1, <1>2, HeadersFirst
<1>4. TypeOK'
  <2>1. source' \in Rows /\ kept' \in Rows
    BY <1>1, <1>2, HeadersFirst DEF Rows
  <2>2. writes' \in 0..MaxWrites
    BY <1>1, Bounds DEF StorageInv, TypeOK
  <2> QED
    BY <1>1, <2>1, <2>2 DEF StorageInv, TypeOK
<1>5. Headers # Lines
  BY HeadersFirst, TablesListed
<1>6. SourceInv' /\ source[Lines] \subseteq source'[Lines]
      /\ \A t \in Tables : kept'[t] \subseteq kept[t]
  BY <1>3, <1>5, HeadersFirst DEF StorageInv, SourceInv
<1> QED
  BY <1>1, <1>4, <1>6, WriteStep

\* Every step keeps the invariant.
LEMMA StorageStep == StorageInv /\ [Next]_vars => StorageInv'
<1> SUFFICES ASSUME StorageInv, [Next]_vars PROVE StorageInv'
  OBVIOUS
<1>1. ASSUME UNCHANGED <<source, target, state, job, kept, writes, crashes>>,
             listed' \in SUBSET Targets
      PROVE  StorageInv'
  <2>1. TypeOK'
    BY <1>1 DEF StorageInv, TypeOK
  <2>2. SourceInv'
    BY <1>1 DEF StorageInv, SourceInv
  <2> QED
    BY <1>1, <2>1, <2>2, WriteStep
<1>2. CASE UNCHANGED vars
  BY <1>1, <1>2 DEF vars, StorageInv, TypeOK
<1>3. ASSUME NEW ds \in Targets, CreateDataSource(ds) \/ DeleteDataSource(ds) PROVE StorageInv'
  BY <1>1, <1>3 DEF CreateDataSource, DeleteDataSource, StorageInv, TypeOK
<1>4. ASSUME NEW j \in Jobs, JobStep(j) PROVE StorageInv'
  BY <1>4, FindSourceStep, OpenTargetStep, DropTableStep, CreateTablesStep, CopyTableStep,
     CommitStep, FinishStep DEF JobStep
<1> QED
  BY <1>2, <1>3, <1>4, MigrateStep, CreateStep, DeleteStep, CrashStep DEF Next

-----------------------------------------------------------------------------
\* The invariant always holds: what each job has still to copy, and what it has copied
\* already, follow the source.
THEOREM StorageInvariant == Spec => []StorageInv
BY InitStorage, StorageStep, PTL DEF Spec

\* One migration runs at a time, and while it runs Status says so ("Only one migration
\* runs at a time", Migrate).
THEOREM StorageOneAtATime == Spec => []OneAtATime
BY StorageInvariant, PTL DEF StorageInv

\* A database that Status calls done has every table and every row that stayed in the
\* source, whatever was written, deleted or restarted during the copy (run).
THEOREM StorageNothingLost == Spec => []NothingLost
<1>1. StorageInv => NothingLost
  BY DEF StorageInv, DoneInv, Full, NothingLost, Filled
<1> QED
  BY <1>1, StorageInvariant, PTL

\* In a database that is done every order has its lines, for allModels lists headers
\* before lines (allModels, copyTable).
THEOREM StorageOrdersHaveLines == Spec => []OrdersHaveLines
<1>1. StorageInv => OrdersHaveLines
  BY DEF StorageInv, DoneInv, Full, OrdersHaveLines, Filled
<1> QED
  BY <1>1, StorageInvariant, PTL

-----------------------------------------------------------------------------
(* The window of the trace, for every sequence of calls. *)

Width == MaxRepeatPage + 4

\* The last n of a sequence.
LEMMA LastOfFacts ==
  ASSUME NEW s \in Seq(Calls), NEW n \in 1..Len(s)
  PROVE  /\ LastOf(s, n) \in Seq(Calls) /\ Len(LastOf(s, n)) = n
         /\ \A i \in 1..n : LastOf(s, n)[i] = s[Len(s) - n + i]
<1> DEFINE m == Len(s) - n + 1
<1>1. Len(s) \in Nat /\ n \in Int /\ m \in Int /\ m >= 1 /\ m <= Len(s)
  BY LenProperties
<1>2. \A i \in m..Len(s) : s[i] \in Calls
  BY <1>1, ElementOfSeq
<1>3. /\ SubSeq(s, m, Len(s)) \in Seq(Calls)
      /\ Len(SubSeq(s, m, Len(s))) = IF m <= Len(s) THEN Len(s) - m + 1 ELSE 0
      /\ \A i \in 1..(Len(s) - m + 1) : SubSeq(s, m, Len(s))[i] = s[m + i - 1]
  <2> HIDE DEF m
  <2> QED
    BY <1>1, <1>2, SubSeqProperties
<1> QED
  BY <1>1, <1>3 DEF LastOf

\* The window is the sequence, or its last Width.
LEMMA WindowFacts ==
  ASSUME NEW s \in Seq(Calls)
  PROVE  /\ Window(s) \in Seq(Calls)
         /\ Len(Window(s)) = IF Len(s) > Width THEN Width ELSE Len(s)
         /\ \A i \in 1..Len(Window(s)) : Window(s)[i] = s[Len(s) - Len(Window(s)) + i]
<1>1. Len(s) \in Nat /\ Width \in Nat \ {0}
  BY AssistantAssumption, LenProperties DEF Width
<1>2. CASE Len(s) > Width
  <2>1. Window(s) = LastOf(s, Width) /\ Width \in 1..Len(s)
    BY <1>1, <1>2 DEF Window, Width
  <2>2. /\ LastOf(s, Width) \in Seq(Calls) /\ Len(LastOf(s, Width)) = Width
        /\ \A i \in 1..Width : LastOf(s, Width)[i] = s[Len(s) - Width + i]
    BY <2>1, LastOfFacts
  <2> QED
    BY <1>2, <2>1, <2>2
<1>3. CASE Len(s) <= Width
  <2>1. Window(s) = s
    BY <1>1, <1>3 DEF Window, Width
  <2> QED
    BY <1>1, <1>3, <2>1
<1> QED
  BY <1>1, <1>2, <1>3

\* Tracing answer by answer keeps what tracing all calls at once would.
LEMMA WindowOfConcat ==
  ASSUME NEW a \in Seq(Calls), NEW b \in Seq(Calls)
  PROVE  Window(Window(a) \o b) = Window(a \o b)
<1> DEFINE wa == Window(a)
<1>1. Len(a) \in Nat /\ Len(b) \in Nat /\ Width \in Nat \ {0}
  BY AssistantAssumption, LenProperties DEF Width
<1>2. /\ wa \in Seq(Calls) /\ Len(wa) = IF Len(a) > Width THEN Width ELSE Len(a)
      /\ \A i \in 1..Len(wa) : wa[i] = a[Len(a) - Len(wa) + i]
  BY WindowFacts
<1> HIDE DEF wa
<1>3. /\ wa \o b \in Seq(Calls) /\ Len(wa \o b) = Len(wa) + Len(b)
      /\ \A i \in 1..(Len(wa) + Len(b)) :
           (wa \o b)[i] = IF i <= Len(wa) THEN wa[i] ELSE b[i - Len(wa)]
  BY <1>2, ConcatProperties
<1>4. /\ a \o b \in Seq(Calls) /\ Len(a \o b) = Len(a) + Len(b)
      /\ \A i \in 1..(Len(a) + Len(b)) :
           (a \o b)[i] = IF i <= Len(a) THEN a[i] ELSE b[i - Len(a)]
  BY ConcatProperties
<1> DEFINE l == Window(wa \o b)  r == Window(a \o b)
<1>5. /\ l \in Seq(Calls)
      /\ Len(l) = IF Len(wa \o b) > Width THEN Width ELSE Len(wa \o b)
      /\ \A i \in 1..Len(l) : l[i] = (wa \o b)[Len(wa \o b) - Len(l) + i]
  BY <1>3, WindowFacts
<1>6. /\ r \in Seq(Calls)
      /\ Len(r) = IF Len(a \o b) > Width THEN Width ELSE Len(a \o b)
      /\ \A i \in 1..Len(r) : r[i] = (a \o b)[Len(a \o b) - Len(r) + i]
  BY <1>4, WindowFacts
<1> HIDE DEF l, r
<1>7. Len(l) = Len(r) /\ Len(l) \in Nat
  BY <1>1, <1>2, <1>3, <1>4, <1>5, <1>6
<1>8. ASSUME NEW i \in 1..Len(l) PROVE l[i] = r[i]
  <2> DEFINE x == Len(wa) + Len(b) - Len(l) + i  y == Len(a) + Len(b) - Len(r) + i
  <2>1. l[i] = (wa \o b)[x] /\ r[i] = (a \o b)[y]
    <3>1. i \in 1..Len(r)
      BY <1>7
    <3>2. l[i] = (wa \o b)[Len(wa \o b) - Len(l) + i]
      BY <1>5
    <3>3. r[i] = (a \o b)[Len(a \o b) - Len(r) + i]
      BY <1>6, <3>1
    <3> QED
      BY <1>3, <1>4, <3>2, <3>3
  <2>2. /\ x \in 1..(Len(wa) + Len(b)) /\ y \in 1..(Len(a) + Len(b))
        /\ y = x + Len(a) - Len(wa)
        /\ x \in Int /\ Len(wa) \in Nat
    <3>1. /\ Len(wa) \in Nat /\ Len(r) = Len(l) /\ i \in Int /\ i >= 1 /\ i <= Len(l)
          /\ Len(l) = IF Len(wa) + Len(b) > Width THEN Width ELSE Len(wa) + Len(b)
          /\ Len(wa) <= Len(a) /\ Len(l) <= Len(wa) + Len(b)
      BY <1>1, <1>2, <1>3, <1>5, <1>7
    <3> QED
      BY <1>1, <1>7, <3>1
  <2> HIDE DEF x, y
  <2>3. CASE x <= Len(wa)
    <3>1. (wa \o b)[x] = wa[x] /\ (a \o b)[y] = a[y]
      BY <1>1, <1>3, <1>4, <2>2, <2>3
    <3>2. x \in 1..Len(wa) /\ Len(a) - Len(wa) + x = y
      BY <1>1, <2>2, <2>3
    <3>3. wa[x] = a[Len(a) - Len(wa) + x]
      BY <1>2, <3>2
    <3> QED
      BY <2>1, <3>1, <3>2, <3>3
  <2>4. CASE x > Len(wa)
    <3>1. (wa \o b)[x] = b[x - Len(wa)] /\ (a \o b)[y] = b[y - Len(a)]
      BY <1>1, <1>3, <1>4, <2>2, <2>4
    <3>2. x - Len(wa) = y - Len(a)
      BY <1>1, <2>2
    <3> QED
      BY <2>1, <3>1, <3>2
  <2> QED
    BY <2>2, <2>3, <2>4
<1>9. l = r
  BY <1>5, <1>6, <1>7, <1>8, SeqEqual
<1> QED
  BY <1>9 DEF l, r, wa

\* Neither rule looks further back than the window.
LEMMA RulesSeeTheWindow ==
  ASSUME NEW s \in Seq(Calls)
  PROVE  (Repeats(Window(s)) <=> Repeats(s)) /\ (Flips(Window(s)) <=> Flips(s))
<1> DEFINE w == Window(s)
<1>1. /\ Len(s) \in Nat /\ Width \in Nat \ {0} /\ MaxRepeatExact \in Nat \ {0}
      /\ MaxRepeatPage \in Nat \ {0} /\ MaxRepeatExact <= Width /\ MaxRepeatPage <= Width
  BY AssistantAssumption, LenProperties DEF Width
<1>2. /\ w \in Seq(Calls) /\ Len(w) = IF Len(s) > Width THEN Width ELSE Len(s)
      /\ \A i \in 1..Len(w) : w[i] = s[Len(s) - Len(w) + i]
  BY WindowFacts
<1> HIDE DEF w
<1>3. ASSUME NEW n \in Nat \ {0}, n <= Width, n <= Len(s)
      PROVE  /\ n <= Len(w) /\ w[Len(w)] = s[Len(s)]
             /\ \A i \in 1..n : LastOf(w, n)[i] = LastOf(s, n)[i]
  <2>1. n \in 1..Len(w) /\ n \in 1..Len(s) /\ Len(w) \in Nat
    BY <1>1, <1>2, <1>3
  <2>2. \A i \in 1..n : LastOf(w, n)[i] = w[Len(w) - n + i]
    BY <1>2, <2>1, LastOfFacts
  <2>3. \A i \in 1..n : LastOf(s, n)[i] = s[Len(s) - n + i]
    BY <2>1, LastOfFacts
  <2>4. \A i \in 1..n : w[Len(w) - n + i] = s[Len(s) - n + i]
    <3> TAKE i \in 1..n
    <3>1. Len(w) - n + i \in 1..Len(w) /\ Len(s) - Len(w) + (Len(w) - n + i) = Len(s) - n + i
      BY <1>1, <2>1
    <3> QED
      BY <1>2, <3>1
  <2>5. w[Len(w)] = s[Len(s)]
    <3>1. Len(w) \in 1..Len(w) /\ Len(s) - Len(w) + Len(w) = Len(s)
      BY <1>1, <2>1
    <3> QED
      BY <1>2, <3>1
  <2> QED
    BY <2>1, <2>2, <2>3, <2>4, <2>5
<1>4. Len(w) <= Len(s)
  BY <1>1, <1>2
<1>5. Repeats(w) <=> Repeats(s)
  <2>1. CASE Len(s) >= MaxRepeatExact
    <3>1. /\ MaxRepeatExact <= Len(w) /\ w[Len(w)] = s[Len(s)]
          /\ \A i \in 1..MaxRepeatExact : LastOf(w, MaxRepeatExact)[i] = LastOf(s, MaxRepeatExact)[i]
      BY <1>1, <1>3, <2>1
    <3> QED
      BY <1>1, <1>2, <2>1, <3>1 DEF Repeats
  <2>2. CASE Len(s) < MaxRepeatExact
    BY <1>1, <1>2, <1>4, <2>2 DEF Repeats
  <2> QED
    BY <1>1, <2>1, <2>2
<1>6. Flips(w) <=> Flips(s)
  <2>1. CASE Len(s) >= MaxRepeatPage
    <3>1. /\ MaxRepeatPage <= Len(w) /\ w[Len(w)] = s[Len(s)]
          /\ \A i \in 1..MaxRepeatPage : LastOf(w, MaxRepeatPage)[i] = LastOf(s, MaxRepeatPage)[i]
      BY <1>1, <1>3, <2>1
    <3> DEFINE lw == LastOf(w, MaxRepeatPage)  ls == LastOf(s, MaxRepeatPage)
    <3>2. Flips(w) <=>
            /\ w[Len(w)].tool \in FlipNames
            /\ \A n \in 1..MaxRepeatPage :
                 /\ lw[n].tool = lw[1].tool /\ lw[n].page > 0
                 /\ n > 1 => lw[n].page > lw[n - 1].page
      BY <3>1, <1>1, <1>2 DEF Flips
    <3>3. Flips(s) <=>
            /\ s[Len(s)].tool \in FlipNames
            /\ \A n \in 1..MaxRepeatPage :
                 /\ ls[n].tool = ls[1].tool /\ ls[n].page > 0
                 /\ n > 1 => ls[n].page > ls[n - 1].page
      BY <2>1 DEF Flips
    <3>4. \A n \in 1..MaxRepeatPage : lw[n] = ls[n] /\ (n > 1 => lw[n - 1] = ls[n - 1])
      BY <1>1, <3>1
    <3>5. lw[1] = ls[1]
      BY <1>1, <3>1
    <3> HIDE DEF lw, ls
    <3> QED
      BY <3>1, <3>2, <3>3, <3>4, <3>5
  <2>2. CASE Len(s) < MaxRepeatPage
    BY <1>1, <1>2, <1>4, <2>2 DEF Flips
  <2> QED
    BY <1>1, <2>1, <2>2
<1> QED
  BY <1>5, <1>6 DEF w

-----------------------------------------------------------------------------
(* The turn: what every state of it has, and the kinds of step it is taken by. *)

\* The fields of the turn, and which of them are in use in which phase.
TurnFields ==
  /\ chat = [phase |-> chat.phase, files |-> chat.files, roles |-> chat.roles,
             iter |-> chat.iter, recent |-> chat.recent, todo |-> chat.todo,
             invoked |-> chat.invoked, next |-> chat.next, wrote |-> chat.wrote,
             last |-> chat.last]
  /\ chat.recent \in Seq(Calls) /\ chat.todo \in Seq(Calls) /\ chat.invoked \in Seq(Calls)
  /\ chat.next \in Nat \ {0}
  /\ chat.phase \in {"executing", "writing", "reading"} <=> chat.todo # <<>>
  /\ chat.phase \notin {"writing", "reading"} => chat.next = 1 /\ chat.wrote = <<>>

\* What a call may come to.
Truthful(call, wrote, result, ok) ==
  LET kind == Tools[call.tool].writes
  IN  call # NoCall /\ call.tool \in DOMAIN Tools =>
        /\ ok => result \in {<<>>, wrote}
        /\ ok /\ kind \in {"one", "reread", "all", "each"} => wrote = call.rows
        /\ ~ok /\ kind \in {"none", "one", "all", "save"} => wrote = <<>>
        /\ kind \in {"reread", "each"} =>
             /\ Prefix(wrote, call.rows) /\ Prefix(result, wrote)
             /\ Len(wrote) <= Len(result) + 1

\* A batch at the row n: of orders, the ones before it are written.
InBatch(n, wrote) ==
  /\ n \in 1..Len(CallRows)
  /\ Call.tool \in DOMAIN Tools /\ Tools[Call.tool].writes \in {"each", "cache"}
  /\ Tools[Call.tool].writes = "each" => wrote = SubSeq(CallRows, 1, n - 1)

\* The row n is written and to be read back.
InReading(n, wrote) ==
  /\ n \in 1..Len(CallRows)
  /\ Call.tool \in DOMAIN Tools /\ Tools[Call.tool].writes \in {"reread", "each"}
  /\ wrote = SubSeq(CallRows, 1, n)

Batches ==
  /\ chat.phase = "writing" => InBatch(chat.next, chat.wrote)
  /\ chat.phase = "reading" => InReading(chat.next, chat.wrote)

\* The kinds of step: before the first answer of the model, at the end, and around a call.
Begins ==
  /\ chat.phase \in {"idle", "routing", "setup"}
  /\ \E p \in {"routing", "setup", "thinking", "failed"} : \E files, roles :
       chat' = [chat EXCEPT !.phase = p, !.files = files, !.roles = roles]
Ends == \E p \in {"replied", "answered", "failed", "lost"} : EndsAs(p)
Asks ==
  /\ chat.phase = "thinking" /\ chat.iter < MaxIters
  /\ \E n \in 1..PerResponse[chat.iter + 1] : \E calls \in [1..n -> Calls] :
       /\ ~Blocked(chat.recent, calls)
       /\ chat' = [chat EXCEPT !.phase = "executing", !.iter = @ + 1, !.todo = calls,
                               !.recent = Traced(@, calls)]
Closes ==
  /\ chat.phase \in {"executing", "writing", "reading"}
  /\ \E wrote, result, ok : Truthful(Call, wrote, result, ok) /\ Done(wrote, result, ok)
GoesOn ==
  /\ chat.phase \in {"executing", "writing", "reading"}
  /\ \E n, wrote :
       \/ /\ InBatch(n, wrote)
          /\ chat' = [chat EXCEPT !.phase = "writing", !.next = n, !.wrote = wrote]
       \/ /\ InReading(n, wrote)
          /\ chat' = [chat EXCEPT !.phase = "reading", !.next = n, !.wrote = wrote]

\* The call at the head of what is to be done, and its rows.
LEMMA CurrentCall ==
  ASSUME TurnFields, chat.phase \in {"executing", "writing", "reading"}
  PROVE  /\ chat.todo # <<>> /\ Call \in Calls /\ Call.tool \in STRING
         /\ CallRows \in Seq([code : STRING, partner : Partners]) /\ Len(CallRows) \in Nat
<1>1. chat.todo # <<>> /\ chat.todo \in Seq(Calls)
  BY DEF TurnFields
<1>2. Call \in Calls
  BY <1>1, HeadTailProperties DEF Call
<1>3. Call \in [tool : STRING, rows : Seq([code : STRING, partner : Partners]), page : Int]
  BY <1>2, AssistantAssumption
<1>4. CallRows \in Seq([code : STRING, partner : Partners])
  BY <1>3 DEF CallRows
<1> QED
  BY <1>1, <1>2, <1>3, <1>4, LenProperties

\* Nothing written is a prefix of any rows.
LEMMA EmptyPrefix == ASSUME NEW S, NEW rows \in Seq(S) PROVE Prefix(<<>>, rows)
<1>1. SubSeq(rows, 1, 0) = <<>>
  BY SubSeqEmpty
<1>2. Len(<<>>) = 0 /\ Len(rows) \in Nat
  BY LenProperties
<1> QED
  BY <1>1, <1>2 DEF Prefix

\* The rows before any one are a prefix.
LEMMA RowsBefore ==
  ASSUME NEW S, NEW rows \in Seq(S), NEW n \in 1..Len(rows)
  PROVE  /\ Prefix(SubSeq(rows, 1, n - 1), rows)
         /\ Append(SubSeq(rows, 1, n - 1), rows[n]) = SubSeq(rows, 1, n)
<1>1. Len(rows) \in Nat /\ n \in Nat /\ 1 <= n /\ n <= Len(rows)
  BY LenProperties
<1>2. CASE n = 1
  <2>1. SubSeq(rows, 1, n - 1) = <<>> /\ SubSeq(rows, 1, 0) = <<>>
    BY <1>2, SubSeqEmpty
  <2>2. SubSeq(rows, 1, 1) \in Seq(S) /\ Len(SubSeq(rows, 1, 1)) = 1 /\ SubSeq(rows, 1, 1)[1] = rows[1]
    <3>1. \A i \in 1..1 : rows[i] \in S
      BY <1>1, <1>2, ElementOfSeq
    <3> QED
      BY <3>1, SubSeqProperties
  <2>3. rows[1] \in S
    BY <1>1, <1>2, ElementOfSeq
  <2>4. Append(<<>>, rows[1]) = SubSeq(rows, 1, 1)
    <3>1. /\ Append(<<>>, rows[1]) \in Seq(S) /\ Len(Append(<<>>, rows[1])) = 1
          /\ Append(<<>>, rows[1])[1] = rows[1]
      <4>1. <<>> \in Seq(S) /\ Len(<<>>) = 0
        BY EmptySeq
      <4> QED
        BY <2>3, <4>1, AppendProperties
    <3> QED
      BY <2>2, <3>1, SeqEqual
  <2> QED
    BY <1>2, <2>1, <2>4, EmptyPrefix
<1>3. CASE n > 1
  <2> DEFINE before == SubSeq(rows, 1, n - 1)
  <2>1. \A i \in 1..n : rows[i] \in S
    BY <1>1, ElementOfSeq
  <2>2. before \in Seq(S) /\ Len(before) = n - 1
    <3>1. \A i \in 1..(n - 1) : rows[i] \in S
      BY <1>1, <2>1
    <3> QED
      BY <1>1, <1>3, <3>1, SubSeqProperties
  <2>3. SubSeq(rows, 1, n) = before \o <<rows[n]>>
    <3>1. 1 \in 1..Len(rows) /\ n \in 1..Len(rows)
      BY <1>1
    <3> QED
      BY <1>1, <3>1, SubSeqRecursiveSecond
  <2>4. Append(before, rows[n]) = before \o <<rows[n]>>
    BY <1>1, <2>1, <2>2, AppendIsConcat
  <2>5. Prefix(before, rows)
    BY <1>1, <2>2 DEF Prefix
  <2> QED
    BY <2>3, <2>4, <2>5
<1> QED
  BY <1>1, <1>2, <1>3

-----------------------------------------------------------------------------
(* Each action is a step of one kind. *)

\* Before the first answer of the model.
LEMMA StartKind ==
  ASSUME TurnFields, NEW files, NEW roles, Start(files, roles)
  PROVE  Begins
<1>1. chat.phase = "idle"
  BY DEF Start
<1>2. CASE Accepted(files)
  <2>1. chat' = [chat EXCEPT !.phase = "routing", !.files = files, !.roles = roles]
    BY <1>2 DEF Start
  <2> QED
    BY <1>1, <2>1 DEF Begins
<1>3. CASE ~Accepted(files)
  <2>1. chat' = [chat EXCEPT !.phase = "failed"]
    BY <1>3 DEF Start
  <2>2. chat' = [chat EXCEPT !.phase = "failed", !.files = chat.files, !.roles = chat.roles]
    BY <2>1 DEF TurnFields
  <2> QED
    BY <1>1, <2>2 DEF Begins
<1> QED
  BY <1>2, <1>3

\* One agent or none.
LEMMA RouteKind == ASSUME TurnFields, Route PROVE Begins \/ Ends
<1>1. CASE EndsAs("failed")
  BY <1>1 DEF Ends
<1>2. CASE \E role \in chat.roles : chat' = [chat EXCEPT !.phase = "setup", !.roles = {role}]
  <2>1. PICK role \in chat.roles : chat' = [chat EXCEPT !.phase = "setup", !.roles = {role}]
    BY <1>2
  <2>2. chat' = [chat EXCEPT !.phase = "setup", !.files = chat.files, !.roles = {role}]
    BY <2>1 DEF TurnFields
  <2> QED
    BY <2>2 DEF Begins, Route
<1> QED
  BY <1>1, <1>2 DEF Route

\* The prompt is ready, or an image cannot be read.
LEMMA SetupKind == ASSUME TurnFields, Setup PROVE Begins \/ Ends
<1>1. CASE EndsAs("failed")
  BY <1>1 DEF Ends
<1>2. CASE chat' = [chat EXCEPT !.phase = "thinking", !.files = {}, !.roles = {}]
  BY <1>2 DEF Begins, Setup
<1> QED
  BY <1>1, <1>2 DEF Setup

\* The model fails, answers, is stopped by a rule, or asks for calls.
LEMMA ThinkKind == ASSUME TurnFields, Think PROVE Ends \/ Asks
<1>1. CASE EndsAs("failed") \/ EndsAs("replied")
  BY <1>1 DEF Ends
<1>2. CASE \E n \in 1..PerResponse[chat.iter + 1] : \E calls \in [1..n -> Calls] :
             IF Blocked(chat.recent, calls) THEN EndsAs("replied")
             ELSE chat' = [chat EXCEPT !.phase = "executing", !.iter = @ + 1, !.todo = calls,
                                       !.recent = Traced(@, calls)]
  <2>1. PICK n \in 1..PerResponse[chat.iter + 1] : \E calls \in [1..n -> Calls] :
             IF Blocked(chat.recent, calls) THEN EndsAs("replied")
             ELSE chat' = [chat EXCEPT !.phase = "executing", !.iter = @ + 1, !.todo = calls,
                                       !.recent = Traced(@, calls)]
    BY <1>2
  <2>2. PICK calls \in [1..n -> Calls] :
             IF Blocked(chat.recent, calls) THEN EndsAs("replied")
             ELSE chat' = [chat EXCEPT !.phase = "executing", !.iter = @ + 1, !.todo = calls,
                                       !.recent = Traced(@, calls)]
    BY <2>1
  <2>3. CASE Blocked(chat.recent, calls)
    BY <2>2, <2>3 DEF Ends
  <2>4. CASE ~Blocked(chat.recent, calls)
    BY <2>2, <2>4 DEF Asks, Think
  <2> QED
    BY <2>3, <2>4
<1> QED
  BY <1>1, <1>2 DEF Think

\* A call that is over with nothing written.
LEMMA ClosesEmpty ==
  ASSUME TurnFields, chat.phase \in {"executing", "writing", "reading"}, NEW ok \in BOOLEAN,
         Done(<<>>, <<>>, ok), ~ok \/ Tools[Call.tool].writes \in {"none", "save", "cache"}
  PROVE  Closes
<1>1. CallRows \in Seq([code : STRING, partner : Partners]) /\ Call \in Calls
  BY CurrentCall
<1>2. Prefix(<<>>, CallRows) /\ Prefix(<<>>, <<>>) /\ Len(<<>>) = 0
  <2>1. <<>> \in Seq({})
    BY EmptySeq
  <2> QED
    BY <1>1, <2>1, EmptyPrefix, EmptySeq
<1>3. Truthful(Call, <<>>, <<>>, ok)
  BY <1>1, <1>2 DEF Truthful, CallRows
<1> QED
  BY <1>3 DEF Closes

\* A tool that does not exist or is not allowed; a query.
LEMMA RefuseKind == ASSUME TurnFields, Refuse PROVE Closes
BY ClosesEmpty DEF Refuse
LEMMA QueryKind == ASSUME TurnFields, Query PROVE Closes
<1>1. PICK ok \in BOOLEAN : Done(<<>>, <<>>, ok)
  BY DEF Query
<1>2. chat.phase = "executing" /\ Tools[Call.tool].writes = "none"
  BY DEF Query, Executing
<1> QED
  BY <1>1, <1>2, ClosesEmpty

\* All rows of a tool that is no order tool.
LEMMA ClosesFull ==
  ASSUME chat.phase = "executing", Tools[Call.tool].writes \in {"one", "all"},
         Done(CallRows, CallRows, TRUE)
  PROVE  Closes
<1>1. Truthful(Call, CallRows, CallRows, TRUE)
  BY DEF Truthful, CallRows
<1> QED
  BY <1>1 DEF Closes

\* The row, or nothing.
LEMMA InsertOneKind == ASSUME TurnFields, InsertOne PROVE Closes
<1>1. chat.phase = "executing" /\ Tools[Call.tool].writes = "one"
  BY DEF InsertOne, Executing
<1>2. Done(<<>>, <<>>, FALSE) \/ Done(CallRows, CallRows, TRUE)
  BY DEF InsertOne, Rejected
<1> QED
  BY <1>1, <1>2, ClosesEmpty, ClosesFull

\* All rows, or nothing.
LEMMA InsertAllKind == ASSUME TurnFields, InsertAll PROVE Closes
<1>1. chat.phase = "executing" /\ Tools[Call.tool].writes = "all"
  BY DEF InsertAll, Executing
<1>2. Done(<<>>, <<>>, FALSE) \/ Done(CallRows, CallRows, TRUE)
  BY DEF InsertAll, Rejected
<1> QED
  BY <1>1, <1>2, ClosesEmpty, ClosesFull

\* The new row, or nothing.
LEMMA SaveKind == ASSUME TurnFields, Save PROVE Closes
<1>1. chat.phase = "executing" /\ Tools[Call.tool].writes = "save"
  BY DEF Save, Executing
<1>2. CASE Done(<<>>, <<>>, FALSE)
  BY <1>1, <1>2, ClosesEmpty
<1>3. CASE Done(<<CallRows[2]>>, <<CallRows[2]>>, TRUE)
  <2>1. Truthful(Call, <<CallRows[2]>>, <<CallRows[2]>>, TRUE)
    BY <1>1 DEF Truthful
  <2> QED
    BY <1>1, <1>3, <2>1 DEF Closes
<1> QED
  BY <1>2, <1>3 DEF Save, Rejected

\* The first pass over a batch of orders.
LEMMA BeginBatchKind == ASSUME TurnFields, BeginBatch PROVE Closes \/ GoesOn
<1>1. /\ chat.phase = "executing" /\ Call.tool \in DOMAIN Tools
      /\ Tools[Call.tool].writes = "each" /\ chat.next = 1 /\ chat.wrote = <<>>
  BY DEF BeginBatch, Executing, Allowed, TurnFields
<1>2. CallRows \in Seq([code : STRING, partner : Partners]) /\ Len(CallRows) \in Nat
  BY <1>1, CurrentCall
<1>3. CASE Done(<<>>, <<>>, FALSE)
  BY <1>1, <1>3, ClosesEmpty
<1>4. CASE CallRows # <<>> /\ chat' = [chat EXCEPT !.phase = "writing"]
  <2>1. 1 \in 1..Len(CallRows)
    BY <1>2, <1>4, EmptySeq
  <2>2. SubSeq(CallRows, 1, 1 - 1) = <<>>
    BY SubSeqEmpty
  <2>3. InBatch(1, <<>>)
    BY <1>1, <2>1, <2>2 DEF InBatch
  <2>4. chat' = [chat EXCEPT !.phase = "writing", !.next = 1, !.wrote = <<>>]
    BY <1>1, <1>4 DEF TurnFields
  <2> QED
    BY <1>1, <2>3, <2>4 DEF GoesOn
<1> QED
  BY <1>3, <1>4 DEF BeginBatch

\* The rows before n, of a batch at n or reading n back, are a prefix of what is written.
LEMMA FirstRows ==
  ASSUME NEW S, NEW rows \in Seq(S), NEW n \in 1..Len(rows)
  PROVE  /\ Len(SubSeq(rows, 1, n - 1)) = n - 1 /\ Len(SubSeq(rows, 1, n)) = n
         /\ Prefix(SubSeq(rows, 1, n - 1), SubSeq(rows, 1, n - 1))
         /\ Prefix(SubSeq(rows, 1, n), SubSeq(rows, 1, n))
         /\ Prefix(SubSeq(rows, 1, n - 1), SubSeq(rows, 1, n))
         /\ Prefix(SubSeq(rows, 1, n), rows)
<1>1. Len(rows) \in Nat /\ n \in Nat /\ 1 <= n /\ n <= Len(rows)
  BY LenProperties
<1>2. \A i \in 1..Len(rows) : rows[i] \in S
  BY <1>1, ElementOfSeq
<1>3. /\ SubSeq(rows, 1, n) \in Seq(S) /\ Len(SubSeq(rows, 1, n)) = n
      /\ \A i \in 1..n : SubSeq(rows, 1, n)[i] = rows[i]
  <2>1. \A i \in 1..n : rows[i] \in S
    BY <1>1, <1>2
  <2>2. /\ SubSeq(rows, 1, n) \in Seq(S)
        /\ Len(SubSeq(rows, 1, n)) = IF 1 <= n THEN n - 1 + 1 ELSE 0
        /\ \A i \in 1..(n - 1 + 1) : SubSeq(rows, 1, n)[i] = rows[1 + i - 1]
    BY <1>1, <2>1, SubSeqProperties
  <2> QED
    BY <1>1, <2>2
<1> DEFINE all == SubSeq(rows, 1, n)  before == SubSeq(rows, 1, n - 1)
<1>4. /\ before \in Seq(S) /\ Len(before) = n - 1
      /\ \A i \in 1..(n - 1) : before[i] = rows[i]
  <2>1. CASE n = 1
    <3>1. before = <<>>
      BY <2>1, SubSeqEmpty
    <3> QED
      BY <2>1, <3>1, EmptySeq
  <2>2. CASE n > 1
    <3>1. \A i \in 1..(n - 1) : rows[i] \in S
      BY <1>1, <1>2
    <3>2. /\ before \in Seq(S)
          /\ Len(before) = IF 1 <= n - 1 THEN (n - 1) - 1 + 1 ELSE 0
          /\ \A i \in 1..((n - 1) - 1 + 1) : before[i] = rows[1 + i - 1]
      BY <1>1, <3>1, SubSeqProperties
    <3> QED
      BY <1>1, <2>2, <3>2
  <2> QED
    BY <1>1, <2>1, <2>2
<1>5. ASSUME NEW s \in Seq(S) PROVE Prefix(s, s)
  BY <1>5, SubSeqFull, LenProperties DEF Prefix
<1>6. Prefix(all, rows)
  BY <1>1, <1>3 DEF Prefix
<1>7. Prefix(before, all)
  <2> HIDE DEF before, all
  <2>1. CASE n = 1
    <3>1. before = <<>>
      BY <1>4, <2>1, EmptySeq
    <3> QED
      BY <1>3, <3>1, EmptyPrefix DEF all
  <2>2. CASE n > 1
    <3>1. n - 1 \in 1..Len(all) /\ \A i \in 1..Len(all) : all[i] \in S
      BY <1>1, <1>3, <2>2, ElementOfSeq DEF all
    <3>2. /\ SubSeq(all, 1, n - 1) \in Seq(S) /\ Len(SubSeq(all, 1, n - 1)) = n - 1
          /\ \A i \in 1..(n - 1) : SubSeq(all, 1, n - 1)[i] = all[i]
      <4>1. \A i \in 1..(n - 1) : all[i] \in S
        BY <1>1, <3>1
      <4>2. /\ SubSeq(all, 1, n - 1) \in Seq(S)
            /\ Len(SubSeq(all, 1, n - 1)) = IF 1 <= n - 1 THEN (n - 1) - 1 + 1 ELSE 0
            /\ \A i \in 1..((n - 1) - 1 + 1) : SubSeq(all, 1, n - 1)[i] = all[1 + i - 1]
        BY <1>1, <4>1, SubSeqProperties
      <4> QED
        BY <1>1, <2>2, <4>2
    <3>3. before = SubSeq(all, 1, n - 1)
      <4>1. \A i \in 1..(n - 1) : before[i] = SubSeq(all, 1, n - 1)[i]
        BY <1>1, <1>3, <1>4, <3>2 DEF all
      <4> QED
        BY <1>4, <3>2, <4>1, SeqEqual
    <3> QED
      BY <1>1, <1>3, <1>4, <3>3 DEF Prefix, all
  <2> QED
    BY <1>1, <2>1, <2>2
<1> QED
  BY <1>3, <1>4, <1>5, <1>6, <1>7

\* An order, or the next of a batch, is written or fails.
LEMMA InsertNextKind == ASSUME TurnFields, Batches, InsertNext PROVE Closes \/ GoesOn
<1>1. /\ chat.phase \in {"executing", "writing"} /\ Tools[Call.tool].writes \in {"reread", "each"}
      /\ Call.tool \in DOMAIN Tools /\ chat.next \in 1..Len(CallRows)
      /\ chat.wrote = SubSeq(CallRows, 1, chat.next - 1)
  <2>1. CASE Executing({"reread"})
    <3>1. /\ chat.phase = "executing" /\ Tools[Call.tool].writes = "reread"
          /\ Call.tool \in DOMAIN Tools /\ chat.next = 1 /\ chat.wrote = <<>>
      BY <2>1 DEF Executing, Allowed, TurnFields
    <3>2. Call \in Calls
      BY <3>1, CurrentCall
    <3>3. Len(CallRows) = 1
      BY <3>1, <3>2, AssistantAssumption DEF CallRows
    <3>4. SubSeq(CallRows, 1, 1 - 1) = <<>>
      BY SubSeqEmpty
    <3> QED
      BY <3>1, <3>3, <3>4
  <2>2. CASE chat.phase = "writing" /\ Tools[Call.tool].writes = "each"
    BY <2>2 DEF Batches, InBatch
  <2> QED
    BY <2>1, <2>2 DEF InsertNext
<1>2. CallRows \in Seq([code : STRING, partner : Partners])
  BY <1>1, CurrentCall
<1>3. /\ Prefix(chat.wrote, CallRows) /\ Prefix(chat.wrote, chat.wrote)
      /\ Len(chat.wrote) = chat.next - 1
      /\ Append(chat.wrote, CallRows[chat.next]) = SubSeq(CallRows, 1, chat.next)
  <2>1. /\ Prefix(SubSeq(CallRows, 1, chat.next - 1), CallRows)
        /\ Append(SubSeq(CallRows, 1, chat.next - 1), CallRows[chat.next])
             = SubSeq(CallRows, 1, chat.next)
    BY <1>1, <1>2, RowsBefore
  <2>2. /\ Len(SubSeq(CallRows, 1, chat.next - 1)) = chat.next - 1
        /\ Prefix(SubSeq(CallRows, 1, chat.next - 1), SubSeq(CallRows, 1, chat.next - 1))
    BY <1>1, <1>2, FirstRows
  <2> QED
    BY <1>1, <2>1, <2>2
<1>4. CASE Done(chat.wrote, Confirmed, FALSE)
  <2>1. Confirmed = chat.wrote
    BY <1>1 DEF Confirmed
  <2>2. Len(chat.wrote) \in Nat
    BY <1>1, <1>2, <1>3, LenProperties
  <2>3. Truthful(Call, chat.wrote, chat.wrote, FALSE)
    BY <1>1, <1>3, <2>2 DEF Truthful, CallRows
  <2> QED
    BY <1>1, <1>4, <2>1, <2>3 DEF Closes
<1>5. CASE chat' = [chat EXCEPT !.phase = "reading", !.wrote = Append(@, CallRows[chat.next])]
  <2>1. chat' = [chat EXCEPT !.phase = "reading", !.next = chat.next,
                             !.wrote = SubSeq(CallRows, 1, chat.next)]
    BY <1>3, <1>5 DEF TurnFields
  <2>2. InReading(chat.next, SubSeq(CallRows, 1, chat.next))
    BY <1>1 DEF InReading
  <2> QED
    BY <1>1, <2>1, <2>2 DEF GoesOn
<1> QED
  BY <1>4, <1>5 DEF InsertNext, AfterFailure

\* It is read back: the call goes on, is over, or, with the row gone, the turn ends.
LEMMA RereadKind == ASSUME TurnFields, Batches, Reread PROVE Closes \/ GoesOn \/ Ends
<1>1. /\ chat.phase = "reading" /\ Tools[Call.tool].writes \in {"reread", "each"}
      /\ Call.tool \in DOMAIN Tools /\ chat.next \in 1..Len(CallRows)
      /\ chat.wrote = SubSeq(CallRows, 1, chat.next)
  BY DEF Reread, Batches, InReading
<1>2. CallRows \in Seq([code : STRING, partner : Partners]) /\ Len(CallRows) \in Nat /\ Call \in Calls
  BY <1>1, CurrentCall
<1>3. chat.next \in Nat /\ 1 <= chat.next /\ chat.next <= Len(CallRows)
  BY <1>1, <1>2
<1> DEFINE before == SubSeq(CallRows, 1, chat.next - 1)
<1>4. /\ Len(before) = chat.next - 1 /\ Len(chat.wrote) = chat.next
      /\ Prefix(before, chat.wrote) /\ Prefix(chat.wrote, CallRows)
      /\ Prefix(chat.wrote, chat.wrote)
  BY <1>1, <1>2, FirstRows
<1>5. CASE Done(chat.wrote, Confirmed, FALSE)
  <2>1. Confirmed = before
    BY <1>1 DEF Confirmed
  <2>2. Len(chat.wrote) <= Len(before) + 1
    BY <1>3, <1>4
  <2> HIDE DEF before
  <2>3. Truthful(Call, chat.wrote, before, FALSE)
    BY <1>1, <1>4, <2>2 DEF Truthful, CallRows
  <2> QED
    BY <1>1, <1>5, <2>1, <2>3 DEF Closes
<1>6. ASSUME chat.next = Len(CallRows) PROVE chat.wrote = CallRows
  BY <1>1, <1>2, <1>6, SubSeqFull
<1>7. CASE Advance(1, chat.wrote)
  <2>1. CASE chat.next + 1 > Len(CallRows)
    <3>1. chat.wrote = CallRows
      BY <1>2, <1>3, <1>6, <2>1
    <3>2. Done(chat.wrote, chat.wrote, TRUE)
      BY <1>7, <2>1 DEF Advance
    <3>3. Len(chat.wrote) <= Len(chat.wrote) + 1
      BY <1>3, <1>4
    <3>4. Truthful(Call, chat.wrote, chat.wrote, TRUE)
      BY <1>1, <1>4, <3>1, <3>3 DEF Truthful, CallRows
    <3> QED
      BY <1>1, <3>2, <3>4 DEF Closes
  <2>2. CASE ~(chat.next + 1 > Len(CallRows))
    <3>1. chat' = [chat EXCEPT !.phase = "writing", !.next = chat.next + 1, !.wrote = chat.wrote]
      BY <1>7, <2>2 DEF Advance
    <3>2. chat.next + 1 \in 1..Len(CallRows) /\ chat.next + 1 - 1 = chat.next
      BY <1>2, <1>3, <2>2
    <3>3. Tools[Call.tool].writes = "each"
      <4>1. CASE Tools[Call.tool].writes = "reread"
        <5>1. Len(CallRows) = 1
          BY <1>1, <1>2, <4>1, AssistantAssumption DEF CallRows
        <5> QED
          BY <1>3, <2>2, <5>1
      <4> QED
        BY <1>1, <4>1
    <3>4. InBatch(chat.next + 1, chat.wrote)
      BY <1>1, <3>2, <3>3 DEF InBatch
    <3> QED
      BY <1>1, <3>1, <3>4 DEF GoesOn
  <2> QED
    BY <2>1, <2>2
<1>8. CASE EndsAs("failed")
  BY <1>8 DEF Ends
<1>9. CASE Tools[Call.tool].writes # "each" /\ Done(chat.wrote, <<>>, TRUE)
  <2>1. Len(CallRows) = 1 /\ Tools[Call.tool].writes = "reread"
    BY <1>1, <1>2, <1>9, AssistantAssumption DEF CallRows
  <2>2. chat.next = Len(CallRows)
    BY <1>3, <2>1
  <2>3. chat.wrote = CallRows /\ Len(chat.wrote) <= Len(<<>>) + 1
    BY <1>4, <1>6, <2>1, <2>2, EmptySeq
  <2>4. Prefix(<<>>, chat.wrote)
    BY <1>2, <2>3, EmptyPrefix
  <2>5. Truthful(Call, chat.wrote, <<>>, TRUE)
    BY <1>4, <2>1, <2>3, <2>4 DEF Truthful, CallRows
  <2> QED
    BY <1>1, <1>9, <2>5 DEF Closes
<1> QED
  BY <1>5, <1>7, <1>8, <1>9 DEF Reread, AfterFailure

\* The next chunk of a query.
LEMMA QueryChunkKind == ASSUME TurnFields, Batches, QueryChunk PROVE Closes \/ GoesOn
<1>1. /\ chat.phase \in {"executing", "writing"} /\ Tools[Call.tool].writes = "cache"
      /\ Call.tool \in DOMAIN Tools
  BY DEF QueryChunk, Executing, Allowed, Batches, InBatch
<1>2. CallRows \in Seq([code : STRING, partner : Partners]) /\ Len(CallRows) \in Nat
  BY <1>1, CurrentCall
<1>3. ASSUME NEW wrote, NEW result, NEW ok, Done(wrote, result, ok), ok => result \in {<<>>, wrote}
      PROVE  Closes
  <2>1. Truthful(Call, wrote, result, ok)
    BY <1>1, <1>3 DEF Truthful
  <2> QED
    BY <1>1, <1>3, <2>1 DEF Closes
<1>4. ASSUME NEW wrote, Advance(ChunkSize, wrote) PROVE Closes \/ GoesOn
  <2>1. CASE chat.next + ChunkSize > Len(CallRows)
    BY <1>3, <1>4, <2>1 DEF Advance
  <2>2. CASE ~(chat.next + ChunkSize > Len(CallRows))
    <3>1. chat.next + ChunkSize \in 1..Len(CallRows)
      <4>1. ChunkSize \in Nat \ {0} /\ chat.next \in Nat \ {0}
        BY AssistantAssumption DEF TurnFields
      <4> QED
        BY <1>2, <2>2, <4>1
    <3>2. InBatch(chat.next + ChunkSize, wrote)
      BY <1>1, <3>1 DEF InBatch
    <3>3. chat' = [chat EXCEPT !.phase = "writing", !.next = chat.next + ChunkSize,
                               !.wrote = wrote]
      BY <1>4, <2>2 DEF Advance
    <3> QED
      BY <1>1, <3>2, <3>3 DEF GoesOn
  <2> QED
    BY <2>1, <2>2
<1>5. \/ Done(chat.wrote, Confirmed, FALSE)
      \/ \E wrote : Advance(ChunkSize, wrote)
  BY DEF QueryChunk, AfterFailure
<1> QED
  BY <1>3, <1>4, <1>5

\* Every step of the turn is of one kind.
LEMMA Kinds ==
  ASSUME TurnFields, Batches, [TurnNext]_turnVars
  PROVE  UNCHANGED chat \/ Begins \/ Ends \/ Asks \/ Closes \/ GoesOn
<1>1. ASSUME NEW files \in SUBSET {"document", "image", "other"}, NEW roles \in SUBSET Roles,
             Start(files, roles)
      PROVE  Begins
  BY <1>1, StartKind
<1>2. Route => Begins \/ Ends
  BY RouteKind
<1>3. Setup => Begins \/ Ends
  BY SetupKind
<1>4. Think => Ends \/ Asks
  BY ThinkKind
<1>5. Exhausted \/ Answer \/ Dies => Ends
  BY DEF Exhausted, Answer, Dies, Ends
<1>10. Reread => Closes \/ GoesOn \/ Ends
  BY RereadKind
<1>6. Refuse \/ Query \/ InsertOne \/ InsertAll \/ Save => Closes
  BY RefuseKind, QueryKind, InsertOneKind, InsertAllKind, SaveKind
<1>7. BeginBatch \/ InsertNext \/ QueryChunk => Closes \/ GoesOn
  BY BeginBatchKind, InsertNextKind, QueryChunkKind
<1>8. Others => UNCHANGED chat
  BY DEF Others
<1>9. UNCHANGED turnVars => UNCHANGED chat
  BY DEF turnVars
<1> QED
  BY <1>1, <1>2, <1>3, <1>4, <1>5, <1>6, <1>7, <1>8, <1>9, <1>10 DEF TurnNext, TurnStep

-----------------------------------------------------------------------------
(* What each kind of step does to the fields. *)

\* Concatenation is associative, on calls.
LEMMA Associative ==
  ASSUME NEW r \in Seq(Calls), NEW s \in Seq(Calls), NEW t \in Seq(Calls)
  PROVE  (r \o s) \o t = r \o (s \o t)
BY ConcatAssociative

\* A call that is over moves from what is to be done to what was invoked.
LEMMA DoneFields ==
  ASSUME TurnFields, chat.phase \in {"executing", "writing", "reading"}, NEW wrote, NEW result, NEW ok,
         Done(wrote, result, ok)
  PROVE  /\ chat' = [phase |-> IF Len(chat.todo) = 1 THEN "thinking" ELSE "executing",
                     files |-> chat.files, roles |-> chat.roles, iter |-> chat.iter,
                     recent |-> chat.recent, todo |-> Tail(chat.todo),
                     invoked |-> Append(chat.invoked, Call), next |-> 1, wrote |-> <<>>,
                     last |-> Outcome(Call, wrote, result, ok)]
         /\ Tail(chat.todo) \in Seq(Calls) /\ Append(chat.invoked, Call) \in Seq(Calls)
         /\ Append(chat.invoked, Call) \o Tail(chat.todo) = chat.invoked \o chat.todo
         /\ Len(chat.todo) = 1 <=> Tail(chat.todo) = <<>>
<1>1. chat.todo # <<>> /\ Call \in Calls /\ chat.todo \in Seq(Calls) /\ chat.invoked \in Seq(Calls)
  BY CurrentCall DEF TurnFields
<1>2. chat' = [phase |-> IF Len(chat.todo) = 1 THEN "thinking" ELSE "executing",
               files |-> chat.files, roles |-> chat.roles, iter |-> chat.iter,
               recent |-> chat.recent, todo |-> Tail(chat.todo),
               invoked |-> Append(chat.invoked, Call), next |-> 1, wrote |-> <<>>,
               last |-> Outcome(Call, wrote, result, ok)]
  <2> DEFINE p == IF Len(chat.todo) = 1 THEN "thinking" ELSE "executing"
             t == Tail(chat.todo)
             v == Append(chat.invoked, Call)
             l == Outcome(Call, wrote, result, ok)
  <2>1. chat' = [chat EXCEPT !.phase = p, !.todo = t, !.invoked = v, !.next = 1,
                             !.wrote = <<>>, !.last = l]
    BY Zenon DEF Done
  <2> HIDE DEF p, t, v, l
  <2>2. chat' = [phase |-> p, files |-> chat.files, roles |-> chat.roles,
                 iter |-> chat.iter, recent |-> chat.recent, todo |-> t,
                 invoked |-> v, next |-> 1, wrote |-> <<>>, last |-> l]
    BY <2>1 DEF TurnFields
  <2> QED
    BY <2>2, Zenon DEF p, t, v, l
<1>3. /\ Tail(chat.todo) \in Seq(Calls) /\ Len(Tail(chat.todo)) = Len(chat.todo) - 1
      /\ Len(chat.todo) \in Nat \ {0}
      /\ \A i \in 1..Len(Tail(chat.todo)) : Tail(chat.todo)[i] = chat.todo[i + 1]
  BY <1>1, HeadTailProperties, EmptySeq
<1>4. /\ Append(chat.invoked, Call) \in Seq(Calls)
      /\ Append(chat.invoked, Call) = chat.invoked \o <<Call>>
  BY <1>1, AppendProperties, AppendIsConcat
<1>5. <<Call>> \o Tail(chat.todo) = chat.todo
  <2>1. chat.todo = SubSeq(chat.todo, 1, Len(chat.todo))
    BY <1>1, SubSeqFull
  <2>2. SubSeq(chat.todo, 1, Len(chat.todo))
        = <<chat.todo[1]>> \o SubSeq(chat.todo, 1 + 1, Len(chat.todo))
    <3>1. 1 \in 1..Len(chat.todo) /\ Len(chat.todo) \in 1..Len(chat.todo)
      BY <1>3
    <3> QED
      BY <1>1, <3>1, SubSeqRecursiveFirst
  <2>3. Tail(chat.todo) = SubSeq(chat.todo, 2, Len(chat.todo))
    BY <1>1, TailIsSubSeq
  <2>4. Call = chat.todo[1]
    BY <1>1 DEF Call
  <2> QED
    BY <2>1, <2>2, <2>3, <2>4
<1>6. Append(chat.invoked, Call) \o Tail(chat.todo) = chat.invoked \o (<<Call>> \o Tail(chat.todo))
  <2>1. <<Call>> \in Seq(Calls)
    BY <1>1
  <2>2. (chat.invoked \o <<Call>>) \o Tail(chat.todo)
        = chat.invoked \o (<<Call>> \o Tail(chat.todo))
    BY <1>1, <1>3, <2>1, Associative
  <2> QED
    BY <1>4, <2>2
<1>7. Len(chat.todo) = 1 <=> Tail(chat.todo) = <<>>
  <2> DEFINE rest == Tail(chat.todo)
  <2>1. rest \in Seq(Calls) /\ Len(rest) = Len(chat.todo) - 1 /\ Len(chat.todo) \in Nat
    BY <1>3
  <2> HIDE DEF rest
  <2>2. rest = <<>> <=> Len(rest) = 0
    BY <2>1, EmptySeq
  <2> QED
    BY <2>1, <2>2 DEF rest
<1> QED
  BY <1>2, <1>3, <1>4, <1>5, <1>6, <1>7

\* The same, field by field.
LEMMA DoneChanges ==
  ASSUME TurnFields, chat.phase \in {"executing", "writing", "reading"}, NEW wrote, NEW result, NEW ok,
         Done(wrote, result, ok)
  PROVE  /\ chat'.phase \in {"thinking", "executing"} /\ chat'.iter = chat.iter
         /\ chat'.recent = chat.recent /\ chat'.todo = Tail(chat.todo)
         /\ chat'.invoked = Append(chat.invoked, Call) /\ chat'.next = 1
         /\ chat'.last = Outcome(Call, wrote, result, ok)
<1> DEFINE p == IF Len(chat.todo) = 1 THEN "thinking" ELSE "executing"
           t == Tail(chat.todo)
           v == Append(chat.invoked, Call)
           l == Outcome(Call, wrote, result, ok)
<1>1. chat' = [phase |-> p, files |-> chat.files, roles |-> chat.roles,
               iter |-> chat.iter, recent |-> chat.recent, todo |-> t,
               invoked |-> v, next |-> 1, wrote |-> <<>>, last |-> l]
  BY DoneFields, Zenon
<1>2. p \in {"thinking", "executing"}
  OBVIOUS
<1> HIDE DEF p, t, v, l
<1>3. /\ chat'.phase = p /\ chat'.iter = chat.iter /\ chat'.recent = chat.recent
      /\ chat'.todo = t /\ chat'.invoked = v /\ chat'.next = 1 /\ chat'.last = l
  BY <1>1
<1> QED
  BY <1>2, <1>3, Zenon DEF t, v, l

\* An answer's calls are the ones to be done; none was left.
LEMMA AsksFields ==
  ASSUME TurnFields, Asks
  PROVE  /\ chat.todo = <<>> /\ chat.iter < MaxIters /\ chat.next = 1 /\ chat.wrote = <<>>
         /\ \E calls \in Seq(Calls) :
              /\ calls # <<>> /\ ~Blocked(chat.recent, calls)
              /\ chat' = [phase |-> "executing", files |-> chat.files, roles |-> chat.roles,
                          iter |-> chat.iter + 1, recent |-> Traced(chat.recent, calls),
                          todo |-> calls, invoked |-> chat.invoked, next |-> 1,
                          wrote |-> <<>>, last |-> chat.last]
<1>1. PICK n \in 1..PerResponse[chat.iter + 1] : \E calls \in [1..n -> Calls] :
        /\ ~Blocked(chat.recent, calls)
        /\ chat' = [chat EXCEPT !.phase = "executing", !.iter = @ + 1, !.todo = calls,
                                !.recent = Traced(@, calls)]
  BY DEF Asks
<1>2. PICK calls \in [1..n -> Calls] :
        /\ ~Blocked(chat.recent, calls)
        /\ chat' = [chat EXCEPT !.phase = "executing", !.iter = @ + 1, !.todo = calls,
                                !.recent = Traced(@, calls)]
  BY <1>1
<1>3. n \in Nat \ {0}
  BY AssistantAssumption
<1>4. calls \in Seq(Calls) /\ Len(calls) = n /\ calls # <<>>
  BY <1>3
<1>5. chat.todo = <<>> /\ chat.iter < MaxIters /\ chat.next = 1 /\ chat.wrote = <<>>
  BY DEF Asks, TurnFields
<1>6. chat' = [phase |-> "executing", files |-> chat.files, roles |-> chat.roles,
               iter |-> chat.iter + 1, recent |-> Traced(chat.recent, calls),
               todo |-> calls, invoked |-> chat.invoked, next |-> 1,
               wrote |-> <<>>, last |-> chat.last]
  BY <1>2, <1>5 DEF TurnFields
<1> QED
  BY <1>2, <1>4, <1>5, <1>6

\* A batch goes on with the same call.
LEMMA GoesOnFields ==
  ASSUME TurnFields, GoesOn
  PROVE  \E n, wrote :
           \E p \in {"writing", "reading"} :
           /\ p = "writing" => InBatch(n, wrote)
           /\ p = "reading" => InReading(n, wrote)
           /\ chat' = [phase |-> p, files |-> chat.files, roles |-> chat.roles,
                       iter |-> chat.iter, recent |-> chat.recent, todo |-> chat.todo,
                       invoked |-> chat.invoked, next |-> n, wrote |-> wrote,
                       last |-> chat.last]
BY DEF GoesOn, TurnFields

\* Before the first answer there is no call.
LEMMA BeginsFields ==
  ASSUME TurnFields, Begins
  PROVE  /\ chat.todo = <<>> /\ chat.next = 1 /\ chat.wrote = <<>>
         /\ \E p \in {"routing", "setup", "thinking", "failed"} : \E files, roles :
              chat' = [phase |-> p, files |-> files, roles |-> roles,
                       iter |-> chat.iter, recent |-> chat.recent, todo |-> <<>>,
                       invoked |-> chat.invoked, next |-> 1, wrote |-> <<>>,
                       last |-> chat.last]
<1>1. chat.todo = <<>> /\ chat.next = 1 /\ chat.wrote = <<>>
  BY DEF Begins, TurnFields
<1> QED
  BY <1>1 DEF Begins, TurnFields

\* The turn's calls go when it ends.
LEMMA EndsFields ==
  ASSUME Ends
  PROVE  \E none : \E p \in {"replied", "answered", "failed", "lost"} :
           /\ none.call = NoCall
           /\ chat' = [phase |-> p, files |-> {}, roles |-> {}, iter |-> 0, recent |-> <<>>,
                       todo |-> <<>>, invoked |-> <<>>, next |-> 1, wrote |-> <<>>,
                       last |-> none]
<1> DEFINE none == Outcome(NoCall, <<>>, <<>>, FALSE)
<1>1. none.call = NoCall
  BY DEF Outcome
<1>2. PICK p \in {"replied", "answered", "failed", "lost"} : chat' = [Idle EXCEPT !.phase = p]
  BY DEF Ends, EndsAs
<1>3. Idle = [phase |-> "idle", files |-> {}, roles |-> {}, iter |-> 0, recent |-> <<>>,
              todo |-> <<>>, invoked |-> <<>>, next |-> 1, wrote |-> <<>>, last |-> none]
  BY DEF Idle
<1> HIDE DEF none
<1>4. chat' = [phase |-> p, files |-> {}, roles |-> {}, iter |-> 0, recent |-> <<>>,
               todo |-> <<>>, invoked |-> <<>>, next |-> 1, wrote |-> <<>>, last |-> none]
  BY <1>2, <1>3
<1> QED
  BY <1>1, <1>4

-----------------------------------------------------------------------------
(* The turn keeps its shape. *)

\* The fields are in use as before.
LEMMA TurnsStep ==
  ASSUME TurnFields, Batches, [TurnNext]_turnVars
  PROVE  TurnFields' /\ Batches'
<1>1. CASE UNCHANGED chat
  BY <1>1 DEF TurnFields, Batches, InBatch, InReading, Call, CallRows
<1>2. CASE Begins
  <2>1. PICK p \in {"routing", "setup", "thinking", "failed"} : \E files, roles :
          chat' = [phase |-> p, files |-> files, roles |-> roles,
                   iter |-> chat.iter, recent |-> chat.recent, todo |-> <<>>,
                   invoked |-> chat.invoked, next |-> 1, wrote |-> <<>>, last |-> chat.last]
    BY <1>2, BeginsFields
  <2> QED
    BY <2>1 DEF TurnFields, Batches
<1>3. CASE Ends
  <2>1. PICK none : \E p \in {"replied", "answered", "failed", "lost"} :
          chat' = [phase |-> p, files |-> {}, roles |-> {}, iter |-> 0, recent |-> <<>>,
                   todo |-> <<>>, invoked |-> <<>>, next |-> 1, wrote |-> <<>>,
                   last |-> none]
    BY <1>3, EndsFields
  <2>2. <<>> \in Seq(Calls)
    BY EmptySeq
  <2> QED
    BY <2>1, <2>2 DEF TurnFields, Batches
<1>4. CASE Asks
  <2>1. PICK calls \in Seq(Calls) :
          /\ calls # <<>>
          /\ chat' = [phase |-> "executing", files |-> chat.files, roles |-> chat.roles,
                      iter |-> chat.iter + 1, recent |-> Traced(chat.recent, calls),
                      todo |-> calls, invoked |-> chat.invoked, next |-> 1,
                      wrote |-> <<>>, last |-> chat.last]
    BY <1>4, AsksFields
  <2>2. Traced(chat.recent, calls) \in Seq(Calls)
    <3>1. chat.recent \o calls \in Seq(Calls)
      BY ConcatProperties DEF TurnFields
    <3> QED
      BY <3>1, WindowFacts DEF Traced
  <2> DEFINE recent == Traced(chat.recent, calls)
  <2> HIDE DEF recent
  <2>3. recent \in Seq(Calls)
    BY <2>2 DEF recent
  <2>4. chat' = [phase |-> "executing", files |-> chat.files, roles |-> chat.roles,
                 iter |-> chat.iter + 1, recent |-> recent, todo |-> calls,
                 invoked |-> chat.invoked, next |-> 1, wrote |-> <<>>, last |-> chat.last]
    BY <2>1 DEF recent
  <2> QED
    BY <2>1, <2>3, <2>4 DEF TurnFields, Batches
<1>5. CASE Closes
  <2>1. PICK wrote, result, ok : Done(wrote, result, ok)
    BY <1>5 DEF Closes
  <2> DEFINE todo == Tail(chat.todo)  invoked == Append(chat.invoked, Call)
             last == Outcome(Call, wrote, result, ok)
  <2>2. /\ chat' = [phase |-> IF Len(chat.todo) = 1 THEN "thinking" ELSE "executing",
                    files |-> chat.files, roles |-> chat.roles, iter |-> chat.iter,
                    recent |-> chat.recent, todo |-> todo, invoked |-> invoked,
                    next |-> 1, wrote |-> <<>>, last |-> last]
        /\ todo \in Seq(Calls) /\ invoked \in Seq(Calls)
        /\ Len(chat.todo) = 1 <=> todo = <<>>
    BY <1>5, <2>1, DoneFields DEF Closes
  <2> HIDE DEF todo, invoked, last
  <2> QED
    BY <2>2 DEF TurnFields, Batches
<1>6. CASE GoesOn
  <2>1. PICK n, wrote : \E p \in {"writing", "reading"} :
          /\ p = "writing" => InBatch(n, wrote)
          /\ p = "reading" => InReading(n, wrote)
          /\ chat' = [phase |-> p, files |-> chat.files, roles |-> chat.roles,
                      iter |-> chat.iter, recent |-> chat.recent, todo |-> chat.todo,
                      invoked |-> chat.invoked, next |-> n, wrote |-> wrote,
                      last |-> chat.last]
    BY <1>6, GoesOnFields
  <2>2. chat.todo # <<>> /\ Len(CallRows) \in Nat
    BY <1>6, CurrentCall DEF GoesOn
  <2>3. n \in Nat \ {0}
    BY <2>1, <2>2 DEF InBatch, InReading
  <2>4. TurnFields'
    BY <2>1, <2>2, <2>3 DEF TurnFields
  <2>5. Call' = Call /\ CallRows' = CallRows
    BY <2>1 DEF Call, CallRows
  <2>6. /\ chat'.phase = "writing" => InBatch(n, wrote)
        /\ chat'.phase = "reading" => InReading(n, wrote)
        /\ chat'.next = n /\ chat'.wrote = wrote
    BY <2>1
  <2>7. Batches'
    BY <2>5, <2>6 DEF Batches, InBatch, InReading
  <2> QED
    BY <2>4, <2>7
<1> QED
  BY <1>1, <1>2, <1>3, <1>4, <1>5, <1>6, Kinds

\* What the others change keeps its type.
LEMMA SurroundingsStep ==
  ASSUME approved \in SUBSET Partners, others \in 0..MaxOthers, [TurnNext]_turnVars
  PROVE  approved' \in SUBSET Partners /\ others' \in 0..MaxOthers
<1>1. CASE Others
  <2>1. others' \in 0..MaxOthers
    <3>1. MaxOthers \in Nat
      BY AssistantAssumption
    <3>2. others < MaxOthers /\ others' = others + 1
      BY <1>1 DEF Others
    <3> QED
      BY <3>1, <3>2
  <2>2. approved' \in SUBSET Partners
    BY <1>1 DEF Others
  <2> QED
    BY <2>1, <2>2
<1>2. ASSUME NEW files, NEW roles, Start(files, roles) PROVE UNCHANGED <<approved, others>>
  BY <1>2 DEF Start
<1>3. TurnStep \/ Dies \/ UNCHANGED turnVars => UNCHANGED <<approved, others>>
  BY DEF TurnStep, Route, Setup, Think, Exhausted, Refuse, Query, InsertOne, InsertAll, Save,
         BeginBatch, InsertNext, Reread, QueryChunk, Answer, Dies, turnVars
<1> QED
  BY <1>1, <1>2, <1>3 DEF TurnNext

\* The phases, the count of answers and the row of a batch.
LEMMA TurnTypeStep ==
  ASSUME TurnTypeOK, TurnFields, Batches, [TurnNext]_turnVars
  PROVE  TurnTypeOK'
<1>1. approved' \in SUBSET Partners /\ others' \in 0..MaxOthers
  BY SurroundingsStep DEF TurnTypeOK
<1>2. MaxIters \in Nat /\ chat.iter \in 0..MaxIters
  BY AssistantAssumption DEF TurnTypeOK
<1>3. CASE UNCHANGED chat
  BY <1>1, <1>3 DEF TurnTypeOK, Call, CallRows
<1>4. CASE Begins
  <2>1. PICK p \in {"routing", "setup", "thinking", "failed"} : \E files, roles :
          chat' = [phase |-> p, files |-> files, roles |-> roles,
                   iter |-> chat.iter, recent |-> chat.recent, todo |-> <<>>,
                   invoked |-> chat.invoked, next |-> 1, wrote |-> <<>>, last |-> chat.last]
    BY <1>4, BeginsFields
  <2> QED
    BY <1>1, <1>2, <2>1 DEF TurnTypeOK
<1>5. CASE Ends
  BY <1>1, <1>2, <1>5, EndsFields DEF TurnTypeOK
<1>6. CASE Asks
  BY <1>1, <1>2, <1>6, AsksFields DEF TurnTypeOK
<1>7. CASE Closes
  <2>1. PICK wrote, result, ok : Done(wrote, result, ok)
    BY <1>7 DEF Closes
  <2>2. /\ chat'.phase \in {"thinking", "executing"}
        /\ chat'.iter = chat.iter /\ chat'.next = 1
    BY <1>7, <2>1, DoneChanges DEF Closes
  <2> QED
    BY <1>1, <1>2, <2>2 DEF TurnTypeOK
<1>8. CASE GoesOn
  <2>1. /\ chat'.phase \in {"writing", "reading"} /\ chat'.iter = chat.iter
        /\ chat'.todo = chat.todo /\ chat'.next \in 1..Len(CallRows)
    BY <1>8, GoesOnFields DEF InBatch, InReading
  <2> QED
    BY <1>1, <1>2, <2>1 DEF TurnTypeOK, Call, CallRows
<1> QED
  BY <1>3, <1>4, <1>5, <1>6, <1>7, <1>8, Kinds

\* The types and the shape hold in every state.
LEMMA InitTurn == TurnInit => TurnTypeOK /\ TurnFields /\ Batches
<1> SUFFICES ASSUME TurnInit PROVE TurnTypeOK /\ TurnFields /\ Batches
  OBVIOUS
<1>1. <<>> \in Seq(Calls) /\ MaxIters \in Nat /\ MaxOthers \in Nat
  BY EmptySeq, AssistantAssumption
<1>2. TurnFields /\ Batches
  BY <1>1 DEF TurnInit, Idle, TurnFields, Batches
<1>3. TurnTypeOK
  BY <1>1 DEF TurnInit, Idle, TurnTypeOK
<1> QED
  BY <1>2, <1>3

LEMMA TurnsAlways == TurnSpec => [](TurnTypeOK /\ TurnFields /\ Batches)
<1>1. TurnTypeOK /\ TurnFields /\ Batches /\ [TurnNext]_turnVars => (TurnTypeOK /\ TurnFields /\ Batches)'
  BY TurnsStep, TurnTypeStep
<1> QED
  BY <1>1, InitTurn, PTL DEF TurnSpec

-----------------------------------------------------------------------------
(* No runaway. *)

\* No rule is broken after any of the calls.
Quiet(calls) ==
  \A n \in 1..Len(calls) : ~Repeats(SubSeq(calls, 1, n)) /\ ~Flips(SubSeq(calls, 1, n))

\* The calls of the turn that were let through: the trace is their window.
LetThrough == chat.invoked \o chat.todo
Traces == chat.recent = Window(LetThrough) /\ Quiet(LetThrough)

\* A part of a sequence up to the end is in it.
LEMMA FirstCalls ==
  ASSUME NEW s \in Seq(Calls), NEW n \in 1..Len(s)
  PROVE  /\ SubSeq(s, 1, n) \in Seq(Calls) /\ Len(SubSeq(s, 1, n)) = n
         /\ \A i \in 1..n : SubSeq(s, 1, n)[i] = s[i]
<1>1. Len(s) \in Nat /\ n \in Nat \ {0} /\ \A i \in 1..n : s[i] \in Calls
  BY LenProperties, ElementOfSeq
<1>2. /\ SubSeq(s, 1, n) \in Seq(Calls)
      /\ Len(SubSeq(s, 1, n)) = IF 1 <= n THEN n - 1 + 1 ELSE 0
      /\ \A i \in 1..(n - 1 + 1) : SubSeq(s, 1, n)[i] = s[1 + i - 1]
  BY <1>1, SubSeqProperties
<1> QED
  BY <1>1, <1>2

\* A part that ends in the second sequence.
LEMMA PartOfConcat ==
  ASSUME NEW a \in Seq(Calls), NEW b \in Seq(Calls), NEW k \in 1..Len(b)
  PROVE  SubSeq(a \o b, 1, Len(a) + k) = a \o SubSeq(b, 1, k)
<1>1. Len(a) \in Nat /\ Len(b) \in Nat
  BY LenProperties
<1>2. /\ a \o b \in Seq(Calls) /\ Len(a \o b) = Len(a) + Len(b)
      /\ \A i \in 1..(Len(a) + Len(b)) :
           (a \o b)[i] = IF i <= Len(a) THEN a[i] ELSE b[i - Len(a)]
  BY ConcatProperties
<1> DEFINE part == SubSeq(b, 1, k)  l == SubSeq(a \o b, 1, Len(a) + k)
<1>3. part \in Seq(Calls) /\ Len(part) = k /\ \A i \in 1..k : part[i] = b[i]
  BY FirstCalls
<1>4. l \in Seq(Calls) /\ Len(l) = Len(a) + k /\ \A i \in 1..(Len(a) + k) : l[i] = (a \o b)[i]
  <2>1. Len(a) + k \in 1..Len(a \o b)
    BY <1>1, <1>2
  <2> QED
    BY <1>2, <2>1, FirstCalls
<1> HIDE DEF part, l
<1>5. /\ a \o part \in Seq(Calls) /\ Len(a \o part) = Len(a) + k
      /\ \A i \in 1..(Len(a) + k) :
           (a \o part)[i] = IF i <= Len(a) THEN a[i] ELSE part[i - Len(a)]
  <2>1. /\ a \o part \in Seq(Calls) /\ Len(a \o part) = Len(a) + Len(part)
        /\ \A i \in 1..(Len(a) + Len(part)) :
             (a \o part)[i] = IF i <= Len(a) THEN a[i] ELSE part[i - Len(a)]
    BY <1>3, ConcatProperties
  <2> QED
    BY <1>3, <2>1
<1>6. ASSUME NEW i \in 1..(Len(a) + k) PROVE l[i] = (a \o part)[i]
  <2>1. i \in 1..(Len(a) + Len(b)) /\ (i > Len(a) => i - Len(a) \in 1..k)
    BY <1>1
  <2>2. l[i] = IF i <= Len(a) THEN a[i] ELSE b[i - Len(a)]
    BY <1>2, <1>4, <2>1
  <2>3. (a \o part)[i] = IF i <= Len(a) THEN a[i] ELSE part[i - Len(a)]
    BY <1>5
  <2> QED
    BY <1>1, <1>3, <2>1, <2>2, <2>3
<1>7. l = a \o part
  BY <1>4, <1>5, <1>6, SeqEqual
<1> QED
  BY <1>7 DEF l, part

\* An answer that is let through breaks no rule after any of its calls.
LEMMA QuietConcat ==
  ASSUME NEW a \in Seq(Calls), NEW b \in Seq(Calls), Quiet(a), ~Blocked(Window(a), b)
  PROVE  Quiet(a \o b)
<1>1. Len(a) \in Nat /\ Len(b) \in Nat /\ Len(a \o b) = Len(a) + Len(b)
  BY LenProperties, ConcatProperties
<1>2. ASSUME NEW n \in 1..Len(a \o b)
      PROVE  ~Repeats(SubSeq(a \o b, 1, n)) /\ ~Flips(SubSeq(a \o b, 1, n))
  <2>1. CASE n <= Len(a)
    <3>1. n \in 1..Len(a) /\ 1 \in 1..Len(a)
      BY <1>1, <2>1
    <3>2. SubSeq(a \o b, 1, n) = SubSeq(a, 1, n)
      BY <3>1, SubSeqOfConcat1
    <3>3. ~Repeats(SubSeq(a, 1, n)) /\ ~Flips(SubSeq(a, 1, n))
      BY <3>1 DEF Quiet
    <3> QED
      BY <3>2, <3>3
  <2>2. CASE n > Len(a)
    <3> DEFINE k == n - Len(a)  part == SubSeq(b, 1, k)
    <3>1. k \in 1..Len(b) /\ n = Len(a) + k
      BY <1>1, <2>2
    <3> HIDE DEF k
    <3>2. part \in Seq(Calls)
      BY <3>1, FirstCalls
    <3>3. SubSeq(a \o b, 1, n) = a \o part
      BY <3>1, PartOfConcat
    <3>4. a \o part \in Seq(Calls)
      BY <3>2, ConcatProperties
    <3>5. ~Repeats(Traced(Window(a), part)) /\ ~Flips(Traced(Window(a), part))
      BY <3>1 DEF Blocked
    <3>6. Traced(Window(a), part) = Window(a \o part)
      BY <3>2, WindowOfConcat DEF Traced
    <3>7. ~Repeats(a \o part) /\ ~Flips(a \o part)
      BY <3>4, <3>5, <3>6, RulesSeeTheWindow
    <3> QED
      BY <3>3, <3>7
  <2> QED
    BY <1>1, <2>1, <2>2
<1> QED
  BY <1>2 DEF Quiet

\* What is let through is quiet, and its window is the trace.
LEMMA TracesStep ==
  ASSUME TurnFields, Batches, Traces, [TurnNext]_turnVars
  PROVE  Traces'
<1>1. CASE UNCHANGED chat
  BY <1>1 DEF Traces, LetThrough
<1>2. CASE Begins
  <2>1. /\ chat'.recent = chat.recent /\ chat'.todo = chat.todo
        /\ chat'.invoked = chat.invoked
    BY <1>2, BeginsFields
  <2> QED
    BY <2>1 DEF Traces, LetThrough
<1>3. CASE Ends
  <2>1. chat'.recent = <<>> /\ chat'.todo = <<>> /\ chat'.invoked = <<>>
    BY <1>3, EndsFields
  <2>2. LetThrough' = <<>>
    BY <2>1, ConcatEmptySeq, EmptySeq DEF LetThrough
  <2>3. Window(<<>>) = <<>>
    BY AssistantAssumption DEF Window
  <2>4. Quiet(<<>>)
    BY DEF Quiet
  <2> QED
    BY <2>1, <2>2, <2>3, <2>4 DEF Traces
<1>4. CASE Asks
  <2>1. PICK calls \in Seq(Calls) :
          /\ ~Blocked(chat.recent, calls)
          /\ chat'.recent = Traced(chat.recent, calls) /\ chat'.todo = calls
          /\ chat'.invoked = chat.invoked
    BY <1>4, AsksFields
  <2>2. chat.todo = <<>> /\ chat.invoked \in Seq(Calls)
    BY <1>4, AsksFields DEF TurnFields
  <2>3. LetThrough = chat.invoked /\ LetThrough' = chat.invoked \o calls
    BY <2>1, <2>2, ConcatEmptySeq DEF LetThrough
  <2>4. chat.recent = Window(chat.invoked) /\ Quiet(chat.invoked)
    BY <2>3 DEF Traces
  <2>5. chat'.recent = Window(chat.invoked \o calls)
    BY <2>1, <2>2, <2>4, WindowOfConcat DEF Traced
  <2>6. Quiet(chat.invoked \o calls)
    BY <2>1, <2>2, <2>4, QuietConcat
  <2> QED
    BY <2>3, <2>5, <2>6 DEF Traces
<1>5. CASE Closes
  <2>1. PICK wrote, result, ok : Done(wrote, result, ok)
    BY <1>5 DEF Closes
  <2>2. /\ chat'.recent = chat.recent /\ chat'.todo = Tail(chat.todo)
        /\ chat'.invoked = Append(chat.invoked, Call)
        /\ Append(chat.invoked, Call) \o Tail(chat.todo) = chat.invoked \o chat.todo
    BY <1>5, <2>1, DoneFields, DoneChanges DEF Closes
  <2> QED
    BY <2>2 DEF Traces, LetThrough
<1>6. CASE GoesOn
  <2>1. /\ chat'.recent = chat.recent /\ chat'.todo = chat.todo
        /\ chat'.invoked = chat.invoked
    BY <1>6, GoesOnFields
  <2> QED
    BY <2>1 DEF Traces, LetThrough
<1> QED
  BY <1>1, <1>2, <1>3, <1>4, <1>5, <1>6, Kinds

\* What was executed is the first part of what was let through.
LEMMA TracesGiveNoRunaway == TurnFields /\ Traces => NoRunaway
<1> SUFFICES ASSUME TurnFields, Traces, NEW n \in 1..Len(chat.invoked)
             PROVE  ~Repeats(SubSeq(chat.invoked, 1, n)) /\ ~Flips(SubSeq(chat.invoked, 1, n))
  BY DEF NoRunaway
<1>1. chat.invoked \in Seq(Calls) /\ chat.todo \in Seq(Calls)
  BY DEF TurnFields
<1>2. /\ Len(chat.invoked) \in Nat /\ Len(chat.todo) \in Nat
      /\ Len(LetThrough) = Len(chat.invoked) + Len(chat.todo)
  BY <1>1, ConcatProperties, LenProperties DEF LetThrough
<1>3. n \in 1..Len(LetThrough) /\ 1 \in 1..Len(chat.invoked)
  <2>1. n \in 1..Len(chat.invoked)
    OBVIOUS
  <2> DEFINE x == Len(chat.invoked)  y == Len(chat.todo)  z == Len(LetThrough)
  <2>2. x \in Nat /\ y \in Nat /\ z = x + y /\ n \in 1..x
    BY <1>2, <2>1
  <2> HIDE DEF x, y, z
  <2>3. n \in 1..z /\ 1 \in 1..x
    BY <2>2
  <2> QED
    BY <2>3 DEF x, z
<1>4. SubSeq(LetThrough, 1, n) = SubSeq(chat.invoked, 1, n)
  BY <1>1, <1>3, SubSeqOfConcat1 DEF LetThrough
<1> QED
  BY <1>3, <1>4 DEF Traces, Quiet

-----------------------------------------------------------------------------
(* What a call came to. *)

\* Only the end of a call changes what the last one came to, and the end of the turn,
\* which forgets it.
LEMMA ToldStep ==
  ASSUME ToldWhatWasWritten, TurnFields, Batches, [TurnNext]_turnVars
  PROVE  ToldWhatWasWritten'
<1>1. CASE chat'.last = chat.last
  BY <1>1 DEF ToldWhatWasWritten
<1>2. CASE Closes
  <2>1. PICK wrote, result, ok : Truthful(Call, wrote, result, ok) /\ Done(wrote, result, ok)
    BY <1>2 DEF Closes
  <2>2. chat'.last = Outcome(Call, wrote, result, ok)
    BY <1>2, <2>1, DoneChanges DEF Closes
  <2>3. /\ chat'.last.call = Call /\ chat'.last.wrote = wrote /\ chat'.last.result = result
        /\ chat'.last.ok = ok
    BY <2>2 DEF Outcome
  <2> QED
    BY <2>1, <2>3 DEF ToldWhatWasWritten, Truthful, Told
<1>3. CASE Ends
  <2>1. chat'.last.call = NoCall
    BY <1>3, EndsFields DEF Outcome
  <2> QED
    BY <2>1 DEF ToldWhatWasWritten
<1>4. UNCHANGED chat \/ Begins \/ Asks \/ GoesOn => chat'.last = chat.last
  BY BeginsFields, AsksFields, GoesOnFields
<1> QED
  BY <1>1, <1>2, <1>3, <1>4, Kinds

-----------------------------------------------------------------------------
\* Type correctness of the turn: its phases, the count of the model's answers and
\* the row a batch is at.
THEOREM TurnTypeCorrect == TurnSpec => []TurnTypeOK
BY TurnsAlways, PTL

\* Among the calls executed in a turn there are never maxRepeatExact identical ones in a row,
\* nor maxRepeatPage of one tool with pages that grow where the code looks at the tool's name
\* (FlipNames; bom_list and logistics_history are not), however the model spreads them over
\* its answers and whatever the window forgets.
THEOREM NeverRunsAway == TurnSpec => []NoRunaway
<1>1. TurnInit => Traces
  <2> SUFFICES ASSUME TurnInit PROVE Traces
    OBVIOUS
  <2>1. chat.recent = <<>> /\ chat.todo = <<>> /\ chat.invoked = <<>>
    BY DEF TurnInit, Idle
  <2>2. LetThrough = <<>>
    BY <2>1, ConcatEmptySeq, EmptySeq DEF LetThrough
  <2>3. Window(<<>>) = <<>>
    BY AssistantAssumption DEF Window
  <2>4. Quiet(<<>>)
    BY DEF Quiet
  <2> QED
    BY <2>1, <2>2, <2>3, <2>4 DEF Traces
<1>2. TurnFields /\ Batches /\ Traces /\ [TurnNext]_turnVars => Traces'
  BY TracesStep
<1>3. TurnFields /\ Traces => NoRunaway
  BY TracesGiveNoRunaway
<1> QED
  BY <1>1, <1>2, <1>3, TurnsAlways, PTL DEF TurnSpec

\* What a call of a creating tool came to, for batches of any length and whatever other users
\* change between two rows of one: all rows on success; on an error none of master data, and of
\* orders the first ones, at most one more than the tool returns: the row whose reading back
\* failed (Create, CreateBatch); and the rows the model is told of are the ones written (executeTool).
THEOREM ToldIsWritten == TurnSpec => []ToldWhatWasWritten
<1>1. TurnInit => ToldWhatWasWritten
  BY DEF TurnInit, Idle, Outcome, ToldWhatWasWritten
<1>2. ToldWhatWasWritten /\ TurnFields /\ Batches /\ [TurnNext]_turnVars => ToldWhatWasWritten'
  BY ToldStep
<1> QED
  BY <1>1, <1>2, TurnsAlways, PTL DEF TurnSpec

-----------------------------------------------------------------------------
(* What a recursion computes. Induction is over a set of numbers, which has a least element
   outside it: WFMin of the library, on the order of inclusion. *)

\* A set of numbers that is not empty has a least one.
LEMMA LeastNat ==
  ASSUME NEW Bad \in SUBSET Nat, Bad # {}
  PROVE  \E n \in Bad : \A m \in Bad : n <= m
<1>1. PICK b \in Bad : TRUE
  OBVIOUS
<1> DEFINE S == 0..b
           R == StrictSubsetOrdering(S)
           T == {s \in SUBSET S : \E k \in Bad : k <= b /\ s = 0..k}
<1>2. IsWellFoundedOn(R, SUBSET S)
  <2>1. 0 \in Int /\ b \in Int
    OBVIOUS
  <2>2. IsFiniteSet(S)
    BY <2>1, FS_Interval
  <2> HIDE DEF S
  <2> QED BY <2>2, FS_StrictSubsetOrderingWellFounded, FS_FiniteSubsetsOfFinite
<1>3. T # {} /\ T \subseteq SUBSET S
  <2>1. S \in SUBSET S /\ b <= b
    OBVIOUS
  <2>2. S \in T
    BY <2>1
  <2> QED BY <2>2
<1>4. PICK s \in T : \A t \in T : <<t, s>> \notin R
  <2> HIDE DEF R, S, T
  <2> QED BY <1>2, <1>3, WFMin
<1>5. PICK n \in Bad : n <= b /\ s = 0..n
  BY <1>4
<1>6. ASSUME NEW m \in Bad, m < n PROVE FALSE
  <2>1. m \in Nat /\ n \in Nat /\ b \in Nat /\ m <= b
    BY <1>5, <1>6
  <2>2. 0..m \in T
    BY <2>1
  <2>3. 0..m \subseteq 0..n /\ 0..m # 0..n
    <3>1. n \in 0..n /\ n \notin 0..m
      BY <1>6, <2>1
    <3> QED BY <3>1, <2>1, <1>6
  <2>4. <<0..m, s>> \in R
    <3>1. s \in SUBSET S /\ 0..m \in SUBSET S
      BY <2>2
    <3> QED BY <3>1, <2>3, <1>5 DEF StrictSubsetOrdering
  <2> QED BY <2>2, <2>4, <1>4
<1> QED BY <1>6

\* Induction up to k, on a set of numbers.
LEMMA SetInduction ==
  ASSUME NEW k \in Nat, NEW Good, 0 \in Good, \A i \in 1..k : i - 1 \in Good => i \in Good
  PROVE  \A i \in 0..k : i \in Good
<1> SUFFICES ASSUME NEW i \in 0..k, i \notin Good PROVE FALSE
  OBVIOUS
<1> DEFINE Bad == {j \in 0..k : j \notin Good}
<1>1. Bad \in SUBSET Nat /\ Bad # {}
  OBVIOUS
<1>2. PICK n \in Bad : \A m \in Bad : n <= m
  <2> HIDE DEF Bad
  <2> QED BY <1>1, LeastNat
<1>3. n # 0 /\ n \in 1..k
  BY <1>2
<1>4. n - 1 \in Good
  <2>1. n - 1 \in 0..k /\ ~(n <= n - 1)
    BY <1>3
  <2> QED BY <2>1, <1>2
<1> QED BY <1>3, <1>4, <1>2

\* The greatest of the numbers up to n.
LEMMA GreatestNat ==
  ASSUME NEW n \in Nat, NEW S \in SUBSET (0..n), S # {}
  PROVE  Max(S) \in S /\ \A m \in S : m <= Max(S)
<1> DEFINE D == {d \in 0..n : n - d \in S}
<1>1. D \in SUBSET Nat /\ D # {}
  <2>1. PICK m \in S : TRUE
    OBVIOUS
  <2>2. n - m \in 0..n /\ n - (n - m) = m
    BY <2>1
  <2> QED BY <2>1, <2>2
<1>2. PICK d \in D : \A e \in D : d <= e
  <2> HIDE DEF D
  <2> QED BY <1>1, LeastNat
<1>3. n - d \in S /\ \A m \in S : n - d >= m
  <2>1. ASSUME NEW m \in S PROVE n - d >= m
    <3>1. n - m \in 0..n /\ n - (n - m) = m /\ m \in Nat
      OBVIOUS
    <3>2. d <= n - m /\ d \in Nat
      BY <1>2, <3>1
    <3> QED BY <3>1, <3>2
  <2> QED BY <1>2, <2>1
<1> QED BY <1>3, Zenon DEF Max

\* f is what the steps make of s0, one after another.
Follows(f, n, D, s0, step) ==
  /\ f \in [0..n -> D]
  /\ f[0] = s0
  /\ \A i \in 1..n : f[i] = step[<<i, f[i - 1]>>]

\* A function defined by recursion over 0..n exists.
LEMMA RecursionExists ==
  ASSUME NEW n \in Nat, NEW D, NEW s0 \in D, NEW step \in [(1..n) \X D -> D]
  PROVE  \E f : Follows(f, n, D, s0, step)
<1> DEFINE Good == {k \in 0..n : \E f : Follows(f, k, D, s0, step)}
<1>1. 0 \in Good
  <2> DEFINE f == [i \in 0..0 |-> s0]
  <2>1. f \in [0..0 -> D] /\ f[0] = s0 /\ \A i \in 1..0 : f[i] = step[<<i, f[i - 1]>>]
    OBVIOUS
  <2> HIDE DEF f
  <2>2. Follows(f, 0, D, s0, step)
    BY <2>1 DEF Follows
  <2> QED BY <2>2
<1>2. ASSUME NEW k \in 1..n, k - 1 \in Good PROVE k \in Good
  <2>1. PICK f : Follows(f, k - 1, D, s0, step)
    BY <1>2
  <2>a. /\ f \in [0..(k - 1) -> D] /\ f[0] = s0
        /\ \A i \in 1..(k - 1) : f[i] = step[<<i, f[i - 1]>>]
    BY <2>1 DEF Follows
  <2> DEFINE g == [i \in 0..k |-> IF i = k THEN step[<<k, f[k - 1]>>] ELSE f[i]]
  <2>2. g \in [0..k -> D]
    BY <2>a
  <2>3. g[0] = s0
    BY <2>a
  <2>4. ASSUME NEW i \in 1..k PROVE g[i] = step[<<i, g[i - 1]>>]
    <3>1. i - 1 \in 0..(k - 1) /\ i - 1 # k
      OBVIOUS
    <3>2. g[i - 1] = f[i - 1]
      BY <3>1
    <3>3. CASE i = k
      <4>1. g[k] = step[<<k, f[k - 1]>>]
        OBVIOUS
      <4> HIDE DEF g
      <4> QED BY <4>1, <3>2, <3>3
    <3>4. CASE i # k
      <4>1. i \in 1..(k - 1)
        BY <3>4
      <4>2. f[i] = step[<<i, f[i - 1]>>]
        BY <4>1, <2>a
      <4>3. g[i] = f[i]
        BY <3>4
      <4> HIDE DEF g
      <4> QED BY <4>2, <4>3, <3>2
    <3> QED BY <3>3, <3>4
  <2> HIDE DEF g
  <2>5. Follows(g, k, D, s0, step)
    BY <2>2, <2>3, <2>4 DEF Follows
  <2> QED BY <2>5
<1>3. \A i \in 0..n : i \in Good
  <2> HIDE DEF Good
  <2> QED BY <1>1, <1>2, SetInduction
<1> QED BY <1>3

-----------------------------------------------------------------------------
(* Lines, by their places in the file. *)

\* A line of the file can start after p bytes.
Boundary(b, p) == p = 0 \/ (p \in 1..Len(b) /\ b[p] = NewLine)

\* The text s, with no newline in it, starts after p bytes.
Piece(b, p, s) ==
  /\ Boundary(b, p)
  /\ p + Len(s) <= Len(b)
  /\ \A j \in 1..Len(s) : b[p + j] = s[j] /\ s[j] # NewLine

\* What Split has made of the first i bytes: complete lines, then the rest; every newline
\* ends a line.
SplitInv(b, i, lines) ==
  /\ lines \in Seq(Seq(Bytes)) /\ Len(lines) >= 1
  /\ \A k \in 1..Len(lines) : k < Len(lines) =>
       \E p \in 0..Len(b) : /\ Piece(b, p, lines[k])
                            /\ p + Len(lines[k]) + 1 <= i
                            /\ b[p + Len(lines[k]) + 1] = NewLine
  /\ Len(lines[Len(lines)]) <= i
  /\ Piece(b, i - Len(lines[Len(lines)]), lines[Len(lines)])
  /\ \A q \in 1..i : b[q] = NewLine =>
       \E k \in 1..Len(lines) : /\ k < Len(lines)
                                /\ Len(lines[k]) + 1 <= q
                                /\ Piece(b, q - Len(lines[k]) - 1, lines[k])

\* One byte more, as the recursion of Split takes it.
SplitByte(lines, byte) ==
  IF byte = NewLine THEN Append(lines, <<>>)
  ELSE [lines EXCEPT ![Len(lines)] = Append(@, byte)]

IsSplit(f, b) ==
  f = [i \in 0..Len(b) |-> IF i = 0 THEN << <<>> >> ELSE SplitByte(f[i - 1], b[i])]

\* Splits of a file have at least one piece.
Pieces == {lines \in Seq(Seq(Bytes)) : Len(lines) >= 1}

\* One byte more: a newline starts a piece, any other byte is added to the last one.
LEMMA SplitByteFacts ==
  ASSUME NEW lines \in Pieces, NEW byte \in Bytes
  PROVE  /\ SplitByte(lines, byte) \in Pieces
         /\ byte = NewLine =>
              /\ Len(SplitByte(lines, byte)) = Len(lines) + 1
              /\ \A k \in 1..Len(lines) : SplitByte(lines, byte)[k] = lines[k]
              /\ SplitByte(lines, byte)[Len(lines) + 1] = <<>>
         /\ byte # NewLine =>
              /\ Len(SplitByte(lines, byte)) = Len(lines)
              /\ \A k \in 1..Len(lines) : k < Len(lines) => SplitByte(lines, byte)[k] = lines[k]
              /\ SplitByte(lines, byte)[Len(lines)] = Append(lines[Len(lines)], byte)
<1>0. lines \in Seq(Seq(Bytes)) /\ Len(lines) \in Nat /\ Len(lines) >= 1
  BY DEF Pieces
<1>1. CASE byte = NewLine
  <2>1. <<>> \in Seq(Bytes)
    OBVIOUS
  <2>2. SplitByte(lines, byte) = Append(lines, <<>>)
    BY <1>1 DEF SplitByte
  <2>3. /\ Append(lines, <<>>) \in Seq(Seq(Bytes)) /\ Len(Append(lines, <<>>)) = Len(lines) + 1
        /\ \A k \in 1..Len(lines) : Append(lines, <<>>)[k] = lines[k]
        /\ Append(lines, <<>>)[Len(lines) + 1] = <<>>
    BY <2>1, <1>0, AppendProperties
  <2>4. Append(lines, <<>>) \in Pieces
    BY <2>3, <1>0 DEF Pieces
  <2> QED BY <1>1, <2>2, <2>3, <2>4
<1>2. CASE byte # NewLine
  <2> DEFINE n == Len(lines)
             e == Append(lines[n], byte)
             r == [lines EXCEPT ![n] = e]
  <2>1. n \in 1..n /\ lines[n] \in Seq(Bytes)
    BY <1>0
  <2>2. e \in Seq(Bytes)
    BY <2>1
  <2>3. SplitByte(lines, byte) = r
    BY <1>2 DEF SplitByte
  <2>4. r \in Seq(Seq(Bytes)) /\ Len(r) = n /\ \A j \in 1..n : r[j] = IF j = n THEN e ELSE lines[j]
    <3> HIDE DEF e
    <3> QED BY <1>0, <2>1, <2>2, ExceptSeq
  <2> HIDE DEF r
  <2>5. r \in Pieces
    BY <2>4, <1>0 DEF Pieces
  <2>6. r[n] = e /\ \A k \in 1..n : k < n => r[k] = lines[k]
    <3> HIDE DEF e
    <3> QED BY <2>4, <2>1, <1>0
  <2> QED BY <1>2, <2>3, <2>4, <2>5, <2>6
<1> QED BY <1>1, <1>2

\* Split is what the recursion over the bytes of the file comes to.
LEMMA SplitExists ==
  ASSUME NEW b \in Seq(Bytes)
  PROVE  \E f : IsSplit(f, b) /\ Split(b) = f[Len(b)]
<1>1. << <<>> >> \in Pieces
  <2>1. <<>> \in Seq(Bytes)
    OBVIOUS
  <2> QED BY <2>1 DEF Pieces
<1> DEFINE n == Len(b)
           D == Pieces
           s0 == << <<>> >>
           step == [x \in (1..n) \X D |-> SplitByte(x[2], b[x[1]])]
<1>2. n \in Nat /\ \A i \in 1..n : b[i] \in Bytes
  OBVIOUS
<1>3. step \in [(1..n) \X D -> D]
  <2> HIDE DEF n
  <2> QED BY <1>2, SplitByteFacts
<1>4. PICK f : Follows(f, n, D, s0, step)
  <2>1. s0 \in D
    BY <1>1
  <2> HIDE DEF step, s0, n, D
  <2> QED BY <2>1, <1>2, <1>3, RecursionExists
<1>5. /\ f \in [0..n -> D] /\ f[0] = s0
      /\ \A i \in 1..n : f[i] = step[<<i, f[i - 1]>>]
  BY <1>4 DEF Follows
<1>6. ASSUME NEW i \in 1..n PROVE f[i] = SplitByte(f[i - 1], b[i])
  <2>1. i - 1 \in 0..n
    BY <1>2
  <2>2. <<i, f[i - 1]>> \in (1..n) \X D
    BY <2>1, <1>5
  <2>3. step[<<i, f[i - 1]>>] = SplitByte(f[i - 1], b[i])
    BY <2>2
  <2> QED BY <2>3, <1>5
<1>7. IsSplit(f, b)
  <2>1. ASSUME NEW i \in 0..n PROVE f[i] = IF i = 0 THEN << <<>> >> ELSE SplitByte(f[i - 1], b[i])
    <3>1. i = 0 \/ i \in 1..n
      BY <1>2
    <3> QED BY <3>1, <1>5, <1>6
  <2>2. DOMAIN f = 0..n
    BY <1>5
  <2>3. f = [i \in 0..n |-> f[i]]
    BY <1>5
  <2> HIDE DEF step, s0, D
  <2>4. [i \in 0..n |-> f[i]] =
        [i \in 0..n |-> IF i = 0 THEN << <<>> >> ELSE SplitByte(f[i - 1], b[i])]
    BY <2>1
  <2> QED BY <2>3, <2>4 DEF IsSplit
<1> DEFINE g == CHOOSE h : h = [i \in 0..Len(b) |->
                   IF i = 0 THEN << <<>> >>
                   ELSE IF b[i] = NewLine THEN Append(h[i - 1], <<>>)
                        ELSE [h[i - 1] EXCEPT ![Len(h[i - 1])] = Append(@, b[i])]]
<1>8. Split(b) = g[Len(b)]
  BY Zenon DEF Split
<1>9. IsSplit(g, b)
  BY <1>7, Zenon DEF IsSplit, SplitByte
<1> HIDE DEF g
<1> QED BY <1>8, <1>9

\* What Split has made of some bytes, and one byte more.
LEMMA SplitInvStep ==
  ASSUME NEW b \in Seq(Bytes), NEW i \in 1..Len(b), NEW lines, SplitInv(b, i - 1, lines)
  PROVE  SplitInv(b, i, SplitByte(lines, b[i]))
<1> DEFINE n == Len(lines)
           last == lines[n]
           p == i - 1 - Len(last)
           r == SplitByte(lines, b[i])
<1>1. /\ lines \in Pieces /\ n \in Nat /\ n >= 1 /\ n \in 1..n /\ last \in Seq(Bytes)
      /\ Len(last) \in Nat
  <2>1. lines \in Pieces
    BY DEF SplitInv, Pieces
  <2> QED BY <2>1 DEF Pieces
<1>2. b[i] \in Bytes /\ i \in Nat /\ Len(b) \in Nat /\ 1 <= i /\ i <= Len(b)
  OBVIOUS
<1>3. Len(last) <= i - 1 /\ Piece(b, p, last) /\ p \in 0..Len(b)
  <2>1. Len(last) <= i - 1 /\ Piece(b, p, last)
    BY DEF SplitInv
  <2> HIDE DEF last
  <2> QED BY <2>1, <1>1, <1>2
<1>4. ASSUME NEW k \in 1..n, k < n
      PROVE  \E o \in 0..Len(b) : /\ Piece(b, o, lines[k])
                                  /\ o + Len(lines[k]) + 1 <= i - 1
                                  /\ b[o + Len(lines[k]) + 1] = NewLine
  BY <1>4 DEF SplitInv
<1>5. ASSUME NEW q \in 1..(i - 1), b[q] = NewLine
      PROVE  \E k \in 1..n : k < n /\ Len(lines[k]) + 1 <= q
                             /\ Piece(b, q - Len(lines[k]) - 1, lines[k])
  BY <1>5 DEF SplitInv
<1>6. CASE b[i] = NewLine
  <2>1. /\ r \in Pieces /\ Len(r) = n + 1
        /\ \A k \in 1..n : r[k] = lines[k]
        /\ r[n + 1] = <<>>
    BY <1>1, <1>2, <1>6, SplitByteFacts
  <2> HIDE DEF r
  <2>2. ASSUME NEW k \in 1..(n + 1), k < n + 1
        PROVE  \E o \in 0..Len(b) : /\ Piece(b, o, r[k])
                                    /\ o + Len(r[k]) + 1 <= i
                                    /\ b[o + Len(r[k]) + 1] = NewLine
    <3>1. k \in 1..n /\ r[k] = lines[k]
      BY <2>1, <2>2, <1>1
    <3>2. CASE k < n
      <4>1. PICK o \in 0..Len(b) : /\ Piece(b, o, lines[k])
                                   /\ o + Len(lines[k]) + 1 <= i - 1
                                   /\ b[o + Len(lines[k]) + 1] = NewLine
        BY <3>1, <3>2, <1>4
      <4>2. Len(lines[k]) \in Nat
        BY <3>1, <1>1 DEF Pieces
      <4> QED BY <4>1, <4>2, <3>1, <1>2
    <3>3. CASE ~(k < n)
      <4>1. k = n
        BY <3>1, <3>3, <1>1
      <4>2. r[k] = last
        BY <4>1, <3>1
      <4>3. p + Len(last) + 1 = i
        BY <1>1, <1>2
      <4> HIDE DEF p, last
      <4> QED BY <4>2, <4>3, <1>3, <1>6, <1>2
    <3> QED BY <3>2, <3>3
  <2>3. Piece(b, i - 0, <<>>)
    BY <1>2, <1>6 DEF Piece, Boundary
  <2>4. ASSUME NEW q \in 1..i, b[q] = NewLine
        PROVE  \E k \in 1..(n + 1) : k < n + 1 /\ Len(r[k]) + 1 <= q
                                     /\ Piece(b, q - Len(r[k]) - 1, r[k])
    <3>1. CASE q = i
      <4>1. n \in 1..(n + 1) /\ n < n + 1 /\ r[n] = last
        BY <2>1, <1>1
      <4>2. q - Len(last) - 1 = p /\ Len(last) + 1 <= q
        BY <3>1, <1>1, <1>2, <1>3
      <4> HIDE DEF p, last
      <4> QED BY <4>1, <4>2, <1>3
    <3>2. CASE q # i
      <4>1. q \in 1..(i - 1)
        BY <3>2, <1>2
      <4>2. PICK k \in 1..n : k < n /\ Len(lines[k]) + 1 <= q
                             /\ Piece(b, q - Len(lines[k]) - 1, lines[k])
        BY <4>1, <2>4, <1>5
      <4>3. k \in 1..(n + 1) /\ k < n + 1 /\ r[k] = lines[k]
        BY <2>1, <4>2, <1>1
      <4> QED BY <4>2, <4>3
    <3> QED BY <3>1, <3>2
  <2>5. r \in Seq(Seq(Bytes)) /\ Len(r) >= 1 /\ Len(r[Len(r)]) = 0 /\ r[Len(r)] = <<>>
    BY <2>1, <1>1 DEF Pieces
  <2>6. SplitInv(b, i, r)
    <3>1. Len(r) = n + 1
      BY <2>1
    <3> HIDE DEF n
    <3>2. Len(r[Len(r)]) <= i /\ Piece(b, i - Len(r[Len(r)]), r[Len(r)])
      BY <2>3, <2>5, <1>2
    <3>3. \A k \in 1..Len(r) : k < Len(r) =>
            \E o \in 0..Len(b) : /\ Piece(b, o, r[k])
                                /\ o + Len(r[k]) + 1 <= i
                                /\ b[o + Len(r[k]) + 1] = NewLine
      BY <2>2, <3>1
    <3>4. \A q \in 1..i : b[q] = NewLine =>
            \E k \in 1..Len(r) : /\ k < Len(r)
                                /\ Len(r[k]) + 1 <= q
                                /\ Piece(b, q - Len(r[k]) - 1, r[k])
      BY <2>4, <3>1
    <3> QED BY <2>5, <3>2, <3>3, <3>4, Zenon DEF SplitInv
  <2> QED BY <2>6 DEF r
<1>7. CASE b[i] # NewLine
  <2>1. /\ r \in Pieces /\ Len(r) = n
        /\ \A k \in 1..n : k < n => r[k] = lines[k]
        /\ r[n] = Append(last, b[i])
    BY <1>1, <1>2, <1>7, SplitByteFacts
  <2> DEFINE e == Append(last, b[i])
  <2>2. /\ e \in Seq(Bytes) /\ Len(e) = Len(last) + 1
        /\ \A j \in 1..Len(last) : e[j] = last[j]
        /\ e[Len(last) + 1] = b[i]
    <3> HIDE DEF last
    <3> QED BY <1>1, <1>2, AppendProperties
  <2> HIDE DEF r, e
  <2>3. ASSUME NEW k \in 1..n, k < n
        PROVE  \E o \in 0..Len(b) : /\ Piece(b, o, r[k])
                                    /\ o + Len(r[k]) + 1 <= i
                                    /\ b[o + Len(r[k]) + 1] = NewLine
    <3>1. r[k] = lines[k]
      BY <2>1, <2>3
    <3>2. PICK o \in 0..Len(b) : /\ Piece(b, o, lines[k])
                                 /\ o + Len(lines[k]) + 1 <= i - 1
                                 /\ b[o + Len(lines[k]) + 1] = NewLine
      BY <2>3, <1>4
    <3>3. Len(lines[k]) \in Nat
      BY <1>1 DEF Pieces
    <3> QED BY <3>1, <3>2, <3>3, <1>2
  <2>4. Len(e) <= i /\ Piece(b, i - Len(e), e)
    <3>1. i - Len(e) = p /\ p + Len(e) = i /\ p + Len(last) + 1 = i
      BY <2>2, <1>1, <1>2
    <3>2. Boundary(b, p) /\ p + Len(e) <= Len(b)
      <4> HIDE DEF p
      <4> QED BY <3>1, <1>3, <1>2 DEF Piece
    <3>3. ASSUME NEW j \in 1..Len(e) PROVE b[p + j] = e[j] /\ e[j] # NewLine
      <4>1. CASE j = Len(last) + 1
        <5>1. p + j = i
          BY <4>1, <1>1, <1>2
        <5> HIDE DEF p
        <5> QED BY <4>1, <5>1, <2>2, <1>7
      <4>2. CASE j # Len(last) + 1
        <5>1. j \in 1..Len(last)
          BY <4>2, <2>2, <1>1
        <5>2. b[p + j] = last[j] /\ last[j] # NewLine
          <6> HIDE DEF p, last
          <6> QED BY <5>1, <1>3 DEF Piece
        <5> HIDE DEF p, last
        <5> QED BY <5>1, <5>2, <2>2
      <4> QED BY <4>1, <4>2
    <3>4. Len(e) <= i
      BY <2>2, <1>1, <1>3, <1>2
    <3>5. Piece(b, p, e)
      <4> HIDE DEF p
      <4> QED BY <3>2, <3>3 DEF Piece
    <3> QED BY <3>1, <3>4, <3>5
  <2>5. ASSUME NEW q \in 1..i, b[q] = NewLine
        PROVE  \E k \in 1..n : k < n /\ Len(r[k]) + 1 <= q
                               /\ Piece(b, q - Len(r[k]) - 1, r[k])
    <3>1. q \in 1..(i - 1)
      BY <2>5, <1>7, <1>2
    <3>2. PICK k \in 1..n : k < n /\ Len(lines[k]) + 1 <= q
                           /\ Piece(b, q - Len(lines[k]) - 1, lines[k])
      BY <3>1, <2>5, <1>5
    <3>3. r[k] = lines[k]
      BY <2>1, <3>2
    <3> QED BY <3>2, <3>3
  <2>6. r \in Seq(Seq(Bytes)) /\ Len(r) >= 1 /\ r[Len(r)] = e
    BY <2>1, <1>1 DEF Pieces, e
  <2>7. SplitInv(b, i, r)
    <3>1. Len(r) = n
      BY <2>1
    <3> HIDE DEF n
    <3> QED BY <2>3, <2>4, <2>5, <2>6, <3>1 DEF SplitInv
  <2> QED BY <2>7 DEF r
<1> QED BY <1>6, <1>7

\* What Split makes of a file: its complete lines, in their places, and the rest.
LEMMA SplitFacts ==
  ASSUME NEW b \in Seq(Bytes)
  PROVE  SplitInv(b, Len(b), Split(b))
<1>1. PICK f : IsSplit(f, b) /\ Split(b) = f[Len(b)]
  BY SplitExists
<1> DEFINE Good == {i \in 0..Len(b) : SplitInv(b, i, f[i])}
<1>2. Len(b) \in Nat
  OBVIOUS
<1>3. f[0] = << <<>> >> /\ \A i \in 1..Len(b) : f[i] = SplitByte(f[i - 1], b[i])
  BY <1>1, <1>2 DEF IsSplit
<1>4. 0 \in Good
  <2>1. <<>> \in Seq(Bytes) /\ << <<>> >> \in Seq(Seq(Bytes))
    OBVIOUS
  <2>2. Piece(b, 0, <<>>)
    BY <1>2 DEF Piece, Boundary
  <2> DEFINE s == << <<>> >>
  <2>3. s \in Seq(Seq(Bytes)) /\ Len(s) = 1 /\ s[1] = <<>> /\ Len(<<>>) = 0
    BY <2>1
  <2> HIDE DEF s
  <2>4. SplitInv(b, 0, s)
    BY <2>2, <2>3 DEF SplitInv
  <2> QED BY <2>4, <1>2, <1>3 DEF s
<1>5. ASSUME NEW i \in 1..Len(b), i - 1 \in Good PROVE i \in Good
  BY <1>3, <1>5, SplitInvStep
<1>6. \A i \in 0..Len(b) : i \in Good
  <2> HIDE DEF Good
  <2> QED BY <1>2, <1>4, <1>5, SetInduction
<1> QED BY <1>1, <1>2, <1>6

\* A turn has a number and some text.
LEMMA SizeFacts ==
  ASSUME NEW t \in Turns
  PROVE  t \in Nat /\ t # 0 /\ Size[t] \in Nat /\ Size[t] >= 1
BY TurnLogAssumption

\* A byte is the newline or belongs to a turn.
LEMMA ByteFacts ==
  /\ NewLine \in Bytes
  /\ \A t \in Turns : \A j \in 1..Size[t] :
       /\ [turn |-> t, byte |-> j] \in Bytes
       /\ [turn |-> t, byte |-> j] # NewLine
  /\ \A c \in Bytes : c = NewLine \/ c.turn \in Turns
<1>1. NewLine \in Bytes
  BY DEF Bytes
<1>2. ASSUME NEW t \in Turns, NEW j \in 1..Size[t]
      PROVE  [turn |-> t, byte |-> j] \in Bytes /\ [turn |-> t, byte |-> j] # NewLine
  <2>1. [turn |-> t, byte |-> j] \in [turn : {t}, byte : 1..Size[t]]
    OBVIOUS
  <2>2. [turn |-> t, byte |-> j] \in Bytes
    BY <2>1 DEF Bytes
  <2>3. t # 0
    BY SizeFacts
  <2>4. [turn |-> t, byte |-> j].turn = t /\ NewLine.turn = 0
    BY DEF NewLine
  <2> QED BY <2>2, <2>3, <2>4
<1>3. ASSUME NEW c \in Bytes PROVE c = NewLine \/ c.turn \in Turns
  BY DEF Bytes
<1> QED BY <1>1, <1>2, <1>3

\* The text of a turn has its bytes in order, and its line a newline after them.
LEMMA TextFacts ==
  ASSUME NEW t \in Turns
  PROVE  /\ Text(t) \in Seq(Bytes) /\ Len(Text(t)) = Size[t]
         /\ \A j \in 1..Size[t] : Text(t)[j] = [turn |-> t, byte |-> j]
         /\ Line(t) \in Seq(Bytes) /\ Len(Line(t)) = Size[t] + 1
         /\ \A j \in 1..Size[t] : Line(t)[j] = [turn |-> t, byte |-> j]
         /\ Line(t)[Size[t] + 1] = NewLine
         /\ Text(t) # <<>> /\ Text(t)[1].turn = t
<1>1. Size[t] \in Nat /\ Size[t] >= 1
  BY SizeFacts
<1> DEFINE n == Size[t]
<1>2. Text(t) \in [1..n -> Bytes]
  BY ByteFacts DEF Text
<1>3. Text(t) \in Seq(Bytes) /\ Len(Text(t)) = n
  <2>0. \A s : s \in [1..n -> Bytes] => s \in Seq(Bytes) /\ Len(s) = n
    BY <1>1
  <2> HIDE DEF n
  <2> QED BY <2>0, <1>2
<1>4. \A j \in 1..n : Text(t)[j] = [turn |-> t, byte |-> j]
  BY DEF Text
<1>5. /\ Line(t) \in Seq(Bytes) /\ Len(Line(t)) = n + 1
      /\ \A j \in 1..n : Line(t)[j] = Text(t)[j]
      /\ Line(t)[n + 1] = NewLine
  <2> HIDE DEF n
  <2> QED BY <1>3, ByteFacts, AppendProperties DEF Line
<1>6. Text(t)[1].turn = t /\ Text(t) # <<>>
  <2>1. 1 \in 1..n
    BY <1>1
  <2>2. Text(t)[1] = [turn |-> t, byte |-> 1]
    BY <2>1, <1>4
  <2> HIDE DEF n
  <2> QED BY <2>2, <1>1, <1>3 DEF n
<1> QED BY <1>3, <1>4, <1>5, <1>6

\* parseTurn reads a line if and only if it is the text of one turn.
LEMMA RecordIsText ==
  ASSUME NEW s \in Seq(Bytes)
  PROVE  /\ IsRecord(s) => s[1].turn \in Turns /\ s = Text(s[1].turn)
         /\ \A t \in Turns : s = Text(t) => IsRecord(s) /\ s[1].turn = t
<1>1. ASSUME IsRecord(s) PROVE s[1].turn \in Turns /\ s = Text(s[1].turn)
  <2>1. s # <<>> /\ s = Text(s[1].turn)
    BY <1>1 DEF IsRecord
  <2>2. 1 \in 1..Len(s) /\ DOMAIN s = 1..Len(s) /\ s[1] \in Bytes
    BY <2>1
  <2>3. ASSUME s[1] = NewLine PROVE FALSE
    <3>1. DOMAIN s = 1..Size[0] /\ \A i \in 1..Size[0] : s[i] = [turn |-> 0, byte |-> i]
      <4>1. s[1].turn = 0
        BY <2>3 DEF NewLine
      <4>2. s = [i \in 1..Size[0] |-> [turn |-> 0, byte |-> i]]
        BY <2>1, <4>1, Zenon DEF Text
      <4> QED BY <4>2
    <3>2. s[1] = [turn |-> 0, byte |-> 1]
      BY <3>1, <2>2
    <3>3. s[1].byte = 1 /\ NewLine.byte = 0
      BY <3>2 DEF NewLine
    <3> QED BY <3>3, <2>3
  <2> QED BY <2>1, <2>2, <2>3, ByteFacts
<1>2. ASSUME NEW t \in Turns, s = Text(t) PROVE IsRecord(s) /\ s[1].turn = t
  BY <1>2, TextFacts DEF IsRecord
<1> QED BY <1>1, <1>2

\* One line more, as the recursion of Records takes it.
RecordsLine(turns, line) == IF IsRecord(line) THEN Append(turns, line[1].turn) ELSE turns

IsRecords(f, lines) ==
  f = [i \in 0..Len(lines) |-> IF i = 0 THEN <<>> ELSE RecordsLine(f[i - 1], lines[i])]

\* One line more adds the turn whose text it is, if any.
LEMMA RecordsLineFacts ==
  ASSUME NEW turns \in Seq(Turns), NEW line \in Seq(Bytes)
  PROVE  /\ RecordsLine(turns, line) \in Seq(Turns)
         /\ ToSet(RecordsLine(turns, line)) =
              ToSet(turns) \union {t \in Turns : line = Text(t)}
<1>1. CASE IsRecord(line)
  <2> DEFINE t == line[1].turn
             r == Append(turns, t)
  <2>1. t \in Turns /\ line = Text(t)
    BY <1>1, RecordIsText
  <2>2. \A u \in Turns : line = Text(u) => u = t
    BY RecordIsText
  <2> HIDE DEF t
  <2>3. r \in Seq(Turns) /\ Len(r) = Len(turns) + 1
        /\ (\A i \in 1..Len(turns) : r[i] = turns[i]) /\ r[Len(turns) + 1] = t
    BY <2>1, AppendProperties
  <2> HIDE DEF r
  <2>4. DOMAIN r = 1..(Len(turns) + 1) /\ DOMAIN turns = 1..Len(turns) /\ Len(turns) \in Nat
    BY <2>3
  <2>5. ToSet(r) = ToSet(turns) \union {t}
    <3>1. ASSUME NEW u \in ToSet(r) PROVE u \in ToSet(turns) \union {t}
      <4>1. PICK i \in 1..(Len(turns) + 1) : u = r[i]
        BY <3>1, <2>4 DEF ToSet
      <4>2. i \in 1..Len(turns) \/ i = Len(turns) + 1
        BY <2>4
      <4> QED BY <4>1, <4>2, <2>3, <2>4 DEF ToSet
    <3>2. ASSUME NEW u \in ToSet(turns) PROVE u \in ToSet(r)
      <4>1. PICK i \in 1..Len(turns) : u = turns[i]
        BY <3>2, <2>4 DEF ToSet
      <4>2. i \in DOMAIN r /\ r[i] = u
        BY <4>1, <2>3, <2>4
      <4> QED BY <4>2 DEF ToSet
    <3>3. t \in ToSet(r)
      <4>1. Len(turns) + 1 \in DOMAIN r
        BY <2>4
      <4> QED BY <4>1, <2>3 DEF ToSet
    <3> QED BY <3>1, <3>2, <3>3
  <2>6. RecordsLine(turns, line) = r
    BY <1>1 DEF RecordsLine, r, t
  <2> QED BY <2>1, <2>2, <2>3, <2>5, <2>6
<1>2. CASE ~IsRecord(line)
  <2>1. \A t \in Turns : line # Text(t)
    BY <1>2, RecordIsText
  <2> QED BY <1>2, <2>1 DEF RecordsLine
<1> QED BY <1>1, <1>2

\* Records is what the recursion over the lines comes to.
LEMMA RecordsExists ==
  ASSUME NEW lines \in Seq(Seq(Bytes))
  PROVE  \E f : IsRecords(f, lines) /\ Records(lines) = f[Len(lines)]
<1> DEFINE n == Len(lines)
           D == Seq(Turns)
           step == [x \in (1..n) \X D |-> RecordsLine(x[2], lines[x[1]])]
<1>1. n \in Nat /\ \A i \in 1..n : lines[i] \in Seq(Bytes)
  OBVIOUS
<1>2. step \in [(1..n) \X D -> D]
  <2> HIDE DEF n
  <2> QED BY <1>1, RecordsLineFacts
<1>3. PICK f : Follows(f, n, D, <<>>, step)
  <2>1. <<>> \in D
    OBVIOUS
  <2> HIDE DEF step, n, D
  <2> QED BY <2>1, <1>1, <1>2, RecursionExists
<1>4. /\ f \in [0..n -> D] /\ f[0] = <<>>
      /\ \A i \in 1..n : f[i] = step[<<i, f[i - 1]>>]
  BY <1>3 DEF Follows
<1>5. ASSUME NEW i \in 1..n PROVE f[i] = RecordsLine(f[i - 1], lines[i])
  <2>1. i - 1 \in 0..n
    BY <1>1
  <2>2. <<i, f[i - 1]>> \in (1..n) \X D
    BY <2>1, <1>4
  <2>3. step[<<i, f[i - 1]>>] = RecordsLine(f[i - 1], lines[i])
    BY <2>2
  <2> QED BY <2>3, <1>4
<1>6. IsRecords(f, lines)
  <2>1. ASSUME NEW i \in 0..n
        PROVE  f[i] = IF i = 0 THEN <<>> ELSE RecordsLine(f[i - 1], lines[i])
    <3>1. i = 0 \/ i \in 1..n
      BY <1>1
    <3> QED BY <3>1, <1>4, <1>5
  <2>2. f = [i \in 0..n |-> f[i]]
    BY <1>4
  <2> HIDE DEF step, D
  <2>3. [i \in 0..n |-> f[i]] =
        [i \in 0..n |-> IF i = 0 THEN <<>> ELSE RecordsLine(f[i - 1], lines[i])]
    BY <2>1
  <2> QED BY <2>2, <2>3 DEF IsRecords
<1> DEFINE g == CHOOSE h : h = [i \in 0..Len(lines) |->
                   IF i = 0 THEN <<>>
                   ELSE IF IsRecord(lines[i]) THEN Append(h[i - 1], lines[i][1].turn)
                        ELSE h[i - 1]]
<1>7. Records(lines) = g[Len(lines)]
  BY Zenon DEF Records
<1>8. IsRecords(g, lines)
  BY <1>6, Zenon DEF IsRecords, RecordsLine
<1> HIDE DEF g
<1> QED BY <1>7, <1>8

\* The turns of the lines that can be read.
LEMMA RecordsSet ==
  ASSUME NEW lines \in Seq(Seq(Bytes))
  PROVE  /\ Records(lines) \in Seq(Turns)
         /\ ToSet(Records(lines)) = {t \in Turns : \E k \in 1..Len(lines) : lines[k] = Text(t)}
<1>1. PICK f : IsRecords(f, lines) /\ Records(lines) = f[Len(lines)]
  BY RecordsExists
<1> DEFINE n == Len(lines)
           Of(i) == {t \in Turns : \E k \in 1..i : lines[k] = Text(t)}
           Good == {i \in 0..n : f[i] \in Seq(Turns) /\ ToSet(f[i]) = Of(i)}
<1>2. n \in Nat
  OBVIOUS
<1>3. f[0] = <<>> /\ \A i \in 1..n : f[i] = RecordsLine(f[i - 1], lines[i])
  BY <1>1, <1>2 DEF IsRecords
<1>4. 0 \in Good
  <2>1. ToSet(<<>>) = {} /\ <<>> \in Seq(Turns)
    BY DEF ToSet
  <2>2. Of(0) = {} /\ 0 \in 0..n
    BY <1>2
  <2> HIDE DEF Of
  <2> QED BY <2>1, <2>2, <1>3
<1>5. ASSUME NEW i \in 1..n, i - 1 \in Good PROVE i \in Good
  <2>1. f[i - 1] \in Seq(Turns) /\ ToSet(f[i - 1]) = Of(i - 1) /\ lines[i] \in Seq(Bytes)
    BY <1>5
  <2>2. /\ f[i] \in Seq(Turns)
        /\ ToSet(f[i]) = Of(i - 1) \union {t \in Turns : lines[i] = Text(t)}
    <3> HIDE DEF Of
    <3> QED BY <2>1, <1>3, RecordsLineFacts
  <2>3. Of(i) = Of(i - 1) \union {t \in Turns : lines[i] = Text(t)}
    <3>1. \A k : k \in 1..i <=> k \in 1..(i - 1) \/ k = i
      BY <1>2
    <3> QED BY <3>1
  <2>4. i \in 0..n
    BY <1>2
  <2> HIDE DEF Of
  <2> QED BY <2>2, <2>3, <2>4
<1>6. \A i \in 0..n : i \in Good
  <2> HIDE DEF Good, n
  <2> QED BY <1>2, <1>4, <1>5, SetInduction
<1>7. n \in Good
  BY <1>2, <1>6
<1> QED BY <1>1, <1>7

-----------------------------------------------------------------------------
(* Which turns have a line, and where. *)

\* The text of t is a line of its own, after p bytes of the file.
LineAt(b, t, p) ==
  /\ Boundary(b, p)
  /\ p + Size[t] + 1 <= Len(b)
  /\ \A j \in 1..Size[t] : b[p + j] = [turn |-> t, byte |-> j]
  /\ b[p + Size[t] + 1] = NewLine

\* The turns with a line, those with one before or after an offset, those with a byte.
TurnsOf(b) == {t \in Turns : \E p \in 0..Len(b) : LineAt(b, t, p)}
Before(b, m) == {t \in Turns : \E p \in 0..Len(b) : LineAt(b, t, p) /\ p < m}
After(b, m) == {t \in Turns : \E p \in 0..Len(b) : LineAt(b, t, p) /\ p >= m}
BytesOf(b) == {t \in Turns : \E i \in 1..Len(b) : b[i].turn = t}

\* Where every line is complete, the turns read are those that have a line of their own.
LEMMA SplitTurns ==
  ASSUME NEW w \in Seq(Bytes), Boundary(w, Len(w))
  PROVE  ToSet(Records(Split(w))) = TurnsOf(w)
<1> DEFINE lines == Split(w)
           n == Len(lines)
<1>1. SplitInv(w, Len(w), lines) /\ Len(w) \in Nat
  BY SplitFacts
<1>2. /\ lines \in Seq(Seq(Bytes)) /\ n \in Nat /\ n >= 1
      /\ \A k \in 1..n : lines[k] \in Seq(Bytes)
  <2> HIDE DEF lines
  <2> QED BY <1>1 DEF SplitInv
<1>3. ToSet(Records(lines)) = {t \in Turns : \E k \in 1..n : lines[k] = Text(t)}
  <2> HIDE DEF lines
  <2> QED BY <1>2, RecordsSet
<1> HIDE DEF lines
<1>4. ASSUME NEW t \in Turns, NEW k \in 1..n, lines[k] = Text(t)
      PROVE  \E p \in 0..Len(w) : LineAt(w, t, p)
  <2>1. /\ Len(lines[k]) = Size[t] /\ Size[t] \in Nat /\ Size[t] >= 1
        /\ \A j \in 1..Size[t] : lines[k][j] = [turn |-> t, byte |-> j]
    BY <1>4, SizeFacts, TextFacts
  <2>2. CASE k < n
    <3>1. PICK p \in 0..Len(w) : /\ Piece(w, p, lines[k])
                                 /\ p + Len(lines[k]) + 1 <= Len(w)
                                 /\ w[p + Len(lines[k]) + 1] = NewLine
      BY <1>1, <2>2 DEF SplitInv
    <3>2. LineAt(w, t, p)
      BY <3>1, <2>1 DEF LineAt, Piece
    <3> QED BY <3>2
  <2>3. CASE k = n
    <3> DEFINE p == Len(w) - Len(lines[k])
    <3>1. Piece(w, p, lines[k]) /\ Len(lines[k]) <= Len(w)
      BY <1>1, <2>3 DEF SplitInv
    <3>2. p + Size[t] = Len(w) /\ Size[t] \in 1..Size[t]
      BY <1>1, <2>1
    <3>3. w[Len(w)] # NewLine
      <4> HIDE DEF p
      <4> QED BY <3>1, <3>2, <2>1 DEF Piece
    <3>4. Len(w) >= 1
      BY <3>1, <2>1, <1>1
    <3> QED BY <3>3, <3>4, <1>1 DEF Boundary
  <2> QED BY <2>2, <2>3, <1>2
<1>5. ASSUME NEW t \in Turns, NEW p \in 0..Len(w), LineAt(w, t, p)
      PROVE  \E k \in 1..n : lines[k] = Text(t)
  <2> DEFINE s == Size[t]
             q == p + s + 1
  <2>1. s \in Nat /\ s >= 1 /\ p \in Nat /\ q \in 1..Len(w) /\ w[q] = NewLine
        /\ Boundary(w, p) /\ \A j \in 1..s : w[p + j] = [turn |-> t, byte |-> j]
    BY <1>5, <1>1, SizeFacts DEF LineAt
  <2>2. PICK k \in 1..n : /\ k < n
                          /\ Len(lines[k]) + 1 <= q
                          /\ Piece(w, q - Len(lines[k]) - 1, lines[k])
    <3> HIDE DEF q, n
    <3> QED BY <2>1, <1>1 DEF SplitInv, n
  <2> DEFINE line == lines[k]
             m == Len(line)
             o == q - m - 1
  <2>3. line \in Seq(Bytes) /\ m \in Nat
    BY <1>2
  <2>4. o \in Nat /\ o + m + 1 = q /\ p + s + 1 = q
    <3>1. m + 1 <= q /\ m \in Nat /\ q \in Nat
      BY <2>1, <2>2, <2>3
    <3>2. p + s + 1 = q
      OBVIOUS
    <3> HIDE DEF m, q
    <3> QED BY <3>1, <3>2
  <2>5. /\ Boundary(w, o)
        /\ \A j \in 1..m : w[o + j] = line[j] /\ line[j] # NewLine
    <3>1. Piece(w, o, line) /\ m = Len(line)
      BY <2>2
    <3> HIDE DEF o, line, m
    <3> QED BY <3>1 DEF Piece
  <2> HIDE DEF line, m, o, q, s
  <2>6. ASSUME o < p PROVE FALSE
    <3>1. p - o \in 1..m /\ o + (p - o) = p /\ p # 0
      BY <2>6, <2>1, <2>3, <2>4
    <3>2. w[p] # NewLine
      BY <3>1, <2>5
    <3> QED BY <3>1, <3>2, <2>1 DEF Boundary
  <2>7. ASSUME o > p PROVE FALSE
    <3>1. o - p \in 1..s /\ p + (o - p) = o /\ o # 0
      BY <2>7, <2>1, <2>3, <2>4
    <3>2. w[o] # NewLine
      <4>1. w[o] = [turn |-> t, byte |-> o - p]
        BY <3>1, <2>1
      <4> QED BY <4>1, <3>1, ByteFacts DEF s
    <3> QED BY <3>1, <3>2, <2>5 DEF Boundary
  <2>8. o = p /\ m = s
    BY <2>6, <2>7, <2>1, <2>3, <2>4
  <2>9. line = Text(t)
    <3>1. Text(t) \in Seq(Bytes) /\ Len(Text(t)) = s
          /\ \A j \in 1..s : Text(t)[j] = [turn |-> t, byte |-> j]
      BY TextFacts DEF s
    <3>2. Len(line) = s
      BY <2>8 DEF m
    <3>3. \A j \in 1..s : line[j] = Text(t)[j]
      BY <2>1, <2>5, <2>8, <3>1
    <3> QED BY <3>1, <3>2, <3>3, <2>3, SeqEqual
  <2> QED BY <2>9 DEF line
<1>6. ToSet(Records(lines)) = TurnsOf(w)
  BY <1>3, <1>4, <1>5 DEF TurnsOf
<1> QED BY <1>6 DEF lines

\* Whole ends after the last newline, if there is one.
LEMMA WholeFacts ==
  ASSUME NEW b \in Seq(Bytes)
  PROVE  /\ Whole(b) \in Seq(Bytes) /\ Len(Whole(b)) \in 0..Len(b)
         /\ \A i \in 1..Len(Whole(b)) : Whole(b)[i] = b[i]
         /\ Boundary(b, Len(Whole(b)))
         /\ \A i \in 1..Len(b) : b[i] = NewLine => i <= Len(Whole(b))
<1> DEFINE S == {0} \union {i \in DOMAIN b : b[i] = NewLine}
           m == Max(S)
<1>1. DOMAIN b = 1..Len(b) /\ Len(b) \in Nat /\ \A i \in 1..Len(b) : b[i] \in Bytes
  OBVIOUS
<1>2. S \in SUBSET (0..Len(b)) /\ S # {}
  BY <1>1
<1>3. m \in S /\ \A i \in S : i <= m
  <2> HIDE DEF S
  <2> QED BY <1>1, <1>2, GreatestNat
<1>4. Whole(b) = SubSeq(b, 1, m)
  BY DEF Whole
<1>5. m \in 0..Len(b) /\ Boundary(b, m) /\ \A i \in 1..Len(b) : b[i] = NewLine => i <= m
  <2> HIDE DEF m
  <2> QED BY <1>1, <1>3 DEF Boundary
<1> HIDE DEF m
<1>6. /\ SubSeq(b, 1, m) \in Seq(Bytes) /\ Len(SubSeq(b, 1, m)) = m
      /\ \A i \in 1..m : SubSeq(b, 1, m)[i] = b[i]
  <2>1. 1 \in Int /\ m \in Int /\ \A i \in 1..m : b[i] \in Bytes
    BY <1>1, <1>5
  <2>2. /\ SubSeq(b, 1, m) \in Seq(Bytes)
        /\ Len(SubSeq(b, 1, m)) = IF 1 <= m THEN m - 1 + 1 ELSE 0
        /\ \A i \in 1..(m - 1 + 1) : SubSeq(b, 1, m)[i] = b[1 + i - 1]
    BY <2>1, SubSeqProperties
  <2> HIDE DEF m
  <2> QED BY <2>2, <1>5
<1> QED BY <1>4, <1>5, <1>6

\* The turns of the complete lines, which is what the code reads of a file.
LEMMA TurnsInIs ==
  ASSUME NEW b \in Seq(Bytes)
  PROVE  TurnsIn(b) = TurnsOf(b)
<1> DEFINE w == Whole(b)
           m == Len(w)
<1>1. /\ w \in Seq(Bytes) /\ m \in 0..Len(b) /\ Len(b) \in Nat /\ m \in Nat
      /\ \A i \in 1..m : w[i] = b[i]
      /\ Boundary(b, m)
      /\ \A i \in 1..Len(b) : b[i] = NewLine => i <= m
  BY WholeFacts
<1>2. Boundary(w, m)
  <2> HIDE DEF w, m
  <2> QED BY <1>1 DEF Boundary, m
<1>3. ToSet(Records(Split(w))) = TurnsOf(w)
  <2> HIDE DEF w
  <2> QED BY <1>1, <1>2, SplitTurns
<1> HIDE DEF w
<1>4. ASSUME NEW t \in Turns, NEW p \in 0..m, LineAt(w, t, p)
      PROVE  LineAt(b, t, p)
  <2>0. Size[t] \in Nat /\ Size[t] >= 1
    BY SizeFacts
  <2>1. Boundary(b, p)
    BY <1>1, <1>4 DEF LineAt, Boundary
  <2>2. p + Size[t] + 1 <= m
    BY <1>4 DEF LineAt
  <2>3. \A j \in 1..Size[t] : b[p + j] = [turn |-> t, byte |-> j]
    <3>1. \A j \in 1..Size[t] : p + j \in 1..m
      BY <2>0, <2>2, <1>1
    <3> QED BY <3>1, <1>1, <1>4 DEF LineAt
  <2>4. b[p + Size[t] + 1] = NewLine
    <3>1. p + Size[t] + 1 \in 1..m
      BY <2>0, <2>2, <1>1
    <3> QED BY <3>1, <1>1, <1>4 DEF LineAt
  <2>5. p + Size[t] + 1 <= Len(b)
    BY <2>0, <2>2, <1>1
  <2> QED BY <2>1, <2>3, <2>4, <2>5 DEF LineAt
<1>5. ASSUME NEW t \in Turns, NEW p \in 0..Len(b), LineAt(b, t, p)
      PROVE  LineAt(w, t, p) /\ p \in 0..m
  <2>0. Size[t] \in Nat /\ Size[t] >= 1
    BY SizeFacts
  <2>1. p + Size[t] + 1 <= m
    <3>1. p + Size[t] + 1 \in 1..Len(b) /\ b[p + Size[t] + 1] = NewLine
      BY <1>5, <2>0, <1>1 DEF LineAt
    <3> QED BY <3>1, <1>1
  <2>2. Boundary(w, p)
    <3>1. p = 0 \/ (p \in 1..m /\ b[p] = NewLine)
      BY <1>5, <2>0, <2>1, <1>1 DEF LineAt, Boundary
    <3> QED BY <3>1, <1>1 DEF Boundary
  <2>3. \A j \in 1..Size[t] : w[p + j] = [turn |-> t, byte |-> j]
    <3>1. \A j \in 1..Size[t] : p + j \in 1..m
      BY <2>0, <2>1, <1>1
    <3> QED BY <3>1, <1>1, <1>5 DEF LineAt
  <2>4. w[p + Size[t] + 1] = NewLine
    <3>1. p + Size[t] + 1 \in 1..m
      BY <2>0, <2>1, <1>1
    <3> QED BY <3>1, <1>1, <1>5 DEF LineAt
  <2> QED BY <2>0, <2>1, <2>2, <2>3, <2>4, <1>1 DEF LineAt
<1>6. TurnsOf(w) = TurnsOf(b)
  BY <1>1, <1>4, <1>5 DEF TurnsOf
<1>7. TurnsIn(b) = ToSet(Records(Split(w)))
  BY DEF TurnsIn, w
<1> QED BY <1>3, <1>6, <1>7

\* What Unconsolidated reads after an offset.
LEMMA RestFacts ==
  ASSUME NEW b \in Seq(Bytes), NEW m \in 0..Len(b)
  PROVE  /\ SubSeq(b, m + 1, Len(b)) \in Seq(Bytes)
         /\ Len(SubSeq(b, m + 1, Len(b))) = Len(b) - m
         /\ \A i \in 1..(Len(b) - m) : SubSeq(b, m + 1, Len(b))[i] = b[m + i]
<1>1. Len(b) \in Nat /\ m \in Nat /\ m + 1 \in Int /\ Len(b) \in Int
      /\ \A i \in (m + 1)..Len(b) : b[i] \in Bytes
  OBVIOUS
<1> DEFINE c == SubSeq(b, m + 1, Len(b))
<1>2. /\ c \in Seq(Bytes)
      /\ Len(c) = IF m + 1 <= Len(b) THEN Len(b) - (m + 1) + 1 ELSE 0
      /\ \A i \in 1..(Len(b) - (m + 1) + 1) : c[i] = b[(m + 1) + i - 1]
  <2> HIDE DEF c
  <2> QED BY <1>1, SubSeqProperties DEF c
<1>3. Len(c) = Len(b) - m
  <2> HIDE DEF c
  <2> QED BY <1>1, <1>2
<1>4. ASSUME NEW i \in 1..(Len(b) - m) PROVE c[i] = b[m + i]
  <2>1. i \in 1..(Len(b) - (m + 1) + 1) /\ (m + 1) + i - 1 = m + i
    BY <1>1
  <2> HIDE DEF c
  <2> QED BY <2>1, <1>2
<1> QED BY <1>2, <1>3, <1>4

\* The lines after an offset at which a line starts are those of the rest of the file.
LEMMA RestTurns ==
  ASSUME NEW b \in Seq(Bytes), NEW m \in 0..Len(b), Boundary(b, m)
  PROVE  TurnsOf(SubSeq(b, m + 1, Len(b))) = After(b, m)
<1> DEFINE c == SubSeq(b, m + 1, Len(b))
           l == Len(b) - m
<1>1. /\ Len(b) \in Nat /\ m \in Nat /\ l \in Nat /\ m + l = Len(b)
      /\ c \in Seq(Bytes) /\ Len(c) = l /\ \A i \in 1..l : c[i] = b[m + i]
  BY RestFacts
<1> HIDE DEF c, l
<1>2. ASSUME NEW p \in 0..l
      PROVE  Boundary(c, p) <=> Boundary(b, m + p)
  <2>1. CASE p = 0
    BY <2>1, <1>1 DEF Boundary
  <2>2. CASE p # 0
    <3>1. p \in 1..l /\ m + p \in 1..Len(b) /\ c[p] = b[m + p] /\ m + p # 0
      BY <2>2, <1>1
    <3> QED BY <3>1, <2>2, <1>1 DEF Boundary
  <2> QED BY <2>1, <2>2
<1>3. ASSUME NEW t \in Turns, NEW p \in 0..l
      PROVE  LineAt(c, t, p) <=> LineAt(b, t, m + p)
  <2> DEFINE s == Size[t]
  <2>0. s \in Nat /\ s >= 1
    BY SizeFacts
  <2> HIDE DEF s
  <2>1. p + s + 1 <= l <=> (m + p) + s + 1 <= Len(b)
    BY <1>1, <2>0
  <2>2. CASE ~(p + s + 1 <= l)
    BY <2>1, <2>2, <1>1 DEF LineAt, s
  <2>3. CASE p + s + 1 <= l
    <3>1. ASSUME NEW j \in 1..s PROVE c[p + j] = b[(m + p) + j]
      <4>1. p + j \in 1..l /\ m + (p + j) = (m + p) + j
        BY <2>0, <2>3, <1>1
      <4> QED BY <4>1, <1>1
    <3>2. c[p + s + 1] = b[(m + p) + s + 1]
      <4>1. p + s + 1 \in 1..l /\ m + (p + s + 1) = (m + p) + s + 1
        BY <2>0, <2>3, <1>1
      <4> QED BY <4>1, <1>1
    <3> QED BY <3>1, <3>2, <2>1, <1>1, <1>2 DEF LineAt, s
  <2> QED BY <2>2, <2>3
<1>4. ASSUME NEW t \in TurnsOf(c) PROVE t \in After(b, m)
  <2>1. PICK p \in 0..l : LineAt(c, t, p) /\ t \in Turns
    BY <1>4, <1>1 DEF TurnsOf
  <2>2. m + p \in 0..Len(b) /\ m + p >= m /\ LineAt(b, t, m + p)
    BY <2>1, <1>1, <1>3
  <2> QED BY <2>1, <2>2 DEF After
<1>5. ASSUME NEW t \in After(b, m) PROVE t \in TurnsOf(c)
  <2>1. PICK p \in 0..Len(b) : LineAt(b, t, p) /\ p >= m /\ t \in Turns
    BY <1>5 DEF After
  <2>2. p - m \in 0..l /\ m + (p - m) = p
    BY <2>1, <1>1
  <2>3. LineAt(c, t, p - m)
    BY <2>1, <2>2, <1>3
  <2> QED BY <2>1, <2>2, <2>3, <1>1 DEF TurnsOf
<1>6. TurnsOf(c) = After(b, m)
  BY <1>4, <1>5
<1> QED BY <1>6 DEF c

\* A turn with a line has bytes in the file.
LEMMA TurnsHaveBytes ==
  ASSUME NEW b \in Seq(Bytes)
  PROVE  TurnsOf(b) \subseteq BytesOf(b)
<1>1. ASSUME NEW t \in Turns, NEW p \in 0..Len(b), LineAt(b, t, p)
      PROVE  t \in BytesOf(b)
  <2>1. Size[t] \in Nat /\ Size[t] >= 1 /\ Len(b) \in Nat
    BY SizeFacts
  <2>2. p + 1 \in 1..Len(b) /\ b[p + 1] = [turn |-> t, byte |-> 1]
    BY <1>1, <2>1 DEF LineAt
  <2>3. b[p + 1].turn = t
    BY <2>2
  <2> QED BY <2>2, <2>3 DEF BytesOf
<1> QED BY <1>1 DEF TurnsOf

\* Reading from anywhere finds no turn that the file has no byte of.
LEMMA RestBytes ==
  ASSUME NEW b \in Seq(Bytes), NEW m \in 0..Len(b)
  PROVE  TurnsOf(SubSeq(b, m + 1, Len(b))) \subseteq BytesOf(b)
<1> DEFINE c == SubSeq(b, m + 1, Len(b))
<1>1. /\ Len(b) \in Nat /\ m \in Nat
      /\ c \in Seq(Bytes) /\ Len(c) = Len(b) - m
      /\ \A i \in 1..(Len(b) - m) : c[i] = b[m + i]
  BY RestFacts
<1> HIDE DEF c
<1>2. ASSUME NEW t \in BytesOf(c) PROVE t \in BytesOf(b)
  <2>1. PICK i \in 1..(Len(b) - m) : c[i].turn = t /\ t \in Turns
    BY <1>2, <1>1 DEF BytesOf
  <2>2. m + i \in 1..Len(b) /\ b[m + i].turn = t
    BY <2>1, <1>1
  <2> QED BY <2>1, <2>2 DEF BytesOf
<1>3. TurnsOf(c) \subseteq BytesOf(b)
  BY <1>1, <1>2, TurnsHaveBytes
<1> QED BY <1>3 DEF c

\* What Unconsolidated returns and how far it would move the watermark.
LEMMA PendingFacts ==
  ASSUME log \in Seq(Bytes), mark \in Nat
  PROVE  /\ ToSet(Pending) \in SUBSET Turns
         /\ ToSet(Pending) \subseteq BytesOf(log)
         /\ NextMark \in Nat
         /\ Boundary(log, From) => ToSet(Pending) = After(log, From)
         /\ Boundary(log, From) =>
              /\ From <= NextMark /\ NextMark <= Len(log) /\ Boundary(log, NextMark)
              /\ \A t \in Turns : \A p \in 0..Len(log) :
                   LineAt(log, t, p) => p < NextMark \/ p < From
         /\ Boundary(log, From) /\ Pending # <<>> => From < NextMark
<1> DEFINE m == From
           c == SubSeq(log, m + 1, Len(log))
           f == Len(Fresh)
<1>1. m \in 0..Len(log) /\ Len(log) \in Nat /\ m \in Nat
  BY DEF From
<1> HIDE DEF m
<1>2. /\ c \in Seq(Bytes) /\ Len(c) = Len(log) - m
      /\ \A i \in 1..(Len(log) - m) : c[i] = log[m + i]
  BY <1>1, RestFacts
<1> HIDE DEF c
<1>3. Fresh = Whole(c)
  BY DEF Fresh, c, m
<1>4. /\ Fresh \in Seq(Bytes) /\ f \in 0..Len(c)
      /\ Boundary(c, f)
      /\ \A i \in 1..Len(c) : c[i] = NewLine => i <= f
  BY <1>2, <1>3, WholeFacts
<1> HIDE DEF f
<1>5. ToSet(Pending) = TurnsOf(c)
  BY <1>2, <1>3, TurnsInIs DEF Pending, TurnsIn
<1>6. NextMark = m + f /\ NextMark \in m..Len(log)
  BY <1>1, <1>2, <1>4 DEF NextMark, m, f
<1>7. ToSet(Pending) \subseteq BytesOf(log)
  BY <1>1, <1>5, RestBytes DEF c
<1>8. ASSUME Boundary(log, m) PROVE Boundary(log, NextMark)
  <2>1. CASE f = 0
    BY <2>1, <1>1, <1>6, <1>8
  <2>2. CASE f # 0
    <3>1. f \in 1..(Len(log) - m) /\ c[f] = NewLine
      BY <2>2, <1>2, <1>4 DEF Boundary
    <3>2. log[m + f] = NewLine /\ m + f \in 1..Len(log)
      BY <3>1, <1>1, <1>2
    <3> QED BY <3>2, <1>6 DEF Boundary
  <2> QED BY <2>1, <2>2
<1>9. ASSUME Boundary(log, m) PROVE ToSet(Pending) = After(log, m)
  BY <1>1, <1>5, <1>9, RestTurns DEF c
<1>10. ASSUME NEW t \in Turns, NEW p \in 0..Len(log), LineAt(log, t, p)
       PROVE  p < NextMark \/ p < m
  <2> SUFFICES ASSUME p >= m PROVE p < NextMark
    BY <1>1
  <2> DEFINE q == p + Size[t] + 1
             i == q - m
  <2>1. Size[t] \in Nat
    BY SizeFacts
  <2>2. q <= Len(log) /\ log[q] = NewLine
    BY <1>10 DEF LineAt
  <2>3. i \in 1..(Len(log) - m) /\ m + i = q /\ p < q
    BY <2>1, <2>2, <1>1
  <2>4. c[i] = NewLine
    <3> HIDE DEF i, q
    <3> QED BY <2>2, <2>3, <1>2
  <2>5. i <= f
    BY <2>3, <2>4, <1>2, <1>4
  <2> HIDE DEF i
  <2>6. q <= NextMark
    BY <2>3, <2>5, <1>1, <1>2, <1>4, <1>6
  <2> QED BY <2>1, <2>3, <2>6, <1>1, <1>6
<1>11. ASSUME Boundary(log, m), Pending # <<>> PROVE m < NextMark
  <2>1. Pending \in Seq(Turns)
    <3>1. Split(Fresh) \in Seq(Seq(Bytes))
      BY <1>4, SplitFacts DEF SplitInv
    <3> QED BY <3>1, RecordsSet DEF Pending
  <2>2. 1 \in DOMAIN Pending
    BY <2>1, <1>11
  <2>3. Pending[1] \in ToSet(Pending)
    BY <2>2 DEF ToSet
  <2>4. PICK p \in 0..Len(log) : LineAt(log, Pending[1], p) /\ p >= m /\ Pending[1] \in Turns
    BY <2>3, <1>9, <1>11 DEF After
  <2>5. p < NextMark
    BY <2>4, <1>10, <1>1
  <2> QED BY <2>4, <2>5, <1>1, <1>6
<1>12. ToSet(Pending) \in SUBSET Turns
  BY <1>5 DEF TurnsOf
<1>13. NextMark \in Nat /\ m <= NextMark /\ NextMark <= Len(log)
  BY <1>1, <1>6
<1> QED BY <1>7, <1>8, <1>9, <1>10, <1>11, <1>12, <1>13 DEF m

-----------------------------------------------------------------------------
(* Writing at the end. *)

\* Bytes added at the end leave the lines that are there.
LEMMA LongerFacts ==
  ASSUME NEW b \in Seq(Bytes), NEW x \in Seq(Bytes)
  PROVE  /\ b \o x \in Seq(Bytes) /\ Len(b \o x) = Len(b) + Len(x)
         /\ \A i \in 1..Len(b) : (b \o x)[i] = b[i]
         /\ \A i \in 1..Len(x) : (b \o x)[Len(b) + i] = x[i]
         /\ \A p \in 0..Len(b) : Boundary(b \o x, p) <=> Boundary(b, p)
         /\ \A t \in Turns : \A p \in 0..Len(b) :
              LineAt(b, t, p) <=> LineAt(b \o x, t, p) /\ p + Size[t] + 1 <= Len(b)
<1> DEFINE c == b \o x
<1>1. Len(b) \in Nat /\ Len(x) \in Nat
  OBVIOUS
<1>2. /\ c \in Seq(Bytes) /\ Len(c) = Len(b) + Len(x)
      /\ \A i \in 1..(Len(b) + Len(x)) : c[i] = IF i <= Len(b) THEN b[i] ELSE x[i - Len(b)]
  BY ConcatProperties
<1> HIDE DEF c
<1>3. \A i \in 1..Len(b) : c[i] = b[i]
  BY <1>1, <1>2
<1>4. ASSUME NEW i \in 1..Len(x) PROVE c[Len(b) + i] = x[i]
  <2>1. Len(b) + i \in 1..(Len(b) + Len(x)) /\ ~(Len(b) + i <= Len(b)) /\ Len(b) + i - Len(b) = i
    BY <1>1
  <2> QED BY <2>1, <1>2
<1>5. ASSUME NEW p \in 0..Len(b) PROVE Boundary(c, p) <=> Boundary(b, p)
  BY <1>1, <1>2, <1>3 DEF Boundary
<1>6. ASSUME NEW t \in Turns, NEW p \in 0..Len(b), p + Size[t] + 1 <= Len(b)
      PROVE  LineAt(b, t, p) <=> LineAt(c, t, p)
  <2>1. Size[t] \in Nat
    BY SizeFacts
  <2>2. \A j \in 1..Size[t] : c[p + j] = b[p + j]
    <3>1. \A j \in 1..Size[t] : p + j \in 1..Len(b)
      BY <2>1, <1>1, <1>6
    <3> QED BY <3>1, <1>3
  <2>3. c[p + Size[t] + 1] = b[p + Size[t] + 1]
    <3>1. p + Size[t] + 1 \in 1..Len(b)
      BY <2>1, <1>1, <1>6
    <3> QED BY <3>1, <1>3
  <2>4. p + Size[t] + 1 <= Len(c)
    BY <2>1, <1>1, <1>2, <1>6
  <2> QED BY <2>2, <2>3, <2>4, <1>5, <1>6 DEF LineAt
<1>7. \A t \in Turns : \A p \in 0..Len(b) :
        LineAt(b, t, p) <=> LineAt(c, t, p) /\ p + Size[t] + 1 <= Len(b)
  BY <1>6 DEF LineAt
<1> QED BY <1>2, <1>3, <1>4, <1>5, <1>7 DEF c

\* What a write of the turn t leaves in the file: its line, or the start of its text.
Written(t) == {Line(t)} \union {SubSeq(Line(t), 1, n) : n \in 0..Size[t]}

\* What is written of a turn is the start of its line.
LEMMA WrittenFacts ==
  ASSUME NEW t \in Turns, NEW x \in Written(t)
  PROVE  /\ x \in Seq(Bytes) /\ Len(x) \in 0..(Size[t] + 1)
         /\ \A j \in 1..Len(x) : j <= Size[t] => x[j] = [turn |-> t, byte |-> j]
         /\ Len(x) = Size[t] + 1 => x[Size[t] + 1] = NewLine
<1>1. Size[t] \in Nat /\ Size[t] >= 1
  BY SizeFacts
<1>2. CASE x = Line(t)
  BY <1>1, <1>2, TextFacts
<1>3. ASSUME NEW n \in 0..Size[t], x = SubSeq(Line(t), 1, n)
      PROVE  /\ x \in Seq(Bytes) /\ Len(x) = n
             /\ \A j \in 1..n : x[j] = [turn |-> t, byte |-> j]
  <2>1. 1 \in Int /\ n \in Int /\ n \in Nat /\ \A i \in 1..n : i \in 1..Size[t]
    BY <1>1
  <2>2. \A i \in 1..n : Line(t)[i] \in Bytes /\ Line(t)[i] = [turn |-> t, byte |-> i]
    BY <2>1, TextFacts, ByteFacts
  <2>a. 1 \in Int /\ n \in Int /\ \A i \in 1..n : Line(t)[i] \in Bytes
    BY <2>1, <2>2
  <2>b. /\ SubSeq(Line(t), 1, n) \in Seq(Bytes)
        /\ Len(SubSeq(Line(t), 1, n)) = IF 1 <= n THEN n - 1 + 1 ELSE 0
        /\ \A i \in 1..(n - 1 + 1) : SubSeq(Line(t), 1, n)[i] = Line(t)[1 + i - 1]
    BY <2>a, SubSeqProperties
  <2>3. /\ x \in Seq(Bytes)
        /\ Len(x) = IF 1 <= n THEN n - 1 + 1 ELSE 0
        /\ \A i \in 1..(n - 1 + 1) : x[i] = Line(t)[1 + i - 1]
    BY <1>3, <2>b
  <2>4. Len(x) = n
    BY <2>1, <2>3
  <2>5. ASSUME NEW j \in 1..n PROVE x[j] = Line(t)[j]
    <3>1. j \in 1..(n - 1 + 1) /\ 1 + j - 1 = j
      BY <2>1
    <3> QED BY <3>1, <2>3
  <2> QED BY <2>2, <2>3, <2>4, <2>5
<1>4. CASE x # Line(t)
  <2>1. PICK n \in 0..Size[t] : x = SubSeq(Line(t), 1, n)
    BY <1>4 DEF Written
  <2>2. /\ x \in Seq(Bytes) /\ Len(x) = n /\ \A j \in 1..n : x[j] = [turn |-> t, byte |-> j]
    BY <2>1, <1>3
  <2> QED BY <2>2, <1>1
<1> QED BY <1>2, <1>4

\* A write adds at most the line of its turn, and only if that starts on a line of its own.
LEMMA AppendLines ==
  ASSUME NEW b \in Seq(Bytes), NEW t \in Turns, t \notin BytesOf(b), NEW x \in Written(t),
         NEW u \in Turns, NEW p \in 0..Len(b \o x), LineAt(b \o x, u, p)
  PROVE  (LineAt(b, u, p) /\ p + Size[u] + 1 <= Len(b)) \/ (u = t /\ p >= Len(b))
<1> DEFINE c == b \o x
           l == Len(b)
           s == Size[u]
           z == Size[t]
           q == p + s + 1
<1>0. /\ s \in Nat /\ s >= 1 /\ z \in Nat /\ z >= 1 /\ l \in Nat /\ p \in Nat
  BY SizeFacts
<1>1. /\ x \in Seq(Bytes) /\ Len(x) \in 0..(z + 1)
      /\ \A j \in 1..Len(x) : j <= z => x[j] = [turn |-> t, byte |-> j]
  BY WrittenFacts
<1>2. /\ Len(c) = l + Len(x)
      /\ \A i \in 1..l : c[i] = b[i]
      /\ \A i \in 1..Len(x) : c[l + i] = x[i]
      /\ p \in 0..l /\ q <= l => LineAt(b, u, p)
  BY <1>1, LongerFacts
<1>3. q <= Len(c) /\ c[q] = NewLine /\ \A j \in 1..s : c[p + j] = [turn |-> u, byte |-> j]
  BY DEF LineAt
<1> HIDE DEF c
<1>4. CASE q <= l
  <2>1. p \in 0..l
    BY <1>0, <1>4
  <2> QED BY <2>1, <1>2, <1>4
<1>5. CASE q > l
  <2>1. q - l \in 1..Len(x) /\ l + (q - l) = q
    BY <1>0, <1>1, <1>2, <1>3, <1>5
  <2>2. x[q - l] = NewLine
    <3> HIDE DEF q
    <3> QED BY <2>1, <1>2, <1>3
  <2>3. ~(q - l <= z)
    <3> DEFINE i == q - l
    <3>1. ASSUME i <= z PROVE FALSE
      <4>1. x[i] = [turn |-> t, byte |-> i] /\ i \in 1..z
        <5>1. i \in 1..Len(x)
          BY <2>1
        <5> HIDE DEF i
        <5> QED BY <5>1, <3>1, <1>0, <1>1
      <4>2. x[i] = NewLine
        BY <2>2
      <4> HIDE DEF i
      <4> QED BY <4>1, <4>2, ByteFacts
    <3> QED BY <3>1
  <2>4. q - l = z + 1
    <3> HIDE DEF q
    <3> QED BY <2>1, <2>3, <1>0, <1>1
  <2>5. p + s = l + z /\ z \in 1..Len(x) /\ s \in 1..s
    <3>0. q = p + s + 1
      OBVIOUS
    <3>1. (p + s + 1) - l = z + 1
      <4> HIDE DEF q, l, s, z
      <4> QED BY <2>4, <3>0
    <3>2. z + 1 \in 1..Len(x) /\ Len(x) \in Nat
      <4> HIDE DEF q, z, l
      <4> QED BY <2>1, <2>4, <1>1
    <3> HIDE DEF l, s, z
    <3> QED BY <3>1, <3>2, <1>0
  <2>6. c[l + z] = [turn |-> t, byte |-> z]
    BY <2>5, <1>1, <1>2, <1>0
  <2>7. c[l + z] = [turn |-> u, byte |-> s]
    BY <2>5, <1>3
  <2>8. u = t
    <3>1. [turn |-> t, byte |-> z] = [turn |-> u, byte |-> s]
      BY <2>6, <2>7
    <3>2. [turn |-> t, byte |-> z].turn = t /\ [turn |-> u, byte |-> s].turn = u
      BY Zenon
    <3> QED BY <3>1, <3>2
  <2>9. s = z /\ p = l
    <3>1. s = z
      BY <2>8
    <3> QED BY <3>1, <2>5, <1>0
  <2> QED BY <2>8, <2>9, <1>0
<1> QED BY <1>0, <1>4, <1>5

\* A write leaves the lines before any offset, and adds at most the line of its turn after it.
LEMMA AppendFacts ==
  ASSUME NEW b \in Seq(Bytes), NEW t \in Turns, t \notin BytesOf(b), NEW x \in Written(t)
  PROVE  /\ b \o x \in Seq(Bytes) /\ Len(b \o x) = Len(b) + Len(x)
         /\ TurnsOf(b) \subseteq TurnsOf(b \o x)
         /\ TurnsOf(b \o x) \subseteq TurnsOf(b) \union {t}
         /\ BytesOf(b \o x) \subseteq BytesOf(b) \union {t}
         /\ \A m \in 0..Len(b) :
              /\ Boundary(b, m) => Boundary(b \o x, m)
              /\ Before(b \o x, m) = Before(b, m)
              /\ After(b \o x, m) \subseteq After(b, m) \union {t}
<1> DEFINE c == b \o x
           l == Len(b)
<1>0. x \in Seq(Bytes) /\ l \in Nat /\ Len(x) \in Nat
  BY WrittenFacts
<1>1. /\ c \in Seq(Bytes) /\ Len(c) = l + Len(x)
      /\ \A i \in 1..l : c[i] = b[i]
      /\ \A i \in 1..Len(x) : c[l + i] = x[i]
      /\ \A p \in 0..l : Boundary(c, p) <=> Boundary(b, p)
      /\ \A u \in Turns : \A p \in 0..l : LineAt(b, u, p) => LineAt(c, u, p)
  BY <1>0, LongerFacts
<1>2. ASSUME NEW u \in Turns, NEW p \in 0..Len(c), LineAt(c, u, p)
      PROVE  (LineAt(b, u, p) /\ p \in 0..l) \/ (u = t /\ p >= l)
  <2>1. (LineAt(b, u, p) /\ p + Size[u] + 1 <= l) \/ (u = t /\ p >= l)
    BY <1>2, AppendLines
  <2>2. Size[u] \in Nat
    BY SizeFacts
  <2> HIDE DEF c
  <2> QED BY <2>1, <2>2, <1>0, <1>1
<1> HIDE DEF c
<1>3. \A p : p \in 0..l => p \in 0..Len(c)
  BY <1>0, <1>1
<1>4. TurnsOf(b) \subseteq TurnsOf(c)
  BY <1>1, <1>3 DEF TurnsOf
<1>5. TurnsOf(c) \subseteq TurnsOf(b) \union {t}
  BY <1>2 DEF TurnsOf
<1>6. ASSUME NEW u \in BytesOf(c) PROVE u \in BytesOf(b) \union {t}
  <2>1. PICK i \in 1..Len(c) : c[i].turn = u /\ u \in Turns
    BY <1>6 DEF BytesOf
  <2>2. CASE i <= l
    <3>1. i \in 1..l
      BY <2>2, <1>0
    <3> QED BY <3>1, <2>1, <1>1 DEF BytesOf
  <2>3. CASE i > l
    <3> DEFINE j == i - l
    <3>1. j \in 1..Len(x) /\ l + j = i
      BY <2>3, <1>0, <1>1
    <3>2. x[j].turn = u
      <4> HIDE DEF j
      <4> QED BY <3>1, <2>1, <1>1
    <3>3. u # 0 /\ NewLine.turn = 0
      BY <2>1, SizeFacts DEF NewLine
    <3>4. j <= Size[t]
      <4>1. Size[t] \in Nat /\ Len(x) \in 0..(Size[t] + 1)
            /\ (Len(x) = Size[t] + 1 => x[Size[t] + 1] = NewLine)
        BY SizeFacts, WrittenFacts
      <4> HIDE DEF j
      <4>2. CASE j = Size[t] + 1
        <5>1. Len(x) = Size[t] + 1
          BY <4>1, <4>2, <3>1
        <5> QED BY <5>1, <4>1, <4>2, <3>2, <3>3
      <4> QED BY <4>1, <4>2, <3>1
    <3>5. x[j] = [turn |-> t, byte |-> j]
      <4> HIDE DEF j
      <4> QED BY <3>1, <3>4, WrittenFacts
    <3>6. u = t
      BY <3>2, <3>5
    <3> QED BY <3>6
  <2> QED BY <2>2, <2>3, <1>0
<1>7. ASSUME NEW m \in 0..l
      PROVE  /\ Boundary(b, m) => Boundary(c, m)
             /\ Before(c, m) = Before(b, m)
             /\ After(c, m) \subseteq After(b, m) \union {t}
  <2>1. Before(c, m) \subseteq Before(b, m)
    <3>1. ASSUME NEW u \in Turns, NEW p \in 0..Len(c), LineAt(c, u, p), p < m
          PROVE  LineAt(b, u, p) /\ p \in 0..l
      BY <3>1, <1>0, <1>2
    <3> QED BY <3>1 DEF Before
  <2>2. Before(b, m) \subseteq Before(c, m)
    BY <1>1, <1>3 DEF Before
  <2>3. After(c, m) \subseteq After(b, m) \union {t}
    BY <1>2 DEF After
  <2> QED BY <2>1, <2>2, <2>3, <1>1
<1> QED BY <1>1, <1>4, <1>5, <1>6, <1>7 DEF c

\* A whole line after a whole line is one more line.
LEMMA AppendLine ==
  ASSUME NEW b \in Seq(Bytes), NEW t \in Turns
  PROVE  /\ Boundary(b \o Line(t), Len(b \o Line(t)))
         /\ Boundary(b, Len(b)) => t \in TurnsOf(b \o Line(t))
<1> DEFINE x == Line(t)
           c == b \o x
           l == Len(b)
           s == Size[t]
<1>1. /\ x \in Seq(Bytes) /\ Len(x) = s + 1 /\ x[s + 1] = NewLine
      /\ \A j \in 1..s : x[j] = [turn |-> t, byte |-> j]
      /\ s \in Nat /\ l \in Nat
  BY TextFacts, SizeFacts
<1>2. /\ c \in Seq(Bytes) /\ Len(c) = l + Len(x)
      /\ \A i \in 1..Len(x) : c[l + i] = x[i]
      /\ \A p \in 0..l : Boundary(c, p) <=> Boundary(b, p)
  BY <1>1, LongerFacts
<1> HIDE DEF c, x
<1>3. Len(c) = l + s + 1 /\ c[l + s + 1] = NewLine
  <2>1. s + 1 \in 1..Len(x) /\ l + (s + 1) = l + s + 1
    BY <1>1
  <2> QED BY <2>1, <1>1, <1>2
<1>4. Boundary(c, Len(c))
  BY <1>1, <1>3 DEF Boundary
<1>5. ASSUME Boundary(b, l) PROVE t \in TurnsOf(c)
  <2>1. \A j \in 1..s : c[l + j] = [turn |-> t, byte |-> j]
    <3>1. \A j \in 1..s : j \in 1..Len(x)
      BY <1>1
    <3> QED BY <3>1, <1>1, <1>2
  <2>2. l \in 0..Len(c) /\ l \in 0..l /\ l + s + 1 <= Len(c)
    BY <1>1, <1>3
  <2>3. LineAt(c, t, l)
    BY <2>1, <2>2, <1>2, <1>3, <1>5 DEF LineAt, s
  <2> QED BY <2>2, <2>3 DEF TurnsOf
<1> QED BY <1>4, <1>5 DEF c, x

\* Before, at and after the end of a file.
LEMMA AtTheEnd ==
  ASSUME NEW b \in Seq(Bytes)
  PROVE  Before(b, Len(b)) = TurnsOf(b) /\ After(b, Len(b)) = {}
<1>1. ASSUME NEW t \in Turns, NEW p \in 0..Len(b), LineAt(b, t, p)
      PROVE  p < Len(b)
  <2>1. Size[t] \in Nat /\ Len(b) \in Nat
    BY SizeFacts
  <2> QED BY <2>1, <1>1 DEF LineAt
<1>2. Len(b) \in Nat
  OBVIOUS
<1> QED BY <1>1, <1>2 DEF Before, After, TurnsOf

\* An empty file.
LEMMA NothingThere ==
  /\ <<>> \in Seq(Bytes) /\ Len(<<>>) = 0 /\ Boundary(<<>>, 0)
  /\ TurnsOf(<<>>) = {} /\ BytesOf(<<>>) = {} /\ TurnsIn(<<>>) = {}
  /\ \A m \in Nat : Before(<<>>, m) = {} /\ After(<<>>, m) = {}
<1> DEFINE e == <<>>
<1>1. e \in Seq(Bytes) /\ Len(e) = 0
  OBVIOUS
<1> HIDE DEF e
<1>2. \A t \in Turns : \A p \in 0..Len(e) : ~LineAt(e, t, p)
  BY <1>1, SizeFacts DEF LineAt
<1>3. TurnsOf(e) = {} /\ BytesOf(e) = {} /\ Boundary(e, 0)
  BY <1>1, <1>2 DEF TurnsOf, BytesOf, Boundary
<1>4. TurnsIn(e) = {}
  BY <1>1, <1>3, TurnsInIs
<1>5. \A m \in Nat : Before(e, m) = {} /\ After(e, m) = {}
  BY <1>2 DEF Before, After
<1> QED BY <1>1, <1>3, <1>4, <1>5 DEF e

\* The log of the first n turns, as it is imported.
LogOf(n) == FlattenSeq([t \in 1..n |-> Line(t)])

\* The imported log is made line by line.
LEMMA LogOfFacts ==
  ASSUME NEW N \in Nat, 1..N \subseteq Turns
  PROVE  /\ LogOf(0) = <<>>
         /\ \A n \in 0..N : LogOf(n) \in Seq(Bytes)
         /\ \A n \in 1..N : LogOf(n) = LogOf(n - 1) \o Line(n)
<1> DEFINE D == Seq(Bytes)
           step == [y \in (1..N) \X D |-> y[2] \o Line(y[1])]
<1>0. <<>> \in D /\ \A t \in Turns : Line(t) \in D
  BY TextFacts
<1>1. step \in [(1..N) \X D -> D]
  BY <1>0
<1>2. PICK G : Follows(G, N, D, <<>>, step)
  <2> HIDE DEF step, D
  <2> QED BY <1>0, <1>1, RecursionExists
<1>3. /\ G \in [0..N -> D] /\ G[0] = <<>>
      /\ \A i \in 1..N : G[i] = step[<<i, G[i - 1]>>]
  BY <1>2 DEF Follows
<1>4. ASSUME NEW i \in 1..N PROVE G[i] = G[i - 1] \o Line(i)
  <2>1. i - 1 \in 0..N
    OBVIOUS
  <2>2. <<i, G[i - 1]>> \in (1..N) \X D
    BY <2>1, <1>3
  <2>3. step[<<i, G[i - 1]>>] = G[i - 1] \o Line(i)
    BY <2>2
  <2> QED BY <2>3, <1>3
<1>5. LogOf(0) = <<>>
  <2>1. [t \in 1..0 |-> Line(t)] = <<>> /\ Len(<<>>) = 0
    OBVIOUS
  <2> QED BY <2>1, Zenon DEF LogOf, FlattenSeq
<1>6. ASSUME NEW n \in 1..N PROVE LogOf(n) = G[n]
  <2> DEFINE S == [t \in 1..n |-> Line(t)]
             g == CHOOSE h : h = [i \in 1..Len(S) |-> IF i = 1 THEN S[i] ELSE h[i - 1] \o S[i]]
             h0 == [i \in 1..n |-> G[i]]
  <2>1. S \in Seq(D) /\ Len(S) = n /\ n # 0 /\ \A i \in 1..n : S[i] = Line(i)
    <3>1. S \in [1..n -> D]
      BY <1>0
    <3>2. \A s : s \in [1..n -> D] => s \in Seq(D) /\ Len(s) = n
      OBVIOUS
    <3>3. n # 0 /\ \A i \in 1..n : S[i] = Line(i)
      OBVIOUS
    <3> HIDE DEF S
    <3> QED BY <3>1, <3>2, <3>3
  <2> HIDE DEF S
  <2>2. FlattenSeq(S) = g[Len(S)]
    BY <2>1, Zenon DEF FlattenSeq
  <2>3. ASSUME NEW i \in 1..n PROVE h0[i] = IF i = 1 THEN S[i] ELSE h0[i - 1] \o S[i]
    <3>1. i \in 1..N /\ G[i] = G[i - 1] \o Line(i) /\ S[i] = Line(i) /\ Line(i) \in D
      BY <1>0, <1>4, <2>1
    <3>2. CASE i = 1
      <4>1. <<>> \o Line(i) = Line(i)
        BY <3>1, ConcatEmptySeq
      <4>2. i - 1 = 0 /\ G[i - 1] = <<>>
        BY <3>2, <1>3
      <4>3. h0[i] = Line(i) /\ S[i] = Line(i)
        BY <3>1, <4>1, <4>2
      <4> HIDE DEF h0
      <4> QED BY <3>2, <4>3
    <3>3. CASE i # 1
      <4>1. i - 1 \in 1..n
        BY <3>3
      <4> QED BY <3>1, <3>3, <4>1
    <3> QED BY <3>2, <3>3
  <2>4. h0 = [i \in 1..Len(S) |-> IF i = 1 THEN S[i] ELSE h0[i - 1] \o S[i]]
    <3>1. h0 = [i \in 1..n |-> h0[i]]
      BY Zenon
    <3> HIDE DEF h0
    <3>2. [i \in 1..n |-> h0[i]] = [i \in 1..n |-> IF i = 1 THEN S[i] ELSE h0[i - 1] \o S[i]]
      BY <2>3
    <3> QED BY <2>1, <3>1, <3>2
  <2> HIDE DEF h0
  <2>5. g = [i \in 1..Len(S) |-> IF i = 1 THEN S[i] ELSE g[i - 1] \o S[i]]
    BY <2>4, Zenon
  <2> HIDE DEF g
  <2>6. \A i \in 1..n : g[i] = IF i = 1 THEN Line(i) ELSE g[i - 1] \o Line(i)
    BY <2>1, <2>5
  <2> DEFINE Good == {i \in 0..n : i = 0 \/ g[i] = G[i]}
  <2>7. 0 \in Good
    OBVIOUS
  <2>8. ASSUME NEW i \in 1..n, i - 1 \in Good PROVE i \in Good
    <3>1. i \in 1..N /\ G[i] = G[i - 1] \o Line(i) /\ Line(i) \in D
      BY <1>0, <1>4
    <3>2. CASE i = 1
      <4>1. <<>> \o Line(i) = Line(i)
        BY <3>1, ConcatEmptySeq
      <4>2. i - 1 = 0 /\ G[i - 1] = <<>>
        BY <3>2, <1>3
      <4>3. G[i] = Line(i)
        BY <3>1, <4>1, <4>2
      <4>4. g[i] = Line(i)
        BY <3>2, <2>6
      <4>5. i \in 0..n
        OBVIOUS
      <4> QED BY <4>3, <4>4, <4>5
    <3>3. CASE i # 1
      <4>1. g[i - 1] = G[i - 1]
        BY <2>8, <3>3
      <4>2. g[i] = g[i - 1] \o Line(i)
        BY <3>3, <2>6
      <4>3. i \in 0..n /\ g[i] = G[i]
        BY <3>1, <4>1, <4>2
      <4> QED BY <4>3
    <3> QED BY <3>2, <3>3
  <2>9. \A i \in 0..n : i \in Good
    <3> HIDE DEF Good
    <3> QED BY <2>7, <2>8, SetInduction
  <2>10. g[n] = G[n]
    BY <2>1, <2>9
  <2> QED BY <2>1, <2>2, <2>10 DEF LogOf, S
<1>7. \A n \in 0..N : LogOf(n) = G[n]
  BY <1>3, <1>5, <1>6
<1>8. \A n \in 0..N : LogOf(n) \in D
  BY <1>3, <1>7
<1>9. ASSUME NEW n \in 1..N PROVE LogOf(n) = LogOf(n - 1) \o Line(n)
  <2>1. n \in 0..N /\ n - 1 \in 0..N
    OBVIOUS
  <2> QED BY <2>1, <1>4, <1>7
<1> QED BY <1>5, <1>8, <1>9

\* What such a log holds, and where an earlier one ends in it.
Imported(N, n) ==
  /\ Boundary(LogOf(n), Len(LogOf(n)))
  /\ TurnsOf(LogOf(n)) = 1..n
  /\ BytesOf(LogOf(n)) \subseteq 1..n
  /\ \A p \in 0..N : p <= n =>
       /\ Len(LogOf(p)) <= Len(LogOf(n))
       /\ Boundary(LogOf(n), Len(LogOf(p)))
       /\ Before(LogOf(n), Len(LogOf(p))) \subseteq 1..p
       /\ After(LogOf(n), Len(LogOf(p))) \intersect (1..p) = {}

\* An imported log holds the turns it was made of, each on its side of every earlier end.
LEMMA LogOfLines ==
  ASSUME NEW N \in Nat, 1..N \subseteq Turns, NEW n \in 0..N
  PROVE  Imported(N, n)
<1> DEFINE Good == {k \in 0..N : Imported(N, k)}
<1>1. /\ LogOf(0) = <<>>
      /\ \A k \in 0..N : LogOf(k) \in Seq(Bytes)
      /\ \A k \in 1..N : LogOf(k) = LogOf(k - 1) \o Line(k)
  BY LogOfFacts
<1>2. 0 \in Good
  <2>1. /\ Len(LogOf(0)) = 0 /\ Boundary(LogOf(0), 0)
        /\ TurnsOf(LogOf(0)) = {} /\ BytesOf(LogOf(0)) = {}
        /\ Before(LogOf(0), 0) = {} /\ After(LogOf(0), 0) = {}
    BY <1>1, NothingThere
  <2>2. \A p \in 0..N : p <= 0 => p = 0
    OBVIOUS
  <2>3. 1..0 = {}
    OBVIOUS
  <2> QED BY <2>1, <2>2, <2>3 DEF Imported
<1>3. ASSUME NEW k \in 1..N, k - 1 \in Good PROVE k \in Good
  <2> DEFINE b == LogOf(k - 1)
             c == LogOf(k)
  <2>a. k \in 0..N /\ k - 1 \in 0..N /\ 1..k = (1..(k - 1)) \union {k} /\ k \notin 1..(k - 1)
    OBVIOUS
  <2>b. k \in Turns /\ b \in Seq(Bytes) /\ c \in Seq(Bytes) /\ c = b \o Line(k)
    BY <1>1, <2>a
  <2>1. /\ k \in Turns /\ b \in Seq(Bytes) /\ c \in Seq(Bytes) /\ c = b \o Line(k)
        /\ k - 1 \in 0..N /\ Imported(N, k - 1) /\ 1..k = (1..(k - 1)) \union {k}
        /\ k \notin 1..(k - 1)
    BY <1>3, <2>a, <2>b
  <2>2. k \notin BytesOf(b) /\ Line(k) \in Written(k)
    BY <2>1 DEF Imported, Written
  <2>3. Boundary(b, Len(b)) /\ TurnsOf(b) = 1..(k - 1) /\ BytesOf(b) \subseteq 1..(k - 1)
    BY <2>1 DEF Imported
  <2>4. /\ Len(c) = Len(b) + Len(Line(k))
        /\ TurnsOf(b) \subseteq TurnsOf(c)
        /\ TurnsOf(c) \subseteq TurnsOf(b) \union {k}
        /\ BytesOf(c) \subseteq BytesOf(b) \union {k}
        /\ \A m \in 0..Len(b) :
              /\ Boundary(b, m) => Boundary(c, m)
              /\ Before(c, m) = Before(b, m)
              /\ After(c, m) \subseteq After(b, m) \union {k}
    <3> HIDE DEF b
    <3> QED BY <2>1, <2>2, AppendFacts
  <2>5. Boundary(c, Len(c)) /\ k \in TurnsOf(c)
    <3> HIDE DEF b
    <3> QED BY <2>1, <2>3, AppendLine
  <2>6. Len(b) \in Nat /\ Len(c) \in Nat /\ Len(b) <= Len(c)
    <3>1. Line(k) \in Seq(Bytes)
      BY <2>1, TextFacts
    <3>2. Len(b) \in Nat /\ Len(Line(k)) \in Nat
      BY <2>1, <3>1
    <3> HIDE DEF b, c
    <3> QED BY <2>4, <3>2
  <2>7. ASSUME NEW p \in 0..N, p <= k
        PROVE  /\ Len(LogOf(p)) <= Len(c)
               /\ Boundary(c, Len(LogOf(p)))
               /\ Before(c, Len(LogOf(p))) \subseteq 1..p
               /\ After(c, Len(LogOf(p))) \intersect (1..p) = {}
    <3>1. CASE p = k
      <4>1. Before(c, Len(c)) = TurnsOf(c) /\ After(c, Len(c)) = {}
        <5> HIDE DEF c
        <5> QED BY <2>1, AtTheEnd
      <4> QED BY <3>1, <4>1, <2>1, <2>3, <2>4, <2>5, <2>6
    <3>2. CASE p # k
      <4> DEFINE m == Len(LogOf(p))
      <4>1. p <= k - 1
        BY <2>7, <3>2
      <4>2. /\ m <= Len(b) /\ Boundary(b, m) /\ Before(b, m) \subseteq 1..p
            /\ After(b, m) \intersect (1..p) = {}
        BY <2>1, <4>1 DEF Imported
      <4>3. m \in Nat
        BY <1>1
      <4>4. k \notin 1..p
        BY <4>1
      <4> HIDE DEF m, b, c
      <4>5. m \in 0..Len(b)
        BY <4>2, <4>3, <2>6
      <4>6. m <= Len(c)
        BY <4>2, <4>3, <2>6
      <4> QED BY <4>2, <4>4, <4>5, <4>6, <2>4 DEF m
    <3> QED BY <3>1, <3>2
  <2>8. TurnsOf(c) = 1..k /\ BytesOf(c) \subseteq 1..k
    <3> HIDE DEF b, c
    <3> QED BY <2>1, <2>3, <2>4, <2>5
  <2>9. Imported(N, k)
    BY <2>5, <2>7, <2>8 DEF Imported
  <2> QED BY <2>9
<1>4. \A k \in 0..N : k \in Good
  <2> HIDE DEF Good
  <2> QED BY <1>2, <1>3, SetInduction
<1> QED BY <1>4

-----------------------------------------------------------------------------
(* The invariant of the memory. *)

Working(w) == work[w] # Resting

\* Turns that were given a number.
Numbered == 1..(next - 1)

\* Whatever the files, the graph and the goroutines tell of was stored before.
Numbers ==
  /\ BytesOf(log) \subseteq Numbered /\ Stored \subseteq Numbered
  /\ acked \subseteq Numbered /\ consolidated \subseteq Numbered /\ cleared \subseteq Numbered
  /\ \A w \in Workers : Working(w) => work[w].turns \subseteq Numbered
  /\ clearing # Resting => clearing.turns \subseteq Numbered
  /\ \A t \in Turns : t \notin Numbered => edges[t] = 0

\* One consolidation at a time.
Single == \A v, w \in Workers : Working(v) => busy /\ (Working(w) => v = w)

\* The watermark ends a line; the lines before it, and those archived, are consolidated, and
\* no later line is.
MarkInv ==
  ~stale => /\ mark <= Len(log) /\ Boundary(log, mark)
            /\ Before(log, mark) \subseteq consolidated
            /\ \A a \in archives : TurnsOf(a) \subseteq consolidated
            /\ After(log, mark) \intersect consolidated = {}

\* A batch in hand is made of the lines from the watermark to its own mark, none of them
\* consolidated; if the log was removed since, the batch has nothing in common with the files.
BatchOK(e) ==
  /\ e.gone => e.turns \intersect Stored = {}
  /\ ~stale /\ ~e.gone =>
       /\ mark < e.mark /\ e.mark <= Len(log) /\ Boundary(log, e.mark)
       /\ Before(log, e.mark) \subseteq Before(log, mark) \union e.turns
       /\ After(log, e.mark) \intersect e.turns = {}
       /\ e.turns \intersect consolidated = {}

BatchInv == \A w \in Workers : Working(w) => BatchOK(work[w])

\* The turns of the consolidation that has written to the graph and not marked them yet.
HalfDone == {t \in Turns : \E w \in Workers :
               Working(w) /\ work[w].step \in {"edges", "profile"} /\ t \in work[w].turns}

\* A turn that was counted is consolidated or about to be, and was counted once.
EdgesInv ==
  ~stale => \A t \in Stored \ suspect :
              edges[t] <= 1 /\ (edges[t] = 1 => t \in consolidated \union HalfDone)

\* Every turn that was lost, and a line without an end, took a torn write.
Unfinished == IF Boundary(log, Len(log)) THEN 0 ELSE 1
TornInv == Cardinality(acked \ Stored) + Unfinished <= torn

\* What was wiped, and what a Clear under way is about to wipe, is nowhere any more except in
\* the hands of a consolidation that was spared.
ClearInv ==
  /\ BytesOf(log) \intersect cleared = {}
  /\ \A w \in Workers : Working(w) => work[w].turns \intersect cleared \subseteq spared
  /\ Remembered \intersect cleared \subseteq spared
  /\ clearing # Resting /\ ~clearing.failed =>
       /\ BytesOf(log) \intersect clearing.turns = {}
       /\ \A w \in Workers : Working(w) =>
            work[w].turns \intersect clearing.turns \subseteq clearing.spared
       /\ clearing.step = "profile" =>
            {t \in Turns : edges[t] > 0} \intersect clearing.turns \subseteq clearing.spared

MemoryInv ==
  MemoryTypeOK /\ Numbers /\ Single /\ MarkInv /\ BatchInv /\ EdgesInv /\ TornInv /\ ClearInv

\* Turns up to a number.
LEMMA NextTurn ==
  ASSUME MemoryTypeOK, next \in Turns
  PROVE  /\ next \notin Numbered /\ 1..((next + 1) - 1) = Numbered \union {next}
         /\ next \in Nat
BY DEF MemoryTypeOK, Numbered

\* What the files hold, told by the lines in them.
LEMMA StoredIs ==
  ASSUME log \in Seq(Bytes), archives \subseteq Seq(Bytes)
  PROVE  /\ Stored = TurnsOf(log) \union UNION {TurnsOf(a) : a \in archives}
         /\ Stored \subseteq Turns
<1>1. TurnsIn(log) = TurnsOf(log) /\ \A a \in archives : TurnsIn(a) = TurnsOf(a)
  BY TurnsInIs
<1>2. {TurnsIn(a) : a \in archives} = {TurnsOf(a) : a \in archives}
  BY <1>1
<1>3. Stored = TurnsOf(log) \union UNION {TurnsOf(a) : a \in archives}
  BY <1>1, <1>2 DEF Stored
<1>4. \A a \in archives : TurnsOf(a) \subseteq Turns
  BY DEF TurnsOf
<1>5. TurnsOf(log) \subseteq Turns
  BY DEF TurnsOf
<1> QED BY <1>3, <1>4, <1>5

\* What a consolidation at work has in hand.
LEMMA BatchShape ==
  ASSUME MemoryTypeOK, NEW w \in Workers
  PROVE  /\ Working(w) <=> work[w].step \in {"asked", "edges", "profile"}
         /\ Working(w) => /\ work[w] \in Extractions /\ work[w].turns \in SUBSET Turns
                          /\ work[w].mark \in Nat /\ work[w].gone \in BOOLEAN
<1>1. work[w] \in Extractions \/ work[w] = Resting
  BY DEF MemoryTypeOK
<1>2. CASE work[w] \in Extractions
  <2>1. /\ work[w].step \in {"asked", "edges", "profile"} /\ work[w].turns \in SUBSET Turns
        /\ work[w].mark \in Nat /\ work[w].gone \in BOOLEAN
    BY <1>2 DEF Extractions
  <2>2. Resting.step = "idle"
    BY DEF Resting
  <2> QED BY <1>2, <2>1, <2>2 DEF Working
<1>3. CASE work[w] = Resting
  BY <1>3 DEF Working, Resting
<1> QED BY <1>1, <1>2, <1>3

\* What a Clear under way has in hand.
LEMMA ClearingShape ==
  ASSUME MemoryTypeOK
  PROVE  /\ clearing # Resting <=> clearing.step \in {"edges", "profile"}
         /\ clearing # Resting =>
              /\ clearing \in Clears /\ clearing.turns \in SUBSET Turns
              /\ clearing.spared \in SUBSET Turns /\ clearing.failed \in BOOLEAN
<1>1. clearing \in Clears \/ clearing = Resting
  BY DEF MemoryTypeOK
<1>2. CASE clearing \in Clears
  <2>1. /\ clearing.step \in {"edges", "profile"} /\ clearing.turns \in SUBSET Turns
        /\ clearing.spared \in SUBSET Turns /\ clearing.failed \in BOOLEAN
    BY <1>2 DEF Clears
  <2>2. Resting.step = "idle"
    BY DEF Resting
  <2> QED BY <1>2, <2>1, <2>2
<1>3. CASE clearing = Resting
  BY <1>3 DEF Resting
<1> QED BY <1>1, <1>2, <1>3

\* A Store either adds to the log, or archives it and starts another.
Continues(x) == log' = log \o x /\ mark' = mark /\ archives' = archives /\ stale' = stale
Rotates(x) ==
  /\ MayRotate /\ log' = <<>> \o x /\ archives' = archives \union {log}
  /\ mark' \in Nat /\ stale' \in BOOLEAN /\ (~stale' => ~stale /\ mark' = 0)

\* Every outcome of maybeRotate is of one of these two kinds.
LEMMA WriteKinds ==
  ASSUME MemoryTypeOK, NEW r \in Rotations, NEW x, Write(r, x), stale' = (stale \/ LeavesMark(r))
  PROVE  Continues(x) \/ Rotates(x)
<1> DEFINE same  == [log |-> log, mark |-> mark, archives |-> archives]
           moved == [log : {<<>>}, mark : {0, mark}, archives : {archives \union {log}}]
<1>1. CASE r = same
  <2>1. r.log = log /\ r.mark = mark /\ r.archives = archives
    BY <1>1
  <2> HIDE DEF same
  <2> QED BY <2>1 DEF Write, LeavesMark, Continues, MemoryTypeOK
<1>2. CASE r # same
  <2>1. r \in moved /\ MayRotate
    BY <1>2 DEF Rotations
  <2>2. r.log = <<>> /\ r.mark \in {0, mark} /\ r.archives = archives \union {log}
    BY <2>1
  <2> HIDE DEF same, moved
  <2>3. log # <<>>
    BY <2>1, TurnLogAssumption DEF MayRotate
  <2>4. mark \in Nat
    BY DEF MemoryTypeOK
  <2>5. LeavesMark(r) <=> r.mark > 0
    BY <2>2, <2>3 DEF LeavesMark
  <2>6. log' = <<>> \o x /\ mark' \in {0, mark} /\ archives' = archives \union {log}
    BY <2>2 DEF Write
  <2>7. stale' \in BOOLEAN
    OBVIOUS
  <2>8. ~stale' => ~stale /\ mark' = 0
    <3>1. ~stale' => ~stale /\ ~LeavesMark(r)
      BY Zenon
    <3>2. r.mark \in {0, mark} /\ mark' = r.mark
      BY <2>2 DEF Write
    <3> QED BY <2>4, <2>5, <3>1, <3>2
  <2> QED BY <2>1, <2>4, <2>6, <2>7, <2>8 DEF Rotates
<1> QED BY <1>1, <1>2

\* A write leaves files.
LEMMA TypeOfWrite ==
  ASSUME MemoryTypeOK, NEW x \in Seq(Bytes), Continues(x) \/ Rotates(x)
  PROVE  /\ log' \in Seq(Bytes) /\ mark' \in Nat /\ archives' \subseteq Seq(Bytes)
         /\ stale' \in BOOLEAN
<1>1. log \in Seq(Bytes) /\ mark \in Nat /\ archives \subseteq Seq(Bytes) /\ stale \in BOOLEAN
  BY DEF MemoryTypeOK
<1>2. <<>> \in Seq(Bytes) /\ log \o x \in Seq(Bytes) /\ <<>> \o x \in Seq(Bytes)
  BY <1>1
<1> QED BY <1>1, <1>2 DEF Continues, Rotates

-----------------------------------------------------------------------------
(* Its steps keep the types. *)

\* The two ways a Store ends, with what was written.
LEMMA StoreKinds ==
  ASSUME MemoryTypeOK, StoreTurn \/ StoreFails
  PROVE  /\ next \in Turns /\ next' = next + 1
         /\ \E x \in Written(next) :
              /\ Continues(x) \/ Rotates(x)
              /\ StoreTurn => x = Line(next)
              /\ ~StoreTurn => /\ torn' = IF x # <<>> THEN torn + 1 ELSE torn
                               /\ x # <<>> => torn < MaxTorn
                               /\ x = <<>> => Rotates(x)
<1>1. CASE StoreTurn
  <2>1. PICK r \in Rotations : Write(r, Line(next)) /\ stale' = (stale \/ LeavesMark(r))
    BY <1>1 DEF StoreTurn
  <2>2. Continues(Line(next)) \/ Rotates(Line(next))
    BY <2>1, WriteKinds
  <2>3. Line(next) \in Written(next)
    BY DEF Written
  <2> QED BY <1>1, <2>2, <2>3 DEF StoreTurn
<1>2. CASE StoreFails /\ ~StoreTurn
  <2>1. PICK n \in 0..Size[next] : \E r \in Rotations :
          /\ IF n > 0 THEN torn < MaxTorn ELSE r.log # log
          /\ Write(r, SubSeq(Line(next), 1, n))
          /\ torn' = IF n > 0 THEN torn + 1 ELSE torn
          /\ stale' = (stale \/ LeavesMark(r))
    BY <1>2 DEF StoreFails
  <2>2. PICK r \in Rotations :
          /\ IF n > 0 THEN torn < MaxTorn ELSE r.log # log
          /\ Write(r, SubSeq(Line(next), 1, n))
          /\ torn' = IF n > 0 THEN torn + 1 ELSE torn
          /\ stale' = (stale \/ LeavesMark(r))
    BY <2>1
  <2> DEFINE x == SubSeq(Line(next), 1, n)
  <2>3. next \in Turns /\ next' = next + 1
    BY <1>2 DEF StoreFails
  <2>4. x \in Written(next)
    BY DEF Written
  <2>5. x # <<>> <=> n > 0
    <3>1. Size[next] \in Nat
      BY <2>3, SizeFacts
    <3>2. CASE n > 0
      <4>1. 1 \in Int /\ n \in Int /\ \A i \in 1..n : i \in 1..Size[next]
        BY <3>1
      <4>2. \A i \in 1..n : Line(next)[i] \in Bytes
        BY <4>1, <2>3, TextFacts, ByteFacts
      <4>3. Len(x) = IF 1 <= n THEN n - 1 + 1 ELSE 0
        BY <4>1, <4>2, SubSeqProperties
      <4>4. Len(x) # 0
        <5> HIDE DEF x
        <5> QED BY <3>1, <3>2, <4>3
      <4> HIDE DEF x
      <4> QED BY <3>2, <4>4
    <3>3. CASE ~(n > 0)
      <4>1. 1 \in Int /\ n \in Int /\ n < 1
        BY <3>1, <3>3
      <4> QED BY <3>3, <4>1, SubSeqEmpty
    <3> QED BY <3>2, <3>3
  <2> HIDE DEF x
  <2>6. Continues(x) \/ Rotates(x)
    BY <2>2, WriteKinds DEF x
  <2>7. ASSUME x = <<>>, ~Rotates(x) PROVE FALSE
    <3>1. Continues(x) /\ r.log # log /\ log' = r.log \o x
      BY <2>2, <2>5, <2>6, <2>7 DEF Write, x
    <3>2. log' = log /\ r.log \in {log, <<>>}
      <4>1. log \in Seq(Bytes) /\ log \o <<>> = log
        BY ConcatEmptySeq DEF MemoryTypeOK
      <4>2. r.log \in {log, <<>>}
        BY DEF Rotations
      <4> QED BY <3>1, <4>1, <4>2, <2>7 DEF Continues
    <3>3. r.log = <<>> /\ log' = <<>>
      <4>1. r.log = <<>>
        BY <3>1, <3>2
      <4>2. <<>> \o <<>> = <<>>
        OBVIOUS
      <4> QED BY <4>1, <4>2, <3>1, <2>7
    <3> QED BY <3>1, <3>2, <3>3
  <2> QED BY <1>2, <2>2, <2>3, <2>4, <2>5, <2>6, <2>7
<1> QED BY <1>1, <1>2

\* Store keeps the types.
LEMMA StoreType ==
  ASSUME MemoryTypeOK, StoreTurn \/ StoreFails
  PROVE  MemoryTypeOK'
<1>1. PICK x \in Written(next) :
        /\ Continues(x) \/ Rotates(x)
        /\ ~StoreTurn => /\ torn' = IF x # <<>> THEN torn + 1 ELSE torn
                         /\ x # <<>> => torn < MaxTorn
  BY StoreKinds
<1>2. next \in Turns /\ next' = next + 1 /\ next \in Nat
  BY StoreKinds, TurnLogAssumption
<1>3. x \in Seq(Bytes)
  BY <1>2, WrittenFacts
<1>4. log' \in Seq(Bytes) /\ mark' \in Nat /\ archives' \subseteq Seq(Bytes) /\ stale' \in BOOLEAN
  BY <1>1, <1>3, TypeOfWrite
<1>5. /\ UNCHANGED <<spawned, busy, work, clearing, edges, profile,
                    consolidated, suspect, cleared, spared>>
      /\ checks' \in Nat /\ acked' \subseteq Turns
  BY <1>2 DEF StoreTurn, StoreFails, graphVars, MemoryTypeOK
<1>6. torn' \in 0..MaxTorn
  <2>1. MaxTorn \in Nat /\ torn \in 0..MaxTorn
    BY MemoryAssumption DEF MemoryTypeOK
  <2>2. CASE StoreTurn
    BY <2>1, <2>2 DEF StoreTurn
  <2>3. CASE ~StoreTurn
    BY <1>1, <2>1, <2>3
  <2> QED BY <2>2, <2>3
<1> QED BY <1>2, <1>4, <1>5, <1>6 DEF MemoryTypeOK

\* So does every step of a consolidation.
LEMMA ConsolidateType ==
  ASSUME MemoryTypeOK, NEW w \in Workers,
         StartWork(w) \/ ModelFails(w) \/ WriteEdges(w) \/ WriteProfile(w) \/ MarkConsolidated(w)
  PROVE  MemoryTypeOK'
<1>1. CASE StartWork(w)
  <2>1. spawned' \in Nat
    BY <1>1 DEF StartWork, MemoryTypeOK
  <2>2. busy' \in BOOLEAN /\ work' \in [Workers -> Extractions \union {Resting}]
    <3> DEFINE e == [step |-> "asked", turns |-> ToSet(Pending), mark |-> NextMark, gone |-> FALSE]
    <3>1. e \in Extractions
      BY PendingFacts DEF Extractions, MemoryTypeOK
    <3>2. (busy' = busy /\ work' = work) \/ (busy' = TRUE /\ work' = [work EXCEPT ![w] = e])
      <4>1. CASE Pending = <<>>
        BY <1>1, <4>1 DEF StartWork
      <4>2. CASE Pending # <<>>
        BY <1>1, <4>2 DEF StartWork
      <4> QED BY <4>1, <4>2
    <3> HIDE DEF e
    <3> QED BY <3>1, <3>2 DEF MemoryTypeOK
  <2> QED BY <1>1, <2>1, <2>2 DEF StartWork, MemoryTypeOK, fileVars, graphVars, historyVars
<1>2. CASE ModelFails(w)
  BY <1>2 DEF ModelFails, LeaveGuard, MemoryTypeOK, fileVars, graphVars, historyVars
<1>3. ASSUME NEW step \in {"edges", "profile"}, GoTo(w, step), Working(w)
      PROVE  work' \in [Workers -> Extractions \union {Resting}] /\ busy' \in BOOLEAN
  <2>1. work[w] \in Extractions
    BY <1>3, BatchShape
  <2>2. [work[w] EXCEPT !.step = step] \in Extractions
    BY <2>1 DEF Extractions
  <2> QED BY <2>2, <1>3 DEF GoTo, MemoryTypeOK
<1>4. CASE WriteEdges(w)
  <2>1. Working(w)
    BY <1>4, BatchShape DEF WriteEdges
  <2>2. work' \in [Workers -> Extractions \union {Resting}] /\ busy' \in BOOLEAN
    BY <1>3, <1>4, <2>1 DEF WriteEdges
  <2>3. edges' \in [Turns -> 0..2]
    <3>1. PICK named \in SUBSET work[w].turns :
            edges' = [t \in Turns |-> IF t \in named THEN Min({2, edges[t] + 1}) ELSE edges[t]]
      BY <1>4 DEF WriteEdges
    <3>2. \A t \in Turns : Min({2, edges[t] + 1}) \in 0..2
      <4>1. \A n \in 0..2 : Min({2, n + 1}) \in 0..2
        BY DEF Min
      <4> QED BY <4>1 DEF MemoryTypeOK
    <3> QED BY <3>1, <3>2 DEF MemoryTypeOK
  <2> QED BY <1>4, <2>2, <2>3 DEF WriteEdges, MemoryTypeOK, fileVars, historyVars
<1>5. CASE WriteProfile(w)
  <2>1. Working(w)
    BY <1>5, BatchShape DEF WriteProfile
  <2>2. work' \in [Workers -> Extractions \union {Resting}] /\ busy' \in BOOLEAN
    BY <1>3, <1>5, <2>1 DEF WriteProfile
  <2>3. profile' \subseteq Turns
    BY <1>5, <2>1, BatchShape DEF WriteProfile, MemoryTypeOK
  <2> QED BY <1>5, <2>2, <2>3 DEF WriteProfile, MemoryTypeOK, fileVars, historyVars
<1>6. CASE MarkConsolidated(w)
  <2>1. Working(w)
    BY <1>6, BatchShape DEF MarkConsolidated
  <2>2. work[w].turns \in SUBSET Turns /\ work[w].mark \in Nat /\ work[w].gone \in BOOLEAN
    BY <2>1, BatchShape
  <2>3. /\ mark' \in Nat /\ stale' \in BOOLEAN
        /\ consolidated' \subseteq Turns /\ suspect' \subseteq Turns
    BY <1>6, <2>2 DEF MarkConsolidated, MarkTo, MemoryTypeOK
  <2>4. work' \in [Workers -> Extractions \union {Resting}] /\ busy' \in BOOLEAN
    BY <1>6 DEF MarkConsolidated, LeaveGuard, MemoryTypeOK
  <2> QED BY <1>6, <2>3, <2>4 DEF MarkConsolidated, MemoryTypeOK, graphVars
<1> QED BY <1>1, <1>2, <1>4, <1>5, <1>6

\* So does the removal of the files.
LEMMA ClearFilesType == ASSUME MemoryTypeOK, ClearFiles PROVE MemoryTypeOK'
<1>1. PICK files \in SUBSET AllFiles :
       /\ RemoveAll(files)
       /\ stale' = (files # AllFiles /\ (stale \/ (files # {} /\ mark > 0)))
       /\ clearing' = [step |-> "edges", turns |-> Stored,
                       spared |-> InHand, failed |-> files # AllFiles]
       /\ consolidated' = IF "history" \in files THEN {} ELSE consolidated
       /\ suspect' = IF "history" \in files THEN {} ELSE suspect
       /\ work' = [w \in Workers |-> IF work[w] = Resting \/ "history" \notin files THEN work[w]
                                     ELSE [work[w] EXCEPT !.gone = TRUE]]
  BY DEF ClearFiles
<1>2. log' \in Seq(Bytes) /\ mark' \in Nat /\ archives' \subseteq Seq(Bytes)
  BY <1>1 DEF RemoveAll, MemoryTypeOK
<1>3. stale' \in BOOLEAN
  BY <1>1 DEF MemoryTypeOK
<1>4. clearing' \in Clears
  <2>1. Stored \subseteq Turns
    BY StoredIs DEF MemoryTypeOK
  <2>2. InHand \subseteq Turns
    BY BatchShape DEF InHand, Working
  <2>3. (files # AllFiles) \in BOOLEAN
    OBVIOUS
  <2> QED BY <1>1, <2>1, <2>2, <2>3 DEF Clears
<1>5. work' \in [Workers -> Extractions \union {Resting}]
  <2>1. ASSUME NEW e \in Extractions PROVE [e EXCEPT !.gone = TRUE] \in Extractions
    BY DEF Extractions
  <2> QED BY <1>1, <2>1 DEF MemoryTypeOK
<1>6. consolidated' \subseteq Turns /\ suspect' \subseteq Turns
  BY <1>1 DEF MemoryTypeOK
<1>7. /\ acked' = {}
      /\ UNCHANGED <<next, checks, spawned, busy, edges, profile, torn, cleared, spared>>
  BY DEF ClearFiles, graphVars
<1> QED BY <1>2, <1>3, <1>4, <1>5, <1>6, <1>7 DEF MemoryTypeOK

\* So does every other step.
LEMMA OthersType ==
  ASSUME MemoryTypeOK,
         CheckPending \/ SkipWork \/ ClearEdges \/ ClearProfile \/ ServerStops
  PROVE  MemoryTypeOK'
<1>1. CASE CheckPending
  BY <1>1 DEF CheckPending, MemoryTypeOK, fileVars, graphVars, historyVars
<1>2. CASE SkipWork
  BY <1>2 DEF SkipWork, MemoryTypeOK, fileVars, graphVars, historyVars
<1>3. CASE ClearEdges
  <2>1. clearing \in Clears
    BY <1>3, ClearingShape DEF ClearEdges
  <2>2. clearing' \in Clears
    BY <1>3, <2>1 DEF ClearEdges, Clears
  <2>3. edges' \in [Turns -> 0..2]
    BY <1>3 DEF ClearEdges, MemoryTypeOK
  <2> QED BY <1>3, <2>2, <2>3 DEF ClearEdges, MemoryTypeOK, fileVars, historyVars
<1>4. CASE ClearProfile
  <2>1. clearing.turns \subseteq Turns /\ clearing.spared \subseteq Turns
    BY <1>4, ClearingShape DEF ClearProfile
  <2>2. profile' \subseteq Turns /\ cleared' \subseteq Turns /\ spared' \subseteq Turns
    BY <1>4, <2>1 DEF ClearProfile, MemoryTypeOK
  <2> QED BY <1>4, <2>2 DEF ClearProfile, MemoryTypeOK, fileVars
<1>5. CASE ServerStops
  <2>1. suspect' \subseteq Turns
    <3>1. \A w \in Workers : work[w].step \in {"edges", "profile"} => work[w].turns \subseteq Turns
      BY BatchShape
    <3> QED BY <1>5, <3>1 DEF ServerStops, MemoryTypeOK
  <2> QED BY <1>5, <2>1 DEF ServerStops, MemoryTypeOK, fileVars, graphVars
<1> QED BY <1>1, <1>2, <1>3, <1>4, <1>5

\* Every step keeps the types.
LEMMA MemoryTypeStep == MemoryTypeOK /\ [MemoryNext]_memoryVars => MemoryTypeOK'
<1> SUFFICES ASSUME MemoryTypeOK, [MemoryNext]_memoryVars PROVE MemoryTypeOK'
  OBVIOUS
<1>1. CASE UNCHANGED memoryVars
  BY <1>1 DEF memoryVars, fileVars, graphVars, historyVars, MemoryTypeOK
<1>2. CASE MemoryNext
  BY <1>2, StoreType, ConsolidateType, ClearFilesType, OthersType DEF MemoryNext
<1> QED BY <1>1, <1>2

-----------------------------------------------------------------------------
(* Store. *)

\* What a Store changes in the files.
FilesGrow ==
  /\ Stored \subseteq Stored' /\ Stored' \subseteq Stored \union {next}
  /\ BytesOf(log') \subseteq BytesOf(log) \union {next}
  /\ ~stale' =>
       /\ ~stale
       /\ mark' <= Len(log') /\ Boundary(log', mark')
       /\ Before(log', mark') \subseteq consolidated
       /\ \A a \in archives' : TurnsOf(a) \subseteq consolidated
       /\ After(log', mark') \subseteq After(log, mark) \union {next}
       /\ \A w \in Workers : Working(w) /\ ~work[w].gone =>
            /\ mark' < work[w].mark /\ work[w].mark <= Len(log') /\ Boundary(log', work[w].mark)
            /\ Before(log', work[w].mark) \subseteq Before(log', mark') \union work[w].turns
            /\ After(log', work[w].mark) \subseteq After(log, work[w].mark) \union {next}

\* A Store that adds to the log only adds to what the files hold.
LEMMA ContinueGrows ==
  ASSUME MemoryInv, next \in Turns, NEW x \in Written(next), Continues(x)
  PROVE  FilesGrow
<1>1. /\ log \in Seq(Bytes) /\ mark \in Nat /\ archives \subseteq Seq(Bytes)
      /\ next \notin Numbered /\ BytesOf(log) \subseteq Numbered
  BY NextTurn DEF MemoryInv, MemoryTypeOK, Numbers
<1>2. log' = log \o x /\ mark' = mark /\ archives' = archives /\ stale' = stale
  BY DEF Continues
<1>3. x \in Seq(Bytes) /\ Len(x) \in Nat /\ Len(log) \in Nat
  BY <1>1, WrittenFacts
<1>4. /\ log' \in Seq(Bytes) /\ Len(log') = Len(log) + Len(x)
      /\ TurnsOf(log) \subseteq TurnsOf(log')
      /\ TurnsOf(log') \subseteq TurnsOf(log) \union {next}
      /\ BytesOf(log') \subseteq BytesOf(log) \union {next}
      /\ \A m \in 0..Len(log) :
           /\ Boundary(log, m) => Boundary(log', m)
           /\ Before(log', m) = Before(log, m)
           /\ After(log', m) \subseteq After(log, m) \union {next}
  <2>1. next \notin BytesOf(log)
    BY <1>1
  <2> QED BY <1>1, <1>2, <2>1, AppendFacts
<1>5. Stored' = TurnsOf(log') \union UNION {TurnsOf(a) : a \in archives'}
  <2>1. \A a \in archives : TurnsIn(a) = TurnsOf(a)
    BY <1>1, TurnsInIs
  <2>2. TurnsIn(log') = TurnsOf(log')
    BY <1>4, TurnsInIs
  <2>3. {TurnsIn(a) : a \in archives} = {TurnsOf(a) : a \in archives}
    BY <2>1
  <2> QED BY <1>2, <2>2, <2>3 DEF Stored
<1>6. Stored = TurnsOf(log) \union UNION {TurnsOf(a) : a \in archives}
  BY <1>1, StoredIs
<1>7. Stored \subseteq Stored' /\ Stored' \subseteq Stored \union {next}
  BY <1>2, <1>4, <1>5, <1>6
<1>8. ASSUME ~stale
      PROVE  /\ mark' <= Len(log') /\ Boundary(log', mark')
             /\ Before(log', mark') \subseteq consolidated
             /\ \A a \in archives' : TurnsOf(a) \subseteq consolidated
             /\ After(log', mark') \subseteq After(log, mark) \union {next}
  <2>1. /\ mark <= Len(log) /\ Boundary(log, mark) /\ Before(log, mark) \subseteq consolidated
        /\ \A a \in archives : TurnsOf(a) \subseteq consolidated
    BY <1>8 DEF MemoryInv, MarkInv
  <2>2. mark \in 0..Len(log) /\ mark <= Len(log')
    BY <2>1, <1>1, <1>3, <1>4
  <2> QED BY <2>1, <2>2, <1>2, <1>4
<1>9. ASSUME ~stale, NEW w \in Workers, Working(w), ~work[w].gone
      PROVE  /\ mark' < work[w].mark /\ work[w].mark <= Len(log') /\ Boundary(log', work[w].mark)
             /\ Before(log', work[w].mark) \subseteq Before(log', mark') \union work[w].turns
             /\ After(log', work[w].mark) \subseteq After(log, work[w].mark) \union {next}
  <2> DEFINE m == work[w].mark
  <2>1. /\ mark < m /\ m <= Len(log) /\ Boundary(log, m)
        /\ Before(log, m) \subseteq Before(log, mark) \union work[w].turns
    BY <1>9 DEF MemoryInv, BatchInv, BatchOK
  <2>2. m \in Nat
    BY <1>9, BatchShape DEF MemoryInv
  <2> HIDE DEF m
  <2>3. m \in 0..Len(log) /\ mark \in 0..Len(log) /\ m <= Len(log')
    BY <2>1, <2>2, <1>1, <1>3, <1>4
  <2>4. /\ mark' < m /\ m <= Len(log') /\ Boundary(log', m)
        /\ Before(log', m) \subseteq Before(log', mark') \union work[w].turns
        /\ After(log', m) \subseteq After(log, m) \union {next}
    BY <2>1, <2>3, <1>2, <1>4
  <2> QED BY <2>4 DEF m
<1> QED BY <1>2, <1>4, <1>7, <1>8, <1>9 DEF FilesGrow

\* So does a Store that archives it: MayRotate sees to it that nothing in it is pending.
LEMMA RotateGrows ==
  ASSUME MemoryInv, next \in Turns, NEW x \in Written(next), Rotates(x)
  PROVE  FilesGrow
<1>1. /\ log \in Seq(Bytes) /\ mark \in Nat /\ archives \subseteq Seq(Bytes)
      /\ Len(log) \in Nat
  BY DEF MemoryInv, MemoryTypeOK
<1>2. /\ log' = <<>> \o x /\ archives' = archives \union {log}
      /\ mark >= Len(log) /\ (~stale' => ~stale /\ mark' = 0)
  BY DEF Rotates, MayRotate
<1>3. x \in Seq(Bytes) /\ Len(x) \in Nat
  BY WrittenFacts
<1>4. /\ log' \in Seq(Bytes)
      /\ TurnsOf(log') \subseteq {next}
      /\ BytesOf(log') \subseteq {next}
      /\ Boundary(log', 0) /\ Before(log', 0) = {} /\ After(log', 0) \subseteq {next}
      /\ Len(log') \in Nat
  <2> DEFINE b == <<>>
  <2>1. b \in Seq(Bytes) /\ Len(b) = 0 /\ TurnsOf(b) = {} /\ BytesOf(b) = {}
        /\ Boundary(b, 0) /\ Before(b, 0) = {} /\ After(b, 0) = {}
    BY NothingThere
  <2>2. log' = b \o x
    BY <1>2
  <2> HIDE DEF b
  <2>3. next \notin BytesOf(b) /\ 0 \in 0..Len(b)
    BY <2>1
  <2>4. /\ log' \in Seq(Bytes)
        /\ TurnsOf(log') \subseteq TurnsOf(b) \union {next}
        /\ BytesOf(log') \subseteq BytesOf(b) \union {next}
        /\ \A m \in 0..Len(b) :
             /\ Boundary(b, m) => Boundary(log', m)
             /\ Before(log', m) = Before(b, m)
             /\ After(log', m) \subseteq After(b, m) \union {next}
    <3>1. /\ b \o x \in Seq(Bytes)
          /\ TurnsOf(b \o x) \subseteq TurnsOf(b) \union {next}
          /\ BytesOf(b \o x) \subseteq BytesOf(b) \union {next}
          /\ \A m \in 0..Len(b) :
               /\ Boundary(b, m) => Boundary(b \o x, m)
               /\ Before(b \o x, m) = Before(b, m)
               /\ After(b \o x, m) \subseteq After(b, m) \union {next}
      BY <2>1, <2>3, AppendFacts
    <3> QED BY <2>2, <3>1
  <2> QED BY <2>1, <2>3, <2>4
<1>5. Stored' = TurnsOf(log') \union (TurnsOf(log) \union UNION {TurnsOf(a) : a \in archives})
  <2>1. \A a \in archives' : TurnsIn(a) = TurnsOf(a)
    BY <1>1, <1>2, TurnsInIs
  <2>2. TurnsIn(log') = TurnsOf(log')
    BY <1>4, TurnsInIs
  <2>3. {TurnsIn(a) : a \in archives'} = {TurnsOf(a) : a \in archives'}
    BY <2>1
  <2>4. UNION {TurnsOf(a) : a \in archives'} =
          TurnsOf(log) \union UNION {TurnsOf(a) : a \in archives}
    BY <1>2
  <2> QED BY <2>2, <2>3, <2>4 DEF Stored
<1>6. Stored = TurnsOf(log) \union UNION {TurnsOf(a) : a \in archives}
  BY <1>1, StoredIs
<1>7. Stored \subseteq Stored' /\ Stored' \subseteq Stored \union {next}
  BY <1>4, <1>5, <1>6
<1>8. ASSUME ~stale'
      PROVE  /\ mark' <= Len(log') /\ Boundary(log', mark')
             /\ Before(log', mark') \subseteq consolidated
             /\ \A a \in archives' : TurnsOf(a) \subseteq consolidated
             /\ After(log', mark') \subseteq After(log, mark) \union {next}
             /\ \A w \in Workers : Working(w) => work[w].gone
  <2>1. /\ ~stale /\ mark' = 0
        /\ mark <= Len(log) /\ Before(log, mark) \subseteq consolidated
        /\ \A a \in archives : TurnsOf(a) \subseteq consolidated
    BY <1>2, <1>8 DEF MemoryInv, MarkInv
  <2>2. mark = Len(log)
    BY <2>1, <1>1, <1>2
  <2>3. TurnsOf(log) \subseteq consolidated
    BY <2>1, <2>2, <1>1, AtTheEnd
  <2>4. ASSUME NEW w \in Workers, Working(w), ~work[w].gone PROVE FALSE
    <3>1. mark < work[w].mark /\ work[w].mark <= Len(log) /\ work[w].mark \in Nat
      BY <2>1, <2>4, BatchShape DEF MemoryInv, BatchInv, BatchOK
    <3> QED BY <3>1, <2>2, <1>1
  <2> QED BY <2>1, <2>3, <2>4, <1>2, <1>4
<1> QED BY <1>2, <1>4, <1>7, <1>8 DEF FilesGrow

\* So does every Store.
LEMMA StoreGrows ==
  ASSUME MemoryInv, StoreTurn \/ StoreFails
  PROVE  FilesGrow
BY StoreKinds, ContinueGrows, RotateGrows DEF MemoryInv

\* What else a Store changes: nothing the other conjuncts speak of.
LEMMA StoreFrame ==
  ASSUME StoreTurn \/ StoreFails
  PROVE  /\ next' = next + 1
         /\ UNCHANGED <<spawned, busy, work, clearing, edges, profile,
                        consolidated, suspect, cleared, spared>>
         /\ acked' \subseteq acked \union {next}
BY DEF StoreTurn, StoreFails, graphVars

\* Store keeps the invariant, but for the count of torn writes.
LEMMA StoreInvs ==
  ASSUME MemoryInv, StoreTurn \/ StoreFails
  PROVE  /\ Numbers' /\ Single' /\ MarkInv' /\ BatchInv' /\ EdgesInv' /\ ClearInv'
<1>1. FilesGrow
  BY StoreGrows
<1>2. /\ next' = next + 1
      /\ spawned' = spawned /\ busy' = busy /\ work' = work /\ clearing' = clearing
      /\ edges' = edges /\ profile' = profile /\ consolidated' = consolidated
      /\ suspect' = suspect /\ cleared' = cleared /\ spared' = spared
      /\ acked' \subseteq acked \union {next}
  BY StoreFrame
<1>3. /\ next \notin Numbered /\ Numbered' = Numbered \union {next} /\ next \in Turns
      /\ MemoryTypeOK
  BY <1>2, StoreKinds, NextTurn DEF MemoryInv, Numbered
<1>4. \A w \in Workers : Working(w)' <=> Working(w)
  BY <1>2 DEF Working
<1>5. Numbers
  BY DEF MemoryInv
<1>6. Numbers'
  <2>1. BytesOf(log') \subseteq Numbered' /\ Stored' \subseteq Numbered'
    BY <1>1, <1>3, <1>5 DEF FilesGrow, Numbers
  <2>2. /\ acked' \subseteq Numbered' /\ consolidated' \subseteq Numbered'
        /\ cleared' \subseteq Numbered'
    BY <1>2, <1>3, <1>5 DEF Numbers
  <2>3. \A w \in Workers : Working(w) => work[w].turns \subseteq Numbered'
    BY <1>3, <1>5 DEF Numbers
  <2>4. clearing # Resting => clearing.turns \subseteq Numbered'
    BY <1>3, <1>5 DEF Numbers
  <2>5. \A t \in Turns : t \notin Numbered' => edges[t] = 0
    BY <1>3, <1>5 DEF Numbers
  <2> QED BY <2>1, <2>2, <2>3, <2>4, <2>5, <1>2, <1>4 DEF Numbers
<1>7. Single'
  BY <1>2, <1>4 DEF MemoryInv, Single
<1>8. MarkInv'
  <2>1. ~stale => After(log, mark) \intersect consolidated = {}
    BY DEF MemoryInv, MarkInv
  <2>2. next \notin consolidated
    BY <1>3, <1>5 DEF Numbers
  <2>3. ~stale' => After(log', mark') \intersect consolidated = {}
    BY <2>1, <2>2, <1>1 DEF FilesGrow
  <2> QED BY <2>3, <1>1, <1>2 DEF FilesGrow, MarkInv
<1>9. BatchInv'
  <2>1. ASSUME NEW w \in Workers, Working(w) PROVE BatchOK(work[w])'
    <3>1. BatchOK(work[w]) /\ next \notin work[w].turns
      BY <2>1, <1>3, <1>5 DEF MemoryInv, BatchInv, Numbers
    <3>2. work[w].gone => work[w].turns \intersect Stored' = {}
      BY <3>1, <1>1 DEF FilesGrow, BatchOK
    <3>3. ASSUME ~stale', ~work[w].gone
          PROVE  /\ mark' < work[w].mark /\ work[w].mark <= Len(log')
                 /\ Boundary(log', work[w].mark)
                 /\ Before(log', work[w].mark) \subseteq Before(log', mark') \union work[w].turns
                 /\ After(log', work[w].mark) \intersect work[w].turns = {}
                 /\ work[w].turns \intersect consolidated = {}
      <4>1. ~stale
        BY <1>1, <3>3 DEF FilesGrow
      <4>2. /\ After(log, work[w].mark) \intersect work[w].turns = {}
            /\ work[w].turns \intersect consolidated = {}
        BY <3>1, <3>3, <4>1 DEF BatchOK
      <4>3. After(log', work[w].mark) \subseteq After(log, work[w].mark) \union {next}
        BY <1>1, <2>1, <3>3 DEF FilesGrow
      <4>4. /\ mark' < work[w].mark /\ work[w].mark <= Len(log') /\ Boundary(log', work[w].mark)
            /\ Before(log', work[w].mark) \subseteq Before(log', mark') \union work[w].turns
        BY <1>1, <2>1, <3>3 DEF FilesGrow
      <4> QED BY <3>1, <4>2, <4>3, <4>4
    <3> QED BY <3>2, <3>3, <1>2 DEF BatchOK
  <2> QED BY <2>1, <1>2, <1>4 DEF BatchInv
<1>10. EdgesInv'
  <2>1. HalfDone' = HalfDone
    BY <1>2, <1>4 DEF HalfDone
  <2>2. edges[next] = 0
    BY <1>3, <1>5 DEF Numbers
  <2>3. ~stale' => ~stale
    BY <1>1 DEF FilesGrow
  <2>4. ASSUME ~stale', NEW t \in Stored' \ suspect
        PROVE  edges[t] <= 1 /\ (edges[t] = 1 => t \in consolidated \union HalfDone)
    <3>1. t \in Stored \ suspect \/ t = next
      BY <2>4, <1>1 DEF FilesGrow
    <3>2. CASE t = next
      BY <3>2, <2>2
    <3>3. CASE t \in Stored \ suspect
      BY <3>3, <2>3, <2>4 DEF MemoryInv, EdgesInv
    <3> QED BY <3>1, <3>2, <3>3
  <2> QED BY <2>1, <2>4, <1>2 DEF EdgesInv
<1>11. ClearInv'
  <2>1. ClearInv
    BY DEF MemoryInv
  <2>2. BytesOf(log') \intersect cleared = {}
    BY <2>1, <1>1, <1>3, <1>5 DEF ClearInv, FilesGrow, Numbers
  <2>3. Remembered' = Remembered
    BY <1>2 DEF Remembered
  <2>4. clearing # Resting /\ ~clearing.failed => BytesOf(log') \intersect clearing.turns = {}
    BY <2>1, <1>1, <1>3, <1>5 DEF ClearInv, FilesGrow, Numbers
  <2> QED BY <2>1, <2>2, <2>3, <2>4, <1>2, <1>4 DEF ClearInv
<1> QED BY <1>6, <1>7, <1>8, <1>9, <1>10, <1>11

\* A set with at most one element more.
LEMMA OneMore ==
  ASSUME NEW S, IsFiniteSet(S), NEW T, NEW e, T \subseteq S \union {e}
  PROVE  /\ Cardinality(S) \in Nat /\ Cardinality(T) \in Nat
         /\ Cardinality(T) <= Cardinality(S) + 1
         /\ T \subseteq S => Cardinality(T) <= Cardinality(S)
<1>1. IsFiniteSet(S \union {e}) /\ Cardinality(S \union {e}) <= Cardinality(S) + 1
  <2>1. IsFiniteSet(S \union {e})
    BY FS_AddElement
  <2>2. Cardinality(S) \in Nat
    BY FS_CardinalityType
  <2>3. CASE e \in S
    <3>1. S \union {e} = S
      BY <2>3
    <3> QED BY <3>1, <2>1, <2>2
  <2>4. CASE e \notin S
    <3>1. Cardinality(S \union {e}) = Cardinality(S) + 1
      BY <2>4, FS_AddElement
    <3> QED BY <3>1, <2>1, <2>2
  <2> QED BY <2>3, <2>4
<1>2. IsFiniteSet(T) /\ Cardinality(T) <= Cardinality(S \union {e})
  BY <1>1, FS_Subset
<1>3. T \subseteq S => Cardinality(T) <= Cardinality(S)
  BY FS_Subset
<1>4. /\ Cardinality(S) \in Nat /\ Cardinality(T) \in Nat
      /\ Cardinality(S \union {e}) \in Nat
  BY <1>1, <1>2, FS_CardinalityType
<1> QED BY <1>1, <1>2, <1>3, <1>4

\* There are only so many turns to lose.
LEMMA AckedFinite ==
  ASSUME MemoryInv
  PROVE  IsFiniteSet(acked \ Stored)
<1>1. next - 1 \in Int /\ 1 \in Int
  BY DEF MemoryInv, MemoryTypeOK
<1>2. IsFiniteSet(Numbered)
  BY <1>1, FS_Interval DEF Numbered
<1>3. acked \ Stored \subseteq Numbered
  BY DEF MemoryInv, Numbers
<1> QED BY <1>2, <1>3, FS_Subset

\* Store keeps the count of torn writes: only a write that is glued to a torn one is lost.
LEMMA StoreTorn ==
  ASSUME MemoryInv, StoreTurn \/ StoreFails
  PROVE  TornInv'
<1> DEFINE S == acked \ Stored
           T == acked' \ Stored'
<1>1. PICK x \in Written(next) :
        /\ Continues(x) \/ Rotates(x)
        /\ StoreTurn => x = Line(next)
        /\ ~StoreTurn => /\ torn' = IF x # <<>> THEN torn + 1 ELSE torn
                         /\ x # <<>> => torn < MaxTorn
                         /\ x = <<>> => Rotates(x)
  BY StoreKinds DEF MemoryInv
<1>2. FilesGrow /\ next \in Turns
  BY StoreGrows, StoreKinds DEF MemoryInv
<1>3. IsFiniteSet(S)
  BY AckedFinite
<1>4. torn \in Nat /\ Cardinality(S) + Unfinished <= torn /\ log \in Seq(Bytes)
      /\ Unfinished \in {0, 1} /\ Unfinished' \in {0, 1}
  BY MemoryAssumption DEF MemoryInv, MemoryTypeOK, TornInv, Unfinished
<1>5. CASE StoreTurn
  <2>1. acked' = acked \union {next} /\ torn' = torn
    BY <1>5 DEF StoreTurn
  <2>2. T \subseteq S \union {next}
    BY <2>1, <1>2 DEF FilesGrow
  <2>3. /\ Cardinality(S) \in Nat /\ Cardinality(T) \in Nat
        /\ Cardinality(T) <= Cardinality(S) + 1
        /\ T \subseteq S => Cardinality(T) <= Cardinality(S)
    <3> HIDE DEF S, T
    <3> QED BY <2>2, <1>3, OneMore
  <2>4. \A b \in Seq(Bytes) : log' = b \o x => Boundary(log', Len(log'))
    BY <1>1, <1>2, <1>5, AppendLine
  <2>5. Unfinished' = 0
    <3>1. <<>> \in Seq(Bytes)
      OBVIOUS
    <3> QED BY <1>1, <1>4, <2>4, <3>1 DEF Continues, Rotates, Unfinished
  <2>6. ASSUME Unfinished = 0 PROVE T \subseteq S
    <3>1. next \in TurnsOf(log')
      <4>1. CASE Continues(x)
        <5>1. Boundary(log, Len(log)) /\ log' = log \o Line(next)
          BY <1>1, <1>5, <2>6, <4>1 DEF Continues, Unfinished
        <5> QED BY <5>1, <1>2, <1>4, AppendLine
      <4>2. CASE Rotates(x)
        <5> DEFINE b == <<>>
        <5>1. b \in Seq(Bytes) /\ Boundary(b, Len(b)) /\ log' = b \o Line(next)
          BY <1>1, <1>5, <4>2, NothingThere DEF Rotates
        <5> HIDE DEF b
        <5>2. next \in TurnsOf(b \o Line(next))
          BY <5>1, <1>2, AppendLine
        <5> QED BY <5>1, <5>2
      <4> QED BY <1>1, <4>1, <4>2
    <3>2. TurnsIn(log') = TurnsOf(log')
      <4>1. x \in Seq(Bytes)
        BY <1>1, <1>2, WrittenFacts
      <4>2. log' \in Seq(Bytes)
        BY <4>1, <1>1, TypeOfWrite DEF MemoryInv
      <4> QED BY <4>2, TurnsInIs
    <3>3. next \in Stored'
      BY <3>1, <3>2 DEF Stored
    <3> QED BY <3>3, <2>1, <1>2 DEF FilesGrow
  <2> HIDE DEF S, T
  <2>7. Cardinality(T) + Unfinished' <= torn'
    BY <2>1, <2>3, <2>5, <2>6, <1>4
  <2> QED BY <2>7 DEF TornInv, T
<1>6. CASE ~StoreTurn
  <2>1. acked' = acked
    BY <1>6 DEF StoreFails
  <2>2. T \subseteq S
    BY <2>1, <1>2 DEF FilesGrow
  <2>3. /\ Cardinality(S) \in Nat /\ Cardinality(T) \in Nat /\ Cardinality(T) <= Cardinality(S)
    <3> HIDE DEF S, T
    <3>1. T \subseteq S \union {next}
      BY <2>2
    <3> QED BY <2>2, <3>1, <1>3, OneMore
  <2>4. CASE x # <<>>
    <3>1. torn' = torn + 1
      BY <1>1, <1>6, <2>4
    <3> HIDE DEF S, T
    <3>2. Cardinality(T) + Unfinished' <= torn'
      BY <2>3, <3>1, <1>4
    <3> QED BY <3>2 DEF TornInv, T
  <2>5. CASE x = <<>>
    <3>1. torn' = torn /\ log' = <<>>
      <4>1. log' = <<>> \o x
        BY <1>1, <1>6, <2>5 DEF Rotates
      <4>2. <<>> \o <<>> = <<>>
        OBVIOUS
      <4> QED BY <4>1, <4>2, <1>1, <1>6, <2>5
    <3>2. Unfinished' = 0
      BY <3>1, NothingThere DEF Unfinished
    <3> HIDE DEF S, T
    <3>3. Cardinality(T) + Unfinished' <= torn'
      BY <2>3, <3>1, <3>2, <1>4
    <3> QED BY <3>3 DEF TornInv, T
  <2> QED BY <2>4, <2>5
<1> QED BY <1>5, <1>6

-----------------------------------------------------------------------------
(* A consolidation. *)

\* The consolidation in hand is the only one.
LEMMA OnlyOne ==
  ASSUME MemoryInv, NEW w \in Workers, Working(w)
  PROVE  /\ \A v \in Workers : Working(v) => v = w
         /\ HalfDone \subseteq work[w].turns
         /\ work[w].step = "asked" => HalfDone = {}
<1>1. \A v \in Workers : Working(v) => v = w
  BY DEF MemoryInv, Single
<1> QED BY <1>1 DEF HalfDone

\* While the user is not in consolidating nothing is in hand.
LEMMA NoneAtWork ==
  ASSUME MemoryInv, ~busy
  PROVE  HalfDone = {} /\ \A v \in Workers : ~Working(v)
<1>1. \A v \in Workers : ~Working(v)
  BY DEF MemoryInv, Single
<1> QED BY <1>1 DEF HalfDone

\* A step that leaves the log, the archives and the acknowledged turns alone loses none.
LEMMA TornFrame ==
  ASSUME TornInv, UNCHANGED <<log, archives, acked, torn>>
  PROVE  TornInv' /\ Stored' = Stored
BY DEF TornInv, Unfinished, Stored

\* StartWork keeps the invariant: the batch is the lines after the watermark.
LEMMA StartWorkInv ==
  ASSUME MemoryInv, NEW w \in Workers, StartWork(w)
  PROVE  Numbers' /\ Single' /\ MarkInv' /\ BatchInv' /\ EdgesInv' /\ TornInv' /\ ClearInv'
<1> DEFINE e == [step |-> "asked", turns |-> ToSet(Pending), mark |-> NextMark, gone |-> FALSE]
<1>1. /\ UNCHANGED <<log, mark, archives, next, clearing, edges, profile,
                     acked, torn, consolidated, suspect, stale, cleared, spared>>
      /\ ~busy
  BY DEF StartWork, fileVars, graphVars, historyVars
<1>2. /\ HalfDone = {} /\ \A v \in Workers : ~Working(v)
      /\ TornInv' /\ Stored' = Stored
  BY <1>1, NoneAtWork, TornFrame DEF MemoryInv
<1>3. CASE Pending = <<>>
  <2>1. work' = work /\ busy' = busy
    BY <1>3 DEF StartWork
  <2> QED BY <2>1, <1>1, <1>2 DEF MemoryInv, Numbers, Numbered, Single, MarkInv, BatchInv,
        EdgesInv, ClearInv, Working, HalfDone, Remembered
<1>4. CASE Pending # <<>>
  <2>1. busy' = TRUE /\ work' = [work EXCEPT ![w] = e]
    BY <1>4 DEF StartWork
  <2>2. e.step = "asked" /\ e.turns = ToSet(Pending) /\ e.mark = NextMark /\ e.gone = FALSE
    OBVIOUS
  <2> HIDE DEF e
  <2>3. work'[w] = e /\ \A v \in Workers : v # w => work'[v] = work[v]
    BY <2>1 DEF MemoryInv, MemoryTypeOK
  <2>4. \A v \in Workers : Working(v)' => v = w
    BY <2>3, <1>2 DEF Working
  <2>5. log \in Seq(Bytes) /\ mark \in Nat /\ archives \subseteq Seq(Bytes) /\ Len(log) \in Nat
    BY DEF MemoryInv, MemoryTypeOK
  <2>6. ToSet(Pending) \subseteq BytesOf(log)
    BY <2>5, PendingFacts
  <2>7. Numbers'
    <3>1. e.turns \subseteq Numbered
      BY <2>2, <2>6 DEF MemoryInv, Numbers
    <3> QED BY <3>1, <2>3, <2>4, <1>1, <1>2 DEF MemoryInv, Numbers, Numbered
  <2>8. Single'
    BY <2>1, <2>4 DEF Single
  <2>9. MarkInv'
    BY <1>1 DEF MemoryInv, MarkInv
  <2>10. BatchInv'
    <3>1. ASSUME ~stale
          PROVE  /\ mark < e.mark /\ e.mark <= Len(log) /\ Boundary(log, e.mark)
                 /\ Before(log, e.mark) \subseteq Before(log, mark) \union e.turns
                 /\ After(log, e.mark) \intersect e.turns = {}
                 /\ e.turns \intersect consolidated = {}
      <4>1. mark <= Len(log) /\ Boundary(log, mark) /\ After(log, mark) \intersect consolidated = {}
        BY <3>1 DEF MemoryInv, MarkInv
      <4>2. From = mark
        BY <4>1, <2>5 DEF From
      <4>3. /\ ToSet(Pending) = After(log, mark)
            /\ mark < NextMark /\ NextMark <= Len(log) /\ Boundary(log, NextMark)
            /\ NextMark \in Nat
            /\ \A t \in Turns : \A p \in 0..Len(log) : LineAt(log, t, p) => p < NextMark \/ p < mark
        BY <4>1, <4>2, <1>4, <2>5, PendingFacts
      <4>4. Before(log, NextMark) \subseteq Before(log, mark) \union After(log, mark)
        BY <2>5 DEF Before, After
      <4>5. After(log, NextMark) = {}
        BY <4>3, <2>5 DEF After
      <4> QED BY <4>1, <4>3, <4>4, <4>5, <2>2
    <3>2. BatchOK(work[w])'
      BY <3>1, <2>2, <2>3, <1>1 DEF BatchOK
    <3> QED BY <3>2, <2>4 DEF BatchInv
  <2>11. EdgesInv'
    <3>1. HalfDone' = {}
      BY <2>2, <2>3, <2>4 DEF HalfDone
    <3> QED BY <3>1, <1>1, <1>2 DEF MemoryInv, EdgesInv
  <2>12. ClearInv'
    <3>1. ClearInv
      BY DEF MemoryInv
    <3>2. e.turns \intersect cleared = {}
      BY <3>1, <2>2, <2>6 DEF ClearInv
    <3>3. clearing # Resting /\ ~clearing.failed => e.turns \intersect clearing.turns = {}
      BY <3>1, <2>2, <2>6 DEF ClearInv
    <3>4. Remembered' = Remembered
      BY <1>1 DEF Remembered
    <3> QED BY <3>1, <3>2, <3>3, <3>4, <2>3, <2>4, <1>1 DEF ClearInv
  <2> QED BY <2>7, <2>8, <2>9, <2>10, <2>11, <2>12, <1>2
<1> QED BY <1>3, <1>4

\* ModelFails keeps the invariant.
LEMMA ModelFailsInv ==
  ASSUME MemoryInv, NEW w \in Workers, ModelFails(w)
  PROVE  Numbers' /\ Single' /\ MarkInv' /\ BatchInv' /\ EdgesInv' /\ TornInv' /\ ClearInv'
<1>1. /\ UNCHANGED <<log, mark, archives, next, clearing, edges, profile,
                     acked, torn, consolidated, suspect, stale, cleared, spared>>
      /\ work' = [work EXCEPT ![w] = Resting] /\ work[w].step = "asked"
  BY DEF ModelFails, LeaveGuard, fileVars, graphVars, historyVars
<1>2. Working(w)
  BY <1>1, BatchShape DEF MemoryInv
<1>3. /\ HalfDone = {} /\ \A v \in Workers : Working(v) => v = w
      /\ TornInv' /\ Stored' = Stored
  BY <1>1, <1>2, OnlyOne, TornFrame DEF MemoryInv
<1>4. \A v \in Workers : ~(Working(v)')
  BY <1>1, <1>3 DEF MemoryInv, MemoryTypeOK, Working
<1>5. HalfDone' = {}
  BY <1>4 DEF HalfDone
<1>6. Numbers' /\ Single' /\ MarkInv' /\ BatchInv'
  BY <1>1, <1>3, <1>4 DEF MemoryInv, Numbers, Numbered, Single, MarkInv, BatchInv
<1>7. EdgesInv'
  BY <1>1, <1>3, <1>5 DEF MemoryInv, EdgesInv
<1>8. ClearInv'
  BY <1>1, <1>4 DEF MemoryInv, ClearInv, Remembered
<1> QED BY <1>3, <1>6, <1>7, <1>8

\* What a consolidation that goes on to the next table leaves as it is.
LEMMA GoOn ==
  ASSUME MemoryInv, NEW w \in Workers, Working(w), NEW step \in {"edges", "profile"}, GoTo(w, step),
         UNCHANGED <<log, mark, archives, next, clearing,
                     acked, torn, consolidated, suspect, stale, cleared, spared>>
  PROVE  /\ \A v \in Workers : Working(v)' <=> v = w
         /\ work'[w].turns = work[w].turns
         /\ HalfDone' = work[w].turns
         /\ Single' /\ MarkInv' /\ BatchInv' /\ TornInv' /\ Stored' = Stored
<1>1. work[w] \in Extractions /\ work[w].turns \in SUBSET Turns
  BY BatchShape DEF MemoryInv
<1>2. \A v \in Workers : Working(v) => v = w
  BY OnlyOne
<1>3. /\ work' = [work EXCEPT ![w] = [work[w] EXCEPT !.step = step]] /\ busy' = busy
      /\ w \in DOMAIN work
  BY DEF GoTo, MemoryInv, MemoryTypeOK
<1>4. \A v \in Workers : v # w => work'[v] = work[v]
  BY <1>3 DEF MemoryInv, MemoryTypeOK
<1>5. /\ work'[w].step = step /\ work'[w].turns = work[w].turns
      /\ work'[w].mark = work[w].mark /\ work'[w].gone = work[w].gone
  BY <1>1, <1>3 DEF Extractions
<1>6. Resting.step = "idle"
  BY DEF Resting
<1>7. \A v \in Workers : Working(v)' <=> v = w
  BY <1>2, <1>4, <1>5, <1>6 DEF Working
<1>8. HalfDone' = work[w].turns
  BY <1>1, <1>5, <1>7 DEF HalfDone
<1>9. Single'
  BY <1>3, <1>7 DEF MemoryInv, Single
<1>10. MarkInv' /\ TornInv' /\ Stored' = Stored
  BY TornFrame DEF MemoryInv, MarkInv
<1>11. BatchInv'
  <2>1. BatchOK(work[w])
    BY DEF MemoryInv, BatchInv
  <2>2. BatchOK(work[w])'
    BY <2>1, <1>5, <1>10 DEF BatchOK
  <2> QED BY <2>2, <1>7 DEF BatchInv
<1> QED BY <1>5, <1>7, <1>8, <1>9, <1>10, <1>11

\* WriteEdges keeps the invariant: what is counted was not consolidated before.
LEMMA WriteEdgesInv ==
  ASSUME MemoryInv, NEW w \in Workers, WriteEdges(w)
  PROVE  Numbers' /\ Single' /\ MarkInv' /\ BatchInv' /\ EdgesInv' /\ TornInv' /\ ClearInv'
<1>1. /\ UNCHANGED <<log, mark, archives, next, clearing, profile,
                     acked, torn, consolidated, suspect, stale, cleared, spared>>
      /\ GoTo(w, "edges") /\ work[w].step = "asked"
  BY DEF WriteEdges, fileVars, historyVars
<1>2. PICK named \in SUBSET work[w].turns :
        edges' = [t \in Turns |-> IF t \in named THEN Min({2, edges[t] + 1}) ELSE edges[t]]
  BY DEF WriteEdges
<1>3. Working(w)
  BY <1>1, BatchShape DEF MemoryInv
<1>4. /\ \A v \in Workers : Working(v)' <=> v = w
      /\ work'[w].turns = work[w].turns
      /\ HalfDone' = work[w].turns
      /\ Single' /\ MarkInv' /\ BatchInv' /\ TornInv' /\ Stored' = Stored
  BY <1>1, <1>3, GoOn
<1>5. HalfDone = {} /\ edges \in [Turns -> 0..2] /\ Stored \subseteq Turns
  BY <1>1, <1>3, OnlyOne, StoredIs DEF MemoryInv, MemoryTypeOK
<1>6. \A t \in Turns : t \notin named => edges'[t] = edges[t]
  BY <1>2
<1>7. Numbers'
  <2>1. work[w].turns \subseteq Numbered
    BY <1>3 DEF MemoryInv, Numbers
  <2>2. \A t \in Turns : t \notin Numbered => edges'[t] = 0
    BY <2>1, <1>6 DEF MemoryInv, Numbers
  <2> QED BY <2>1, <2>2, <1>1, <1>4 DEF MemoryInv, Numbers, Numbered
<1>8. EdgesInv'
  <2>1. ASSUME ~stale, NEW t \in Stored \ suspect
        PROVE  edges'[t] <= 1 /\ (edges'[t] = 1 => t \in consolidated \union work[w].turns)
    <3>1. edges[t] <= 1 /\ (edges[t] = 1 => t \in consolidated)
      BY <2>1, <1>5 DEF MemoryInv, EdgesInv
    <3>2. CASE t \in named
      <4>1. work[w].turns \intersect Stored # {} /\ BatchOK(work[w])
        BY <3>2, <2>1, <1>3 DEF MemoryInv, BatchInv
      <4>2. t \notin consolidated
        BY <4>1, <3>2, <2>1 DEF BatchOK
      <4>3. edges[t] = 0
        BY <4>2, <3>1, <2>1, <1>5
      <4>4. edges'[t] = Min({2, 0 + 1})
        BY <4>3, <3>2, <2>1, <1>2, <1>5
      <4>5. Min({2, 0 + 1}) = 1
        BY DEF Min
      <4> QED BY <4>4, <4>5, <3>2
    <3>3. CASE t \notin named
      BY <3>1, <3>3, <2>1, <1>5, <1>6
    <3> QED BY <3>2, <3>3
  <2> QED BY <2>1, <1>1, <1>4 DEF EdgesInv
<1>9. ClearInv'
  <2>1. ClearInv
    BY DEF MemoryInv
  <2>2. {t \in Turns : edges'[t] > 0} \subseteq {t \in Turns : edges[t] > 0} \union work[w].turns
    BY <1>6
  <2>3. Remembered' \subseteq Remembered \union work[w].turns
    BY <2>2, <1>1 DEF Remembered
  <2>4. Remembered' \intersect cleared \subseteq spared
    BY <2>1, <2>3, <1>3 DEF ClearInv
  <2>5. clearing # Resting /\ ~clearing.failed /\ clearing.step = "profile" =>
          {t \in Turns : edges'[t] > 0} \intersect clearing.turns \subseteq clearing.spared
    BY <2>1, <2>2, <1>3 DEF ClearInv
  <2>6. \A v \in Workers : Working(v)' => Working(v) /\ work'[v].turns = work[v].turns
    BY <1>3, <1>4
  <2> HIDE DEF ClearInv
  <2> QED BY <2>1, <2>4, <2>5, <2>6, <1>1 DEF ClearInv
<1> QED BY <1>4, <1>7, <1>8, <1>9

\* WriteProfile keeps the invariant.
LEMMA WriteProfileInv ==
  ASSUME MemoryInv, NEW w \in Workers, WriteProfile(w)
  PROVE  Numbers' /\ Single' /\ MarkInv' /\ BatchInv' /\ EdgesInv' /\ TornInv' /\ ClearInv'
<1>1. /\ UNCHANGED <<log, mark, archives, next, clearing, edges,
                     acked, torn, consolidated, suspect, stale, cleared, spared>>
      /\ GoTo(w, "profile") /\ work[w].step = "edges"
      /\ profile' \in {profile, work[w].turns}
  BY DEF WriteProfile, fileVars, historyVars
<1>2. Working(w)
  BY <1>1, BatchShape DEF MemoryInv
<1>3. /\ \A v \in Workers : Working(v)' <=> v = w
      /\ work'[w].turns = work[w].turns
      /\ HalfDone' = work[w].turns
      /\ Single' /\ MarkInv' /\ BatchInv' /\ TornInv' /\ Stored' = Stored
  BY <1>1, <1>2, GoOn
<1>4. HalfDone \subseteq work[w].turns
  BY <1>2, OnlyOne
<1>5. \A v \in Workers : Working(v)' => Working(v) /\ work'[v].turns = work[v].turns
  BY <1>2, <1>3
<1>6. Numbers'
  BY <1>1, <1>3, <1>5 DEF MemoryInv, Numbers, Numbered
<1>7. EdgesInv'
  BY <1>1, <1>3, <1>4 DEF MemoryInv, EdgesInv
<1>8. ClearInv'
  <2>1. Remembered' \subseteq Remembered \union work[w].turns
    BY <1>1 DEF Remembered
  <2>2. Remembered' \intersect cleared \subseteq spared
    BY <2>1, <1>2 DEF MemoryInv, ClearInv
  <2> QED BY <2>2, <1>1, <1>5 DEF MemoryInv, ClearInv
<1> QED BY <1>3, <1>6, <1>7, <1>8

\* MarkConsolidated keeps the invariant: the watermark passes the batch, and nothing else.
LEMMA MarkConsolidatedInv ==
  ASSUME MemoryInv, NEW w \in Workers, MarkConsolidated(w)
  PROVE  Numbers' /\ Single' /\ MarkInv' /\ BatchInv' /\ EdgesInv' /\ TornInv' /\ ClearInv'
<1>1. /\ UNCHANGED <<log, archives, next, clearing, edges, profile, acked, torn, cleared, spared>>
      /\ work' = [work EXCEPT ![w] = Resting] /\ work[w].step = "profile"
  BY DEF MarkConsolidated, LeaveGuard, graphVars
<1>2. Working(w)
  BY <1>1, BatchShape DEF MemoryInv
<1>3. /\ HalfDone \subseteq work[w].turns /\ \A v \in Workers : Working(v) => v = w
      /\ TornInv' /\ Stored' = Stored
  BY <1>1, <1>2, OnlyOne, TornFrame DEF MemoryInv
<1>4. \A v \in Workers : ~(Working(v)')
  BY <1>1, <1>3 DEF MemoryInv, MemoryTypeOK, Working
<1>5. HalfDone' = {} /\ Single' /\ BatchInv'
  BY <1>4 DEF HalfDone, Single, BatchInv
<1>6. ClearInv'
  BY <1>1, <1>4 DEF MemoryInv, ClearInv, Remembered
<1>7. /\ work[w].turns \subseteq Numbered /\ work[w].mark \in Nat /\ work[w].gone \in BOOLEAN
      /\ BatchOK(work[w]) /\ mark \in Nat /\ stale \in BOOLEAN
  BY <1>2, BatchShape DEF MemoryInv, Numbers, BatchInv, MemoryTypeOK
<1>8. ASSUME mark' = MarkTo(work[w].mark),
             consolidated' = consolidated \union work[w].turns,
             stale' = (stale \/ (work[w].gone /\ mark' # mark)),
             suspect' = suspect
      PROVE  Numbers' /\ MarkInv' /\ EdgesInv'
  <2>0. ~stale' => ~stale /\ ~(work[w].gone /\ mark' # mark)
    BY <1>8, Zenon
  <2>1. Numbers'
    BY <1>1, <1>3, <1>4, <1>7, <1>8 DEF MemoryInv, Numbers, Numbered
  <2>2. MarkInv'
    <3> SUFFICES ASSUME ~stale'
                 PROVE  /\ mark' <= Len(log) /\ Boundary(log, mark')
                        /\ Before(log, mark') \subseteq consolidated'
                        /\ \A a \in archives : TurnsOf(a) \subseteq consolidated'
                        /\ After(log, mark') \intersect consolidated' = {}
      BY <1>1 DEF MarkInv
    <3>1. /\ mark <= Len(log) /\ Boundary(log, mark)
          /\ Before(log, mark) \subseteq consolidated
          /\ \A a \in archives : TurnsOf(a) \subseteq consolidated
          /\ After(log, mark) \intersect consolidated = {}
      BY <2>0 DEF MemoryInv, MarkInv
    <3>2. CASE ~work[w].gone
      <4>1. /\ mark < work[w].mark /\ work[w].mark <= Len(log) /\ Boundary(log, work[w].mark)
            /\ Before(log, work[w].mark) \subseteq Before(log, mark) \union work[w].turns
            /\ After(log, work[w].mark) \intersect work[w].turns = {}
        BY <2>0, <3>2, <1>7 DEF BatchOK
      <4>2. mark' = work[w].mark
        BY <4>1, <1>7, <1>8 DEF MarkTo
      <4>3. After(log, work[w].mark) \subseteq After(log, mark)
        BY <4>1, <1>7 DEF After
      <4> QED BY <4>1, <4>2, <4>3, <3>1, <1>8
    <3>3. CASE work[w].gone
      <4>1. mark' = mark /\ work[w].turns \intersect Stored = {}
        BY <2>0, <3>3, <1>7 DEF BatchOK
      <4>2. After(log, mark) \subseteq Stored
        <5>1. After(log, mark) \subseteq TurnsOf(log)
          BY DEF After, TurnsOf
        <5>2. TurnsOf(log) \subseteq Stored
          BY StoredIs DEF MemoryInv, MemoryTypeOK
        <5> QED BY <5>1, <5>2
      <4> QED BY <4>1, <4>2, <3>1, <1>8
    <3> QED BY <3>2, <3>3
  <2>3. EdgesInv'
    BY <2>0, <1>1, <1>3, <1>8 DEF MemoryInv, EdgesInv
  <2> QED BY <2>1, <2>2, <2>3
<1>9. ASSUME suspect' = suspect \union work[w].turns,
             UNCHANGED <<mark, consolidated, stale>>
      PROVE  Numbers' /\ MarkInv' /\ EdgesInv'
  <2>1. Numbers'
    BY <1>1, <1>3, <1>4, <1>9 DEF MemoryInv, Numbers, Numbered
  <2>2. MarkInv'
    BY <1>1, <1>9 DEF MemoryInv, MarkInv
  <2>3. EdgesInv'
    BY <1>1, <1>3, <1>9 DEF MemoryInv, EdgesInv
  <2> QED BY <2>1, <2>2, <2>3
<1>10. Numbers' /\ MarkInv' /\ EdgesInv'
  BY <1>8, <1>9 DEF MarkConsolidated
<1> QED BY <1>3, <1>5, <1>6, <1>10

-----------------------------------------------------------------------------
(* Clear, and the server stops. *)

\* ClearFiles keeps the invariant, also where a batch is in hand.
LEMMA ClearFilesInv ==
  ASSUME MemoryInv, ClearFiles
  PROVE  Numbers' /\ Single' /\ MarkInv' /\ BatchInv' /\ EdgesInv' /\ TornInv' /\ ClearInv'
<1>1. PICK files \in SUBSET AllFiles :
       /\ RemoveAll(files)
       /\ stale' = (files # AllFiles /\ (stale \/ (files # {} /\ mark > 0)))
       /\ clearing' = [step |-> "edges", turns |-> Stored,
                       spared |-> InHand, failed |-> files # AllFiles]
       /\ consolidated' = IF "history" \in files THEN {} ELSE consolidated
       /\ suspect' = IF "history" \in files THEN {} ELSE suspect
       /\ work' = [w \in Workers |-> IF work[w] = Resting \/ "history" \notin files THEN work[w]
                                     ELSE [work[w] EXCEPT !.gone = TRUE]]
  BY DEF ClearFiles
<1>2. /\ UNCHANGED <<next, checks, spawned, busy, edges, profile, torn, cleared, spared>>
      /\ acked' = {} /\ clearing = Resting
  BY DEF ClearFiles, graphVars
<1>3. /\ log' = IF "history" \in files THEN <<>> ELSE log
      /\ mark' = IF "state" \in files THEN 0 ELSE mark
      /\ archives' = IF "history" \in files THEN {} ELSE archives
  BY <1>1 DEF RemoveAll
<1>4. /\ log \in Seq(Bytes) /\ mark \in Nat /\ archives \subseteq Seq(Bytes) /\ stale \in BOOLEAN
      /\ torn \in Nat
  BY MemoryAssumption DEF MemoryInv, MemoryTypeOK
<1>5. ASSUME NEW w \in Workers
      PROVE  /\ Working(w)' <=> Working(w)
             /\ Working(w) => /\ work'[w].turns = work[w].turns
                              /\ work'[w].step = work[w].step
                              /\ work'[w].mark = work[w].mark
                              /\ work'[w].gone = (work[w].gone \/ "history" \in files)
  <2>1. CASE work[w] = Resting \/ "history" \notin files
    <3>1. work'[w] = work[w]
      BY <1>1, <2>1
    <3>2. Working(w) => work[w].gone \in BOOLEAN
      BY BatchShape DEF MemoryInv
    <3> QED BY <2>1, <3>1, <3>2 DEF Working
  <2>2. CASE work[w] # Resting /\ "history" \in files
    <3>1. work'[w] = [work[w] EXCEPT !.gone = TRUE] /\ Working(w) /\ work[w] \in Extractions
      BY <1>1, <2>2, BatchShape DEF Working, MemoryInv
    <3>2. /\ work'[w].turns = work[w].turns /\ work'[w].step = work[w].step
          /\ work'[w].mark = work[w].mark /\ work'[w].gone = TRUE
      BY <3>1 DEF Extractions
    <3>3. work'[w] # Resting
      <4>1. work[w].step \in {"asked", "edges", "profile"} /\ Resting.step = "idle"
        BY <3>1 DEF Extractions, Resting
      <4> QED BY <4>1, <3>2
    <3> QED BY <3>1, <3>2, <3>3, <2>2 DEF Working
  <2> QED BY <2>1, <2>2
<1>6. HalfDone' = HalfDone
  BY <1>5 DEF HalfDone
<1>7. Single'
  BY <1>2, <1>5 DEF MemoryInv, Single
<1>8. clearing' # Resting /\ clearing'.turns = Stored /\ clearing'.spared = InHand
      /\ clearing'.failed = (files # AllFiles) /\ clearing'.step = "edges"
  BY <1>1 DEF Resting
<1>9. Remembered' = Remembered
  BY <1>2 DEF Remembered
<1>10. \A w \in Workers : Working(w) => work[w].turns \subseteq InHand
  BY DEF InHand, Working
<1>11. TornInv'
  <2>1. acked' \ Stored' = {}
    BY <1>2
  <2>2. Cardinality(acked' \ Stored') = 0
    BY <2>1, FS_EmptySet
  <2>3. Unfinished' <= torn
    <3>1. CASE "history" \in files
      <4>1. log' = <<>>
        BY <1>3, <3>1
      <4>2. Unfinished' = 0
        BY <4>1, NothingThere DEF Unfinished
      <4> QED BY <4>2, <1>4
    <3>2. CASE "history" \notin files
      <4>1. log' = log
        BY <1>3, <3>2
      <4>2. Unfinished' = Unfinished /\ Unfinished \in Nat
        BY <4>1 DEF Unfinished
      <4>3. Cardinality(acked \ Stored) \in Nat
        BY AckedFinite, FS_CardinalityType
      <4>4. Cardinality(acked \ Stored) + Unfinished <= torn
        BY DEF MemoryInv, TornInv
      <4> QED BY <4>2, <4>3, <4>4, <1>4
    <3> QED BY <3>1, <3>2
  <2>4. Unfinished' \in Nat
    BY DEF Unfinished
  <2> QED BY <2>2, <2>3, <2>4, <1>2, <1>4 DEF TornInv
<1>12. CASE "history" \in files
  <2>1. log' = <<>> /\ archives' = {} /\ consolidated' = {} /\ suspect' = {}
    BY <1>1, <1>3, <1>12
  <2>2. Stored' = {} /\ BytesOf(log') = {}
    BY <2>1, NothingThere DEF Stored
  <2>3. mark' = 0 \/ (mark' = mark /\ "state" \notin files)
    BY <1>3
  <2>4. ~stale' => mark' = 0
    <3>1. CASE files = AllFiles
      BY <3>1, <1>3 DEF AllFiles
    <3>2. CASE files # AllFiles
      <4>1. ~stale' => ~(mark > 0)
        BY <1>1, <1>12, <3>2
      <4> QED BY <4>1, <2>3, <1>4
    <3> QED BY <3>1, <3>2
  <2>5. MarkInv'
    <3>1. /\ Len(<<>>) = 0 /\ Boundary(<<>>, 0)
          /\ Before(<<>>, 0) = {} /\ After(<<>>, 0) = {}
      BY NothingThere
    <3> QED BY <2>1, <2>4, <3>1 DEF MarkInv
  <2>6. BatchInv'
    <3>1. ASSUME NEW w \in Workers, Working(w)' PROVE BatchOK(work[w])'
      <4>1. work'[w].gone
        BY <3>1, <1>5, <1>12
      <4> QED BY <4>1, <2>2 DEF BatchOK
    <3> QED BY <3>1 DEF BatchInv
  <2>7. EdgesInv'
    BY <2>2 DEF EdgesInv
  <2>8. Numbers'
    <3>1. \A w \in Workers : Working(w)' => work'[w].turns \subseteq Numbered
      BY <1>5 DEF MemoryInv, Numbers
    <3>2. clearing'.turns \subseteq Numbered
      BY <1>8 DEF MemoryInv, Numbers
    <3> QED BY <2>1, <2>2, <3>1, <3>2, <1>2 DEF MemoryInv, Numbers, Numbered
  <2>9. ClearInv'
    <3>1. ClearInv
      BY DEF MemoryInv
    <3>2. \A w \in Workers : Working(w)' => work'[w].turns \intersect cleared \subseteq spared
      BY <3>1, <1>5 DEF ClearInv
    <3>3. Remembered' \intersect cleared \subseteq spared
      BY <3>1, <1>9 DEF ClearInv
    <3>4. \A w \in Workers : Working(w)' =>
            work'[w].turns \intersect clearing'.turns \subseteq clearing'.spared
      BY <1>5, <1>8, <1>10
    <3>5. clearing'.step # "profile"
      BY <1>8
    <3> QED BY <2>2, <3>2, <3>3, <3>4, <3>5, <1>2 DEF ClearInv
  <2> QED BY <2>5, <2>6, <2>7, <2>8, <2>9, <1>7, <1>11
<1>13. CASE "history" \notin files
  <2>1. /\ log' = log /\ archives' = archives /\ consolidated' = consolidated /\ suspect' = suspect
        /\ Stored' = Stored
    BY <1>1, <1>3, <1>13 DEF Stored
  <2>2. files # AllFiles /\ (files # {} => files = {"state"})
    BY <1>13 DEF AllFiles
  <2>3. ~stale' => ~stale /\ mark' = mark
    <3>1. ~stale' => ~stale /\ ~(files # {} /\ mark > 0)
      <4>1. stale' = (stale \/ (files # {} /\ mark > 0))
        BY <1>1, <2>2, Zenon
      <4> QED BY <4>1, Zenon
    <3>2. files = {} => mark' = mark
      BY <1>3
    <3>3. mark = 0 => mark' = mark
      BY <1>3
    <3> QED BY <3>1, <3>2, <3>3, <1>4
  <2>4. \A w \in Workers : Working(w) => work'[w].gone = work[w].gone
    <3>1. \A w \in Workers : Working(w) => work[w].gone \in BOOLEAN
      BY BatchShape DEF MemoryInv
    <3> QED BY <3>1, <1>5, <1>13
  <2>5. MarkInv'
    BY <2>1, <2>3 DEF MemoryInv, MarkInv
  <2>6. BatchInv'
    <3>1. ASSUME NEW w \in Workers, Working(w)' PROVE BatchOK(work[w])'
      <4>1. Working(w) /\ BatchOK(work[w])
        BY <3>1, <1>5 DEF MemoryInv, BatchInv
      <4> QED BY <4>1, <1>5, <2>1, <2>3, <2>4 DEF BatchOK
    <3> QED BY <3>1 DEF BatchInv
  <2>7. EdgesInv'
    BY <1>2, <1>6, <2>1, <2>3 DEF MemoryInv, EdgesInv
  <2>8. Numbers'
    <3>1. \A w \in Workers : Working(w)' => work'[w].turns \subseteq Numbered
      BY <1>5 DEF MemoryInv, Numbers
    <3>2. clearing'.turns \subseteq Numbered
      BY <1>8 DEF MemoryInv, Numbers
    <3> QED BY <2>1, <3>1, <3>2, <1>2 DEF MemoryInv, Numbers, Numbered
  <2>9. ClearInv'
    <3>1. ClearInv
      BY DEF MemoryInv
    <3>2. \A w \in Workers : Working(w)' => work'[w].turns \intersect cleared \subseteq spared
      BY <3>1, <1>5 DEF ClearInv
    <3>3. Remembered' \intersect cleared \subseteq spared
      BY <3>1, <1>9 DEF ClearInv
    <3>4. clearing'.failed
      BY <1>8, <2>2
    <3> QED BY <2>1, <3>1, <3>2, <3>3, <3>4, <1>2 DEF ClearInv
  <2> QED BY <2>5, <2>6, <2>7, <2>8, <2>9, <1>7, <1>11
<1> QED BY <1>12, <1>13

\* ClearEdges keeps the invariant.
LEMMA ClearEdgesInv ==
  ASSUME MemoryInv, ClearEdges
  PROVE  Numbers' /\ Single' /\ MarkInv' /\ BatchInv' /\ EdgesInv' /\ TornInv' /\ ClearInv'
<1>1. /\ UNCHANGED <<log, mark, archives, next, busy, work, profile,
                     acked, torn, consolidated, suspect, stale, cleared, spared>>
      /\ clearing.step = "edges"
      /\ \/ edges' = [t \in Turns |-> 0] /\ clearing' = [clearing EXCEPT !.step = "profile"]
         \/ clearing' = [clearing EXCEPT !.step = "profile", !.failed = TRUE] /\ edges' = edges
  BY DEF ClearEdges, fileVars, historyVars
<1>2. clearing # Resting /\ clearing \in Clears
  BY <1>1, ClearingShape DEF MemoryInv
<1>3. /\ clearing'.turns = clearing.turns /\ clearing'.spared = clearing.spared
      /\ clearing' # Resting
      /\ \/ (\A t \in Turns : edges'[t] = 0) /\ clearing'.failed = clearing.failed
         \/ edges' = edges /\ clearing'.failed
  <2>1. CASE edges' = [t \in Turns |-> 0] /\ clearing' = [clearing EXCEPT !.step = "profile"]
    BY <1>2, <2>1 DEF Clears, Resting
  <2>2. CASE clearing' = [clearing EXCEPT !.step = "profile", !.failed = TRUE] /\ edges' = edges
    BY <1>2, <2>2 DEF Clears, Resting
  <2> QED BY <1>1, <2>1, <2>2
<1>4. Stored' = Stored /\ TornInv' /\ Stored \subseteq Turns
  BY <1>1, TornFrame, StoredIs DEF MemoryInv, MemoryTypeOK
<1>5. \A w \in Workers : Working(w)' <=> Working(w)
  BY <1>1 DEF Working
<1>6. Single' /\ MarkInv' /\ BatchInv' /\ HalfDone' = HalfDone
  BY <1>1, <1>4, <1>5 DEF MemoryInv, Single, MarkInv, BatchInv, BatchOK, HalfDone
<1>7. \A t \in Turns : edges'[t] = 0 \/ edges'[t] = edges[t]
  BY <1>3
<1>8. Numbers'
  BY <1>1, <1>2, <1>3, <1>4, <1>5, <1>7 DEF MemoryInv, Numbers, Numbered
<1>9. EdgesInv'
  BY <1>1, <1>4, <1>6, <1>7 DEF MemoryInv, EdgesInv
<1>10. ClearInv'
  <2>1. ClearInv
    BY DEF MemoryInv
  <2>2. Remembered' \subseteq Remembered
    BY <1>1, <1>7 DEF Remembered
  <2>3. ~clearing'.failed => ~clearing.failed /\ {t \in Turns : edges'[t] > 0} = {}
    BY <1>3
  <2>4. ~clearing'.failed =>
          /\ BytesOf(log) \intersect clearing.turns = {}
          /\ \A w \in Workers : Working(w) =>
               work[w].turns \intersect clearing.turns \subseteq clearing.spared
    BY <2>1, <2>3, <1>2 DEF ClearInv
  <2>5. Remembered' \intersect cleared \subseteq spared
    BY <2>1, <2>2 DEF ClearInv
  <2> QED BY <2>1, <2>3, <2>4, <2>5, <1>1, <1>3, <1>5 DEF ClearInv
<1> QED BY <1>4, <1>6, <1>8, <1>9, <1>10

\* ClearProfile keeps the invariant: with it what was cleared is gone.
LEMMA ClearProfileInv ==
  ASSUME MemoryInv, ClearProfile
  PROVE  Numbers' /\ Single' /\ MarkInv' /\ BatchInv' /\ EdgesInv' /\ TornInv' /\ ClearInv'
<1>1. /\ UNCHANGED <<log, mark, archives, next, busy, work, edges,
                     acked, torn, consolidated, suspect, stale>>
      /\ clearing.step = "profile" /\ clearing' = Resting
      /\ \/ /\ profile' = {}
            /\ IF clearing.failed THEN UNCHANGED <<cleared, spared>>
               ELSE /\ cleared' = cleared \union clearing.turns
                    /\ spared' = spared \union clearing.spared
         \/ UNCHANGED <<profile, cleared, spared>>
  BY DEF ClearProfile, fileVars
<1>2. clearing # Resting /\ clearing.turns \subseteq Numbered
  BY <1>1, ClearingShape DEF MemoryInv, Numbers
<1>3. Stored' = Stored /\ TornInv'
  BY <1>1, TornFrame DEF MemoryInv
<1>4. \A w \in Workers : Working(w)' <=> Working(w)
  BY <1>1 DEF Working
<1>5. Single' /\ MarkInv' /\ BatchInv' /\ HalfDone' = HalfDone
  BY <1>1, <1>3, <1>4 DEF MemoryInv, Single, MarkInv, BatchInv, BatchOK, HalfDone
<1>6. Numbers'
  BY <1>1, <1>2, <1>3, <1>4 DEF MemoryInv, Numbers, Numbered
<1>7. EdgesInv'
  BY <1>1, <1>3, <1>5 DEF MemoryInv, EdgesInv
<1>8. ClearInv
  BY DEF MemoryInv
<1>9. ClearInv'
  <2>1. CASE profile' = {} /\ ~clearing.failed
    <3>1. \/ /\ cleared' = cleared \union clearing.turns
             /\ spared' = spared \union clearing.spared
          \/ UNCHANGED <<cleared, spared>>
      BY <1>1, <2>1
    <3>2. /\ BytesOf(log) \intersect clearing.turns = {}
          /\ \A w \in Workers : Working(w) =>
               work[w].turns \intersect clearing.turns \subseteq clearing.spared
          /\ {t \in Turns : edges[t] > 0} \intersect clearing.turns \subseteq clearing.spared
      BY <1>1, <1>2, <1>8, <2>1 DEF ClearInv
    <3>3. Remembered' = {t \in Turns : edges[t] > 0} /\ Remembered' \subseteq Remembered
      BY <1>1, <2>1 DEF Remembered
    <3>4. Remembered' \intersect cleared' \subseteq spared'
      BY <3>1, <3>2, <3>3, <1>8 DEF ClearInv
    <3>5. BytesOf(log) \intersect cleared' = {}
      BY <3>1, <3>2, <1>8 DEF ClearInv
    <3>6. \A w \in Workers : Working(w) => work[w].turns \intersect cleared' \subseteq spared'
      BY <3>1, <3>2, <1>8 DEF ClearInv
    <3> QED BY <3>4, <3>5, <3>6, <1>1, <1>4 DEF ClearInv
  <2>2. CASE ~(profile' = {} /\ ~clearing.failed)
    <3>1. UNCHANGED <<cleared, spared>> /\ profile' \in {profile, {}}
      BY <1>1, <2>2
    <3>2. Remembered' \subseteq Remembered
      BY <1>1, <3>1 DEF Remembered
    <3>3. Remembered' \intersect cleared \subseteq spared
      BY <3>2, <1>8 DEF ClearInv
    <3> QED BY <3>1, <3>3, <1>1, <1>4, <1>8 DEF ClearInv
  <2> QED BY <2>1, <2>2
<1> QED BY <1>3, <1>5, <1>6, <1>7, <1>9

\* ServerStops keeps the invariant.
LEMMA ServerStopsInv ==
  ASSUME MemoryInv, ServerStops
  PROVE  Numbers' /\ Single' /\ MarkInv' /\ BatchInv' /\ EdgesInv' /\ TornInv' /\ ClearInv'
<1>1. /\ UNCHANGED <<log, mark, archives, next, edges, profile,
                     acked, torn, consolidated, stale, cleared, spared>>
      /\ work' = [w \in Workers |-> Resting] /\ clearing' = Resting
      /\ suspect' = suspect \union
           UNION {work[w].turns : w \in {v \in Workers : work[v].step \in {"edges", "profile"}}}
  BY DEF ServerStops, fileVars, graphVars
<1>2. \A w \in Workers : ~(Working(w)')
  BY <1>1 DEF Working
<1>3. Stored' = Stored /\ TornInv'
  BY <1>1, TornFrame DEF MemoryInv
<1>4. Single' /\ MarkInv' /\ BatchInv' /\ HalfDone' = {}
  BY <1>1, <1>2 DEF MemoryInv, Single, MarkInv, BatchInv, HalfDone
<1>5. Numbers'
  BY <1>1, <1>2, <1>3 DEF MemoryInv, Numbers, Numbered
<1>6. HalfDone \subseteq suspect' /\ suspect \subseteq suspect'
  BY <1>1 DEF HalfDone
<1>7. EdgesInv'
  BY <1>1, <1>3, <1>4, <1>6 DEF MemoryInv, EdgesInv
<1>8. ClearInv'
  BY <1>1, <1>2 DEF MemoryInv, ClearInv, Remembered
<1> QED BY <1>3, <1>4, <1>5, <1>7, <1>8

\* So does a step that changes neither files nor graph nor what is in hand.
LEMMA NothingElse ==
  ASSUME MemoryInv, UNCHANGED <<log, mark, archives, next, busy, work, clearing, edges, profile,
                     acked, torn, consolidated, suspect, stale, cleared, spared>>
  PROVE  Numbers' /\ Single' /\ MarkInv' /\ BatchInv' /\ EdgesInv' /\ TornInv' /\ ClearInv'
<1>1. Stored' = Stored /\ TornInv'
  BY TornFrame DEF MemoryInv
<1>2. \A w \in Workers : Working(w)' <=> Working(w)
  BY DEF Working
<1>3. HalfDone' = HalfDone /\ Remembered' = Remembered
  BY <1>2 DEF HalfDone, Remembered
<1>4. Numbers' /\ Single' /\ MarkInv' /\ BatchInv'
  BY <1>1, <1>2 DEF MemoryInv, Numbers, Numbered, Single, MarkInv, BatchInv, BatchOK
<1>5. EdgesInv'
  BY <1>1, <1>3 DEF MemoryInv, EdgesInv
<1>6. ClearInv'
  BY <1>2, <1>3 DEF MemoryInv, ClearInv
<1> QED BY <1>1, <1>4, <1>5, <1>6

\* MemoryInv is inductive.
LEMMA MemoryStep == MemoryInv /\ [MemoryNext]_memoryVars => MemoryInv'
<1> SUFFICES ASSUME MemoryInv, [MemoryNext]_memoryVars PROVE MemoryInv'
  OBVIOUS
<1>1. MemoryTypeOK'
  BY MemoryTypeStep DEF MemoryInv
<1>2. Numbers' /\ Single' /\ MarkInv' /\ BatchInv' /\ EdgesInv' /\ TornInv' /\ ClearInv'
  <2>1. CASE StoreTurn \/ StoreFails
    BY <2>1, StoreInvs, StoreTorn
  <2>2. CASE CheckPending
    BY <2>2, NothingElse DEF CheckPending, fileVars, graphVars, historyVars
  <2>3. CASE SkipWork
    BY <2>3, NothingElse DEF SkipWork, fileVars, graphVars, historyVars
  <2>4. ASSUME NEW w \in Workers,
               StartWork(w) \/ ModelFails(w) \/ WriteEdges(w)
               \/ WriteProfile(w) \/ MarkConsolidated(w)
        PROVE  Numbers' /\ Single' /\ MarkInv' /\ BatchInv' /\ EdgesInv' /\ TornInv' /\ ClearInv'
    BY <2>4, StartWorkInv, ModelFailsInv, WriteEdgesInv, WriteProfileInv, MarkConsolidatedInv
  <2>5. CASE ClearFiles \/ ClearEdges \/ ClearProfile \/ ServerStops
    BY <2>5, ClearFilesInv, ClearEdgesInv, ClearProfileInv, ServerStopsInv
  <2>6. CASE UNCHANGED memoryVars
    BY <2>6, NothingElse DEF memoryVars, fileVars, graphVars, historyVars
  <2> QED BY <2>1, <2>2, <2>3, <2>4, <2>5, <2>6 DEF MemoryNext
<1> QED BY <1>1, <1>2 DEF MemoryInv

\* MemoryInv holds of an empty log and of an imported one.
LEMMA MemoryStart == MemoryInit => MemoryInv
<1> SUFFICES ASSUME MemoryInit PROVE MemoryInv
  OBVIOUS
<1> DEFINE N == MaxImport
<1>0. N \in Nat /\ 1..N \subseteq Turns /\ MaxTorn \in Nat
  BY MemoryAssumption
<1>1. PICK n \in 0..N : \E p \in 0..n :
       /\ log = LogOf(n)
       /\ mark = Len(LogOf(p))
       /\ next = n + 1
       /\ acked = 1..n
       /\ consolidated = 1..p
       /\ edges = [t \in Turns |-> IF t <= p THEN 1 ELSE 0]
       /\ profile = {}
  BY DEF MemoryInit, LogOf
<1>2. PICK p \in 0..n :
       /\ log = LogOf(n)
       /\ mark = Len(LogOf(p))
       /\ next = n + 1
       /\ acked = 1..n
       /\ consolidated = 1..p
       /\ edges = [t \in Turns |-> IF t <= p THEN 1 ELSE 0]
       /\ profile = {}
  BY <1>1
<1> HIDE DEF N
<1>3. n \in Nat /\ p \in Nat /\ p <= n /\ p \in 0..N /\ n \in 0..N
      /\ 1..n \subseteq 1..N /\ 1..p \subseteq 1..n
  BY <1>0
<1>4. /\ archives = {} /\ checks = 0 /\ spawned = 0 /\ busy = FALSE
      /\ work = [w \in Workers |-> Resting] /\ clearing = Resting
      /\ torn = 0 /\ suspect = {} /\ stale = FALSE /\ cleared = {} /\ spared = {}
  BY DEF MemoryInit
<1>5. log \in Seq(Bytes) /\ LogOf(p) \in Seq(Bytes)
  BY <1>0, <1>2, <1>3, LogOfFacts
<1>6. Imported(N, n)
  BY <1>0, <1>3, LogOfLines
<1>7. /\ Boundary(log, Len(log)) /\ TurnsOf(log) = 1..n /\ BytesOf(log) \subseteq 1..n
      /\ mark <= Len(log) /\ Boundary(log, mark)
      /\ Before(log, mark) \subseteq 1..p /\ After(log, mark) \intersect (1..p) = {}
  BY <1>2, <1>3, <1>6 DEF Imported
<1>8. Stored = 1..n
  <2>1. archives \subseteq Seq(Bytes)
    BY <1>4
  <2> QED BY <2>1, <1>4, <1>5, <1>7, StoredIs
<1>9. Numbered = 1..n
  BY <1>2, <1>3 DEF Numbered
<1>10. \A w \in Workers : ~Working(w)
  BY <1>4 DEF Working
<1>11. MemoryTypeOK
  <2>1. mark \in Nat
    BY <1>2, <1>5
  <2>2. edges \in [Turns -> 0..2]
    BY <1>2
  <2>3. /\ next \in Nat \ {0} /\ acked \subseteq Turns /\ consolidated \subseteq Turns
    BY <1>0, <1>2, <1>3
  <2>4. work \in [Workers -> Extractions \union {Resting}]
    BY <1>4
  <2>5. clearing \in Clears \union {Resting}
    BY <1>4
  <2>6. archives \subseteq Seq(Bytes) /\ log \in Seq(Bytes)
    BY <1>4, <1>5
  <2>7. torn \in 0..MaxTorn
    BY <1>0, <1>4
  <2>8. /\ checks \in Nat /\ spawned \in Nat /\ busy \in BOOLEAN /\ stale \in BOOLEAN
        /\ profile \subseteq Turns /\ suspect \subseteq Turns
        /\ cleared \subseteq Turns /\ spared \subseteq Turns
    BY <1>2, <1>4
  <2>9. \A h \in {acked, consolidated, suspect, cleared, spared} : h \subseteq Turns
    BY <2>3, <2>8
  <2> QED BY <2>1, <2>2, <2>3, <2>4, <2>5, <2>6, <2>7, <2>8, <2>9 DEF MemoryTypeOK
<1>12. Numbers
  <2>1. \A t \in Turns : t \notin 1..n => edges[t] = 0
    <3>1. \A t \in Turns : t \in Nat /\ t # 0
      BY TurnLogAssumption
    <3> QED BY <3>1, <1>2, <1>3
  <2> QED BY <2>1, <1>2, <1>3, <1>4, <1>7, <1>8, <1>9, <1>10 DEF Numbers
<1>13. Single /\ BatchInv
  BY <1>10 DEF Single, BatchInv
<1>14. MarkInv
  BY <1>2, <1>4, <1>7 DEF MarkInv
<1>15. EdgesInv
  <2>1. ASSUME NEW t \in 1..n PROVE edges[t] <= 1 /\ (edges[t] = 1 => t \in consolidated)
    <3>1. t \in Turns
      BY <1>0, <1>3
    <3>2. edges[t] = IF t <= p THEN 1 ELSE 0
      BY <3>1, <1>2
    <3> QED BY <3>2, <1>2, <1>3
  <2> QED BY <2>1, <1>8 DEF EdgesInv
<1>16. TornInv
  <2>1. acked \ Stored = {} /\ Unfinished = 0
    BY <1>2, <1>7, <1>8 DEF Unfinished
  <2>2. Cardinality(acked \ Stored) = 0
    BY <2>1, FS_EmptySet
  <2> QED BY <2>1, <2>2, <1>4 DEF TornInv
<1>17. ClearInv
  BY <1>4, <1>10 DEF ClearInv
<1> QED BY <1>11, <1>12, <1>13, <1>14, <1>15, <1>16, <1>17 DEF MemoryInv

\* MemoryInv is an invariant of the memory of a user.
THEOREM MemoryInvariant == MemorySpec => []MemoryInv
<1>1. MemoryInit => MemoryInv
  BY MemoryStart
<1>2. MemoryInv /\ [MemoryNext]_memoryVars => MemoryInv'
  BY MemoryStep
<1> QED BY <1>1, <1>2, PTL DEF MemorySpec

\* The types, for any turns and sizes (memory.go, jsonl.go).
THEOREM MemoryType == MemorySpec => []MemoryTypeOK
<1>1. MemoryInv => MemoryTypeOK
  BY DEF MemoryInv
<1> QED BY <1>1, MemoryInvariant, PTL

\* No turn is passed over: what the log or an archive holds is pending or went through an
\* extraction, whatever the sizes of turns, the limits of the log, and the number of goroutines.
THEOREM NoTurnPassedOver == MemorySpec => []StoredIsPendingOrDone
<1>1. MemoryInv => StoredIsPendingOrDone
  <2> SUFFICES ASSUME MemoryInv, ~stale, NEW t \in Stored
               PROVE  t \in ToSet(Pending) \union consolidated
    BY DEF StoredIsPendingOrDone
  <2>1. /\ log \in Seq(Bytes) /\ mark \in Nat /\ archives \subseteq Seq(Bytes)
        /\ mark <= Len(log) /\ Boundary(log, mark)
        /\ Before(log, mark) \subseteq consolidated
        /\ \A a \in archives : TurnsOf(a) \subseteq consolidated
    BY DEF MemoryInv, MemoryTypeOK, MarkInv
  <2>2. t \in TurnsOf(log) \union UNION {TurnsOf(a) : a \in archives}
    BY <2>1, StoredIs
  <2>3. From = mark /\ ToSet(Pending) = After(log, mark)
    <3>1. From = mark
      BY <2>1 DEF From
    <3> QED BY <3>1, <2>1, PendingFacts
  <2>4. TurnsOf(log) \subseteq Before(log, mark) \union After(log, mark)
    BY <2>1 DEF TurnsOf, Before, After
  <2> QED BY <2>1, <2>2, <2>3, <2>4
<1> QED BY <1>1, MemoryInvariant, PTL

\* No turn is counted twice in the graph, whatever number of consolidations a user starts:
\* the guard and the watermark see to it.
THEOREM NoTurnCountedTwice == MemorySpec => []CountedOnce
<1>1. MemoryInv => CountedOnce
  BY DEF MemoryInv, EdgesInv, CountedOnce
<1> QED BY <1>1, MemoryInvariant, PTL

\* Every append that was cut short costs at most one turn that was stored; archiving, reading,
\* consolidating and the restarts cost none.
THEOREM NoTurnLostButTorn == MemorySpec => []TornCostsOne
<1>1. MemoryInv => TornCostsOne
  <2> SUFFICES ASSUME MemoryInv PROVE Cardinality(acked \ Stored) <= torn
    BY DEF TornCostsOne
  <2>1. Cardinality(acked \ Stored) \in Nat
    BY AckedFinite, FS_CardinalityType
  <2>2. Unfinished \in {0, 1} /\ torn \in Nat
    BY MemoryAssumption DEF Unfinished, MemoryInv, MemoryTypeOK
  <2> QED BY <2>1, <2>2 DEF MemoryInv, TornInv
<1> QED BY <1>1, MemoryInvariant, PTL

\* What Clear wiped without an error stays out of the graph, but for a consolidation that had
\* read it before.
THEOREM WipedIsForgotten == MemorySpec => []ClearForgets
<1>1. MemoryInv => ClearForgets
  BY DEF MemoryInv, ClearInv, ClearForgets
<1> QED BY <1>1, MemoryInvariant, PTL

-----------------------------------------------------------------------------
(* Tail, a backward scan: the pieces of two texts put together, the turns they hold, the loop. *)

\* Concatenation is associative, on bytes.
LEMMA BytesAssociative ==
  ASSUME NEW v \in Seq(Bytes), NEW w \in Seq(Bytes), NEW z \in Seq(Bytes)
  PROVE  (v \o w) \o z = v \o (w \o z)
BY ConcatAssociative

\* The pieces of two files put together: the last one of the first goes on in the second.
Joined(front, back) ==
  [k \in 1..(Len(front) + (Len(back) - 1)) |->
     IF k < Len(front) THEN front[k]
     ELSE IF k = Len(front) THEN front[k] \o back[1]
     ELSE back[(k - Len(front)) + 1]]

\* Joined pieces are pieces.
LEMMA JoinedFacts ==
  ASSUME NEW front \in Pieces, NEW back \in Pieces
  PROVE  /\ Joined(front, back) \in Pieces
         /\ Len(Joined(front, back)) = Len(front) + (Len(back) - 1)
         /\ \A k \in 1..Len(front) : k < Len(front) => Joined(front, back)[k] = front[k]
         /\ Joined(front, back)[Len(front)] = front[Len(front)] \o back[1]
         /\ \A k \in 2..Len(back) : Joined(front, back)[Len(front) + (k - 1)] = back[k]
<1> DEFINE m == Len(front)
           n == Len(back)
           r == Joined(front, back)
<1>1. /\ m \in Nat /\ m >= 1 /\ n \in Nat /\ n >= 1
      /\ \A k \in 1..m : front[k] \in Seq(Bytes)
      /\ \A k \in 1..n : back[k] \in Seq(Bytes)
  BY DEF Pieces
<1>2. front[m] \o back[1] \in Seq(Bytes)
  BY <1>1
<1>3. \A k \in 1..(m + (n - 1)) : r[k] = IF k < m THEN front[k]
                                         ELSE IF k = m THEN front[k] \o back[1]
                                         ELSE back[(k - m) + 1]
  BY DEF Joined
<1>4. \A k \in 1..(m + (n - 1)) : r[k] \in Seq(Bytes)
  <2> SUFFICES ASSUME NEW k \in 1..(m + (n - 1)) PROVE r[k] \in Seq(Bytes)
    OBVIOUS
  <2>1. k > m => (k - m) + 1 \in 1..n
    <3> HIDE DEF m, n
    <3> QED BY <1>1
  <2>2. k < m => k \in 1..m
    <3> HIDE DEF m, n
    <3> QED BY <1>1
  <2>3. k < m \/ k = m \/ k > m
    <3> HIDE DEF m, n
    <3> QED BY <1>1
  <2> HIDE DEF r, m, n
  <2> QED BY <1>1, <1>2, <1>3, <2>1, <2>2, <2>3
<1>5. r \in Seq(Seq(Bytes)) /\ Len(r) = m + (n - 1)
  <2>1. r = [k \in 1..(m + (n - 1)) |-> r[k]]
    BY DEF Joined
  <2> HIDE DEF r
  <2>2. r \in [1..(m + (n - 1)) -> Seq(Bytes)]
    BY <1>4, <2>1
  <2>3. m + (n - 1) \in Nat
    BY <1>1
  <2> HIDE DEF m, n
  <2> QED BY <2>2, <2>3
<1>6. ASSUME NEW k \in 2..n PROVE r[m + (k - 1)] = back[k]
  <2>1. /\ m + (k - 1) \in 1..(m + (n - 1)) /\ ~(m + (k - 1) < m) /\ m + (k - 1) # m
        /\ ((m + (k - 1)) - m) + 1 = k
    BY <1>1
  <2> HIDE DEF r, m, n
  <2> QED BY <1>3, <2>1
<1>7. /\ m \in 1..(m + (n - 1))
      /\ \A k \in 1..m : k < m => k \in 1..(m + (n - 1))
  BY <1>1
<1>8. r \in Pieces
  BY <1>1, <1>5 DEF Pieces
<1>9. \A k \in 1..m : k < m => r[k] = front[k]
  <2> HIDE DEF r, m, n
  <2> QED BY <1>3, <1>7
<1>10. r[m] = front[m] \o back[1]
  <2>1. ~(m < m)
    BY <1>1
  <2> HIDE DEF r, m, n
  <2> QED BY <1>3, <1>7, <2>1
<1> QED BY <1>5, <1>6, <1>8, <1>9, <1>10

\* One byte more after the second file.
LEMMA JoinedByte ==
  ASSUME NEW front \in Pieces, NEW back \in Pieces, NEW byte \in Bytes
  PROVE  Joined(front, SplitByte(back, byte)) = SplitByte(Joined(front, back), byte)
<1> DEFINE m == Len(front)
           n == Len(back)
           s == SplitByte(back, byte)
           j == Joined(front, back)
           l == Joined(front, s)
           r == SplitByte(j, byte)
<1>1. /\ m \in Nat /\ m >= 1 /\ n \in Nat /\ n >= 1
      /\ front[m] \in Seq(Bytes) /\ back[1] \in Seq(Bytes)
  BY DEF Pieces
<1>2. /\ j \in Pieces /\ Len(j) = m + (n - 1)
      /\ \A k \in 1..m : k < m => j[k] = front[k]
      /\ j[m] = front[m] \o back[1]
      /\ \A k \in 2..n : j[m + (k - 1)] = back[k]
  BY JoinedFacts
<1>3. /\ s \in Pieces
      /\ byte = NewLine => /\ Len(s) = n + 1
                           /\ \A k \in 1..n : s[k] = back[k]
                           /\ s[n + 1] = <<>>
      /\ byte # NewLine => /\ Len(s) = n
                           /\ \A k \in 1..n : k < n => s[k] = back[k]
                           /\ s[n] = Append(back[n], byte)
  BY SplitByteFacts
<1> HIDE DEF j
<1>4. /\ r \in Pieces
      /\ byte = NewLine => /\ Len(r) = Len(j) + 1
                           /\ \A k \in 1..Len(j) : r[k] = j[k]
                           /\ r[Len(j) + 1] = <<>>
      /\ byte # NewLine => /\ Len(r) = Len(j)
                           /\ \A k \in 1..Len(j) : k < Len(j) => r[k] = j[k]
                           /\ r[Len(j)] = Append(j[Len(j)], byte)
  BY <1>2, SplitByteFacts
<1> HIDE DEF s
<1>5. /\ l \in Pieces /\ Len(l) = m + (Len(s) - 1)
      /\ \A k \in 1..m : k < m => l[k] = front[k]
      /\ l[m] = front[m] \o s[1]
      /\ \A k \in 2..Len(s) : l[m + (k - 1)] = s[k]
  BY <1>3, JoinedFacts
<1> HIDE DEF l, r, m, n
<1>a. l \in Seq(Seq(Bytes)) /\ r \in Seq(Seq(Bytes))
  BY <1>4, <1>5 DEF Pieces
<1>6. ASSUME byte = NewLine PROVE l = r
  <2>1. Len(l) = m + n /\ Len(r) = m + n
    <3>1. Len(s) = n + 1 /\ Len(r) = Len(j) + 1
      BY <1>3, <1>4, <1>6
    <3>2. Len(l) = m + (Len(s) - 1) /\ Len(j) = m + (n - 1)
      BY <1>2, <1>5
    <3> QED BY <3>1, <3>2, <1>1
  <2>2. ASSUME NEW k \in 1..(m + n) PROVE l[k] = r[k]
    <3>1. CASE k < m
      <4>1. l[k] = front[k]
        BY <3>1, <1>1, <1>5
      <4>2. k \in 1..Len(j) /\ j[k] = front[k]
        BY <3>1, <1>1, <1>2
      <4> QED BY <4>1, <4>2, <1>4, <1>6
    <3>2. CASE k = m
      <4>1. s[1] = back[1]
        BY <1>1, <1>3, <1>6
      <4>2. m \in 1..Len(j)
        BY <1>1, <1>2
      <4> QED BY <3>2, <4>1, <4>2, <1>2, <1>4, <1>5, <1>6
    <3>3. CASE k > m
      <4> DEFINE i == (k - m) + 1
      <4>1. i \in 2..(n + 1) /\ m + (i - 1) = k
        BY <3>3, <1>1
      <4> HIDE DEF i
      <4>2. l[k] = s[i]
        BY <4>1, <1>3, <1>5, <1>6
      <4>3. CASE i = n + 1
        <5>1. k = Len(j) + 1
          BY <4>1, <4>3, <1>1, <1>2
        <5> QED BY <5>1, <4>2, <4>3, <1>3, <1>4, <1>6
      <4>4. CASE i # n + 1
        <5>1. i \in 1..n /\ i \in 2..n /\ k \in 1..Len(j)
          BY <4>1, <4>4, <1>1, <1>2
        <5>2. s[i] = back[i] /\ r[k] = j[k]
          BY <5>1, <1>3, <1>4, <1>6
        <5>3. j[k] = back[i]
          BY <5>1, <4>1, <1>2
        <5> QED BY <5>2, <5>3, <4>2
      <4> QED BY <4>3, <4>4
    <3> QED BY <3>1, <3>2, <3>3, <1>1
  <2> QED BY <2>1, <2>2, <1>a, SeqEqual
<1>7. ASSUME byte # NewLine PROVE l = r
  <2>1. Len(l) = m + (n - 1) /\ Len(r) = m + (n - 1) /\ Len(s) = n
    BY <1>1, <1>2, <1>3, <1>4, <1>5, <1>7
  <2>2. ASSUME NEW k \in 1..(m + (n - 1)) PROVE l[k] = r[k]
    <3>1. CASE k < m
      <4>1. l[k] = front[k]
        BY <3>1, <1>1, <1>5
      <4>2. k \in 1..Len(j) /\ j[k] = front[k] /\ k < Len(j)
        BY <3>1, <1>1, <1>2
      <4> QED BY <4>1, <4>2, <1>4, <1>7
    <3>2. CASE k = m /\ n = 1
      <4>1. s[1] = Append(back[1], byte) /\ Len(j) = m
        BY <3>2, <1>1, <1>2, <1>3, <1>7
      <4>2. r[m] = Append(front[m] \o back[1], byte) /\ l[m] = front[m] \o Append(back[1], byte)
        BY <4>1, <1>2, <1>4, <1>5, <1>7
      <4>3. /\ Append(front[m] \o back[1], byte) = (front[m] \o back[1]) \o <<byte>>
            /\ Append(back[1], byte) = back[1] \o <<byte>>
        <5>1. front[m] \o back[1] \in Seq(Bytes)
          BY <1>1
        <5> QED BY <5>1, <1>1, AppendIsConcat
      <4>4. (front[m] \o back[1]) \o <<byte>> = front[m] \o (back[1] \o <<byte>>)
        <5> DEFINE u == <<byte>>
        <5>1. u \in Seq(Bytes)
          OBVIOUS
        <5> HIDE DEF u
        <5>2. (front[m] \o back[1]) \o u = front[m] \o (back[1] \o u)
          <6>1. front[m] \in Seq(Bytes) /\ back[1] \in Seq(Bytes)
            BY <1>1
          <6> QED BY <6>1, <5>1, BytesAssociative
        <5> QED BY <5>2 DEF u
      <4> QED BY <3>2, <4>2, <4>3, <4>4
    <3>3. CASE k = m /\ n > 1
      <4>1. s[1] = back[1]
        BY <3>3, <1>1, <1>3, <1>7
      <4>2. m \in 1..Len(j) /\ m < Len(j)
        BY <3>3, <1>1, <1>2
      <4> QED BY <3>3, <4>1, <4>2, <1>2, <1>4, <1>5, <1>7
    <3>4. CASE k > m
      <4> DEFINE i == (k - m) + 1
      <4>1. i \in 2..n /\ m + (i - 1) = k
        BY <3>4, <1>1
      <4> HIDE DEF i
      <4>2. l[k] = s[i] /\ j[k] = back[i]
        BY <4>1, <2>1, <1>2, <1>5
      <4>3. CASE i = n
        <5>1. k = Len(j)
          BY <4>1, <4>3, <1>1, <1>2
        <5> QED BY <5>1, <4>2, <4>3, <1>3, <1>4, <1>7
      <4>4. CASE i # n
        <5>1. i \in 1..n /\ i < n /\ k \in 1..Len(j) /\ k < Len(j)
          BY <4>1, <4>4, <1>1, <1>2
        <5> QED BY <5>1, <4>2, <1>3, <1>4, <1>7
      <4> QED BY <4>3, <4>4
    <3> QED BY <3>1, <3>2, <3>3, <3>4, <1>1
  <2> QED BY <2>1, <2>2, <1>a, SeqEqual
<1>8. l = r
  BY <1>6, <1>7
<1> QED BY <1>8 DEF l, r, s, j

\* The recursion of Split stays with pieces.
LEMMA SplitPieces ==
  ASSUME NEW b \in Seq(Bytes), NEW f, IsSplit(f, b)
  PROVE  /\ f[0] = << <<>> >>
         /\ \A i \in 1..Len(b) : f[i] = SplitByte(f[i - 1], b[i])
         /\ \A i \in 0..Len(b) : f[i] \in Pieces
<1> DEFINE Good == {i \in 0..Len(b) : f[i] \in Pieces}
<1>1. Len(b) \in Nat /\ \A i \in 1..Len(b) : b[i] \in Bytes
  OBVIOUS
<1>2. f[0] = << <<>> >> /\ \A i \in 1..Len(b) : f[i] = SplitByte(f[i - 1], b[i])
  BY <1>1 DEF IsSplit
<1>3. 0 \in Good
  <2>1. <<>> \in Seq(Bytes)
    OBVIOUS
  <2>2. << <<>> >> \in Pieces
    BY <2>1 DEF Pieces
  <2> QED BY <2>2, <1>1, <1>2
<1>4. ASSUME NEW i \in 1..Len(b), i - 1 \in Good PROVE i \in Good
  <2>1. f[i - 1] \in Pieces /\ i \in 0..Len(b)
    BY <1>4
  <2> QED BY <2>1, <1>1, <1>2, SplitByteFacts
<1>5. \A i \in 0..Len(b) : i \in Good
  <2> HIDE DEF Good
  <2> QED BY <1>1, <1>3, <1>4, SetInduction
<1> QED BY <1>2, <1>5

\* Two files put together split into the pieces of the two, joined.
LEMMA SplitConcat ==
  ASSUME NEW x \in Seq(Bytes), NEW y \in Seq(Bytes)
  PROVE  Split(x \o y) = Joined(Split(x), Split(y)) /\ Split(x) \in Pieces /\ Split(y) \in Pieces
<1> DEFINE b == x \o y
           m == Len(x)
           n == Len(y)
<1>1. /\ b \in Seq(Bytes) /\ Len(b) = m + n /\ m \in Nat /\ n \in Nat
      /\ \A i \in 1..m : b[i] = x[i]
      /\ \A i \in 1..n : b[m + i] = y[i] /\ y[i] \in Bytes
  BY LongerFacts
<1> HIDE DEF b
<1>2. PICK f : IsSplit(f, b) /\ Split(b) = f[Len(b)]
  BY <1>1, SplitExists
<1>3. PICK g : IsSplit(g, x) /\ Split(x) = g[m]
  BY SplitExists
<1>4. PICK h : IsSplit(h, y) /\ Split(y) = h[n]
  BY SplitExists
<1>5. /\ f[0] = << <<>> >>
      /\ \A i \in 1..Len(b) : f[i] = SplitByte(f[i - 1], b[i])
  BY <1>1, <1>2, SplitPieces
<1>6. /\ g[0] = << <<>> >> /\ \A i \in 1..m : g[i] = SplitByte(g[i - 1], x[i])
      /\ \A i \in 0..m : g[i] \in Pieces
  BY <1>3, SplitPieces
<1>7. /\ h[0] = << <<>> >> /\ \A i \in 1..n : h[i] = SplitByte(h[i - 1], y[i])
      /\ \A i \in 0..n : h[i] \in Pieces
  BY <1>4, SplitPieces
<1> HIDE DEF m, n
<1>8. f[m] = g[m]
  <2> DEFINE Good == {i \in 0..m : f[i] = g[i]}
  <2>1. 0 \in Good
    <3>1. 0 \in 0..m
      BY <1>1
    <3>2. f[0] = g[0]
      BY <1>5, <1>6, Zenon
    <3> QED BY <3>1, <3>2
  <2>2. ASSUME NEW i \in 1..m, i - 1 \in Good PROVE i \in Good
    <3>1. i \in 1..Len(b) /\ i \in 0..m
      BY <1>1
    <3> QED BY <3>1, <2>2, <1>1, <1>5, <1>6
  <2>3. \A i \in 0..m : i \in Good
    <3> HIDE DEF Good
    <3> QED BY <2>1, <2>2, <1>1, SetInduction
  <2> QED BY <2>3, <1>1
<1>9. g[m] \in Pieces /\ h[n] \in Pieces
  BY <1>1, <1>6, <1>7
<1>10. f[m + n] = Joined(g[m], h[n])
  <2> DEFINE Good == {i \in 0..n : f[m + i] = Joined(g[m], h[i])}
  <2>1. 0 \in Good
    <3> DEFINE front == g[m]
               e == << <<>> >>
    <3>0. h[0] = e /\ h[0] \in Pieces
      <4>1. 0 \in 0..n
        BY <1>1
      <4>2. h[0] = e
        BY <1>7, Zenon
      <4> QED BY <4>1, <4>2, <1>7
    <3>1. e \in Pieces /\ Len(e) = 1 /\ e[1] = <<>>
      <4>1. Len(e) = 1 /\ e[1] = <<>>
        OBVIOUS
      <4> HIDE DEF e
      <4> QED BY <4>1, <3>0
    <3>2. front \in Pieces
      BY <1>9
    <3> HIDE DEF front, e
    <3>3. /\ Joined(front, e) \in Pieces /\ Len(Joined(front, e)) = Len(front) + (Len(e) - 1)
          /\ \A k \in 1..Len(front) : k < Len(front) => Joined(front, e)[k] = front[k]
          /\ Joined(front, e)[Len(front)] = front[Len(front)] \o e[1]
      BY <3>1, <3>2, JoinedFacts
    <3>4. /\ Len(front) \in Nat /\ Len(front) >= 1 /\ front \in Seq(Seq(Bytes))
          /\ front[Len(front)] \in Seq(Bytes) /\ Joined(front, e) \in Seq(Seq(Bytes))
      BY <3>2, <3>3 DEF Pieces
    <3>5. front[Len(front)] \o e[1] = front[Len(front)]
      BY <3>1, <3>4, ConcatEmptySeq
    <3>6. \A k \in 1..Len(front) : Joined(front, e)[k] = front[k]
      BY <3>3, <3>4, <3>5
    <3>7. Joined(front, e) = front
      BY <3>1, <3>3, <3>4, <3>6, SeqEqual
    <3>8. f[m + 0] = front
      BY <1>1, <1>8 DEF front
    <3>9. f[m + 0] = Joined(front, h[0]) /\ 0 \in 0..n
      BY <3>0, <3>7, <3>8, <1>1
    <3> QED BY <3>9 DEF front
  <2>2. ASSUME NEW i \in 1..n, i - 1 \in Good PROVE i \in Good
    <3>1. m + i \in 1..Len(b) /\ (m + i) - 1 = m + (i - 1) /\ i \in 0..n /\ i - 1 \in 0..n
      BY <1>1
    <3>2. f[m + i] = SplitByte(f[m + (i - 1)], y[i])
      BY <3>1, <1>1, <1>5
    <3>3. f[m + (i - 1)] = Joined(g[m], h[i - 1])
      BY <2>2
    <3>4. SplitByte(Joined(g[m], h[i - 1]), y[i]) = Joined(g[m], SplitByte(h[i - 1], y[i]))
      BY <3>1, <1>1, <1>7, <1>9, JoinedByte
    <3>5. f[m + i] = Joined(g[m], h[i])
      BY <3>2, <3>3, <3>4, <1>7
    <3> QED BY <3>1, <3>5
  <2>3. \A i \in 0..n : i \in Good
    <3> HIDE DEF Good
    <3> QED BY <2>1, <2>2, <1>1, SetInduction
  <2> QED BY <2>3, <1>1
<1>11. Split(b) = Joined(Split(x), Split(y))
  BY <1>1, <1>2, <1>3, <1>4, <1>10
<1> QED BY <1>3, <1>4, <1>9, <1>11 DEF b

\* A text with no newline in it is one piece.
LEMMA OnePiece ==
  ASSUME NEW s \in Seq(Bytes), \A j \in 1..Len(s) : s[j] # NewLine
  PROVE  Split(s) = <<s>>
<1> DEFINE lines == Split(s)
           n == Len(lines)
           last == lines[n]
<1>1. SplitInv(s, Len(s), lines) /\ Len(s) \in Nat
  BY SplitFacts
<1> HIDE DEF lines
<1>2. lines \in Seq(Seq(Bytes)) /\ n \in Nat /\ n >= 1
  BY <1>1 DEF SplitInv
<1>3. ASSUME n > 1 PROVE FALSE
  <2>1. 1 \in 1..n /\ 1 < n /\ lines[1] \in Seq(Bytes)
    BY <1>2, <1>3
  <2>2. PICK p \in 0..Len(s) : /\ p + Len(lines[1]) + 1 <= Len(s)
                               /\ s[p + Len(lines[1]) + 1] = NewLine
    BY <2>1, <1>1 DEF SplitInv
  <2>3. p + Len(lines[1]) + 1 \in 1..Len(s)
    BY <2>1, <2>2, <1>1
  <2> QED BY <2>2, <2>3
<1>4. n = 1
  BY <1>2, <1>3
<1>5. last \in Seq(Bytes) /\ Len(last) \in Nat
  BY <1>2, <1>4
<1>6. Len(last) <= Len(s) /\ Piece(s, Len(s) - Len(last), last)
  BY <1>1 DEF SplitInv
<1> HIDE DEF last
<1>7. Len(last) = Len(s)
  <2> DEFINE p == Len(s) - Len(last)
  <2>1. p \in Nat /\ p <= Len(s)
    BY <1>1, <1>5, <1>6
  <2>2. Boundary(s, p)
    BY <1>6 DEF Piece
  <2> HIDE DEF p
  <2>3. p = 0
    BY <2>2 DEF Boundary
  <2> QED BY <2>3, <1>1, <1>5 DEF p
<1>8. last = s
  <2>1. ASSUME NEW j \in 1..Len(last) PROVE last[j] = s[j]
    <3>1. s[(Len(s) - Len(last)) + j] = last[j]
      BY <1>6 DEF Piece
    <3>2. (Len(s) - Len(last)) + j = j
      BY <1>1, <1>7
    <3> QED BY <3>1, <3>2
  <2> QED BY <2>1, <1>5, <1>7, SeqEqual
<1>9. lines[1] = s
  BY <1>4, <1>8 DEF last
<1>10. <<s>> \in Seq(Seq(Bytes)) /\ Len(<<s>>) = 1 /\ <<s>>[1] = s
  OBVIOUS
<1>11. lines = <<s>>
  <2> DEFINE e == <<s>>
  <2>1. e \in Seq(Seq(Bytes)) /\ Len(e) = 1 /\ e[1] = s
    BY <1>10
  <2> HIDE DEF e
  <2>2. \A i \in 1..Len(lines) : lines[i] = e[i]
    BY <2>1, <1>4, <1>9
  <2>3. lines = e
    BY <2>1, <2>2, <1>2, <1>4, SeqEqual
  <2> QED BY <2>3 DEF e
<1> QED BY <1>11 DEF lines

\* The first piece of a file, which a chunk leaves for the next one, has no newline in it.
LEMMA FirstPiece ==
  ASSUME NEW b \in Seq(Bytes)
  PROVE  /\ Split(b) \in Seq(Seq(Bytes)) /\ Split(b) # <<>> /\ Head(Split(b)) = Split(b)[1]
         /\ Head(Split(b)) \in Seq(Bytes)
         /\ Split(Head(Split(b))) = <<Head(Split(b))>>
<1> DEFINE lines == Split(b)
           n == Len(lines)
<1>1. SplitInv(b, Len(b), lines) /\ Len(b) \in Nat
  BY SplitFacts
<1> HIDE DEF lines
<1>2. lines \in Seq(Seq(Bytes)) /\ n \in Nat /\ n >= 1
  BY <1>1 DEF SplitInv
<1>3. lines # <<>> /\ Head(lines) = lines[1] /\ lines[1] \in Seq(Bytes) /\ 1 \in 1..n
  BY <1>2
<1>4. \A j \in 1..Len(lines[1]) : lines[1][j] # NewLine
  <2>1. CASE n = 1
    BY <2>1, <1>1 DEF SplitInv, Piece
  <2>2. CASE n # 1
    <3>1. 1 \in 1..Len(lines) /\ 1 < Len(lines)
      <4>1. n \in Nat /\ n >= 1 /\ n # 1
        BY <2>2, <1>2
      <4>2. 1 \in 1..n /\ 1 < n
        <5> HIDE DEF n
        <5> QED BY <4>1
      <4> QED BY <4>2
    <3>2. \A k \in 1..Len(lines) : k < Len(lines) => \E p \in 0..Len(b) : Piece(b, p, lines[k])
      BY <1>1 DEF SplitInv
    <3>3. PICK p \in 0..Len(b) : Piece(b, p, lines[1])
      BY <3>1, <3>2
    <3> QED BY <3>3 DEF Piece
  <2> QED BY <2>1, <2>2
<1>5. Split(lines[1]) = <<lines[1]>>
  BY <1>3, <1>4, OnePiece
<1> QED BY <1>2, <1>3, <1>5 DEF lines

\* The recursion of Records stays with turns.
LEMMA RecordsTurns ==
  ASSUME NEW lines \in Seq(Seq(Bytes)), NEW f, IsRecords(f, lines)
  PROVE  /\ f[0] = <<>>
         /\ \A i \in 1..Len(lines) : f[i] = RecordsLine(f[i - 1], lines[i])
         /\ \A i \in 0..Len(lines) : f[i] \in Seq(Turns)
<1> DEFINE Good == {i \in 0..Len(lines) : f[i] \in Seq(Turns)}
<1>1. Len(lines) \in Nat /\ \A i \in 1..Len(lines) : lines[i] \in Seq(Bytes)
  OBVIOUS
<1>2. f[0] = <<>> /\ \A i \in 1..Len(lines) : f[i] = RecordsLine(f[i - 1], lines[i])
  BY <1>1 DEF IsRecords
<1>3. 0 \in Good
  <2>1. <<>> \in Seq(Turns)
    OBVIOUS
  <2>2. f[0] \in Seq(Turns)
    BY <2>1, <1>2
  <2>3. 0 \in 0..Len(lines)
    BY <1>1
  <2> QED BY <2>2, <2>3
<1>4. ASSUME NEW i \in 1..Len(lines), i - 1 \in Good PROVE i \in Good
  <2>1. f[i - 1] \in Seq(Turns) /\ i \in 0..Len(lines)
    BY <1>4
  <2> QED BY <2>1, <1>1, <1>2, RecordsLineFacts
<1>5. \A i \in 0..Len(lines) : i \in Good
  <2> HIDE DEF Good
  <2> QED BY <1>1, <1>3, <1>4, SetInduction
<1> QED BY <1>2, <1>5

\* The turns of lines are those of the first ones, followed by those of the others.
LEMMA RecordsConcat ==
  ASSUME NEW front \in Seq(Seq(Bytes)), NEW back \in Seq(Seq(Bytes))
  PROVE  Records(front \o back) = Records(front) \o Records(back)
<1> DEFINE b == front \o back
           m == Len(front)
           n == Len(back)
<1>1. /\ b \in Seq(Seq(Bytes)) /\ Len(b) = m + n /\ m \in Nat /\ n \in Nat
      /\ \A i \in 1..m : b[i] = front[i]
      /\ \A i \in 1..n : b[m + i] = back[i] /\ back[i] \in Seq(Bytes)
  <2>1. /\ b \in Seq(Seq(Bytes)) /\ Len(b) = m + n
        /\ \A i \in 1..(m + n) : b[i] = IF i <= m THEN front[i] ELSE back[i - m]
    BY ConcatProperties
  <2>2. m \in Nat /\ n \in Nat /\ \A i \in 1..n : back[i] \in Seq(Bytes)
    OBVIOUS
  <2> HIDE DEF b, m, n
  <2>3. ASSUME NEW i \in 1..n PROVE b[m + i] = back[i]
    <3>1. m + i \in 1..(m + n) /\ ~(m + i <= m) /\ (m + i) - m = i
      BY <2>2
    <3> QED BY <3>1, <2>1
  <2>4. \A i \in 1..m : b[i] = front[i]
    BY <2>1, <2>2
  <2> QED BY <2>1, <2>2, <2>3, <2>4
<1> HIDE DEF b
<1>2. PICK f : IsRecords(f, b) /\ Records(b) = f[Len(b)]
  BY <1>1, RecordsExists
<1>3. PICK g : IsRecords(g, front) /\ Records(front) = g[m]
  BY RecordsExists
<1>4. PICK h : IsRecords(h, back) /\ Records(back) = h[n]
  BY RecordsExists
<1>5. /\ f[0] = <<>>
      /\ \A i \in 1..Len(b) : f[i] = RecordsLine(f[i - 1], b[i])
  BY <1>1, <1>2, RecordsTurns
<1>6. /\ g[0] = <<>> /\ \A i \in 1..m : g[i] = RecordsLine(g[i - 1], front[i])
      /\ \A i \in 0..m : g[i] \in Seq(Turns)
  BY <1>3, RecordsTurns
<1>7. /\ h[0] = <<>> /\ \A i \in 1..n : h[i] = RecordsLine(h[i - 1], back[i])
      /\ \A i \in 0..n : h[i] \in Seq(Turns)
  BY <1>4, RecordsTurns
<1> HIDE DEF m, n
<1>8. f[m] = g[m] /\ g[m] \in Seq(Turns)
  <2> DEFINE Good == {i \in 0..m : f[i] = g[i]}
  <2>1. 0 \in Good
    BY <1>1, <1>5, <1>6
  <2>2. ASSUME NEW i \in 1..m, i - 1 \in Good PROVE i \in Good
    <3>1. i \in 1..Len(b) /\ i \in 0..m
      BY <1>1
    <3> QED BY <3>1, <2>2, <1>1, <1>5, <1>6
  <2>3. \A i \in 0..m : i \in Good
    <3> HIDE DEF Good
    <3> QED BY <2>1, <2>2, <1>1, SetInduction
  <2> QED BY <2>3, <1>1, <1>6
<1>9. f[m + n] = g[m] \o h[n]
  <2> DEFINE Good == {i \in 0..n : f[m + i] = g[m] \o h[i]}
  <2>1. 0 \in Good
    <3>1. g[m] \o <<>> = g[m]
      BY <1>8, ConcatEmptySeq
    <3>2. f[m + 0] = g[m]
      BY <1>1, <1>8
    <3>3. f[m + 0] = g[m] \o h[0]
      BY <3>1, <3>2, <1>7
    <3>4. 0 \in 0..n
      BY <1>1
    <3> QED BY <3>3, <3>4
  <2>2. ASSUME NEW i \in 1..n, i - 1 \in Good PROVE i \in Good
    <3>1. m + i \in 1..Len(b) /\ (m + i) - 1 = m + (i - 1) /\ i \in 0..n /\ i - 1 \in 0..n
      BY <1>1
    <3>2. f[m + i] = RecordsLine(f[m + (i - 1)], back[i])
      BY <3>1, <1>1, <1>5
    <3>3. f[m + (i - 1)] = g[m] \o h[i - 1] /\ h[i - 1] \in Seq(Turns)
      BY <2>2, <3>1, <1>7
    <3>4. RecordsLine(g[m] \o h[i - 1], back[i]) = g[m] \o RecordsLine(h[i - 1], back[i])
      <4> DEFINE t == back[i][1].turn
                 u == h[i - 1]
      <4>1. CASE IsRecord(back[i])
        <5>1. t \in Turns
          BY <4>1, <1>1, RecordIsText
        <5> HIDE DEF t, u
        <5>2. g[m] \in Seq(Turns) /\ u \in Seq(Turns) /\ g[m] \o u \in Seq(Turns)
          BY <3>3, <1>8 DEF u
        <5>3. <<t>> \in Seq(Turns)
          BY <5>1
        <5>4. /\ Append(g[m] \o u, t) = (g[m] \o u) \o <<t>>
              /\ Append(u, t) = u \o <<t>>
          BY <5>1, <5>2, AppendIsConcat
        <5>5. (g[m] \o u) \o <<t>> = g[m] \o (u \o <<t>>)
          <6> DEFINE e == <<t>>
          <6>1. e \in Seq(Turns)
            BY <5>3
          <6> HIDE DEF e
          <6>2. \A v, w, z \in Seq(Turns) : (v \o w) \o z = v \o (w \o z)
            BY ConcatAssociative
          <6>3. (g[m] \o u) \o e = g[m] \o (u \o e)
            BY <6>1, <6>2, <5>2
          <6> QED BY <6>3 DEF e
        <5>6. Append(g[m] \o u, t) = g[m] \o Append(u, t)
          BY <5>4, <5>5
        <5> QED BY <4>1, <5>6 DEF RecordsLine, t, u
      <4>2. CASE ~IsRecord(back[i])
        BY <4>2 DEF RecordsLine
      <4> QED BY <4>1, <4>2
    <3>5. f[m + i] = g[m] \o h[i]
      BY <3>2, <3>3, <3>4, <1>7
    <3> QED BY <3>1, <3>5
  <2>3. \A i \in 0..n : i \in Good
    <3> HIDE DEF Good
    <3> QED BY <2>1, <2>2, <1>1, SetInduction
  <2>4. n \in 0..n
    BY <1>1
  <2>5. n \in Good
    BY <2>3, <2>4
  <2> QED BY <2>5
<1>10. Records(b) = Records(front) \o Records(back)
  BY <1>1, <1>2, <1>3, <1>4, <1>9
<1> QED BY <1>10 DEF b

\* What a chunk y, put after x, adds: the turns of its pieces but the first, which is the end
\* of a line that starts in x.
LEMMA ChunkRecords ==
  ASSUME NEW x \in Seq(Bytes), NEW y \in Seq(Bytes)
  PROVE  /\ Records(Split(x \o y)) = Records(Split(x \o Head(Split(y)))) \o Records(Tail(Split(y)))
         /\ Tail(Split(y)) \in Seq(Seq(Bytes)) /\ x \o Head(Split(y)) \in Seq(Bytes)
<1> DEFINE front == Split(x)
           back == Split(y)
           h == Head(back)
           e == <<h>>
           l == Joined(front, back)
           r == Joined(front, e)
           t == Tail(back)
<1>1. /\ back \in Seq(Seq(Bytes)) /\ back # <<>> /\ h = back[1] /\ h \in Seq(Bytes)
      /\ Split(h) = e
  BY FirstPiece
<1>2. Split(x \o y) = l /\ front \in Pieces /\ back \in Pieces
  BY SplitConcat
<1>3. Split(x \o h) = r /\ e \in Pieces
  BY <1>1, SplitConcat
<1>4. Len(e) = 1 /\ e[1] = h
  OBVIOUS
<1>5. t \in Seq(Seq(Bytes)) /\ Len(t) = Len(back) - 1 /\ \A i \in 1..Len(t) : t[i] = back[i + 1]
  BY <1>1, HeadTailProperties
<1> HIDE DEF front, back, h, e, t
<1>6. /\ l \in Pieces /\ Len(l) = Len(front) + (Len(back) - 1)
      /\ \A k \in 1..Len(front) : k < Len(front) => l[k] = front[k]
      /\ l[Len(front)] = front[Len(front)] \o back[1]
      /\ \A k \in 2..Len(back) : l[Len(front) + (k - 1)] = back[k]
  BY <1>2, JoinedFacts
<1>7. /\ r \in Pieces /\ Len(r) = Len(front) + (Len(e) - 1)
      /\ \A k \in 1..Len(front) : k < Len(front) => r[k] = front[k]
      /\ r[Len(front)] = front[Len(front)] \o e[1]
  BY <1>2, <1>3, JoinedFacts
<1> HIDE DEF l, r
<1>8. /\ Len(front) \in Nat /\ Len(front) >= 1 /\ Len(back) \in Nat /\ Len(back) >= 1
      /\ l \in Seq(Seq(Bytes)) /\ r \in Seq(Seq(Bytes))
  <2>1. \A lines \in Pieces : lines \in Seq(Seq(Bytes)) /\ Len(lines) \in Nat /\ Len(lines) >= 1
    BY DEF Pieces
  <2> QED BY <2>1, <1>2, <1>6, <1>7
<1>9. l = r \o t
  <2> DEFINE m == Len(front)
             n == Len(back)
             c == r \o t
  <2>1. Len(r) = m /\ Len(t) = n - 1 /\ m \in Nat /\ n \in Nat /\ m >= 1 /\ n >= 1
    BY <1>4, <1>5, <1>7, <1>8
  <2>2. /\ c \in Seq(Seq(Bytes)) /\ Len(c) = Len(r) + Len(t)
        /\ \A i \in 1..(Len(r) + Len(t)) : c[i] = IF i <= Len(r) THEN r[i] ELSE t[i - Len(r)]
    BY <1>5, <1>8, ConcatProperties
  <2>3. Len(l) = m + (n - 1)
    BY <1>6
  <2> HIDE DEF m, n, c
  <2>4. ASSUME NEW k \in 1..(m + (n - 1)) PROVE l[k] = c[k]
    <3>1. c[k] = IF k <= m THEN r[k] ELSE t[k - m]
      BY <2>1, <2>2
    <3>2. CASE k < m
      <4>1. k \in 1..m /\ k <= m
        BY <3>2, <2>1
      <4> QED BY <3>1, <3>2, <4>1, <1>6, <1>7 DEF m
    <3>3. CASE k = m
      <4>1. l[m] = front[m] \o back[1] /\ r[m] = front[m] \o back[1]
        BY <1>1, <1>4, <1>6, <1>7 DEF m
      <4>2. m <= m
        BY <2>1
      <4>3. c[m] = r[m]
        BY <3>1, <3>3, <4>2
      <4> QED BY <3>3, <4>1, <4>3
    <3>4. CASE k > m
      <4> DEFINE i == k - m
      <4>1. i \in 1..Len(t) /\ i + 1 \in 2..n /\ m + ((i + 1) - 1) = k /\ ~(k <= m)
        BY <3>4, <2>1
      <4> HIDE DEF i
      <4>2. l[m + ((i + 1) - 1)] = back[i + 1]
        BY <4>1, <1>6 DEF m, n
      <4>3. t[i] = back[i + 1]
        BY <4>1, <1>5
      <4>4. c[k] = t[i]
        BY <3>1, <4>1 DEF i
      <4> QED BY <4>1, <4>2, <4>3, <4>4
    <3> QED BY <3>2, <3>3, <3>4, <2>1
  <2>5. l = c
    <3>1. Len(c) = m + (n - 1)
      BY <2>1, <2>2
    <3> QED BY <3>1, <2>2, <2>3, <2>4, <1>8, SeqEqual
  <2> QED BY <2>5 DEF c
<1>10. Records(r \o t) = Records(r) \o Records(t)
  BY <1>5, <1>8, RecordsConcat
<1>11. Records(Split(x \o y)) = Records(Split(x \o h)) \o Records(t)
  BY <1>2, <1>3, <1>9, <1>10
<1>12. x \o h \in Seq(Bytes)
  BY <1>1
<1> QED BY <1>5, <1>11, <1>12 DEF t, h, back

\* The smaller and the larger of two numbers.
LEMMA MinOfTwo ==
  ASSUME NEW a \in Int, NEW b \in Int
  PROVE  /\ Min({a, b}) \in {a, b} /\ Min({a, b}) <= a /\ Min({a, b}) <= b
         /\ Max({a, b}) \in {a, b} /\ Max({a, b}) >= a /\ Max({a, b}) >= b
<1>1. \E x \in {a, b} : \A y \in {a, b} : x <= y
  <2>1. a <= b \/ b <= a
    OBVIOUS
  <2> QED BY <2>1
<1>2. Min({a, b}) \in {a, b} /\ \A y \in {a, b} : Min({a, b}) <= y
  BY <1>1, Zenon DEF Min
<1>3. \E x \in {a, b} : \A y \in {a, b} : x >= y
  <2>1. a <= b \/ b <= a
    OBVIOUS
  <2> QED BY <2>1
<1>4. Max({a, b}) \in {a, b} /\ \A y \in {a, b} : Max({a, b}) >= y
  BY <1>3, Zenon DEF Max
<1> QED BY <1>2, <1>4

\* The turns of a file are a sequence of turns; an empty file has none.
LEMMA RecordsType ==
  ASSUME NEW b \in Seq(Bytes)
  PROVE  Split(b) \in Seq(Seq(Bytes)) /\ Records(Split(b)) \in Seq(Turns)
<1>1. Split(b) \in Seq(Seq(Bytes))
  BY FirstPiece
<1>2. ASSUME NEW lines \in Seq(Seq(Bytes)) PROVE Records(lines) \in Seq(Turns)
  <2>1. PICK f : IsRecords(f, lines) /\ Records(lines) = f[Len(lines)]
    BY RecordsExists
  <2>2. Len(lines) \in 0..Len(lines)
    OBVIOUS
  <2>3. \A i \in 0..Len(lines) : f[i] \in Seq(Turns)
    BY <2>1, RecordsTurns
  <2> QED BY <2>1, <2>2, <2>3
<1> QED BY <1>1, <1>2

\* An empty file has none.
LEMMA NoRecords == Records(Split(<<>>)) = <<>>
<1> DEFINE s == <<>>
           lines == <<s>>
<1>1. s \in Seq(Bytes) /\ Len(s) = 0 /\ ~IsRecord(s)
  BY DEF IsRecord
<1>2. \A j \in 1..Len(s) : s[j] # NewLine
  BY <1>1
<1> HIDE DEF s
<1>3. Split(s) = lines
  BY <1>1, <1>2, OnePiece
<1>4. lines \in Seq(Seq(Bytes)) /\ Len(lines) = 1 /\ lines[1] = s
  BY <1>1
<1> HIDE DEF lines
<1>5. PICK f : IsRecords(f, lines) /\ Records(lines) = f[Len(lines)]
  BY <1>4, RecordsExists
<1>6. f[0] = <<>> /\ \A i \in 1..Len(lines) : f[i] = RecordsLine(f[i - 1], lines[i])
  BY <1>4, <1>5, RecordsTurns
<1>7. 1 \in 1..Len(lines) /\ 1 - 1 = 0
  BY <1>4
<1>8. f[1] = RecordsLine(f[0], s)
  BY <1>4, <1>6, <1>7
<1>9. f[1] = <<>>
  BY <1>1, <1>6, <1>8 DEF RecordsLine
<1>10. Records(lines) = <<>>
  BY <1>4, <1>5, <1>9
<1> QED BY <1>3, <1>10 DEF s

\* out holds the last turns of all, latest first, at most as many as asked for.
ReadBack(all, out, limit) ==
  /\ out \in Seq(Turns) /\ Len(out) <= limit /\ Len(out) <= Len(all)
  /\ \A i \in 1..Len(out) : out[i] = all[(Len(all) + 1) - i]

\* unread holds the turns before those of out.
Unread(all, out, unread) ==
  /\ unread \in Seq(Turns) /\ Len(unread) = Len(all) - Len(out)
  /\ \A k \in 1..Len(unread) : unread[k] = all[k]

\* What a chunk with the turns found adds to out.
Taken(out, turns, limit) ==
  LET found == Reverse(turns) IN SubSeq(found, 1, Min({Len(found), limit - Len(out)}))

\* Turns backwards.
LEMMA ReverseFacts ==
  ASSUME NEW s \in Seq(Turns)
  PROVE  /\ Reverse(s) \in Seq(Turns) /\ Len(Reverse(s)) = Len(s)
         /\ \A i \in 1..Len(s) : Reverse(s)[i] = s[(Len(s) - i) + 1]
<1> DEFINE n == Len(s)
           r == Reverse(s)
<1>1. n \in Nat /\ \A i \in 1..n : s[i] \in Turns
  OBVIOUS
<1>2. r = [i \in 1..n |-> s[(n - i) + 1]]
  BY DEF Reverse
<1> HIDE DEF n, r
<1>3. ASSUME NEW i \in 1..n PROVE r[i] = s[(n - i) + 1] /\ r[i] \in Turns
  <2>1. (n - i) + 1 \in 1..n
    BY <1>1
  <2> QED BY <2>1, <1>1, <1>2
<1>4. r = [i \in 1..n |-> r[i]]
  BY <1>2
<1>5. r \in [1..n -> Turns]
  BY <1>3, <1>4
<1>6. r \in Seq(Turns) /\ Len(r) = n
  BY <1>1, <1>5
<1> QED BY <1>3, <1>6 DEF n, r

\* The turns taken from a chunk: its last ones, as many as are missing.
LEMMA TakenFacts ==
  ASSUME NEW out \in Seq(Turns), NEW turns \in Seq(Turns), NEW limit \in Nat, Len(out) <= limit
  PROVE  /\ Taken(out, turns, limit) \in Seq(Turns)
         /\ Len(Taken(out, turns, limit)) <= Len(turns)
         /\ Len(Taken(out, turns, limit)) <= limit - Len(out)
         /\ Len(Taken(out, turns, limit)) = Len(turns)
              \/ Len(Taken(out, turns, limit)) = limit - Len(out)
         /\ \A i \in 1..Len(Taken(out, turns, limit)) :
              Taken(out, turns, limit)[i] = turns[(Len(turns) - i) + 1]
<1> DEFINE found == Reverse(turns)
           n == Len(turns)
           k == Min({Len(found), limit - Len(out)})
           r == SubSeq(found, 1, k)
<1>1. found \in Seq(Turns) /\ Len(found) = n /\ n \in Nat
      /\ \A i \in 1..n : found[i] = turns[(n - i) + 1]
  BY ReverseFacts
<1>2. Len(out) \in Nat
  OBVIOUS
<1> HIDE DEF found, n
<1>3. /\ k \in {Len(found), limit - Len(out)} /\ k <= Len(found) /\ k <= limit - Len(out)
  <2>1. Len(found) \in Int /\ limit - Len(out) \in Int
    BY <1>1, <1>2
  <2> QED BY <2>1, MinOfTwo
<1> HIDE DEF k
<1>4. k \in Nat /\ k <= n /\ k <= limit - Len(out) /\ (k = n \/ k = limit - Len(out))
  BY <1>1, <1>2, <1>3
<1>5. \A i \in 1..k : found[i] \in Turns
  BY <1>1, <1>4
<1>6. /\ r \in Seq(Turns) /\ Len(r) = IF 1 <= k THEN (k - 1) + 1 ELSE 0
      /\ \A i \in 1..((k - 1) + 1) : r[i] = found[(1 + i) - 1]
  BY <1>4, <1>5, SubSeqProperties
<1> HIDE DEF r
<1>7. Len(r) = k
  BY <1>4, <1>6
<1>8. ASSUME NEW i \in 1..k PROVE r[i] = turns[(n - i) + 1]
  <2>1. (1 + i) - 1 = i /\ i \in 1..((k - 1) + 1) /\ i \in 1..n
    BY <1>1, <1>4
  <2>2. r[i] = found[i]
    BY <2>1, <1>6
  <2> QED BY <2>1, <2>2, <1>1
<1>9. Taken(out, turns, limit) = r
  BY DEF Taken, r, k, found
<1> QED BY <1>4, <1>6, <1>7, <1>8, <1>9 DEF n

\* Taking what a chunk holds: out goes on backwards, and what is still to be read gets shorter.
LEMMA TakingFacts ==
  ASSUME NEW all \in Seq(Turns), NEW out, NEW limit \in Nat, ReadBack(all, out, limit),
         NEW front \in Seq(Turns), NEW turns \in Seq(Turns), Unread(all, out, front \o turns)
  PROVE  /\ ReadBack(all, out \o Taken(out, turns, limit), limit)
         /\ Len(out \o Taken(out, turns, limit)) < limit =>
              Unread(all, out \o Taken(out, turns, limit), front)
<1> DEFINE t == Taken(out, turns, limit)
           o == out \o t
           u == front \o turns
           n == Len(all)
           a == Len(out)
           m == Len(front)
           f == Len(turns)
           k == Len(t)
<1>1. /\ out \in Seq(Turns) /\ a <= limit /\ a <= n
      /\ \A i \in 1..a : out[i] = all[(n + 1) - i]
  BY DEF ReadBack
<1>2. /\ t \in Seq(Turns) /\ k <= f /\ k <= limit - a /\ (k = f \/ k = limit - a)
      /\ \A i \in 1..k : t[i] = turns[(f - i) + 1]
  BY <1>1, TakenFacts
<1>3. a \in Nat /\ n \in Nat /\ m \in Nat /\ f \in Nat
  BY <1>1
<1>4. /\ Len(u) = m + f
      /\ \A i \in 1..(m + f) : u[i] = IF i <= m THEN front[i] ELSE turns[i - m]
  BY ConcatProperties
<1>5. Len(u) = n - a /\ \A i \in 1..Len(u) : u[i] = all[i]
  BY DEF Unread
<1> HIDE DEF t
<1>6. k \in Nat
  BY <1>2
<1>7. /\ o \in Seq(Turns) /\ Len(o) = a + k
      /\ \A i \in 1..(a + k) : o[i] = IF i <= a THEN out[i] ELSE t[i - a]
  BY <1>1, <1>2, ConcatProperties
<1> HIDE DEF o, u, n, a, m, f, k
<1>8. m + f = n - a /\ a + k <= limit /\ a + k <= n
  BY <1>1, <1>2, <1>3, <1>4, <1>5, <1>6
<1>9. ASSUME NEW i \in 1..(a + k) PROVE o[i] = all[(n + 1) - i]
  <2>1. CASE i <= a
    <3>1. i \in 1..a
      BY <2>1, <1>3
    <3> QED BY <2>1, <3>1, <1>1, <1>7
  <2>2. CASE ~(i <= a)
    <3> DEFINE j == i - a
               p == (n + 1) - i
    <3>a. k <= f
      BY <1>2
    <3>b. i \in Nat /\ i <= a + k /\ i >= a + 1
      BY <2>2, <1>3, <1>6
    <3>1. j \in 1..k /\ p \in 1..(m + f) /\ ~(p <= m) /\ p - m = (f - j) + 1
      BY <3>a, <3>b, <1>3, <1>6, <1>8
    <3>2. o[i] = t[j]
      BY <2>2, <1>7
    <3> HIDE DEF j, p
    <3>3. t[j] = turns[(f - j) + 1]
      BY <3>1, <1>2
    <3>4. u[p] = turns[p - m] /\ u[p] = all[p]
      BY <3>1, <1>4, <1>5
    <3> QED BY <3>1, <3>2, <3>3, <3>4 DEF p
  <2> QED BY <2>1, <2>2
<1>10. ReadBack(all, o, limit)
  <2>1. Len(o) <= limit /\ Len(o) <= n /\ \A i \in 1..Len(o) : o[i] = all[(n + 1) - i]
    BY <1>7, <1>8, <1>9
  <2> QED BY <2>1, <1>7 DEF ReadBack, n
<1>11. ASSUME Len(o) < limit PROVE Unread(all, o, front)
  <2>1. k = f
    BY <1>11, <1>2, <1>3, <1>6, <1>7
  <2>2. m = n - Len(o)
    BY <2>1, <1>3, <1>7, <1>8
  <2>3. ASSUME NEW i \in 1..m PROVE front[i] = all[i]
    <3>1. i \in 1..(m + f) /\ i <= m
      BY <1>3
    <3> QED BY <3>1, <1>4, <1>5
  <2> QED BY <2>2, <2>3 DEF Unread, m, n
<1> QED BY <1>10, <1>11 DEF o, t

\* When nothing more is needed, or nothing more is there, the turns are the last ones.
LEMMA ReadBackLast ==
  ASSUME NEW all \in Seq(Turns), NEW out, NEW limit \in Nat \ {0}, ReadBack(all, out, limit),
         Len(out) = limit \/ Len(out) = Len(all)
  PROVE  Reverse(out) = SubSeq(all, Max({1, (Len(all) - limit) + 1}), Len(all))
<1> DEFINE n == Len(all)
           a == Len(out)
           from == Max({1, (n - limit) + 1})
           r == SubSeq(all, from, n)
           v == Reverse(out)
<1>1. /\ out \in Seq(Turns) /\ a <= limit /\ a <= n
      /\ \A i \in 1..a : out[i] = all[(n + 1) - i]
  BY DEF ReadBack
<1>2. n \in Nat /\ a \in Nat /\ (a = limit \/ a = n)
  BY <1>1
<1>3. v \in Seq(Turns) /\ Len(v) = a /\ \A i \in 1..a : v[i] = out[(a - i) + 1]
  BY <1>1, ReverseFacts
<1>4. \A i \in 1..n : all[i] \in Turns
  OBVIOUS
<1> HIDE DEF n, a, v
<1>5. /\ from \in {1, (n - limit) + 1} /\ from >= 1 /\ from >= (n - limit) + 1
  <2>1. 1 \in Int /\ (n - limit) + 1 \in Int
    BY <1>2
  <2> QED BY <2>1, MinOfTwo
<1> HIDE DEF from
<1>6. from = (n - a) + 1 /\ from \in Nat
  BY <1>1, <1>2, <1>5
<1>7. \A i \in from..n : all[i] \in Turns
  BY <1>2, <1>4, <1>6, <1>1
<1>8. /\ r \in Seq(Turns) /\ Len(r) = IF from <= n THEN (n - from) + 1 ELSE 0
      /\ \A i \in 1..((n - from) + 1) : r[i] = all[(from + i) - 1]
  BY <1>2, <1>6, <1>7, SubSeqProperties
<1> HIDE DEF r
<1>9. Len(r) = a
  BY <1>1, <1>2, <1>6, <1>8
<1>10. ASSUME NEW i \in 1..a PROVE v[i] = r[i]
  <2> DEFINE j == (a - i) + 1
  <2>1. /\ j \in 1..a /\ (n + 1) - j = (from + i) - 1 /\ i \in 1..((n - from) + 1)
    BY <1>1, <1>2, <1>6
  <2>2. v[i] = out[j]
    BY <1>3
  <2> HIDE DEF j
  <2>3. out[j] = all[(n + 1) - j]
    BY <2>1, <1>1
  <2>4. r[i] = all[(from + i) - 1]
    BY <2>1, <1>8
  <2> QED BY <2>1, <2>2, <2>3, <2>4
<1>11. v = r
  BY <1>3, <1>8, <1>9, <1>10, SeqEqual
<1> QED BY <1>11 DEF v, r, from, n

\* The states of the backward scan, and the turns it has still to read.
ScanState == [offset : 0..Len(log), pending : Seq(Bytes), out : Seq(Turns)]

Left(s) == Records(Split(SubSeq(log, 1, s.offset) \o s.pending))

\* r is s after one chunk, in which there were the turns given, after those of front.
ChunkRead(s, r, limit, front, turns) ==
  /\ r.out = s.out \o Taken(s.out, turns, limit)
  /\ Left(s) = front \o turns
  /\ Left(r) = front
  /\ r.offset = 0 => r.pending = <<>>

\* One chunk: what was left is what is left now and what the chunk holds.
LEMMA ReadChunkFacts ==
  ASSUME log \in Seq(Bytes), NEW limit \in Nat, NEW s \in ScanState,
         s.offset > 0, Len(s.out) < limit
  PROVE  /\ ReadChunk(s, limit) \in ScanState
         /\ ReadChunk(s, limit).offset = IF TailChunk > s.offset THEN 0 ELSE s.offset - TailChunk
         /\ \E front, turns \in Seq(Turns) : ChunkRead(s, ReadChunk(s, limit), limit, front, turns)
<1> DEFINE n == Len(log)
           end == s.offset
           from == IF TailChunk > end THEN 0 ELSE end - TailChunk
           x == SubSeq(log, 1, from)
           z == SubSeq(log, from + 1, end)
           y == z \o s.pending
           lines == Split(y)
           rest == IF from = 0 THEN lines ELSE Tail(lines)
           turns == Records(rest)
           pending == IF from = 0 THEN <<>> ELSE Head(lines)
           r == ReadChunk(s, limit)
           front == Records(Split(x \o pending))
<1>1. /\ s = [offset |-> s.offset, pending |-> s.pending, out |-> s.out]
      /\ end \in 0..n /\ s.pending \in Seq(Bytes) /\ s.out \in Seq(Turns)
  BY DEF ScanState
<1>2. n \in Nat /\ TailChunk \in Nat /\ TailChunk > 0 /\ \A i \in 1..n : log[i] \in Bytes
  <2>1. TailChunk \in Nat /\ TailChunk > 0
    BY TurnLogAssumption
  <2> QED BY <2>1
<1>3. r = [offset |-> from, pending |-> pending, out |-> s.out \o Taken(s.out, turns, limit)]
  BY DEF ReadChunk, Taken
<1> HIDE DEF n, r
<1>4. end \in Nat /\ end <= n /\ from \in Nat /\ from < end /\ end > 0
  BY <1>1, <1>2
<1> HIDE DEF from
<1>5. x \in Seq(Bytes) /\ z \in Seq(Bytes) /\ SubSeq(log, 1, end) = x \o z
  <2>1. \A i \in 1..from : log[i] \in Bytes
    BY <1>2, <1>4
  <2>2. \A i \in (from + 1)..end : log[i] \in Bytes
    BY <1>2, <1>4
  <2>3. x \in Seq(Bytes)
    BY <2>1, <1>4, SubSeqProperties
  <2>4. z \in Seq(Bytes)
    BY <2>2, <1>4, SubSeqProperties
  <2>5. 1 \in 1..(Len(log) + 1) /\ from \in (1 - 1)..Len(log) /\ end \in from..Len(log)
    BY <1>2, <1>4 DEF n
  <2>6. SubSeq(log, 1, from) \o SubSeq(log, from + 1, end) = SubSeq(log, 1, end)
    BY <2>5, ConcatAdjacentSubSeq
  <2> QED BY <2>3, <2>4, <2>6
<1>6. from = 0 => x = <<>>
  BY <1>4, SubSeqEmpty
<1> DEFINE w == SubSeq(log, 1, end)
<1>7. w = x \o z
  BY <1>5
<1> HIDE DEF x, z, w
<1>8. y \in Seq(Bytes) /\ w \o s.pending = x \o y
  <2>2. (x \o z) \o s.pending = x \o (z \o s.pending)
    BY <1>1, <1>5, BytesAssociative
  <2>3. y \in Seq(Bytes)
    BY <1>1, <1>5
  <2> QED BY <2>2, <2>3, <1>7
<1>9. Left(s) = Records(Split(x \o y))
  BY <1>8 DEF Left, w
<1> HIDE DEF y
<1>10. /\ lines \in Seq(Seq(Bytes)) /\ Head(lines) \in Seq(Bytes)
       /\ Records(Split(x \o y)) = Records(Split(x \o Head(lines))) \o Records(Tail(lines))
       /\ Tail(lines) \in Seq(Seq(Bytes)) /\ x \o Head(lines) \in Seq(Bytes)
  BY <1>5, <1>8, ChunkRecords, FirstPiece
<1> HIDE DEF lines
<1>11. pending \in Seq(Bytes) /\ (from = 0 => pending = <<>>)
  BY <1>10
<1>12. turns \in Seq(Turns) /\ front \in Seq(Turns) /\ Records(Split(x \o y)) = front \o turns
  <2>1. CASE from = 0
    <3>1. x = <<>> /\ pending = <<>> /\ turns = Records(lines)
      BY <2>1, <1>6
    <3>2. x \o y = y
      BY <3>1, <1>8, ConcatEmptySeq
    <3>3. x \o pending = <<>>
      BY <3>1
    <3>4. front = <<>>
      BY <3>3, NoRecords
    <3>5. turns \in Seq(Turns) /\ Records(Split(x \o y)) = turns
      BY <3>1, <3>2, <1>8, RecordsType DEF lines
    <3> HIDE DEF front, turns
    <3>6. <<>> \o turns = turns
      BY <3>5, ConcatEmptySeq
    <3>7. front \in Seq(Turns)
      BY <3>4
    <3> QED BY <3>4, <3>5, <3>6, <3>7
  <2>2. CASE from # 0
    <3>1. pending = Head(lines) /\ turns = Records(Tail(lines))
      BY <2>2
    <3>2. front = Records(Split(x \o Head(lines)))
      BY <3>1
    <3>3. front \in Seq(Turns)
      BY <3>2, <1>10, RecordsType
    <3>4. turns \in Seq(Turns)
      <4> DEFINE t == Tail(lines)
      <4>1. t \in Seq(Seq(Bytes))
        BY <1>10
      <4> HIDE DEF t
      <4>2. PICK f : IsRecords(f, t) /\ Records(t) = f[Len(t)]
        BY <4>1, RecordsExists
      <4>3. \A i \in 0..Len(t) : f[i] \in Seq(Turns)
        BY <4>1, <4>2, RecordsTurns
      <4>4. Records(t) \in Seq(Turns)
        BY <4>1, <4>2, <4>3
      <4> QED BY <3>1, <4>4 DEF t
    <3> HIDE DEF front, turns
    <3> QED BY <3>1, <3>2, <3>3, <3>4, <1>10
  <2> QED BY <2>1, <2>2
<1> HIDE DEF turns, front, pending
<1>13. Taken(s.out, turns, limit) \in Seq(Turns)
  BY <1>1, <1>12, TakenFacts
<1>14. /\ r.offset = from /\ r.pending = pending
       /\ r.out = s.out \o Taken(s.out, turns, limit)
  BY <1>3
<1>15. r \in ScanState
  <2>1. s.out \o Taken(s.out, turns, limit) \in Seq(Turns)
    BY <1>1, <1>13
  <2>2. from \in 0..Len(log)
    BY <1>4 DEF n
  <2> QED BY <2>1, <2>2, <1>3, <1>11 DEF ScanState
<1>16. Left(r) = front
  BY <1>14 DEF Left, front, x
<1>17. ChunkRead(s, r, limit, front, turns)
  BY <1>9, <1>11, <1>12, <1>14, <1>16 DEF ChunkRead
<1>18. r.offset = IF TailChunk > s.offset THEN 0 ELSE s.offset - TailChunk
  BY <1>14 DEF from
<1> QED BY <1>12, <1>15, <1>17, <1>18 DEF r

ScanSteps == Len(log) \div TailChunk + 1
ScanStart == [offset |-> Len(log), pending |-> <<>>, out |-> <<>>]
ScanStep(s, limit) == IF s.offset > 0 /\ Len(s.out) < limit THEN ReadChunk(s, limit) ELSE s

IsScan(f, limit) ==
  f = [n \in 0..ScanSteps |-> IF n = 0 THEN ScanStart ELSE ScanStep(f[n - 1], limit)]

\* As many chunks as are read are longer than the log.
LEMMA ScanStepsFacts ==
  ASSUME log \in Seq(Bytes)
  PROVE  ScanSteps \in Nat /\ Len(log) < ScanSteps * TailChunk /\ TailChunk \in Nat \ {0}
<1>1. Len(log) \in Nat /\ TailChunk \in Nat \ {0}
  BY TurnLogAssumption
<1>2. \A a \in Nat : \A c \in Nat \ {0} : a \div c \in Nat /\ a < (a \div c + 1) * c
  OBVIOUS
<1> QED BY <1>1, <1>2 DEF ScanSteps

\* The states of a scan.
LEMMA ScanExists ==
  ASSUME log \in Seq(Bytes), NEW limit \in Nat
  PROVE  \E f : IsScan(f, limit) /\ TailScan(limit) = Reverse(f[ScanSteps].out)
<1> DEFINE n == ScanSteps
           D == ScanState
           step == [x \in (1..n) \X D |-> ScanStep(x[2], limit)]
<1>1. n \in Nat
  BY ScanStepsFacts
<1>2. ScanStart \in D
  <2>1. <<>> \in Seq(Bytes) /\ <<>> \in Seq(Turns) /\ Len(log) \in 0..Len(log)
    OBVIOUS
  <2> QED BY <2>1 DEF ScanState, ScanStart
<1>3. \A s \in D : ScanStep(s, limit) \in D
  <2> SUFFICES ASSUME NEW s \in D PROVE ScanStep(s, limit) \in D
    OBVIOUS
  <2>1. CASE s.offset > 0 /\ Len(s.out) < limit
    <3>1. ReadChunk(s, limit) \in ScanState
      BY <2>1, ReadChunkFacts
    <3> QED BY <2>1, <3>1 DEF ScanStep
  <2>2. CASE ~(s.offset > 0 /\ Len(s.out) < limit)
    BY <2>2 DEF ScanStep
  <2> QED BY <2>1, <2>2
<1> HIDE DEF n, D
<1>4. step \in [(1..n) \X D -> D]
  BY <1>3
<1>5. PICK f : Follows(f, n, D, ScanStart, step)
  <2> HIDE DEF step
  <2> QED BY <1>1, <1>2, <1>4, RecursionExists
<1>6. /\ f \in [0..n -> D] /\ f[0] = ScanStart
      /\ \A i \in 1..n : f[i] = step[<<i, f[i - 1]>>]
  BY <1>5 DEF Follows
<1>7. ASSUME NEW i \in 1..n PROVE f[i] = ScanStep(f[i - 1], limit)
  <2>1. i - 1 \in 0..n
    BY <1>1
  <2>2. <<i, f[i - 1]>> \in (1..n) \X D
    BY <2>1, <1>6
  <2>3. step[<<i, f[i - 1]>>] = ScanStep(f[i - 1], limit)
    BY <2>2
  <2> QED BY <2>3, <1>6
<1>8. IsScan(f, limit)
  <2>1. ASSUME NEW i \in 0..n
        PROVE  f[i] = IF i = 0 THEN ScanStart ELSE ScanStep(f[i - 1], limit)
    <3>1. i = 0 \/ i \in 1..n
      BY <1>1
    <3> QED BY <3>1, <1>6, <1>7
  <2>2. f = [i \in 0..n |-> f[i]]
    BY <1>6
  <2> HIDE DEF step
  <2>3. [i \in 0..n |-> f[i]] =
        [i \in 0..n |-> IF i = 0 THEN ScanStart ELSE ScanStep(f[i - 1], limit)]
    BY <2>1
  <2> QED BY <2>2, <2>3 DEF IsScan, n
<1> DEFINE g == CHOOSE h : h = [i \in 0..(Len(log) \div TailChunk + 1) |->
                   IF i = 0 THEN [offset |-> Len(log), pending |-> <<>>, out |-> <<>>]
                   ELSE IF h[i - 1].offset > 0 /\ Len(h[i - 1].out) < limit
                        THEN ReadChunk(h[i - 1], limit) ELSE h[i - 1]]
<1>9. TailScan(limit) = Reverse(g[ScanSteps].out)
  BY Zenon DEF TailScan, ScanSteps
<1>10. IsScan(g, limit)
  BY <1>8, Zenon DEF IsScan, ScanSteps, ScanStart, ScanStep
<1> HIDE DEF g
<1> QED BY <1>9, <1>10

\* What a scan knows: the turns found are the last ones, what is left holds those before.
ScanInv(s, limit) ==
  /\ s \in ScanState
  /\ s.offset = 0 => s.pending = <<>>
  /\ ReadBack(Records(Split(log)), s.out, limit)
  /\ Len(s.out) < limit => Unread(Records(Split(log)), s.out, Left(s))

\* So it is before the first chunk.
LEMMA ScanStartInv ==
  ASSUME log \in Seq(Bytes), NEW limit \in Nat
  PROVE  ScanInv(ScanStart, limit)
<1> DEFINE all == Records(Split(log))
           s == ScanStart
<1>1. /\ s.offset = Len(log) /\ s.pending = <<>> /\ s.out = <<>>
  BY DEF ScanStart
<1>2. s \in ScanState
  <2>1. <<>> \in Seq(Bytes) /\ <<>> \in Seq(Turns) /\ Len(log) \in 0..Len(log)
    OBVIOUS
  <2> QED BY <2>1 DEF ScanState, ScanStart
<1>3. all \in Seq(Turns)
  BY RecordsType
<1>4. Left(s) = all
  <2>1. SubSeq(log, 1, Len(log)) = log
    BY SubSeqFull
  <2>2. log \o <<>> = log
    BY ConcatEmptySeq
  <2> QED BY <2>1, <2>2, <1>1 DEF Left
<1> HIDE DEF all, s
<1>5. ReadBack(all, s.out, limit)
  <2> DEFINE o == s.out
  <2>1. o \in Seq(Turns) /\ Len(o) = 0
    BY <1>1
  <2> HIDE DEF o
  <2>2. ReadBack(all, o, limit)
    BY <2>1, <1>3 DEF ReadBack
  <2> QED BY <2>2 DEF o
<1>6. Unread(all, s.out, Left(s))
  <2>1. Len(s.out) = 0
    BY <1>1
  <2>2. Len(all) = Len(all) - Len(s.out)
    BY <2>1, <1>3
  <2> QED BY <2>2, <1>3, <1>4 DEF Unread
<1> QED BY <1>1, <1>2, <1>5, <1>6 DEF ScanInv, all, s

\* And after every chunk.
LEMMA ScanStepInv ==
  ASSUME log \in Seq(Bytes), NEW limit \in Nat, NEW s, ScanInv(s, limit)
  PROVE  ScanInv(ScanStep(s, limit), limit)
<1> DEFINE all == Records(Split(log))
           r == ReadChunk(s, limit)
<1>1. CASE s.offset > 0 /\ Len(s.out) < limit
  <2>1. /\ s \in ScanState
        /\ ReadBack(all, s.out, limit) /\ Unread(all, s.out, Left(s))
    BY <1>1 DEF ScanInv
  <2>2. r \in ScanState /\ \E front, turns \in Seq(Turns) : ChunkRead(s, r, limit, front, turns)
    BY <1>1, <2>1, ReadChunkFacts
  <2>3. all \in Seq(Turns)
    BY RecordsType
  <2> HIDE DEF all, r
  <2>4. PICK front \in Seq(Turns), turns \in Seq(Turns) : ChunkRead(s, r, limit, front, turns)
    BY <2>2
  <2>5. /\ r.out = s.out \o Taken(s.out, turns, limit)
        /\ Left(s) = front \o turns /\ Left(r) = front
        /\ (r.offset = 0 => r.pending = <<>>)
    BY <2>4 DEF ChunkRead
  <2>6. Unread(all, s.out, front \o turns)
    BY <2>1, <2>5
  <2>7. /\ ReadBack(all, s.out \o Taken(s.out, turns, limit), limit)
        /\ Len(s.out \o Taken(s.out, turns, limit)) < limit =>
             Unread(all, s.out \o Taken(s.out, turns, limit), front)
    BY <2>1, <2>3, <2>6, TakingFacts
  <2>8. ScanInv(r, limit)
    BY <2>2, <2>5, <2>7 DEF ScanInv, all
  <2> QED BY <1>1, <2>8 DEF ScanStep, r
<1>2. CASE ~(s.offset > 0 /\ Len(s.out) < limit)
  BY <1>2 DEF ScanStep
<1> QED BY <1>1, <1>2

\* A scan does not stop before it is done: after i chunks at least as many bytes are read.
ScanDone(s, i, limit) ==
  s.offset = 0 \/ ~(Len(s.out) < limit) \/ s.offset + i * TailChunk <= Len(log)

\* One chunk more.
LEMMA ScanAdvances ==
  ASSUME log \in Seq(Bytes), NEW limit \in Nat, NEW s \in ScanState, NEW i \in Nat \ {0},
         ScanDone(s, i - 1, limit)
  PROVE  ScanDone(ScanStep(s, limit), i, limit)
<1>1. CASE s.offset > 0 /\ Len(s.out) < limit
  <2> DEFINE r == ReadChunk(s, limit)
             o == s.offset
             q == r.offset
             l == Len(log)
             k == (i - 1) * TailChunk
  <2>1. q = IF TailChunk > o THEN 0 ELSE o - TailChunk
    BY <1>1, ReadChunkFacts
  <2>2. o \in Nat /\ l \in Nat /\ TailChunk \in Nat
    BY ScanStepsFacts DEF ScanState
  <2>3. i * TailChunk = k + TailChunk /\ k \in Nat
    BY <2>2
  <2>4. o + k <= l
    BY <1>1, <2>2 DEF ScanDone
  <2> HIDE DEF r, o, q, l, k
  <2>5. q = 0 \/ q + (k + TailChunk) <= l
    BY <2>1, <2>2, <2>3, <2>4
  <2>6. q = 0 \/ q + i * TailChunk <= l
    BY <2>3, <2>5
  <2> QED BY <1>1, <2>6 DEF ScanStep, ScanDone, r, q, l
<1>2. CASE ~(s.offset > 0 /\ Len(s.out) < limit)
  <2>1. s.offset \in Nat
    BY DEF ScanState
  <2>2. s.offset = 0 \/ ~(Len(s.out) < limit)
    BY <1>2, <2>1
  <2> QED BY <1>2, <2>2 DEF ScanStep, ScanDone
<1> QED BY <1>1, <1>2

\* The backward scan returns the last turns of the log.
LEMMA TailScanLast ==
  ASSUME log \in Seq(Bytes), NEW limit \in Nat \ {0}
  PROVE  TailScan(limit) = LastTurns(limit)
<1> DEFINE all == Records(Split(log))
           n == ScanSteps
<1>1. n \in Nat /\ Len(log) < n * TailChunk /\ TailChunk \in Nat \ {0} /\ Len(log) \in Nat
  BY ScanStepsFacts
<1>2. PICK f : IsScan(f, limit) /\ TailScan(limit) = Reverse(f[n].out)
  BY ScanExists
<1>3. f[0] = ScanStart /\ \A i \in 1..n : f[i] = ScanStep(f[i - 1], limit)
  <2>1. 0 \in 0..n /\ \A i \in 1..n : i \in 0..n /\ i # 0
    BY <1>1
  <2>2. \A i \in 0..n : f[i] = IF i = 0 THEN ScanStart ELSE ScanStep(f[i - 1], limit)
    BY <1>2, Zenon DEF IsScan
  <2> QED BY <2>1, <2>2
<1> HIDE DEF n
<1> DEFINE Good == {i \in 0..n : ScanInv(f[i], limit) /\ ScanDone(f[i], i, limit)}
<1>4. 0 \in Good
  <2>1. ScanInv(f[0], limit)
    BY <1>3, ScanStartInv
  <2>2. f[0].offset = Len(log) /\ 0 * TailChunk = 0
    BY <1>1, <1>3 DEF ScanStart
  <2>3. ScanDone(f[0], 0, limit)
    BY <1>1, <2>2 DEF ScanDone
  <2>4. 0 \in 0..n
    BY <1>1
  <2> QED BY <2>1, <2>3, <2>4
<1>5. ASSUME NEW i \in 1..n, i - 1 \in Good PROVE i \in Good
  <2>1. /\ ScanInv(f[i - 1], limit) /\ ScanDone(f[i - 1], i - 1, limit)
        /\ i \in 0..n /\ i \in Nat \ {0}
    BY <1>5, <1>1
  <2>2. f[i - 1] \in ScanState
    BY <2>1 DEF ScanInv
  <2>3. ScanInv(ScanStep(f[i - 1], limit), limit)
    BY <2>1, ScanStepInv
  <2>4. ScanDone(ScanStep(f[i - 1], limit), i, limit)
    BY <2>1, <2>2, ScanAdvances
  <2> QED BY <2>1, <2>3, <2>4, <1>3
<1>6. \A i \in 0..n : i \in Good
  <2> HIDE DEF Good
  <2> QED BY <1>1, <1>4, <1>5, SetInduction
<1> DEFINE s == f[n]
           out == s.out
<1>7. ScanInv(s, limit) /\ ScanDone(s, n, limit)
  <2>1. n \in 0..n
    BY <1>1
  <2> QED BY <1>6, <2>1
<1> HIDE DEF s
<1>8. /\ s \in ScanState /\ (s.offset = 0 => s.pending = <<>>)
      /\ ReadBack(all, out, limit)
      /\ Len(out) < limit => Unread(all, out, Left(s))
  BY <1>7 DEF ScanInv
<1>9. s.offset = 0 \/ ~(Len(out) < limit)
  <2>1. s.offset \in Nat
    BY <1>8 DEF ScanState
  <2>2. s.offset + n * TailChunk <= Len(log) => FALSE
    <3> DEFINE p == n * TailChunk
    <3>1. p \in Nat /\ Len(log) < p
      BY <1>1
    <3> HIDE DEF p
    <3>2. ~(s.offset + p <= Len(log))
      BY <2>1, <3>1, <1>1
    <3> QED BY <3>2 DEF p
  <2> QED BY <2>2, <1>7 DEF ScanDone
<1>10. all \in Seq(Turns)
  BY RecordsType
<1> HIDE DEF all
<1>11. out \in Seq(Turns) /\ Len(out) <= limit /\ Len(out) \in Nat /\ Len(all) \in Nat
  BY <1>8, <1>10 DEF ReadBack
<1> HIDE DEF out
<1>12. Len(out) = limit \/ Len(out) = Len(all)
  <2>1. CASE ~(Len(out) < limit)
    BY <2>1, <1>11
  <2>2. CASE Len(out) < limit
    <3>1. s.offset = 0 /\ s.pending = <<>> /\ Unread(all, out, Left(s))
      BY <2>2, <1>8, <1>9
    <3>2. SubSeq(log, 1, 0) = <<>>
      BY SubSeqEmpty
    <3>3. Left(s) = Records(Split(<<>>))
      <4>1. SubSeq(log, 1, s.offset) \o s.pending = <<>>
        BY <3>1, <3>2
      <4> QED BY <4>1 DEF Left
    <3>4. Left(s) = <<>>
      BY <3>3, NoRecords
    <3>5. Len(Left(s)) = 0 /\ Len(Left(s)) = Len(all) - Len(out)
      BY <3>1, <3>4 DEF Unread
    <3> QED BY <3>5, <1>11
  <2> QED BY <2>1, <2>2
<1>13. Reverse(out) = SubSeq(all, Max({1, (Len(all) - limit) + 1}), Len(all))
  BY <1>8, <1>10, <1>12, ReadBackLast
<1>14. LastTurns(limit) = SubSeq(all, Max({1, (Len(all) - limit) + 1}), Len(all))
  BY DEF LastTurns, all
<1> QED BY <1>2, <1>13, <1>14 DEF out, s

\* Tail, reading the log backwards in chunks of any size, shows the last turns that can be
\* read, also where lines cross chunks or are torn.
THEOREM TailShowsLast == MemorySpec => []HistoryShowsLast
<1>1. MemoryTypeOK => HistoryShowsLast
  <2> SUFFICES ASSUME MemoryTypeOK, NEW limit \in 1..3 PROVE TailScan(limit) = LastTurns(limit)
    BY DEF HistoryShowsLast
  <2>1. log \in Seq(Bytes) /\ limit \in Nat \ {0}
    BY DEF MemoryTypeOK
  <2> QED BY <2>1, TailScanLast
<1> QED BY <1>1, MemoryType, PTL
=============================================================================
