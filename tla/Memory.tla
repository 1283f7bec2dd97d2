-------------------------------- MODULE Memory --------------------------------
(***************************************************************************)
(* The memory of one user (memory/memory.go): chat requests store turns in *)
(* the log of TurnLog and start consolidations, which have a language      *)
(* model extract what the turns say and write it to the graph tables;      *)
(* Clear wipes files and tables one after another; the server may stop     *)
(* between any two steps, which ends every goroutine.                      *)
(*                                                                         *)
(* The graph is reduced to which turns its rows stem from.                 *)
(***************************************************************************)
EXTENDS TurnLog

CONSTANTS
  Interval,  \* ConsolidateInterval: pending turns that start a consolidation
  Workers,   \* goroutines running consolidate
  MaxStores, \* bound: Store calls at once
  MaxImport, \* bound: turns imported by migrate-memory before the start
  MaxTorn    \* bound: writes to the log cut short

ASSUME MemoryAssumption ==
  /\ Interval \in Nat \ {0} /\ MaxTorn \in Nat /\ MaxStores \in Nat
  /\ MaxImport \in Nat /\ 1..MaxImport \subseteq Turns

VARIABLES
  next,      \* the number of the next turn
  checks,    \* Store calls that have appended and not yet counted the pending turns
  spawned,   \* goroutines started and not yet at the guard
  busy,      \* the user is in Service.consolidating
  work,      \* what each consolidation is at
  clearing,  \* what Clear is at
  edges,     \* how often a turn was added to the weights of its edge; 2 is twice or more
  profile    \* turns the profile was written from

\* What happened so far.  No action reads these.
VARIABLES
  acked,         \* turns whose append succeeded since the log was last removed
  torn,          \* appends that left a part of a line
  consolidated,  \* turns of a batch whose extraction was carried through
  suspect,       \* turns of a batch written to the graph and not marked
  stale,         \* the watermark may be of a log that is gone
  cleared,       \* turns wiped by a Clear that met no error
  spared         \* turns a consolidation had in hand when such a Clear began

graphVars == <<edges, profile>>
historyVars == <<acked, torn, consolidated, suspect, stale, cleared, spared>>
memoryVars == <<fileVars, next, checks, spawned, busy, work, clearing, graphVars, historyVars>>

Resting == [step |-> "idle"]
\* gone (history): the log the batch was read from has been removed since.
Extractions == [step : {"asked", "edges", "profile"},
                turns : SUBSET Turns, mark : Nat, gone : BOOLEAN]
\* spared, failed (history): turns a consolidation has in hand; whether there was an error.
Clears == [step : {"edges", "profile"}, turns : SUBSET Turns,
           spared : SUBSET Turns, failed : BOOLEAN]

MemoryTypeOK ==
  /\ log \in Seq(Bytes) /\ mark \in Nat /\ archives \subseteq Seq(Bytes)
  /\ next \in Nat \ {0} /\ checks \in Nat /\ spawned \in Nat /\ busy \in BOOLEAN
  /\ work \in [Workers -> Extractions \union {Resting}]
  /\ clearing \in Clears \union {Resting}
  /\ edges \in [Turns -> 0..2] /\ profile \subseteq Turns
  /\ torn \in 0..MaxTorn /\ stale \in BOOLEAN
  /\ \A h \in {acked, consolidated, suspect, cleared, spared} : h \subseteq Turns

\* The log is empty, or was imported with the turns up to some p consolidated.
MemoryInit ==
  /\ \E n \in 0..MaxImport : \E p \in 0..n :
       /\ log = FlattenSeq([t \in 1..n |-> Line(t)])
       /\ mark = Len(FlattenSeq([t \in 1..p |-> Line(t)]))
       /\ next = n + 1
       /\ acked = 1..n
       /\ consolidated = 1..p
       /\ edges = [t \in Turns |-> IF t <= p THEN 1 ELSE 0]
       /\ profile = {}
  /\ archives = {}
  /\ checks = 0 /\ spawned = 0 /\ busy = FALSE
  /\ work = [w \in Workers |-> Resting]
  /\ clearing = Resting
  /\ torn = 0 /\ suspect = {} /\ stale = FALSE
  /\ cleared = {} /\ spared = {}

-----------------------------------------------------------------------------
\* Store

\* The watermark of an archived log is still there: it was not reset.
LeavesMark(r) == r.log # log /\ r.mark > 0

StoreTurn ==
  /\ next \in Turns /\ checks < MaxStores
  /\ \E r \in Rotations :
       /\ Write(r, Line(next))
       /\ stale' = (stale \/ LeavesMark(r))
  /\ next' = next + 1
  /\ checks' = checks + 1
  /\ acked' = acked \union {next}
  /\ UNCHANGED <<spawned, busy, work, clearing, graphVars,
                 torn, consolidated, suspect, cleared, spared>>

\* The write fails, or the server is about to stop in the middle of it (then ServerStops follows).
StoreFails ==
  /\ next \in Turns
  /\ \E n \in 0..Size[next] : \E r \in Rotations :
       /\ IF n > 0 THEN torn < MaxTorn ELSE r.log # log
       /\ Write(r, SubSeq(Line(next), 1, n))
       /\ torn' = IF n > 0 THEN torn + 1 ELSE torn
       /\ stale' = (stale \/ LeavesMark(r))
  /\ next' = next + 1
  /\ UNCHANGED <<checks, spawned, busy, work, clearing, graphVars,
                 acked, consolidated, suspect, cleared, spared>>

\* Store goes on after its append; by now others may have used the log.
CheckPending ==
  /\ checks > 0
  /\ checks' = checks - 1
  /\ spawned' = IF Len(Pending) >= Interval THEN spawned + 1 ELSE spawned
  /\ UNCHANGED <<fileVars, next, busy, work, clearing, graphVars, historyVars>>

-----------------------------------------------------------------------------
\* consolidate

LeaveGuard(w) == busy' = FALSE /\ work' = [work EXCEPT ![w] = Resting]
GoTo(w, step) == work' = [work EXCEPT ![w].step = step] /\ UNCHANGED busy

\* Mutant: the counter of goroutines goes down for one that was never started.
SkipWorkNone ==
  /\ busy
  /\ spawned' = spawned - 1
  /\ UNCHANGED <<fileVars, next, checks, busy, work, clearing, graphVars, historyVars>>

\* Another consolidation of the user is running: LoadOrStore finds the key.
SkipWork ==
  /\ spawned > 0 /\ busy
  /\ spawned' = spawned - 1
  /\ UNCHANGED <<fileVars, next, checks, busy, work, clearing, graphVars, historyVars>>

\* Mutant: without the guard.
StartWorkUnguarded(w) ==
  /\ spawned > 0 /\ work[w] = Resting /\ Pending # <<>>
  /\ spawned' = spawned - 1
  /\ busy' = TRUE
  /\ work' = [work EXCEPT ![w] = [step |-> "asked", turns |-> ToSet(Pending),
                                  mark |-> NextMark, gone |-> FALSE]]
  /\ UNCHANGED <<fileVars, next, checks, clearing, graphVars, historyVars>>

StartWork(w) ==
  /\ spawned > 0 /\ work[w] = Resting /\ ~busy
  /\ spawned' = spawned - 1
  /\ IF Pending = <<>> THEN UNCHANGED <<busy, work>>
     ELSE /\ busy' = TRUE
          /\ work' = [work EXCEPT ![w] = [step |-> "asked", turns |-> ToSet(Pending),
                                          mark |-> NextMark, gone |-> FALSE]]
  /\ UNCHANGED <<fileVars, next, checks, clearing, graphVars, historyVars>>

\* No answer within the timeout, or none that can be read.
ModelFails(w) ==
  /\ work[w].step = "asked"
  /\ LeaveGuard(w)
  /\ UNCHANGED <<fileVars, next, checks, spawned, clearing, graphVars, historyVars>>

\* Nodes and edges of what the model names; a row the database refuses is skipped.
WriteEdges(w) ==
  /\ work[w].step = "asked"
  /\ \E named \in SUBSET work[w].turns :
       edges' = [t \in Turns |-> IF t \in named THEN Min({2, edges[t] + 1}) ELSE edges[t]]
  /\ GoTo(w, "edges")
  /\ UNCHANGED <<fileVars, next, checks, spawned, clearing, profile, historyVars>>

\* Upsert of the profile, if the model gave one and the database takes it.
WriteProfile(w) ==
  /\ work[w].step = "edges"
  /\ profile' \in {profile, work[w].turns}
  /\ GoTo(w, "profile")
  /\ UNCHANGED <<fileVars, next, checks, spawned, clearing, edges, historyVars>>

MarkConsolidated(w) ==
  /\ work[w].step = "profile"
  /\ \/ /\ mark' = MarkTo(work[w].mark)
        /\ consolidated' = consolidated \union work[w].turns
        /\ stale' = (stale \/ (work[w].gone /\ mark' # mark))
        /\ UNCHANGED suspect
     \/ /\ suspect' = suspect \union work[w].turns
        /\ UNCHANGED <<mark, consolidated, stale>>
  /\ LeaveGuard(w)
  /\ UNCHANGED <<log, archives, next, checks, spawned, clearing, graphVars,
                 acked, torn, cleared, spared>>

-----------------------------------------------------------------------------
\* Clear: files, then the tables one by one; no error stops it.

InHand == UNION {work[w].turns : w \in {v \in Workers : work[v] # Resting}}

ClearFiles ==
  /\ clearing = Resting
  /\ \E files \in SUBSET AllFiles :
       /\ RemoveAll(files)
       /\ stale' = (files # AllFiles /\ (stale \/ (files # {} /\ mark > 0)))
       /\ clearing' = [step |-> "edges", turns |-> Stored,
                       spared |-> InHand, failed |-> files # AllFiles]
       /\ consolidated' = IF "history" \in files THEN {} ELSE consolidated
       /\ suspect' = IF "history" \in files THEN {} ELSE suspect
       /\ work' = [w \in Workers |-> IF work[w] = Resting \/ "history" \notin files THEN work[w]
                                     ELSE [work[w] EXCEPT !.gone = TRUE]]
  /\ acked' = {}
  /\ UNCHANGED <<next, checks, spawned, busy, graphVars, torn, cleared, spared>>

\* Mutant: the edges are forgotten.
ClearEdgesNot ==
  /\ clearing.step = "edges"
  /\ clearing' = [clearing EXCEPT !.step = "profile"]
  /\ UNCHANGED <<fileVars, next, checks, spawned, busy, work, graphVars, historyVars>>

ClearEdges ==
  /\ clearing.step = "edges"
  /\ \/ /\ edges' = [t \in Turns |-> 0]
        /\ clearing' = [clearing EXCEPT !.step = "profile"]
     \/ /\ clearing' = [clearing EXCEPT !.step = "profile", !.failed = TRUE]
        /\ UNCHANGED edges
  /\ UNCHANGED <<fileVars, next, checks, spawned, busy, work, profile, historyVars>>

ClearProfile ==
  /\ clearing.step = "profile"
  /\ \/ /\ profile' = {}
        /\ IF clearing.failed THEN UNCHANGED <<cleared, spared>>
           ELSE /\ cleared' = cleared \union clearing.turns
                /\ spared' = spared \union clearing.spared
     \/ UNCHANGED <<profile, cleared, spared>>
  /\ clearing' = Resting
  /\ UNCHANGED <<fileVars, next, checks, spawned, busy, work, edges,
                 acked, torn, consolidated, suspect, stale>>

-----------------------------------------------------------------------------
\* The server stops and is started again: goroutines and the guard are gone.
ServerStops ==
  /\ work' = [w \in Workers |-> Resting]
  /\ busy' = FALSE /\ checks' = 0 /\ spawned' = 0
  /\ clearing' = Resting
  /\ suspect' = suspect \union
       UNION {work[w].turns : w \in {v \in Workers : work[v].step \in {"edges", "profile"}}}
  /\ UNCHANGED <<fileVars, next, graphVars,
                 acked, torn, consolidated, stale, cleared, spared>>

MemoryNext ==
  \/ StoreTurn \/ StoreFails \/ CheckPending \/ SkipWork
  \/ \E w \in Workers : StartWork(w) \/ ModelFails(w) \/ WriteEdges(w)
                         \/ WriteProfile(w) \/ MarkConsolidated(w)
  \/ ClearFiles \/ ClearEdges \/ ClearProfile
  \/ ServerStops

MemorySpec == MemoryInit /\ [][MemoryNext]_memoryVars

-----------------------------------------------------------------------------
\* No turn is passed over: what the log or an archive holds is either still returned by
\* Unconsolidated or went through an extraction, whatever rotates, fails or restarts
\* (maybeRotate, Unconsolidated, MarkConsolidated).  Excused while the watermark may be that
\* of a log that was moved or removed.
StoredIsPendingOrDone ==
  ~stale => Stored \subseteq ToSet(Pending) \union consolidated

\* A turn is not added to the edge weights twice, although Store may start several
\* consolidations before the first is through: the guard and the watermark see to it.  Except
\* for a batch that was written and could not be marked, and for a watermark as above.
CountedOnce ==
  ~stale => \A t \in Stored \ suspect : edges[t] <= 1

\* An append that was cut short costs at most one turn that was stored: the next one, which
\* is glued to it.  Rotation, consolidation and further appends cost none.
TornCostsOne == Cardinality(acked \ Stored) <= torn

\* Tail, reading backwards in chunks, returns the last turns of the log also where lines
\* cross chunks, are torn, or cannot be read.  (Every log occurs with all quiet, after a
\* crash; it is enough to look at it then.)
AtRest == checks = 0 /\ spawned = 0 /\ ~busy /\ clearing = Resting

HistoryShowsLast == AtRest => \A limit \in 1..3 : TailScan(limit) = LastTurns(limit)

\* The turns the graph still tells of.
Remembered == profile \union {t \in Turns : edges[t] > 0}

\* What Clear wiped without an error stays out of the graph, unless a consolidation had read
\* it before Clear began.
ClearForgets == Remembered \intersect (cleared \ spared) = {}

\* "Clear removes all memory (JSONL history + long-term graph) for the user" (memory.go:312).
ClearRemovesAll == Remembered \intersect cleared = {}
=============================================================================
