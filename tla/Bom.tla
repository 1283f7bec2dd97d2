---------------------------------- MODULE Bom ----------------------------------
(***************************************************************************)
(* Bills of material and their versions (internal/service/rnd_service.go,  *)
(* internal/repo/rnd_repo.go).                                             *)
(*                                                                         *)
(* A version is drafted, released and made obsolete by the next release of *)
(* its product.  Every request reads first and then runs one transaction   *)
(* that checks nothing again, so each is a Begin and a Commit.  A release  *)
(* is three steps, for its transaction has two statements: Demote finds    *)
(* the defaults to retire, CommitRelease makes its own version the default *)
(* and commits both.                                                       *)
(***************************************************************************)
EXTENDS Integers, FiniteSets

CONSTANTS
  Products,
  Boms,       \* ids of base_bom
  Components, \* the lines a client may send, as one value
  Requests,   \* goroutines
  ReadCommitted \* TRUE on PostgreSQL, where each statement sees what was committed
              \* before it began.  Elsewhere the first write keeps other writers out:
              \* SQLite locks the file, InnoDB all rows of the product the demotion
              \* scans

ASSUME IsolationIsKnown == ReadCommitted \in BOOLEAN
ASSUME FinitelyManyBoms == IsFiniteSet(Boms)

VARIABLES
  bom,     \* rows of base_bom
  lines,   \* rows of base_bom_detail by bom_id; they stay when the BOM is deleted
  request, \* what each goroutine has read
  raced    \* history: BOMs written while another request on them was open

vars == <<bom, lines, request, raced>>

Absent == [status |-> "NONE"]
Gone == [status |-> "DELETED"]
NoLines == [none |-> TRUE]
Idle == [op |-> "idle"]

Row == [status : {"DRAFT", "RELEASED", "OBSOLETE"}, default : BOOLEAN,
        product : Products, version : Nat]
RequestRecord ==
  [op : {"create"}, id : Boms, product : Products, version : Nat]
    \union [op : {"update", "release", "delete"}, id : Boms, row : Row]
    \union [op : {"promote"}, id : Boms, row : Row, demoted : SUBSET Boms]
    \union {Idle}

TypeOK ==
  /\ bom \in [Boms -> Row \union {Absent, Gone}]
  /\ lines \in [Boms -> Components \union {NoLines}]
  /\ request \in [Requests -> RequestRecord]
  /\ raced \subseteq Boms

Init ==
  /\ bom = [b \in Boms |-> Absent]
  /\ lines = [b \in Boms |-> NoLines]
  /\ request = [q \in Requests |-> Idle]
  /\ raced = {}

-----------------------------------------------------------------------------
Exists(b) == bom[b] \notin {Absent, Gone}
VersionsOf(p) == {b \in Boms : Exists(b) /\ bom[b].product = p}

Defaults(p) == {b \in VersionsOf(p) : bom[b].default}

\* A transaction that writes waits for a release that has written, but on PostgreSQL.
\* (There a second release waits for the rows the first one demotes, and then finds them
\* demoted: what both write is the same as without the wait.)
MayWrite(q) ==
  ReadCommitted \/ \A p \in Requests \ {q} : request[p].op # "promote"

Start(q, r) ==
  /\ request[q] = Idle
  /\ request' = [request EXCEPT ![q] = r]
  /\ UNCHANGED <<bom, lines, raced>>

Finish(q) == request' = [request EXCEPT ![q] = Idle]

OpenOn(b, q) == \E p \in Requests \ {q} : request[p] # Idle /\ request[p].id = b
NoteRace(q) ==
  raced' = IF OpenOn(request[q].id, q) THEN raced \union {request[q].id} ELSE raced

Abort(q) ==
  /\ request[q] # Idle
  /\ Finish(q)
  /\ UNCHANGED <<bom, lines, raced>>

\* The version is one more than the rows the product has.
BeginCreate(q, b, p) ==
  /\ bom[b] = Absent
  /\ \A r \in Requests : request[r] # Idle => request[r].id # b
  /\ Start(q, [op |-> "create", id |-> b, product |-> p,
               version |-> Cardinality(VersionsOf(p)) + 1])

CommitCreate(q) ==
  /\ request[q].op = "create" /\ MayWrite(q)
  /\ \E c \in Components :
       LET r == request[q] IN
       /\ bom' = [bom EXCEPT ![r.id] = [status |-> "DRAFT", default |-> FALSE,
                                        product |-> r.product, version |-> r.version]]
       /\ lines' = [lines EXCEPT ![r.id] = c]
  /\ Finish(q)
  /\ UNCHANGED raced

\* Mutant of BeginOnDraft: any status will do.
BeginOnAny(q, op, b) ==
  Exists(b) /\ Start(q, [op |-> op, id |-> b, row |-> bom[b]])

\* Update, Release and Delete read the BOM and refuse one that is not a DRAFT.
BeginOnDraft(q, op, b) ==
  /\ Exists(b) /\ bom[b].status = "DRAFT"
  /\ Start(q, [op |-> op, id |-> b, row |-> bom[b]])

\* UpdateWithDetails: new lines, and the header saved as it was read, inserted again if
\* it has gone.
CommitUpdate(q) ==
  /\ request[q].op = "update" /\ MayWrite(q)
  /\ \E c \in Components : lines' = [lines EXCEPT ![request[q].id] = c]
  /\ bom' = [bom EXCEPT ![request[q].id] = request[q].row]
  /\ NoteRace(q)
  /\ Finish(q)

\* The header only.
CommitDelete(q) ==
  /\ request[q].op = "delete" /\ MayWrite(q)
  /\ bom' = [bom EXCEPT ![request[q].id] = IF Exists(request[q].id) THEN Gone ELSE @]
  /\ NoteRace(q)
  /\ Finish(q)
  /\ UNCHANGED lines

\* The transaction's first UPDATE, seen by nobody yet: the product's defaults, as many as
\* are committed.
Demote(q) ==
  /\ request[q].op = "release" /\ MayWrite(q)
  /\ LET r == request[q] IN
     request' = [request EXCEPT ![q] = [op |-> "promote", id |-> r.id, row |-> r.row,
                                        demoted |-> Defaults(r.row.product)]]
  /\ UNCHANGED <<bom, lines, raced>>

\* Mutant of Obsoleted: the flag is left.
ObsoletedInStatus(s) ==
  [b \in Boms |-> IF b \in s /\ Exists(b) THEN [bom[b] EXCEPT !.status = "OBSOLETE"] ELSE bom[b]]

\* Those of s that are still defaults become OBSOLETE.
Obsoleted(s) ==
  [b \in Boms |-> IF b \in s /\ Exists(b) /\ bom[b].default
                  THEN [bom[b] EXCEPT !.default = FALSE, !.status = "OBSOLETE"]
                  ELSE bom[b]]

\* The second UPDATE, of the row if it is there, whatever its status, and the commit.
CommitRelease(q) ==
  /\ request[q].op = "promote"
  /\ LET b == request[q].id
         retired == Obsoleted(request[q].demoted)
     IN  bom' = IF Exists(b)
                THEN [retired EXCEPT ![b].status = "RELEASED", ![b].default = TRUE]
                ELSE retired
  /\ NoteRace(q)
  /\ Finish(q)
  /\ UNCHANGED lines

Begin(q) ==
  \/ \E b \in Boms, p \in Products : BeginCreate(q, b, p)
  \/ \E b \in Boms, op \in {"update", "release", "delete"} : BeginOnDraft(q, op, b)

Commit(q) ==
  CommitCreate(q) \/ CommitUpdate(q) \/ CommitDelete(q) \/ Demote(q) \/ CommitRelease(q)

Next == \E q \in Requests : Begin(q) \/ Commit(q) \/ Abort(q)

Spec == Init /\ [][Next]_vars

-----------------------------------------------------------------------------
\* A product has at most one default version (model/rnd.go: one RELEASED version is the
\* effective one per product).  Nothing but the locks of the demoting UPDATE sees to it:
\* it holds where they keep other writers out, however releases, edits and deletions
\* interleave, and not under READ COMMITTED.
OneDefault ==
  \A p \in Products : \A b, c \in Defaults(p) : b = c

Rank(b) == CASE bom[b].status \in {"NONE", "DRAFT"} -> 1
             [] bom[b].status = "RELEASED" -> 2
             [] bom[b].status \in {"OBSOLETE", "DELETED"} -> 3

\* A version that no two requests have worked on at once goes forward only: released it
\* keeps its lines, obsolete or deleted it stays so; and a product that has a default
\* keeps one, unless the version to be released was raced on (deleted meanwhile).
GoesForward ==
  /\ \A b \in Boms \ raced :
       /\ Rank(b)' >= Rank(b)
       /\ Exists(b) /\ bom[b].status # "DRAFT" => lines'[b] = lines[b] /\ Exists(b)'
  /\ \A b \in Boms : Exists(b) /\ bom[b].default /\ b \notin raced =>
       \E c \in Boms : c \in raced \/ (Exists(c)' /\ bom'[c].default
                                      /\ bom'[c].product = bom[b].product)

ReleasedIsFinal == [][GoesForward]_vars
=============================================================================
