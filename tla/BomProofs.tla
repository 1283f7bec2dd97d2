------------------------------- MODULE BomProofs -------------------------------
(***************************************************************************)
(* Theorems about bills of material, for any number of products, versions, *)
(* materials, suppliers and concurrent requests.                           *)
(*                                                                         *)
(* Bom: types, versions that go forward only as long as no two requests    *)
(* work on one at once, and, where a release keeps other writers out, one  *)
(* default version per product.  A release takes the product from the row  *)
(* it read and demotes the versions it found, so what it read and found    *)
(* must still agree with what is there (ReadInv, FoundInv), even after a   *)
(* deletion and a late update have brought the row back; that it has found *)
(* all the defaults there are when it commits is LockInv, which PostgreSQL *)
(* does not give.                                                          *)
(*                                                                         *)
(* BomOrder: the orders under one stamp are of one confirmation, and one   *)
(* that succeeded has ordered all.                                         *)
(***************************************************************************)
EXTENDS Bom, BomOrder, SumTheorems

OnRow(q) == request[q].op \in {"update", "release", "delete", "promote"}

\* What was read was a draft, of the product the row has and every other request on it
\* read; it has not changed unless it was raced on.
ReadInv ==
  \A q \in Requests : OnRow(q) =>
    LET b == request[q].id
        row == request[q].row
    IN  /\ row.status = "DRAFT" /\ ~row.default
        /\ bom[b] # Absent
        /\ Exists(b) => bom[b].product = row.product
        /\ \A p \in Requests : OnRow(p) /\ request[p].id = b =>
             request[p].row.product = row.product
        /\ b \notin raced => bom[b] = row

\* A row that is being created is not there yet, and nobody else is at it.
CreateInv ==
  \A q \in Requests : request[q].op = "create" =>
    /\ bom[request[q].id] = Absent
    /\ \A p \in Requests \ {q} : request[p] # Idle => request[p].id # request[q].id

\* What a release is about to demote are versions of its product, and so are the rows read
\* by the requests that could bring one back.
FoundInv ==
  \A q \in Requests : request[q].op = "promote" => \A b \in request[q].demoted :
    /\ bom[b] # Absent
    /\ Exists(b) => bom[b].product = request[q].row.product
    /\ \A p \in Requests : OnRow(p) /\ request[p].id = b =>
         request[p].row.product = request[q].row.product

\* The default versions are the RELEASED ones.
DefaultIsReleased ==
  \A b \in Boms : Exists(b) => (bom[b].default <=> bom[b].status = "RELEASED")

BomInv == TypeOK /\ ReadInv /\ CreateInv /\ FoundInv /\ DefaultIsReleased

\* Of the releases that have written, there is one, and it has found every default.
LockInv ==
  \A q \in Requests : request[q].op = "promote" =>
    /\ request[q].demoted = Defaults(request[q].row.product)
    /\ \A p \in Requests \ {q} : request[p].op # "promote"

\* A stored version is neither absent nor deleted.
LEMMA RowsExist == \A r \in Row : r # Absent /\ r # Gone
BY DEF Row, Absent, Gone

\* What exists is a row.
LEMMA ExistingIsRow == TypeOK => \A b \in Boms : Exists(b) <=> bom[b] \in Row
BY RowsExist DEF TypeOK, Exists

\* What a request in flight holds.
LEMMA RequestShapes ==
  ASSUME NEW r \in RequestRecord
  PROVE  /\ r.op \in {"idle", "create", "update", "release", "delete", "promote"}
         /\ r.op = "idle" <=> r = Idle
         /\ r # Idle => r.id \in Boms
         /\ r.op \in {"update", "release", "delete", "promote"} => r.row \in Row
         /\ r.op = "promote" => r.demoted \in SUBSET Boms
         /\ r.op = "create" => r.product \in Products /\ r.version \in Nat
BY DEF RequestRecord, Idle

\* A step that writes neither the versions nor the lines.
LEMMA StillForward ==
  ASSUME BomInv, bom' = bom, lines' = lines
  PROVE  GoesForward
<1>1. \A b \in Boms : Rank(b) \in {1, 2, 3} /\ Rank(b)' = Rank(b)
  BY DEF Rank, BomInv, TypeOK, Row, Absent, Gone
<1> QED
  BY <1>1 DEF GoesForward, Exists

\* The invariant holds before the first version.
LEMMA InitBom == Init => BomInv
<1> SUFFICES ASSUME Init PROVE BomInv
  OBVIOUS
<1>1. TypeOK
  BY DEF Init, TypeOK, RequestRecord
<1>2. \A q \in Requests : request[q].op = "idle"
  BY DEF Init, Idle
<1>3. ReadInv /\ CreateInv /\ FoundInv
  BY <1>2 DEF ReadInv, CreateInv, FoundInv, OnRow
<1>4. DefaultIsReleased
  BY DEF Init, DefaultIsReleased, Exists
<1> QED
  BY <1>1, <1>3, <1>4 DEF BomInv

\* A product has finitely many versions.
LEMMA VersionsCounted ==
  ASSUME NEW p PROVE Cardinality(VersionsOf(p)) \in Nat
<1>1. VersionsOf(p) \subseteq Boms
  BY DEF VersionsOf
<1> QED
  BY <1>1, FinitelyManyBoms, FS_Subset, FS_CardinalityType

\* Opening a request: what it has read is what is there.
LEMMA StartCreate ==
  ASSUME BomInv, NEW q \in Requests, NEW b \in Boms, NEW p \in Products, BeginCreate(q, b, p)
  PROVE  BomInv'
<1> DEFINE r == [op |-> "create", id |-> b, product |-> p,
                 version |-> Cardinality(VersionsOf(p)) + 1]
<1> USE DEF BomInv
<1>1. r \in RequestRecord
  BY VersionsCounted DEF RequestRecord
<1>2. /\ bom[b] = Absent /\ request[q] = Idle
      /\ \A s \in Requests : request[s] # Idle => request[s].id # b
      /\ request' = [request EXCEPT ![q] = r]
      /\ UNCHANGED <<bom, lines, raced>>
  BY DEF BeginCreate, Start
<1> HIDE DEF r
<1>3. TypeOK'
  BY <1>1, <1>2 DEF TypeOK
<1>4. /\ request'[q] = r /\ \A s \in Requests \ {q} : request'[s] = request[s]
      /\ r.op = "create" /\ r.id = b
  BY <1>2 DEF TypeOK, r
<1>5. ReadInv'
  BY <1>2, <1>4 DEF ReadInv, OnRow, Exists
<1>6. \A s \in Requests : request[s].op = "create" => request[s] # Idle
  BY DEF Idle
<1>7. CreateInv'
  BY <1>2, <1>4, <1>6 DEF CreateInv
<1>8. FoundInv'
  BY <1>2, <1>4 DEF FoundInv, OnRow, Exists
<1>9. DefaultIsReleased'
  BY <1>2 DEF DefaultIsReleased, Exists
<1> QED
  BY <1>3, <1>5, <1>7, <1>8, <1>9

\* Update, Release and Delete begin on a version they have found to be a DRAFT.
LEMMA StartOnDraft ==
  ASSUME BomInv, NEW q \in Requests, NEW b \in Boms,
         NEW op \in {"update", "release", "delete"}, BeginOnDraft(q, op, b)
  PROVE  BomInv'
<1> DEFINE r == [op |-> op, id |-> b, row |-> bom[b]]
<1> USE DEF BomInv
<1>1. bom[b] \in Row /\ Exists(b) /\ bom[b].status = "DRAFT"
  BY ExistingIsRow DEF BeginOnDraft
<1>2. ~bom[b].default
  BY <1>1 DEF DefaultIsReleased
<1>3. r \in RequestRecord
  BY <1>1 DEF RequestRecord
<1>4. /\ request[q] = Idle
      /\ request' = [request EXCEPT ![q] = r]
      /\ UNCHANGED <<bom, lines, raced>>
  BY DEF BeginOnDraft, Start
<1>5. r.op \in {"update", "release", "delete"} /\ r.id = b /\ r.row = bom[b]
  OBVIOUS
<1> HIDE DEF r
<1>6. TypeOK'
  BY <1>3, <1>4 DEF TypeOK
<1>7. request'[q] = r /\ \A s \in Requests \ {q} : request'[s] = request[s]
  BY <1>4 DEF TypeOK
<1>8. bom[b] # Absent
  BY <1>1, RowsExist
<1>9. ReadInv'
  BY <1>1, <1>2, <1>4, <1>5, <1>7, <1>8 DEF ReadInv, OnRow, Exists
<1>10. CreateInv'
  BY <1>4, <1>5, <1>7, <1>8 DEF CreateInv
<1>11. FoundInv'
  BY <1>1, <1>4, <1>5, <1>7 DEF FoundInv, OnRow, Exists
<1>12. DefaultIsReleased'
  BY <1>4 DEF DefaultIsReleased, Exists
<1> QED
  BY <1>6, <1>9, <1>10, <1>11, <1>12

\* The first UPDATE of a release: what it finds are versions of its product.
LEMMA DemoteStep ==
  ASSUME BomInv, NEW q \in Requests, Demote(q)
  PROVE  BomInv'
<1> DEFINE p == request[q].row.product
           r == [op |-> "promote", id |-> request[q].id, row |-> request[q].row,
                 demoted |-> Defaults(p)]
<1> USE DEF BomInv
<1>1. /\ request[q].op = "release"
      /\ request' = [request EXCEPT ![q] = r]
      /\ UNCHANGED <<bom, lines, raced>>
  BY DEF Demote
<1>2. OnRow(q) /\ request[q] # Idle
  BY <1>1 DEF OnRow, Idle
<1>3. request[q].id \in Boms /\ request[q].row \in Row
  BY <1>1, <1>2, RequestShapes DEF TypeOK
<1>4. Defaults(p) \in SUBSET Boms
  BY DEF Defaults, VersionsOf
<1>5. r \in RequestRecord
  BY <1>3, <1>4 DEF RequestRecord
<1>6. /\ r.op = "promote" /\ r.id = request[q].id /\ r.row = request[q].row
      /\ r.demoted = Defaults(p)
  OBVIOUS
<1>7. \A b \in Defaults(p) : b \in Boms /\ Exists(b) /\ bom[b].product = p
  BY DEF Defaults, VersionsOf
<1> HIDE DEF r, p
<1>8. TypeOK'
  BY <1>1, <1>5 DEF TypeOK
<1>9. request'[q] = r /\ \A s \in Requests \ {q} : request'[s] = request[s]
  BY <1>1 DEF TypeOK
<1>10. \A s \in Requests :
         /\ OnRow(s)' <=> OnRow(s)
         /\ OnRow(s) => request'[s].id = request[s].id /\ request'[s].row = request[s].row
  BY <1>2, <1>6, <1>9 DEF OnRow
<1>11. ReadInv'
  BY <1>1, <1>10 DEF ReadInv, Exists
<1>12. \A s \in Requests :
         /\ request'[s].op = "create" => request'[s] = request[s]
         /\ request'[s] # Idle => request[s] # Idle /\ request'[s].id = request[s].id
  BY <1>2, <1>6, <1>9
<1>13. CreateInv'
  BY <1>1, <1>12 DEF CreateInv
<1>14. FoundInv'
  <2> SUFFICES ASSUME NEW s \in Requests, request'[s].op = "promote",
                      NEW b \in request'[s].demoted
               PROVE  /\ bom'[b] # Absent
                      /\ Exists(b)' => bom'[b].product = request'[s].row.product
                      /\ \A t \in Requests : OnRow(t)' /\ request'[t].id = b =>
                           request'[t].row.product = request'[s].row.product
    BY DEF FoundInv
  <2>1. CASE s = q
    <3>1. b \in Boms /\ Exists(b) /\ bom[b].product = p /\ request'[s].row.product = p
      BY <1>6, <1>7, <1>9, <2>1 DEF p
    <3>2. \A t \in Requests : OnRow(t) /\ request[t].id = b => request[t].row.product = p
      BY <3>1 DEF ReadInv
    <3> QED
      BY <1>1, <1>10, <3>1, <3>2 DEF Exists
  <2>2. CASE s # q
    BY <1>1, <1>9, <1>10, <2>2 DEF FoundInv, Exists
  <2> QED
    BY <2>1, <2>2
<1>15. DefaultIsReleased'
  BY <1>1 DEF DefaultIsReleased, Exists
<1> QED
  BY <1>8, <1>11, <1>13, <1>14, <1>15

-----------------------------------------------------------------------------
(* A request commits: it is over, and what else is open on the row it wrote is noted. *)

\* A request that ends leaves the others alone.
LEMMA FinishStep ==
  ASSUME TypeOK, NEW q \in Requests, Finish(q)
  PROVE  /\ request'[q] = Idle
         /\ \A p \in Requests \ {q} : request'[p] = request[p]
         /\ request' \in [Requests -> RequestRecord]
         /\ \A p \in Requests : OnRow(p)' => OnRow(p) /\ p # q
         /\ \A p \in Requests : request'[p].op \in {"create", "promote"} => p # q
BY DEF TypeOK, Finish, RequestRecord, OnRow, Idle

\* The write of one row w, by a request that is over with it: all of BomInv but
\* DefaultIsReleased follows from the row keeping its product or going away.
LEMMA WriteStep ==
  ASSUME TypeOK, ReadInv, CreateInv, FoundInv, NEW q \in Requests, OnRow(q), Finish(q), NoteRace(q),
         NEW w \in Boms, w = request[q].id,
         bom' \in [Boms -> Row \union {Absent, Gone}],
         lines' \in [Boms -> Components \union {NoLines}],
         \A b \in Boms : bom'[b] = Absent <=> bom[b] = Absent,
         Exists(w)' => bom'[w].product = request[q].row.product,
         \A b \in Boms \ {w} :
           /\ Exists(b)' => Exists(b) /\ bom'[b].product = bom[b].product
           /\ ~(Exists(b) /\ bom[b].default) => bom'[b] = bom[b]
  PROVE  TypeOK' /\ ReadInv' /\ CreateInv' /\ FoundInv'
<1>1. request[q] # Idle /\ request[q] \in RequestRecord
  BY RequestShapes DEF TypeOK, OnRow
<1>2. /\ raced \subseteq raced' /\ raced' \subseteq Boms
      /\ OpenOn(w, q) => w \in raced'
  BY <1>1 DEF NoteRace, TypeOK
<1>3. TypeOK'
  BY <1>2, FinishStep DEF TypeOK
<1>4. ASSUME NEW p \in Requests, OnRow(p)', NEW b, NEW row,
             b = request'[p].id, row = request'[p].row
      PROVE  /\ row.status = "DRAFT" /\ ~row.default
             /\ bom'[b] # Absent
             /\ Exists(b)' => bom'[b].product = row.product
             /\ \A s \in Requests : OnRow(s)' /\ request'[s].id = b =>
                  request'[s].row.product = row.product
             /\ b \notin raced' => bom'[b] = row
  <2>1. /\ p # q /\ OnRow(p) /\ request'[p] = request[p]
        /\ \A s \in Requests : OnRow(s)' => OnRow(s) /\ request'[s] = request[s]
    BY <1>4, FinishStep
  <2>2. request[p] \in RequestRecord /\ request[p] # Idle /\ b \in Boms
    BY <1>4, <2>1, RequestShapes DEF TypeOK, OnRow
  <2>3. /\ row.status = "DRAFT" /\ ~row.default
        /\ bom[b] # Absent
        /\ Exists(b) => bom[b].product = row.product
        /\ \A s \in Requests : OnRow(s) /\ request[s].id = b =>
             request[s].row.product = row.product
        /\ b \notin raced => bom[b] = row
    BY <1>4, <2>1 DEF ReadInv
  <2>4. Exists(b)' => bom'[b].product = row.product
    <3>1. CASE b = w
      BY <2>3, <3>1
    <3>2. CASE b # w
      BY <2>2, <2>3, <3>2
    <3> QED BY <3>1, <3>2
  <2>5. b \notin raced' => bom'[b] = row
    <3>1. CASE b = w
      BY <1>2, <1>4, <2>1, <2>2, <3>1 DEF OpenOn
    <3>2. CASE b # w
      BY <1>2, <2>2, <2>3, <3>2
    <3> QED BY <3>1, <3>2
  <2> QED
    BY <2>1, <2>2, <2>3, <2>4, <2>5
<1>5. ReadInv'
  BY <1>4 DEF ReadInv
<1>6. CreateInv'
  <2> SUFFICES ASSUME NEW p \in Requests, request'[p].op = "create"
               PROVE  /\ bom'[request'[p].id] = Absent
                      /\ \A s \in Requests \ {p} :
                           request'[s] # Idle => request'[s].id # request'[p].id
    BY DEF CreateInv
  <2>1. /\ request'[p] = request[p]
        /\ \A s \in Requests : request'[s] # Idle => request'[s] = request[s]
    BY FinishStep
  <2>2. request[p].id \in Boms
    BY <2>1, RequestShapes DEF TypeOK, Idle
  <2> QED
    BY <2>1, <2>2 DEF CreateInv
<1>7. FoundInv'
  <2> SUFFICES ASSUME NEW p \in Requests, request'[p].op = "promote",
                      NEW b \in request'[p].demoted
               PROVE  /\ bom'[b] # Absent
                      /\ Exists(b)' => bom'[b].product = request'[p].row.product
                      /\ \A t \in Requests : OnRow(t)' /\ request'[t].id = b =>
                           request'[t].row.product = request'[p].row.product
    BY DEF FoundInv
  <2>1. /\ request'[p] = request[p]
        /\ \A t \in Requests : OnRow(t)' => OnRow(t) /\ request'[t] = request[t]
    BY FinishStep DEF OnRow
  <2>2. b \in Boms
    BY <2>1, RequestShapes DEF TypeOK
  <2>3. /\ bom[b] # Absent
        /\ Exists(b) => bom[b].product = request[p].row.product
        /\ \A t \in Requests : OnRow(t) /\ request[t].id = b =>
             request[t].row.product = request[p].row.product
    BY <2>1 DEF FoundInv
  <2>4. Exists(b)' => bom'[b].product = request[p].row.product
    <3>1. CASE b = w
      BY <2>3, <3>1
    <3>2. CASE b # w
      BY <2>2, <2>3, <3>2
    <3> QED BY <3>1, <3>2
  <2> QED
    BY <2>1, <2>2, <2>3, <2>4
<1> QED
  BY <1>3, <1>5, <1>6, <1>7

\* A new draft: the row was not there, and only this request was at it.
LEMMA CreateStep ==
  ASSUME BomInv, NEW q \in Requests, CommitCreate(q), NEW r, r = request[q], NEW b, b = r.id
  PROVE  BomInv' /\ GoesForward
<1> USE DEF BomInv
<1> DEFINE new == [status |-> "DRAFT", default |-> FALSE,
                   product |-> r.product, version |-> r.version]
<1>1. /\ r.op = "create" /\ b \in Boms /\ r.product \in Products /\ r.version \in Nat
      /\ bom[b] = Absent /\ \A p \in Requests \ {q} : request[p] # Idle => request[p].id # b
  BY RequestShapes DEF CommitCreate, TypeOK, CreateInv, Idle
<1>2. PICK c \in Components : /\ bom' = [bom EXCEPT ![b] = new]
                              /\ lines' = [lines EXCEPT ![b] = c]
  BY DEF CommitCreate
<1>3. Finish(q) /\ UNCHANGED raced
  BY DEF CommitCreate
<1>4. new \in Row
  BY <1>1 DEF Row
<1>5. /\ bom'[b] = new /\ \A d \in Boms \ {b} : bom'[d] = bom[d] /\ lines'[d] = lines[d]
      /\ bom' \in [Boms -> Row \union {Absent, Gone}]
      /\ lines' \in [Boms -> Components \union {NoLines}]
  BY <1>1, <1>2, <1>4 DEF TypeOK
<1>6. ~new.default /\ new.status = "DRAFT" /\ ~Exists(b)
  BY <1>1 DEF Exists
<1> HIDE DEF new
<1>7. TypeOK'
  BY <1>3, <1>5, FinishStep DEF TypeOK
<1>8. ReadInv'
  <2> SUFFICES ASSUME NEW p \in Requests, OnRow(p)', NEW d, NEW row,
                      d = request'[p].id, row = request'[p].row
               PROVE  /\ row.status = "DRAFT" /\ ~row.default
                      /\ bom'[d] # Absent
                      /\ Exists(d)' => bom'[d].product = row.product
                      /\ \A s \in Requests : OnRow(s)' /\ request'[s].id = d =>
                           request'[s].row.product = row.product
                      /\ d \notin raced' => bom'[d] = row
    BY DEF ReadInv
  <2>1. /\ p # q /\ OnRow(p) /\ request'[p] = request[p]
        /\ \A s \in Requests : OnRow(s)' => OnRow(s) /\ request'[s] = request[s]
    BY <1>3, FinishStep
  <2>2. request[p] # Idle /\ d \in Boms
    BY <2>1, RequestShapes DEF TypeOK, OnRow
  <2>3. d # b
    BY <1>1, <2>1, <2>2
  <2> QED
    BY <1>3, <1>5, <2>1, <2>2, <2>3 DEF ReadInv, Exists
<1>9. CreateInv'
  <2> SUFFICES ASSUME NEW p \in Requests, request'[p].op = "create"
               PROVE  /\ bom'[request'[p].id] = Absent
                      /\ \A s \in Requests \ {p} :
                           request'[s] # Idle => request'[s].id # request'[p].id
    BY DEF CreateInv
  <2>1. /\ p # q /\ request'[p] = request[p] /\ request[p].op = "create"
        /\ \A s \in Requests : request'[s] # Idle => request'[s] = request[s]
    BY <1>3, FinishStep
  <2>2. request[p] # Idle /\ request[p].id \in Boms
    BY <2>1, RequestShapes DEF TypeOK, Idle
  <2> QED
    BY <1>1, <1>5, <2>1, <2>2 DEF CreateInv
<1>10. DefaultIsReleased'
  BY <1>5, <1>6 DEF DefaultIsReleased, Exists
<1>11. FoundInv'
  <2> SUFFICES ASSUME NEW p \in Requests, request'[p].op = "promote",
                      NEW d \in request'[p].demoted
               PROVE  /\ bom'[d] # Absent
                      /\ Exists(d)' => bom'[d].product = request'[p].row.product
                      /\ \A t \in Requests : OnRow(t)' /\ request'[t].id = d =>
                           request'[t].row.product = request'[p].row.product
    BY DEF FoundInv
  <2>1. /\ request'[p] = request[p]
        /\ \A t \in Requests : OnRow(t)' => OnRow(t) /\ request'[t] = request[t]
    BY <1>3, FinishStep DEF OnRow
  <2>2. d \in Boms
    BY <2>1, RequestShapes DEF TypeOK
  <2>3. d # b
    BY <1>1, <2>1 DEF FoundInv
  <2> QED
    BY <1>5, <2>1, <2>2, <2>3 DEF FoundInv, Exists
<1>12. GoesForward
  <2>1. \A d \in Boms : Exists(d) => d # b /\ Exists(d)' /\ bom'[d] = bom[d]
    BY <1>5, <1>6 DEF Exists
  <2>2. Rank(b) = 1 /\ Rank(b)' = 1
    BY <1>1, <1>5, <1>6 DEF Rank, Absent
  <2>3. \A d \in Boms \ {b} : Rank(d) \in {1, 2, 3} /\ Rank(d)' = Rank(d)
    BY <1>5 DEF Rank, TypeOK, Row, Absent, Gone
  <2> QED
    BY <1>5, <2>1, <2>2, <2>3 DEF GoesForward
<1> QED
  BY <1>7, <1>8, <1>9, <1>10, <1>11, <1>12

\* A request that leaves the row as it read it, or deletes it.
LEMMA PlainWriteStep ==
  ASSUME BomInv, NEW q \in Requests, OnRow(q), Finish(q), NoteRace(q),
         NEW w \in Boms, w = request[q].id, NEW r \in {request[q].row, Gone},
         bom' = [bom EXCEPT ![w] = r],
         lines' \in [Boms -> Components \union {NoLines}],
         \A b \in Boms \ {w} : lines'[b] = lines[b]
  PROVE  BomInv' /\ GoesForward
<1> USE DEF BomInv
<1>1. request[q].row \in Row
  BY RequestShapes DEF TypeOK, OnRow
<1>2. /\ request[q].row.status = "DRAFT" /\ ~request[q].row.default
      /\ bom[w] # Absent /\ (w \notin raced => bom[w] = request[q].row)
  BY DEF ReadInv
<1>3. /\ bom' \in [Boms -> Row \union {Absent, Gone}]
      /\ bom'[w] = r /\ \A b \in Boms \ {w} : bom'[b] = bom[b]
  BY <1>1 DEF TypeOK
<1>4. r # Absent /\ (Exists(w)' => r = request[q].row)
  BY <1>1, <1>3, RowsExist DEF Exists, Gone, Absent
<1>5. \A b \in Boms \ {w} : Exists(b)' <=> Exists(b)
  BY <1>3 DEF Exists
<1>6. TypeOK' /\ ReadInv' /\ CreateInv' /\ FoundInv'
  BY <1>2, <1>3, <1>4, <1>5, WriteStep
<1>7. DefaultIsReleased'
  BY <1>2, <1>3, <1>4, <1>5 DEF DefaultIsReleased
<1>8. GoesForward
  <2>1. w \notin raced => ~Exists(w) \/ (bom[w].status = "DRAFT" /\ ~bom[w].default)
    BY <1>2
  <2>2. \A b \in Boms \ {w} : Rank(b) \in {1, 2, 3} /\ Rank(b)' = Rank(b)
    BY <1>3 DEF Rank, TypeOK, Row, Absent, Gone
  <2>3. w \notin raced => Rank(w) = 1 /\ Rank(w)' \in {1, 3}
    BY <1>2, <1>3 DEF Rank, Gone
  <2> QED
    BY <1>3, <1>5, <2>1, <2>2, <2>3 DEF GoesForward
<1> QED
  BY <1>6, <1>7, <1>8

\* A release demotes the defaults it has found, which no request that raced with nobody
\* has read, and makes its own version the default if it is still there.
LEMMA ReleaseStep ==
  ASSUME BomInv, NEW q \in Requests, CommitRelease(q),
         NEW w, w = request[q].id, NEW p, p = request[q].row.product,
         NEW found, found = request[q].demoted
  PROVE  BomInv' /\ GoesForward
<1> USE DEF BomInv
<1>1. /\ OnRow(q) /\ Finish(q) /\ NoteRace(q) /\ lines' = lines
      /\ w \in Boms /\ p \in Products /\ bom[w] # Absent
      /\ Exists(w) => bom[w].product = p
      /\ w \notin raced => Exists(w) /\ bom[w].status = "DRAFT"
  <2>1. OnRow(q) /\ request[q].op # "idle"
    BY DEF CommitRelease, OnRow
  <2>2. w \in Boms /\ request[q].row \in Row
    BY <2>1, RequestShapes DEF TypeOK, OnRow
  <2> QED
    BY <2>1, <2>2, RowsExist DEF CommitRelease, ReadInv, Exists, Row
<1>2. /\ ~Exists(w) => bom' = Obsoleted(found)
      /\ Exists(w) => bom' = [Obsoleted(found) EXCEPT ![w].status = "RELEASED",
                                                      ![w].default = TRUE]
  BY DEF CommitRelease
<1> DEFINE demoted == Obsoleted(found)
           Falls(b) == b \in found /\ Exists(b) /\ bom[b].default
<1>20. \A b \in Boms : Falls(b) => bom[b].product = p
  BY DEF CommitRelease, FoundInv
<1>3. \A b \in Boms :
        /\ ~Falls(b) => demoted[b] = bom[b]
        /\ Falls(b) => /\ demoted[b] \in Row
                       /\ demoted[b].product = p
                       /\ demoted[b].status = "OBSOLETE" /\ ~demoted[b].default
  BY <1>20, ExistingIsRow DEF Obsoleted, Row
<1>4. demoted \in [Boms -> Row \union {Absent, Gone}]
  BY <1>3 DEF TypeOK, Obsoleted
<1>5. \A b \in Boms : /\ Exists(b) => demoted[b] \in Row /\ demoted[b].product = bom[b].product
                      /\ ~Exists(b) => demoted[b] = bom[b]
  BY <1>3, <1>20, ExistingIsRow
<1> HIDE DEF demoted
<1>6. /\ \A b \in Boms \ {w} : bom'[b] = demoted[b]
      /\ ~Exists(w) => bom'[w] = bom[w]
      /\ Exists(w) => /\ bom'[w] \in Row /\ bom'[w].product = p
                      /\ bom'[w].status = "RELEASED" /\ bom'[w].default
      /\ bom' \in [Boms -> Row \union {Absent, Gone}]
  <2>1. CASE ~Exists(w)
    BY <1>1, <1>2, <1>4, <1>5, <2>1 DEF demoted
  <2>2. CASE Exists(w)
    <3>1. /\ demoted[w] \in Row /\ demoted[w].product = p
          /\ bom' = [demoted EXCEPT ![w].status = "RELEASED", ![w].default = TRUE]
      BY <1>1, <1>2, <1>5, <2>2 DEF demoted
    <3>2. /\ bom'[w] \in Row /\ bom'[w].product = p
          /\ bom'[w].status = "RELEASED" /\ bom'[w].default
          /\ \A b \in Boms \ {w} : bom'[b] = demoted[b]
          /\ bom' \in [Boms -> Row \union {Absent, Gone}]
      BY <1>1, <1>4, <3>1 DEF Row
    <3> QED
      BY <2>2, <3>2
  <2> QED
    BY <2>1, <2>2
<1>7. \A b \in Boms : /\ Exists(b)' <=> Exists(b)
                      /\ Exists(b) => bom'[b].product = bom[b].product
                      /\ bom'[b] = Absent <=> bom[b] = Absent
  BY <1>1, <1>5, <1>6, RowsExist DEF Exists
<1>8. TypeOK' /\ ReadInv' /\ CreateInv' /\ FoundInv'
  <2>1. \A b \in Boms \ {w} : ~(Exists(b) /\ bom[b].default) => bom'[b] = bom[b]
    BY <1>3, <1>6
  <2>2. lines' \in [Boms -> Components \union {NoLines}]
    BY <1>1 DEF TypeOK
  <2> QED
    BY <1>1, <1>6, <1>7, <2>1, <2>2, WriteStep
<1>9. DefaultIsReleased'
  <2>1. \A b \in Boms \ {w} :
          Exists(b) => (bom'[b].default <=> bom'[b].status = "RELEASED")
    BY <1>3, <1>6 DEF DefaultIsReleased
  <2> QED
    BY <1>6, <1>7, <2>1 DEF DefaultIsReleased
<1>10. GoesForward
  <2>1. \A b \in Boms \ {w} : Rank(b)' >= Rank(b)
    <3>1. ASSUME NEW b \in Boms \ {w}, bom'[b] # bom[b]
          PROVE  Rank(b) = 2 /\ Rank(b)' = 3
      BY <1>3, <1>6, <3>1 DEF Rank, DefaultIsReleased
    <3>2. \A b \in Boms : Rank(b) \in {1, 2, 3}
      BY DEF Rank, TypeOK, Row, Absent, Gone
    <3>3. ASSUME NEW b \in Boms \ {w}, bom'[b] = bom[b] PROVE Rank(b)' = Rank(b)
      BY <3>3 DEF Rank
    <3> QED
      BY <3>1, <3>2, <3>3
  <2>2. w \notin raced => Rank(w) = 1 /\ Rank(w)' = 2
    BY <1>1, <1>6 DEF Rank
  <2>3. ASSUME NEW b \in Boms, Exists(b), bom[b].default, b \notin raced
        PROVE  \E c \in Boms : c \in raced \/ (Exists(c)' /\ bom'[c].default
                                              /\ bom'[c].product = bom[b].product)
    <3>1. CASE bom[b].product # p
      <4>1. b # w \/ w \in raced
        BY <1>1, <3>1
      <4>2. ~Falls(b)
        BY <1>20, <3>1
      <4> QED
        BY <1>1, <1>3, <1>6, <1>7, <2>3, <3>1, <4>1, <4>2
    <3>2. CASE bom[b].product = p
      BY <1>1, <1>6, <1>7, <3>2
    <3> QED
      BY <3>1, <3>2
  <2> QED
    BY <1>1, <1>7, <2>1, <2>2, <2>3 DEF GoesForward
<1> QED
  BY <1>8, <1>9, <1>10

-----------------------------------------------------------------------------
\* Every step keeps the invariant, and every step on versions goes forward.
LEMMA BomStep == BomInv /\ [Next]_vars => BomInv' /\ (GoesForward \/ UNCHANGED vars)
<1> SUFFICES ASSUME BomInv, [Next]_vars PROVE BomInv' /\ (GoesForward \/ UNCHANGED vars)
  OBVIOUS
<1> USE DEF BomInv
<1>1. CASE UNCHANGED vars
  BY <1>1 DEF vars, TypeOK, ReadInv, CreateInv, FoundInv, DefaultIsReleased, OnRow, Exists
<1>2. ASSUME NEW q \in Requests, Begin(q) PROVE BomInv' /\ GoesForward
  <2>1. BomInv'
    BY <1>2, StartCreate, StartOnDraft DEF Begin
  <2>2. bom' = bom /\ lines' = lines
    BY <1>2 DEF Begin, BeginCreate, BeginOnDraft, Start
  <2> QED
    BY <2>1, <2>2, StillForward
<1>3. ASSUME NEW q \in Requests, Abort(q) PROVE BomInv' /\ GoesForward
  <2>1. Finish(q) /\ UNCHANGED <<bom, lines, raced>>
    BY <1>3 DEF Abort
  <2>2. BomInv'
    <3>1. TypeOK'
      BY <2>1, FinishStep DEF TypeOK
    <3>2. \A p \in Requests : request'[p] # Idle => request'[p] = request[p]
      BY <2>1, FinishStep
    <3>3. Idle.op = "idle"
      BY DEF Idle
    <3>4. ReadInv' /\ CreateInv' /\ FoundInv'
      BY <2>1, <3>2, <3>3 DEF ReadInv, CreateInv, FoundInv, OnRow, Exists
    <3>5. DefaultIsReleased'
      BY <2>1 DEF DefaultIsReleased, Exists
    <3> QED
      BY <3>1, <3>4, <3>5
  <2> QED
    BY <2>1, <2>2, StillForward
<1>4. ASSUME NEW q \in Requests, Commit(q) PROVE BomInv' /\ GoesForward
  <2>1. CASE CommitCreate(q)
    BY <2>1, CreateStep
  <2>2. CASE CommitUpdate(q)
    <3>1. OnRow(q) /\ request[q].id \in Boms
      BY <2>2, RequestShapes DEF CommitUpdate, OnRow, TypeOK
    <3>2. PICK c \in Components : lines' = [lines EXCEPT ![request[q].id] = c]
      BY <2>2 DEF CommitUpdate
    <3>3. /\ lines' \in [Boms -> Components \union {NoLines}]
          /\ \A b \in Boms \ {request[q].id} : lines'[b] = lines[b]
      BY <3>1, <3>2 DEF TypeOK
    <3>4. /\ Finish(q) /\ NoteRace(q)
          /\ bom' = [bom EXCEPT ![request[q].id] = request[q].row]
      BY <2>2 DEF CommitUpdate
    <3> QED
      BY <3>1, <3>3, <3>4, PlainWriteStep
  <2>3. CASE CommitDelete(q)
    <3>1. OnRow(q) /\ request[q].id \in Boms
      BY <2>3, RequestShapes DEF CommitDelete, OnRow, TypeOK
    <3>2. bom' = [bom EXCEPT ![request[q].id] = Gone]
      BY <2>3, <3>1 DEF CommitDelete, Exists, ReadInv
    <3> QED
      BY <2>3, <3>1, <3>2, PlainWriteStep DEF CommitDelete, TypeOK
  <2>4. CASE Demote(q)
    <3>1. bom' = bom /\ lines' = lines
      BY <2>4 DEF Demote
    <3> QED
      BY <2>4, <3>1, DemoteStep, StillForward
  <2>5. CASE CommitRelease(q)
    BY <2>5, ReleaseStep
  <2> QED
    BY <1>4, <2>1, <2>2, <2>3, <2>4, <2>5 DEF Commit
<1> QED
  BY <1>1, <1>2, <1>3, <1>4 DEF Next

\* Whatever the requests do, the tables and what the requests hold have their types.
THEOREM BomTypeCorrect == Spec => []TypeOK
<1>1. BomInv /\ [Next]_vars => BomInv'
  BY BomStep
<1> QED
  BY <1>1, InitBom, PTL DEF Spec, BomInv

\* Where a release that has written keeps other writers out, a product keeps to one default.
LEMMA DefaultStep ==
  ASSUME ~ReadCommitted, BomInv, LockInv, OneDefault, [Next]_vars
  PROVE  LockInv' /\ OneDefault'
<1> USE DEF BomInv
<1>1. ASSUME bom' = bom, \A s \in Requests : request'[s].op = "promote" => request'[s] = request[s]
      PROVE  LockInv' /\ OneDefault'
  <2>1. \A p : Defaults(p)' = Defaults(p)
    BY <1>1 DEF Defaults, VersionsOf, Exists
  <2> QED
    BY <1>1, <2>1 DEF LockInv, OneDefault
\* A commit among no others: what is left is that there is no new default but one.
<1>2. ASSUME NEW q \in Requests, Finish(q),
             \A s \in Requests \ {q} : request[s].op # "promote",
             \A p \in Products : \A b, c \in Defaults(p)' : b = c
      PROVE  LockInv' /\ OneDefault'
  <2>1. \A s \in Requests : request'[s].op # "promote"
    BY <1>2, FinishStep
  <2> QED
    BY <1>2, <2>1 DEF LockInv, OneDefault
<1>3. ASSUME NEW q \in Requests, Finish(q), MayWrite(q),
             \A b \in Boms : Exists(b)' /\ bom'[b].default => bom'[b] = bom[b]
      PROVE  LockInv' /\ OneDefault'
  <2>1. \A p : Defaults(p)' \subseteq Defaults(p)
    BY <1>3 DEF Defaults, VersionsOf, Exists
  <2>2. \A s \in Requests \ {q} : request[s].op # "promote"
    BY <1>3 DEF MayWrite
  <2> QED
    BY <1>2, <1>3, <2>1, <2>2 DEF OneDefault
<1>4. CASE UNCHANGED vars
  BY <1>1, <1>4 DEF vars
<1>5. ASSUME NEW q \in Requests, Begin(q) PROVE LockInv' /\ OneDefault'
  <2>1. bom' = bom /\ \E r : r.op # "promote" /\ request' = [request EXCEPT ![q] = r]
    BY <1>5 DEF Begin, BeginCreate, BeginOnDraft, Start
  <2> QED
    BY <1>1, <2>1 DEF TypeOK
<1>6. ASSUME NEW q \in Requests, Abort(q) PROVE LockInv' /\ OneDefault'
  <2>1. bom' = bom /\ Finish(q)
    BY <1>6 DEF Abort
  <2> QED
    BY <1>1, <2>1, FinishStep
<1>7. ASSUME NEW q \in Requests, CommitCreate(q) PROVE LockInv' /\ OneDefault'
  <2>1. Finish(q) /\ MayWrite(q) /\ request[q].id \in Boms
    BY <1>7, RequestShapes DEF CommitCreate, TypeOK, Idle
  <2>2. \E new : ~new.default /\ bom' = [bom EXCEPT ![request[q].id] = new]
    BY <1>7 DEF CommitCreate
  <2> QED
    BY <1>3, <2>1, <2>2 DEF TypeOK
<1>8. ASSUME NEW q \in Requests, CommitUpdate(q) PROVE LockInv' /\ OneDefault'
  <2>1. /\ OnRow(q) /\ Finish(q) /\ MayWrite(q)
        /\ bom' = [bom EXCEPT ![request[q].id] = request[q].row]
    BY <1>8 DEF CommitUpdate, OnRow
  <2>2. ~request[q].row.default
    BY <2>1 DEF ReadInv
  <2> QED
    BY <1>3, <2>1, <2>2 DEF TypeOK
<1>9. ASSUME NEW q \in Requests, CommitDelete(q) PROVE LockInv' /\ OneDefault'
  <2>1. /\ Finish(q) /\ MayWrite(q)
        /\ \A b \in Boms : bom'[b] \in {bom[b], Gone}
    BY <1>9 DEF CommitDelete, TypeOK
  <2> QED
    BY <1>3, <2>1 DEF Exists
<1>10. ASSUME NEW q \in Requests, Demote(q) PROVE LockInv' /\ OneDefault'
  <2>1. /\ bom' = bom
        /\ request'[q].demoted = Defaults(request'[q].row.product)
        /\ \A s \in Requests \ {q} : request'[s] = request[s] /\ request[s].op # "promote"
    BY <1>10 DEF Demote, MayWrite, TypeOK
  <2>2. \A p : Defaults(p)' = Defaults(p)
    BY <2>1 DEF Defaults, VersionsOf, Exists
  <2> QED
    BY <2>1, <2>2 DEF LockInv, OneDefault
<1>11. ASSUME NEW q \in Requests, CommitRelease(q),
              NEW w, w = request[q].id, NEW p, p = request[q].row.product
       PROVE  LockInv' /\ OneDefault'
  <2>1. /\ Finish(q) /\ w \in Boms
        /\ request[q].demoted = Defaults(p)
        /\ \A s \in Requests \ {q} : request[s].op # "promote"
        /\ Exists(w) => bom[w].product = p
    BY <1>11, RequestShapes DEF CommitRelease, LockInv, TypeOK, ReadInv, OnRow
  <2>2. \A b \in Boms : Obsoleted(Defaults(p))[b] =
          IF b \in Defaults(p)
          THEN [bom[b] EXCEPT !.default = FALSE, !.status = "OBSOLETE"] ELSE bom[b]
    BY DEF Obsoleted, Defaults, VersionsOf
  <2>3. \A b \in Boms \ {w} :
          /\ b \in Defaults(p) => ~bom'[b].default
          /\ b \notin Defaults(p) => bom'[b] = bom[b]
    <3>1. /\ Obsoleted(Defaults(p)) = [b \in Boms |-> Obsoleted(Defaults(p))[b]]
          /\ \A b \in Boms \ {w} : bom'[b] = Obsoleted(Defaults(p))[b]
      BY <1>11, <2>1 DEF CommitRelease, Obsoleted
    <3>2. \A b \in Defaults(p) : bom[b] \in Row
      BY ExistingIsRow DEF Defaults, VersionsOf
    <3> QED
      BY <2>2, <3>1, <3>2 DEF Row
  <2>4. Exists(w)' => Exists(w) /\ bom'[w].product = p
    <3>1. CASE Exists(w)
      <4>1. /\ bom[w] \in Row /\ bom[w].product = p
            /\ bom' = [Obsoleted(Defaults(p)) EXCEPT ![w].status = "RELEASED",
                                                      ![w].default = TRUE]
        BY <1>11, <2>1, <3>1, ExistingIsRow DEF CommitRelease
      <4>2. Obsoleted(Defaults(p))[w] \in Row /\ Obsoleted(Defaults(p))[w].product = p
        <5>1. \A row \in Row :
                LET fallen == [row EXCEPT !.default = FALSE, !.status = "OBSOLETE"]
                IN  fallen \in Row /\ fallen.product = row.product
          BY DEF Row
        <5> QED
          BY <2>1, <2>2, <4>1, <5>1
      <4>3. w \in DOMAIN Obsoleted(Defaults(p))
        BY <2>1 DEF Obsoleted
      <4> QED
        BY <3>1, <4>1, <4>2, <4>3 DEF Row
    <3>2. CASE ~Exists(w)
      <4>1. bom' = Obsoleted(Defaults(p)) /\ w \notin Defaults(p)
        BY <1>11, <2>1, <3>2 DEF CommitRelease, Defaults, VersionsOf
      <4>2. bom'[w] = bom[w]
        BY <2>1, <2>2, <4>1
      <4> QED
        BY <3>2, <4>2 DEF Exists
    <3> QED
      BY <3>1, <3>2
  <2>5. \A o \in Products : \A b, c \in Defaults(o)' : b = c
    <3> SUFFICES ASSUME NEW o \in Products, NEW b \in Defaults(o)', NEW c \in Defaults(o)'
                 PROVE  b = c
      OBVIOUS
    <3>1. \A d \in Defaults(o)' :
            d \in Boms /\ Exists(d)' /\ bom'[d].default /\ bom'[d].product = o
      BY DEF Defaults, VersionsOf
    <3>2. \A d \in Defaults(o)' : d # w => d \in Defaults(o) /\ d \notin Defaults(p)
      <4> SUFFICES ASSUME NEW d \in Defaults(o)', d # w
                   PROVE  d \in Defaults(o) /\ d \notin Defaults(p)
        OBVIOUS
      <4>1. d \in Boms \ {w} /\ Exists(d)' /\ bom'[d].default /\ bom'[d].product = o
        BY <3>1
      <4>2. d \notin Defaults(p) /\ bom'[d] = bom[d]
        BY <2>3, <4>1
      <4> QED
        BY <4>1, <4>2 DEF Defaults, VersionsOf, Exists
    <3>3. CASE o = p
      BY <3>2, <3>3
    <3>4. CASE o # p
      <4>1. \A d \in Defaults(o)' : d # w
        BY <2>4, <3>1, <3>4
      <4>2. b \in Defaults(o) /\ c \in Defaults(o)
        BY <3>2, <4>1
      <4> QED
        BY <4>2 DEF OneDefault
    <3> QED
      BY <3>3, <3>4
  <2> QED
    BY <1>2, <2>1, <2>5
<1> QED
  BY <1>4, <1>5, <1>6, <1>7, <1>8, <1>9, <1>10, <1>11 DEF Next, Commit

\* Where the first write of a release keeps other writers out (SQLite, MySQL), a product
\* has at most one default version, however Create, Update, Release and Delete interleave
\* (rnd_service.go, Release).
THEOREM BomOneDefault == ~ReadCommitted => (Spec => []OneDefault)
<1> DEFINE Inv == BomInv /\ LockInv /\ OneDefault
<1>1. ASSUME ~ReadCommitted PROVE Init => Inv
  <2> SUFFICES ASSUME Init PROVE LockInv /\ OneDefault
    BY InitBom
  <2>1. (\A q \in Requests : request[q].op = "idle") /\ \A b \in Boms : ~Exists(b)
    BY DEF Init, Idle, Exists
  <2> QED
    BY <2>1 DEF LockInv, OneDefault, Defaults, VersionsOf
<1>2. ASSUME ~ReadCommitted PROVE Inv /\ [Next]_vars => Inv'
  BY <1>2, BomStep, DefaultStep
<1>3. ~ReadCommitted => (Init => Inv) /\ (Inv /\ [Next]_vars => Inv')
  BY <1>1, <1>2
<1>4. CASE ReadCommitted
  BY <1>4
<1>5. CASE ~ReadCommitted
  <2>1. Init => Inv
    BY <1>5, <1>3
  <2>2. Inv /\ [Next]_vars => Inv'
    BY <1>5, <1>3
  <2>3. Inv => OneDefault
    OBVIOUS
  <2> QED
    BY <2>1, <2>2, <2>3, PTL DEF Spec
<1> QED
  BY <1>4, <1>5

\* A version no two requests work on at once goes forward only and, once released, keeps
\* its lines; a product keeps a default.
THEOREM BomReleasedIsFinal == Spec => ReleasedIsFinal
<1>1. BomInv /\ [Next]_vars => BomInv' /\ [GoesForward]_vars
  BY BomStep
<1> QED
  BY <1>1, InitBom, PTL DEF Spec, ReleasedIsFinal


-----------------------------------------------------------------------------
(* Ordering what BOMs require.  The orders under one stamp are of one      *)
(* confirmation: what keeps two apart is the unique index on po_number and *)
(* that each numbers its orders from 1 on, so the one that created number  *)
(* 1 is the only one that gets further (StampInv).  A confirmation that    *)
(* succeeded has ordered all it needed: its orders are one for each        *)
(* supplier it is done with, and nobody else's (SuccessInv).               *)

\* The fields of a confirmation under way.
Fields(r) ==
  /\ r.op = "resolve" => r = [op |-> "resolve", next |-> r.next, need |-> r.need,
                              plan |-> r.plan, by |-> r.by]
  /\ r.op = "order" => r = [op |-> "order", stamp |-> r.stamp, done |-> r.done,
                            need |-> r.need, plan |-> r.plan, by |-> r.by]

RequestInv ==
  /\ confirming = [q \in Handlers |-> confirming[q]]
  /\ \A q \in Handlers : Fields(confirming[q])

\* A request moves alone.
Moves(q, r) == confirming'[q] = r /\ \A p \in Handlers \ {q} : confirming'[p] = confirming[p]

\* A request that moves leaves the others alone.
LEMMA SetMoves ==
  ASSUME RequestInv, NEW q \in Handlers, NEW r, Fields(r),
         confirming' = [confirming EXCEPT ![q] = r]
  PROVE  RequestInv' /\ Moves(q, r)
<1>1. \A p \in Handlers : confirming'[p] = IF p = q THEN r ELSE confirming[p]
  BY DEF RequestInv
<1>2. RequestInv'
  BY <1>1 DEF RequestInv, Fields
<1> QED
  BY <1>1, <1>2 DEF Moves

\* A confirmation begins with nothing resolved and a number of its own.
LEMMA BeginConfirmOutcome ==
  ASSUME RequestInv, NEW q \in Handlers, NEW need \in Needs, BeginConfirm(q, need)
  PROVE  LET r == [op |-> "resolve", next |-> 1, need |-> need, plan |-> NoPlan,
                   by |-> begun + 1]
         IN  /\ RequestInv' /\ Moves(q, r) /\ begun' = begun + 1
             /\ UNCHANGED <<orders, succeeded, cleared>>
<1> DEFINE r == [op |-> "resolve", next |-> 1, need |-> need, plan |-> NoPlan,
                 by |-> begun + 1]
<1>1. Fields(r)
  BY DEF Fields
<1>2. /\ confirming' = [confirming EXCEPT ![q] = r]
      /\ UNCHANGED <<orders, succeeded, cleared>> /\ begun' = begun + 1
  BY DEF BeginConfirm, Set
<1> HIDE DEF r
<1>3. RequestInv' /\ Moves(q, r)
  BY <1>1, <1>2, SetMoves
<1> QED
  BY <1>2, <1>3 DEF r

\* It resolves one material at a time, and fails on a needed one without a supplier.
LEMMA ResolveNextOutcome ==
  ASSUME RequestInv, NEW q \in Handlers, ResolveNext(q)
  PROVE  LET s == confirming[q] IN
         \E supplier :
           LET r == [op |-> "resolve", next |-> s.next + 1, need |-> s.need,
                     plan |-> [s.plan EXCEPT ![s.next] = supplier], by |-> s.by]
           IN  /\ s.op = "resolve" /\ s.next \in Materials
               /\ s.need[s.next] > 0 => supplier # None
               /\ RequestInv' /\ Moves(q, r) /\ UNCHANGED <<orders, begun, succeeded, cleared>>
<1> DEFINE s == confirming[q]
<1>1. PICK supplier :
        /\ confirming' = [confirming EXCEPT ![q] =
             [s EXCEPT !.next = @ + 1, !.plan = [@ EXCEPT ![s.next] = supplier]]]
        /\ s.need[s.next] > 0 => supplier # None
  BY DEF ResolveNext, Set
<1> DEFINE planned == [s.plan EXCEPT ![s.next] = supplier]
           t == [s EXCEPT !.next = @ + 1, !.plan = [@ EXCEPT ![s.next] = supplier]]
           r == [op |-> "resolve", next |-> s.next + 1, need |-> s.need, plan |-> planned,
                 by |-> s.by]
<1>2. /\ s.op = "resolve" /\ s.next \in Materials
      /\ UNCHANGED <<orders, begun, succeeded, cleared>>
  BY DEF ResolveNext, history
<1>3. t = r
  <2>1. PICK n, need, plan, by :
          s = [op |-> "resolve", next |-> n, need |-> need, plan |-> plan, by |-> by]
    <3>1. s = [op |-> "resolve", next |-> s.next, need |-> s.need, plan |-> s.plan, by |-> s.by]
      BY <1>2 DEF RequestInv, Fields
    <3> QED
      BY <3>1, Zenon
  <2>2. s.next = n /\ s.need = need /\ s.plan = plan /\ s.by = by
    BY <2>1
  <2>3. t = [s EXCEPT !.next = n + 1, !.plan = planned]
    BY <2>2
  <2> HIDE DEF s, t, planned
  <2>4. t \in [op : {"resolve"}, next : {n + 1}, need : {need}, plan : {planned}, by : {by}]
    BY <2>1, <2>3
  <2>5. t = [op |-> "resolve", next |-> n + 1, need |-> need, plan |-> planned, by |-> by]
    BY <2>4
  <2> QED
    BY <2>2, <2>5
<1>4. Fields(r)
  BY DEF Fields
<1>5. confirming' = [confirming EXCEPT ![q] = r]
  BY <1>1, <1>3
<1>6. RequestInv' /\ Moves(q, r)
  <2> HIDE DEF r
  <2> QED
    BY <1>4, <1>5, SetMoves
<1> QED
  BY <1>1, <1>2, <1>6

\* When all are resolved it takes the time of the clock as its stamp.
LEMMA ResolvedOutcome ==
  ASSUME RequestInv, NEW q \in Handlers, Resolved(q)
  PROVE  LET s == confirming[q] IN
         \E t \in Stamps :
           LET r == [op |-> "order", stamp |-> t, done |-> {}, need |-> s.need, plan |-> s.plan,
                     by |-> s.by]
           IN  /\ s.op = "resolve" /\ s.next \notin Materials
               /\ RequestInv' /\ Moves(q, r) /\ UNCHANGED <<orders, begun, succeeded, cleared>>
<1> DEFINE s == confirming[q]
<1>1. PICK t \in Stamps :
        confirming' = [confirming EXCEPT ![q] =
          [op |-> "order", stamp |-> t, done |-> {}, need |-> s.need, plan |-> s.plan,
           by |-> s.by]]
  BY DEF Resolved, Set
<1>2. /\ s.op = "resolve" /\ s.next \notin Materials
      /\ UNCHANGED <<orders, begun, succeeded, cleared>>
  BY DEF Resolved, history
<1> DEFINE r == [op |-> "order", stamp |-> t, done |-> {}, need |-> s.need, plan |-> s.plan,
                 by |-> s.by]
<1>3. Fields(r)
  BY DEF Fields
<1>4. RequestInv' /\ Moves(q, r)
  <2>1. confirming' = [confirming EXCEPT ![q] = r]
    BY <1>1
  <2> HIDE DEF r
  <2> QED
    BY <1>3, <2>1, SetMoves
<1> QED
  BY <1>2, <1>4

\* The next order has the next number and what its supplier is to deliver.
LEMMA CreateNextOutcome ==
  ASSUME RequestInv, NEW q \in Handlers, CreateNext(q)
  PROVE  LET s == confirming[q] IN
         \E m \in Left(s), new \in orders' :
           LET r == [op |-> "order", stamp |-> s.stamp, done |-> s.done \union {s.plan[m]},
                     need |-> s.need, plan |-> s.plan, by |-> s.by]
           IN  /\ s.op = "order" /\ RequestInv' /\ Moves(q, r)
               /\ new.number = Number(s, s.plan[m]) /\ new.by = s.by
               /\ new.supplier = s.plan[m]
               /\ new.qty = [n \in Materials |->
                              IF s.plan[n] = new.supplier THEN s.need[n] ELSE 0]
               /\ \A o \in orders : o.number # new.number
               /\ orders' = orders \union {new} /\ UNCHANGED <<begun, succeeded, cleared>>
<1> DEFINE s == confirming[q]
<1>1. PICK m \in Left(s) :
        LET made == [number |-> Number(s, s.plan[m]), supplier |-> s.plan[m],
                     by |-> s.by, qty |-> [n \in Materials |->
                                            IF s.plan[n] = s.plan[m] THEN s.need[n] ELSE 0]]
        IN  /\ \A o \in orders : o.number # Number(s, s.plan[m])
            /\ orders' = orders \union {made}
            /\ confirming' = [confirming EXCEPT ![q] = [s EXCEPT !.done = @ \union {s.plan[m]}]]
  BY DEF CreateNext, Set
<1>2. s.op = "order" /\ UNCHANGED <<begun, succeeded, cleared>>
  BY DEF CreateNext, history
<1> DEFINE supplier == s.plan[m]
           made == [number |-> Number(s, supplier), supplier |-> supplier,
                    by |-> s.by, qty |-> [n \in Materials |->
                                           IF s.plan[n] = supplier THEN s.need[n] ELSE 0]]
           r == [op |-> "order", stamp |-> s.stamp, done |-> s.done \union {supplier},
                 need |-> s.need, plan |-> s.plan, by |-> s.by]
<1>3. [s EXCEPT !.done = @ \union {supplier}] = r
  <2>1. s = [op |-> "order", stamp |-> s.stamp, done |-> s.done, need |-> s.need,
             plan |-> s.plan, by |-> s.by]
    BY <1>2 DEF RequestInv, Fields
  <2> HIDE DEF s, supplier
  <2> QED
    BY <2>1
<1>4. Fields(r)
  BY DEF Fields
<1>5. RequestInv' /\ Moves(q, r)
  <2>1. confirming' = [confirming EXCEPT ![q] = r]
    BY <1>1, <1>3
  <2> HIDE DEF r
  <2> QED
    BY <1>4, <2>1, SetMoves
<1>6. /\ made.number = Number(s, supplier) /\ made.by = s.by /\ made.supplier = supplier
      /\ made.qty = [n \in Materials |->
                      IF s.plan[n] = made.supplier THEN s.need[n] ELSE 0]
  OBVIOUS
<1>7. (\A o \in orders : o.number # made.number) /\ orders' = orders \union {made}
  BY <1>1
<1> SUFFICES \E x \in Left(s), new \in orders' :
               /\ s.op = "order" /\ RequestInv'
               /\ Moves(q, [op |-> "order", stamp |-> s.stamp, done |-> s.done \union {s.plan[x]},
                            need |-> s.need, plan |-> s.plan, by |-> s.by])
               /\ new.number = Number(s, s.plan[x]) /\ new.by = s.by
               /\ new.supplier = s.plan[x]
               /\ new.qty = [n \in Materials |->
                              IF s.plan[n] = new.supplier THEN s.need[n] ELSE 0]
               /\ \A o \in orders : o.number # new.number
               /\ orders' = orders \union {new} /\ UNCHANGED <<begun, succeeded, cleared>>
  OBVIOUS
<1> made \in orders'
  BY <1>7
<1> WITNESS m \in Left(s), made \in orders'
<1> HIDE DEF made, s
<1> QED
  BY <1>2, <1>5, <1>6, <1>7

\* The end of a request, and the start of one that saves a binding.
LEMMA QuietOutcome ==
  ASSUME RequestInv, NEW q \in Handlers,
         \/ \E row \in Forms : BeginBind(q, row)
         \/ \E i \in RelIds, row \in Forms :
              BeginUpdateRel(q, i, row.price, row.preferred)
         \/ CommitBind(q) \/ Succeed(q) \/ GiveUp(q)
  PROVE  \E r : /\ r.op \in {"bind", "idle"} /\ RequestInv' /\ Moves(q, r)
                /\ UNCHANGED <<orders, begun, cleared>>
                /\ ~ Succeed(q) => UNCHANGED succeeded
<1>1. ASSUME NEW id, NEW row, StartSave(q, id, row)
      PROVE  \E r : /\ r.op = "bind" /\ RequestInv' /\ Moves(q, r)
                    /\ UNCHANGED <<orders, begun, cleared, succeeded>>
  <2> DEFINE r == [op |-> "bind", id |-> id, row |-> row]
  <2>1. /\ confirming' = [confirming EXCEPT ![q] = r]
        /\ UNCHANGED <<orders, begun, cleared, succeeded>>
    BY <1>1 DEF StartSave, Set, history
  <2>2. Fields(r) /\ r.op = "bind"
    BY DEF Fields
  <2> HIDE DEF r
  <2> QED
    BY <2>1, <2>2, SetMoves
<1>2. CASE CommitBind(q) \/ Succeed(q) \/ GiveUp(q)
  <2>1. /\ confirming' = [confirming EXCEPT ![q] = NoWork]
        /\ UNCHANGED <<orders, begun, cleared>>
        /\ ~ Succeed(q) => UNCHANGED succeeded
    BY <1>2 DEF CommitBind, Succeed, GiveUp, Set,
                history
  <2>2. Fields(NoWork) /\ NoWork.op = "idle"
    BY DEF Fields, NoWork
  <2> QED
    BY <2>1, <2>2, SetMoves
<1> QED
  BY <1>1, <1>2 DEF BeginBind, BeginUpdateRel


\* Orders under a stamp are there only with number 1, which the first of them took.
FirstInv ==
  \A o \in orders : o.number[1] \notin cleared =>
    \E f \in orders : f.number = <<o.number[1], 1>>

\* If r is past its first order, that order is there.
OwnsFirst(r, made, gone) ==
  r.op = "order" /\ r.done # {} /\ r.stamp \notin gone =>
    \E f \in made : f.number = <<r.stamp, 1>> /\ f.by = r.by

StampInv ==
  /\ RequestInv /\ FirstInv /\ OneConfirmationPerStamp
  /\ \A q \in Handlers : OwnsFirst(confirming[q], orders, cleared)

\* A request that creates no order moves.
LEMMA MoveStamp ==
  ASSUME StampInv, RequestInv', NEW q \in Handlers, NEW r, Moves(q, r),
         UNCHANGED <<orders, cleared>>, OwnsFirst(r, orders, cleared)
  PROVE  StampInv'
<1>1. FirstInv' /\ OneConfirmationPerStamp'
  BY DEF StampInv, FirstInv, OneConfirmationPerStamp
<1>2. \A p \in Handlers : OwnsFirst(confirming'[p], orders', cleared')
  <2> TAKE p \in Handlers
  <2>1. OwnsFirst(confirming'[p], orders, cleared)
    BY DEF Moves, StampInv
  <2> QED
    BY <2>1
<1> QED
  BY <1>1, <1>2 DEF StampInv, OwnsFirst

\* The first order under a stamp, or one more after its own.
LEMMA CreateNextStamp ==
  ASSUME StampInv, NEW q \in Handlers, CreateNext(q)
  PROVE  StampInv'
<1> DEFINE s == confirming[q]
<1>1. PICK m \in Left(s), new \in orders' :
        LET r == [op |-> "order", stamp |-> s.stamp, done |-> s.done \union {s.plan[m]},
                  need |-> s.need, plan |-> s.plan, by |-> s.by]
        IN  /\ s.op = "order" /\ RequestInv' /\ Moves(q, r)
            /\ new.number = Number(s, s.plan[m]) /\ new.by = s.by
            /\ \A o \in orders : o.number # new.number
            /\ orders' = orders \union {new} /\ UNCHANGED cleared
  <2>1. RequestInv
    BY DEF StampInv
  <2> QED
    BY <2>1, CreateNextOutcome
<1> DEFINE r == [op |-> "order", stamp |-> s.stamp, done |-> s.done \union {s.plan[m]},
                 need |-> s.need, plan |-> s.plan, by |-> s.by]
<1>2. /\ r.op = "order" /\ r.stamp = s.stamp /\ r.done # {} /\ r.by = s.by
  BY <1>1
<1>3. new.number[1] = s.stamp
  BY <1>1 DEF Number
<1>4. s.done = {} => new.number = <<s.stamp, 1>>
  <2>1. Cardinality({s.plan[m]}) = 1
    BY FS_Singleton
  <2>2. s.done = {} => s.done \union {s.plan[m]} = {s.plan[m]}
    OBVIOUS
  <2>3. new.number = <<s.stamp, Cardinality(s.done \union {s.plan[m]})>>
    <3>1. new.number = Number(s, s.plan[m])
      BY <1>1
    <3> HIDE DEF s
    <3> QED
      BY <3>1 DEF Number
  <2> QED
    BY <2>1, <2>2, <2>3
<1>5. s.stamp \notin cleared => \E f \in orders' : f.number = <<s.stamp, 1>> /\ f.by = s.by
  <2>1. OwnsFirst(s, orders, cleared)
    BY DEF StampInv
  <2> QED
    BY <1>1, <1>4, <2>1 DEF OwnsFirst
<1>6. FirstInv'
  BY <1>1, <1>3, <1>5 DEF StampInv, FirstInv
<1>7. \A p \in Handlers : OwnsFirst(confirming'[p], orders', cleared')
  <2>1. ASSUME NEW p \in Handlers \ {q} PROVE OwnsFirst(confirming'[p], orders', cleared')
    <3>1. confirming'[p] = confirming[p] /\ OwnsFirst(confirming[p], orders, cleared)
      BY <1>1 DEF Moves, StampInv
    <3>2. orders \subseteq orders' /\ cleared' = cleared
      BY <1>1
    <3> QED
      BY <3>1, <3>2 DEF OwnsFirst
  <2>2. OwnsFirst(confirming'[q], orders', cleared')
    BY <1>1, <1>2, <1>5 DEF OwnsFirst, Moves
  <2> QED
    BY <2>1, <2>2
<1>8. ASSUME NEW o \in orders, o.number[1] = s.stamp, s.stamp \notin cleared
      PROVE  o.by = s.by
  <2>1. PICK f \in orders : f.number = <<s.stamp, 1>>
    BY <1>8 DEF StampInv, FirstInv
  <2>2. s.done # {}
    BY <1>1, <1>4, <2>1
  <2>3. PICK own \in orders : own.number = <<s.stamp, 1>> /\ own.by = s.by
    BY <1>1, <1>8, <2>2 DEF StampInv, OwnsFirst
  <2>4. own.number[1] = s.stamp
    BY <2>3
  <2> QED
    BY <1>8, <2>3, <2>4 DEF StampInv, OneConfirmationPerStamp
<1>9. OneConfirmationPerStamp'
  BY <1>1, <1>3, <1>8 DEF StampInv, OneConfirmationPerStamp
<1> QED
  BY <1>1, <1>6, <1>7, <1>9 DEF StampInv

\* An order that is deleted was under one stamp like the others.
LEMMA DeleteOrderStamp ==
  ASSUME StampInv, NEW o \in orders, DeleteOrder(o)
  PROVE  StampInv'
<1>1. /\ orders' = orders \ {o} /\ cleared' = cleared \union {o.number[1]}
      /\ confirming' = confirming
  BY DEF DeleteOrder
<1>2. RequestInv' /\ OneConfirmationPerStamp'
  BY <1>1 DEF StampInv, RequestInv, Fields, OneConfirmationPerStamp
<1>3. \A t : o.number = <<t, 1>> => o.number[1] = t
  OBVIOUS
<1>4. FirstInv'
  BY <1>1, <1>3 DEF StampInv, FirstInv
<1>5. \A q \in Handlers : OwnsFirst(confirming'[q], orders', cleared')
  BY <1>1, <1>3 DEF StampInv, OwnsFirst
<1> QED
  BY <1>2, <1>4, <1>5 DEF StampInv

\* Every step keeps orders under one stamp those of one confirmation.
LEMMA StampStep == StampInv /\ [OrderingNext]_orderingVars => StampInv'
<1> SUFFICES ASSUME StampInv, [OrderingNext]_orderingVars PROVE StampInv'
  OBVIOUS
<1> USE DEF StampInv
<1>1. ASSUME NEW q \in Handlers,
             \/ \E row \in Forms : BeginBind(q, row)
             \/ \E i \in RelIds, row \in Forms :
                  BeginUpdateRel(q, i, row.price, row.preferred)
             \/ CommitBind(q) \/ Succeed(q) \/ GiveUp(q)
      PROVE  StampInv'
  <2>1. PICK r : /\ r.op \in {"bind", "idle"} /\ RequestInv' /\ Moves(q, r)
                 /\ UNCHANGED <<orders, begun, cleared>>
                 /\ ~ Succeed(q) => UNCHANGED succeeded
    BY <1>1, QuietOutcome
  <2>2. OwnsFirst(r, orders, cleared)
    BY <2>1 DEF OwnsFirst
  <2> QED
    BY <2>1, <2>2, MoveStamp
<1>2. ASSUME NEW q \in Handlers, NEW need \in Needs, BeginConfirm(q, need)
      PROVE  StampInv'
  <2> DEFINE r == [op |-> "resolve", next |-> 1, need |-> need, plan |-> NoPlan,
                   by |-> begun + 1]
  <2>1. RequestInv' /\ Moves(q, r) /\ UNCHANGED <<orders, cleared>>
    BY <1>2, BeginConfirmOutcome
  <2>2. OwnsFirst(r, orders, cleared)
    BY DEF OwnsFirst
  <2> HIDE DEF r
  <2> QED
    BY <2>1, <2>2, MoveStamp
<1>3. ASSUME NEW q \in Handlers, ResolveNext(q)
      PROVE  StampInv'
  <2>1. PICK supplier, r :
          /\ r = [op |-> "resolve", next |-> confirming[q].next + 1, need |-> confirming[q].need,
                  plan |-> [confirming[q].plan EXCEPT ![confirming[q].next] = supplier],
                  by |-> confirming[q].by]
          /\ RequestInv' /\ Moves(q, r) /\ UNCHANGED <<orders, cleared>>
    BY <1>3, ResolveNextOutcome
  <2>2. OwnsFirst(r, orders, cleared)
    BY <2>1 DEF OwnsFirst
  <2> QED
    BY <2>1, <2>2, MoveStamp
<1>4. ASSUME NEW q \in Handlers, Resolved(q)
      PROVE  StampInv'
  <2>1. PICK r :
          /\ r.op = "order" /\ r.done = {}
          /\ RequestInv' /\ Moves(q, r) /\ UNCHANGED <<orders, cleared>>
    BY <1>4, ResolvedOutcome
  <2>2. OwnsFirst(r, orders, cleared)
    BY <2>1 DEF OwnsFirst
  <2> QED
    BY <2>1, <2>2, MoveStamp
<1>5. ASSUME UNCHANGED <<orders, confirming, cleared>>
      PROVE  StampInv'
  BY <1>5 DEF RequestInv, Fields, FirstInv, OwnsFirst, OneConfirmationPerStamp
<1>6. ASSUME \/ \E x \in Suppliers : SetAudit(x)
             \/ \E i \in RelIds : Unbind(i)
             \/ UNCHANGED orderingVars
      PROVE  StampInv'
  BY <1>5, <1>6 DEF SetAudit, Unbind, orderingVars, history
<1> QED
  BY <1>1, <1>2, <1>3, <1>4, <1>6, CreateNextStamp, DeleteOrderStamp DEF OrderingNext

\* Confirmations that share a stamp (of one second, or sent with one order_date) never mix
\* their orders under it, unless some of that stamp have been deleted.  Of a second try
\* that has a stamp of its own it says nothing (bom_order_service.go, Create).
THEOREM StampIsOneConfirmation == OrderingSpec => []OneConfirmationPerStamp
<1>1. OrderingInit => StampInv
  BY DEF OrderingInit, StampInv, RequestInv, FirstInv, OneConfirmationPerStamp, Fields,
         OwnsFirst, NoWork
<1>2. StampInv => OneConfirmationPerStamp
  BY DEF StampInv
<1> QED
  BY <1>1, <1>2, StampStep, PTL DEF OrderingSpec


OrdersBy(by, made) == {o \in made : o.by = by}

\* The orders of a confirmation: one for each supplier it is done with, of what the plan has
\* from that supplier.
Wrote(r, made) ==
  LET mine == OrdersBy(r.by, made) IN
  /\ \A o \in mine :
       /\ o.supplier \in r.done
       /\ o.qty = [n \in Materials |->
                    IF r.plan[n] = o.supplier THEN r.need[n] ELSE 0]
  /\ \A s \in r.done : \E o \in mine : o.supplier = s
  /\ \A o, p \in mine : o.supplier = p.supplier => o = p

\* What is needed has a supplier once it has been looked at, and nothing is ordered before.
Planned(r, made, gone) ==
  /\ r.op = "resolve" =>
       /\ r.next \in Nat \ {0} /\ r.need \in [Materials -> Nat]
       /\ r.plan = [m \in Materials |-> r.plan[m]]
       /\ \A m \in Materials : m < r.next /\ r.need[m] > 0 => r.plan[m] # None
       /\ \A o \in made : o.by # r.by
  /\ r.op = "order" =>
       /\ r.need \in [Materials -> Nat]
       /\ \A m \in Materials : r.need[m] > 0 => r.plan[m] # None
       /\ gone = {} => Wrote(r, made)

Confirms(r) == r.op \in {"resolve", "order"}

\* Every confirmation has a number of its own.
ByInv ==
  /\ begun \in Nat
  /\ \A o \in orders : o.by \in Nat /\ o.by <= begun
  /\ \A c \in succeeded : c.by \in Nat /\ c.by <= begun
  /\ \A q \in Handlers : Confirms(confirming[q]) =>
       /\ confirming[q].by \in Nat /\ confirming[q].by <= begun
       /\ \A c \in succeeded : c.by # confirming[q].by
       /\ \A p \in Handlers \ {q} :
            Confirms(confirming[p]) => confirming[p].by # confirming[q].by

SuccessInv ==
  /\ RequestInv /\ ByInv /\ IsFiniteSet(orders) /\ SuccessIsComplete
  /\ \A q \in Handlers : Planned(confirming[q], orders, cleared)

\* The orders mine are what is needed, each material in one of them.
Complete(need, mine) ==
  \A m \in Materials :
    /\ SumFunctionOnSet([o \in mine |-> o.qty[m]], mine) = need[m]
    /\ Cardinality({o \in mine : o.qty[m] > 0}) <= 1

\* SuccessIsComplete in the terms of the invariant.
LEMMA SuccessUnfolds ==
  /\ SuccessIsComplete <=>
       \A c \in succeeded : cleared # {} \/ Complete(c.need, OrdersBy(c.by, orders))
  /\ SuccessIsComplete' <=>
       \A c \in succeeded' : cleared' # {} \/ Complete(c.need, OrdersBy(c.by, orders'))
BY DEF SuccessIsComplete, Complete, OrdersBy

\* A plan whose suppliers all have an order covers what is needed, each material from one.
LEMMA OrderedInFull ==
  ASSUME NEW r, NEW made, IsFiniteSet(made), r.need \in [Materials -> Nat],
         \A m \in Materials : r.need[m] > 0 => r.plan[m] # None,
         Wrote(r, made), Left(r) = {}
  PROVE  Complete(r.need, OrdersBy(r.by, made))
<1> DEFINE mine == OrdersBy(r.by, made)
<1> SUFFICES ASSUME NEW m \in Materials
             PROVE  /\ SumFunctionOnSet([o \in mine |-> o.qty[m]], mine) = r.need[m]
                    /\ Cardinality({o \in mine : o.qty[m] > 0}) <= 1
  BY DEF Complete
<1> DEFINE f == [o \in mine |-> o.qty[m]]
<1>1. IsFiniteSet(mine)
  BY FS_Subset DEF OrdersBy
<1> HIDE DEF mine
<1>2. r.need[m] \in Nat
  OBVIOUS
<1>3. \A o \in mine : o.qty[m] = IF r.plan[m] = o.supplier THEN r.need[m] ELSE 0
  <2> TAKE o \in mine
  <2>1. o.qty = [n \in Materials |->
                  IF r.plan[n] = o.supplier THEN r.need[n] ELSE 0]
    BY DEF Wrote, mine
  <2> QED
    BY <2>1
<1>4. \A o \in mine : f[o] = o.qty[m]
  OBVIOUS
<1>5. CASE r.need[m] = 0
  <2>1. \A o \in mine : f[o] = 0 /\ o.qty[m] = 0
    BY <1>3, <1>4, <1>5
  <2>2. {o \in mine : o.qty[m] > 0} = {}
    BY <2>1
  <2>3. Cardinality({o \in mine : o.qty[m] > 0}) = 0
    BY <2>2, FS_EmptySet
  <2> HIDE DEF f
  <2>4. SumFunctionOnSet(f, mine) = 0
    BY <1>1, <2>1, SumOfZeros
  <2> QED
    BY <1>5, <2>3, <2>4 DEF f
<1>6. CASE r.need[m] # 0
  <2>1. r.plan[m] \in r.done
    BY <1>2, <1>6 DEF Left, None
  <2>2. PICK x \in mine : x.supplier = r.plan[m]
    BY <2>1 DEF Wrote, mine
  <2>3. \A o \in mine \ {x} : o.supplier # r.plan[m]
    BY <2>2 DEF Wrote, mine
  <2>4. x.qty[m] = r.need[m] /\ \A o \in mine \ {x} : o.qty[m] = 0
    BY <1>3, <2>2, <2>3
  <2>5. Cardinality({o \in mine : o.qty[m] > 0}) = 1
    <3>1. {o \in mine : o.qty[m] > 0} = {x}
      BY <1>2, <1>6, <2>2, <2>4
    <3> QED
      BY <3>1, FS_Singleton
  <2> DEFINE rest == mine \ {x}
  <2>6. IsFiniteSet(rest) /\ \A o \in rest : f[o] = 0
    BY <1>1, <1>4, <2>4, FS_Subset
  <2>7. f[x] = r.need[m] /\ \A o \in mine : f[o] \in Int
    BY <1>2, <1>4, <2>4
  <2> HIDE DEF f
  <2>8. SumFunctionOnSet(f, mine) = f[x] + SumFunctionOnSet(f, rest)
    BY <1>1, <2>2, <2>7, SumTakeOut
  <2> HIDE DEF rest
  <2>9. SumFunctionOnSet(f, rest) = 0
    BY <2>6, SumOfZeros
  <2>10. SumFunctionOnSet(f, mine) = r.need[m]
    BY <1>2, <2>7, <2>8, <2>9
  <2> QED
    BY <2>5, <2>10 DEF f
<1> QED
  BY <1>5, <1>6

\* A request that creates no order moves, to another step of its confirmation or to none.
LEMMA MoveSuccess ==
  ASSUME SuccessInv, RequestInv', NEW q \in Handlers, NEW r, Moves(q, r),
         UNCHANGED <<orders, begun, succeeded, cleared>>, Planned(r, orders, cleared),
         Confirms(r) => Confirms(confirming[q]) /\ r.by = confirming[q].by
  PROVE  SuccessInv'
<1>1. ByInv' /\ IsFiniteSet(orders)' /\ SuccessIsComplete'
  <2>1. \A p \in Handlers : Confirms(confirming'[p]) =>
          Confirms(confirming[p]) /\ confirming'[p].by = confirming[p].by
    BY DEF Moves
  <2>2. ByInv'
    BY <2>1 DEF SuccessInv, ByInv, Confirms
  <2> QED
    BY <2>2 DEF SuccessInv, SuccessIsComplete
<1>2. \A p \in Handlers : Planned(confirming'[p], orders', cleared')
  <2> TAKE p \in Handlers
  <2>1. Planned(confirming'[p], orders, cleared)
    BY DEF Moves, SuccessInv
  <2> QED
    BY <2>1
<1>3. (\A p \in Handlers : Planned(confirming[p], orders, cleared))'
  BY <1>2 DEF Planned, Wrote
<1> QED
  BY <1>1, <1>3 DEF SuccessInv


\* A confirmation that begins has ordered nothing yet.
LEMMA BeginConfirmSuccess ==
  ASSUME SuccessInv, NEW q \in Handlers, NEW need \in Needs,
         BeginConfirm(q, need)
  PROVE  SuccessInv'
<1> DEFINE r == [op |-> "resolve", next |-> 1, need |-> need, plan |-> NoPlan,
                 by |-> begun + 1]
<1>1. RequestInv' /\ Moves(q, r) /\ begun' = begun + 1 /\ UNCHANGED <<orders, succeeded, cleared>>
  BY BeginConfirmOutcome DEF SuccessInv
<1>2. begun \in Nat /\ r.op = "resolve" /\ r.by = begun + 1
  BY DEF SuccessInv, ByInv
<1>3. Planned(r, orders, cleared)
  <2>1. need \in [Materials -> Nat]
    BY BomOrderAssumption
  <2>2. \A m \in Materials : ~(m < 1)
    BY BomOrderAssumption DEF Materials
  <2>3. \A o \in orders : o.by # begun + 1
    BY <1>2 DEF SuccessInv, ByInv
  <2>4. r.plan = [m \in Materials |-> r.plan[m]] /\ r.need = need /\ r.next = 1
    BY DEF NoPlan
  <2> HIDE DEF r
  <2> QED
    BY <1>2, <2>1, <2>2, <2>3, <2>4 DEF Planned
<1> HIDE DEF r
<1>4. ByInv'
  <2>1. /\ begun' \in Nat /\ begun' = begun + 1
        /\ \A o \in orders' : o.by \in Nat /\ o.by <= begun'
        /\ \A c \in succeeded' : c.by \in Nat /\ c.by <= begun /\ c.by <= begun'
    BY <1>1, <1>2 DEF SuccessInv, ByInv
  <2>2. \A p \in Handlers \ {q} : Confirms(confirming'[p]) =>
          /\ confirming'[p] = confirming[p]
          /\ confirming[p].by \in Nat /\ confirming[p].by <= begun
          /\ \A c \in succeeded : c.by # confirming[p].by
    BY <1>1 DEF SuccessInv, ByInv, Moves
  <2>3. \A p, x \in Handlers \ {q} :
          p # x /\ Confirms(confirming'[p]) /\ Confirms(confirming'[x]) =>
            confirming'[p].by # confirming'[x].by
    BY <1>1 DEF SuccessInv, ByInv, Moves
  <2>4. confirming'[q].by = begun + 1
    BY <1>1, <1>2 DEF Moves
  <2> QED
    BY <1>1, <1>2, <2>1, <2>2, <2>3, <2>4 DEF ByInv, Confirms
<1>5. \A p \in Handlers : Planned(confirming'[p], orders', cleared')
  <2> TAKE p \in Handlers
  <2>1. Planned(confirming'[p], orders, cleared)
    BY <1>1, <1>3 DEF SuccessInv, Moves
  <2> QED
    BY <1>1, <2>1
<1>6. (\A p \in Handlers : Planned(confirming[p], orders, cleared))'
  BY <1>5 DEF Planned, Wrote, OrdersBy
<1> QED
  BY <1>1, <1>4, <1>6 DEF SuccessInv, SuccessIsComplete

\* Nor has one that resolves.
LEMMA ResolveNextSuccess ==
  ASSUME SuccessInv, NEW q \in Handlers, ResolveNext(q)
  PROVE  SuccessInv'
<1> DEFINE s == confirming[q]
<1>1. PICK supplier :
        LET r == [op |-> "resolve", next |-> s.next + 1, need |-> s.need,
                  plan |-> [s.plan EXCEPT ![s.next] = supplier], by |-> s.by]
        IN  /\ s.op = "resolve" /\ s.next \in Materials
            /\ s.need[s.next] > 0 => supplier # None
            /\ RequestInv' /\ Moves(q, r) /\ UNCHANGED <<orders, begun, succeeded, cleared>>
  BY ResolveNextOutcome DEF SuccessInv
<1> DEFINE r == [op |-> "resolve", next |-> s.next + 1, need |-> s.need,
                 plan |-> [s.plan EXCEPT ![s.next] = supplier], by |-> s.by]
<1>2. /\ RequestInv' /\ Moves(q, r) /\ UNCHANGED <<orders, begun, succeeded, cleared>>
      /\ s.op = "resolve" /\ s.next \in Materials
      /\ s.need[s.next] > 0 => supplier # None
  BY <1>1
<1>3. /\ s.next \in Nat \ {0} /\ s.need \in [Materials -> Nat]
      /\ s.plan = [m \in Materials |-> s.plan[m]]
      /\ \A m \in Materials : m < s.next /\ s.need[m] > 0 => s.plan[m] # None
      /\ \A o \in orders : o.by # s.by
  BY <1>2 DEF SuccessInv, Planned
<1>4. /\ r.op = "resolve" /\ r.next = s.next + 1 /\ r.need = s.need /\ r.by = s.by
      /\ r.plan = [s.plan EXCEPT ![s.next] = supplier]
  OBVIOUS
<1> HIDE DEF s, r
<1>5. \A m \in Materials : r.plan[m] = IF m = s.next THEN supplier ELSE s.plan[m]
  BY <1>2, <1>3, <1>4
<1>6. r.plan = [m \in Materials |-> r.plan[m]]
  BY <1>3, <1>4
<1>7. \A m \in Materials : m < r.next => m < s.next \/ m = s.next
  BY <1>3, <1>4, BomOrderAssumption DEF Materials
<1>8. Planned(r, orders, cleared)
  BY <1>2, <1>3, <1>4, <1>5, <1>6, <1>7 DEF Planned
<1>9. Confirms(s) /\ r.by = s.by
  BY <1>2, <1>4 DEF Confirms
<1> QED
  BY <1>2, <1>8, <1>9, MoveSuccess DEF s

\* Nor has one that takes its stamp.
LEMMA ResolvedSuccess ==
  ASSUME SuccessInv, NEW q \in Handlers, Resolved(q)
  PROVE  SuccessInv'
<1> DEFINE s == confirming[q]
<1>1. PICK t \in Stamps :
        LET r == [op |-> "order", stamp |-> t, done |-> {}, need |-> s.need, plan |-> s.plan,
                  by |-> s.by]
        IN  /\ s.op = "resolve" /\ s.next \notin Materials
            /\ RequestInv' /\ Moves(q, r) /\ UNCHANGED <<orders, begun, succeeded, cleared>>
  BY ResolvedOutcome DEF SuccessInv
<1> DEFINE r == [op |-> "order", stamp |-> t, done |-> {}, need |-> s.need, plan |-> s.plan,
                 by |-> s.by]
<1>2. /\ RequestInv' /\ Moves(q, r) /\ UNCHANGED <<orders, begun, succeeded, cleared>>
      /\ s.op = "resolve" /\ s.next \notin Materials
  BY <1>1
<1>3. /\ s.next \in Nat \ {0} /\ s.need \in [Materials -> Nat]
      /\ \A m \in Materials : m < s.next /\ s.need[m] > 0 => s.plan[m] # None
      /\ \A o \in orders : o.by # s.by
  BY <1>2 DEF SuccessInv, Planned
<1>4. /\ r.op = "order" /\ r.done = {} /\ r.need = s.need /\ r.plan = s.plan /\ r.by = s.by
  OBVIOUS
<1> HIDE DEF s, r
<1>5. \A m \in Materials : m < s.next
  BY <1>2, <1>3, BomOrderAssumption DEF Materials
<1>6. Planned(r, orders, cleared)
  BY <1>3, <1>4, <1>5 DEF Planned, Wrote, OrdersBy
<1>7. Confirms(s) /\ r.by = s.by
  BY <1>2, <1>4 DEF Confirms
<1> QED
  BY <1>2, <1>6, <1>7, MoveSuccess DEF s

\* A new order is its own confirmation's: no other's orders change.
LEMMA CreateNextSuccess ==
  ASSUME SuccessInv, NEW q \in Handlers, CreateNext(q)
  PROVE  SuccessInv'
<1> DEFINE s == confirming[q]
<1>1. PICK m \in Left(s), new \in orders' :
        LET r == [op |-> "order", stamp |-> s.stamp, done |-> s.done \union {s.plan[m]},
                  need |-> s.need, plan |-> s.plan, by |-> s.by]
        IN  /\ s.op = "order" /\ RequestInv' /\ Moves(q, r)
            /\ new.number = Number(s, s.plan[m]) /\ new.by = s.by
            /\ new.supplier = s.plan[m]
            /\ new.qty = [n \in Materials |->
                           IF s.plan[n] = new.supplier THEN s.need[n] ELSE 0]
            /\ \A o \in orders : o.number # new.number
            /\ orders' = orders \union {new} /\ UNCHANGED <<begun, succeeded, cleared>>
  BY CreateNextOutcome DEF SuccessInv
<1> DEFINE r == [op |-> "order", stamp |-> s.stamp, done |-> s.done \union {s.plan[m]},
                 need |-> s.need, plan |-> s.plan, by |-> s.by]
<1>2. /\ s.op = "order" /\ RequestInv' /\ Moves(q, r)
      /\ new.by = s.by /\ new.supplier = s.plan[m]
      /\ new.qty = [n \in Materials |->
                     IF s.plan[n] = new.supplier THEN s.need[n] ELSE 0]
      /\ orders' = orders \union {new} /\ UNCHANGED <<begun, succeeded, cleared>>
  BY <1>1
<1>3. /\ s.need \in [Materials -> Nat]
      /\ \A n \in Materials : s.need[n] > 0 => s.plan[n] # None
      /\ cleared = {} => Wrote(s, orders)
      /\ s.by \in Nat /\ s.by <= begun /\ \A c \in succeeded : c.by # s.by
      /\ \A p \in Handlers \ {q} : Confirms(confirming[p]) => confirming[p].by # s.by
  BY <1>2 DEF SuccessInv, Planned, ByInv, Confirms
<1>4. /\ r.op = "order" /\ r.need = s.need /\ r.plan = s.plan /\ r.by = s.by
      /\ r.done = s.done \union {new.supplier}
  BY <1>2
<1>5. new.supplier \notin s.done
  BY <1>2 DEF Left
<1> HIDE DEF s, r
<1>6. Wrote(s, orders) => Wrote(r, orders')
  BY <1>2, <1>4, <1>5 DEF Wrote, OrdersBy
<1>7. Planned(r, orders', cleared')
  BY <1>2, <1>3, <1>4, <1>6 DEF Planned
<1>8. ASSUME NEW p \in Handlers \ {q} PROVE Planned(confirming'[p], orders', cleared')
  <2> DEFINE t == confirming[p]
  <2>1. confirming'[p] = t /\ Planned(t, orders, cleared)
    BY <1>2 DEF Moves, SuccessInv
  <2>2. Confirms(t) => t.by # new.by
    BY <1>2, <1>3
  <2>3. Confirms(t) => OrdersBy(t.by, orders') = OrdersBy(t.by, orders)
    BY <1>2, <2>2 DEF OrdersBy
  <2> HIDE DEF t
  <2>4. Confirms(t) /\ Wrote(t, orders) => Wrote(t, orders')
    BY <2>3 DEF Wrote
  <2>5. Planned(t, orders', cleared)
    BY <1>2, <2>1, <2>2, <2>4 DEF Planned, Confirms
  <2> QED
    BY <1>2, <2>1, <2>5
<1>9. (\A p \in Handlers : Planned(confirming[p], orders, cleared))'
  <2>1. confirming'[q] = r
    BY <1>2 DEF Moves
  <2>2. \A p \in Handlers : Planned(confirming'[p], orders', cleared')
    BY <1>7, <1>8, <2>1
  <2> QED
    BY <2>2 DEF Planned, Wrote, OrdersBy
<1>10. ByInv'
  <2>1. \A p \in Handlers : Confirms(confirming'[p]) =>
          Confirms(confirming[p]) /\ confirming'[p].by = confirming[p].by
    BY <1>2, <1>4 DEF Moves, Confirms, s
  <2> QED
    BY <1>2, <1>3, <2>1 DEF SuccessInv, ByInv, Confirms
<1>11. IsFiniteSet(orders')
  BY <1>2, FS_AddElement DEF SuccessInv
<1>12. SuccessIsComplete'
  <2>1. ASSUME NEW c \in succeeded
        PROVE  OrdersBy(c.by, orders') = OrdersBy(c.by, orders)
    BY <1>2, <1>3 DEF OrdersBy
  <2> QED
    BY <1>2, <2>1, SuccessUnfolds DEF SuccessInv
<1> QED
  BY <1>2, <1>9, <1>10, <1>11, <1>12 DEF SuccessInv


\* All suppliers of the plan have an order, so the confirmation has what it needs.
LEMMA SucceedSuccess ==
  ASSUME SuccessInv, NEW q \in Handlers, Succeed(q)
  PROVE  SuccessInv'
<1> DEFINE s == confirming[q]
           c == [by |-> s.by, need |-> s.need]
<1>1. /\ s.op = "order" /\ Left(s) = {} /\ succeeded' = succeeded \union {c}
      /\ UNCHANGED <<orders, begun, cleared>>
  BY DEF Succeed
<1>2. PICK r : r.op \in {"bind", "idle"} /\ RequestInv' /\ Moves(q, r)
  BY QuietOutcome DEF SuccessInv
<1>3. /\ s.need \in [Materials -> Nat]
      /\ \A m \in Materials : s.need[m] > 0 => s.plan[m] # None
      /\ cleared = {} => Wrote(s, orders)
      /\ s.by \in Nat /\ s.by <= begun
      /\ \A p \in Handlers \ {q} : Confirms(confirming[p]) => confirming[p].by # s.by
      /\ IsFiniteSet(orders)
  BY <1>1 DEF SuccessInv, Planned, ByInv, Confirms
<1>4. c.by = s.by /\ c.need = s.need
  OBVIOUS
<1>5. cleared # {} \/ Complete(s.need, OrdersBy(s.by, orders))
  <2> HIDE DEF s
  <2> QED
    BY <1>1, <1>3, OrderedInFull
<1> HIDE DEF s, c
<1>6. SuccessIsComplete'
  BY <1>1, <1>4, <1>5, SuccessUnfolds DEF SuccessInv
<1>7. \A p \in Handlers : Confirms(confirming'[p]) => p # q /\ confirming'[p] = confirming[p]
  BY <1>2 DEF Moves, Confirms
<1>8. ByInv'
  BY <1>1, <1>3, <1>4, <1>7 DEF SuccessInv, ByInv
<1>9. \A p \in Handlers : Planned(confirming'[p], orders', cleared')
  <2> TAKE p \in Handlers
  <2>1. Planned(confirming'[p], orders, cleared)
    BY <1>2 DEF SuccessInv, Moves, Planned
  <2> QED
    BY <1>1, <2>1
<1>10. (\A p \in Handlers : Planned(confirming[p], orders, cleared))'
  BY <1>9 DEF Planned, Wrote, OrdersBy
<1> QED
  BY <1>1, <1>2, <1>3, <1>6, <1>8, <1>10 DEF SuccessInv

\* Once an order has been deleted the rest says nothing.
LEMMA DeleteOrderSuccess ==
  ASSUME SuccessInv, NEW o \in orders, DeleteOrder(o)
  PROVE  SuccessInv'
<1>1. /\ orders' = orders \ {o} /\ cleared' # {}
      /\ UNCHANGED <<confirming, begun, succeeded>>
  BY DEF DeleteOrder
<1>2. RequestInv' /\ ByInv'
  BY <1>1 DEF SuccessInv, RequestInv, Fields, ByInv, Confirms
<1>3. IsFiniteSet(orders') /\ SuccessIsComplete'
  BY <1>1, FS_Subset, SuccessUnfolds DEF SuccessInv
<1>4. (\A p \in Handlers : Planned(confirming[p], orders, cleared))'
  BY <1>1 DEF SuccessInv, Planned
<1> QED
  BY <1>2, <1>3, <1>4 DEF SuccessInv

\* Every step keeps what a confirmation has ordered, and has to order, explained.
LEMMA SuccessStep ==
  SuccessInv /\ [OrderingNext]_orderingVars => SuccessInv'
<1> SUFFICES ASSUME SuccessInv, [OrderingNext]_orderingVars
             PROVE  SuccessInv'
  OBVIOUS
<1>1. ASSUME NEW q \in Handlers, ~ Succeed(q),
             \/ \E row \in Forms : BeginBind(q, row)
             \/ \E i \in RelIds, row \in Forms :
                  BeginUpdateRel(q, i, row.price, row.preferred)
             \/ CommitBind(q) \/ GiveUp(q)
      PROVE  SuccessInv'
  <2>1. PICK r : /\ r.op \in {"bind", "idle"} /\ RequestInv' /\ Moves(q, r)
                 /\ UNCHANGED <<orders, begun, cleared>>
                 /\ ~ Succeed(q) => UNCHANGED succeeded
    BY <1>1, QuietOutcome DEF SuccessInv
  <2>2. Planned(r, orders, cleared) /\ ~ Confirms(r)
    BY <2>1 DEF Planned, Confirms
  <2> QED
    BY <1>1, <2>1, <2>2, MoveSuccess
<1>2. ASSUME UNCHANGED <<orders, confirming, cleared, begun, succeeded>>
      PROVE  SuccessInv'
  <2>1. RequestInv' /\ ByInv' /\ IsFiniteSet(orders')
    BY <1>2 DEF SuccessInv, RequestInv, Fields, ByInv, Confirms
  <2>2. SuccessIsComplete'
    BY <1>2, SuccessUnfolds DEF SuccessInv
  <2>3. (\A p \in Handlers : Planned(confirming[p], orders, cleared))'
    BY <1>2 DEF SuccessInv, Planned, Wrote, OrdersBy
  <2> QED
    BY <2>1, <2>2, <2>3 DEF SuccessInv
<1>3. ASSUME \/ \E x \in Suppliers : SetAudit(x)
             \/ \E i \in RelIds : Unbind(i)
             \/ UNCHANGED orderingVars
      PROVE  SuccessInv'
  BY <1>2, <1>3 DEF SetAudit, Unbind, orderingVars, history
<1> QED
  BY <1>1, <1>3, BeginConfirmSuccess, ResolveNextSuccess, ResolvedSuccess, CreateNextSuccess,
     SucceedSuccess, DeleteOrderSuccess DEF OrderingNext

\* A confirmation that succeeded has ordered what was needed of each material, from one
\* supplier, whoever else confirmed, bound suppliers or failed meanwhile.
THEOREM SucceededIsComplete == OrderingSpec => []SuccessIsComplete
<1>1. OrderingInit => SuccessInv
  <2> SUFFICES ASSUME OrderingInit PROVE SuccessInv
    OBVIOUS
  <2>1. orders = {} /\ succeeded = {} /\ begun = 0
        /\ confirming = [q \in Handlers |-> NoWork] /\ NoWork.op = "idle"
    BY DEF OrderingInit, NoWork
  <2>2. IsFiniteSet(orders)
    BY <2>1, FS_EmptySet
  <2> QED
    BY <2>1, <2>2, SuccessUnfolds DEF SuccessInv, RequestInv, Fields, ByInv, Confirms, Planned
<1>2. SuccessInv => SuccessIsComplete
  BY DEF SuccessInv
<1> QED
  BY <1>1, <1>2, SuccessStep, PTL DEF OrderingSpec
=============================================================================
