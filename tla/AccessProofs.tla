----------------------------- MODULE AccessProofs -----------------------------
(***************************************************************************)
(* Theorems about Access, and with it Startup, for any accounts, keys,     *)
(* concurrent requests and crashes, in three parts:                        *)
(*                                                                         *)
(*   1. the start: what the statements of SeedRBAC, MigrateRoles and the   *)
(*      Ensure functions preserve, a crash between any two of them         *)
(*      included, and that a migration which is not cut short loses no     *)
(*      assignment;                                                        *)
(*   2. the permission cache is the tables;                                *)
(*   3. what was acknowledged of an account or a key is what is stored.    *)
(***************************************************************************)
EXTENDS Access, FiniteSetTheorems, TLAPS

DbRecords ==
  [tenants : SUBSET {"demo", "platform"}, roles : SUBSET (NewRoles \union Legacy),
   modules : SUBSET Modules, perms : SUBSET Perms,
   matrix : SUBSET ((NewRoles \union Legacy \union {NoRole}) \X Perms),
   assigned : SUBSET (Users \X (NewRoles \union Legacy)), adopted : BOOLEAN]

\* The order of the statements: what an earlier one has done when a later one runs.
OrderInv ==
  /\ at \notin {"start", "down", "failed"} => db.tenants # {}
  /\ at \in CatalogSteps => catalog \in DOMAIN Catalogs
  /\ at \in {"newMatrix", "remap"} => db.roles = NewRoles
  /\ at \in CatalogSteps \union {"refresh", "serving"} => db.roles \intersect Legacy = {}

\* Where the assignments that have to survive are: in the table under the legacy roles,
\* then in memory, then in the table again.
OwedInv ==
  /\ db.tenants = {} \/ at \in SeedSteps => owed = {}
  /\ at = "wipeAssigned" => captured = db.assigned /\ db.roles \intersect Legacy # {}
  /\ "migrate" \notin torn =>
       /\ at \in MigrateSteps => owed \subseteq SuccessorsOf(captured)
       /\ at \notin MigrateSteps /\ db.roles \intersect Legacy # {} =>
            owed \subseteq SuccessorsOf(db.assigned)
       /\ at \notin MigrateSteps /\ db.roles \intersect Legacy = {} =>
            owed \subseteq db.assigned

StartupInv == StartupTypeOK /\ OrderInv /\ OwedInv

-----------------------------------------------------------------------------
(* 1. The start *)

\* The four catalogs name modules, permissions and grants that exist.
LEMMA CatalogFacts ==
  /\ DOMAIN Catalogs = 1..4 /\ Cardinality(DOMAIN Catalogs) = 4
  /\ \A i \in DOMAIN Catalogs :
       /\ Catalogs[i].module \in Modules
       /\ Catalogs[i].perms \subseteq Perms
       /\ Catalogs[i].grants \subseteq NewRoles \X Perms
  <1>1. DOMAIN Catalogs = 1..4
    BY DEF Catalogs
  <1>2. Cardinality(DOMAIN Catalogs) = 4
    <2>1. \A a, b \in Int : Cardinality(a..b) = IF a > b THEN 0 ELSE b - a + 1
      BY FS_Interval
    <2>2. 1 \in Int /\ 4 \in Int
      OBVIOUS
    <2>3. Cardinality(1..4) = IF 1 > 4 THEN 0 ELSE 4 - 1 + 1
      BY <2>1, <2>2, Zenon
    <2> QED
      BY <1>1, <2>3
  <1>3. \A i \in DOMAIN Catalogs : Catalogs[i].module \in Modules /\ Catalogs[i].perms \subseteq Perms
    BY DEF Perms, Modules
  <1>4. \A i \in 1..4 : i = 1 \/ i = 2 \/ i = 3 \/ i = 4
    OBVIOUS
  <1>5. /\ Catalogs[1] = RNDCatalog /\ Catalogs[2] = AuditCatalog
        /\ Catalogs[3] = ApprovalCatalog /\ Catalogs[4] = LogisticsCatalog
    BY DEF Catalogs
  <1>6. \A i \in DOMAIN Catalogs : Catalogs[i].grants \subseteq NewRoles \X Catalogs[i].perms
    BY <1>1, <1>4, <1>5
    DEF RNDCatalog, AuditCatalog, ApprovalCatalog, LogisticsCatalog, Everyone, NewRoles, Admin
  <1> QED
    BY <1>1, <1>2, <1>3, <1>6

\* The constants of the seed are rows of the tables.
LEMMA SeedFacts ==
  /\ BaseModules \subseteq Modules /\ BasePerms \subseteq Perms
  /\ BaseGrants \subseteq NewRoles \X BasePerms
  /\ Admin \in NewRoles
  /\ NewRoles \intersect Legacy = {}
  /\ \A r \in DOMAIN Successor : Successor[r] \in NewRoles
  BY DEF BaseModules, Modules, BasePerms, Perms, BaseGrants, NewRoles, Admin, Legacy, Successor

\* The successors of the roles accounts hold are new roles of these accounts, and more
\* roles held have more successors.
LEMMA SuccessorFacts ==
  ASSUME NEW held, held \subseteq Users \X (NewRoles \union Legacy)
  PROVE  /\ SuccessorsOf(held) \subseteq Users \X NewRoles
         /\ \A more : held \subseteq more => SuccessorsOf(held) \subseteq SuccessorsOf(more)
  BY SeedFacts DEF SuccessorsOf

\* Both databases a first start may meet, an empty and a legacy one, satisfy the
\* invariant.
LEMMA InitStartup == StartupInit => StartupInv
  <1> SUFFICES ASSUME StartupInit PROVE StartupInv
    OBVIOUS
  <1>1. db \in DbRecords
    <2>1. FreshDb \in DbRecords
      BY DEF FreshDb, DbRecords
    <2>2. ASSUME NEW held \in SUBSET (Accounts \X (Legacy \union {Admin}))
          PROVE  LegacyDb(held) \in DbRecords
      <3>1. held \subseteq Users \X (NewRoles \union Legacy)
        BY SeedFacts DEF Users
      <3>2. <<"committee", "po:approve">> \in (NewRoles \union Legacy \union {NoRole}) \X Perms
        BY SeedFacts DEF BasePerms, Legacy
      <3>3. Legacy \union {Admin} \subseteq NewRoles \union Legacy
        BY SeedFacts
      <3> QED
        BY <3>1, <3>2, <3>3, SeedFacts DEF LegacyDb, DbRecords
    <2> QED
      BY <2>1, <2>2 DEF StartupInit
  <1>2. at = "start" /\ catalog = 0 /\ captured = {} /\ crashes = 0 /\ torn = {} /\ owed = {}
    BY DEF StartupInit
  <1>3. StartupTypeOK
    BY <1>1, <1>2, CatalogFacts, StartupAssumption DEF DbRecords, StartupTypeOK, Steps
  <1>4. OrderInv /\ OwedInv
    BY <1>2 DEF OrderInv, OwedInv, CatalogSteps, SeedSteps, MigrateSteps
  <1> QED
    BY <1>3, <1>4 DEF StartupInv

\* No statement of SeedRBAC breaks the start-up invariant.
LEMMA SeedStep ==
  ASSUME StartupInv, SeedRBAC
  PROVE  StartupInv'
  <1> USE DEF StartupInv
  <1>0. db \in DbRecords
    BY DEF StartupTypeOK, DbRecords
  <1>1. UNCHANGED <<catalog, captured, crashes, torn, owed>> /\ at \in SeedSteps \union {"start"}
    BY DEF SeedRBAC, SeedDemo, SeedPlatform, SeedRoles, SeedModules, SeedPerms,
           SeedMatrix, SeedAdmins, SeedAdopt, Step, Loop, SeedSteps
  <1>2. /\ db' \in DbRecords
        /\ at' \in SeedSteps \union {"legacy"}
        /\ at = "start" /\ db.tenants # {} => db' = db /\ at' = "legacy"
        /\ at = "start" /\ db.tenants = {} => at' \in SeedSteps
        /\ db'.tenants # {}
    <2>1. CASE SeedDemo
      BY <1>0, <2>1 DEF SeedDemo, Step, DbRecords, SeedSteps
    <2>2. at \in SeedSteps => db.tenants # {} /\ at # "start"
      BY DEF OrderInv, SeedSteps
    <2>3. CASE SeedPlatform
      BY <1>0, <2>2, <2>3 DEF SeedPlatform, Step, DbRecords, SeedSteps
    <2>4. CASE SeedRoles
      BY <1>0, <2>2, <2>4 DEF SeedRoles, Step, DbRecords, SeedSteps
    <2>5. CASE SeedModules
      BY <1>0, <2>2, <2>5, SeedFacts DEF SeedModules, Step, DbRecords, SeedSteps
    <2>6. CASE SeedPerms
      BY <1>0, <2>2, <2>6, SeedFacts DEF SeedPerms, Step, DbRecords, SeedSteps
    <2>7. CASE SeedMatrix
      BY <1>0, <2>2, <2>7, SeedFacts DEF SeedMatrix, Loop, Granted, DbRecords, SeedSteps
    <2>8. CASE SeedAdmins
      BY <1>0, <2>2, <2>8, SeedFacts DEF SeedAdmins, Loop, Assigned, DbRecords, SeedSteps, Users
    <2>9. CASE SeedAdopt
      BY <1>0, <2>2, <2>9 DEF SeedAdopt, Step, DbRecords, SeedSteps
    <2> QED
      BY <2>1, <2>3, <2>4, <2>5, <2>6, <2>7, <2>8, <2>9 DEF SeedRBAC
  <1>3. StartupTypeOK'
    BY <1>1, <1>2 DEF StartupTypeOK, DbRecords, SeedSteps, Steps
  <1>4. OrderInv'
    BY <1>2 DEF OrderInv, SeedSteps, CatalogSteps
  <1>5. OwedInv'
    BY <1>1, <1>2 DEF OwedInv, SeedSteps, MigrateSteps
  <1> QED
    BY <1>3, <1>4, <1>5

\* No statement of MigrateRoles does: what it deletes it has captured.
LEMMA MigrateStep ==
  ASSUME StartupInv, MigrateRoles
  PROVE  StartupInv'
  <1> USE DEF StartupInv
  <1>0. db \in DbRecords
    BY DEF StartupTypeOK, DbRecords
  <1>1. CASE FindLegacy
    <2>1. at = "legacy" /\ UNCHANGED <<db, crashes, torn>> /\ db.tenants # {}
      BY <1>1 DEF FindLegacy, OrderInv
    <2>2. CASE db.roles \intersect Legacy = {}
      <3>1. at' = "module" /\ catalog' = 1 /\ UNCHANGED <<captured, owed>>
        BY <1>1, <2>2 DEF FindLegacy
      <3>2. StartupTypeOK'
        BY <2>1, <3>1, CatalogFacts DEF StartupTypeOK, Steps, CatalogSteps
      <3>3. OrderInv' /\ OwedInv'
        BY <2>1, <2>2, <3>1, CatalogFacts
        DEF OrderInv, OwedInv, CatalogSteps, SeedSteps, MigrateSteps
      <3> QED
        BY <3>2, <3>3
    <2>3. CASE db.roles \intersect Legacy # {}
      <3>1. /\ at' = "wipeAssigned" /\ captured' = db.assigned /\ catalog' = catalog
            /\ owed' = owed \union SuccessorsOf(db.assigned)
        BY <1>1, <2>3 DEF FindLegacy, CaptureAssigned
      <3>2. db.assigned \subseteq Users \X (NewRoles \union Legacy)
        BY <1>0 DEF DbRecords
      <3>3. SuccessorsOf(db.assigned) \subseteq Users \X NewRoles
        BY <3>2, SuccessorFacts
      <3>4. StartupTypeOK'
        BY <2>1, <3>1, <3>2, <3>3 DEF StartupTypeOK, Steps
      <3>5. OrderInv'
        BY <2>1, <3>1 DEF OrderInv, CatalogSteps
      <3>6. OwedInv'
        BY <2>1, <2>3, <3>1 DEF OwedInv, SeedSteps, MigrateSteps
      <3> QED
        BY <3>4, <3>5, <3>6
    <2> QED
      BY <2>2, <2>3
  <1>2. CASE WipeAssigned
    <2>1. /\ at = "wipeAssigned" /\ at' = "wipeMatrix"
          /\ db' = [db EXCEPT !.assigned = {}]
          /\ UNCHANGED <<catalog, captured, crashes, torn, owed>>
      BY <1>2 DEF WipeAssigned, Step
    <2>2. db' \in DbRecords /\ db'.tenants = db.tenants /\ db'.roles = db.roles
      BY <1>0, <2>1 DEF DbRecords
    <2>3. StartupTypeOK'
      BY <2>1, <2>2 DEF StartupTypeOK, DbRecords, Steps, MigrateSteps
    <2>4. OrderInv' /\ OwedInv'
      BY <2>1, <2>2 DEF OrderInv, OwedInv, CatalogSteps, SeedSteps, MigrateSteps
    <2> QED
      BY <2>3, <2>4
  <1>3. CASE WipeMatrix \/ WipeRoles \/ SeedNewRoles \/ SeedNewMatrix
    <2>1. /\ at \in MigrateSteps /\ at' \in MigrateSteps
          /\ UNCHANGED <<catalog, captured, crashes, torn, owed>>
      BY <1>3 DEF WipeMatrix, WipeRoles, SeedNewRoles, SeedNewMatrix, Step, Loop, MigrateSteps
    <2>2. /\ db' \in DbRecords /\ db'.tenants = db.tenants
          /\ at' \in {"newMatrix", "remap"} => db'.roles = NewRoles
      <3>1. CASE WipeMatrix
        BY <1>0, <3>1 DEF WipeMatrix, Step, DbRecords
      <3>2. CASE WipeRoles
        BY <1>0, <3>2 DEF WipeRoles, Step, DbRecords
      <3>3. CASE SeedNewRoles
        BY <1>0, <3>3 DEF SeedNewRoles, Step, DbRecords
      <3>4. CASE SeedNewMatrix
        <4>1. at = "newMatrix" /\ db.roles = NewRoles
          BY <3>4 DEF SeedNewMatrix, Loop, OrderInv
        <4>2. db' = db \/ \E g \in NewRoles \X Perms : db' = Granted(g)
          <5>1. /\ {Admin} \X db.perms \subseteq NewRoles \X Perms
                /\ BaseGrants \subseteq NewRoles \X Perms
            BY <1>0, SeedFacts DEF DbRecords
          <5> QED
            BY <3>4, <5>1 DEF SeedNewMatrix, Loop
        <4> QED
          BY <1>0, <4>1, <4>2 DEF Granted, DbRecords
      <3> QED
        BY <1>3, <3>1, <3>2, <3>3, <3>4
    <2>3. StartupTypeOK'
      BY <2>1, <2>2 DEF StartupTypeOK, DbRecords, Steps
    <2>4. db.tenants # {}
      BY <2>1 DEF OrderInv, MigrateSteps
    <2>5. OrderInv'
      BY <2>1, <2>2, <2>4 DEF OrderInv, CatalogSteps, MigrateSteps
    <2>6. OwedInv'
      BY <2>1, <2>2, <2>4 DEF OwedInv, SeedSteps, MigrateSteps
    <2> QED
      BY <2>3, <2>5, <2>6
  <1>4. CASE Remap
    <2>1. /\ at = "remap" /\ UNCHANGED <<captured, crashes, torn, owed>>
          /\ db.tenants # {} /\ db.roles \intersect Legacy = {} /\ db.roles = NewRoles
      BY <1>4, SeedFacts DEF Remap, OrderInv
    <2>2. CASE SuccessorsOf(captured) \subseteq db.assigned
      <3>1. at' = "module" /\ catalog' = 1 /\ db' = db
        BY <1>4, <2>2 DEF Remap
      <3>2. StartupTypeOK'
        BY <2>1, <3>1, CatalogFacts DEF StartupTypeOK, Steps, CatalogSteps
      <3>3. OrderInv' /\ OwedInv'
        BY <2>1, <2>2, <3>1, CatalogFacts
        DEF OrderInv, OwedInv, CatalogSteps, SeedSteps, MigrateSteps
      <3> QED
        BY <3>2, <3>3
    <2>3. CASE ~(SuccessorsOf(captured) \subseteq db.assigned)
      <3>1. PICK a \in SuccessorsOf(captured) : db' = Assigned(a) /\ UNCHANGED <<at, catalog>>
        BY <1>4, <2>3 DEF Remap
      <3>2. a \in Users \X NewRoles
        BY SuccessorFacts DEF StartupTypeOK
      <3>3. db' \in DbRecords /\ db'.tenants = db.tenants /\ db'.roles = db.roles
        BY <1>0, <3>1, <3>2 DEF Assigned, DbRecords
      <3>4. StartupTypeOK'
        BY <2>1, <3>1, <3>3 DEF StartupTypeOK, DbRecords
      <3>5. OrderInv' /\ OwedInv'
        BY <2>1, <3>1, <3>3 DEF OrderInv, OwedInv, CatalogSteps, SeedSteps, MigrateSteps
      <3> QED
        BY <3>4, <3>5
    <2> QED
      BY <2>2, <2>3
  <1> QED
    BY <1>1, <1>2, <1>3, <1>4 DEF MigrateRoles

\* The Ensure functions add modules, permissions and grants only.
LEMMA EnsureOutcome ==
  ASSUME StartupInv, EnsureCatalog
  PROVE  /\ at \in CatalogSteps /\ at' \in CatalogSteps \union {"refresh", "failed"}
         /\ at' \in CatalogSteps => catalog' \in DOMAIN Catalogs
         /\ catalog' \in 0..4
         /\ UNCHANGED <<captured, crashes, torn, owed>>
         /\ db' \in DbRecords
         /\ db'.tenants = db.tenants /\ db'.roles = db.roles /\ db'.assigned = db.assigned
  <1> USE DEF StartupInv
  <1>0. db \in DbRecords
    BY DEF StartupTypeOK, DbRecords
  <1>1. at \in CatalogSteps /\ UNCHANGED <<captured, crashes, torn, owed>>
    BY DEF EnsureCatalog, EnsureModule, EnsurePerms, EnsureGrants, Step, Loop, CatalogSteps
  <1>2. /\ catalog \in 1..4 /\ catalog \in DOMAIN Catalogs
        /\ DOMAIN Catalogs = 1..4 /\ Cardinality(DOMAIN Catalogs) = 4
    BY <1>1, CatalogFacts DEF OrderInv
  <1> DEFINE c == Catalogs[catalog]
  <1>3. c.module \in Modules /\ c.perms \subseteq Perms /\ c.grants \subseteq NewRoles \X Perms
    BY <1>2, CatalogFacts
  <1>4. CASE EnsureModule
    <2>1. catalog' = catalog /\ at' \in {"perm", "failed"}
      BY <1>4 DEF EnsureModule, Step
    <2>2. db' = db \/ db' = [db EXCEPT !.modules = @ \union {c.module}]
      BY <1>4 DEF EnsureModule, Step
    <2>3. /\ db' \in DbRecords
          /\ db'.tenants = db.tenants /\ db'.roles = db.roles /\ db'.assigned = db.assigned
      BY <1>0, <1>3, <2>2 DEF DbRecords
    <2> QED
      BY <1>1, <1>2, <2>1, <2>3 DEF CatalogSteps
  <1>5. CASE EnsurePerms
    <2>1. catalog' = catalog /\ at' \in {"perm", "grant"}
      BY <1>5 DEF EnsurePerms, Loop
    <2>2. db' = db \/ \E p \in c.perms : db' = [db EXCEPT !.perms = @ \union {p}]
      BY <1>5 DEF EnsurePerms, Loop
    <2>3. /\ db' \in DbRecords
          /\ db'.tenants = db.tenants /\ db'.roles = db.roles /\ db'.assigned = db.assigned
      BY <1>0, <1>3, <2>2 DEF DbRecords
    <2> QED
      BY <1>1, <1>2, <2>1, <2>3 DEF CatalogSteps
  <1>6. CASE EnsureGrants
    <2>1. /\ at' \in {"grant", "module", "refresh"}
          /\ at' \in CatalogSteps => catalog' \in DOMAIN Catalogs
          /\ catalog' \in 0..4
      <3>1. at = "grant"
        BY <1>6 DEF EnsureGrants
      <3> QED
        BY <1>2, <1>6, <3>1 DEF EnsureGrants, CatalogSteps
    <2>2. db' = db \/ \E g \in Wanted(c) : db' = Granted(g)
      BY <1>6 DEF EnsureGrants
    <2>3. Wanted(c) \subseteq (NewRoles \union {NoRole}) \X Perms
      <3>1. ASSUME NEW g \in c.grants PROVE Row(g) \in (NewRoles \union {NoRole}) \X Perms
        BY <1>3, <3>1 DEF Row
      <3> QED
        BY <3>1 DEF Wanted
    <2>4. /\ db' \in DbRecords
          /\ db'.tenants = db.tenants /\ db'.roles = db.roles /\ db'.assigned = db.assigned
      BY <1>0, <2>2, <2>3 DEF Granted, DbRecords
    <2> QED
      BY <1>1, <2>1, <2>4 DEF CatalogSteps
  <1> QED
    BY <1>4, <1>5, <1>6 DEF EnsureCatalog

\* No statement of the Ensure functions does: they add rows and grants only.
LEMMA EnsureStep ==
  ASSUME StartupInv, EnsureCatalog
  PROVE  StartupInv'
  <1> USE DEF StartupInv
  <1>1. /\ at \in CatalogSteps /\ at' \in CatalogSteps \union {"refresh", "failed"}
        /\ at' \in CatalogSteps => catalog' \in DOMAIN Catalogs
        /\ catalog' \in 0..4
        /\ UNCHANGED <<captured, crashes, torn, owed>>
        /\ db' \in DbRecords
        /\ db'.tenants = db.tenants /\ db'.roles = db.roles /\ db'.assigned = db.assigned
    BY EnsureOutcome
  <1>2. StartupTypeOK'
    BY <1>1, CatalogFacts DEF StartupTypeOK, DbRecords, Steps
  <1>3. db.tenants # {} /\ db.roles \intersect Legacy = {}
    BY <1>1 DEF OrderInv, CatalogSteps
  <1>4. OrderInv'
    BY <1>1, <1>3 DEF OrderInv, CatalogSteps
  <1>5. OwedInv'
    BY <1>1, <1>3 DEF OwedInv, CatalogSteps, SeedSteps, MigrateSteps
  <1> QED
    BY <1>2, <1>4, <1>5

\* Serving, dying and starting again touch no table.
LEMMA ProcessStep ==
  ASSUME StartupInv, Serve \/ Restart \/ Crash
  PROVE  StartupInv'
  <1> USE DEF StartupInv
  <1>1. db' = db /\ owed' = owed
    BY DEF Serve, Step, Restart, Crash
  <1>2. CASE Serve
    <2>1. at = "refresh" /\ at' = "serving" /\ UNCHANGED <<catalog, captured, crashes, torn>>
      BY <1>2 DEF Serve, Step
    <2>2. StartupTypeOK'
      BY <1>1, <2>1 DEF StartupTypeOK, Steps
    <2> QED
      BY <1>1, <2>1, <2>2 DEF OrderInv, OwedInv, CatalogSteps, SeedSteps, MigrateSteps
  <1>3. CASE Restart
    <2>1. /\ at \in {"down", "failed"} /\ at' = "start"
          /\ catalog' = 0 /\ captured' = {} /\ UNCHANGED <<crashes, torn>>
      BY <1>3 DEF Restart
    <2>2. StartupTypeOK'
      BY <1>1, <2>1, CatalogFacts DEF StartupTypeOK, Steps
    <2> QED
      BY <1>1, <2>1, <2>2 DEF OrderInv, OwedInv, CatalogSteps, SeedSteps, MigrateSteps
  <1>4. CASE Crash
    <2>1. /\ at' = "down" /\ UNCHANGED <<catalog, captured>>
          /\ crashes' = crashes + 1 /\ crashes < MaxCrashes
          /\ torn \subseteq torn' /\ torn' \subseteq torn \union {"seed", "migrate"}
          /\ at \in MigrateSteps => "migrate" \in torn'
      BY <1>4 DEF Crash
    <2>2. StartupTypeOK'
      BY <1>1, <2>1, StartupAssumption DEF StartupTypeOK, Steps
    <2>3. OrderInv'
      BY <1>1, <2>1 DEF OrderInv, CatalogSteps
    <2>4. OwedInv'
      BY <1>1, <2>1 DEF OwedInv, SeedSteps, MigrateSteps
    <2> QED
      BY <2>2, <2>3, <2>4
  <1> QED
    BY <1>2, <1>3, <1>4

-----------------------------------------------------------------------------
(* A running server.  A request is open only while the server serves, which *)
(* is after the start has done all of its work on the roles.                *)

OpenInv == \A q \in Requests : Open(q) => at = "serving"

AccessInv == TypeOK /\ OrderInv /\ OwedInv /\ OpenInv

\* The columns of the access tables, the cache and the requests are well typed.
AccessTypes ==
  /\ cache \subseteq NewRoles \X Perms
  /\ account \in [Accounts -> AccountRow \union {Absent}]
  /\ key \in [Keys -> KeyRow \union {Absent}]
  /\ request \in [Requests -> RequestRecords]
  /\ begun \in 0..MaxRequests
  /\ disturbed \in BOOLEAN
  /\ word \in [Accounts \union Keys -> Words]
  /\ muddled \subseteq Accounts \union Keys

\* The type invariant, split into what start-up owns and what requests own.
LEMMA TypeParts ==
  /\ TypeOK <=> StartupTypeOK /\ AccessTypes
  /\ AccessInv <=> StartupInv /\ AccessTypes /\ OpenInv
  BY DEF TypeOK, AccessTypes, AccessInv, StartupInv

\* What a request in flight holds.
LEMMA RequestFacts ==
  ASSUME AccessInv, NEW q \in Requests, request[q] # Idle
  PROVE  /\ at = "serving"
         /\ request[q].op \in {"load", "store", "create", "user", "password", "assign", "key"}
         /\ request[q].op = "store" => request[q].loaded \subseteq NewRoles \X Perms
         /\ request[q].op \in {"create", "user", "password", "assign"} =>
              /\ request[q] \in AccountRequests
              /\ request[q].on \in Accounts
              /\ request[q].row \in AccountRow /\ request[q].said \in AccountRow
              /\ Heeds(request[q].row, request[q].said)
              /\ request[q].roles \subseteq NewRoles
              /\ On(q) = {request[q].on}
         /\ request[q].op = "key" =>
              /\ request[q].on \in Keys /\ request[q].row \in KeyRow
              /\ On(q) = {request[q].on}
         /\ request[q].op \in {"load", "store"} => On(q) = {}
  <1>1. request[q] \in RequestRecords \ {Idle}
    BY DEF AccessInv, TypeOK
  <1>2. at = "serving"
    BY DEF AccessInv, OpenInv, Open
  <1> QED
    BY <1>1, <1>2 DEF RequestRecords, AccountRequests, On

\* A request on an account that goes on to the roles is the same but for that.
LEMMA AssignsNext ==
  ASSUME NEW r \in AccountRequests
  PROVE  /\ r.on \in Accounts /\ r.row \in AccountRow /\ r.said \in AccountRow
         /\ Heeds(r.row, r.said) /\ r.roles \subseteq NewRoles
         /\ [r EXCEPT !.op = "assign"] \in RequestRecords
         /\ [r EXCEPT !.op = "assign"].op = "assign"
         /\ [r EXCEPT !.op = "assign"].on = r.on
         /\ [r EXCEPT !.op = "assign"].row = r.row
  <1>1. [r EXCEPT !.op = "assign"] \in AccountRequests
    BY DEF AccountRequests
  <1> QED
    BY <1>1 DEF AccountRequests, RequestRecords

\* What a request in flight is on is an account or a key, and an idle one is on nothing.
LEMMA OnFacts ==
  ASSUME AccessInv, NEW q \in Requests
  PROVE  /\ On(q) \subseteq Accounts \union Keys
         /\ request[q].op = "idle" => request[q] = Idle
         /\ request[q] = Idle => On(q) = {}
  <1>1. request[q] = Idle => On(q) = {} /\ request[q].op = "idle"
    BY DEF On, Idle
  <1> QED
    BY <1>1, RequestFacts

\* What the server reads of the role tables while it serves.
LEMMA ViewTyped ==
  ASSUME StartupInv, at \in {"refresh", "serving"}
  PROVE  View \subseteq NewRoles \X Perms
  <1>1. /\ db.matrix \subseteq (NewRoles \union Legacy \union {NoRole}) \X Perms
        /\ db.roles \subseteq NewRoles
    BY DEF StartupInv, StartupTypeOK, OrderInv
  <1> QED
    BY <1>1 DEF View

\* The words on an account or key after a request.
LEMMA SaysTyped ==
  ASSUME AccessTypes, NEW q, NEW x \in Accounts \union Keys, NEW w \in Words, Says(q, x, w)
  PROVE  /\ word' \in [Accounts \union Keys -> Words]
         /\ muddled' \subseteq Accounts \union Keys
  BY DEF AccessTypes, Says, Words

\* An overlap or a failure marks only what it is on.
LEMMA MuddlesTyped ==
  ASSUME AccessTypes, NEW xs \in SUBSET (Accounts \union Keys), Muddles(xs)
  PROVE  /\ word' \in [Accounts \union Keys -> Words]
         /\ muddled' \subseteq Accounts \union Keys
  BY DEF AccessTypes, Muddles, Words

\* A request moves by its own goroutine's record, and only while the server serves.
LEMMA BeginsOutcome ==
  ASSUME AccessInv, NEW q \in Requests, NEW r \in RequestRecords, Begins(q, r)
  PROVE  /\ at = "serving" /\ request[q] = Idle
         /\ request' \in [Requests -> RequestRecords]
         /\ request'[q] = r /\ \A p \in Requests \ {q} : request'[p] = request[p]
         /\ begun' \in 0..MaxRequests
  <1>1. begun \in Nat /\ begun < MaxRequests /\ begun' = begun + 1
    BY AccessAssumption DEF Begins, AccessInv, TypeOK
  <1>2. begun' \in 0..MaxRequests
    BY <1>1, AccessAssumption
  <1> QED
    BY <1>2 DEF Begins, Open, AccessInv, TypeOK

LEMMA ContinuesOutcome ==
  ASSUME AccessInv, NEW q \in Requests, NEW r \in RequestRecords, Continues(q, r)
  PROVE  /\ request' \in [Requests -> RequestRecords]
         /\ request'[q] = r /\ \A p \in Requests \ {q} : request'[p] = request[p]
         /\ begun' \in 0..MaxRequests
  BY DEF Continues, AccessInv, TypeOK

\* A request that ends leaves the other requests alone.
LEMMA EndsOutcome ==
  ASSUME AccessInv, NEW q \in Requests, Ends(q)
  PROVE  /\ request' \in [Requests -> RequestRecords]
         /\ request'[q] = Idle /\ \A p \in Requests \ {q} : request'[p] = request[p]
         /\ begun' \in 0..MaxRequests
  <1>1. Idle \in RequestRecords
    BY DEF RequestRecords
  <1> QED
    BY <1>1, ContinuesOutcome DEF Ends

-----------------------------------------------------------------------------
(* What each request's step leaves typed, and what it does to the tables. *)

\* A change of permissions, its reload of the cache included, keeps the types.
LEMMA PermissionsTyped ==
  ASSUME AccessInv, NEW q \in Requests, SetRolePermissions(q)
  PROVE  /\ AccessTypes' /\ at = "serving" /\ at' = at
         /\ \A p \in Requests \ {q} : request'[p] = request[p]
  <1> USE TypeParts
  <1>1. CASE \E e \in Edits : CommitPermissions(q, e[1], e[2])
    <2>1. /\ Begins(q, [op |-> "load"])
          /\ UNCHANGED <<at, cache, account, key, word, muddled>> /\ disturbed' \in BOOLEAN
      BY <1>1 DEF CommitPermissions
    <2>2. [op |-> "load"] \in RequestRecords
      BY DEF RequestRecords
    <2> QED
      BY <2>1, <2>2, BeginsOutcome DEF AccessTypes
  <1>2. CASE LoadMatrix(q)
    <2>1. request[q] # Idle /\ at = "serving"
      BY <1>2, RequestFacts DEF LoadMatrix, Idle
    <2>2. [op |-> "store", loaded |-> View] \in RequestRecords
      BY <2>1, ViewTyped DEF RequestRecords
    <2>3. /\ Continues(q, [op |-> "store", loaded |-> View])
          /\ UNCHANGED <<startVars, cache, account, key, disturbed, word, muddled>>
      BY <1>2 DEF LoadMatrix
    <2> QED
      BY <2>1, <2>2, <2>3, ContinuesOutcome DEF AccessTypes, startVars
  <1>3. CASE StoreCache(q)
    <2>1. request[q] # Idle /\ at = "serving" /\ request[q].loaded \subseteq NewRoles \X Perms
      BY <1>3, RequestFacts DEF StoreCache, Idle
    <2>2. /\ cache' = request[q].loaded /\ Ends(q)
          /\ UNCHANGED <<startVars, account, key, disturbed, word, muddled>>
      BY <1>3 DEF StoreCache, Reloaded
    <2> QED
      BY <2>1, <2>2, EndsOutcome DEF AccessTypes, startVars
  <1>4. CASE LoadFails(q)
    <2>1. request[q] # Idle /\ at = "serving"
      BY <1>4, RequestFacts DEF LoadFails, Idle
    <2>2. /\ disturbed' = TRUE /\ Ends(q)
          /\ UNCHANGED <<startVars, cache, account, key, word, muddled>>
      BY <1>4 DEF LoadFails
    <2> QED
      BY <2>1, <2>2, EndsOutcome DEF AccessTypes, startVars
  <1> QED
    BY <1>1, <1>2, <1>3, <1>4 DEF SetRolePermissions

\* An edit keeps the shape of the row it starts from, and is as the request said but for
\* a status of 0.
LEMMA EditedTyped ==
  ASSUME NEW row \in AccountRow, NEW ps \in SUBSET Passwords, NEW ss \in SUBSET {0, 1, 2}
  PROVE  /\ Edited(row, ps, ss) \in AccountRow /\ Said(row, ps, ss) \in AccountRow
         /\ ss = {} \/ (\E s \in {0, 1, 2} : ss = {s}) => Heeds(Edited(row, ps, ss), Said(row, ps, ss))
  <1> DEFINE p == Given(ps, row.password)
             s == Given(ss \ {0}, row.status)
             t == Given(ss, row.status)
  <1>1. p \in Passwords
    BY DEF Given, AccountRow
  <1>2. s \in {0, 1, 2} /\ t \in {0, 1, 2}
    BY DEF Given, AccountRow
  <1>3. ss = {} \/ (\E x \in {0, 1, 2} : ss = {x}) => s = t \/ t = 0
    <2>1. ASSUME NEW x \in {0, 1, 2}, ss = {x} PROVE s = t \/ t = 0
      <3>1. t = x
        BY <2>1 DEF Given
      <3>2. x # 0 => ss \ {0} = {x}
        BY <2>1
      <3> QED
        BY <3>1, <3>2 DEF Given
    <2>2. ASSUME ss = {} PROVE s = t
      BY <2>2 DEF Given
    <2> QED
      BY <2>1, <2>2
  <1>4. /\ Edited(row, ps, ss) = [row EXCEPT !.password = p, !.status = s]
        /\ Said(row, ps, ss) = [row EXCEPT !.password = p, !.status = t]
    BY DEF Edited, Said
  <1> HIDE DEF p, s, t
  <1>5. /\ Edited(row, ps, ss) \in AccountRow /\ Edited(row, ps, ss).password = p
        /\ Edited(row, ps, ss).status = s
        /\ Said(row, ps, ss) \in AccountRow /\ Said(row, ps, ss).password = p
        /\ Said(row, ps, ss).status = t
    BY <1>1, <1>2, <1>4 DEF AccountRow
  <1>6. \A r \in AccountRow : r # Absent
    BY DEF AccountRow, Absent
  <1>7. s = t => Edited(row, ps, ss) = Said(row, ps, ss)
    BY <1>4
  <1> QED
    BY <1>3, <1>5, <1>6, <1>7 DEF Heeds

\* The first half of an edit of an account reads, and writes nothing.
LEMMA BeginAccountTyped ==
  ASSUME AccessInv, NEW q \in Requests, BeginAccount(q)
  PROVE  /\ AccessTypes' /\ at = "serving" /\ UNCHANGED startVars
         /\ \A p \in Requests \ {q} : request'[p] = request[p]
         /\ request[q] = Idle /\ request'[q].op \in {"create", "user", "password"}
         /\ UNCHANGED <<cache, account, key, disturbed, word, muddled>>
  <1> USE TypeParts
  <1>1. \A a \in Accounts : account[a] # Absent => account[a] \in AccountRow
    BY DEF AccessTypes
  <1>2. \A a \in Accounts : CanLogin(a) => account[a] # Absent
    BY DEF CanLogin, Absent
  <1>3. \A rs \in GivenRoles : rs \subseteq NewRoles
    BY AccessAssumption
  <1>4. PICK r \in RequestRecords : /\ Begins(q, r)
                                    /\ r.op \in {"create", "user", "password"}
    <2>1. ASSUME NEW op \in {"create", "user", "password"}, NEW a \in Accounts,
                 NEW row \in AccountRow, NEW said \in AccountRow, Heeds(row, said),
                 NEW rs \in SUBSET NewRoles
          PROVE  [op |-> op, on |-> a, row |-> row, said |-> said, roles |-> rs]
                   \in RequestRecords
      BY <2>1 DEF RequestRecords, AccountRequests
    <2>2. PICK a \in Accounts, p \in Passwords, s \in {0, 1, 2}, rs \in GivenRoles :
            \/ s # 2 /\ BeginCreate(q, a, p, s, rs)
            \/ BeginUpdate(q, a, {p}, {}, rs)
            \/ BeginUpdate(q, a, {}, {s}, rs)
            \/ BeginUpdate(q, a, {p}, {s}, {})
            \/ BeginPassword(q, a, p)
      BY DEF BeginAccount
    <2>3. CASE s # 2 /\ BeginCreate(q, a, p, s, rs)
      <3> DEFINE row == [status |-> 1, password |-> p]
                 said == [status |-> s, password |-> p]
      <3>1. row \in AccountRow /\ said \in AccountRow
        BY DEF AccountRow
      <3>2. Heeds(row, said)
        BY <2>3 DEF Heeds, Absent
      <3>3. Begins(q, [op |-> "create", on |-> a, row |-> row, said |-> said, roles |-> rs])
        BY <2>3 DEF BeginCreate
      <3> HIDE DEF row, said
      <3> QED
        BY <1>3, <2>1, <3>1, <3>2, <3>3
    <2>4. ASSUME NEW ps \in SUBSET Passwords, NEW ss \in SUBSET {0, 1, 2},
                 ss = {} \/ (\E x \in {0, 1, 2} : ss = {x}),
                 NEW rr \in SUBSET NewRoles, BeginUpdate(q, a, ps, ss, rr)
          PROVE  \E r \in RequestRecords : Begins(q, r) /\ r.op \in {"create", "user", "password"}
      <3>1. /\ Edited(account[a], ps, ss) \in AccountRow /\ Said(account[a], ps, ss) \in AccountRow
            /\ Heeds(Edited(account[a], ps, ss), Said(account[a], ps, ss))
        BY <1>1, <2>4, EditedTyped DEF BeginUpdate
      <3> QED
        BY <2>1, <2>4, <3>1 DEF BeginUpdate
    <2>5. CASE BeginPassword(q, a, p)
      <3>1. /\ Edited(account[a], {p}, {}) \in AccountRow /\ Said(account[a], {p}, {}) \in AccountRow
            /\ Heeds(Edited(account[a], {p}, {}), Said(account[a], {p}, {}))
        BY <1>1, <1>2, <2>5, EditedTyped DEF BeginPassword
      <3> QED
        BY <2>1, <2>5, <3>1 DEF BeginPassword
    <2> QED
      <3>1. {p} \in SUBSET Passwords /\ {s} \in SUBSET {0, 1, 2} /\ rs \in SUBSET NewRoles
        BY <1>3
      <3> QED
        BY <2>2, <2>3, <2>4, <2>5, <3>1
  <1>5. UNCHANGED <<startVars, cache, account, key, disturbed, word, muddled>>
    BY DEF BeginAccount
  <1> QED
    BY <1>4, <1>5, BeginsOutcome DEF AccessTypes

\* The Save of an account writes what the request read and edited.
LEMMA SaveAccountTyped ==
  ASSUME AccessInv, NEW q \in Requests, SaveAccount(q)
  PROVE  /\ AccessTypes' /\ at = "serving" /\ UNCHANGED startVars
         /\ \A p \in Requests \ {q} : request'[p] = request[p]
  <1> USE TypeParts
  <1> DEFINE r == request[q]
  <1>1. /\ at = "serving" /\ r # Idle
        /\ r \in AccountRequests
        /\ r.on \in Accounts /\ r.row \in AccountRow /\ r.said \in AccountRow
    BY RequestFacts DEF SaveAccount, Idle
  <1>2. /\ account' = [account EXCEPT ![r.on] = r.row]
        /\ UNCHANGED <<startVars, cache, key, disturbed>>
    BY DEF SaveAccount
  <1>3. account' \in [Accounts -> AccountRow \union {Absent}]
    BY <1>1, <1>2 DEF AccessTypes
  <1>4. CASE r.roles = {}
    <2>1. Ends(q) /\ Says(q, r.on, Saying(r.said, RolesOf(r.on)))
      BY <1>4 DEF SaveAccount
    <2>2. Saying(r.said, RolesOf(r.on)) \in Words
      BY <1>1 DEF Saying, Words, RolesOf
    <2>3. word' \in [Accounts \union Keys -> Words] /\ muddled' \subseteq Accounts \union Keys
      BY <1>1, <2>1, <2>2, SaysTyped
    <2> QED
      BY <1>1, <1>2, <1>3, <2>1, <2>3, EndsOutcome DEF AccessTypes
  <1>5. CASE r.roles # {}
    <2>1. /\ Continues(q, [r EXCEPT !.op = "assign"])
          /\ Muddles({r.on}) \/ UNCHANGED <<word, muddled>>
      BY <1>5 DEF SaveAccount
    <2>2. [r EXCEPT !.op = "assign"] \in RequestRecords
      BY <1>1, AssignsNext
    <2>3. word' \in [Accounts \union Keys -> Words] /\ muddled' \subseteq Accounts \union Keys
      BY <1>1, <2>1, MuddlesTyped DEF AccessTypes
    <2> QED
      BY <1>1, <1>2, <1>3, <2>1, <2>2, <2>3, ContinuesOutcome DEF AccessTypes
  <1> QED
    BY <1>4, <1>5

\* The replacement of an account's roles, or its failure, keeps the types.
LEMMA SetRolesTyped ==
  ASSUME AccessInv, NEW q \in Requests, SetRoles(q) \/ SetRolesFails(q)
  PROVE  /\ AccessTypes' /\ at = "serving" /\ at' = at
         /\ \A p \in Requests \ {q} : request'[p] = request[p]
  <1> USE TypeParts
  <1> DEFINE r == request[q]
  <1>1. /\ at = "serving" /\ r # Idle
        /\ r.on \in Accounts /\ r.said \in AccountRow /\ r.roles \subseteq NewRoles
    BY RequestFacts DEF SetRoles, SetRolesFails, Idle
  <1>2. Ends(q) /\ UNCHANGED <<at, cache, account, key, disturbed>>
    BY DEF SetRoles, SetRolesFails, startVars
  <1>3. word' \in [Accounts \union Keys -> Words] /\ muddled' \subseteq Accounts \union Keys
    <2>1. CASE SetRoles(q)
      <3>1. Saying(r.said, r.roles \intersect db.roles) \in Words
        BY <1>1 DEF Saying, Words
      <3> QED
        BY <1>1, <2>1, <3>1, SaysTyped DEF SetRoles
    <2>2. CASE SetRolesFails(q)
      BY <1>1, <2>2, MuddlesTyped DEF SetRolesFails
    <2> QED
      BY <2>1, <2>2
  <1> QED
    BY <1>1, <1>2, <1>3, EndsOutcome DEF AccessTypes

\* The deletion of an account keeps the types.
LEMMA DeleteUserTyped ==
  ASSUME AccessInv, NEW q \in Requests, NEW a \in Accounts, DeleteUser(q, a)
  PROVE  /\ AccessTypes' /\ at = "serving" /\ UNCHANGED startVars
         /\ \A p \in Requests : request'[p] = request[p]
  <1> USE TypeParts
  <1>1. Begins(q, Idle) /\ Idle \in RequestRecords
    BY DEF DeleteUser, RequestRecords
  <1>2. Saying(Absent, RolesOf(a)) \in Words
    BY DEF Saying, Words, RolesOf
  <1>3. word' \in [Accounts \union Keys -> Words] /\ muddled' \subseteq Accounts \union Keys
    BY <1>2, SaysTyped DEF DeleteUser
  <1>4. account' \in [Accounts -> AccountRow \union {Absent}]
    BY DEF DeleteUser, AccessTypes
  <1> QED
    BY <1>1, <1>3, <1>4, BeginsOutcome DEF DeleteUser, AccessTypes

\* What a key is given are rows of the permission table, whatever its owner's session.
LEMMA KeyTyped ==
  ASSUME AccessInv, NEW q \in Requests, NEW k \in Keys,
         \/ \E a \in Accounts : CreateKey(q, k, a)
         \/ DeleteKey(q, k)
         \/ \E s \in {0, 1} : BeginToggle(q, k, s)
         \/ SaveKey(q) /\ k = request[q].on
  PROVE  /\ AccessTypes' /\ at = "serving" /\ UNCHANGED startVars
         /\ \A p \in Requests \ {q} : request'[p] = request[p]
  <1> USE TypeParts
  <1>0. Idle \in RequestRecords
    BY DEF RequestRecords
  <1>1. ASSUME NEW a \in Accounts, CreateKey(q, k, a)
        PROVE  /\ AccessTypes' /\ at = "serving" /\ UNCHANGED startVars
               /\ \A p \in Requests \ {q} : request'[p] = request[p]
    <2> DEFINE row == [status |-> 1, perms |-> PermsForActor(Session(RolesOf(a)))]
    <2>1. /\ Begins(q, Idle) /\ key' = [key EXCEPT ![k] = row] /\ Says(q, k, Saying(row, {}))
          /\ UNCHANGED <<startVars, cache, account, disturbed>>
      BY <1>1 DEF CreateKey
    <2>2. row \in KeyRow
      <3>1. db.perms \subseteq Perms
        BY DEF StartupInv, StartupTypeOK
      <3> QED
        BY <3>1 DEF KeyRow, PermsForActor
    <2>3. Saying(row, {}) \in Words
      <3> HIDE DEF row
      <3> QED
        BY <2>2 DEF Saying, Words
    <2>4. word' \in [Accounts \union Keys -> Words] /\ muddled' \subseteq Accounts \union Keys
      <3> HIDE DEF row
      <3> QED
        BY <2>1, <2>3, SaysTyped
    <2> HIDE DEF row
    <2> QED
      BY <1>0, <2>1, <2>2, <2>4, BeginsOutcome DEF AccessTypes
  <1>2. CASE DeleteKey(q, k)
    <2>1. /\ Begins(q, Idle) /\ key' = [key EXCEPT ![k] = Absent] /\ Says(q, k, Saying(Absent, {}))
          /\ UNCHANGED <<startVars, cache, account, disturbed>>
      BY <1>2 DEF DeleteKey
    <2>2. Saying(Absent, {}) \in Words
      BY DEF Saying, Words
    <2>3. word' \in [Accounts \union Keys -> Words] /\ muddled' \subseteq Accounts \union Keys
      BY <2>1, <2>2, SaysTyped
    <2> QED
      BY <1>0, <2>1, <2>3, BeginsOutcome DEF AccessTypes
  <1>3. ASSUME NEW s \in {0, 1}, BeginToggle(q, k, s)
        PROVE  /\ AccessTypes' /\ at = "serving" /\ UNCHANGED startVars
               /\ \A p \in Requests \ {q} : request'[p] = request[p]
    <2> DEFINE new == [op |-> "key", on |-> k, row |-> [key[k] EXCEPT !.status = s]]
    <2>1. Begins(q, new) /\ UNCHANGED <<startVars, cache, account, key, disturbed, word, muddled>>
      BY <1>3 DEF BeginToggle
    <2>2. key[k] \in KeyRow
      BY <1>3 DEF BeginToggle, AccessTypes
    <2>3. [key[k] EXCEPT !.status = s] \in KeyRow
      BY <2>2 DEF KeyRow
    <2>4. new \in RequestRecords
      BY <2>3 DEF RequestRecords
    <2> HIDE DEF new
    <2> QED
      BY <2>1, <2>4, BeginsOutcome DEF AccessTypes
  <1>4. CASE SaveKey(q) /\ k = request[q].on
    <2>1. request[q] # Idle /\ at = "serving" /\ request[q].row \in KeyRow
      BY <1>4, RequestFacts DEF SaveKey, Idle
    <2>2. /\ Ends(q) /\ key' = [key EXCEPT ![k] = request[q].row]
          /\ Says(q, k, Saying(request[q].row, {}))
          /\ UNCHANGED <<startVars, cache, account, disturbed>>
      BY <1>4 DEF SaveKey
    <2>3. Saying(request[q].row, {}) \in Words
      BY <2>1 DEF Saying, Words
    <2>4. word' \in [Accounts \union Keys -> Words] /\ muddled' \subseteq Accounts \union Keys
      BY <2>2, <2>3, SaysTyped
    <2> QED
      BY <2>1, <2>2, <2>4, EndsOutcome DEF AccessTypes
  <1> QED
    BY <1>1, <1>2, <1>3, <1>4

\* A request that fails half-way keeps the types.
LEMMA AbortTyped ==
  ASSUME AccessInv, NEW q \in Requests, Abort(q)
  PROVE  /\ AccessTypes' /\ at = "serving" /\ UNCHANGED startVars
         /\ \A p \in Requests \ {q} : request'[p] = request[p]
  <1>1. request[q] # Idle /\ at = "serving"
    BY RequestFacts DEF Abort, Idle
  <1> QED
    BY <1>1, TypeParts, EndsOutcome DEF Abort, AccessTypes

\* A running server edits the grants and the assignments only, of roles that are there.
LEMMA EditOfTables ==
  ASSUME StartupInv, at = "serving", UNCHANGED <<at, catalog, captured, crashes, torn>>,
         \/ \E g \in SUBSET (NewRoles \X Perms), r \in NewRoles :
              /\ db' = [db EXCEPT !.matrix = {x \in @ : x[1] # r} \union g]
              /\ owed' = owed
         \/ \E a \in Accounts, rs \in SUBSET NewRoles :
              /\ db' = [db EXCEPT !.assigned = AssignedTo(a, rs)]
              /\ owed' = {x \in owed : x[1] # a}
  PROVE  StartupInv'
  <1> USE DEF StartupInv
  <1>0. db \in DbRecords
    BY DEF StartupTypeOK, DbRecords
  <1>1. db.roles \intersect Legacy = {} /\ db.tenants # {}
    BY DEF OrderInv
  <1>2. /\ db' \in DbRecords /\ db'.tenants = db.tenants /\ db'.roles = db.roles
        /\ owed' \subseteq owed
        /\ owed \subseteq db.assigned => owed' \subseteq db'.assigned
    <2>1. ASSUME NEW g \in SUBSET (NewRoles \X Perms), NEW r \in NewRoles,
                 db' = [db EXCEPT !.matrix = {x \in @ : x[1] # r} \union g], owed' = owed
          PROVE  /\ db' \in DbRecords /\ db'.tenants = db.tenants /\ db'.roles = db.roles
                 /\ owed' \subseteq owed
                 /\ owed \subseteq db.assigned => owed' \subseteq db'.assigned
      BY <1>0, <2>1 DEF DbRecords
    <2>2. ASSUME NEW a \in Accounts, NEW rs \in SUBSET NewRoles,
                 db' = [db EXCEPT !.assigned = AssignedTo(a, rs)],
                 owed' = {x \in owed : x[1] # a}
          PROVE  /\ db' \in DbRecords /\ db'.tenants = db.tenants /\ db'.roles = db.roles
                 /\ owed' \subseteq owed
                 /\ owed \subseteq db.assigned => owed' \subseteq db'.assigned
      <3>1. AssignedTo(a, rs) \subseteq Users \X (NewRoles \union Legacy)
        BY <1>0 DEF AssignedTo, DbRecords, Users
      <3>2. owed \subseteq db.assigned => owed' \subseteq AssignedTo(a, rs)
        BY <2>2 DEF AssignedTo
      <3> QED
        BY <1>0, <2>2, <3>1, <3>2 DEF DbRecords
    <2> QED
      BY <2>1, <2>2
  <1>3. StartupTypeOK'
    BY <1>2 DEF StartupTypeOK, DbRecords
  <1>4. OrderInv' /\ OwedInv'
    BY <1>1, <1>2 DEF OrderInv, OwedInv, CatalogSteps, SeedSteps, MigrateSteps
  <1> QED
    BY <1>3, <1>4

\* A request runs only while the server serves and breaks no start-up invariant.
LEMMA RequestTables ==
  ASSUME AccessInv, NEW q \in Requests, Request(q)
  PROVE  /\ StartupInv' /\ AccessTypes' /\ at = "serving" /\ at' = at
         /\ \A p \in Requests \ {q} : request'[p] = request[p]
  <1> USE TypeParts
  <1>0. ASSUME UNCHANGED startVars PROVE StartupInv' /\ at' = at
    BY <1>0 DEF startVars, StartupInv, StartupTypeOK, OrderInv, OwedInv
  <1>1. CASE SetRolePermissions(q)
    <2>1. /\ AccessTypes' /\ at = "serving" /\ at' = at
          /\ \A p \in Requests \ {q} : request'[p] = request[p]
      BY <1>1, PermissionsTyped
    <2>2. StartupInv'
      <3>1. ASSUME NEW e \in Edits, CommitPermissions(q, e[1], e[2])
            PROVE  StartupInv'
        <4>1. e[1] \in NewRoles /\ e[2] \subseteq Perms
          BY AccessAssumption
        <4>2. {e[1]} \X (e[2] \intersect db.perms) \subseteq NewRoles \X Perms
          BY <4>1
        <4>3. \E g \in SUBSET (NewRoles \X Perms), r \in NewRoles :
                /\ db' = [db EXCEPT !.matrix = {x \in @ : x[1] # r} \union g]
                /\ owed' = owed
          BY <3>1, <4>1, <4>2 DEF CommitPermissions
        <4>4. UNCHANGED <<at, catalog, captured, crashes, torn>>
          BY <3>1 DEF CommitPermissions
        <4> QED
          BY <2>1, <4>3, <4>4, EditOfTables
      <3>2. CASE LoadMatrix(q) \/ StoreCache(q) \/ LoadFails(q)
        BY <1>0, <3>2 DEF LoadMatrix, StoreCache, LoadFails
      <3> QED
        BY <1>1, <3>1, <3>2 DEF SetRolePermissions
    <2> QED
      BY <2>1, <2>2
  <1>2. CASE BeginAccount(q)
    BY <1>0, <1>2, BeginAccountTyped
  <1>3. CASE SaveAccount(q)
    BY <1>0, <1>3, SaveAccountTyped
  <1>4. CASE SetRoles(q) \/ SetRolesFails(q)
    <2>1. /\ AccessTypes' /\ at = "serving" /\ at' = at
          /\ \A p \in Requests \ {q} : request'[p] = request[p]
      BY <1>4, SetRolesTyped
    <2>2. CASE SetRoles(q)
      <3>1. request[q].on \in Accounts /\ request[q].roles \subseteq NewRoles
        BY <2>2, RequestFacts DEF SetRoles, Idle
      <3>2. /\ db' = [db EXCEPT !.assigned = AssignedTo(request[q].on, request[q].roles)]
            /\ owed' = {x \in owed : x[1] # request[q].on}
            /\ UNCHANGED <<at, catalog, captured, crashes, torn>>
        BY <2>2 DEF SetRoles
      <3>3. \E a \in Accounts, rs \in SUBSET NewRoles :
              /\ db' = [db EXCEPT !.assigned = AssignedTo(a, rs)]
              /\ owed' = {x \in owed : x[1] # a}
        BY <3>1, <3>2
      <3>4. StartupInv'
        BY <2>1, <3>2, <3>3, EditOfTables
      <3> QED
        BY <2>1, <3>4
    <2>3. CASE SetRolesFails(q)
      BY <1>0, <2>1, <2>3 DEF SetRolesFails
    <2> QED
      BY <1>4, <2>2, <2>3
  <1>5. ASSUME NEW a \in Accounts, DeleteUser(q, a)
        PROVE  /\ StartupInv' /\ AccessTypes' /\ at = "serving" /\ at' = at
               /\ \A p \in Requests \ {q} : request'[p] = request[p]
    BY <1>0, <1>5, DeleteUserTyped
  <1>6. ASSUME NEW k \in Keys,
               \/ \E a \in Accounts : CreateKey(q, k, a)
               \/ DeleteKey(q, k)
               \/ \E s \in {0, 1} : BeginToggle(q, k, s)
               \/ SaveKey(q) /\ k = request[q].on
        PROVE  /\ StartupInv' /\ AccessTypes' /\ at = "serving" /\ at' = at
               /\ \A p \in Requests \ {q} : request'[p] = request[p]
    BY <1>0, <1>6, KeyTyped
  <1>7. CASE SaveKey(q)
    <2>1. request[q].on \in Keys
      BY <1>7, RequestFacts DEF SaveKey, Idle
    <2> QED
      BY <1>6, <1>7, <2>1
  <1>8. CASE Abort(q)
    BY <1>0, <1>8, AbortTyped
  <1> QED
    BY <1>1, <1>2, <1>3, <1>4, <1>5, <1>6, <1>7, <1>8 DEF Request

-----------------------------------------------------------------------------
(* Every step, and the two theorems of the first part. *)

\* The whole invariant holds when the server first starts.
LEMMA AccessInit == Init => AccessInv
  <1> SUFFICES ASSUME Init PROVE AccessInv
    OBVIOUS
  <1>1. StartupInv
    BY InitStartup DEF Init
  <1>2. PICK p \in Passwords :
          account = [a \in Accounts |-> IF \E r \in Legacy \union {Admin} : <<a, r>> \in db.assigned
                                        THEN [status |-> 1, password |-> p] ELSE Absent]
    BY DEF Init
  <1>3. [status |-> 1, password |-> p] \in AccountRow
    BY DEF AccountRow
  <1>4. account \in [Accounts -> AccountRow \union {Absent}]
    BY <1>2, <1>3
  <1>5. AccessTypes
    <2>1. request \in [Requests -> RequestRecords]
      BY DEF Init, RequestRecords
    <2>2. word \in [Accounts \union Keys -> Words]
      BY DEF Init, Words
    <2>3. key \in [Keys -> KeyRow \union {Absent}]
      BY DEF Init
    <2>4. begun \in 0..MaxRequests
      BY AccessAssumption DEF Init
    <2>5. cache = {} /\ disturbed = FALSE /\ muddled = {}
      BY DEF Init
    <2> QED
      BY <1>4, <2>1, <2>2, <2>3, <2>4, <2>5 DEF AccessTypes
  <1>6. OpenInv
    BY DEF Init, OpenInv, Open
  <1> QED
    BY <1>1, <1>5, <1>6, TypeParts

\* A step of start-up, and a crash, keep the start-up invariant and touch no request.
LEMMA BootStep ==
  ASSUME StartupInv, Boot \/ Restart
  PROVE  StartupInv' /\ at \notin {"serving", "refresh"} /\ at' # "serving"
  <1>1. CASE SeedRBAC
    BY <1>1, SeedStep
    DEF SeedRBAC, SeedDemo, SeedPlatform, SeedRoles, SeedModules, SeedPerms,
        SeedMatrix, SeedAdmins, SeedAdopt, Step, Loop
  <1>2. CASE MigrateRoles
    BY <1>2, MigrateStep
    DEF MigrateRoles, FindLegacy, WipeAssigned, WipeMatrix, WipeRoles, SeedNewRoles,
        SeedNewMatrix, Remap, Step, Loop
  <1>3. CASE EnsureCatalog
    BY <1>3, EnsureStep, EnsureOutcome DEF CatalogSteps
  <1>4. CASE Restart
    BY <1>4, ProcessStep DEF Restart
  <1> QED
    BY <1>1, <1>2, <1>3, <1>4 DEF Boot

\* A crash forgets every request, and muddles what they were on.
LEMMA CrashTyped ==
  ASSUME AccessInv, CrashAll
  PROVE  AccessTypes' /\ StartupInv' /\ \A q \in Requests : request'[q] = Idle
  <1> USE TypeParts
  <1>1. /\ Crash /\ cache' = {} /\ request' = [q \in Requests |-> Idle]
        /\ Muddles(UNION {On(q) : q \in Requests})
        /\ UNCHANGED <<account, key, begun, disturbed>>
    BY DEF CrashAll
  <1>2. UNION {On(q) : q \in Requests} \in SUBSET (Accounts \union Keys)
    BY OnFacts
  <1>3. word' \in [Accounts \union Keys -> Words] /\ muddled' \subseteq Accounts \union Keys
    BY <1>1, <1>2, MuddlesTyped
  <1>4. request' \in [Requests -> RequestRecords]
    BY <1>1 DEF RequestRecords
  <1>5. StartupInv'
    BY <1>1, ProcessStep
  <1> QED
    BY <1>1, <1>3, <1>4, <1>5 DEF AccessTypes

\* Every step keeps the whole invariant.
LEMMA AccessStep == AccessInv /\ [Next]_<<startVars, accessVars>> => AccessInv'
  <1> SUFFICES ASSUME AccessInv, [Next]_<<startVars, accessVars>> PROVE AccessInv'
    OBVIOUS
  <1> USE TypeParts
  <1>0. StartupInv' /\ AccessTypes' /\ OpenInv' => AccessInv'
    BY DEF TypeOK, AccessTypes, AccessInv, StartupInv
  <1>1. CASE (Boot \/ Restart) /\ UNCHANGED accessVars
    <2>1. StartupInv' /\ at # "serving"
      BY <1>1, BootStep
    <2>2. AccessTypes'
      BY <1>1 DEF accessVars, AccessTypes
    <2>3. OpenInv'
      BY <1>1, <2>1 DEF accessVars, OpenInv, Open
    <2> QED
      BY <1>0, <2>1, <2>2, <2>3
  <1>2. CASE ServeWithCache
    <2>1. StartupInv' /\ at = "refresh" /\ at' = "serving"
      BY <1>2, ProcessStep DEF ServeWithCache, Serve, Step
    <2>2. View \subseteq NewRoles \X Perms
      BY <2>1, ViewTyped
    <2>3. AccessTypes' /\ OpenInv'
      BY <1>2, <2>1, <2>2 DEF ServeWithCache, AccessTypes, OpenInv
    <2> QED
      BY <1>0, <2>1, <2>3
  <1>3. CASE CrashAll
    BY <1>0, <1>3, CrashTyped DEF OpenInv, Open
  <1>4. ASSUME NEW q \in Requests, Request(q)
        PROVE  AccessInv'
    BY <1>0, <1>4, RequestTables DEF OpenInv
  <1>5. CASE UNCHANGED <<startVars, accessVars>>
    BY <1>5 DEF startVars, accessVars, AccessInv, TypeOK, StartupTypeOK, OrderInv, OwedInv,
                OpenInv, Open
  <1> QED
    BY <1>1, <1>2, <1>3, <1>4, <1>5 DEF Next

\* So it always holds.
LEMMA AlwaysAccess == Spec => []AccessInv
  BY AccessInit, AccessStep, PTL DEF Spec

(* The tables, the cache, the accounts, the keys and the requests keep their types    *)
(* through every start, crash and request: a statement of the seed, of a migration or *)
(* of an edit writes rows only of what is there to be referred to.                    *)
THEOREM AccessTypeOK == Spec => []TypeOK
  <1>1. AccessInv => TypeOK
    BY DEF AccessInv
  <1> QED
    BY <1>1, AlwaysAccess, PTL

(* MigrateRoles loses no assignment of an account that held a role with a successor,  *)
(* unless a crash cut it short: what it deletes it has in memory, and what it has in  *)
(* memory it writes before the server serves, for any number of crashes elsewhere.    *)
THEOREM AssignmentsKept == Spec => []AssignmentsSurvive
  <1>1. AccessInv => AssignmentsSurvive
    BY DEF AccessInv, OrderInv, OwedInv, AssignmentsSurvive, MigrateSteps
  <1> QED
    BY <1>1, AlwaysAccess, PTL

-----------------------------------------------------------------------------
(* 2. The permission cache *)

Refreshing(q) == request[q].op \in {"load", "store"}

\* Undisturbed, at most one request refreshes; what it has loaded is what the tables hold,
\* and with none of them the cache holds it.
CacheInv ==
  at = "serving" /\ ~disturbed =>
    /\ \A p, q \in Requests : Refreshing(p) /\ Refreshing(q) => p = q
    /\ \A q \in Requests : request[q].op = "store" => request[q].loaded = View
    /\ (\A q \in Requests : ~Refreshing(q)) => cache = View

\* The requests on accounts and keys leave the grants and the cache alone.
LEMMA AccountsApart ==
  ASSUME AccessInv, NEW q \in Requests, Request(q), ~SetRolePermissions(q)
  PROVE  /\ ~Refreshing(q) /\ ~Refreshing(q)'
         /\ UNCHANGED <<cache, disturbed>> /\ View' = View
  <1> USE TypeParts
  <1>0. Idle.op \notin {"load", "store"} /\ Idle \in RequestRecords
    BY DEF Idle, RequestRecords
  <1>1. UNCHANGED startVars => View' = View
    BY DEF startVars, View
  <1>2. CASE BeginAccount(q)
    <2>1. /\ UNCHANGED startVars /\ request[q] = Idle
          /\ request'[q].op \in {"create", "user", "password"}
          /\ UNCHANGED <<cache, account, key, disturbed, word, muddled>>
      BY <1>2, BeginAccountTyped
    <2> QED
      BY <1>0, <1>1, <2>1 DEF Refreshing
  <1>3. CASE SaveAccount(q)
    <2>1. UNCHANGED <<startVars, cache, disturbed>> /\ request[q].op \in {"create", "user", "password"}
      BY <1>3 DEF SaveAccount
    <2>2. request'[q] = Idle \/ request'[q].op = "assign"
      <3>1. request[q] # Idle
        BY <2>1 DEF Idle
      <3>2. [request[q] EXCEPT !.op = "assign"] \in RequestRecords
            /\ [request[q] EXCEPT !.op = "assign"].op = "assign"
        <4>1. request[q] \in AccountRequests
          BY <2>1, <3>1, RequestFacts
        <4> QED
          BY <4>1, AssignsNext
      <3>3. Ends(q) \/ Continues(q, [request[q] EXCEPT !.op = "assign"])
        BY <1>3 DEF SaveAccount
      <3> QED
        BY <3>2, <3>3, EndsOutcome, ContinuesOutcome
    <2> QED
      BY <1>0, <1>1, <2>1, <2>2 DEF Refreshing
  <1>4. CASE SetRoles(q) \/ SetRolesFails(q)
    <2>1. request[q].op = "assign" /\ Ends(q) /\ UNCHANGED <<cache, disturbed>>
      BY <1>4 DEF SetRoles, SetRolesFails
    <2>2. View' = View
      <3>1. CASE SetRoles(q)
        <4>1. db \in DbRecords
          BY DEF StartupInv, StartupTypeOK, DbRecords
        <4>2. db' = [db EXCEPT !.assigned = AssignedTo(request[q].on, request[q].roles)]
          BY <3>1 DEF SetRoles
        <4>3. db'.matrix = db.matrix /\ db'.roles = db.roles
          BY <4>1, <4>2 DEF DbRecords
        <4> QED
          BY <4>3 DEF View
      <3>2. CASE SetRolesFails(q)
        BY <1>1, <3>2 DEF SetRolesFails
      <3> QED
        BY <1>4, <3>1, <3>2
    <2> QED
      BY <1>0, <2>1, <2>2, EndsOutcome DEF Refreshing
  <1>5. CASE Begins(q, Idle) /\ UNCHANGED <<startVars, cache, disturbed>>
    <2>1. request[q] = Idle /\ request'[q] = Idle
      BY <1>0, <1>5, BeginsOutcome
    <2> QED
      BY <1>0, <1>1, <1>5, <2>1 DEF Refreshing
  <1>6. ASSUME NEW k \in Keys, NEW s \in {0, 1}, BeginToggle(q, k, s)
        PROVE  /\ ~Refreshing(q) /\ ~Refreshing(q)'
               /\ UNCHANGED <<cache, disturbed>> /\ View' = View
    <2> DEFINE new == [op |-> "key", on |-> k, row |-> [key[k] EXCEPT !.status = s]]
    <2>1. Begins(q, new) /\ UNCHANGED <<startVars, cache, disturbed>>
      BY <1>6 DEF BeginToggle
    <2>2. new \in RequestRecords /\ new.op = "key"
      <3>1. key[k] \in KeyRow
        BY <1>6 DEF BeginToggle, AccessTypes
      <3>2. [key[k] EXCEPT !.status = s] \in KeyRow
        BY <3>1 DEF KeyRow
      <3> QED
        BY <3>2 DEF RequestRecords
    <2> HIDE DEF new
    <2>3. request[q] = Idle /\ request'[q] = new
      BY <2>1, <2>2, BeginsOutcome
    <2> QED
      BY <1>0, <1>1, <2>1, <2>2, <2>3 DEF Refreshing
  <1>7. CASE SaveKey(q) \/ Abort(q)
    <2>1. /\ request[q].op \in {"create", "user", "password", "key"} /\ Ends(q)
          /\ UNCHANGED <<startVars, cache, disturbed>>
      BY <1>7 DEF SaveKey, Abort
    <2> QED
      BY <1>0, <1>1, <2>1, EndsOutcome DEF Refreshing
  <1>8. (\E a \in Accounts : DeleteUser(q, a) \/ \E k \in Keys : CreateKey(q, k, a))
          \/ (\E k \in Keys : DeleteKey(q, k))
          => Begins(q, Idle) /\ UNCHANGED <<startVars, cache, disturbed>>
    BY DEF DeleteUser, CreateKey, DeleteKey
  <1> QED
    BY <1>2, <1>3, <1>4, <1>5, <1>6, <1>7, <1>8 DEF Request

\* The cache is the table unless a refresh is owed: every step keeps it so.
LEMMA CacheStep ==
  AccessInv /\ CacheInv /\ [Next]_<<startVars, accessVars>> => CacheInv'
  <1> SUFFICES ASSUME AccessInv, CacheInv, [Next]_<<startVars, accessVars>> PROVE CacheInv'
    OBVIOUS
  <1> USE TypeParts
  <1>1. CASE (Boot \/ Restart) /\ UNCHANGED accessVars
    BY <1>1, BootStep DEF CacheInv
  <1>2. CASE ServeWithCache
    <2>1. /\ at = "refresh" /\ cache' = View /\ View' = View /\ request' = request
      BY <1>2 DEF ServeWithCache, Serve, Step, View
    <2>2. \A q \in Requests : request'[q].op = "idle"
      BY <2>1 DEF OpenInv, Open, Idle
    <2> QED
      BY <2>1, <2>2 DEF CacheInv, Refreshing
  <1>3. CASE CrashAll
    BY <1>3 DEF CrashAll, Crash, CacheInv
  <1>4. ASSUME NEW q \in Requests, Request(q)
        PROVE  CacheInv'
    <2>1. /\ at = "serving" /\ \A p \in Requests \ {q} : request'[p] = request[p]
      BY <1>4, RequestTables
    <2>2. CASE ~SetRolePermissions(q)
      <3>1. /\ ~Refreshing(q) /\ ~Refreshing(q)'
            /\ UNCHANGED <<cache, disturbed>> /\ View' = View
        BY <1>4, <2>2, AccountsApart
      <3> QED
        BY <2>1, <3>1 DEF CacheInv, Refreshing
    <2>3. ASSUME NEW e \in Edits, CommitPermissions(q, e[1], e[2])
          PROVE  CacheInv'
      <3>1. [op |-> "load"] \in RequestRecords
        BY DEF RequestRecords
      <3>2. request'[q] = [op |-> "load"]
        BY <2>3, <3>1, BeginsOutcome DEF CommitPermissions
      <3>3. ~disturbed' => \A p \in Requests : ~Refreshing(p)
        BY <2>3 DEF CommitPermissions, Refreshing
      <3> QED
        BY <2>1, <3>2, <3>3 DEF CacheInv, Refreshing
    <2>4. CASE LoadMatrix(q)
      <3>1. [op |-> "store", loaded |-> View] \in RequestRecords
        BY <2>1, ViewTyped DEF RequestRecords
      <3>2. request'[q] = [op |-> "store", loaded |-> View]
        BY <2>4, <3>1, ContinuesOutcome DEF LoadMatrix
      <3>3. View' = View /\ UNCHANGED <<cache, disturbed>> /\ request[q].op = "load"
        BY <2>4 DEF LoadMatrix, startVars, View
      <3> QED
        BY <2>1, <3>2, <3>3 DEF CacheInv, Refreshing
    <2>5. CASE StoreCache(q)
      <3>1. request'[q] = Idle /\ Idle.op = "idle"
        BY <2>5, EndsOutcome DEF StoreCache, Idle
      <3>2. /\ View' = View /\ disturbed' = disturbed
            /\ cache' = request[q].loaded /\ request[q].op = "store"
        BY <2>5 DEF StoreCache, Reloaded, startVars, View
      <3> QED
        BY <2>1, <3>1, <3>2 DEF CacheInv, Refreshing
    <2>6. CASE LoadFails(q)
      BY <2>6 DEF LoadFails, CacheInv
    <2> QED
      BY <2>2, <2>3, <2>4, <2>5, <2>6 DEF SetRolePermissions
  <1>5. CASE UNCHANGED <<startVars, accessVars>>
    BY <1>5 DEF startVars, accessVars, CacheInv, Refreshing, View
  <1> QED
    BY <1>1, <1>2, <1>3, <1>4, <1>5 DEF Next

(* The cache answers as the tables would, for any number of goroutines changing       *)
(* permissions, unless two changes overlapped or a refresh failed since the last      *)
(* start: an undisturbed refresh loads what its own transaction left.                 *)
THEOREM AccessIsTheTable == Spec => []AccessFollowsTable
  <1>1. Init => CacheInv
    BY DEF Init, StartupInit, CacheInv
  <1>2. Spec => []CacheInv
    BY <1>1, CacheStep, AlwaysAccess, PTL DEF Spec
  <1>3. CacheInv => AccessFollowsTable
    BY DEF CacheInv, Refreshing, AccessFollowsTable, HasPerm, Session
  <1> QED
    BY <1>2, <1>3, PTL

-----------------------------------------------------------------------------
(* 3. The last word *)

Assigning(q, a) == request[q].op = "assign" /\ request[q].on = a

\* Of an account: between the two transactions of an edit the row is the request's; with
\* no edit half done, the last word is what is stored.
AccountWord(a) ==
  /\ \A q \in Requests : Assigning(q, a) => account[a] = request[q].row
  /\ word[a] # Absent /\ (\A q \in Requests : ~Assigning(q, a))
       => Heeds(account[a], word[a].row) /\ word[a].roles = RolesOf(a)
KeyWord(k) == word[k] # Absent => word[k].row = key[k]

WordInv ==
  /\ \A a \in Accounts \ muddled : AccountWord(a)
  /\ \A k \in Keys \ muddled : KeyWord(k)

\* Once anything was acknowledged no start touches the assignments again.
SettledInv ==
  (\E x \in Accounts \union Keys : word[x] # Absent) =>
    /\ db.tenants # {} /\ db.roles \intersect Legacy = {}
    /\ at \notin SeedSteps \union MigrateSteps \union {"wipeAssigned"}

\* A later start of a settled database seeds and migrates nothing again.
LEMMA SettledBoot ==
  ASSUME StartupInv, Boot \/ Restart, db.tenants # {}, db.roles \intersect Legacy = {},
         at \notin SeedSteps \union MigrateSteps \union {"wipeAssigned"}
  PROVE  /\ db'.tenants = db.tenants /\ db'.roles = db.roles /\ db'.assigned = db.assigned
         /\ at' \notin SeedSteps \union MigrateSteps \union {"wipeAssigned"}
  <1>1. CASE SeedRBAC
    <2>1. SeedDemo
      BY <1>1 DEF SeedRBAC, SeedDemo, SeedPlatform, SeedRoles, SeedModules, SeedPerms,
                  SeedMatrix, SeedAdmins, SeedAdopt, Step, Loop, SeedSteps
    <2> QED
      BY <2>1 DEF SeedDemo, Step, SeedSteps, MigrateSteps
  <1>2. CASE MigrateRoles
    <2>1. FindLegacy
      BY <1>2 DEF MigrateRoles, FindLegacy, WipeAssigned, WipeMatrix, WipeRoles, SeedNewRoles,
                  SeedNewMatrix, Remap, Step, Loop, MigrateSteps
    <2> QED
      BY <2>1 DEF FindLegacy, SeedSteps, MigrateSteps
  <1>3. CASE EnsureCatalog
    BY <1>3, EnsureOutcome DEF CatalogSteps, SeedSteps, MigrateSteps
  <1>4. CASE Restart
    BY <1>4 DEF Restart, SeedSteps, MigrateSteps
  <1> QED
    BY <1>1, <1>2, <1>3, <1>4 DEF Boot

\* A step that touches the accounts and keys of xs only need be looked at for these.
LEMMA WordsApart ==
  ASSUME WordInv, NEW xs,
         muddled \subseteq muddled',
         \A y \in (Accounts \union Keys) \ xs : word'[y] = word[y],
         \A a \in Accounts \ xs : /\ account'[a] = account[a]
                                  /\ word[a] # Absent => RolesOf(a)' = RolesOf(a),
         \A k \in Keys \ xs : key'[k] = key[k],
         \A a \in Accounts \ xs, p \in Requests :
           Assigning(p, a) \/ Assigning(p, a)' => request'[p] = request[p],
         \A a \in (Accounts \intersect xs) \ muddled' : AccountWord(a)',
         \A k \in (Keys \intersect xs) \ muddled' : KeyWord(k)'
  PROVE  WordInv'
  <1>1. ASSUME NEW a \in Accounts, a \notin muddled', a \notin xs
        PROVE  AccountWord(a)'
    <2>1. /\ AccountWord(a) /\ word'[a] = word[a] /\ account'[a] = account[a]
          /\ word[a] # Absent => RolesOf(a)' = RolesOf(a)
      BY <1>1 DEF WordInv
    <2>2. \A p \in Requests : /\ Assigning(p, a) \/ Assigning(p, a)' => request'[p] = request[p]
                              /\ Assigning(p, a) <=> Assigning(p, a)'
      BY <1>1 DEF Assigning
    <2> QED
      BY <2>1, <2>2 DEF AccountWord
  <1>2. ASSUME NEW k \in Keys, k \notin muddled', k \notin xs
        PROVE  KeyWord(k)'
    BY <1>2 DEF WordInv, KeyWord
  <1> QED
    BY <1>1, <1>2 DEF WordInv

\* The same for a step that touches a single account.
LEMMA OthersApart ==
  ASSUME WordInv, NEW x \in Accounts, x \notin Keys,
         muddled \subseteq muddled', key' = key,
         \A y \in (Accounts \union Keys) \ {x} : word'[y] = word[y],
         \A a \in Accounts \ {x} : account'[a] = account[a] /\ RolesOf(a)' = RolesOf(a),
         \A a \in Accounts \ {x}, p \in Requests :
           Assigning(p, a) \/ Assigning(p, a)' => request'[p] = request[p],
         x \notin muddled' => AccountWord(x)'
  PROVE  WordInv'
  <1>1. /\ \A a \in (Accounts \intersect {x}) \ muddled' : AccountWord(a)'
        /\ \A k \in (Keys \intersect {x}) \ muddled' : KeyWord(k)'
    <2>1. \A a \in Accounts \intersect {x} : a = x
      OBVIOUS
    <2>2. Keys \intersect {x} = {}
      OBVIOUS
    <2> QED
      BY <2>1, <2>2
  <1> QED
    BY <1>1, WordsApart

\* Whoever assigns roles to an account is on it.
LEMMA AssigningIsOn ==
  ASSUME NEW q \in Requests, NEW a, Assigning(q, a)
  PROVE  On(q) = {a}
  BY DEF Assigning, On

\* What a request says stands for itself, or the account or key is muddled.
LEMMA SaysFacts ==
  ASSUME AccessInv, NEW q \in Requests, NEW x \in Accounts \union Keys, NEW w, Says(q, x, w)
  PROVE  /\ muddled \subseteq muddled'
         /\ \A y \in (Accounts \union Keys) \ {x} : word'[y] = word[y]
         /\ x \notin muddled' =>
              /\ x \notin muddled /\ word'[x] = w
              /\ \A p \in Requests \ {q} : ~Assigning(p, x)
  <1>1. word \in [Accounts \union Keys -> Words]
    BY DEF AccessInv, TypeOK
  <1>2. CASE Shared(q, x)
    BY <1>1, <1>2 DEF Says
  <1>3. CASE ~Shared(q, x)
    <2>1. \A p \in Requests \ {q} : ~Assigning(p, x)
      BY <1>3, AssigningIsOn DEF Shared
    <2> QED
      BY <1>1, <1>3, <2>1 DEF Says
  <1> QED
    BY <1>2, <1>3

\* An overlap changes no word of what it is not on.
LEMMA MuddlesFacts ==
  ASSUME AccessInv, NEW xs, Muddles(xs)
  PROVE  /\ muddled' = muddled \union xs
         /\ \A y \in (Accounts \union Keys) \ xs : word'[y] = word[y]
  BY DEF Muddles, AccessInv, TypeOK

\* The steps of an edit of an account.
LEMMA AccountWordStep ==
  ASSUME AccessInv, WordInv, NEW q \in Requests,
         SaveAccount(q) \/ SetRoles(q) \/ SetRolesFails(q)
  PROVE  WordInv'
  <1> USE TypeParts
  <1> DEFINE r == request[q]
  <1>1. /\ r \in AccountRequests
        /\ r.on \in Accounts /\ r.roles \subseteq NewRoles /\ Heeds(r.row, r.said)
        /\ \A p \in Requests \ {q} : request'[p] = request[p]
        /\ account \in [Accounts -> AccountRow \union {Absent}]
        /\ r.on \notin Keys
    <2>1. r # Idle
      BY DEF SaveAccount, SetRoles, SetRolesFails, Idle
    <2> QED
      BY <2>1, RequestFacts, SaveAccountTyped, SetRolesTyped, AccessAssumption
      DEF SaveAccount, SetRoles, SetRolesFails, AccessTypes
  <1>0. PICK x \in Accounts : x = r.on
    BY <1>1
  <1>2. \A a \in Accounts : Assigning(q, a) => a = x
    BY <1>0 DEF Assigning
  <1>3. SaveAccount(q) \/ SetRolesFails(q) => \A a \in Accounts : RolesOf(a)' = RolesOf(a)
    BY DEF SaveAccount, SetRolesFails, startVars, RolesOf
  <1>4. Idle.op # "assign"
    BY DEF Idle
  <1>5. CASE SaveAccount(q) /\ r.roles = {}
    <2>1. /\ account' = [account EXCEPT ![x] = r.row] /\ key' = key
          /\ request'[q] = Idle /\ Says(q, x, Saying(r.said, RolesOf(x)))
      BY <1>0, <1>5, EndsOutcome DEF SaveAccount
    <2>2. /\ muddled \subseteq muddled'
          /\ \A y \in (Accounts \union Keys) \ {x} : word'[y] = word[y]
          /\ x \notin muddled' =>
               /\ x \notin muddled /\ word'[x] = Saying(r.said, RolesOf(x))
               /\ \A p \in Requests \ {q} : ~Assigning(p, x)
      BY <1>0, <1>1, <2>1, SaysFacts
    <2>3. x \notin muddled' => AccountWord(x)'
      BY <1>0, <1>1, <1>3, <1>4, <1>5, <2>1, <2>2 DEF AccountWord, Assigning, Saying
    <2>4. \A a \in Accounts \ {x}, p \in Requests :
            Assigning(p, a) \/ Assigning(p, a)' => request'[p] = request[p]
      BY <1>0, <1>1, <1>2, <1>4, <2>1 DEF Assigning
    <2>5. \A a \in Accounts \ {x} : account'[a] = account[a] /\ RolesOf(a)' = RolesOf(a)
      BY <1>0, <1>1, <1>3, <1>5, <2>1
    <2> QED
      BY <1>0, <1>1, <2>1, <2>2, <2>3, <2>4, <2>5, OthersApart
  <1>6. CASE SaveAccount(q) /\ r.roles # {}
    <2>1. /\ account' = [account EXCEPT ![x] = r.row] /\ key' = key
          /\ IF Shared(q, x) THEN Muddles({x}) ELSE UNCHANGED <<word, muddled>>
      BY <1>0, <1>6 DEF SaveAccount
    <2>2. /\ request'[q].op = "assign" /\ request'[q].on = x /\ request'[q].row = r.row
      <3>1. /\ [r EXCEPT !.op = "assign"] \in RequestRecords
            /\ [r EXCEPT !.op = "assign"].op = "assign"
            /\ [r EXCEPT !.op = "assign"].on = r.on /\ [r EXCEPT !.op = "assign"].row = r.row
        BY <1>1, AssignsNext
      <3>2. request'[q] = [r EXCEPT !.op = "assign"]
        BY <1>0, <1>6, <3>1, ContinuesOutcome DEF SaveAccount
      <3> QED
        BY <1>0, <3>1, <3>2
    <2>3. /\ muddled \subseteq muddled'
          /\ \A y \in (Accounts \union Keys) \ {x} : word'[y] = word[y]
          /\ x \notin muddled' => \A p \in Requests \ {q} : ~Assigning(p, x)
      <3>1. CASE Shared(q, x)
        BY <1>0, <2>1, <3>1, MuddlesFacts
      <3>2. CASE ~Shared(q, x)
        BY <1>0, <2>1, <3>2, AssigningIsOn DEF Shared
      <3> QED
        BY <3>1, <3>2
    <2>4. x \notin muddled' => AccountWord(x)'
      BY <1>0, <1>1, <2>1, <2>2, <2>3 DEF AccountWord, Assigning
    <2>5. \A a \in Accounts \ {x}, p \in Requests :
            Assigning(p, a) \/ Assigning(p, a)' => request'[p] = request[p]
      BY <1>0, <1>1, <1>2, <2>2 DEF Assigning
    <2>6. \A a \in Accounts \ {x} : account'[a] = account[a] /\ RolesOf(a)' = RolesOf(a)
      BY <1>0, <1>1, <1>3, <1>6, <2>1
    <2> QED
      BY <1>0, <1>1, <2>1, <2>3, <2>4, <2>5, <2>6, OthersApart
  <1>7. CASE SetRoles(q)
    <2>1. /\ request'[q] = Idle /\ UNCHANGED <<account, key>> /\ Assigning(q, x)
          /\ Says(q, x, Saying(r.said, r.roles \intersect db.roles))
      BY <1>0, <1>7, EndsOutcome DEF SetRoles, Assigning
    <2>2. /\ RolesOf(x)' = r.roles \intersect db.roles
          /\ \A a \in Accounts \ {x} : RolesOf(a)' = RolesOf(a)
      <3>1. db'.assigned = {y \in db.assigned : y[1] # x} \union ({x} \X (r.roles \intersect db.roles))
        <4>1. db \in DbRecords
          BY DEF StartupInv, StartupTypeOK, DbRecords
        <4> QED
          BY <1>0, <1>7, <4>1 DEF SetRoles, AssignedTo, DbRecords
      <3> QED
        BY <1>0, <1>1, <3>1 DEF RolesOf
    <2>3. /\ muddled \subseteq muddled'
          /\ \A y \in (Accounts \union Keys) \ {x} : word'[y] = word[y]
          /\ x \notin muddled' =>
               /\ x \notin muddled /\ word'[x] = Saying(r.said, r.roles \intersect db.roles)
               /\ \A p \in Requests \ {q} : ~Assigning(p, x)
      BY <1>0, <1>1, <2>1, SaysFacts
    <2>4. x \notin muddled' => AccountWord(x)'
      <3>1. x \notin muddled => account[x] = r.row
        BY <1>0, <1>1, <2>1 DEF WordInv, AccountWord
      <3> QED
        BY <1>0, <1>1, <1>4, <2>1, <2>2, <2>3, <3>1 DEF AccountWord, Assigning, Saying
    <2>5. \A a \in Accounts \ {x}, p \in Requests :
            Assigning(p, a) \/ Assigning(p, a)' => request'[p] = request[p]
      BY <1>0, <1>1, <1>2, <1>4, <2>1 DEF Assigning
    <2> QED
      BY <1>0, <1>1, <2>1, <2>2, <2>3, <2>4, <2>5, OthersApart
  <1>8. CASE SetRolesFails(q)
    <2>1. request'[q] = Idle /\ UNCHANGED <<account, key>> /\ Muddles({x})
      BY <1>0, <1>8, EndsOutcome DEF SetRolesFails
    <2>2. /\ muddled' = muddled \union {x}
          /\ \A y \in (Accounts \union Keys) \ {x} : word'[y] = word[y]
      BY <1>0, <2>1, MuddlesFacts
    <2>3. \A a \in Accounts \ {x}, p \in Requests :
            Assigning(p, a) \/ Assigning(p, a)' => request'[p] = request[p]
      BY <1>0, <1>1, <1>2, <1>4, <2>1 DEF Assigning
    <2> QED
      BY <1>0, <1>1, <1>3, <1>8, <2>1, <2>2, <2>3, OthersApart
  <1> QED
    BY <1>5, <1>6, <1>7, <1>8

\* A key is written together with the word on it.
LEMMA KeyWordStep ==
  ASSUME AccessInv, WordInv, NEW q \in Requests, NEW k \in Keys, NEW row,
         request[q].op # "assign", request'[q] = Idle,
         \A p \in Requests \ {q} : request'[p] = request[p],
         key' = [key EXCEPT ![k] = row], Says(q, k, Saying(row, {})),
         UNCHANGED <<startVars, account>>
  PROVE  WordInv'
  <1>1. k \notin Accounts /\ key \in [Keys -> KeyRow \union {Absent}]
    BY AccessAssumption DEF AccessInv, TypeOK
  <1>2. /\ muddled \subseteq muddled'
        /\ \A y \in (Accounts \union Keys) \ {k} : word'[y] = word[y]
        /\ k \notin muddled' => word'[k] = Saying(row, {})
    BY SaysFacts
  <1>3. k \notin muddled' => KeyWord(k)'
    BY <1>1, <1>2 DEF KeyWord, Saying
  <1>4. \A a \in Accounts \ {k}, p \in Requests :
          Assigning(p, a) \/ Assigning(p, a)' => request'[p] = request[p]
    BY DEF Assigning, Idle
  <1>5. \A a \in Accounts \ {k} : account'[a] = account[a] /\ RolesOf(a)' = RolesOf(a)
    BY DEF startVars, RolesOf
  <1>6. \A y \in Keys \ {k} : key'[y] = key[y]
    BY <1>1
  <1> QED
    BY <1>1, <1>2, <1>3, <1>4, <1>5, <1>6, WordsApart

\* Steps that neither end an edit nor write a row.
LEMMA SilentStep ==
  ASSUME AccessInv, WordInv, NEW q \in Requests,
         \A p \in Requests \ {q} : request'[p] = request[p],
         request[q].op # "assign", request'[q].op # "assign",
         UNCHANGED <<account, key, word, muddled>>, db'.assigned = db.assigned
  PROVE  WordInv'
  <1>1. \A a \in Accounts, p \in Requests :
          Assigning(p, a) \/ Assigning(p, a)' => request'[p] = request[p]
    BY DEF Assigning
  <1>2. \A a \in Accounts : RolesOf(a)' = RolesOf(a)
    BY DEF RolesOf
  <1>3. /\ muddled \subseteq muddled'
        /\ \A y \in (Accounts \union Keys) \ {} : word'[y] = word[y]
        /\ \A a \in Accounts \ {} : /\ account'[a] = account[a]
                                    /\ word[a] # Absent => RolesOf(a)' = RolesOf(a)
        /\ \A k \in Keys \ {} : key'[k] = key[k]
        /\ \A a \in Accounts \ {}, p \in Requests :
             Assigning(p, a) \/ Assigning(p, a)' => request'[p] = request[p]
        /\ \A a \in (Accounts \intersect {}) \ muddled' : AccountWord(a)'
        /\ \A k \in (Keys \intersect {}) \ muddled' : KeyWord(k)'
    BY <1>1, <1>2
  <1> QED
    BY ONLY <1>3, WordInv, WordsApart

\* No request leaves a word behind that the tables contradict.
LEMMA RequestWord ==
  ASSUME AccessInv, WordInv, NEW q \in Requests, Request(q)
  PROVE  WordInv'
  <1> USE TypeParts
  <1>0. /\ Idle.op = "idle" /\ Idle \in RequestRecords
        /\ \A p \in Requests \ {q} : request'[p] = request[p]
    BY RequestTables DEF Idle, RequestRecords
  <1>1. CASE SetRolePermissions(q)
    <2>1. UNCHANGED <<account, key, word, muddled>> /\ db'.assigned = db.assigned
      <3>1. db \in DbRecords
        BY DEF StartupInv, StartupTypeOK, DbRecords
      <3>2. ASSUME NEW e \in Edits, CommitPermissions(q, e[1], e[2])
            PROVE  db'.assigned = db.assigned
        BY <3>1, <3>2 DEF CommitPermissions, DbRecords
      <3> QED
        BY <1>1, <3>2
        DEF SetRolePermissions, CommitPermissions, LoadMatrix, StoreCache, LoadFails, startVars
    <2>2. request[q].op # "assign"
      <3>1. [op |-> "load"] \in RequestRecords
        BY DEF RequestRecords
      <3>2. ASSUME NEW e \in Edits, CommitPermissions(q, e[1], e[2])
            PROVE  request[q] = Idle
        BY <3>1, <3>2, BeginsOutcome DEF CommitPermissions
      <3> QED
        BY <1>0, <1>1, <3>2 DEF SetRolePermissions, LoadMatrix, StoreCache, LoadFails
    <2>3. request'[q].op # "assign"
      <3>1. ASSUME NEW e \in Edits, CommitPermissions(q, e[1], e[2])
            PROVE  request'[q].op # "assign"
        <4>1. [op |-> "load"] \in RequestRecords
          BY DEF RequestRecords
        <4>2. request'[q] = [op |-> "load"]
          BY <3>1, <4>1, BeginsOutcome DEF CommitPermissions
        <4> QED
          BY <4>2
      <3>2. CASE LoadMatrix(q)
        <4>1. at = "serving"
          BY <1>1, PermissionsTyped
        <4>2. [op |-> "store", loaded |-> View] \in RequestRecords
          BY <4>1, ViewTyped DEF RequestRecords
        <4>3. request'[q] = [op |-> "store", loaded |-> View]
          BY <3>2, <4>2, ContinuesOutcome DEF LoadMatrix
        <4> QED
          BY <4>3
      <3>3. CASE StoreCache(q) \/ LoadFails(q)
        BY <1>0, <3>3, EndsOutcome DEF StoreCache, LoadFails
      <3> QED
        BY <1>1, <3>1, <3>2, <3>3 DEF SetRolePermissions
    <2> QED
      BY <1>0, <2>1, <2>2, <2>3, SilentStep
  <1>2. CASE BeginAccount(q)
    <2>1. /\ UNCHANGED <<account, key, word, muddled>> /\ UNCHANGED startVars
          /\ request[q] = Idle /\ request'[q].op \in {"create", "user", "password"}
      BY <1>2, BeginAccountTyped
    <2> QED
      BY <1>0, <2>1, SilentStep DEF startVars
  <1>3. CASE SaveAccount(q) \/ SetRoles(q) \/ SetRolesFails(q)
    BY <1>3, AccountWordStep
  <1>4. ASSUME NEW a \in Accounts, DeleteUser(q, a)
        PROVE  WordInv'
    <2>1. request[q] = Idle /\ request'[q] = Idle
      BY <1>0, <1>4, BeginsOutcome DEF DeleteUser
    <2>2. /\ account' = [account EXCEPT ![a] = Absent] /\ UNCHANGED <<startVars, key>>
          /\ Says(q, a, Saying(Absent, RolesOf(a)))
          /\ account \in [Accounts -> AccountRow \union {Absent}]
      BY <1>4 DEF DeleteUser, AccessTypes
    <2>3. /\ muddled \subseteq muddled'
          /\ \A y \in (Accounts \union Keys) \ {a} : word'[y] = word[y]
          /\ a \notin muddled' =>
               /\ a \notin muddled /\ word'[a] = Saying(Absent, RolesOf(a))
               /\ \A p \in Requests \ {q} : ~Assigning(p, a)
      BY <2>2, SaysFacts
    <2>4. \A b \in Accounts : RolesOf(b)' = RolesOf(b)
      BY <2>2 DEF startVars, RolesOf
    <2>5. a \notin muddled' => AccountWord(a)'
      BY <1>0, <2>1, <2>2, <2>3, <2>4 DEF AccountWord, Assigning, Saying, Heeds
    <2>6. \A b \in Accounts \ {a}, p \in Requests :
            Assigning(p, b) \/ Assigning(p, b)' => request'[p] = request[p]
      BY <1>0, <2>1 DEF Assigning
    <2>7. a \notin Keys /\ key' = key
      BY <2>2, AccessAssumption
    <2>8. \A b \in Accounts \ {a} : account'[b] = account[b] /\ RolesOf(b)' = RolesOf(b)
      BY <2>2, <2>4
    <2> QED
      BY <2>3, <2>5, <2>6, <2>7, <2>8, OthersApart
  <1>5. ASSUME NEW k \in Keys, NEW a \in Accounts, CreateKey(q, k, a)
        PROVE  WordInv'
    <2> DEFINE row == [status |-> 1, perms |-> PermsForActor(Session(RolesOf(a)))]
    <2>1. /\ Begins(q, Idle) /\ key' = [key EXCEPT ![k] = row] /\ Says(q, k, Saying(row, {}))
          /\ UNCHANGED <<startVars, account>>
      BY <1>5 DEF CreateKey
    <2> HIDE DEF row
    <2>2. request[q] = Idle /\ request'[q] = Idle
      BY <1>0, <2>1, BeginsOutcome
    <2>3. PICK w : w = row
      OBVIOUS
    <2>4. key' = [key EXCEPT ![k] = w] /\ Says(q, k, Saying(w, {}))
      BY <2>1, <2>3
    <2> QED
      BY <1>0, <2>1, <2>2, <2>4, KeyWordStep
  <1>6. ASSUME NEW k \in Keys, DeleteKey(q, k)
        PROVE  WordInv'
    <2>1. /\ Begins(q, Idle) /\ key' = [key EXCEPT ![k] = Absent] /\ Says(q, k, Saying(Absent, {}))
          /\ UNCHANGED <<startVars, account>>
      BY <1>6 DEF DeleteKey
    <2>2. request[q] = Idle /\ request'[q] = Idle
      BY <1>0, <2>1, BeginsOutcome
    <2> QED
      BY <1>0, <2>1, <2>2, KeyWordStep
  <1>7. ASSUME NEW k \in Keys, NEW s \in {0, 1}, BeginToggle(q, k, s)
        PROVE  WordInv'
    <2> DEFINE new == [op |-> "key", on |-> k, row |-> [key[k] EXCEPT !.status = s]]
    <2>1. Begins(q, new) /\ UNCHANGED <<startVars, account, key, word, muddled>>
      BY <1>7 DEF BeginToggle
    <2>2. new \in RequestRecords /\ new.op = "key"
      <3>1. key[k] \in KeyRow
        BY <1>7 DEF BeginToggle, AccessTypes
      <3>2. [key[k] EXCEPT !.status = s] \in KeyRow
        BY <3>1 DEF KeyRow
      <3> QED
        BY <3>2 DEF RequestRecords
    <2> HIDE DEF new
    <2>3. request[q] = Idle /\ request'[q] = new
      BY <2>1, <2>2, BeginsOutcome
    <2>4. request[q].op # "assign" /\ request'[q].op # "assign" /\ db'.assigned = db.assigned
      BY <1>0, <2>1, <2>2, <2>3 DEF startVars
    <2> QED
      BY <1>0, <2>1, <2>4, SilentStep
  <1>8. CASE SaveKey(q)
    <2>1. /\ request[q].op = "key" /\ request'[q] = Idle
          /\ UNCHANGED <<startVars, account>>
      BY <1>8, EndsOutcome DEF SaveKey
    <2>2. request[q].on \in Keys
      BY <2>1, RequestFacts DEF Idle
    <2>3. PICK k \in Keys, w \in {request[q].row} : k = request[q].on /\ w = request[q].row
      BY <2>2
    <2>4. key' = [key EXCEPT ![k] = w] /\ Says(q, k, Saying(w, {}))
      BY <1>8, <2>3 DEF SaveKey
    <2> QED
      BY <1>0, <2>1, <2>4, KeyWordStep
  <1>9. CASE Abort(q)
    <2>1. /\ request[q].op \in {"create", "user", "password", "key"} /\ request'[q] = Idle
          /\ UNCHANGED <<startVars, account, key, word, muddled>>
      BY <1>9, EndsOutcome DEF Abort
    <2> QED
      BY <1>0, <2>1, SilentStep DEF startVars
  <1> QED
    BY <1>1, <1>2, <1>3, <1>4, <1>5, <1>6, <1>7, <1>8, <1>9 DEF Request

\* Once the server has served, its database stays settled through every restart.
LEMMA SettledStep ==
  AccessInv /\ SettledInv /\ [Next]_<<startVars, accessVars>> => SettledInv'
  <1> SUFFICES ASSUME AccessInv, SettledInv, [Next]_<<startVars, accessVars>> PROVE SettledInv'
    OBVIOUS
  <1> USE TypeParts
  <1>1. CASE (Boot \/ Restart) /\ UNCHANGED accessVars
    BY <1>1, SettledBoot DEF SettledInv, accessVars
  <1>2. CASE ServeWithCache
    BY <1>2 DEF ServeWithCache, Serve, Step, SettledInv, SeedSteps, MigrateSteps
  <1>3. CASE CrashAll
    <2>1. at' = "down" /\ db' = db
      BY <1>3 DEF CrashAll, Crash
    <2>2. \A x \in Accounts \union Keys : word'[x] # Absent => word[x] # Absent
      BY <1>3 DEF CrashAll, Muddles, AccessTypes
    <2> QED
      BY <2>1, <2>2 DEF SettledInv, SeedSteps, MigrateSteps
  <1>4. ASSUME NEW q \in Requests, Request(q)
        PROVE  SettledInv'
    <2>1. StartupInv' /\ at' = "serving"
      BY <1>4, RequestTables
    <2> QED
      BY <2>1 DEF StartupInv, OrderInv, SettledInv, CatalogSteps, SeedSteps, MigrateSteps
  <1>5. CASE UNCHANGED <<startVars, accessVars>>
    BY <1>5 DEF startVars, accessVars, SettledInv
  <1> QED
    BY <1>1, <1>2, <1>3, <1>4, <1>5 DEF Next

\* Neither does any other step, a restart included.
LEMMA WordStep ==
  AccessInv /\ SettledInv /\ WordInv /\ [Next]_<<startVars, accessVars>> => WordInv'
  <1> SUFFICES ASSUME AccessInv, SettledInv, WordInv, [Next]_<<startVars, accessVars>>
               PROVE  WordInv'
    OBVIOUS
  <1> USE TypeParts
  <1>1. ASSUME UNCHANGED <<account, key, request, word, muddled>>,
               (\E x \in Accounts \union Keys : word[x] # Absent) => db'.assigned = db.assigned
        PROVE  WordInv'
    <2>1. ASSUME NEW a \in Accounts \ muddled PROVE AccountWord(a)'
      <3>1. AccountWord(a)
        BY DEF WordInv
      <3>2. word[a] # Absent => RolesOf(a)' = RolesOf(a)
        BY <1>1 DEF RolesOf
      <3>3. \A q \in Requests : Assigning(q, a)' <=> Assigning(q, a)
        BY <1>1 DEF Assigning
      <3> QED
        BY <1>1, <3>1, <3>2, <3>3 DEF AccountWord
    <2>2. \A k \in Keys \ muddled : KeyWord(k)'
      BY <1>1 DEF WordInv, KeyWord
    <2> QED
      BY <1>1, <2>1, <2>2 DEF WordInv
  <1>2. CASE (Boot \/ Restart) /\ UNCHANGED accessVars
    BY <1>1, <1>2, SettledBoot DEF SettledInv, accessVars
  <1>3. CASE ServeWithCache
    BY <1>1, <1>3 DEF ServeWithCache, Serve, Step
  <1>4. CASE CrashAll
    <2> DEFINE xs == UNION {On(q) : q \in Requests}
    <2>1. PICK lost : lost = xs
      OBVIOUS
    <2>2. /\ Muddles(lost) /\ UNCHANGED <<account, key, db>>
          /\ \A q \in Requests : request'[q] = Idle
      BY <1>4, <2>1 DEF CrashAll, Crash
    <2>3. /\ muddled' = muddled \union lost
          /\ \A y \in (Accounts \union Keys) \ lost : word'[y] = word[y]
      BY <2>2, MuddlesFacts
    <2>4. \A a \in Accounts \ lost, p \in Requests : ~Assigning(p, a) /\ ~Assigning(p, a)'
      <3>1. \A a \in Accounts \ lost, p \in Requests : a \notin On(p)
        BY <2>1
      <3> QED
        BY <2>2, <3>1, AssigningIsOn DEF Assigning, Idle
    <2>5. \A a \in Accounts : RolesOf(a)' = RolesOf(a)
      BY <2>2 DEF RolesOf
    <2>6. /\ \A a \in (Accounts \intersect lost) \ muddled' : AccountWord(a)'
          /\ \A k \in (Keys \intersect lost) \ muddled' : KeyWord(k)'
      BY <2>3
    <2> HIDE DEF xs
    <2> QED
      BY <2>2, <2>3, <2>4, <2>5, <2>6, WordsApart
  <1>5. ASSUME NEW q \in Requests, Request(q)
        PROVE  WordInv'
    BY <1>5, RequestWord
  <1>6. CASE UNCHANGED <<startVars, accessVars>>
    BY <1>1, <1>6 DEF startVars, accessVars
  <1> QED
    BY <1>2, <1>3, <1>4, <1>5, <1>6 DEF Next

(* What the last acknowledged request asked for an account or key is what is stored,  *)
(* a status of 0 apart, for any number of concurrent requests and crashes, unless     *)
(* requests on it overlapped, failed half-way or were lost: the row and its roles are *)
(* written by two transactions, and no start comes between the word and the tables    *)
(* (rbac_service.go, CreateUser and UpdateUser).                                      *)
THEOREM WordsStand == Spec => []LastWordStands
  <1>1. Init => SettledInv /\ WordInv
    BY DEF Init, SettledInv, WordInv, AccountWord, KeyWord, Assigning, Idle
  <1>2. Spec => [](SettledInv /\ WordInv)
    BY <1>1, SettledStep, WordStep, AlwaysAccess, PTL DEF Spec
  <1>3. WordInv => LastWordStands
    <2>1. \A a \in Accounts : (\A q \in Requests : a \notin On(q))
            => \A q \in Requests : ~Assigning(q, a)
      BY AssigningIsOn
    <2> QED
      BY <2>1 DEF WordInv, AccountWord, KeyWord, LastWordStands, Answered
  <1> QED
    BY <1>2, <1>3, PTL
=============================================================================
