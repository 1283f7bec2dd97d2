-------------------------------- MODULE Startup --------------------------------
(***************************************************************************)
(* What the server does to the role tables before it serves                *)
(* (internal/service/rbac_seed.go, called in order by cmd/server/main.go). *)
(*                                                                         *)
(* None of it runs in a transaction: every statement commits by itself, so *)
(* the process can die between any two of them and begins again at the     *)
(* top.  Rows are named by their codes; a map in Go is ranged over in any  *)
(* order, so the rows of a loop are written in any order.                  *)
(***************************************************************************)
EXTENDS Integers, FiniteSets

CONSTANTS
  Accounts,   \* ids of sys_user beyond the two seeded administrators
  MaxCrashes  \* bound: deaths of the process

ASSUME StartupAssumption == MaxCrashes \in Nat

VARIABLES
  db,       \* the tables: tenants, roles, modules, perms, matrix, assigned, adopted
  at,       \* the statement that runs next, "serving", "down", or "failed"
  catalog,  \* which of the Catalogs is being ensured
  captured, \* memory of MigrateRoles: the assignments it read
  crashes,
  torn,     \* history: which of "seed" and "migrate" a crash cut short
  owed      \* history: the roles the accounts held when the legacy roles were found

startVars == <<db, at, catalog, captured, crashes, torn, owed>>

Admin == "admin"
NewRoles == {Admin, "procurement_manager", "qc"}
Legacy == {"category_manager", "committee", "finance"}
NoRole == "role 0"
SeededAdmins == {"admin@platform", "admin@demo"}
Users == SeededAdmins \union Accounts

\* The closest new role of a legacy one; finance has none.
Successor == [r \in {Admin, "category_manager", "committee"} |->
                IF r = Admin THEN Admin ELSE "procurement_manager"]

BaseModules == {"purchase", "system"}
BasePerms == {"po:approve", "po:receive"}
BaseGrants == {<<"procurement_manager", "po:approve">>, <<"qc", "po:receive">>}

Everyone(p) == NewRoles \X {p}
\* The four Ensure functions, their permissions cut down to those that differ in who gets
\* them.  Two bring their module, two need it there; one does not ask whether a role exists.
RNDCatalog ==
  [module |-> "rnd", brings |-> TRUE, perms |-> {"bom:view"}, anyRole |-> TRUE,
   grants |-> Everyone("bom:view")]
AuditCatalog ==
  [module |-> "system", brings |-> FALSE, perms |-> {"audit:view"}, anyRole |-> FALSE,
   grants |-> {Admin, "procurement_manager"} \X {"audit:view"}]
ApprovalCatalog ==
  [module |-> "system", brings |-> FALSE, perms |-> {"approval:view", "approval:manage"},
   anyRole |-> FALSE,
   grants |-> Everyone("approval:view")
                \union ({Admin, "procurement_manager"} \X {"approval:manage"})]
LogisticsCatalog ==
  [module |-> "logistics", brings |-> TRUE, perms |-> {"logistics:view"}, anyRole |-> FALSE,
   grants |-> Everyone("logistics:view")]
Catalogs == <<RNDCatalog, AuditCatalog, ApprovalCatalog, LogisticsCatalog>>

Perms == BasePerms \union UNION {Catalogs[i].perms : i \in DOMAIN Catalogs}
Modules == BaseModules \union {Catalogs[i].module : i \in DOMAIN Catalogs}

SeedSteps == {"platform", "roles", "modules", "perms", "matrix", "admins", "adopt"}
MigrateSteps == {"wipeMatrix", "wipeRoles", "newRoles", "newMatrix", "remap"}
CatalogSteps == {"module", "perm", "grant"}
Steps == {"start", "legacy", "wipeAssigned", "refresh", "serving", "down", "failed"}
           \union SeedSteps \union MigrateSteps \union CatalogSteps

StartupTypeOK ==
  /\ db \in [tenants : SUBSET {"demo", "platform"}, roles : SUBSET (NewRoles \union Legacy),
             modules : SUBSET Modules, perms : SUBSET Perms,
             matrix : SUBSET ((NewRoles \union Legacy \union {NoRole}) \X Perms),
             assigned : SUBSET (Users \X (NewRoles \union Legacy)), adopted : BOOLEAN]
  /\ at \in Steps /\ catalog \in 0..Cardinality(DOMAIN Catalogs)
  /\ captured \subseteq Users \X (NewRoles \union Legacy)
  /\ crashes \in 0..MaxCrashes
  /\ torn \subseteq {"seed", "migrate"}
  /\ owed \subseteq Users \X NewRoles

\* A new database, or one that still has the legacy roles and accounts that hold them.
FreshDb == [tenants |-> {}, roles |-> {}, modules |-> {}, perms |-> {}, matrix |-> {},
            assigned |-> {}, adopted |-> FALSE]
LegacyDb(held) ==
  [tenants |-> {"demo", "platform"}, roles |-> Legacy \union {Admin},
   modules |-> BaseModules, perms |-> BasePerms,
   matrix |-> {<<"committee", "po:approve">>}, assigned |-> held, adopted |-> TRUE]

StartupInit ==
  /\ \/ db = FreshDb
     \/ \E held \in SUBSET (Accounts \X (Legacy \union {Admin})) : db = LegacyDb(held)
  /\ at = "start"
  /\ catalog = 0
  /\ captured = {}
  /\ crashes = 0
  /\ torn = {}
  /\ owed = {}

-----------------------------------------------------------------------------
Step(from, to, new) ==
  /\ at = from
  /\ db' = new
  /\ at' = to
  /\ UNCHANGED <<catalog, captured, crashes, torn, owed>>

\* One row of those still to be written; the loop ends when there is none.
Loop(from, to, missing, Write(_)) ==
  /\ at = from
  /\ IF missing = {} THEN at' = to /\ UNCHANGED db
     ELSE at' = from /\ \E x \in missing : db' = Write(x)
  /\ UNCHANGED <<catalog, captured, crashes, torn, owed>>

Granted(g) == [db EXCEPT !.matrix = @ \union {g}]
Assigned(a) == [db EXCEPT !.assigned = @ \union {a}]

\* SeedRBAC: nothing at all once there is a tenant.
SeedDemo ==
  Step("start", IF db.tenants = {} THEN "platform" ELSE "legacy",
       IF db.tenants = {} THEN [db EXCEPT !.tenants = {"demo"}] ELSE db)
SeedPlatform == Step("platform", "roles", [db EXCEPT !.tenants = @ \union {"platform"}])
SeedRoles == Step("roles", "modules", [db EXCEPT !.roles = NewRoles])
SeedModules == Step("modules", "perms", [db EXCEPT !.modules = BaseModules])
SeedPerms == Step("perms", "matrix", [db EXCEPT !.perms = BasePerms])
SeedMatrix ==
  Loop("matrix", "admins", (({Admin} \X BasePerms) \union BaseGrants) \ db.matrix, Granted)
SeedAdmins == Loop("admins", "adopt", (SeededAdmins \X {Admin}) \ db.assigned, Assigned)
\* Business rows of tenant 0 become the demo tenant's.
SeedAdopt == Step("adopt", "legacy", [db EXCEPT !.adopted = TRUE])

SeedRBAC ==
  \/ SeedDemo \/ SeedPlatform \/ SeedRoles \/ SeedModules \/ SeedPerms
  \/ SeedMatrix \/ SeedAdmins \/ SeedAdopt

SuccessorsOf(held) == {<<a[1], Successor[a[2]]>> : a \in {b \in held : b[2] \in DOMAIN Successor}}

\* Mutant of CaptureAssigned: they are read after they have been deleted.
CaptureNothing == captured' = {}

CaptureAssigned == captured' = db.assigned

\* MigrateRoles: only when a legacy role is found.
FindLegacy ==
  /\ at = "legacy"
  /\ IF db.roles \intersect Legacy = {}
     THEN /\ at' = "module" /\ catalog' = 1
          /\ UNCHANGED <<captured, owed>>
     ELSE /\ at' = "wipeAssigned"
          /\ CaptureAssigned
          /\ owed' = owed \union SuccessorsOf(db.assigned)
          /\ UNCHANGED catalog
  /\ UNCHANGED <<db, crashes, torn>>

WipeAssigned == Step("wipeAssigned", "wipeMatrix", [db EXCEPT !.assigned = {}])
WipeMatrix == Step("wipeMatrix", "wipeRoles", [db EXCEPT !.matrix = {}])
WipeRoles == Step("wipeRoles", "newRoles", [db EXCEPT !.roles = {}])
SeedNewRoles == Step("newRoles", "newMatrix", [db EXCEPT !.roles = NewRoles])
\* The administrator gets every permission there is, the others what is known of theirs.
SeedNewMatrix ==
  Loop("newMatrix", "remap",
       (({Admin} \X db.perms) \union {g \in BaseGrants : g[2] \in db.perms}) \ db.matrix,
       Granted)
Remap ==
  /\ at = "remap"
  /\ LET missing == SuccessorsOf(captured) \ db.assigned IN
     IF missing = {} THEN at' = "module" /\ catalog' = 1 /\ UNCHANGED db
     ELSE /\ \E a \in missing : db' = Assigned(a)
          /\ UNCHANGED <<at, catalog>>
  /\ UNCHANGED <<captured, crashes, torn, owed>>

MigrateRoles ==
  \/ FindLegacy \/ WipeAssigned \/ WipeMatrix \/ WipeRoles
  \/ SeedNewRoles \/ SeedNewMatrix \/ Remap

\* Mutant of FindModule: every catalog needs its module to be there.
FindModuleOnly(c) == c.module \in db.modules

FindModule(c) == c.module \in db.modules \/ c.brings

\* Find or create the module, then the permissions, then the grants that are not there.
EnsureModule ==
  LET c == Catalogs[catalog] IN
  IF at = "module" /\ ~FindModule(c) THEN Step("module", "failed", db)
  ELSE Step("module", "perm", [db EXCEPT !.modules = @ \union {c.module}])
EnsurePerms ==
  Loop("perm", "grant", Catalogs[catalog].perms \ db.perms,
       LAMBDA p : [db EXCEPT !.perms = @ \union {p}])
\* A role that is not there has id 0.
Row(g) == IF g[1] \in db.roles THEN g ELSE <<NoRole, g[2]>>
Wanted(c) == {Row(g) : g \in {h \in c.grants : c.anyRole \/ h[1] \in db.roles}}
EnsureGrants ==
  /\ at = "grant"
  /\ LET missing == Wanted(Catalogs[catalog]) \ db.matrix IN
     IF missing = {}
     THEN /\ IF catalog < Cardinality(DOMAIN Catalogs)
             THEN at' = "module" /\ catalog' = catalog + 1
             ELSE at' = "refresh" /\ catalog' = 0
          /\ UNCHANGED db
     ELSE /\ \E g \in missing : db' = Granted(g)
          /\ UNCHANGED <<at, catalog>>
  /\ UNCHANGED <<captured, crashes, torn, owed>>

EnsureCatalog == EnsureModule \/ EnsurePerms \/ EnsureGrants

\* RefreshCache loaded the matrix and the engine runs.
Serve == Step("refresh", "serving", db)

\* Somebody starts the server again (restart.sh).
Restart ==
  /\ at \in {"down", "failed"}
  /\ at' = "start"
  /\ catalog' = 0
  /\ captured' = {}
  /\ UNCHANGED <<db, crashes, torn, owed>>

\* The process dies, or a statement fails and main exits.
Crash ==
  /\ at \notin {"down", "failed", "start"} /\ crashes < MaxCrashes
  /\ at' = "down"
  /\ crashes' = crashes + 1
  /\ torn' = torn \union {part \in {"seed", "migrate"} :
                \/ part = "seed" /\ at \in SeedSteps
                \/ part = "migrate" /\ at \in MigrateSteps}
  /\ UNCHANGED <<db, catalog, captured, owed>>

Boot == SeedRBAC \/ MigrateRoles \/ EnsureCatalog

StartupNext == Boot \/ Serve \/ Restart \/ Crash

StartupSpec == StartupInit /\ [][StartupNext]_startVars /\ WF_startVars(Boot \/ Serve)

-----------------------------------------------------------------------------
(* An account that held a legacy role with a successor holds the successor when the   *)
(* server serves, unless MigrateRoles was cut short: the assignments it has deleted   *)
(* are only in memory, and the next start finds no legacy role to migrate.            *)
AssignmentsSurvive == at = "serving" /\ "migrate" \notin torn => owed \subseteq db.assigned

(* A start that is not killed comes to serve, however often earlier ones were, unless *)
(* SeedRBAC was cut short: its tenants make every later start skip it, and without    *)
(* the system module the Ensure functions fail for good.                              *)
EventuallyServes ==
  at \notin {"serving", "down"} ~> (at \in {"serving", "down"} \/ "seed" \in torn)
================================================================================
