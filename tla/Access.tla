-------------------------------- MODULE Access ---------------------------------
(***************************************************************************)
(* Permissions, accounts and API keys of a running server                  *)
(* (internal/service/rbac_service.go, auth_service.go, api_key_service.go, *)
(* internal/repo/rbac_repo.go).                                            *)
(*                                                                         *)
(* The permission cache is filled by loading the tables and replacing the  *)
(* map later; accounts and keys are read, changed in memory and saved as   *)
(* whole rows.  Composes Startup: a restart loses the requests and fills   *)
(* the cache again.                                                        *)
(***************************************************************************)
EXTENDS Startup

CONSTANTS
  Passwords,
  Edits,       \* bound: roles and permissions SetRolePermissions is called with
  GivenRoles,  \* bound: roles an account is given
  Keys,        \* ids of sys_api_key
  Requests,    \* goroutines
  MaxRequests  \* bound: requests begun

ASSUME AccessAssumption ==
  /\ Edits \subseteq NewRoles \X (SUBSET Perms)
  /\ GivenRoles \subseteq SUBSET NewRoles
  /\ Accounts \intersect Keys = {}
  /\ MaxRequests \in Nat

VARIABLES
  cache,     \* RBACService.cache, as pairs of role and permission
  account,   \* rows of sys_user
  key,       \* rows of sys_api_key
  request,   \* what each goroutine has read
  begun,     \* requests begun so far
  disturbed, \* history: permission changes overlapped, or a refresh failed
  word,      \* history: what the last acknowledged request said of an account or key
  muddled    \* history: accounts and keys of overlapping, failed or lost requests

accessVars == <<cache, account, key, request, begun, disturbed, word, muddled>>

Absent == [status |-> -1]
Idle == [op |-> "idle"]
AccountRow == [status : {0, 1, 2}, password : Passwords]
KeyRow == [status : {0, 1}, perms : SUBSET Perms]

\* An account's row is as a request said, but for a status of 0, which is not heeded.
Heeds(row, said) ==
  row = said \/ (said.status = 0 /\ row # Absent /\ row.password = said.password)

AccountRequests ==
  {r \in [op : {"create", "user", "password", "assign"}, on : Accounts, row : AccountRow,
          said : AccountRow, roles : SUBSET NewRoles] : Heeds(r.row, r.said)}
RequestRecords ==
  [op : {"load"}]
    \union [op : {"store"}, loaded : SUBSET (NewRoles \X Perms)]
    \union AccountRequests
    \union [op : {"key"}, on : Keys, row : KeyRow]
    \union {Idle}
Words ==
  {Absent} \union [row : AccountRow \union KeyRow \union {Absent}, roles : SUBSET NewRoles]

TypeOK ==
  /\ StartupTypeOK
  /\ cache \subseteq NewRoles \X Perms
  /\ account \in [Accounts -> AccountRow \union {Absent}]
  /\ key \in [Keys -> KeyRow \union {Absent}]
  /\ request \in [Requests -> RequestRecords]
  /\ begun \in 0..MaxRequests
  /\ disturbed \in BOOLEAN
  /\ word \in [Accounts \union Keys -> Words]
  /\ muddled \subseteq Accounts \union Keys

RolesOf(a) == {r \in NewRoles : <<a, r>> \in db.assigned}
Saying(row, roles) == [row |-> row, roles |-> roles]

\* The accounts of a legacy deployment are those that hold a role.
Init ==
  /\ StartupInit
  /\ \E p \in Passwords :
       account = [a \in Accounts |-> IF \E r \in Legacy \union {Admin} : <<a, r>> \in db.assigned
                                     THEN [status |-> 1, password |-> p] ELSE Absent]
  /\ cache = {}
  /\ key = [k \in Keys |-> Absent]
  /\ request = [q \in Requests |-> Idle]
  /\ begun = 0
  /\ disturbed = FALSE
  /\ word = [x \in Accounts \union Keys |-> Absent]
  /\ muddled = {}

-----------------------------------------------------------------------------
\* What RefreshCache makes of the tables: rows whose role is not there are skipped.
View == {g \in db.matrix : g[1] \in db.roles}

\* An API key carries its own permissions, none meaning all; a session its roles.
HasPerm(actor, p) ==
  \/ actor.keyAuth /\ (actor.perms = {} \/ p \in actor.perms)
  \/ ~actor.keyAuth /\ (Admin \in actor.roles \/ \E r \in actor.roles : <<r, p>> \in cache)

Session(roles) == [keyAuth |-> FALSE, roles |-> roles, perms |-> {}]
PermsForActor(actor) == {p \in db.perms : HasPerm(actor, p)}

\* Login with the right password; the token carries the roles held now.
CanLogin(a) == account[a].status = 1

Open(q) == request[q] # Idle
Begins(q, r) ==
  /\ at = "serving" /\ ~Open(q) /\ begun < MaxRequests
  /\ begun' = begun + 1
  /\ request' = [request EXCEPT ![q] = r]
Continues(q, r) == request' = [request EXCEPT ![q] = r] /\ UNCHANGED begun
Ends(q) == Continues(q, Idle)

On(q) == IF request[q].op \in {"idle", "load", "store"} THEN {} ELSE {request[q].on}
Shared(q, x) == \E p \in Requests \ {q} : x \in On(p)

\* The words on x after a request that said w ended, other requests on x being open or not.
Says(q, x, w) ==
  IF Shared(q, x) THEN /\ muddled' = muddled \union {x}
                       /\ word' = [word EXCEPT ![x] = Absent]
  ELSE /\ word' = [word EXCEPT ![x] = w]
       /\ UNCHANGED muddled

\* What is known of the accounts and keys whose requests died.
Muddles(xs) ==
  /\ muddled' = muddled \union xs
  /\ word' = [x \in DOMAIN word |-> IF x \in xs THEN Absent ELSE word[x]]

\* SetRolePermissions: the rows of the role are replaced in one transaction ...
CommitPermissions(q, r, ps) ==
  /\ Begins(q, [op |-> "load"])
  /\ r \in db.roles
  /\ db' = [db EXCEPT !.matrix = {g \in @ : g[1] # r} \union ({r} \X (ps \intersect db.perms))]
  /\ disturbed' = \E p \in Requests : request[p].op \in {"load", "store"}
  /\ UNCHANGED <<at, catalog, captured, crashes, torn, owed>>
  /\ UNCHANGED <<cache, account, key, word, muddled>>

\* ... then RefreshCache reads the tables ...
LoadMatrix(q) ==
  /\ request[q].op = "load"
  /\ Continues(q, [op |-> "store", loaded |-> View])
  /\ UNCHANGED <<startVars, cache, account, key, disturbed, word, muddled>>

\* Mutant of Reloaded: the new entries are added to the old map.
ReloadedOnTop(q) == cache \union request[q].loaded

Reloaded(q) == request[q].loaded

\* ... and replaces the map.
StoreCache(q) ==
  /\ request[q].op = "store"
  /\ cache' = Reloaded(q)
  /\ Ends(q)
  /\ UNCHANGED <<startVars, account, key, disturbed, word, muddled>>

LoadFails(q) ==
  /\ request[q].op = "load"
  /\ disturbed' = TRUE
  /\ Ends(q)
  /\ UNCHANGED <<startVars, cache, account, key, word, muddled>>

SetRolePermissions(q) ==
  \/ \E e \in Edits : CommitPermissions(q, e[1], e[2])
  \/ LoadMatrix(q) \/ StoreCache(q) \/ LoadFails(q)

-----------------------------------------------------------------------------
\* CreateUser: no such account yet.  The form sends a status, which is not looked at.
BeginCreate(q, a, p, s, rs) ==
  /\ account[a] = Absent /\ word[a] = Absent /\ \A o \in Requests : a \notin On(o)
  /\ Begins(q, [op |-> "create", on |-> a, row |-> [status |-> 1, password |-> p],
                said |-> [status |-> s, password |-> p], roles |-> rs])

\* What the body gives, if anything, replaces what was read.
Given(xs, old) == IF xs = {} THEN old ELSE CHOOSE x \in xs : TRUE

\* Mutant of Edited: the status stays as it was read.
EditedNoStatus(row, ps, ss) == [row EXCEPT !.password = Given(ps, @)]

\* The row as it was read, edited as the body says; a status of 0 counts as none.
Edited(row, ps, ss) ==
  [row EXCEPT !.password = Given(ps, @), !.status = Given(ss \ {0}, @)]

\* What the client that sends such a body asks for.
Said(row, ps, ss) ==
  [row EXCEPT !.password = Given(ps, @), !.status = Given(ss, @)]

BeginUpdate(q, a, ps, ss, rs) ==
  /\ account[a] # Absent
  /\ Begins(q, [op |-> "user", on |-> a, row |-> Edited(account[a], ps, ss),
                said |-> Said(account[a], ps, ss), roles |-> rs])

\* ChangePassword, by somebody logged in who knows the old one.
BeginPassword(q, a, p) ==
  /\ CanLogin(a)
  /\ Begins(q, [op |-> "password", on |-> a, row |-> Edited(account[a], {p}, {}),
                said |-> Said(account[a], {p}, {}), roles |-> {}])

\* The web form sends 1 (enabled) or 0 (disabled); any other status disables as well.
BeginAccount(q) ==
  /\ \E a \in Accounts, p \in Passwords, s \in {0, 1, 2}, rs \in GivenRoles :
       \/ s # 2 /\ BeginCreate(q, a, p, s, rs)
       \/ BeginUpdate(q, a, {p}, {}, rs)
       \/ BeginUpdate(q, a, {}, {s}, rs)
       \/ BeginUpdate(q, a, {p}, {s}, {})
       \/ BeginPassword(q, a, p)
  /\ UNCHANGED <<startVars, cache, account, key, disturbed, word, muddled>>

\* The whole row is written, inserted again if it has gone; roles follow when given.
SaveAccount(q) ==
  /\ request[q].op \in {"create", "user", "password"}
  /\ LET r == request[q] IN
     /\ account' = [account EXCEPT ![r.on] = r.row]
     /\ IF r.roles = {}
        THEN Ends(q) /\ Says(q, r.on, Saying(r.said, RolesOf(r.on)))
        ELSE /\ Continues(q, [r EXCEPT !.op = "assign"])
             /\ IF Shared(q, r.on) THEN Muddles({r.on}) ELSE UNCHANGED <<word, muddled>>
  /\ UNCHANGED <<startVars, cache, key, disturbed>>

AssignedTo(a, rs) == {x \in db.assigned : x[1] # a} \union ({a} \X (rs \intersect db.roles))

\* SetRoles replaces the account's roles in one transaction of its own.
SetRoles(q) ==
  /\ request[q].op = "assign"
  /\ LET r == request[q] IN
     /\ db' = [db EXCEPT !.assigned = AssignedTo(r.on, r.roles)]
     /\ owed' = {x \in owed : x[1] # r.on}
     /\ Says(q, r.on, Saying(r.said, r.roles \intersect db.roles))
  /\ Ends(q)
  /\ UNCHANGED <<at, catalog, captured, crashes, torn>>
  /\ UNCHANGED <<cache, account, key, disturbed>>

\* The row is saved, the roles are not, and the client is told it failed.
SetRolesFails(q) ==
  /\ request[q].op = "assign"
  /\ Muddles({request[q].on})
  /\ Ends(q)
  /\ UNCHANGED <<startVars, cache, account, key, disturbed>>

\* The role rows stay behind, under an id no account gets again.
DeleteUser(q, a) ==
  /\ account[a] # Absent
  /\ Begins(q, Idle)
  /\ account' = [account EXCEPT ![a] = Absent]
  /\ Says(q, a, Saying(Absent, RolesOf(a)))
  /\ UNCHANGED <<startVars, cache, key, disturbed>>

-----------------------------------------------------------------------------
\* The permissions the owner's session has at the time are written into the key.
CreateKey(q, k, a) ==
  /\ key[k] = Absent /\ word[k] = Absent /\ CanLogin(a) /\ k \notin muddled
  /\ Begins(q, Idle)
  /\ LET row == [status |-> 1, perms |-> PermsForActor(Session(RolesOf(a)))] IN
     /\ key' = [key EXCEPT ![k] = row]
     /\ Says(q, k, Saying(row, {}))
  /\ UNCHANGED <<startVars, cache, account, disturbed>>

\* Disable and Enable read the key and save all of it.
BeginToggle(q, k, s) ==
  /\ key[k] # Absent
  /\ Begins(q, [op |-> "key", on |-> k, row |-> [key[k] EXCEPT !.status = s]])
  /\ UNCHANGED <<startVars, cache, account, key, disturbed, word, muddled>>

SaveKey(q) ==
  /\ request[q].op = "key"
  /\ LET r == request[q] IN
     /\ key' = [key EXCEPT ![r.on] = r.row]
     /\ Says(q, r.on, Saying(r.row, {}))
  /\ Ends(q)
  /\ UNCHANGED <<startVars, cache, account, disturbed>>

DeleteKey(q, k) ==
  /\ key[k] # Absent
  /\ Begins(q, Idle)
  /\ key' = [key EXCEPT ![k] = Absent]
  /\ Says(q, k, Saying(Absent, {}))
  /\ UNCHANGED <<startVars, cache, account, disturbed>>

\* A request stops before it has written anything.
Abort(q) ==
  /\ request[q].op \in {"create", "user", "password", "key"}
  /\ Ends(q)
  /\ UNCHANGED <<startVars, cache, account, key, disturbed, word, muddled>>

-----------------------------------------------------------------------------
\* RefreshCache before the engine runs.
ServeWithCache ==
  /\ Serve
  /\ cache' = View
  /\ disturbed' = FALSE
  /\ UNCHANGED <<account, key, request, begun, word, muddled>>

\* Memory is lost, and with it every request; those on an account or key may have written.
CrashAll ==
  /\ Crash
  /\ cache' = {}
  /\ request' = [q \in Requests |-> Idle]
  /\ Muddles(UNION {On(q) : q \in Requests})
  /\ UNCHANGED <<account, key, begun, disturbed>>

Request(q) ==
  \/ SetRolePermissions(q)
  \/ BeginAccount(q) \/ SaveAccount(q) \/ SetRoles(q) \/ SetRolesFails(q)
  \/ \E a \in Accounts : DeleteUser(q, a) \/ \E k \in Keys : CreateKey(q, k, a)
  \/ \E k \in Keys : DeleteKey(q, k) \/ \E s \in {0, 1} : BeginToggle(q, k, s)
  \/ SaveKey(q) \/ Abort(q)

Next ==
  \/ (Boot \/ Restart) /\ UNCHANGED accessVars
  \/ ServeWithCache
  \/ CrashAll
  \/ \E q \in Requests : Request(q)

\* main, once started, runs on until it serves.
Fairness == WF_<<startVars, accessVars>>((Boot \/ Serve) /\ at # "serving" /\ Next)

Spec == Init /\ [][Next]_<<startVars, accessVars>> /\ Fairness

-----------------------------------------------------------------------------
(* What a session may do is what the tables grant its roles, with no change of        *)
(* permissions open and unless two of them overlapped or a refresh failed since the   *)
(* last start: the cache was filled by the one that loaded last, not by the one that  *)
(* wrote last.                                                                        *)
AccessFollowsTable ==
  at = "serving" /\ ~disturbed /\ (\A q \in Requests : request[q].op \notin {"load", "store"})
    => \A rs \in SUBSET NewRoles, p \in Perms :
         HasPerm(Session(rs), p) <=> Admin \in rs \/ \E r \in rs : <<r, p>> \in View

\* Accounts of which the last request has been acknowledged, with no other in its way.
Answered ==
  {a \in Accounts \ muddled : word[a] # Absent /\ \A q \in Requests : a \notin On(q)}

(* What the last acknowledged request asked for an account or a key is what the       *)
(* tables hold, the row and the roles, unless requests on it overlapped, failed half- *)
(* way or were lost: nothing an earlier request read comes back, and no crash undoes  *)
(* it.  One thing that is asked and not done is excused (Heeds): a status of 0, which  *)
(* the form sends to disable an account and the code passes over.                     *)
LastWordStands ==
  at = "serving" =>
    /\ \A a \in Answered : Heeds(account[a], word[a].row) /\ word[a].roles = RolesOf(a)
    /\ \A k \in Keys \ muddled : word[k] # Absent => word[k].row = key[k]
================================================================================
