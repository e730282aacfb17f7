----------------------------- MODULE AccessControl -----------------------------
(***************************************************************************)
(* Users, their roles and case permissions, and API keys                   *)
(* (internal/auth, internal/model/{acl,users,api-keys}.go,                 *)
(* internal/handler/settings-{users,api-keys}.go, internal/cli).           *)
(*                                                                         *)
(* Access is decided by casbin's copy of the policies table.  Three things *)
(* have to agree: a user's row, the rules of the user in the table, and    *)
(* the rules in memory.  No change of them is one transaction, rows are    *)
(* read, changed and saved whole, and a case's permissions are written to  *)
(* the table behind casbin's back and then loaded.                         *)
(***************************************************************************)
EXTENDS Naturals, FiniteSets

CONSTANTS
    Users,        \* ids of users, those not yet created included
    Builtin,      \* the principals of API keys; their rows are protected
    CliUsers,     \* ids made by "create-user" (fp.Random): used once
    Roles, Administrator, ReadOnly, NoRole,
    Cases,
    Keys,         \* hashes of API keys
    KeyTypes,
    Requests,     \* concurrent requests
    NoRow, NoUser, NoKey, NoCase,
    MaxPassword,  \* bound on password changes
    MaxOps,       \* bound on requests
    MaxFails      \* bound on failing statements

ASSUME AccessAssumption ==
    /\ Builtin \subseteq Users /\ CliUsers \subseteq Users \ Builtin
    /\ {Administrator, ReadOnly} \subseteq Roles /\ Administrator # ReadOnly /\ NoRole \notin Roles
    /\ NoUser \notin Users /\ NoCase \notin Cases /\ NoKey \notin KeyTypes
    /\ NoRow \notin [role : Roles \cup {NoRole}, pw : 0..MaxPassword]
    /\ MaxPassword \in Nat /\ MaxOps \in Nat /\ MaxFails \in Nat

VARIABLES
    users,     \* the users table
    policies,  \* the policies table
    enforcer,  \* casbin's copy
    keys,      \* the api_keys table
    req,       \* what each request remembers
    \* history
    torn,      \* users two requests changed at once, or a change of whom broke off
    clash,     \* requests that overlapped in this way
    unloaded,  \* users whose rules changed in the table alone, or raced another write
    newest,    \* the last password that was set
    lost,      \* users whose row was in another request's hands at that moment
    made,      \* random ids in use or used before
    revoked,   \* keys that were deleted
    ops, fails

store == <<users, policies, enforcer, keys>>
hist  == <<torn, clash, unloaded, newest, lost, made, revoked, ops, fails>>
vars  == <<store, req, hist>>

Acts  == {"GET", "*"}
Rows  == [role : Roles \cup {NoRole}, pw : 0..MaxPassword]

\* Rules of the policies table: g gives a user a role, p a subject access.
HasRole(u, x)      == <<"g", u, x>>
MayUse(u, c, a)    == <<"p", u, c, a>>
RoleRules(u)       == {HasRole(u, x) : x \in Roles}
PermissionRules(u) == {MayUse(u, c, a) : c \in Cases, a \in Acts}
RulesOf(u)         == RoleRules(u) \cup PermissionRules(u)
Rules              == UNION {RulesOf(u) : u \in Users}

\* Nobody knows a random id before it is made.
Known == (Users \ CliUsers) \cup (made \cap Users)

Act(role) == IF role = ReadOnly THEN "GET" ELSE "*"

Idle == [op |-> "idle", pc |-> "idle", user |-> NoUser, row |-> NoRow, kase |-> NoCase,
         todo |-> {}, with |-> {}, snap |-> {}, behind |-> {}]

Ops == {"idle", "save", "acl", "delete", "case", "login", "password", "key"}
Pcs == {"idle", "row", "unrole", "role", "perms", "unperm", "perm", "delete", "purge",
        "grant", "give", "load", "install", "key"}

TypeOK ==
    /\ users \in [Users -> Rows \cup {NoRow}]
    /\ policies \subseteq Rules /\ enforcer \subseteq Rules
    /\ keys \in [Keys -> KeyTypes \cup {NoKey}]
    /\ \A r \in Requests :
         /\ req[r].op \in Ops /\ req[r].pc \in Pcs
         /\ req[r].user \in Users \cup Keys \cup {NoUser}
         /\ req[r].row \in Rows \cup KeyTypes \cup {NoRow}
         /\ req[r].kase \in Cases \cup {NoCase} /\ req[r].todo \subseteq Cases \cup Users
         /\ req[r].with \subseteq Users /\ req[r].behind \subseteq Users
         /\ req[r].snap \subseteq Rules
    /\ torn \subseteq Users \ Builtin /\ unloaded \subseteq Users /\ lost \subseteq Users
    /\ clash \subseteq Requests /\ newest \in [Users -> 0..MaxPassword]
    /\ made \subseteq CliUsers \cup Keys /\ revoked \subseteq Keys
    /\ ops \in 0..MaxOps /\ fails \in 0..MaxFails

\* The first administrator was created before the start; NewACL loaded the table.
Init ==
    /\ users \in {f \in [Users -> {[role |-> Administrator, pw |-> 0], NoRow}] :
                    \A u \in Builtin : f[u] # NoRow}
    /\ policies = {HasRole(u, Administrator) : u \in {v \in Users : users[v] # NoRow}}
    /\ enforcer = policies
    /\ keys = [k \in Keys |-> NoKey]
    /\ req = [r \in Requests |-> Idle]
    /\ torn = {} /\ clash = {} /\ unloaded = {} /\ lost = {} /\ revoked = {}
    /\ newest = [u \in Users |-> 0]
    /\ made = {u \in CliUsers : users[u] # NoRow}
    /\ ops = 0 /\ fails = 0

\* Allowed, for the settings, which only the administrators' rule covers, and
\* for the pages of a case.
IsAdministrator(u)  == HasRole(u, Administrator) \in enforcer
Allowed(u, c, act)  ==
    \/ IsAdministrator(u)
    \/ \E a \in {act, "*"} : MayUse(u, c, a) \in enforcer

-----------------------------------------------------------------------------
(* How requests begin, write and end.                                       *)

Working(r, u) == req[r].op \notin {"idle", "key"} /\ u \in req[r].with

\* Two requests that disturb each other: one of them changes the role.
Conflict(op1, op2) ==
    /\ {op1, op2} \cap {"save", "delete"} # {}
    /\ {op1, op2} \cap {"idle", "key"} = {}

Begin(r, rec) ==
    /\ req[r].op = "idle"
    /\ ops < MaxOps /\ ops' = ops + 1
    /\ req' = [req EXCEPT ![r] = rec]
    /\ LET hits == {q \in Requests : Conflict(rec.op, req[q].op) /\ req[q].with \cap rec.with # {}}
       IN  /\ torn' = torn \cup UNION {req[q].with \cap rec.with : q \in hits}
           /\ clash' = IF hits = {} THEN clash \ {r} ELSE clash \cup hits \cup {r}

\* A loader that has read the table misses what is written from then on.
Behind(reqs, us) ==
    [q \in Requests |-> IF reqs[q].pc = "install" THEN [reqs[q] EXCEPT !.behind = @ \cup us]
                        ELSE reqs[q]]

Goto(r, pc) == [req EXCEPT ![r].pc = pc]
Done(r)     == [req EXCEPT ![r] = Idle]

\* casbin's Enforcer has no lock: of two requests that write its maps and slices
\* at the same time one may lose its change, or the runtime ends the process
\* (Restart).
Racing(r) == \E q \in Requests \ {r} :
    req[q].pc \in {"unrole", "role", "unperm", "perm", "delete", "purge"}

\* AutoSave: the adapter first, then the copy.
Autosave(r, gone, new, reqs) ==
    /\ policies' = (policies \ gone) \cup new
    /\ \/ enforcer' = (enforcer \ gone) \cup new /\ UNCHANGED unloaded
       \/ Racing(r) /\ UNCHANGED enforcer /\ unloaded' = unloaded \cup {req[r].user}
    /\ req' = Behind(reqs, {req[r].user})

\* A rule that casbin has is not written, not even if the table lacks it,
\* because an older copy was installed in between.  (One that the table has and
\* casbin lacks can not be inserted: InsertFails.)
AutosaveAdd(r, rule, reqs) ==
    LET missed == rule \in enforcer \ policies
    IN  /\ IF rule \in enforcer THEN req' = reqs /\ UNCHANGED <<policies, enforcer, unloaded>>
           ELSE rule \notin policies /\ Autosave(r, {}, {rule}, reqs)
        /\ torn' = IF missed THEN torn \cup ({req[r].user} \ Builtin) ELSE torn
        /\ clash' = IF missed THEN clash \cup {r} ELSE clash

\* A change that nothing disturbed puts right what an earlier one left.
Settles(r) == torn' = IF r \in clash THEN torn ELSE torn \ {req[r].user}

-----------------------------------------------------------------------------
(* Settings: UserSave, UserSaveACL, UserDelete.                             *)

UserSave(r, u, role) ==
    /\ users[u] # NoRow
    /\ Begin(r, [Idle EXCEPT !.op = "save", !.pc = "row", !.user = u, !.with = {u} \ Builtin,
                             !.row = [users[u] EXCEPT !.role = role]])
    /\ UNCHANGED <<store, unloaded, newest, lost, made, revoked, fails>>

\* SaveUser refuses built-in users; the whole row is written, and one that is
\* gone inserted again.
SaveRow(r) ==
    LET u == req[r].user
    IN  /\ req[r].pc = "row" /\ req[r].op = "save"
        /\ IF u \in Builtin
           THEN req' = Done(r) /\ UNCHANGED users
           ELSE req' = Goto(r, "unrole") /\ users' = [users EXCEPT ![u] = req[r].row]
        /\ UNCHANGED <<policies, enforcer, keys, hist>>

\* SaveUserRole.
DeleteRoles(r) ==
    /\ req[r].pc = "unrole"
    /\ Autosave(r, RoleRules(req[r].user), {}, Goto(r, "role"))
    /\ UNCHANGED <<users, keys, torn, clash, newest, lost, made, revoked, ops, fails>>

AddRole(r) ==
    /\ req[r].pc = "role"
    /\ AutosaveAdd(r, HasRole(req[r].user, req[r].row.role), Goto(r, "perms"))
    /\ UNCHANGED <<users, keys, newest, lost, made, revoked, ops, fails>>

\* Wrong variant: the permissions are left as they are.
KeepPermissions(r) ==
    /\ req[r].pc = "perms"
    /\ Settles(r) /\ req' = Done(r)
    /\ UNCHANGED <<store, clash, unloaded, newest, lost, made, revoked, ops, fails>>

\* GetUserPermissions.
ReadPermissions(r) ==
    /\ req[r].pc = "perms"
    /\ req' = [req EXCEPT ![r].pc = "unperm",
                 ![r].todo = {c \in Cases : \E a \in Acts : MayUse(req[r].user, c, a) \in policies}]
    /\ UNCHANGED <<store, hist>>

UserSaveACL(r, u, cs) ==
    /\ users[u] # NoRow
    /\ Begin(r, [Idle EXCEPT !.op = "acl", !.pc = "unperm", !.user = u, !.with = {u} \ Builtin,
                             !.row = users[u], !.todo = cs])
    /\ UNCHANGED <<store, unloaded, newest, lost, made, revoked, fails>>

\* SaveUserPermissions.
DeletePermissions(r) ==
    /\ req[r].pc = "unperm"
    /\ Autosave(r, PermissionRules(req[r].user), {}, Goto(r, "perm"))
    /\ UNCHANGED <<users, keys, torn, clash, newest, lost, made, revoked, ops, fails>>

AddPermission(r, c) ==
    /\ req[r].pc = "perm" /\ c \in req[r].todo
    /\ AutosaveAdd(r, MayUse(req[r].user, c, Act(req[r].row.role)),
                   [req EXCEPT ![r].todo = @ \ {c}])
    /\ UNCHANGED <<users, keys, newest, lost, made, revoked, ops, fails>>

PermissionsSaved(r) ==
    /\ req[r].pc = "perm" /\ req[r].todo = {}
    /\ req' = Done(r)
    /\ IF req[r].op = "save" THEN Settles(r) ELSE UNCHANGED torn
    /\ UNCHANGED <<store, clash, unloaded, newest, lost, made, revoked, ops, fails>>

\* The users whose whole row another request holds.
Held(r, u) == \E q \in Requests \ {r} :
    req[q].user = u /\ req[q].pc = "row" /\ req[q].op \in {"save", "login"}

UserDelete(r, u) ==
    /\ u \in Known \ Builtin
    /\ Begin(r, [Idle EXCEPT !.op = "delete", !.pc = "delete", !.user = u, !.with = {u}])
    /\ users' = [users EXCEPT ![u] = NoRow]
    /\ newest' = [newest EXCEPT ![u] = 0]
    /\ lost' = IF Held(r, u) THEN lost \cup {u} ELSE lost \ {u}
    /\ UNCHANGED <<policies, enforcer, keys, unloaded, made, revoked, fails>>

\* ACL.DeleteUser: DeletePermissionForUser names a rule without object, and no
\* rule is like that; the permissions go with casbin's DeleteUser.
DeleteUserRoles(r) ==
    /\ req[r].pc = "delete"
    /\ Autosave(r, RoleRules(req[r].user), {}, Goto(r, "purge"))
    /\ UNCHANGED <<users, keys, torn, clash, newest, lost, made, revoked, ops, fails>>

DeleteUserRules(r) ==
    /\ req[r].pc = "purge"
    /\ Autosave(r, RulesOf(req[r].user), {}, Done(r))
    /\ Settles(r)
    /\ UNCHANGED <<users, keys, clash, newest, lost, made, revoked, ops, fails>>

-----------------------------------------------------------------------------
(* SaveCasePermissions: CaseSaveACL, CaseForkSave, CommitImport.            *)

BeginCase(r, c, us) ==
    LET rules == {MayUse(u, c, a) : u \in Users, a \in Acts} \cap policies
        had   == {u \in Users : RulesOf(u) \cap rules # {}}
        rec   == [Idle EXCEPT !.op = "case", !.pc = "grant", !.kase = c, !.todo = us,
                              !.with = (us \cup had) \ Builtin]
    IN  /\ req[r].op = "idle" /\ ops < MaxOps /\ ops' = ops + 1
        /\ req' = Behind([req EXCEPT ![r] = rec], had)
        /\ LET hits == {q \in Requests : /\ Conflict("case", req[q].op)
                                       /\ req[q].with \cap rec.with # {}}
           IN  /\ torn' = torn \cup UNION {req[q].with \cap rec.with : q \in hits}
               /\ clash' = IF hits = {} THEN clash \ {r} ELSE clash \cup hits \cup {r}
        /\ policies' = policies \ rules
        /\ unloaded' = unloaded \cup had
        /\ UNCHANGED <<users, enforcer, keys, newest, lost, made, revoked, fails>>

\* A user who is gone ends it, with the table changed and nothing loaded.
GrantRead(r, u) ==
    /\ req[r].pc = "grant" /\ u \in req[r].todo
    /\ req' = IF users[u] = NoRow THEN Done(r)
              ELSE [req EXCEPT ![r].pc = "give", ![r].user = u, ![r].row = users[u]]
    /\ UNCHANGED <<store, hist>>

Give(r) ==
    LET u    == req[r].user
        rule == MayUse(u, req[r].kase, Act(req[r].row.role))
    IN  /\ req[r].pc = "give"
        /\ rule \notin policies /\ policies' = policies \cup {rule}
        /\ unloaded' = unloaded \cup {u}
        /\ req' = Behind([req EXCEPT ![r].pc = "grant", ![r].todo = @ \ {u}], {u})
        /\ UNCHANGED <<users, enforcer, keys,
                       torn, clash, newest, lost, made, revoked, ops, fails>>

\* casbin's LoadPolicy: a new copy is read, then put in the place of the old.
LoadPolicy(r) ==
    /\ req[r].pc = "grant" /\ req[r].todo = {}
    /\ req' = [req EXCEPT ![r].pc = "install", ![r].snap = policies]
    /\ UNCHANGED <<store, hist>>

\* Wrong variant: the rules are added to the copy.
InstallMerged(r) ==
    /\ req[r].pc = "install"
    /\ enforcer' = enforcer \cup req[r].snap
    /\ unloaded' = req[r].behind
    /\ req' = Done(r)
    /\ UNCHANGED <<users, policies, keys,
                   torn, clash, newest, lost, made, revoked, ops, fails>>

Install(r) ==
    /\ req[r].pc = "install"
    /\ enforcer' = req[r].snap
    /\ unloaded' = req[r].behind
    /\ req' = Done(r)
    /\ UNCHANGED <<users, policies, keys,
                   torn, clash, newest, lost, made, revoked, ops, fails>>

-----------------------------------------------------------------------------
(* Logins and passwords: LoginLocal, Callback, ChangePassword.           *)

\* The row as it will be saved: LoginLocal takes that of a user with a
\* password, Callback any, or makes one without a role.
LoginRow(u) == IF users[u] = NoRow THEN [role |-> NoRole, pw |-> 0] ELSE users[u]

Login(r, u) ==
    /\ u \notin Builtin /\ (users[u] = NoRow => u \notin CliUsers)
    /\ Begin(r, [Idle EXCEPT !.op = "login", !.pc = "row", !.user = u, !.with = {u},
                             !.row = LoginRow(u)])
    /\ UNCHANGED <<store, unloaded, newest, lost, made, revoked, fails>>

LoggedIn(r) ==
    LET u == req[r].user
    IN  /\ req[r].pc = "row" /\ req[r].op = "login"
        /\ users' = [users EXCEPT ![u] = req[r].row]
        /\ req' = Done(r)
        /\ UNCHANGED <<policies, enforcer, keys, hist>>

\* The form, for the user LoadUser found for the session, or the command.
ChangePassword(r, u) ==
    /\ users[u] # NoRow /\ u \notin Builtin
    /\ newest[u] < MaxPassword
    /\ Begin(r, [Idle EXCEPT !.op = "password", !.pc = "row", !.user = u, !.with = {u},
                             !.row = users[u]])
    /\ UNCHANGED <<store, unloaded, newest, lost, made, revoked, fails>>

\* Wrong variant: the row is saved as it was read.
PasswordNotSet(r) ==
    LET u == req[r].user
    IN  /\ req[r].pc = "row" /\ req[r].op = "password"
        /\ users' = [users EXCEPT ![u] = req[r].row]
        /\ newest' = [newest EXCEPT ![u] = IF @ < MaxPassword THEN @ + 1 ELSE @]
        /\ lost' = IF Held(r, u) THEN lost \cup {u} ELSE lost \ {u}
        /\ req' = Done(r)
        /\ UNCHANGED <<policies, enforcer, keys,
                       torn, clash, unloaded, made, revoked, ops, fails>>

PasswordSet(r) ==
    LET u  == req[r].user
        pw == IF newest[u] < MaxPassword THEN newest[u] + 1 ELSE newest[u]
    IN  /\ req[r].pc = "row" /\ req[r].op = "password"
        /\ users' = [users EXCEPT ![u] = [req[r].row EXCEPT !.pw = pw]]
        /\ newest' = [newest EXCEPT ![u] = pw]
        /\ lost' = IF Held(r, u) THEN lost \cup {u} ELSE lost \ {u}
        /\ req' = Done(r)
        /\ UNCHANGED <<policies, enforcer, keys,
                       torn, clash, unloaded, made, revoked, ops, fails>>

\* CreateUser, a process of its own: one transaction on the table.
CreateUser(u) ==
    /\ u \in CliUsers \ made /\ made' = made \cup {u}
    /\ users' = [users EXCEPT ![u] = [role |-> Administrator, pw |-> 0]]
    /\ policies' = (policies \ RoleRules(u)) \cup {HasRole(u, Administrator)}
    /\ unloaded' = unloaded \cup {u}
    /\ req' = Behind(req, {u})
    /\ UNCHANGED <<enforcer, keys, torn, clash, newest, lost, revoked, ops, fails>>

-----------------------------------------------------------------------------
(* API keys.                                                                *)

\* GenerateAPIKey: only the hash is kept.
MintKey(k, t) ==
    /\ k \in Keys \ made /\ made' = made \cup {k}
    /\ ops < MaxOps /\ ops' = ops + 1
    /\ keys' = [keys EXCEPT ![k] = t]
    /\ UNCHANGED <<users, policies, enforcer, req,
                   torn, clash, unloaded, newest, lost, revoked, fails>>

\* ApiKeyMiddleware: a key is looked up by its hash, and its type must have a principal.
Accepted(k) == keys[k] \in KeyTypes

\* Wrong variant: a key that is not there is taken for a new one.
EditAnyKey(r, k, t) ==
    /\ Begin(r, [Idle EXCEPT !.op = "key", !.pc = "key", !.user = k, !.row = t])
    /\ UNCHANGED <<store, unloaded, newest, lost, made, revoked, fails>>

\* APIKeySave: the stored row with another type or name.
EditKey(r, k, t) ==
    /\ keys[k] # NoKey
    /\ Begin(r, [Idle EXCEPT !.op = "key", !.pc = "key", !.user = k, !.row = t])
    /\ UNCHANGED <<store, unloaded, newest, lost, made, revoked, fails>>

SaveKey(r) ==
    /\ req[r].pc = "key"
    /\ keys' = [keys EXCEPT ![req[r].user] = req[r].row]
    /\ req' = Done(r)
    /\ UNCHANGED <<users, policies, enforcer, hist>>

\* Keys an edit holds at that moment are counted as not revoked.
DeleteKey(k) ==
    /\ keys[k] # NoKey
    /\ keys' = [keys EXCEPT ![k] = NoKey]
    /\ revoked' = IF \E r \in Requests : req[r].pc = "key" /\ req[r].user = k
                  THEN revoked ELSE revoked \cup {k}
    /\ UNCHANGED <<users, policies, enforcer, req,
                   torn, clash, unloaded, newest, lost, made, ops, fails>>

-----------------------------------------------------------------------------

\* Users whose change stops half way; permissions alone do no harm to the role.
HalfWay(r) ==
    IF req[r].op \in {"save", "delete"} /\ req[r].pc # "row" THEN {req[r].user} \ Builtin ELSE {}

Aborts(r) ==
    /\ req[r].op # "idle"
    /\ torn' = torn \cup HalfWay(r)
    /\ req' = Done(r)
    /\ UNCHANGED <<store, clash, unloaded, newest, lost, made, revoked, ops>>

\* Any statement fails and the request with it.
Fails(r) == Aborts(r) /\ fails < MaxFails /\ fails' = fails + 1

\* The rules r may insert next.
Inserts(r) ==
    LET q == req[r]
    IN  CASE q.pc = "role" -> {HasRole(q.user, q.row.role)} \ enforcer
          [] q.pc = "perm" -> {MayUse(q.user, c, Act(q.row.role)) : c \in q.todo} \ enforcer
          [] q.pc = "give" -> {MayUse(q.user, q.kase, Act(q.row.role))}
          [] OTHER         -> {}

\* AddPolicy is an insert: a rule that the table has got meanwhile violates the
\* unique index and ends the request.
InsertFails(r) == Aborts(r) /\ Inserts(r) \cap policies # {} /\ UNCHANGED fails

\* The process dies or is restarted; NewACL loads the table.
Restart ==
    /\ fails < MaxFails /\ fails' = fails + 1
    /\ enforcer' = policies
    /\ req' = [r \in Requests |-> Idle]
    /\ torn' = torn \cup UNION {HalfWay(r) : r \in Requests}
    /\ unloaded' = {} /\ clash' = {}
    /\ UNCHANGED <<users, policies, keys, newest, lost, made, revoked, ops>>

Next ==
    \/ \E r \in Requests, u \in Users :
         \/ \E role \in Roles : UserSave(r, u, role)
         \/ \E cs \in SUBSET Cases : UserSaveACL(r, u, cs)
         \/ UserDelete(r, u) \/ Login(r, u) \/ ChangePassword(r, u) \/ GrantRead(r, u)
    \/ \E r \in Requests :
         \/ SaveRow(r) \/ DeleteRoles(r) \/ AddRole(r) \/ ReadPermissions(r)
         \/ DeletePermissions(r) \/ \E c \in Cases : AddPermission(r, c)
         \/ PermissionsSaved(r) \/ DeleteUserRoles(r) \/ DeleteUserRules(r)
         \/ \E c \in Cases, us \in SUBSET (Known \ Builtin) : BeginCase(r, c, us)
         \/ Give(r) \/ LoadPolicy(r) \/ Install(r) \/ LoggedIn(r) \/ PasswordSet(r)
         \/ \E k \in Keys, t \in KeyTypes : EditKey(r, k, t)
         \/ SaveKey(r) \/ Fails(r) \/ InsertFails(r)
    \/ \E u \in Users : CreateUser(u)
    \/ \E k \in Keys : DeleteKey(k) \/ \E t \in KeyTypes : MintKey(k, t)
    \/ Restart

Spec == Init /\ [][Next]_vars

-----------------------------------------------------------------------------
(* Properties.                                                              *)

\* When nobody is working on a user, and no two requests did so at once since
\* the last complete save, casbin's copy grants what the user's row says:
\* administrators everything, read-only users no change, users who are gone
\* nothing (UserSave, UserDelete, SaveUserPermissions, SaveCasePermissions).
AccessFollowsUsers ==
    \A u \in Users \ (torn \cup unloaded) : (\A r \in Requests : ~Working(r, u)) =>
        /\ IsAdministrator(u) <=> (users[u] # NoRow /\ users[u].role = Administrator)
        /\ \A c \in Cases : Allowed(u, c, "POST") =>
             users[u] # NoRow /\ users[u].role # ReadOnly
        /\ users[u] = NoRow => \A c \in Cases : ~Allowed(u, c, "GET")

\* casbin's copy and the table differ only for users whose rules were written
\* to the table alone, while another request was loading it, or by two requests
\* at the same time, since the last load (SaveCasePermissions, CreateUser, AutoSave).
EnforcerFollowsTable ==
    \A u \in Users \ unloaded : RulesOf(u) \cap enforcer = RulesOf(u) \cap policies

\* A password that was replaced is not valid again, unless a login or an
\* administrator held the old row when the new one was saved (ChangePassword,
\* LoginLocal, Callback, UserSave).
PasswordsStay ==
    \A u \in Users \ lost : users[u] # NoRow => users[u].pw = newest[u]

\* A deleted API key is not accepted again, however edits and deletions follow
\* each other (APIKeySave, APIKeyDelete, ApiKeyMiddleware), unless an edit
\* held its row when it was deleted.
RevokedKeysStayOut == \A k \in revoked : ~Accepted(k)
=============================================================================
