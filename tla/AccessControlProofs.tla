-------------------------- MODULE AccessControlProofs --------------------------
(***************************************************************************)
(* Proofs about AccessControl, for any number of users, cases, keys and    *)
(* concurrent requests.                                                    *)
(*                                                                         *)
(* Four facts carry them.  FollowInv: not only casbin's copy but every copy *)
(* a request has read and not yet installed agrees with the table, except  *)
(* on users written to since it was read.  KeyInv: no request holds the    *)
(* row of a revoked key, so saving one can not bring it back.  PasswordInv: *)
(* the rows that requests hold have the newest password, but those of users *)
(* whose password changed in the meantime.  AccessInv: while nothing clashes, *)
(* the rules say what the row says, but for what the change of a role that *)
(* is under way has not achieved yet.                                      *)
(***************************************************************************)
EXTENDS AccessControl, TLAPS

Req == [op : Ops, pc : Pcs, user : Users \cup Keys \cup {NoUser},
        row : Rows \cup KeyTypes \cup {NoRow}, kase : Cases \cup {NoCase},
        todo : SUBSET (Cases \cup Users), with : SUBSET (Users \ Builtin),
        snap : SUBSET Rules, behind : SUBSET Users]

\* What a request holds depends on what it is and how far it has come.
StepOK(q) ==
    /\ q.op = "key" <=> q.pc = "key"
    /\ q.op = "key" => q.user \in Keys /\ q.row \in KeyTypes
    /\ q.op \in {"save", "acl", "login", "password"} => q.user \in Users /\ q.row \in Rows
    /\ q.op = "save" => q.row.role \in Roles
    /\ q.op = "delete" => q.user \in Users
    /\ q.pc = "row" => q.op \in {"save", "login", "password"}
    /\ q.pc \in {"unrole", "role", "perms"} => q.op = "save"
    /\ q.pc \in {"unperm", "perm"} => q.op \in {"save", "acl"}
    /\ q.pc \in {"delete", "purge"} => q.op = "delete"
    /\ q.pc \in {"grant", "give", "install"} => q.op = "case" /\ q.kase \in Cases
    /\ q.pc = "give" => q.user \in Users /\ q.row \in Rows

ReqsOK(reqs) == reqs \in [Requests -> Req] /\ \A r \in Requests : StepOK(reqs[r])

TablesOK ==
    /\ users \in [Users -> Rows \cup {NoRow}]
    /\ policies \subseteq Rules /\ enforcer \subseteq Rules
    /\ keys \in [Keys -> KeyTypes \cup {NoKey}]

HistoryOK ==
    /\ torn \subseteq Users \ Builtin /\ unloaded \subseteq Users /\ lost \subseteq Users
    /\ clash \subseteq Requests /\ newest \in [Users -> 0..MaxPassword]
    /\ made \subseteq CliUsers \cup Keys /\ revoked \subseteq Keys
    /\ ops \in 0..MaxOps /\ fails \in 0..MaxFails

TypeInv == TablesOK /\ HistoryOK /\ ReqsOK(req)

\* The rules a request has read for the copy agree with the table like the copy itself.
SnapsFollow(reqs, table) ==
    \A r \in Requests : reqs[r].pc = "install" =>
        \A u \in Users \ reqs[r].behind : RulesOf(u) \cap reqs[r].snap = RulesOf(u) \cap table

FollowInv == EnforcerFollowsTable /\ SnapsFollow(req, policies)

\* The rows requests hold have the newest password; nobody holds the row of an
\* id that was not made yet.
PasswordInv ==
    /\ PasswordsStay
    /\ \A u \in Users : users[u] = NoRow => newest[u] = 0
    /\ \A u \in CliUsers \ made : users[u] = NoRow
    /\ \A r \in Requests : req[r].pc = "row" =>
         /\ req[r].user \in CliUsers => req[r].user \in made
         /\ req[r].op \in {"save", "login"} /\ req[r].user \notin lost =>
              req[r].row.pw = newest[req[r].user]

KeyInv ==
    /\ \A k \in Keys : keys[k] # NoKey => k \in made
    /\ \A k \in revoked : k \in made /\ keys[k] = NoKey
    /\ \A r \in Requests : req[r].pc = "key" => req[r].user \in made \ revoked

-----------------------------------------------------------------------------
(* The rules of the table.                                                 *)

\* Users share no rules.
LEMMA RulesApart ==
    \A u, v : u # v => RulesOf(u) \cap RulesOf(v) = {}
  BY DEF RulesOf, RoleRules, PermissionRules, HasRole, MayUse

LEMMA RulesInRange ==
    ASSUME NEW u \in Users
    PROVE  /\ RulesOf(u) \subseteq Rules
           /\ \A x \in Roles : HasRole(u, x) \in RulesOf(u)
           /\ \A role : \A c \in Cases : MayUse(u, c, Act(role)) \in RulesOf(u)
           /\ RoleRules(u) \subseteq RulesOf(u) /\ PermissionRules(u) \subseteq RulesOf(u)
  BY DEF Rules, RulesOf, RoleRules, PermissionRules, Act, Acts

-----------------------------------------------------------------------------
(* The requests.                                                           *)

LEMMA IdleOK == Idle \in Req /\ StepOK(Idle)
  BY DEF Idle, Req, StepOK, Ops, Pcs

LEMMA UpdateOK ==
    ASSUME NEW reqs, ReqsOK(reqs), NEW r \in Requests, NEW q \in Req, StepOK(q)
    PROVE  ReqsOK([reqs EXCEPT ![r] = q])
  BY DEF ReqsOK

LEMMA BehindOK ==
    ASSUME NEW reqs, ReqsOK(reqs), NEW us \in SUBSET Users
    PROVE  /\ ReqsOK(Behind(reqs, us))
           /\ \A r \in Requests :
                /\ Behind(reqs, us)[r].pc = reqs[r].pc
                /\ Behind(reqs, us)[r].user = reqs[r].user
                /\ Behind(reqs, us)[r].snap = reqs[r].snap
                /\ reqs[r].pc = "install" =>
                     Behind(reqs, us)[r].behind = reqs[r].behind \cup us
                /\ reqs[r].pc # "install" => Behind(reqs, us)[r] = reqs[r]
  <1> DEFINE new == Behind(reqs, us)
  <1>1. ASSUME NEW r \in Requests
        PROVE  /\ new[r] \in Req /\ StepOK(new[r])
               /\ new[r].pc = reqs[r].pc /\ new[r].user = reqs[r].user
               /\ new[r].snap = reqs[r].snap
               /\ reqs[r].pc = "install" => new[r].behind = reqs[r].behind \cup us
               /\ reqs[r].pc # "install" => new[r] = reqs[r]
    <2>1. reqs[r] \in Req /\ StepOK(reqs[r])  BY DEF ReqsOK
    <2>2. CASE reqs[r].pc = "install"
      <3>1. new[r] = [reqs[r] EXCEPT !.behind = @ \cup us]  BY <2>2 DEF Behind
      <3>2. new[r] \in Req  BY <2>1, <3>1 DEF Req
      <3> QED  BY <2>1, <2>2, <3>1, <3>2 DEF Req, StepOK
    <2>3. CASE reqs[r].pc # "install"
      <3>1. new[r] = reqs[r]  BY <2>3 DEF Behind
      <3> QED  BY <2>1, <2>3, <3>1
    <2> QED  BY <2>2, <2>3
  <1>2. new = [r \in Requests |-> new[r]]  BY DEF Behind
  <1> QED  BY <1>1, <1>2 DEF ReqsOK

LEMMA BeginOK ==
    ASSUME TypeInv, NEW r \in Requests, NEW rec \in Req, StepOK(rec), Begin(r, rec)
    PROVE  /\ ReqsOK(req') /\ req' = [req EXCEPT ![r] = rec]
           /\ torn' \subseteq Users \ Builtin /\ clash' \subseteq Requests /\ ops' \in 0..MaxOps
  <1>1. ReqsOK(req') /\ req' = [req EXCEPT ![r] = rec]
    BY UpdateOK DEF TypeInv, Begin
  <1>2. ops' \in 0..MaxOps
    BY AccessAssumption DEF Begin, TypeInv, HistoryOK
  <1>3. \A q \in Requests : req[q].with \subseteq Users \ Builtin
    BY DEF TypeInv, ReqsOK, Req
  <1> QED  BY <1>1, <1>2, <1>3 DEF Begin, TypeInv, HistoryOK, Req

LEMMA DoneOK ==
    ASSUME TypeInv, NEW r \in Requests
    PROVE  ReqsOK(Done(r)) /\ Done(r) = [req EXCEPT ![r] = Idle]
  BY UpdateOK, IdleOK DEF TypeInv, Done

\* The step from one statement of a request to the next.
LEMMA GotoOK ==
    ASSUME TypeInv, NEW r \in Requests, NEW pc \in Pcs \ {"key"},
           req[r].pc # "key", StepOK([req[r] EXCEPT !.pc = pc])
    PROVE  /\ ReqsOK(Goto(r, pc)) /\ Goto(r, pc) = [req EXCEPT ![r] = [req[r] EXCEPT !.pc = pc]]
  <1>1. req[r] \in Req  BY DEF TypeInv, ReqsOK
  <1>2. [req[r] EXCEPT !.pc = pc] \in Req  BY <1>1 DEF Req
  <1>3. Goto(r, pc) = [req EXCEPT ![r] = [req[r] EXCEPT !.pc = pc]]
    BY DEF Goto, TypeInv, ReqsOK
  <1> DEFINE q == [req[r] EXCEPT !.pc = pc]
  <1>4. ReqsOK([req EXCEPT ![r] = q])
    <2> HIDE DEF q
    <2> QED  BY <1>2, UpdateOK DEF TypeInv, q
  <1> QED  BY <1>3, <1>4

\* What is remembered of changes that overlapped or broke off.
LEMMA SettlesOK ==
    ASSUME TypeInv, NEW r \in Requests, Settles(r)
    PROVE  torn' \subseteq Users \ Builtin
  BY DEF TypeInv, HistoryOK, Settles

LEMMA AutosaveOK ==
    ASSUME TypeInv, NEW r \in Requests, req[r].user \in Users,
           NEW gone, NEW new \in SUBSET Rules, NEW reqs, ReqsOK(reqs), Autosave(r, gone, new, reqs)
    PROVE  /\ policies' \subseteq Rules /\ enforcer' \subseteq Rules /\ ReqsOK(req')
           /\ unloaded' \subseteq Users
  BY BehindOK DEF TypeInv, TablesOK, HistoryOK, Autosave

LEMMA AutosaveAddOK ==
    ASSUME TypeInv, NEW r \in Requests, req[r].user \in Users,
           NEW rule \in Rules, NEW reqs, ReqsOK(reqs), AutosaveAdd(r, rule, reqs)
    PROVE  /\ policies' \subseteq Rules /\ enforcer' \subseteq Rules /\ ReqsOK(req')
           /\ torn' \subseteq Users \ Builtin /\ clash' \subseteq Requests
           /\ unloaded' \subseteq Users
  <1>1. /\ policies' \subseteq Rules /\ enforcer' \subseteq Rules /\ ReqsOK(req')
        /\ unloaded' \subseteq Users
    <2>1. CASE rule \in enforcer
      BY <2>1 DEF TypeInv, TablesOK, HistoryOK, AutosaveAdd
    <2>2. CASE rule \notin enforcer
      <3>1. Autosave(r, {}, {rule}, reqs)  BY <2>2 DEF AutosaveAdd
      <3> QED  BY <3>1, AutosaveOK
    <2> QED  BY <2>1, <2>2
  <1> QED  BY <1>1 DEF AutosaveAdd, TypeInv, HistoryOK

-----------------------------------------------------------------------------
(* Types: saving and deleting users.                                       *)

LEMMA UserSaveType ==
    ASSUME TypeInv, NEW r \in Requests, NEW u \in Users, NEW role \in Roles, UserSave(r, u, role)
    PROVE  TypeInv'
  <1> DEFINE row == [users[u] EXCEPT !.role = role]
             rec == [Idle EXCEPT !.op = "save", !.pc = "row", !.user = u, !.with = {u} \ Builtin,
                                 !.row = row]
  <1>1. row \in Rows /\ row.role \in Roles
    BY DEF UserSave, TypeInv, TablesOK, Rows
  <1>2. rec \in Req /\ StepOK(rec)
    BY <1>1 DEF Idle, Req, StepOK, Ops, Pcs
  <1>3. Begin(r, rec)  BY DEF UserSave
  <1> QED  BY <1>2, <1>3, BeginOK DEF UserSave, TypeInv, TablesOK, HistoryOK, store

LEMMA UserSaveACLType ==
    ASSUME TypeInv, NEW r \in Requests, NEW u \in Users, NEW cs \in SUBSET Cases,
           UserSaveACL(r, u, cs)
    PROVE  TypeInv'
  <1> DEFINE rec == [Idle EXCEPT !.op = "acl", !.pc = "unperm", !.user = u, !.with = {u} \ Builtin,
                                 !.row = users[u], !.todo = cs]
  <1>1. users[u] \in Rows  BY DEF UserSaveACL, TypeInv, TablesOK
  <1>2. rec \in Req /\ StepOK(rec)
    BY <1>1 DEF Idle, Req, StepOK, Ops, Pcs
  <1>3. Begin(r, rec)  BY DEF UserSaveACL
  <1> QED  BY <1>2, <1>3, BeginOK DEF UserSaveACL, TypeInv, TablesOK, HistoryOK, store

LEMMA SaveRowType ==
    ASSUME TypeInv, NEW r \in Requests, SaveRow(r)
    PROVE  TypeInv'
  <1>1. req[r] \in Req /\ StepOK(req[r]) /\ req[r].pc = "row" /\ req[r].op = "save"
    BY DEF TypeInv, ReqsOK, SaveRow
  <1>2. ReqsOK(req') /\ users' \in [Users -> Rows \cup {NoRow}]
    <2>1. CASE req[r].user \in Builtin
      BY <2>1, DoneOK DEF SaveRow, TypeInv, TablesOK
    <2>2. CASE req[r].user \notin Builtin
      <3>1. StepOK([req[r] EXCEPT !.pc = "unrole"]) /\ "unrole" \in Pcs \ {"key"}
        BY <1>1 DEF Req, StepOK, Pcs
      <3>2. ReqsOK(Goto(r, "unrole"))  BY <1>1, <3>1, GotoOK
      <3> QED  BY <1>1, <2>2, <3>2 DEF SaveRow, TypeInv, TablesOK, StepOK
    <2> QED  BY <2>1, <2>2
  <1> QED  BY <1>2 DEF SaveRow, TypeInv, TablesOK, HistoryOK, hist

LEMMA DeleteRolesType ==
    ASSUME TypeInv, NEW r \in Requests, DeleteRoles(r) \/ DeleteUserRoles(r)
    PROVE  TypeInv'
  <1> DEFINE next == IF req[r].pc = "unrole" THEN "role" ELSE "purge"
  <1>1. req[r] \in Req /\ StepOK(req[r]) /\ req[r].pc \in {"unrole", "delete"}
    BY DEF TypeInv, ReqsOK, DeleteRoles, DeleteUserRoles
  <1>2. StepOK([req[r] EXCEPT !.pc = next]) /\ next \in Pcs \ {"key"}
    BY <1>1 DEF Req, StepOK, Pcs
  <1>3. ReqsOK(Goto(r, next)) /\ req[r].user \in Users
    BY <1>1, <1>2, GotoOK DEF StepOK
  <1>4. Autosave(r, RoleRules(req[r].user), {}, Goto(r, next))
    BY DEF DeleteRoles, DeleteUserRoles
  <1>5. /\ policies' \subseteq Rules /\ enforcer' \subseteq Rules
        /\ ReqsOK(req') /\ unloaded' \subseteq Users
    BY <1>3, <1>4, AutosaveOK
  <1> QED  BY <1>5 DEF DeleteRoles, DeleteUserRoles, TypeInv, TablesOK, HistoryOK, hist

LEMMA AddRoleType ==
    ASSUME TypeInv, NEW r \in Requests, AddRole(r)
    PROVE  TypeInv'
  <1>1. req[r] \in Req /\ StepOK(req[r]) /\ req[r].pc = "role"
    BY DEF TypeInv, ReqsOK, AddRole
  <1>2. StepOK([req[r] EXCEPT !.pc = "perms"]) /\ "perms" \in Pcs \ {"key"}
    BY <1>1 DEF Req, StepOK, Pcs
  <1>3. ReqsOK(Goto(r, "perms"))  BY <1>1, <1>2, GotoOK
  <1>4. req[r].user \in Users /\ HasRole(req[r].user, req[r].row.role) \in Rules
    BY <1>1, RulesInRange DEF StepOK
  <1>5. AutosaveAdd(r, HasRole(req[r].user, req[r].row.role), Goto(r, "perms"))
    BY DEF AddRole
  <1>6. /\ policies' \subseteq Rules /\ enforcer' \subseteq Rules /\ ReqsOK(req')
        /\ torn' \subseteq Users \ Builtin /\ clash' \subseteq Requests
        /\ unloaded' \subseteq Users
    BY <1>3, <1>4, <1>5, AutosaveAddOK
  <1> QED  BY <1>6 DEF AddRole, TypeInv, TablesOK, HistoryOK

LEMMA ReadPermissionsType ==
    ASSUME TypeInv, NEW r \in Requests, ReadPermissions(r)
    PROVE  TypeInv'
  <1> DEFINE cs == {c \in Cases : \E a \in Acts : MayUse(req[r].user, c, a) \in policies}
             q  == [req[r] EXCEPT !.pc = "unperm", !.todo = cs]
  <1>1. req[r] \in Req /\ StepOK(req[r]) /\ req[r].pc = "perms"
    BY DEF TypeInv, ReqsOK, ReadPermissions
  <1>2. cs \subseteq Cases  OBVIOUS
  <1>3. q \in Req /\ StepOK(q)
    <2> HIDE DEF cs
    <2> QED  BY <1>1, <1>2 DEF Req, StepOK, Pcs
  <1>4. req' = [req EXCEPT ![r] = q]
    BY DEF ReadPermissions, TypeInv, ReqsOK
  <1>5. ReqsOK(req')
    <2> HIDE DEF q
    <2> QED  BY <1>3, <1>4, UpdateOK DEF TypeInv
  <1> QED  BY <1>5 DEF ReadPermissions, TypeInv, TablesOK, HistoryOK, store, hist

LEMMA DeletePermissionsType ==
    ASSUME TypeInv, NEW r \in Requests, DeletePermissions(r)
    PROVE  TypeInv'
  <1>1. req[r] \in Req /\ StepOK(req[r]) /\ req[r].pc = "unperm"
    BY DEF TypeInv, ReqsOK, DeletePermissions
  <1>2. StepOK([req[r] EXCEPT !.pc = "perm"]) /\ "perm" \in Pcs \ {"key"}
    BY <1>1 DEF Req, StepOK, Pcs
  <1>3. ReqsOK(Goto(r, "perm")) /\ req[r].user \in Users
    BY <1>1, <1>2, GotoOK DEF StepOK
  <1>4. Autosave(r, PermissionRules(req[r].user), {}, Goto(r, "perm"))
    BY DEF DeletePermissions
  <1>5. /\ policies' \subseteq Rules /\ enforcer' \subseteq Rules
        /\ ReqsOK(req') /\ unloaded' \subseteq Users
    BY <1>3, <1>4, AutosaveOK
  <1> QED  BY <1>5 DEF DeletePermissions, TypeInv, TablesOK, HistoryOK, hist

LEMMA AddPermissionType ==
    ASSUME TypeInv, NEW r \in Requests, NEW c \in Cases, AddPermission(r, c)
    PROVE  TypeInv'
  <1> DEFINE q == [req[r] EXCEPT !.todo = @ \ {c}]
             rule == MayUse(req[r].user, c, Act(req[r].row.role))
  <1>1. req[r] \in Req /\ StepOK(req[r]) /\ req[r].pc = "perm"
    BY DEF TypeInv, ReqsOK, AddPermission
  <1>2. q \in Req /\ StepOK(q)  BY <1>1 DEF Req, StepOK
  <1>3. [req EXCEPT ![r].todo = @ \ {c}] = [req EXCEPT ![r] = q]
    BY DEF TypeInv, ReqsOK
  <1>4. ReqsOK([req EXCEPT ![r] = q])
    <2> HIDE DEF q
    <2> QED  BY <1>2, UpdateOK DEF TypeInv
  <1>5. req[r].user \in Users /\ rule \in Rules
    BY <1>1, RulesInRange DEF StepOK
  <1>6. AutosaveAdd(r, rule, [req EXCEPT ![r] = q])
    BY <1>3 DEF AddPermission
  <1>7. /\ policies' \subseteq Rules /\ enforcer' \subseteq Rules /\ ReqsOK(req')
        /\ torn' \subseteq Users \ Builtin /\ clash' \subseteq Requests
        /\ unloaded' \subseteq Users
    <2> HIDE DEF q, rule
    <2> QED  BY <1>4, <1>5, <1>6, AutosaveAddOK
  <1> QED  BY <1>7 DEF AddPermission, TypeInv, TablesOK, HistoryOK

LEMMA PermissionsSavedType ==
    ASSUME TypeInv, NEW r \in Requests, PermissionsSaved(r)
    PROVE  TypeInv'
  <1>1. torn' \subseteq Users \ Builtin
    BY SettlesOK DEF PermissionsSaved, TypeInv, HistoryOK
  <1> QED  BY <1>1, DoneOK DEF PermissionsSaved, TypeInv, TablesOK, HistoryOK, store

LEMMA UserDeleteType ==
    ASSUME TypeInv, NEW r \in Requests, NEW u \in Users, UserDelete(r, u)
    PROVE  TypeInv'
  <1> DEFINE rec == [Idle EXCEPT !.op = "delete", !.pc = "delete", !.user = u, !.with = {u}]
  <1>1. rec \in Req /\ StepOK(rec)
    BY DEF UserDelete, Idle, Req, StepOK, Ops, Pcs
  <1>2. Begin(r, rec)  BY DEF UserDelete
  <1>3. /\ ReqsOK(req') /\ torn' \subseteq Users \ Builtin
        /\ clash' \subseteq Requests /\ ops' \in 0..MaxOps
    BY <1>1, <1>2, BeginOK
  <1>4. newest' \in [Users -> 0..MaxPassword] /\ lost' \subseteq Users
    BY AccessAssumption DEF UserDelete, TypeInv, HistoryOK
  <1> QED  BY <1>3, <1>4 DEF UserDelete, TypeInv, TablesOK, HistoryOK

LEMMA DeleteUserRulesType ==
    ASSUME TypeInv, NEW r \in Requests, DeleteUserRules(r)
    PROVE  TypeInv'
  <1>1. req[r].user \in Users
    BY DEF TypeInv, ReqsOK, StepOK, DeleteUserRules
  <1>2. /\ policies' \subseteq Rules /\ enforcer' \subseteq Rules
        /\ ReqsOK(req') /\ unloaded' \subseteq Users
    BY <1>1, DoneOK, AutosaveOK DEF DeleteUserRules
  <1>3. torn' \subseteq Users \ Builtin  BY SettlesOK DEF DeleteUserRules
  <1> QED  BY <1>2, <1>3 DEF DeleteUserRules, TypeInv, TablesOK, HistoryOK

-----------------------------------------------------------------------------
(* Types: permissions of a case, logins and passwords, keys.               *)

LEMMA BeginCaseType ==
    ASSUME TypeInv, NEW r \in Requests, NEW c \in Cases, NEW us \in SUBSET (Known \ Builtin),
           BeginCase(r, c, us)
    PROVE  TypeInv'
  <1> DEFINE rules == {MayUse(u, c, a) : u \in Users, a \in Acts} \cap policies
             had   == {u \in Users : RulesOf(u) \cap rules # {}}
             rec   == [Idle EXCEPT !.op = "case", !.pc = "grant", !.kase = c, !.todo = us,
                                   !.with = (us \cup had) \ Builtin]
             reqs  == [req EXCEPT ![r] = rec]
  <1>1. had \subseteq Users  OBVIOUS
  <1>2. us \subseteq Users  BY DEF Known
  <1>3. rec \in Req /\ StepOK(rec)
    <2> HIDE DEF had
    <2> QED  BY <1>1, <1>2 DEF Idle, Req, StepOK, Ops, Pcs
  <1>4. req' = Behind(reqs, had) /\ policies' = policies \ rules /\ unloaded' = unloaded \cup had
    BY DEF BeginCase
  <1>5. ReqsOK(reqs)
    <2> HIDE DEF rec
    <2> QED  BY <1>3, UpdateOK DEF TypeInv
  <1>6. ReqsOK(req')
    <2> HIDE DEF reqs, had
    <2> QED  BY <1>1, <1>4, <1>5, BehindOK
  <1>7. torn' \subseteq Users \ Builtin /\ clash' \subseteq Requests
    <2>1. \A q \in Requests : req[q].with \subseteq Users \ Builtin
      BY DEF TypeInv, ReqsOK, Req
    <2> DEFINE hits == {q \in Requests : /\ Conflict("case", req[q].op)
                                         /\ req[q].with \cap rec.with # {}}
    <2>2. /\ torn' = torn \cup UNION {req[q].with \cap rec.with : q \in hits}
          /\ clash' = IF hits = {} THEN clash \ {r} ELSE clash \cup hits \cup {r}
      BY DEF BeginCase
    <2>3. hits \subseteq Requests  OBVIOUS
    <2> HIDE DEF rec, hits
    <2> QED  BY <2>1, <2>2, <2>3 DEF TypeInv, HistoryOK
  <1>8. ops' \in 0..MaxOps  BY AccessAssumption DEF BeginCase, TypeInv, HistoryOK
  <1>9. policies' \subseteq Rules /\ unloaded' \subseteq Users
    <2> HIDE DEF rules, had
    <2> QED  BY <1>1, <1>4 DEF TypeInv, TablesOK, HistoryOK
  <1>10. UNCHANGED <<users, enforcer, keys, newest, lost, made, revoked, fails>>
    BY DEF BeginCase
  <1> HIDE DEF rules, had, rec, reqs
  <1> QED  BY <1>6, <1>7, <1>8, <1>9, <1>10 DEF TypeInv, TablesOK, HistoryOK

LEMMA GrantReadType ==
    ASSUME TypeInv, NEW r \in Requests, NEW u \in Users, GrantRead(r, u)
    PROVE  TypeInv'
  <1> DEFINE q == [req[r] EXCEPT !.pc = "give", !.user = u, !.row = users[u]]
  <1>1. ReqsOK(req')
    <2>1. CASE users[u] = NoRow  BY <2>1, DoneOK DEF GrantRead
    <2>2. CASE users[u] # NoRow
      <3>1. req[r] \in Req /\ StepOK(req[r]) /\ req[r].pc = "grant"
        BY DEF TypeInv, ReqsOK, GrantRead
      <3>2. users[u] \in Rows  BY <2>2 DEF TypeInv, TablesOK
      <3>3. q \in Req /\ StepOK(q)  BY <3>1, <3>2 DEF Req, StepOK, Pcs
      <3>4. req' = [req EXCEPT ![r] = q]  BY <2>2 DEF GrantRead, TypeInv, ReqsOK
      <3> HIDE DEF q
      <3> QED  BY <3>3, <3>4, UpdateOK DEF TypeInv
    <2> QED  BY <2>1, <2>2
  <1> QED  BY <1>1 DEF GrantRead, TypeInv, TablesOK, HistoryOK, store, hist

LEMMA GiveType ==
    ASSUME TypeInv, NEW r \in Requests, Give(r)
    PROVE  TypeInv'
  <1> DEFINE u    == req[r].user
             q    == [req[r] EXCEPT !.pc = "grant", !.todo = @ \ {u}]
             reqs == [req EXCEPT ![r] = q]
             rule == MayUse(u, req[r].kase, Act(req[r].row.role))
  <1>1. req[r] \in Req /\ StepOK(req[r]) /\ req[r].pc = "give"
    BY DEF TypeInv, ReqsOK, Give
  <1>2. q \in Req /\ StepOK(q)  BY <1>1 DEF Req, StepOK, Pcs
  <1>3. u \in Users /\ rule \in Rules
    BY <1>1, RulesInRange DEF StepOK
  <1>4. /\ req' = Behind(reqs, {u}) /\ policies' = policies \cup {rule}
        /\ unloaded' = unloaded \cup {u}
    BY DEF Give, TypeInv, ReqsOK
  <1>5. ReqsOK(reqs)
    <2> HIDE DEF q
    <2> QED  BY <1>2, UpdateOK DEF TypeInv
  <1>6. ReqsOK(req')
    <2> HIDE DEF reqs, u
    <2> QED  BY <1>3, <1>4, <1>5, BehindOK
  <1> HIDE DEF u, rule, reqs, q
  <1> QED  BY <1>3, <1>4, <1>6 DEF Give, TypeInv, TablesOK, HistoryOK

LEMMA LoadPolicyType ==
    ASSUME TypeInv, NEW r \in Requests, LoadPolicy(r)
    PROVE  TypeInv'
  <1> DEFINE q == [req[r] EXCEPT !.pc = "install", !.snap = policies]
  <1>1. req[r] \in Req /\ StepOK(req[r]) /\ req[r].pc = "grant"
    BY DEF TypeInv, ReqsOK, LoadPolicy
  <1>2. policies \subseteq Rules  BY DEF TypeInv, TablesOK
  <1>3. q \in Req /\ StepOK(q)
    <2> HIDE DEF Rules
    <2> QED  BY <1>1, <1>2 DEF Req, StepOK, Pcs
  <1>4. req' = [req EXCEPT ![r] = q]  BY DEF LoadPolicy, TypeInv, ReqsOK
  <1>5. ReqsOK(req')
    <2> HIDE DEF q
    <2> QED  BY <1>3, <1>4, UpdateOK DEF TypeInv
  <1> QED  BY <1>5 DEF LoadPolicy, TypeInv, TablesOK, HistoryOK, store, hist

LEMMA InstallType ==
    ASSUME TypeInv, NEW r \in Requests, Install(r)
    PROVE  TypeInv'
  <1>1. req[r].snap \subseteq Rules /\ req[r].behind \subseteq Users
    BY DEF TypeInv, ReqsOK, Req
  <1> QED  BY <1>1, DoneOK DEF Install, TypeInv, TablesOK, HistoryOK

LEMMA LoginType ==
    ASSUME TypeInv, NEW r \in Requests, NEW u \in Users, Login(r, u)
    PROVE  TypeInv'
  <1> DEFINE rec == [Idle EXCEPT !.op = "login", !.pc = "row", !.user = u, !.with = {u},
                                 !.row = LoginRow(u)]
  <1>1. LoginRow(u) \in Rows
    BY AccessAssumption DEF LoginRow, TypeInv, TablesOK, Rows
  <1>2. rec \in Req /\ StepOK(rec)
    BY <1>1 DEF Login, Idle, Req, StepOK, Ops, Pcs
  <1>3. Begin(r, rec)  BY DEF Login
  <1> HIDE DEF rec
  <1> QED  BY <1>2, <1>3, BeginOK DEF Login, TypeInv, TablesOK, HistoryOK, store

LEMMA ChangePasswordType ==
    ASSUME TypeInv, NEW r \in Requests, NEW u \in Users, ChangePassword(r, u)
    PROVE  TypeInv'
  <1> DEFINE rec == [Idle EXCEPT !.op = "password", !.pc = "row", !.user = u, !.with = {u},
                                 !.row = users[u]]
  <1>1. users[u] \in Rows  BY DEF ChangePassword, TypeInv, TablesOK
  <1>2. rec \in Req /\ StepOK(rec)
    BY <1>1 DEF ChangePassword, Idle, Req, StepOK, Ops, Pcs
  <1>3. Begin(r, rec)  BY DEF ChangePassword
  <1> HIDE DEF rec
  <1> QED  BY <1>2, <1>3, BeginOK DEF ChangePassword, TypeInv, TablesOK, HistoryOK, store

LEMMA LoggedInType ==
    ASSUME TypeInv, NEW r \in Requests, LoggedIn(r)
    PROVE  TypeInv'
  <1>1. req[r].user \in Users /\ req[r].row \in Rows
    BY DEF TypeInv, ReqsOK, StepOK, LoggedIn
  <1> QED  BY <1>1, DoneOK DEF LoggedIn, TypeInv, TablesOK, HistoryOK, hist

LEMMA PasswordSetType ==
    ASSUME TypeInv, NEW r \in Requests, PasswordSet(r)
    PROVE  TypeInv'
  <1> DEFINE u  == req[r].user
             pw == IF newest[u] < MaxPassword THEN newest[u] + 1 ELSE newest[u]
  <1>1. u \in Users /\ req[r].row \in Rows
    BY DEF TypeInv, ReqsOK, StepOK, PasswordSet
  <1>2. pw \in 0..MaxPassword
    BY <1>1, AccessAssumption DEF TypeInv, HistoryOK
  <1>3. [req[r].row EXCEPT !.pw = pw] \in Rows  BY <1>1, <1>2 DEF Rows
  <1>4. users' \in [Users -> Rows \cup {NoRow}]
    BY <1>1, <1>3 DEF PasswordSet, TypeInv, TablesOK
  <1>5. newest' \in [Users -> 0..MaxPassword] /\ lost' \subseteq Users
    BY <1>1, <1>2 DEF PasswordSet, TypeInv, HistoryOK
  <1> QED  BY <1>4, <1>5, DoneOK DEF PasswordSet, TypeInv, TablesOK, HistoryOK

LEMMA CreateUserType ==
    ASSUME TypeInv, NEW u \in Users, CreateUser(u)
    PROVE  TypeInv'
  <1>1. users' \in [Users -> Rows \cup {NoRow}]
    BY AccessAssumption DEF CreateUser, TypeInv, TablesOK, Rows
  <1>2. policies' \subseteq Rules
    BY AccessAssumption, RulesInRange DEF CreateUser, TypeInv, TablesOK
  <1>3. ReqsOK(req')  BY BehindOK DEF CreateUser, TypeInv
  <1> QED  BY <1>1, <1>2, <1>3 DEF CreateUser, TypeInv, TablesOK, HistoryOK

LEMMA EditKeyType ==
    ASSUME TypeInv, NEW r \in Requests, NEW k \in Keys, NEW t \in KeyTypes, EditKey(r, k, t)
    PROVE  TypeInv'
  <1> DEFINE rec == [Idle EXCEPT !.op = "key", !.pc = "key", !.user = k, !.row = t]
  <1>1. rec \in Req /\ StepOK(rec)
    BY DEF Idle, Req, StepOK, Ops, Pcs
  <1>2. Begin(r, rec)  BY DEF EditKey
  <1> HIDE DEF rec
  <1> QED  BY <1>1, <1>2, BeginOK DEF EditKey, TypeInv, TablesOK, HistoryOK, store

LEMMA KeyTypeInv ==
    ASSUME TypeInv, NEW k \in Keys,
           \/ \E t \in KeyTypes : MintKey(k, t)
           \/ DeleteKey(k)
    PROVE  TypeInv'
  <1>1. CASE \E t \in KeyTypes : MintKey(k, t)
    BY <1>1, AccessAssumption DEF MintKey, TypeInv, TablesOK, HistoryOK
  <1>2. CASE DeleteKey(k)
    BY <1>2 DEF DeleteKey, TypeInv, TablesOK, HistoryOK
  <1> QED  BY <1>1, <1>2

LEMMA SaveKeyType ==
    ASSUME TypeInv, NEW r \in Requests, SaveKey(r)
    PROVE  TypeInv'
  <1>1. req[r].user \in Keys /\ req[r].row \in KeyTypes
    BY DEF TypeInv, ReqsOK, StepOK, SaveKey
  <1> QED  BY <1>1, DoneOK DEF SaveKey, TypeInv, TablesOK, HistoryOK, hist

LEMMA FailsType ==
    ASSUME TypeInv, Restart \/ \E r \in Requests : Fails(r) \/ InsertFails(r)
    PROVE  TypeInv'
  <1>1. \A r \in Requests : HalfWay(r) \subseteq Users \ Builtin
    BY DEF HalfWay, TypeInv, ReqsOK, StepOK
  <1>2. CASE Restart
    <2>1. ReqsOK(req')  BY <1>2, IdleOK DEF Restart, ReqsOK
    <2>2. torn' \subseteq Users \ Builtin  BY <1>1, <1>2 DEF Restart, TypeInv, HistoryOK
    <2> QED  BY <1>2, <2>1, <2>2, AccessAssumption DEF Restart, TypeInv, TablesOK, HistoryOK
  <1>3. ASSUME NEW r \in Requests, Fails(r) \/ InsertFails(r)  PROVE TypeInv'
    BY <1>1, <1>3, DoneOK, AccessAssumption DEF Aborts, Fails, InsertFails, TypeInv, TablesOK, HistoryOK, store
  <1> QED  BY <1>2, <1>3

LEMMA InitType == Init => TypeInv
  <1> SUFFICES ASSUME Init PROVE TypeInv  OBVIOUS
  <1>1. users \in [Users -> Rows \cup {NoRow}]
    BY AccessAssumption DEF Init, Rows
  <1>2. policies \subseteq Rules /\ enforcer \subseteq Rules
    BY AccessAssumption, RulesInRange DEF Init
  <1>3. ReqsOK(req)  BY IdleOK DEF Init, ReqsOK
  <1> QED  BY <1>1, <1>2, <1>3, AccessAssumption DEF Init, TypeInv, TablesOK, HistoryOK

LEMMA NextType == TypeInv /\ [Next]_vars => TypeInv'
  <1> SUFFICES ASSUME TypeInv, [Next]_vars PROVE TypeInv'  OBVIOUS
  <1>1. ASSUME NEW r \in Requests, NEW u \in Users,
               \/ \E role \in Roles : UserSave(r, u, role)
               \/ \E cs \in SUBSET Cases : UserSaveACL(r, u, cs)
               \/ UserDelete(r, u) \/ Login(r, u) \/ ChangePassword(r, u) \/ GrantRead(r, u)
        PROVE  TypeInv'
    BY <1>1, UserSaveType, UserSaveACLType, UserDeleteType, LoginType, ChangePasswordType,
       GrantReadType
  <1>2. ASSUME NEW r \in Requests,
               \/ SaveRow(r) \/ DeleteRoles(r) \/ AddRole(r) \/ ReadPermissions(r)
               \/ DeletePermissions(r) \/ \E c \in Cases : AddPermission(r, c)
               \/ PermissionsSaved(r) \/ DeleteUserRoles(r) \/ DeleteUserRules(r)
        PROVE  TypeInv'
    BY <1>2, SaveRowType, DeleteRolesType, AddRoleType, ReadPermissionsType,
       DeletePermissionsType, AddPermissionType, PermissionsSavedType, DeleteUserRulesType
  <1>3. ASSUME NEW r \in Requests,
               \/ \E c \in Cases, us \in SUBSET (Known \ Builtin) : BeginCase(r, c, us)
               \/ Give(r) \/ LoadPolicy(r) \/ Install(r) \/ LoggedIn(r) \/ PasswordSet(r)
               \/ \E k \in Keys, t \in KeyTypes : EditKey(r, k, t)
               \/ SaveKey(r) \/ Fails(r) \/ InsertFails(r)
        PROVE  TypeInv'
    BY <1>3, BeginCaseType, GiveType, LoadPolicyType, InstallType, LoggedInType, PasswordSetType,
       EditKeyType, SaveKeyType, FailsType
  <1>4. CASE \E u \in Users : CreateUser(u)  BY <1>4, CreateUserType
  <1>5. CASE \E k \in Keys : DeleteKey(k) \/ \E t \in KeyTypes : MintKey(k, t)
    BY <1>5, KeyTypeInv
  <1>6. CASE Restart  BY <1>6, FailsType
  <1>7. CASE UNCHANGED vars
    BY <1>7 DEF vars, store, hist, TypeInv, TablesOK, HistoryOK
  <1> QED  BY <1>1, <1>2, <1>3, <1>4, <1>5, <1>6, <1>7 DEF Next

\* Tables, casbin's copy and what requests hold stay within their types.
THEOREM AccessTypeCorrect == Spec => []TypeOK
  <1>1. TypeInv => TypeOK
    BY DEF TypeInv, TablesOK, HistoryOK, ReqsOK, Req, TypeOK
  <1> QED  BY <1>1, InitType, NextType, PTL DEF Spec

-----------------------------------------------------------------------------
(* casbin's copy and the table.                                            *)

\* A step that leaves the rules alone, of a request that is not loading them then.
LEMMA QuietFollow ==
    ASSUME TypeInv, FollowInv, UNCHANGED <<policies, enforcer, unloaded>>,
           NEW r \in Requests, NEW q, q.pc # "install", req' = [req EXCEPT ![r] = q]
    PROVE  FollowInv'
  <1>1. \A p \in Requests : req'[p] = IF p = r THEN q ELSE req[p]
    BY DEF TypeInv, ReqsOK
  <1> QED  BY <1>1 DEF FollowInv, EnforcerFollowsTable, SnapsFollow

\* Changes of a user's rules that go to the table alone.
LEMMA TableFollow ==
    ASSUME TypeInv, FollowInv, UNCHANGED enforcer,
           NEW us \in SUBSET Users, NEW reqs, ReqsOK(reqs), req' = Behind(reqs, us),
           \A p \in Requests : reqs[p].pc = "install" => reqs[p] = req[p],
           unloaded' = unloaded \cup us,
           \A u \in Users \ us : RulesOf(u) \cap policies' = RulesOf(u) \cap policies
    PROVE  FollowInv'
  <1>1. EnforcerFollowsTable'  BY DEF FollowInv, EnforcerFollowsTable
  <1>2. ASSUME NEW p \in Requests, req'[p].pc = "install",
               NEW u \in Users \ req'[p].behind
        PROVE  RulesOf(u) \cap req'[p].snap = RulesOf(u) \cap policies'
    <2>1. /\ req[p].pc = "install" /\ req'[p].snap = req[p].snap
          /\ req'[p].behind = req[p].behind \cup us
      BY <1>2, BehindOK
    <2> QED  BY <1>2, <2>1 DEF FollowInv, SnapsFollow
  <1> QED  BY <1>1, <1>2 DEF FollowInv, SnapsFollow

\* Changes that go to both.
LEMMA AutosaveFollow ==
    ASSUME TypeInv, FollowInv,
           NEW r \in Requests, req[r].user \in Users,
           NEW gone \in SUBSET RulesOf(req[r].user), NEW new \in SUBSET RulesOf(req[r].user),
           NEW q \in Req, StepOK(q), q.pc # "install",
           Autosave(r, gone, new, [req EXCEPT ![r] = q])
    PROVE  FollowInv'
  <1> DEFINE v    == req[r].user
             reqs == [req EXCEPT ![r] = q]
  <1>1. ReqsOK(reqs)  BY UpdateOK DEF TypeInv
  <1>2. \A p \in Requests : reqs[p] = IF p = r THEN q ELSE req[p]
    BY DEF TypeInv, ReqsOK
  <1>3. \A u \in Users \ {v} : /\ RulesOf(u) \cap policies' = RulesOf(u) \cap policies
                               /\ RulesOf(u) \cap enforcer' = RulesOf(u) \cap enforcer
    BY RulesApart DEF Autosave
  <1>4. unloaded \subseteq unloaded' /\ (v \notin unloaded' =>
            RulesOf(v) \cap enforcer' = RulesOf(v) \cap policies')
    BY DEF Autosave, FollowInv, EnforcerFollowsTable
  <1>5. EnforcerFollowsTable'
    <2> HIDE DEF v
    <2> QED  BY <1>3, <1>4 DEF FollowInv, EnforcerFollowsTable
  <1>6. ASSUME NEW p \in Requests, req'[p].pc = "install",
               NEW u \in Users \ req'[p].behind
        PROVE  RulesOf(u) \cap req'[p].snap = RulesOf(u) \cap policies'
    <2>1. req' = Behind(reqs, {v})  BY DEF Autosave
    <2>2. /\ req'[p].pc = reqs[p].pc /\ req'[p].snap = reqs[p].snap
          /\ req'[p].behind = reqs[p].behind \cup {v}
      <3> HIDE DEF reqs, v
      <3> QED  BY <1>1, <1>6, <2>1, BehindOK, req[r].user \in Users DEF v
    <2>3. reqs[p] = req[p] /\ u # v  BY <1>2, <1>6, <2>2
    <2> QED  BY <1>3, <1>6, <2>2, <2>3 DEF FollowInv, SnapsFollow
  <1> QED  BY <1>5, <1>6 DEF FollowInv, SnapsFollow

LEMMA BeginSets ==
    ASSUME NEW r, NEW rec, Begin(r, rec)
    PROVE  req' = [req EXCEPT ![r] = rec]
  BY DEF Begin

LEMMA BeginFollow ==
    ASSUME TypeInv, FollowInv, NEW r \in Requests, NEW u \in Users,
           \/ \E role \in Roles : UserSave(r, u, role)
           \/ \E cs \in SUBSET Cases : UserSaveACL(r, u, cs)
           \/ UserDelete(r, u) \/ Login(r, u) \/ ChangePassword(r, u)
    PROVE  FollowInv'
  <1>1. UNCHANGED <<policies, enforcer, unloaded>>
    BY DEF UserSave, UserSaveACL, UserDelete, Login, ChangePassword, store
  <1>2. \E q : q.pc # "install" /\ req' = [req EXCEPT ![r] = q]
    <2>1. ASSUME NEW role \in Roles, UserSave(r, u, role)
          PROVE  \E q : q.pc # "install" /\ req' = [req EXCEPT ![r] = q]
      BY <2>1, BeginSets DEF UserSave, Idle
    <2>2. ASSUME NEW cs \in SUBSET Cases, UserSaveACL(r, u, cs)
          PROVE  \E q : q.pc # "install" /\ req' = [req EXCEPT ![r] = q]
      BY <2>2, BeginSets DEF UserSaveACL, Idle
    <2>3. CASE UserDelete(r, u)  BY <2>3, BeginSets DEF UserDelete, Idle
    <2>4. CASE Login(r, u)  BY <2>4, BeginSets DEF Login, Idle
    <2>5. CASE ChangePassword(r, u)  BY <2>5, BeginSets DEF ChangePassword, Idle
    <2> QED  BY <2>1, <2>2, <2>3, <2>4, <2>5
  <1> QED  BY <1>1, <1>2, QuietFollow

LEMMA EditKeyFollow ==
    ASSUME TypeInv, FollowInv, NEW r \in Requests, NEW k \in Keys, NEW t \in KeyTypes,
           EditKey(r, k, t)
    PROVE  FollowInv'
  <1>1. \E q : q.pc # "install" /\ req' = [req EXCEPT ![r] = q]
    BY BeginSets DEF EditKey, Idle
  <1> QED  BY <1>1, QuietFollow DEF EditKey, store

\* The end of a request that has not touched the rules.
LEMMA DoneFollow ==
    ASSUME TypeInv, FollowInv, UNCHANGED <<policies, enforcer, unloaded>>,
           NEW r \in Requests, req' = Done(r)
    PROVE  FollowInv'
  <1>1. Idle.pc # "install"  BY DEF Idle
  <1> QED  BY <1>1, DoneOK, QuietFollow

LEMMA QuietStepFollow ==
    ASSUME TypeInv, FollowInv, NEW r \in Requests,
           \/ SaveRow(r) \/ ReadPermissions(r) \/ PermissionsSaved(r)
           \/ \E u \in Users : GrantRead(r, u)
           \/ LoggedIn(r) \/ PasswordSet(r) \/ SaveKey(r) \/ Fails(r) \/ InsertFails(r)
    PROVE  FollowInv'
  <1>1. UNCHANGED <<policies, enforcer, unloaded>>
    BY DEF SaveRow, ReadPermissions, PermissionsSaved, GrantRead, LoggedIn, PasswordSet, SaveKey,
           Aborts, Fails, InsertFails, store, hist
  <1>2. req[r] \in Req  BY DEF TypeInv, ReqsOK
  <1>3. CASE req' = Done(r)  BY <1>1, <1>3, DoneFollow
  <1>4. CASE SaveRow(r) /\ req' # Done(r)
    <2> DEFINE q == [req[r] EXCEPT !.pc = "unrole"]
    <2>1. req' = [req EXCEPT ![r] = q]  BY <1>4 DEF SaveRow, Goto, TypeInv, ReqsOK
    <2>2. q.pc # "install"  BY <1>2 DEF Req
    <2> HIDE DEF q
    <2> QED  BY <1>1, <2>1, <2>2, QuietFollow
  <1>5. CASE ReadPermissions(r)
    <2> DEFINE cs == {c \in Cases : \E a \in Acts : MayUse(req[r].user, c, a) \in policies}
               q  == [req[r] EXCEPT !.pc = "unperm", !.todo = cs]
    <2>1. req' = [req EXCEPT ![r] = q]  BY <1>5 DEF ReadPermissions, TypeInv, ReqsOK
    <2>2. q.pc # "install"  BY <1>2 DEF Req
    <2> HIDE DEF q
    <2> QED  BY <1>1, <2>1, <2>2, QuietFollow
  <1>6. ASSUME NEW u \in Users, GrantRead(r, u), req' # Done(r)  PROVE FollowInv'
    <2> DEFINE q == [req[r] EXCEPT !.pc = "give", !.user = u, !.row = users[u]]
    <2>1. req' = [req EXCEPT ![r] = q]  BY <1>6 DEF GrantRead, TypeInv, ReqsOK
    <2>2. q.pc # "install"  BY <1>2 DEF Req
    <2> HIDE DEF q
    <2> QED  BY <1>1, <2>1, <2>2, QuietFollow
  <1> QED  BY <1>3, <1>4, <1>5, <1>6 DEF PermissionsSaved, LoggedIn, PasswordSet, SaveKey, Aborts, Fails, InsertFails

LEMMA AutosaveStepFollow ==
    ASSUME TypeInv, FollowInv, NEW r \in Requests,
           \/ DeleteRoles(r) \/ DeletePermissions(r) \/ DeleteUserRoles(r) \/ DeleteUserRules(r)
    PROVE  FollowInv'
  <1> DEFINE u    == req[r].user
             next == CASE req[r].pc = "unrole" -> "role" [] req[r].pc = "unperm" -> "perm"
                       [] OTHER -> "purge"
             q    == IF req[r].pc = "purge" THEN Idle ELSE [req[r] EXCEPT !.pc = next]
  <1>1. /\ req[r] \in Req /\ StepOK(req[r])
        /\ req[r].pc \in {"unrole", "unperm", "delete", "purge"}
    BY DEF TypeInv, ReqsOK, DeleteRoles, DeletePermissions, DeleteUserRoles, DeleteUserRules
  <1>2. u \in Users  BY <1>1 DEF StepOK
  <1>3. q \in Req /\ StepOK(q) /\ q.pc # "install"
    <2>1. CASE req[r].pc = "purge"  BY <2>1, IdleOK DEF Idle
    <2>2. CASE req[r].pc # "purge"  BY <1>1, <2>2 DEF Req, StepOK, Pcs
    <2> QED  BY <2>1, <2>2
  <1>4. PICK gone \in SUBSET RulesOf(u) : Autosave(r, gone, {}, [req EXCEPT ![r] = q])
    <2>1. /\ [req EXCEPT ![r] = q] = IF req[r].pc = "purge" THEN Done(r) ELSE Goto(r, next)
          /\ RoleRules(u) \subseteq RulesOf(u) /\ PermissionRules(u) \subseteq RulesOf(u)
      BY <1>2, RulesInRange DEF Done, Goto, TypeInv, ReqsOK
    <2>2. CASE DeleteRoles(r)  BY <2>1, <2>2 DEF DeleteRoles
    <2>3. CASE DeletePermissions(r)  BY <2>1, <2>3 DEF DeletePermissions
    <2>4. CASE DeleteUserRoles(r)  BY <2>1, <2>4 DEF DeleteUserRoles
    <2>5. CASE DeleteUserRules(r)  BY <2>1, <2>5 DEF DeleteUserRules
    <2> QED  BY <2>2, <2>3, <2>4, <2>5
  <1> HIDE DEF q
  <1> QED  BY <1>2, <1>3, <1>4, AutosaveFollow

LEMMA AutosaveAddFollow ==
    ASSUME TypeInv, FollowInv, NEW r \in Requests,
           AddRole(r) \/ \E c \in Cases : AddPermission(r, c)
    PROVE  FollowInv'
  <1>1. req[r] \in Req /\ StepOK(req[r]) /\ req[r].user \in Users
    BY DEF TypeInv, ReqsOK, StepOK, AddRole, AddPermission
  <1>2. PICK q \in Req, rule \in RulesOf(req[r].user) :
            /\ StepOK(q) /\ q.pc # "install"
            /\ AutosaveAdd(r, rule, [req EXCEPT ![r] = q])
    <2>1. CASE AddRole(r)
      <3> DEFINE q == [req[r] EXCEPT !.pc = "perms"]
      <3>1. q \in Req /\ StepOK(q) /\ q.pc # "install"
        BY <1>1, <2>1 DEF AddRole, Req, StepOK, Pcs
      <3>2. Goto(r, "perms") = [req EXCEPT ![r] = q]  BY DEF Goto, TypeInv, ReqsOK
      <3>3. HasRole(req[r].user, req[r].row.role) \in RulesOf(req[r].user)
        BY <1>1, <2>1, RulesInRange DEF AddRole, StepOK
      <3>4. AutosaveAdd(r, HasRole(req[r].user, req[r].row.role), [req EXCEPT ![r] = q])
        BY <2>1, <3>2 DEF AddRole
      <3> HIDE DEF q
      <3> QED  BY <3>1, <3>3, <3>4
    <2>2. ASSUME NEW c \in Cases, AddPermission(r, c)
          PROVE  \E q \in Req, rule \in RulesOf(req[r].user) :
                    /\ StepOK(q) /\ q.pc # "install"
                    /\ AutosaveAdd(r, rule, [req EXCEPT ![r] = q])
      <3> DEFINE q == [req[r] EXCEPT !.todo = @ \ {c}]
                 rule == MayUse(req[r].user, c, Act(req[r].row.role))
      <3>1. q \in Req /\ StepOK(q) /\ q.pc # "install"
        BY <1>1, <2>2 DEF AddPermission, Req, StepOK
      <3>2. [req EXCEPT ![r].todo = @ \ {c}] = [req EXCEPT ![r] = q]  BY DEF TypeInv, ReqsOK
      <3>3. rule \in RulesOf(req[r].user)  BY <1>1, RulesInRange
      <3>4. AutosaveAdd(r, rule, [req EXCEPT ![r] = q])  BY <2>2, <3>2 DEF AddPermission
      <3> HIDE DEF q, rule
      <3> QED  BY <3>1, <3>3, <3>4
    <2> QED  BY <2>1, <2>2
  <1>3. CASE rule \in enforcer
    <2>1. UNCHANGED <<policies, enforcer, unloaded>> /\ req' = [req EXCEPT ![r] = q]
      BY <1>2, <1>3 DEF AutosaveAdd
    <2> QED  BY <1>1, <1>2, <2>1, QuietFollow
  <1>4. CASE rule \notin enforcer
    <2>1. Autosave(r, {}, {rule}, [req EXCEPT ![r] = q])  BY <1>2, <1>4 DEF AutosaveAdd
    <2> QED  BY <1>1, <1>2, <2>1, AutosaveFollow
  <1> QED  BY <1>3, <1>4

\* The rules of a case name every user whose rules they are.
LEMMA BeginCaseFollow ==
    ASSUME TypeInv, FollowInv, NEW r \in Requests, NEW c \in Cases,
           NEW us \in SUBSET (Known \ Builtin), BeginCase(r, c, us)
    PROVE  FollowInv'
  <1> DEFINE rules == {MayUse(u, c, a) : u \in Users, a \in Acts} \cap policies
             had   == {u \in Users : RulesOf(u) \cap rules # {}}
             rec   == [Idle EXCEPT !.op = "case", !.pc = "grant", !.kase = c, !.todo = us,
                                   !.with = (us \cup had) \ Builtin]
             reqs  == [req EXCEPT ![r] = rec]
  <1>1. /\ req' = Behind(reqs, had) /\ unloaded' = unloaded \cup had
        /\ policies' = policies \ rules /\ UNCHANGED enforcer
    BY DEF BeginCase
  <1>2. us \subseteq Users /\ had \subseteq Users  BY DEF Known
  <1>3. rec \in Req /\ StepOK(rec) /\ rec.pc = "grant"
    <2> HIDE DEF had
    <2> QED  BY <1>2 DEF Idle, Req, StepOK, Ops, Pcs
  <1>4. ReqsOK(reqs)
    <2> HIDE DEF rec
    <2> QED  BY <1>3, UpdateOK DEF TypeInv
  <1>5. \A p \in Requests : reqs[p].pc = "install" => reqs[p] = req[p]
    <2> HIDE DEF rec
    <2> QED  BY <1>3 DEF TypeInv, ReqsOK
  <1>6. \A u \in Users \ had : RulesOf(u) \cap policies' = RulesOf(u) \cap policies
    <2> HIDE DEF rules
    <2> QED  BY <1>1
  <1> HIDE DEF rules, had, reqs
  <1> QED  BY <1>1, <1>2, <1>4, <1>5, <1>6, TableFollow

LEMMA GiveFollow ==
    ASSUME TypeInv, FollowInv, NEW r \in Requests, Give(r)
    PROVE  FollowInv'
  <1> DEFINE u    == req[r].user
             q    == [req[r] EXCEPT !.pc = "grant", !.todo = @ \ {u}]
             reqs == [req EXCEPT ![r] = q]
             rule == MayUse(u, req[r].kase, Act(req[r].row.role))
  <1>1. req[r] \in Req /\ StepOK(req[r]) /\ req[r].pc = "give"
    BY DEF TypeInv, ReqsOK, Give
  <1>2. q \in Req /\ StepOK(q) /\ q.pc = "grant"  BY <1>1 DEF Req, StepOK, Pcs
  <1>3. u \in Users /\ rule \in RulesOf(u)  BY <1>1, RulesInRange DEF StepOK
  <1>4. /\ req' = Behind(reqs, {u}) /\ unloaded' = unloaded \cup {u}
        /\ policies' = policies \cup {rule} /\ UNCHANGED enforcer
    BY DEF Give, TypeInv, ReqsOK
  <1>5. ReqsOK(reqs)
    <2> HIDE DEF q
    <2> QED  BY <1>2, UpdateOK DEF TypeInv
  <1>6. \A p \in Requests : reqs[p].pc = "install" => reqs[p] = req[p]
    <2> HIDE DEF q
    <2> QED  BY <1>2 DEF TypeInv, ReqsOK
  <1>7. \A v \in Users \ {u} : RulesOf(v) \cap policies' = RulesOf(v) \cap policies
    <2> HIDE DEF rule, u
    <2> QED  BY <1>3, <1>4, RulesApart
  <1> HIDE DEF rule, u, q, reqs
  <1> QED  BY <1>3, <1>4, <1>5, <1>6, <1>7, TableFollow

LEMMA CreateUserFollow ==
    ASSUME TypeInv, FollowInv, NEW u \in Users, CreateUser(u)
    PROVE  FollowInv'
  <1>1. /\ req' = Behind(req, {u}) /\ unloaded' = unloaded \cup {u} /\ UNCHANGED enforcer
        /\ policies' = (policies \ RoleRules(u)) \cup {HasRole(u, Administrator)}
    BY DEF CreateUser
  <1>2. RoleRules(u) \subseteq RulesOf(u) /\ HasRole(u, Administrator) \in RulesOf(u)
    BY AccessAssumption, RulesInRange
  <1>3. \A v \in Users \ {u} : RulesOf(v) \cap policies' = RulesOf(v) \cap policies
    BY <1>1, <1>2, RulesApart
  <1> QED  BY <1>1, <1>3, TableFollow DEF TypeInv

\* What is read is the table, and what is installed was read.
LEMMA LoadFollow ==
    ASSUME TypeInv, FollowInv, NEW r \in Requests, LoadPolicy(r) \/ Install(r)
    PROVE  FollowInv'
  <1>1. CASE LoadPolicy(r)
    <2>1. req[r] \in Req /\ UNCHANGED <<policies, enforcer, unloaded>>
      BY <1>1 DEF TypeInv, ReqsOK, LoadPolicy, store, hist
    <2>2. \A p \in Requests : p # r => req'[p] = req[p]
      BY <1>1 DEF LoadPolicy, TypeInv, ReqsOK
    <2>3. req'[r].snap = policies
      BY <1>1, <2>1 DEF LoadPolicy, TypeInv, ReqsOK, Req
    <2> QED  BY <2>1, <2>2, <2>3 DEF FollowInv, EnforcerFollowsTable, SnapsFollow
  <1>2. CASE Install(r)
    <2>1. /\ req[r].pc = "install" /\ enforcer' = req[r].snap /\ unloaded' = req[r].behind
          /\ UNCHANGED policies /\ req' = [req EXCEPT ![r] = Idle]
      BY <1>2, DoneOK DEF Install
    <2>2. \A p \in Requests : req'[p].pc = "install" => req'[p] = req[p]
      BY <2>1 DEF TypeInv, ReqsOK, Idle
    <2> QED  BY <2>1, <2>2 DEF FollowInv, EnforcerFollowsTable, SnapsFollow
  <1> QED  BY <1>1, <1>2

LEMMA RestartFollow == ASSUME Restart PROVE FollowInv'
  BY DEF Restart, FollowInv, EnforcerFollowsTable, SnapsFollow, Idle

LEMMA KeysFollow ==
    ASSUME FollowInv, UNCHANGED <<policies, enforcer, unloaded, req>>
    PROVE  FollowInv'
  BY DEF FollowInv, EnforcerFollowsTable, SnapsFollow

LEMMA NextFollow == TypeInv /\ FollowInv /\ [Next]_vars => FollowInv'
  <1> SUFFICES ASSUME TypeInv, FollowInv, [Next]_vars PROVE FollowInv'  OBVIOUS
  <1>1. ASSUME NEW r \in Requests, NEW u \in Users,
               \/ \E role \in Roles : UserSave(r, u, role)
               \/ \E cs \in SUBSET Cases : UserSaveACL(r, u, cs)
               \/ UserDelete(r, u) \/ Login(r, u) \/ ChangePassword(r, u) \/ GrantRead(r, u)
        PROVE  FollowInv'
    BY <1>1, BeginFollow, QuietStepFollow
  <1>2. ASSUME NEW r \in Requests,
               \/ SaveRow(r) \/ DeleteRoles(r) \/ AddRole(r) \/ ReadPermissions(r)
               \/ DeletePermissions(r) \/ \E c \in Cases : AddPermission(r, c)
               \/ PermissionsSaved(r) \/ DeleteUserRoles(r) \/ DeleteUserRules(r)
        PROVE  FollowInv'
    BY <1>2, QuietStepFollow, AutosaveStepFollow, AutosaveAddFollow
  <1>3. ASSUME NEW r \in Requests,
               \/ \E c \in Cases, us \in SUBSET (Known \ Builtin) : BeginCase(r, c, us)
               \/ Give(r) \/ LoadPolicy(r) \/ Install(r) \/ LoggedIn(r) \/ PasswordSet(r)
               \/ \E k \in Keys, t \in KeyTypes : EditKey(r, k, t)
               \/ SaveKey(r) \/ Fails(r) \/ InsertFails(r)
        PROVE  FollowInv'
    BY <1>3, BeginCaseFollow, GiveFollow, LoadFollow, QuietStepFollow, EditKeyFollow
  <1>4. CASE \E u \in Users : CreateUser(u)  BY <1>4, CreateUserFollow
  <1>5. CASE \E k \in Keys : DeleteKey(k) \/ \E t \in KeyTypes : MintKey(k, t)
    BY <1>5, KeysFollow DEF DeleteKey, MintKey
  <1>6. CASE Restart  BY <1>6, RestartFollow
  <1>7. CASE UNCHANGED vars  BY <1>7, KeysFollow DEF vars, store, hist
  <1> QED  BY <1>1, <1>2, <1>3, <1>4, <1>5, <1>6, <1>7 DEF Next

LEMMA InitFollow == Init => FollowInv
  BY DEF Init, FollowInv, EnforcerFollowsTable, SnapsFollow, Idle

\* casbin's copy differs from the table only for users whose rules were
\* written to the table alone, or during a load, since the last one.
THEOREM EnforcerFollows == Spec => []EnforcerFollowsTable
  <1>1. FollowInv => EnforcerFollowsTable  BY DEF FollowInv
  <1> QED  BY <1>1, InitType, InitFollow, NextType, NextFollow, PTL DEF Spec

-----------------------------------------------------------------------------
(* API keys.                                                               *)

\* No request comes to hold a row, or another row, of keys or of any table.
KeepsKeys(reqs) == \A p \in Requests : reqs[p].pc = "key" => reqs[p] = req[p]
KeepsHeld(reqs) == \A p \in Requests : reqs[p].pc \in {"key", "row"} => reqs[p] = req[p]

LEMMA QuietKeys ==
    ASSUME KeyInv, UNCHANGED <<keys, revoked>>, made \subseteq made',
           KeepsKeys(req') \/ KeepsHeld(req')
    PROVE  KeyInv'
  BY DEF KeyInv, KeepsKeys, KeepsHeld

\* Requests go on without a row they have read, whoever is loading the rules.
LEMMA MovesKeep ==
    ASSUME TypeInv, NEW r \in Requests, NEW q \in Req, q.pc \notin {"key", "row"}, NEW us,
           \/ req' = [req EXCEPT ![r] = q]
           \/ req' = Behind([req EXCEPT ![r] = q], us)
    PROVE  KeepsHeld(req')
  <1> DEFINE reqs == [req EXCEPT ![r] = q]
  <1>1. \A p \in Requests : reqs[p] \in Req /\ reqs[p] = IF p = r THEN q ELSE req[p]
    BY DEF TypeInv, ReqsOK
  <1> HIDE DEF reqs
  <1>2. ASSUME NEW p \in Requests, Behind(reqs, us)[p].pc \in {"key", "row"}
        PROVE  Behind(reqs, us)[p] = reqs[p]
    <2>1. reqs[p] \in Req  BY <1>1
    <2>2. CASE reqs[p].pc = "install"
      <3>1. Behind(reqs, us)[p] = [reqs[p] EXCEPT !.behind = @ \cup us]  BY <2>2 DEF Behind
      <3> QED  BY <1>2, <2>1, <2>2, <3>1 DEF Req
    <2>3. CASE reqs[p].pc # "install"  BY <2>3 DEF Behind
    <2> QED  BY <2>2, <2>3
  <1>3. CASE req' = reqs  BY <1>1, <1>3 DEF KeepsHeld
  <1>4. CASE req' = Behind(reqs, us)  BY <1>1, <1>2, <1>4 DEF KeepsHeld
  <1> QED  BY <1>3, <1>4 DEF reqs

LEMMA DoneKeeps ==
    ASSUME TypeInv, NEW r \in Requests, NEW us, req' = Done(r) \/ req' = Behind(Done(r), us)
    PROVE  KeepsHeld(req')
  <1>1. Idle \in Req /\ Idle.pc \notin {"key", "row"}  BY IdleOK DEF Idle
  <1> QED  BY <1>1, DoneOK, MovesKeep

LEMMA GotoKeeps ==
    ASSUME TypeInv, NEW r \in Requests, NEW pc \in Pcs \ {"key", "row"}, NEW us,
           req' = Goto(r, pc) \/ req' = Behind(Goto(r, pc), us)
    PROVE  KeepsHeld(req')
  <1> DEFINE q == [req[r] EXCEPT !.pc = pc]
  <1>1. req[r] \in Req /\ Goto(r, pc) = [req EXCEPT ![r] = q]
    BY DEF Goto, TypeInv, ReqsOK
  <1>2. q \in Req /\ q.pc \notin {"key", "row"}  BY <1>1 DEF Req
  <1> HIDE DEF q
  <1> QED  BY <1>1, <1>2, MovesKeep

LEMMA UsersKeepKeys ==
    ASSUME TypeInv, NEW r \in Requests, NEW u \in Users,
           \/ \E role \in Roles : UserSave(r, u, role)
           \/ \E cs \in SUBSET Cases : UserSaveACL(r, u, cs)
           \/ UserDelete(r, u) \/ Login(r, u) \/ ChangePassword(r, u) \/ GrantRead(r, u)
    PROVE  KeepsKeys(req')
  <1>1. ASSUME NEW rec, Begin(r, rec), rec.pc # "key"  PROVE KeepsKeys(req')
    BY <1>1, BeginSets DEF KeepsKeys, TypeInv, ReqsOK
  <1>2. ASSUME NEW role \in Roles, UserSave(r, u, role)  PROVE KeepsKeys(req')
    BY <1>1, <1>2 DEF UserSave, Idle
  <1>3. ASSUME NEW cs \in SUBSET Cases, UserSaveACL(r, u, cs)  PROVE KeepsKeys(req')
    BY <1>1, <1>3 DEF UserSaveACL, Idle
  <1>4. CASE UserDelete(r, u)  BY <1>1, <1>4 DEF UserDelete, Idle
  <1>5. CASE Login(r, u)  BY <1>1, <1>5 DEF Login, Idle
  <1>6. CASE ChangePassword(r, u)  BY <1>1, <1>6 DEF ChangePassword, Idle
  <1>7. CASE GrantRead(r, u)
    <2> DEFINE q == [req[r] EXCEPT !.pc = "give", !.user = u, !.row = users[u]]
    <2>1. CASE req' = Done(r)  BY <2>1, DoneKeeps DEF KeepsHeld, KeepsKeys
    <2>2. CASE req' = [req EXCEPT ![r] = q]
      <3>1. req[r] \in Req  BY DEF TypeInv, ReqsOK
      <3>2. q.pc # "key"  BY <3>1 DEF Req
      <3> HIDE DEF q
      <3> QED  BY <2>2, <3>2 DEF KeepsKeys, TypeInv, ReqsOK
    <2>3. req' = Done(r) \/ req' = [req EXCEPT ![r] = q]
      BY <1>7 DEF GrantRead, TypeInv, ReqsOK
    <2> QED  BY <2>1, <2>2, <2>3
  <1> QED  BY <1>2, <1>3, <1>4, <1>5, <1>6, <1>7

LEMMA AutosaveKeeps ==
    ASSUME TypeInv, NEW r \in Requests,
           \/ DeleteRoles(r) \/ DeletePermissions(r) \/ DeleteUserRoles(r) \/ DeleteUserRules(r)
           \/ AddRole(r) \/ \E c \in Cases : AddPermission(r, c)
    PROVE  KeepsHeld(req')
  <1> DEFINE us == {req[r].user}
  <1>1. CASE DeleteRoles(r)
    BY <1>1, GotoKeeps, "role" \in Pcs \ {"key", "row"} DEF DeleteRoles, Autosave, Pcs
  <1>2. CASE DeletePermissions(r)
    BY <1>2, GotoKeeps, "perm" \in Pcs \ {"key", "row"} DEF DeletePermissions, Autosave, Pcs
  <1>3. CASE DeleteUserRoles(r)
    BY <1>3, GotoKeeps, "purge" \in Pcs \ {"key", "row"} DEF DeleteUserRoles, Autosave, Pcs
  <1>4. CASE DeleteUserRules(r)
    BY <1>4, DoneKeeps DEF DeleteUserRules, Autosave
  <1>5. CASE AddRole(r)
    <2>1. req' = Goto(r, "perms") \/ req' = Behind(Goto(r, "perms"), us)
      BY <1>5 DEF AddRole, AutosaveAdd, Autosave
    <2>2. "perms" \in Pcs \ {"key", "row"}  BY DEF Pcs
    <2> QED  BY <2>1, <2>2, GotoKeeps
  <1>6. ASSUME NEW c \in Cases, AddPermission(r, c)  PROVE KeepsHeld(req')
    <2> DEFINE q == [req[r] EXCEPT !.todo = @ \ {c}]
    <2>1. req[r] \in Req /\ req[r].pc = "perm"
      BY <1>6 DEF AddPermission, TypeInv, ReqsOK
    <2>2. q \in Req /\ q.pc \notin {"key", "row"}  BY <2>1 DEF Req
    <2>3. [req EXCEPT ![r].todo = @ \ {c}] = [req EXCEPT ![r] = q]  BY DEF TypeInv, ReqsOK
    <2>4. req' = [req EXCEPT ![r] = q] \/ req' = Behind([req EXCEPT ![r] = q], us)
      BY <1>6, <2>3 DEF AddPermission, AutosaveAdd, Autosave
    <2> HIDE DEF q, us
    <2> QED  BY <2>2, <2>4, MovesKeep
  <1> QED  BY <1>1, <1>2, <1>3, <1>4, <1>5, <1>6

LEMMA SaveKeeps ==
    ASSUME TypeInv, NEW r \in Requests,
           \/ SaveRow(r) \/ ReadPermissions(r) \/ PermissionsSaved(r) \/ LoggedIn(r)
           \/ PasswordSet(r) \/ LoadPolicy(r) \/ Install(r) \/ Fails(r) \/ InsertFails(r)
    PROVE  KeepsHeld(req')
  <1>1. req[r] \in Req  BY DEF TypeInv, ReqsOK
  <1>2. CASE req' = Done(r)  BY <1>2, DoneKeeps
  <1>3. CASE SaveRow(r) /\ req' # Done(r)
    <2>1. req' = Goto(r, "unrole") /\ "unrole" \in Pcs \ {"key", "row"}  BY <1>3 DEF SaveRow, Pcs
    <2> QED  BY <2>1, GotoKeeps
  <1>4. CASE ReadPermissions(r)
    BY <1>1, <1>4 DEF ReadPermissions, KeepsHeld, TypeInv, ReqsOK, Req
  <1>5. CASE LoadPolicy(r)
    BY <1>1, <1>5 DEF LoadPolicy, KeepsHeld, TypeInv, ReqsOK, Req
  <1> QED
    BY <1>2, <1>3, <1>4, <1>5 DEF PermissionsSaved, LoggedIn, PasswordSet, Install, Aborts, Fails, InsertFails

LEMMA BeginCaseKeeps ==
    ASSUME TypeInv, NEW r \in Requests, NEW c \in Cases, NEW us \in SUBSET (Known \ Builtin),
           BeginCase(r, c, us)
    PROVE  KeepsHeld(req') /\ UNCHANGED <<users, keys, newest, lost, made, revoked>>
  <1> DEFINE rules == {MayUse(u, c, a) : u \in Users, a \in Acts} \cap policies
             had   == {u \in Users : RulesOf(u) \cap rules # {}}
             rec   == [Idle EXCEPT !.op = "case", !.pc = "grant", !.kase = c, !.todo = us,
                                   !.with = (us \cup had) \ Builtin]
             reqs  == [req EXCEPT ![r] = rec]
  <1>1. req' = Behind(reqs, had) /\ UNCHANGED <<users, keys, newest, lost, made, revoked>>
    BY DEF BeginCase
  <1>2. us \subseteq Users /\ had \subseteq Users  BY DEF Known
  <1>3. rec \in Req /\ rec.pc \notin {"key", "row"}
    <2> HIDE DEF had
    <2> QED  BY <1>2 DEF Idle, Req, Ops, Pcs
  <1> HIDE DEF rec, had
  <1> QED  BY <1>1, <1>3, MovesKeep

LEMMA GiveKeeps ==
    ASSUME TypeInv, NEW r \in Requests, Give(r)
    PROVE  KeepsHeld(req') /\ UNCHANGED <<users, keys, newest, lost, made, revoked>>
  <1> DEFINE u == req[r].user
             q == [req[r] EXCEPT !.pc = "grant", !.todo = @ \ {u}]
  <1>1. req[r] \in Req  BY DEF TypeInv, ReqsOK
  <1>2. q \in Req /\ q.pc \notin {"key", "row"}  BY <1>1, ZenonT(60) DEF Req, Pcs
  <1>3. /\ req' = Behind([req EXCEPT ![r] = q], {u})
        /\ UNCHANGED <<users, keys, newest, lost, made, revoked>>
    BY DEF Give, TypeInv, ReqsOK
  <1> HIDE DEF q, u
  <1> QED  BY <1>2, <1>3, MovesKeep

LEMMA CreateUserKeeps ==
    ASSUME TypeInv, NEW u \in Users, CreateUser(u)
    PROVE  KeepsHeld(req')
  <1>1. req' = Behind(req, {u}) /\ ReqsOK(req)  BY DEF CreateUser, TypeInv
  <1> QED  BY <1>1, BehindOK DEF KeepsHeld

\* A key's row is held only while the key is there, and no key is made twice.
LEMMA KeyStep ==
    ASSUME TypeInv, KeyInv,
           \/ \E r \in Requests, k \in Keys, t \in KeyTypes : EditKey(r, k, t)
           \/ \E r \in Requests : SaveKey(r)
           \/ \E k \in Keys, t \in KeyTypes : MintKey(k, t)
           \/ \E k \in Keys : DeleteKey(k)
    PROVE  KeyInv'
  <1>1. ASSUME NEW r \in Requests, NEW k \in Keys, NEW t \in KeyTypes, EditKey(r, k, t)
        PROVE  KeyInv'
    <2> DEFINE rec == [Idle EXCEPT !.op = "key", !.pc = "key", !.user = k, !.row = t]
    <2>1. req' = [req EXCEPT ![r] = rec]  BY <1>1, BeginSets DEF EditKey
    <2>2. rec.user = k  BY DEF Idle
    <2>3. keys[k] # NoKey /\ UNCHANGED <<keys, made, revoked>>  BY <1>1 DEF EditKey, store
    <2>4. k \in made \ revoked  BY <2>3 DEF KeyInv
    <2> HIDE DEF rec
    <2> QED  BY <2>1, <2>2, <2>3, <2>4 DEF KeyInv, TypeInv, ReqsOK
  <1>2. ASSUME NEW r \in Requests, SaveKey(r)  PROVE KeyInv'
    <2>1. req[r].user \in made \ revoked /\ UNCHANGED <<made, revoked>>
      BY <1>2 DEF SaveKey, KeyInv, hist
    <2>2. KeepsKeys(req')  BY <1>2, DoneKeeps DEF SaveKey, KeepsHeld, KeepsKeys
    <2>3. \A k \in Keys : keys'[k] = keys[k] \/ k = req[r].user
      BY <1>2 DEF SaveKey, TypeInv, TablesOK
    <2> QED
      BY <2>1, <2>2, <2>3 DEF KeyInv, KeepsKeys, TypeInv, HistoryOK
  <1>3. ASSUME NEW k \in Keys, NEW t \in KeyTypes, MintKey(k, t)  PROVE KeyInv'
    <2>1. k \notin made /\ made' = made \cup {k} /\ UNCHANGED <<revoked, req>>
      BY <1>3 DEF MintKey
    <2>2. \A j \in Keys \ {k} : keys'[j] = keys[j]
      BY <1>3 DEF MintKey, TypeInv, TablesOK
    <2> QED  BY <2>1, <2>2 DEF KeyInv, TypeInv, HistoryOK
  <1>4. ASSUME NEW k \in Keys, DeleteKey(k)  PROVE KeyInv'
    <2>1. /\ keys[k] # NoKey /\ keys' = [keys EXCEPT ![k] = NoKey] /\ UNCHANGED <<made, req>>
          /\ \/ revoked' = revoked
             \/ /\ revoked' = revoked \cup {k}
                /\ \A r \in Requests : req[r].pc = "key" => req[r].user # k
      BY <1>4 DEF DeleteKey
    <2>2. k \in made  BY <2>1 DEF KeyInv
    <2>3. keys'[k] = NoKey /\ \A j \in Keys \ {k} : keys'[j] = keys[j]
      BY <2>1 DEF TypeInv, TablesOK
    <2> QED  BY <2>1, <2>2, <2>3 DEF KeyInv, TypeInv, HistoryOK
  <1> QED  BY <1>1, <1>2, <1>3, <1>4

LEMMA NextKeys == TypeInv /\ KeyInv /\ [Next]_vars => KeyInv'
  <1> SUFFICES ASSUME TypeInv, KeyInv, [Next]_vars PROVE KeyInv'  OBVIOUS
  <1>1. ASSUME NEW r \in Requests, NEW u \in Users,
               \/ \E role \in Roles : UserSave(r, u, role)
               \/ \E cs \in SUBSET Cases : UserSaveACL(r, u, cs)
               \/ UserDelete(r, u) \/ Login(r, u) \/ ChangePassword(r, u) \/ GrantRead(r, u)
        PROVE  KeyInv'
    <2>1. UNCHANGED <<keys, made, revoked>>
      BY <1>1 DEF UserSave, UserSaveACL, UserDelete, Login, ChangePassword, GrantRead, store, hist
    <2> QED  BY <1>1, <2>1, UsersKeepKeys, QuietKeys
  <1>2. ASSUME NEW r \in Requests,
               \/ DeleteRoles(r) \/ AddRole(r) \/ DeletePermissions(r)
               \/ \E c \in Cases : AddPermission(r, c)
               \/ DeleteUserRoles(r) \/ DeleteUserRules(r)
        PROVE  KeyInv'
    <2>1. UNCHANGED <<keys, made, revoked>>
      BY <1>2 DEF DeleteRoles, AddRole, DeletePermissions, AddPermission, DeleteUserRoles,
                  DeleteUserRules, hist
    <2> QED  BY <1>2, <2>1, AutosaveKeeps, QuietKeys
  <1>3. ASSUME NEW r \in Requests,
               \/ SaveRow(r) \/ ReadPermissions(r) \/ PermissionsSaved(r) \/ LoggedIn(r)
               \/ PasswordSet(r) \/ LoadPolicy(r) \/ Install(r) \/ Fails(r) \/ InsertFails(r)
        PROVE  KeyInv'
    <2>1. UNCHANGED <<keys, made, revoked>>
      BY <1>3 DEF SaveRow, ReadPermissions, PermissionsSaved, LoggedIn, PasswordSet, LoadPolicy,
                  Install, Aborts, Fails, InsertFails, store, hist
    <2> QED  BY <1>3, <2>1, SaveKeeps, QuietKeys
  <1>4. ASSUME NEW r \in Requests,
               \/ \E c \in Cases, us \in SUBSET (Known \ Builtin) : BeginCase(r, c, us)
               \/ Give(r)
        PROVE  KeyInv'
    <2>1. KeepsHeld(req') /\ UNCHANGED <<keys, made, revoked>>
      BY <1>4, BeginCaseKeeps, GiveKeeps
    <2> QED  BY <2>1, QuietKeys
  <1>5. ASSUME NEW u \in Users, CreateUser(u)  PROVE KeyInv'
    <2>1. UNCHANGED <<keys, revoked>> /\ made \subseteq made'  BY <1>5 DEF CreateUser
    <2> QED  BY <1>5, <2>1, CreateUserKeeps, QuietKeys
  <1>6. CASE Restart
    <2>1. UNCHANGED <<keys, made, revoked>> /\ KeepsKeys(req')
      BY <1>6 DEF Restart, KeepsKeys, Idle
    <2> QED  BY <2>1, QuietKeys
  <1>7. CASE UNCHANGED vars  BY <1>7 DEF vars, store, hist, KeyInv
  <1> QED  BY <1>1, <1>2, <1>3, <1>4, <1>5, <1>6, <1>7, KeyStep DEF Next

\* A deleted key is not accepted again, unless an edit held its row.
THEOREM RevokedKeysStay == Spec => []RevokedKeysStayOut
  <1>1. Init => KeyInv  BY DEF Init, KeyInv, Idle
  <1>2. TypeInv /\ KeyInv => RevokedKeysStayOut
    BY AccessAssumption DEF KeyInv, RevokedKeysStayOut, Accepted
  <1> QED  BY <1>1, <1>2, InitType, NextType, NextKeys, PTL DEF Spec

-----------------------------------------------------------------------------
(* Passwords.                                                              *)

\* A step that changes no user and reads no row.
LEMMA QuietPasswords ==
    ASSUME PasswordInv, UNCHANGED <<users, newest, lost>>, made \subseteq made', KeepsHeld(req')
    PROVE  PasswordInv'
  BY DEF PasswordInv, PasswordsStay, KeepsHeld

\* A row is read, to be saved with another role or by a login.
LEMMA ReadPasswords ==
    ASSUME TypeInv, PasswordInv, UNCHANGED <<users, newest, lost, made>>,
           NEW r \in Requests, NEW u \in Users, NEW q, req' = [req EXCEPT ![r] = q],
           q.user = u, u \in CliUsers => u \in made,
           q.op = "password" \/ q.row.pw = IF users[u] = NoRow THEN 0 ELSE users[u].pw
    PROVE  PasswordInv'
  <1>1. \A p \in Requests : req'[p] = IF p = r THEN q ELSE req[p]
    BY DEF TypeInv, ReqsOK
  <1> QED  BY <1>1 DEF PasswordInv, PasswordsStay

LEMMA BeginPasswords ==
    ASSUME TypeInv, PasswordInv, NEW r \in Requests, NEW u \in Users,
           \/ \E role \in Roles : UserSave(r, u, role)
           \/ Login(r, u) \/ ChangePassword(r, u)
    PROVE  PasswordInv'
  <1>1. users[u] # NoRow => users[u] \in Rows  BY DEF TypeInv, TablesOK
  <1>2. users[u] # NoRow /\ u \in CliUsers => u \in made  BY DEF PasswordInv
  <1>3. ASSUME NEW role \in Roles, UserSave(r, u, role)  PROVE PasswordInv'
    <2> DEFINE row == [users[u] EXCEPT !.role = role]
               q   == [Idle EXCEPT !.op = "save", !.pc = "row", !.user = u,
                                   !.with = {u} \ Builtin, !.row = row]
    <2>1. users[u] # NoRow /\ UNCHANGED <<users, newest, lost, made>>
      BY <1>3 DEF UserSave, store
    <2>2. req' = [req EXCEPT ![r] = q]  BY <1>3, BeginSets DEF UserSave
    <2>3. row.pw = users[u].pw  BY <1>1, <2>1 DEF Rows
    <2>4. q.user = u /\ q.row = row
      <3> HIDE DEF row
      <3> QED  BY DEF Idle
    <2> HIDE DEF q, row
    <2> QED  BY <1>2, <2>1, <2>2, <2>3, <2>4, ReadPasswords
  <1>4. CASE Login(r, u)
    <2> DEFINE q == [Idle EXCEPT !.op = "login", !.pc = "row", !.user = u, !.with = {u},
                                 !.row = LoginRow(u)]
    <2>1. UNCHANGED <<users, newest, lost, made>> /\ (u \in CliUsers => u \in made)
      BY <1>2, <1>4 DEF Login, store
    <2>2. req' = [req EXCEPT ![r] = q]  BY <1>4, BeginSets DEF Login
    <2>3. LoginRow(u).pw = IF users[u] = NoRow THEN 0 ELSE users[u].pw  BY DEF LoginRow
    <2>4. q.user = u /\ q.row = LoginRow(u)  BY DEF Idle
    <2> HIDE DEF q
    <2> QED  BY <2>1, <2>2, <2>3, <2>4, ReadPasswords
  <1>5. CASE ChangePassword(r, u)
    <2> DEFINE q == [Idle EXCEPT !.op = "password", !.pc = "row", !.user = u, !.with = {u},
                                 !.row = users[u]]
    <2>1. UNCHANGED <<users, newest, lost, made>> /\ users[u] # NoRow
      BY <1>5 DEF ChangePassword, store
    <2>2. req' = [req EXCEPT ![r] = q]  BY <1>5, BeginSets DEF ChangePassword
    <2>3. q.user = u /\ q.op = "password"  BY DEF Idle
    <2> HIDE DEF q
    <2> QED  BY <1>2, <2>1, <2>2, <2>3, ReadPasswords
  <1> QED  BY <1>3, <1>4, <1>5

\* A row that is saved with the newest password, or to a user already named.
LEMMA WriteRow ==
    ASSUME TypeInv, PasswordInv, KeepsHeld(req'), UNCHANGED <<newest, lost, made>>,
           NEW u \in Users, NEW row \in Rows, users' = [users EXCEPT ![u] = row],
           u \in CliUsers => u \in made, u \notin lost => row.pw = newest[u]
    PROVE  PasswordInv'
  <1>1. row # NoRow  BY AccessAssumption DEF Rows
  <1>2. \A v \in Users : users'[v] = IF v = u THEN row ELSE users[v]
    BY DEF TypeInv, TablesOK
  <1>3. PasswordsStay' /\ \A v \in Users : users'[v] = NoRow => newest'[v] = 0
    BY <1>1, <1>2 DEF PasswordInv, PasswordsStay
  <1>4. \A v \in CliUsers \ made' : users'[v] = NoRow
    BY <1>2, AccessAssumption DEF PasswordInv
  <1>5. \A p \in Requests : req'[p].pc = "row" => req'[p] = req[p]  BY DEF KeepsHeld
  <1> QED  BY <1>3, <1>4, <1>5 DEF PasswordInv

LEMMA SaveRowPasswords ==
    ASSUME TypeInv, PasswordInv, NEW r \in Requests, SaveRow(r) \/ LoggedIn(r)
    PROVE  PasswordInv'
  <1>1. KeepsHeld(req')  BY SaveKeeps
  <1>2. UNCHANGED <<newest, lost, made>>  BY DEF SaveRow, LoggedIn, hist
  <1>3. CASE users' = users  BY <1>1, <1>2, <1>3, QuietPasswords
  <1>4. CASE users' = [users EXCEPT ![req[r].user] = req[r].row]
    <2>1. req[r].user \in Users /\ req[r].row \in Rows
      BY DEF TypeInv, ReqsOK, StepOK, SaveRow, LoggedIn
    <2>2. /\ req[r].user \in CliUsers => req[r].user \in made
          /\ req[r].user \notin lost => req[r].row.pw = newest[req[r].user]
      BY DEF SaveRow, LoggedIn, PasswordInv
    <2> QED  BY <1>1, <1>2, <1>4, <2>1, <2>2, WriteRow
  <1> QED  BY <1>3, <1>4 DEF SaveRow, LoggedIn

\* What a new password or a deletion leaves to requests that hold the row.
LEMMA NewPassword ==
    ASSUME TypeInv, PasswordInv, UNCHANGED made,
           NEW r \in Requests, NEW u \in Users,
           NEW row \in Rows \cup {NoRow}, NEW pw \in 0..MaxPassword,
           users' = [users EXCEPT ![u] = row], newest' = [newest EXCEPT ![u] = pw],
           row # NoRow => row.pw = pw /\ (u \in CliUsers => u \in made),
           row = NoRow => pw = 0,
           lost' = IF Held(r, u) THEN lost \cup {u} ELSE lost \ {u},
           \A p \in Requests : req'[p].pc = "row" => p # r /\ req'[p] = req[p]
    PROVE  PasswordInv'
  <1>1. \A v \in Users : /\ users'[v] = IF v = u THEN row ELSE users[v]
                         /\ newest'[v] = IF v = u THEN pw ELSE newest[v]
    BY DEF TypeInv, TablesOK, HistoryOK
  <1>2. PasswordsStay' /\ \A v \in Users : users'[v] = NoRow => newest'[v] = 0
    BY <1>1 DEF PasswordInv, PasswordsStay
  <1>3. \A v \in CliUsers \ made' : users'[v] = NoRow
    BY <1>1, AccessAssumption DEF PasswordInv
  <1>4. ASSUME NEW p \in Requests, req'[p].pc = "row"
        PROVE  /\ req'[p].user \in CliUsers => req'[p].user \in made'
               /\ req'[p].op \in {"save", "login"} /\ req'[p].user \notin lost' =>
                    req'[p].row.pw = newest'[req'[p].user]
    <2>1. p # r /\ req'[p] = req[p] /\ req[p].pc = "row" /\ StepOK(req[p])
      BY <1>4 DEF TypeInv, ReqsOK
    <2>2. req[p].user \in Users  BY <2>1 DEF StepOK
    <2>3. CASE req[p].user = u
      BY <2>1, <2>3 DEF Held, PasswordInv
    <2>4. CASE req[p].user # u
      BY <1>1, <2>1, <2>2, <2>4 DEF PasswordInv
    <2> QED  BY <2>3, <2>4
  <1> QED  BY <1>2, <1>3, <1>4 DEF PasswordInv

LEMMA PasswordSetPasswords ==
    ASSUME TypeInv, PasswordInv, NEW r \in Requests, PasswordSet(r)
    PROVE  PasswordInv'
  <1> DEFINE u   == req[r].user
             pw  == IF newest[u] < MaxPassword THEN newest[u] + 1 ELSE newest[u]
             row == [req[r].row EXCEPT !.pw = pw]
  <1>1. u \in Users /\ req[r].row \in Rows /\ req[r].pc = "row"
    BY DEF TypeInv, ReqsOK, StepOK, PasswordSet
  <1>2. pw \in 0..MaxPassword
    BY <1>1, AccessAssumption DEF TypeInv, HistoryOK
  <1>3. row \in Rows /\ row.pw = pw
    <2> HIDE DEF pw
    <2> QED  BY <1>1, <1>2 DEF Rows
  <1>4. u \in CliUsers => u \in made  BY <1>1 DEF PasswordInv
  <1>5. /\ users' = [users EXCEPT ![u] = row] /\ newest' = [newest EXCEPT ![u] = pw]
        /\ lost' = IF Held(r, u) THEN lost \cup {u} ELSE lost \ {u}
        /\ UNCHANGED made
    BY DEF PasswordSet
  <1>6. \A p \in Requests : req'[p].pc = "row" => p # r /\ req'[p] = req[p]
    <2>1. req' = [req EXCEPT ![r] = Idle] /\ Idle.pc # "row"
      BY DoneOK DEF PasswordSet, Idle
    <2> QED  BY <2>1 DEF TypeInv, ReqsOK
  <1>7. row # NoRow  BY <1>3, AccessAssumption DEF Rows
  <1> HIDE DEF u, pw, row
  <1> QED  BY <1>1, <1>2, <1>3, <1>4, <1>5, <1>6, <1>7, NewPassword

LEMMA UserDeletePasswords ==
    ASSUME TypeInv, PasswordInv, NEW r \in Requests, NEW u \in Users, UserDelete(r, u)
    PROVE  PasswordInv'
  <1> DEFINE q == [Idle EXCEPT !.op = "delete", !.pc = "delete", !.user = u, !.with = {u}]
  <1>1. /\ users' = [users EXCEPT ![u] = NoRow] /\ newest' = [newest EXCEPT ![u] = 0]
        /\ lost' = IF Held(r, u) THEN lost \cup {u} ELSE lost \ {u}
        /\ UNCHANGED made
    BY DEF UserDelete
  <1>2. \A p \in Requests : req'[p].pc = "row" => p # r /\ req'[p] = req[p]
    <2>1. req' = [req EXCEPT ![r] = q]  BY BeginSets DEF UserDelete
    <2>2. q.pc # "row"  BY DEF Idle
    <2> HIDE DEF q
    <2> QED  BY <2>1, <2>2 DEF TypeInv, ReqsOK
  <1>3. 0 \in 0..MaxPassword  BY AccessAssumption
  <1> QED  BY <1>1, <1>2, <1>3, NewPassword

LEMMA CreateUserPasswords ==
    ASSUME TypeInv, PasswordInv, NEW u \in Users, CreateUser(u)
    PROVE  PasswordInv'
  <1> DEFINE row == [role |-> Administrator, pw |-> 0]
  <1>1. /\ u \in CliUsers \ made /\ made' = made \cup {u}
        /\ users' = [users EXCEPT ![u] = row] /\ UNCHANGED <<newest, lost>>
    BY DEF CreateUser
  <1>2. row.pw = 0 /\ newest[u] = 0  BY <1>1 DEF PasswordInv
  <1>3. KeepsHeld(req')  BY CreateUserKeeps
  <1>4. row # NoRow  BY AccessAssumption DEF Rows
  <1>5. \A v \in Users : users'[v] = IF v = u THEN row ELSE users[v]
    BY <1>1 DEF TypeInv, TablesOK
  <1>6. CliUsers \subseteq Users  BY AccessAssumption
  <1>7. \A p \in Requests : req'[p].pc = "row" => req'[p] = req[p]  BY <1>3 DEF KeepsHeld
  <1> HIDE DEF row
  <1>8. PasswordsStay'  BY <1>1, <1>2, <1>5 DEF PasswordInv, PasswordsStay
  <1>9. \A v \in Users : users'[v] = NoRow => newest'[v] = 0
    BY <1>1, <1>4, <1>5 DEF PasswordInv
  <1>10. \A v \in CliUsers \ made' : users'[v] = NoRow
    BY <1>1, <1>5, <1>6 DEF PasswordInv
  <1> QED  BY <1>1, <1>7, <1>8, <1>9, <1>10 DEF PasswordInv

\* The requests of users that neither read a row to save nor write one.
LEMMA UsersKeep ==
    ASSUME TypeInv, NEW r \in Requests, NEW u \in Users,
           (\E cs \in SUBSET Cases : UserSaveACL(r, u, cs)) \/ GrantRead(r, u)
    PROVE  KeepsHeld(req') /\ UNCHANGED <<users, newest, lost, made>>
  <1>1. ASSUME NEW cs \in SUBSET Cases, UserSaveACL(r, u, cs)
        PROVE  KeepsHeld(req') /\ UNCHANGED <<users, newest, lost, made>>
    <2> DEFINE q == [Idle EXCEPT !.op = "acl", !.pc = "unperm", !.user = u,
                                 !.with = {u} \ Builtin, !.row = users[u], !.todo = cs]
    <2>1. UNCHANGED <<users, newest, lost, made>>  BY <1>1 DEF UserSaveACL, store
    <2>2. req' = [req EXCEPT ![r] = q]  BY <1>1, BeginSets DEF UserSaveACL
    <2>3. q.pc = "unperm"  BY DEF Idle
    <2> HIDE DEF q
    <2> QED  BY <2>1, <2>2, <2>3 DEF KeepsHeld, TypeInv, ReqsOK
  <1>2. CASE GrantRead(r, u)
    <2> DEFINE q == [req[r] EXCEPT !.pc = "give", !.user = u, !.row = users[u]]
    <2>1. UNCHANGED <<users, newest, lost, made>>  BY <1>2 DEF GrantRead, store, hist
    <2>2. req' = Done(r) \/ req' = [req EXCEPT ![r] = q]
      BY <1>2 DEF GrantRead, TypeInv, ReqsOK
    <2>3. q.pc = "give"  BY DEF TypeInv, ReqsOK, Req
    <2> HIDE DEF q
    <2> QED  BY <2>1, <2>2, <2>3, DoneKeeps DEF KeepsHeld, TypeInv, ReqsOK
  <1> QED  BY <1>1, <1>2

LEMMA KeyPasswords ==
    ASSUME TypeInv, PasswordInv, NEW k \in Keys,
           \/ \E r \in Requests, t \in KeyTypes : EditKey(r, k, t)
           \/ \E t \in KeyTypes : MintKey(k, t)
           \/ DeleteKey(k)
    PROVE  PasswordInv'
  <1>1. ASSUME NEW r \in Requests, NEW t \in KeyTypes, EditKey(r, k, t)  PROVE PasswordInv'
    <2> DEFINE q == [Idle EXCEPT !.op = "key", !.pc = "key", !.user = k, !.row = t]
    <2>1. UNCHANGED <<users, newest, lost, made>>  BY <1>1 DEF EditKey, store
    <2>2. req' = [req EXCEPT ![r] = q]  BY <1>1, BeginSets DEF EditKey
    <2>3. q.pc = "key"  BY DEF Idle
    <2> HIDE DEF q
    <2>4. \A p \in Requests : req'[p].pc = "row" => req'[p] = req[p]
      BY <2>2, <2>3 DEF TypeInv, ReqsOK
    <2> QED  BY <2>1, <2>4 DEF PasswordInv, PasswordsStay
  <1>2. CASE (\E t \in KeyTypes : MintKey(k, t)) \/ DeleteKey(k)
    BY <1>2 DEF MintKey, DeleteKey, PasswordInv, PasswordsStay
  <1> QED  BY <1>1, <1>2

LEMMA NextPasswords == TypeInv /\ PasswordInv /\ [Next]_vars => PasswordInv'
  <1> SUFFICES ASSUME TypeInv, PasswordInv, [Next]_vars PROVE PasswordInv'  OBVIOUS
  <1>1. ASSUME NEW r \in Requests, NEW u \in Users,
               \/ \E role \in Roles : UserSave(r, u, role)
               \/ \E cs \in SUBSET Cases : UserSaveACL(r, u, cs)
               \/ UserDelete(r, u) \/ Login(r, u) \/ ChangePassword(r, u) \/ GrantRead(r, u)
        PROVE  PasswordInv'
    BY <1>1, BeginPasswords, UserDeletePasswords, UsersKeep, QuietPasswords
  <1>2. ASSUME NEW r \in Requests,
               \/ DeleteRoles(r) \/ AddRole(r) \/ DeletePermissions(r)
               \/ \E c \in Cases : AddPermission(r, c)
               \/ DeleteUserRoles(r) \/ DeleteUserRules(r)
        PROVE  PasswordInv'
    <2>1. UNCHANGED <<users, newest, lost, made>>
      BY <1>2 DEF DeleteRoles, AddRole, DeletePermissions, AddPermission, DeleteUserRoles,
                  DeleteUserRules
    <2> QED  BY <1>2, <2>1, AutosaveKeeps, QuietPasswords
  <1>3. ASSUME NEW r \in Requests,
               \/ ReadPermissions(r) \/ PermissionsSaved(r) \/ LoadPolicy(r) \/ Install(r)
               \/ Fails(r) \/ InsertFails(r)
        PROVE  PasswordInv'
    <2>1. UNCHANGED <<users, newest, lost, made>>
      BY <1>3 DEF ReadPermissions, PermissionsSaved, LoadPolicy, Install, Aborts, Fails, InsertFails, store, hist
    <2> QED  BY <1>3, <2>1, SaveKeeps, QuietPasswords
  <1>4. ASSUME NEW r \in Requests,
               \/ \E c \in Cases, us \in SUBSET (Known \ Builtin) : BeginCase(r, c, us)
               \/ Give(r)
        PROVE  PasswordInv'
    <2>1. KeepsHeld(req') /\ UNCHANGED <<users, newest, lost, made>>
      BY <1>4, BeginCaseKeeps, GiveKeeps
    <2> QED  BY <2>1, QuietPasswords
  <1>5. ASSUME NEW r \in Requests, SaveRow(r) \/ LoggedIn(r) \/ PasswordSet(r)  PROVE PasswordInv'
    BY <1>5, SaveRowPasswords, PasswordSetPasswords
  <1>6. ASSUME NEW u \in Users, CreateUser(u)  PROVE PasswordInv'
    BY <1>6, CreateUserPasswords
  <1>7. CASE \/ \E r \in Requests, k \in Keys, t \in KeyTypes : EditKey(r, k, t)
             \/ \E k \in Keys : DeleteKey(k) \/ \E t \in KeyTypes : MintKey(k, t)
    BY <1>7, KeyPasswords
  <1>8. ASSUME NEW r \in Requests, SaveKey(r)  PROVE PasswordInv'
    <2>1. KeepsHeld(req')  BY <1>8, DoneKeeps DEF SaveKey
    <2> QED  BY <1>8, <2>1, QuietPasswords DEF SaveKey, hist
  <1>9. CASE Restart
    <2>1. UNCHANGED <<users, newest, lost, made>> /\ KeepsHeld(req')
      BY <1>9 DEF Restart, KeepsHeld, Idle
    <2> QED  BY <2>1, QuietPasswords
  <1>10. CASE UNCHANGED vars
    BY <1>10 DEF vars, store, hist, PasswordInv, PasswordsStay
  <1> QED  BY <1>1, <1>2, <1>3, <1>4, <1>5, <1>6, <1>7, <1>8, <1>9, <1>10 DEF Next

LEMMA InitPasswords == Init => PasswordInv
  <1> SUFFICES ASSUME Init PROVE PasswordInv  OBVIOUS
  <1>1. \A u \in Users : users[u] # NoRow => users[u].pw = 0  BY DEF Init
  <1>2. Idle.pc # "row"  BY DEF Idle
  <1> QED  BY <1>1, <1>2, AccessAssumption DEF Init, PasswordInv, PasswordsStay

\* A replaced password is not valid again, unless a login or an administrator
\* held the old row when the new one was saved.
THEOREM OldPasswordsStayOut == Spec => []PasswordsStay
  <1>1. PasswordInv => PasswordsStay  BY DEF PasswordInv
  <1> QED  BY <1>1, InitType, InitPasswords, NextType, NextPasswords, PTL DEF Spec
-----------------------------------------------------------------------------
(* What the rules say and what the rows say.                               *)

RoleOf(row) == IF row = NoRow THEN NoRole ELSE row.role

\* The rules of the table grant what the row says.
Grants(table, u, row) ==
    /\ HasRole(u, Administrator) \in table <=> RoleOf(row) = Administrator
    /\ \A c \in Cases : MayUse(u, c, "*") \in table => row # NoRow /\ row.role # ReadOnly
    /\ \A c \in Cases : MayUse(u, c, "GET") \in table => row # NoRow

\* What a request that changes a role or deletes a user has achieved so far.
Achieved(q, table, row) ==
    /\ q.op = "save" /\ q.pc # "row" =>
         /\ row # NoRow /\ row.role = q.row.role
         /\ q.pc = "role" => HasRole(q.user, Administrator) \notin table
         /\ q.pc \in {"perms", "unperm", "perm"} =>
              (HasRole(q.user, Administrator) \in table <=> q.row.role = Administrator)
         /\ q.pc = "perm" =>
              \A c \in Cases : MayUse(q.user, c, "*") \in table => q.row.role # ReadOnly
    /\ q.op = "delete" =>
         row = NoRow /\ (q.pc = "purge" => HasRole(q.user, Administrator) \notin table)

\* What the others have read of a user's role is still so.
Current(q, row) ==
    /\ q.op \in {"acl", "password"} \/ q.pc = "give" => row # NoRow /\ q.row.role = row.role
    /\ q.op = "login" => q.row.role = RoleOf(row)

\* Whom a request counts as its users.
WithOK(q) ==
    /\ q.op \in {"idle", "key"} => q.with = {}
    /\ q.op \in {"save", "acl"} => q.with = {q.user} \ Builtin
    /\ q.op \in {"delete", "login", "password"} => q.with = {q.user}
    /\ q.op = "save" /\ q.pc # "row" => q.user \notin Builtin
    /\ q.pc \in {"grant", "give"} => q.todo \subseteq q.with
    /\ q.pc = "give" => q.user \in q.todo

Changes(q)    == q.op \in {"save", "delete"}
MidChange(q, u) == Changes(q) /\ q.pc # "row" /\ q.user = u

\* Nobody touches the principals of API keys, nor a user who is not made yet.
ProtectedInv ==
    /\ \A b \in Builtin : RoleOf(users[b]) = Administrator /\ HasRole(b, Administrator) \in policies
    /\ \A u \in CliUsers \ made : /\ RulesOf(u) \cap policies = {}
                                  /\ \A r \in Requests : u \notin req[r].with

\* A change of a role that another request on the same user overlaps is known to clash.
ClashInv ==
    \A r \in Requests : Changes(req[r]) =>
        /\ \A q \in Requests \ {r} : req[q].with \cap req[r].with # {} => r \in clash
        /\ r \in clash => req[r].with \subseteq torn

TableInv ==
    \A u \in Users \ (torn \cup Builtin) :
        (\A r \in Requests : ~MidChange(req[r], u)) => Grants(policies, u, users[u])

RequestInv ==
    \A r \in Requests :
        /\ WithOK(req[r])
        /\ r \notin clash => Achieved(req[r], policies, users[req[r].user])
        /\ req[r].user \in Users \ torn => Current(req[r], users[req[r].user])

AccessInv == ProtectedInv /\ ClashInv /\ TableInv /\ RequestInv

\* What a step leaves of the other requests; a load may learn of rules it misses.
Same(p, q) ==
    p.op = q.op /\ p.pc = q.pc /\ p.user = q.user /\ p.row = q.row /\ p.todo = q.todo
    /\ p.with = q.with

OthersSame(r) == \A q \in Requests \ {r} : Same(req'[q], req[q])

LEMMA SameMeans ==
    ASSUME NEW p, NEW q, Same(p, q)
    PROVE  /\ WithOK(p) <=> WithOK(q)
           /\ Changes(p) <=> Changes(q)
           /\ \A u : MidChange(p, u) <=> MidChange(q, u)
           /\ \A table, row : Achieved(p, table, row) <=> Achieved(q, table, row)
           /\ \A row : Current(p, row) <=> Current(q, row)
  BY DEF Same, WithOK, Changes, MidChange, Achieved, Current

LEMMA BehindSame ==
    ASSUME NEW reqs, ReqsOK(reqs), NEW us \in SUBSET Users, NEW p \in Requests
    PROVE  Same(Behind(reqs, us)[p], reqs[p])
  <1>1. reqs[p] \in Req  BY DEF ReqsOK
  <1>2. CASE reqs[p].pc = "install"
    <2>1. Behind(reqs, us)[p] = [reqs[p] EXCEPT !.behind = @ \cup us]  BY <1>2 DEF Behind
    <2> QED  BY <1>1, <2>1 DEF Req, Same
  <1>3. CASE reqs[p].pc # "install"
    <2>1. Behind(reqs, us)[p] = reqs[p]  BY <1>3 DEF Behind
    <2> QED  BY <2>1 DEF Same
  <1> QED  BY <1>2, <1>3

\* One request changes, the others do not or learn of new rules only.
LEMMA OneChanges ==
    ASSUME TypeInv, NEW r \in Requests, NEW q,
           \/ req' = [req EXCEPT ![r] = q]
           \/ /\ ReqsOK([req EXCEPT ![r] = q])
              /\ \E us \in SUBSET Users : req' = Behind([req EXCEPT ![r] = q], us)
    PROVE  OthersSame(r) /\ Same(req'[r], q)
  <1> DEFINE reqs == [req EXCEPT ![r] = q]
  <1>1. \A p \in Requests : reqs[p] = IF p = r THEN q ELSE req[p]
    BY DEF TypeInv, ReqsOK
  <1>2. CASE req' = reqs  BY <1>1, <1>2 DEF OthersSame, Same
  <1>3. ASSUME ReqsOK(reqs), NEW us \in SUBSET Users, req' = Behind(reqs, us)
        PROVE  OthersSame(r) /\ Same(req'[r], q)
    <2> HIDE DEF reqs
    <2>1. \A p \in Requests : Same(req'[p], reqs[p])  BY <1>3, BehindSame
    <2> QED  BY <1>1, <2>1 DEF OthersSame
  <1> QED  BY <1>2, <1>3

\* Users that a request counts as its own, and what its role-changing steps need.
LEMMA WithUser ==
    ASSUME TypeInv, AccessInv, NEW r \in Requests
    PROVE  /\ req[r] \in Req /\ StepOK(req[r]) /\ WithOK(req[r])
           /\ req[r].with \cap Builtin = {}
           /\ req[r].op \in {"save", "acl", "delete", "login", "password"} \/ req[r].pc = "give" =>
                /\ req[r].user \in Users
                /\ req[r].user \in req[r].with \cup Builtin
           /\ Changes(req[r]) /\ req[r].pc # "row" => req[r].user \notin Builtin
           /\ req[r].op \in {"login", "password"} \/ req[r].pc = "give" =>
                req[r].user \notin Builtin
           /\ Changes(req[r]) => req[r].with = {req[r].user} \ Builtin
  <1>1. req[r] \in Req /\ StepOK(req[r])  BY DEF TypeInv, ReqsOK
  <1>2. WithOK(req[r])  BY DEF AccessInv, RequestInv
  <1>3. req[r].with \subseteq Users \ Builtin  BY <1>1 DEF Req
  <1> QED  BY <1>1, <1>2, <1>3 DEF StepOK, WithOK, Changes

\* Nobody else works on the users of a request whose change does not clash.
LEMMA Alone ==
    ASSUME TypeInv, AccessInv, NEW r \in Requests, Changes(req[r]), r \notin clash,
           NEW q \in Requests \ {r}
    PROVE  req[q].with \cap req[r].with = {}
  BY DEF AccessInv, ClashInv

-----------------------------------------------------------------------------
(* The three kinds of step.                                                *)

\* A request begins: whom it disturbs is torn, and both requests clash.
LEMMA BeginAccess ==
    ASSUME TypeInv, TypeInv', AccessInv, NEW r \in Requests, NEW rec \in Req, StepOK(rec),
           req[r].op = "idle", OthersSame(r), Same(req'[r], rec), WithOK(rec),
           NEW hits,
           hits = {q \in Requests : Conflict(rec.op, req[q].op) /\ req[q].with \cap rec.with # {}},
           torn' = torn \cup UNION {req[q].with \cap rec.with : q \in hits},
           clash' = IF hits = {} THEN clash \ {r} ELSE clash \cup hits \cup {r},
           made' = made, \A v \in CliUsers \ made : v \notin rec.with,
           policies' \subseteq policies,
           \A v \in Users : HasRole(v, Administrator) \in policies =>
                              HasRole(v, Administrator) \in policies',
           \A v \in Users : users'[v] = users[v] \/ (MidChange(rec, v) /\ rec.op = "delete"),
           rec.op = "delete" => users'[rec.user] = NoRow /\ rec.pc # "purge",
           rec.op = "save" => rec.pc = "row",
           rec.user \in Users => Current(rec, users[rec.user])
    PROVE  AccessInv'
  <1>1. Changes(rec) => rec.with = {rec.user} \ Builtin
    BY DEF Changes, WithOK, Req
  <1>2. rec.op = "delete" => rec.user \in Users /\ rec.user \notin Builtin /\ rec.with = {rec.user}
    BY DEF WithOK, StepOK, Req
  <1>3. /\ torn \subseteq torn' /\ clash \ {r} \subseteq clash'
        /\ r \in clash' => hits # {}
    OBVIOUS
  \* Whoever works on its users, and one of the two changes a role, is disturbed.
  <1>4. ASSUME NEW q \in Requests \ {r}, req[q].with \cap rec.with # {},
               Changes(req[q]) \/ Changes(rec)
        PROVE  q \in clash' /\ r \in clash' /\ req[q].with \cap rec.with \subseteq torn'
    <2>1. WithOK(req[q])  BY DEF AccessInv, RequestInv
    <2>2. req[q].op \notin {"idle", "key"} /\ rec.op \notin {"idle", "key"}
      BY <1>4, <2>1 DEF WithOK
    <2>3. Conflict(rec.op, req[q].op)  BY <1>4, <2>2 DEF Conflict, Changes
    <2>4. q \in hits  BY <1>4, <2>3
    <2> QED  BY <2>4
  <1>5. \A q \in hits : Changes(req[q]) => req[q].with \subseteq torn'
    BY WithUser
  <1>6. \A q \in hits : Changes(rec) => rec.with \subseteq torn'
    BY <1>1
  <1>7. ProtectedInv'
    <2>1. ASSUME NEW b \in Builtin
          PROVE  RoleOf(users'[b]) = Administrator /\ HasRole(b, Administrator) \in policies'
      <3>1. b \in Users  BY AccessAssumption
      <3>2. users'[b] = users[b]  BY <1>2, <3>1 DEF MidChange
      <3> QED  BY <3>1, <3>2 DEF AccessInv, ProtectedInv
    <2>2. ASSUME NEW u \in CliUsers \ made
          PROVE  RulesOf(u) \cap policies' = {} /\ \A q \in Requests : u \notin req'[q].with
      BY DEF AccessInv, ProtectedInv, OthersSame, Same
    <2> QED  BY <2>1, <2>2 DEF ProtectedInv
  <1>8. ClashInv'
    <2>1. ASSUME NEW p \in Requests, Changes(req'[p])
          PROVE  /\ \A q \in Requests \ {p} : req'[q].with \cap req'[p].with # {} => p \in clash'
                 /\ p \in clash' => req'[p].with \subseteq torn'
      <3>1. CASE p = r
        <4>1. Changes(rec)  BY <2>1, <3>1, SameMeans
        <4> QED  BY <1>3, <1>4, <1>6, <3>1, <4>1 DEF OthersSame, Same
      <3>2. CASE p # r
        <4>1. Changes(req[p]) /\ req'[p].with = req[p].with
          BY <2>1, <3>2, SameMeans DEF OthersSame, Same
        <4>2. \A q \in Requests \ {p} : req'[q].with \cap req'[p].with # {} => p \in clash'
          BY <1>3, <1>4, <3>2, <4>1 DEF OthersSame, Same, AccessInv, ClashInv
        <4>3. p \in clash' => p \in clash \/ p \in hits  BY <3>2
        <4> QED  BY <1>3, <1>5, <4>1, <4>2, <4>3 DEF AccessInv, ClashInv
      <3> QED  BY <3>1, <3>2
    <2> QED  BY <2>1 DEF ClashInv
  <1>9. TableInv'
    <2>1. ASSUME NEW u \in Users \ (torn' \cup Builtin),
                 \A q \in Requests : ~MidChange(req'[q], u)
          PROVE  Grants(policies', u, users'[u])
      <3>1. \A q \in Requests \ {r} : ~MidChange(req[q], u)
        BY <2>1, SameMeans DEF OthersSame
      <3>2. ~MidChange(req[r], u)  BY DEF MidChange, Changes
      <3>3. ~MidChange(rec, u)  BY <2>1, SameMeans
      <3>4. Grants(policies, u, users[u])
        BY <1>3, <3>1, <3>2 DEF AccessInv, TableInv
      <3>5. users'[u] = users[u]  BY <3>3
      <3> QED  BY <3>4, <3>5 DEF Grants
    <2> QED  BY <2>1 DEF TableInv
  <1>10. RequestInv'
    <2>1. ASSUME NEW p \in Requests
          PROVE  /\ WithOK(req'[p])
                 /\ p \notin clash' => Achieved(req'[p], policies', users'[req'[p].user])
                 /\ req'[p].user \in Users \ torn' => Current(req'[p], users'[req'[p].user])
      <3>1. CASE p = r
        <4>1. Achieved(rec, policies', users'[rec.user])  BY DEF Achieved
        <4>2. req'[r].user = rec.user  BY DEF Same
        <4>3. rec.user \in Users => Current(rec, users'[rec.user])
          <5>1. CASE rec.op = "delete"
            BY <5>1 DEF Current, StepOK
          <5>2. CASE rec.op # "delete"
            BY <5>2
          <5> QED  BY <5>1, <5>2
        <4> QED  BY <3>1, <4>1, <4>2, <4>3, SameMeans
      <3>2. CASE p # r
        <4> DEFINE q == req[p]
        <4>1. Same(req'[p], q) /\ req'[p].user = q.user  BY <3>2 DEF OthersSame, Same
        <4>2. WithOK(q)  BY DEF AccessInv, RequestInv
        <4>3. ASSUME p \notin clash'  PROVE Achieved(q, policies', users'[q.user])
          <5>1. p \notin clash /\ p \notin hits  BY <1>3, <3>2, <4>3
          <5>2. Achieved(q, policies, users[q.user])
            BY <5>1 DEF AccessInv, RequestInv
          <5>3. CASE Changes(q) /\ (q.op = "save" => q.pc # "row")
            <6>1. q.user \in Users /\ q.user \in q.with
              BY <5>3, WithUser DEF Changes, WithOK, Req
            <6>2. users'[q.user] = users[q.user]
              <7>1. q.user \notin rec.with  BY <1>4, <3>2, <4>3, <5>3, <6>1
              <7> QED  BY <1>2, <6>1, <7>1 DEF MidChange
            <6> QED  BY <5>2, <6>1, <6>2 DEF Achieved
          <5>4. CASE ~(Changes(q) /\ (q.op = "save" => q.pc # "row"))
            BY <5>4 DEF Achieved, Changes
          <5> QED  BY <5>3, <5>4
        <4>4. ASSUME q.user \in Users \ torn'  PROVE Current(q, users'[q.user])
          <5>1. Current(q, users[q.user])
            BY <1>3, <4>4 DEF AccessInv, RequestInv
          <5>2. CASE q.op \in {"acl", "password", "login"} \/ q.pc = "give"
            <6>1. q.user \in q.with \cup Builtin  BY <5>2, WithUser
            <6>2. rec.op = "delete" => q.user # rec.user
              BY <1>2, <1>4, <3>2, <4>4, <6>1 DEF Changes
            <6>3. users'[q.user] = users[q.user]  BY <4>4, <6>2 DEF MidChange
            <6> QED  BY <5>1, <6>3
          <5>3. CASE ~(q.op \in {"acl", "password", "login"} \/ q.pc = "give")
            BY <5>3 DEF Current
          <5> QED  BY <5>2, <5>3
        <4> HIDE DEF q
        <4> QED  BY <4>1, <4>2, <4>3, <4>4, SameMeans DEF q
      <3> QED  BY <3>1, <3>2
    <2> QED  BY <2>1 DEF RequestInv
  <1> QED  BY <1>7, <1>8, <1>9, <1>10 DEF AccessInv

\* A request goes on with one of its users: nobody else's change of that user
\* is under way, unless the two clash.
LEMMA WorkAccess ==
    ASSUME TypeInv, TypeInv', AccessInv, NEW r \in Requests, NEW u \in Users,
           OthersSame(r), u \in req[r].with \cup Builtin,
           \A v \in Users \ {u} : users'[v] = users[v]
                                  /\ RulesOf(v) \cap policies' = RulesOf(v) \cap policies,
           made' = made, clash \subseteq clash', clash' \subseteq clash \cup {r},
           WithOK(req'[r]), req'[r].with \subseteq req[r].with,
           Changes(req'[r]) => Changes(req[r]),
           \/ torn \subseteq torn'
           \/ torn \subseteq torn' \cup {u} /\ Changes(req[r]) /\ r \notin clash,
           Changes(req'[r]) /\ r \in clash' \ clash => req'[r].with \subseteq torn',
           u \in Builtin => /\ users'[u] = users[u]
                            /\ HasRole(u, Administrator) \in policies',
           r \notin clash' => Achieved(req'[r], policies', users'[req'[r].user]),
           req'[r].user \in Users \ torn' => Current(req'[r], users'[req'[r].user]),
           u \notin torn' /\ ~Changes(req[r]) =>
             RoleOf(users'[u]) = RoleOf(users[u]) /\ (users[u] # NoRow => users'[u] # NoRow),
           \A v \in Users : MidChange(req[r], v) => v = u,
           u \notin torn' \cup Builtin /\ (\A q \in Requests : ~MidChange(req'[q], u)) =>
             Grants(policies', u, users'[u])
    PROVE  AccessInv'
  <1>1. \A q \in Requests : req[q].with \subseteq Users \ Builtin
    BY WithUser DEF Req
  <1>2. \A v \in CliUsers \ made : v # u
    BY AccessAssumption DEF AccessInv, ProtectedInv
  <1>3. ASSUME NEW v \in Users \ {u}
        PROVE  /\ \A x \in Roles : HasRole(v, x) \in policies' <=> HasRole(v, x) \in policies
               /\ \A c \in Cases, a \in Acts :
                    MayUse(v, c, a) \in policies' <=> MayUse(v, c, a) \in policies
    <2>1. \A x \in Roles : HasRole(v, x) \in RulesOf(v)  BY RulesInRange
    <2>2. \A c \in Cases, a \in Acts : MayUse(v, c, a) \in RulesOf(v)
      BY DEF RulesOf, PermissionRules
    <2>3. RulesOf(v) \cap policies' = RulesOf(v) \cap policies  OBVIOUS
    <2> QED  BY <2>1, <2>2, <2>3
  <1>4. Administrator \in Roles /\ "*" \in Acts /\ "GET" \in Acts
    BY AccessAssumption DEF Acts
  <1>5. ProtectedInv'
    <2>1. ASSUME NEW b \in Builtin
          PROVE  RoleOf(users'[b]) = Administrator /\ HasRole(b, Administrator) \in policies'
      <3>1. b \in Users  BY AccessAssumption
      <3> QED  BY <1>3, <1>4, <3>1 DEF AccessInv, ProtectedInv
    <2>2. ASSUME NEW v \in CliUsers \ made
          PROVE  RulesOf(v) \cap policies' = {} /\ \A q \in Requests : v \notin req'[q].with
      <3>1. v \in Users  BY AccessAssumption
      <3> QED  BY <1>2, <3>1 DEF AccessInv, ProtectedInv, OthersSame, Same
    <2> QED  BY <2>1, <2>2 DEF ProtectedInv
  <1>6. ASSUME NEW q \in Requests \ {r}, u \in torn \ torn'
        PROVE  u \notin req[q].with
    <2>1. u \notin Builtin  BY <1>6 DEF TypeInv, HistoryOK
    <2> QED  BY <1>6, <2>1, Alone
  <1>7. ClashInv'
    <2>1. ASSUME NEW p \in Requests, Changes(req'[p])
          PROVE  /\ \A q \in Requests \ {p} : req'[q].with \cap req'[p].with # {} => p \in clash'
                 /\ p \in clash' => req'[p].with \subseteq torn'
      <3>1. Changes(req[p]) /\ req'[p].with \subseteq req[p].with
        BY <2>1, SameMeans DEF OthersSame, Same
      <3>2. \A q \in Requests : req'[q].with \subseteq req[q].with
        BY DEF OthersSame, Same
      <3>3. \A q \in Requests \ {p} : req'[q].with \cap req'[p].with # {} => p \in clash'
        BY <3>1, <3>2 DEF AccessInv, ClashInv
      <3>4. p \in clash => req[p].with \subseteq torn  BY <3>1 DEF AccessInv, ClashInv
      <3>5. CASE p = r  BY <2>1, <3>1, <3>3, <3>4, <3>5
      <3>6. CASE p # r
        <4>1. p \in clash' => req[p].with \subseteq torn'
          BY <1>6, <3>4, <3>6
        <4> QED  BY <3>1, <3>3, <4>1
      <3> QED  BY <3>5, <3>6
    <2> QED  BY <2>1 DEF ClashInv
  <1>8. TableInv'
    <2>1. ASSUME NEW v \in Users \ (torn' \cup Builtin),
                 \A q \in Requests : ~MidChange(req'[q], v)
          PROVE  Grants(policies', v, users'[v])
      <3>1. CASE v = u  BY <2>1, <3>1
      <3>2. CASE v # u
        <4>1. \A q \in Requests : ~MidChange(req[q], v)
          BY <2>1, <3>2, SameMeans DEF OthersSame
        <4>2. Grants(policies, v, users[v])
          BY <3>2, <4>1 DEF AccessInv, TableInv
        <4> QED  BY <1>3, <1>4, <3>2, <4>2 DEF Grants
      <3> QED  BY <3>1, <3>2
    <2> QED  BY <2>1 DEF TableInv
  <1>9. RequestInv'
    <2>1. ASSUME NEW p \in Requests
          PROVE  /\ WithOK(req'[p])
                 /\ p \notin clash' => Achieved(req'[p], policies', users'[req'[p].user])
                 /\ req'[p].user \in Users \ torn' => Current(req'[p], users'[req'[p].user])
      <3>1. CASE p = r  BY <3>1
      <3>2. CASE p # r
        <4> DEFINE q == req[p]
        <4>1. Same(req'[p], q) /\ req'[p].user = q.user  BY <3>2 DEF OthersSame, Same
        <4>2. WithOK(q)  BY DEF AccessInv, RequestInv
        <4>3. ASSUME p \notin clash'  PROVE Achieved(q, policies', users'[q.user])
          <5>1. p \notin clash  BY <4>3
          <5>2. Achieved(q, policies, users[q.user])
            BY <5>1 DEF AccessInv, RequestInv
          <5>3. CASE Changes(q) /\ (q.op = "save" => q.pc # "row")
            <6>1. q.user \in Users /\ q.user \in q.with /\ q.user \notin Builtin
              BY <5>3, WithUser DEF Changes, WithOK, Req
            <6>2. q.user # u
              BY <3>2, <5>1, <5>3, <6>1, Alone
            <6>3. users'[q.user] = users[q.user]  BY <6>1, <6>2
            <6> HIDE DEF q
            <6> QED  BY <1>3, <1>4, <5>2, <6>1, <6>2, <6>3 DEF Achieved
          <5>4. CASE ~(Changes(q) /\ (q.op = "save" => q.pc # "row"))
            BY <5>4 DEF Achieved, Changes
          <5> QED  BY <5>3, <5>4
        <4>4. ASSUME q.user \in Users \ torn'  PROVE Current(q, users'[q.user])
          <5>1. CASE q.op \in {"acl", "password", "login"} \/ q.pc = "give"
            <6>1. q.user \in q.with \cup Builtin  BY <5>1, WithUser
            <6>2. q.user \notin torn
              BY <1>6, <3>2, <4>4, <6>1 DEF TypeInv, HistoryOK
            <6>3. Current(q, users[q.user])
              BY <4>4, <6>2 DEF AccessInv, RequestInv
            <6>4. CASE q.user # u  BY <4>4, <6>3, <6>4
            <6>5. CASE q.user = u /\ u \in Builtin  BY <6>3, <6>5
            <6>6. CASE q.user = u /\ u \notin Builtin
              <7>1. ~Changes(req[r])
                <8>1. u \in q.with \cap req[r].with  BY <6>1, <6>6
                <8> QED  BY <3>2, <6>2, <6>6, <8>1 DEF AccessInv, ClashInv
              <7>2. /\ RoleOf(users'[u]) = RoleOf(users[u])
                    /\ users[u] # NoRow => users'[u] # NoRow
                BY <4>4, <6>6, <7>1
              <7> HIDE DEF q
              <7> QED  BY <6>3, <6>6, <7>2 DEF Current, RoleOf
            <6> QED  BY <6>4, <6>5, <6>6
          <5>2. CASE ~(q.op \in {"acl", "password", "login"} \/ q.pc = "give")
            BY <5>2 DEF Current
          <5> QED  BY <5>1, <5>2
        <4> HIDE DEF q
        <4> QED  BY <4>1, <4>2, <4>3, <4>4, SameMeans DEF q
      <3> QED  BY <3>1, <3>2
    <2> QED  BY <2>1 DEF RequestInv
  <1> QED  BY <1>5, <1>7, <1>8, <1>9 DEF AccessInv

\* A step that touches neither rows nor rules.
LEMMA IdleAccess ==
    ASSUME TypeInv, TypeInv', AccessInv, NEW r \in Requests, OthersSame(r),
           UNCHANGED <<users, policies, made, clash>>, torn \subseteq torn',
           WithOK(req'[r]), req'[r].with \subseteq req[r].with,
           Changes(req'[r]) => Changes(req[r]),
           r \notin clash => Achieved(req'[r], policies, users[req'[r].user]),
           req'[r].user \in Users \ torn => Current(req'[r], users[req'[r].user]),
           \A v \in Users : MidChange(req[r], v) => MidChange(req'[r], v) \/ v \in torn'
    PROVE  AccessInv'
  <1>1. ProtectedInv'  BY DEF AccessInv, ProtectedInv, OthersSame, Same
  <1>2. ClashInv'
    <2>1. \A q \in Requests : req'[q].with \subseteq req[q].with /\ (Changes(req'[q]) => Changes(req[q]))
      BY SameMeans DEF OthersSame, Same
    <2> QED  BY <2>1 DEF AccessInv, ClashInv
  <1>3. TableInv'
    <2>1. \A v \in Users \ torn', q \in Requests : MidChange(req[q], v) => MidChange(req'[q], v)
      BY SameMeans DEF OthersSame
    <2> QED  BY <2>1 DEF AccessInv, TableInv
  <1>4. RequestInv'
    <2>1. ASSUME NEW p \in Requests
          PROVE  /\ WithOK(req'[p])
                 /\ p \notin clash' => Achieved(req'[p], policies', users'[req'[p].user])
                 /\ req'[p].user \in Users \ torn' => Current(req'[p], users'[req'[p].user])
      <3>1. CASE p = r  BY <3>1
      <3>2. CASE p # r
        <4>1. Same(req'[p], req[p]) /\ req'[p].user = req[p].user  BY <3>2 DEF OthersSame, Same
        <4> QED  BY <4>1, SameMeans DEF AccessInv, RequestInv
      <3> QED  BY <3>1, <3>2
    <2> QED  BY <2>1 DEF RequestInv
  <1> QED  BY <1>1, <1>2, <1>3, <1>4 DEF AccessInv

-----------------------------------------------------------------------------
(* The steps, one after the other.                                         *)

LEMMA BeginParts ==
    ASSUME TypeInv, NEW r \in Requests, NEW rec \in Req, StepOK(rec), Begin(r, rec)
    PROVE  /\ req[r].op = "idle" /\ OthersSame(r) /\ Same(req'[r], rec)
           /\ \E hits :
                /\ hits = {q \in Requests : Conflict(rec.op, req[q].op)
                                            /\ req[q].with \cap rec.with # {}}
                /\ torn' = torn \cup UNION {req[q].with \cap rec.with : q \in hits}
                /\ clash' = IF hits = {} THEN clash \ {r} ELSE clash \cup hits \cup {r}
  <1>1. req' = [req EXCEPT ![r] = rec] /\ req[r].op = "idle"  BY DEF Begin
  <1>2. OthersSame(r) /\ Same(req'[r], rec)  BY <1>1, OneChanges
  <1> QED  BY <1>1, <1>2 DEF Begin

\* A request that reads the row of a user begins; a deletion takes the row away.
LEMMA BeginsAccess ==
    ASSUME TypeInv, TypeInv', AccessInv, NEW r \in Requests, NEW rec \in Req, StepOK(rec),
           WithOK(rec), Begin(r, rec), UNCHANGED <<policies, made>>,
           \A v \in CliUsers \ made : v \notin rec.with,
           rec.op = "save" => rec.pc = "row",
           \/ UNCHANGED users /\ rec.op # "delete"
           \/ /\ rec.op = "delete" /\ rec.pc = "delete"
              /\ users' = [users EXCEPT ![rec.user] = NoRow],
           rec.user \in Users => Current(rec, users[rec.user])
    PROVE  AccessInv'
  <1>1. req[r].op = "idle" /\ OthersSame(r) /\ Same(req'[r], rec)  BY BeginParts
  <1>2. PICK hits :
          /\ hits = {q \in Requests : Conflict(rec.op, req[q].op)
                                      /\ req[q].with \cap rec.with # {}}
          /\ torn' = torn \cup UNION {req[q].with \cap rec.with : q \in hits}
          /\ clash' = IF hits = {} THEN clash \ {r} ELSE clash \cup hits \cup {r}
    BY BeginParts
  <1>3. \A v \in Users : users'[v] = users[v] \/ (MidChange(rec, v) /\ rec.op = "delete")
    BY DEF TypeInv, TablesOK, MidChange, Changes
  <1>4. rec.op = "delete" => users'[rec.user] = NoRow /\ rec.pc # "purge"
    BY DEF TypeInv, TablesOK, StepOK
  <1> QED  BY <1>1, <1>2, <1>3, <1>4, BeginAccess

LEMMA UserSaveAccess ==
    ASSUME TypeInv, TypeInv', PasswordInv, AccessInv, NEW r \in Requests, NEW u \in Users,
           NEW role \in Roles, UserSave(r, u, role)
    PROVE  AccessInv'
  <1> DEFINE row == [users[u] EXCEPT !.role = role]
             rec == [Idle EXCEPT !.op = "save", !.pc = "row", !.user = u, !.with = {u} \ Builtin,
                                 !.row = row]
  <1>1. row \in Rows /\ row.role \in Roles
    BY DEF UserSave, TypeInv, TablesOK, Rows
  <1> HIDE DEF row
  <1>2. rec \in Req /\ StepOK(rec) /\ WithOK(rec)
    BY <1>1 DEF Idle, Req, StepOK, WithOK, Ops, Pcs
  <1>3. Begin(r, rec) /\ users[u] # NoRow /\ UNCHANGED <<users, policies, made>>
    BY DEF UserSave, store, row
  <1>4. rec.op = "save" /\ rec.pc = "row" /\ rec.with \subseteq {u}  BY DEF Idle
  <1>5. u \notin CliUsers \ made  BY <1>3 DEF PasswordInv
  <1>6. \A x : Current(rec, x)  BY <1>4 DEF Current
  <1> HIDE DEF rec
  <1> QED  BY <1>2, <1>3, <1>4, <1>5, <1>6, BeginsAccess

LEMMA UserSaveACLAccess ==
    ASSUME TypeInv, TypeInv', PasswordInv, AccessInv, NEW r \in Requests, NEW u \in Users,
           NEW cs \in SUBSET Cases, UserSaveACL(r, u, cs)
    PROVE  AccessInv'
  <1> DEFINE rec == [Idle EXCEPT !.op = "acl", !.pc = "unperm", !.user = u, !.with = {u} \ Builtin,
                                 !.row = users[u], !.todo = cs]
  <1>1. users[u] \in Rows  BY DEF UserSaveACL, TypeInv, TablesOK
  <1>2. rec \in Req /\ StepOK(rec) /\ WithOK(rec)
    BY <1>1 DEF Idle, Req, StepOK, WithOK, Ops, Pcs
  <1>3. Begin(r, rec) /\ users[u] # NoRow /\ UNCHANGED <<users, policies, made>>
    BY DEF UserSaveACL, store
  <1>4. rec.op = "acl" /\ rec.pc = "unperm" /\ rec.with \subseteq {u}  BY DEF Idle
  <1>5. u \notin CliUsers \ made  BY <1>3 DEF PasswordInv
  <1>6. Current(rec, users[rec.user])  BY <1>3 DEF Idle, Current
  <1> HIDE DEF rec
  <1> QED  BY <1>2, <1>3, <1>4, <1>5, <1>6, BeginsAccess

LEMMA UserDeleteAccess ==
    ASSUME TypeInv, TypeInv', AccessInv, NEW r \in Requests, NEW u \in Users, UserDelete(r, u)
    PROVE  AccessInv'
  <1> DEFINE rec == [Idle EXCEPT !.op = "delete", !.pc = "delete", !.user = u, !.with = {u}]
  <1>1. rec \in Req /\ StepOK(rec) /\ WithOK(rec)
    BY DEF UserDelete, Idle, Req, StepOK, WithOK, Ops, Pcs
  <1>2. Begin(r, rec) /\ UNCHANGED <<policies, made>> /\ users' = [users EXCEPT ![u] = NoRow]
    BY DEF UserDelete
  <1>3. rec.op = "delete" /\ rec.pc = "delete" /\ rec.with = {u} /\ rec.user = u  BY DEF Idle
  <1>4. u \notin CliUsers \ made  BY DEF UserDelete, Known
  <1>5. \A x : Current(rec, x)  BY <1>3 DEF Current
  <1>6. MidChange(rec, u)  BY <1>3 DEF MidChange, Changes
  <1>7. \A v \in Users : users'[v] = IF v = u THEN NoRow ELSE users[v]
    BY <1>2 DEF TypeInv, TablesOK
  <1> HIDE DEF rec
  <1> QED  BY <1>1, <1>2, <1>3, <1>4, <1>5, <1>6, <1>7, BeginsAccess

LEMMA LoginAccess ==
    ASSUME TypeInv, TypeInv', PasswordInv, AccessInv, NEW r \in Requests, NEW u \in Users,
           Login(r, u)
    PROVE  AccessInv'
  <1> DEFINE rec == [Idle EXCEPT !.op = "login", !.pc = "row", !.user = u, !.with = {u},
                                 !.row = LoginRow(u)]
  <1>1. LoginRow(u) \in Rows /\ LoginRow(u).role = RoleOf(users[u])
    BY AccessAssumption DEF LoginRow, RoleOf, TypeInv, TablesOK, Rows
  <1>2. rec \in Req /\ StepOK(rec) /\ WithOK(rec)
    BY <1>1 DEF Login, Idle, Req, StepOK, WithOK, Ops, Pcs
  <1>3. Begin(r, rec) /\ UNCHANGED <<users, policies, made>>
    BY DEF Login, store
  <1>4. rec.op = "login" /\ rec.pc = "row" /\ rec.with = {u}  BY DEF Idle
  <1>5. u \notin CliUsers \ made  BY DEF Login, PasswordInv
  <1>6. Current(rec, users[rec.user])  BY <1>1 DEF Idle, Current
  <1> HIDE DEF rec
  <1> QED  BY <1>2, <1>3, <1>4, <1>5, <1>6, BeginsAccess

LEMMA ChangePasswordAccess ==
    ASSUME TypeInv, TypeInv', PasswordInv, AccessInv, NEW r \in Requests, NEW u \in Users,
           ChangePassword(r, u)
    PROVE  AccessInv'
  <1> DEFINE rec == [Idle EXCEPT !.op = "password", !.pc = "row", !.user = u, !.with = {u},
                                 !.row = users[u]]
  <1>1. users[u] \in Rows  BY DEF ChangePassword, TypeInv, TablesOK
  <1>2. rec \in Req /\ StepOK(rec) /\ WithOK(rec)
    BY <1>1 DEF ChangePassword, Idle, Req, StepOK, WithOK, Ops, Pcs
  <1>3. Begin(r, rec) /\ users[u] # NoRow /\ UNCHANGED <<users, policies, made>>
    BY DEF ChangePassword, store
  <1>4. rec.op = "password" /\ rec.pc = "row" /\ rec.with = {u}  BY DEF Idle
  <1>5. u \notin CliUsers \ made  BY <1>3 DEF PasswordInv
  <1>6. Current(rec, users[rec.user])  BY <1>3 DEF Idle, Current
  <1> HIDE DEF rec
  <1> QED  BY <1>2, <1>3, <1>4, <1>5, <1>6, BeginsAccess

LEMMA EditKeyAccess ==
    ASSUME TypeInv, TypeInv', AccessInv, NEW r \in Requests, NEW k \in Keys, NEW t \in KeyTypes,
           EditKey(r, k, t)
    PROVE  AccessInv'
  <1> DEFINE rec == [Idle EXCEPT !.op = "key", !.pc = "key", !.user = k, !.row = t]
  <1>1. rec \in Req /\ StepOK(rec) /\ WithOK(rec)
    BY DEF Idle, Req, StepOK, WithOK, Ops, Pcs
  <1>2. Begin(r, rec) /\ UNCHANGED <<users, policies, made>>
    BY DEF EditKey, store
  <1>3. rec.op = "key" /\ rec.pc = "key" /\ rec.with = {}  BY DEF Idle
  <1>4. \A x : Current(rec, x)  BY <1>3 DEF Current
  <1> HIDE DEF rec
  <1> QED  BY <1>1, <1>2, <1>3, <1>4, BeginsAccess

LEMMA BeginCaseAccess ==
    ASSUME TypeInv, TypeInv', AccessInv, NEW r \in Requests, NEW c \in Cases,
           NEW us \in SUBSET (Known \ Builtin), BeginCase(r, c, us)
    PROVE  AccessInv'
  <1> DEFINE rules == {MayUse(u, c, a) : u \in Users, a \in Acts} \cap policies
             had   == {u \in Users : RulesOf(u) \cap rules # {}}
             rec   == [Idle EXCEPT !.op = "case", !.pc = "grant", !.kase = c, !.todo = us,
                                   !.with = (us \cup had) \ Builtin]
             hits  == {q \in Requests : /\ Conflict("case", req[q].op)
                                        /\ req[q].with \cap rec.with # {}}
  <1>1. /\ req[r].op = "idle" /\ req' = Behind([req EXCEPT ![r] = rec], had)
        /\ torn' = torn \cup UNION {req[q].with \cap rec.with : q \in hits}
        /\ clash' = IF hits = {} THEN clash \ {r} ELSE clash \cup hits \cup {r}
        /\ policies' = policies \ rules /\ UNCHANGED <<users, made>>
    BY DEF BeginCase
  <1>2. had \subseteq Users /\ us \subseteq Users /\ us \cap Builtin = {}  BY DEF Known
  <1>3. \A v \in CliUsers \ made : v \notin us /\ v \notin had
    BY DEF Known, AccessInv, ProtectedInv
  <1>4. \A v \in Users : HasRole(v, Administrator) \notin rules
    BY DEF HasRole, MayUse
  <1> HIDE DEF rules, had
  <1>5. rec \in Req /\ StepOK(rec) /\ WithOK(rec)
    BY <1>2 DEF Idle, Req, StepOK, WithOK, Ops, Pcs
  <1>6. rec.op = "case" /\ rec.pc = "grant" /\ rec.with = (us \cup had) \ Builtin  BY DEF Idle
  <1>7. \A x : Current(rec, x)  BY <1>6 DEF Current
  <1> HIDE DEF rec
  <1>8. ReqsOK([req EXCEPT ![r] = rec])  BY <1>5, UpdateOK DEF TypeInv
  <1>9. OthersSame(r) /\ Same(req'[r], rec)  BY <1>1, <1>2, <1>8, OneChanges
  <1>10. hits = {q \in Requests : Conflict(rec.op, req[q].op) /\ req[q].with \cap rec.with # {}}
    BY <1>6
  <1> HIDE DEF hits
  <1>11. torn' = torn \cup UNION {req[q].with \cap rec.with : q \in hits}  BY <1>1
  <1> QED  BY <1>1, <1>3, <1>4, <1>5, <1>6, <1>7, <1>9, <1>10, <1>11, BeginAccess

LEMMA IdleFacts ==
    /\ WithOK(Idle) /\ Idle.with = {} /\ ~Changes(Idle) /\ Idle.user = NoUser
    /\ \A table, row : Achieved(Idle, table, row) /\ Current(Idle, row)
    /\ \A u : ~MidChange(Idle, u)
  BY DEF Idle, WithOK, Changes, Achieved, Current, MidChange

LEMMA DoneParts ==
    ASSUME TypeInv, NEW r \in Requests, req' = Done(r)
    PROVE  /\ OthersSame(r) /\ req'[r] = Idle /\ req'[r].with = {} /\ ~Changes(req'[r])
           /\ WithOK(req'[r]) /\ \A u : ~MidChange(req'[r], u)
           /\ \A table, row : Achieved(req'[r], table, row) /\ Current(req'[r], row)
  <1>1. req' = [req EXCEPT ![r] = Idle]  BY DEF Done
  <1>2. OthersSame(r) /\ req'[r] = Idle  BY <1>1, OneChanges DEF TypeInv, ReqsOK
  <1> QED  BY <1>2, IdleFacts

\* The end of a request that leaves no change half way.
LEMMA DoneAccess ==
    ASSUME TypeInv, TypeInv', AccessInv, NEW r \in Requests, req' = Done(r),
           UNCHANGED <<users, policies, made, clash>>, torn \subseteq torn',
           \A v \in Users : MidChange(req[r], v) => v \in torn'
    PROVE  AccessInv'
  BY DoneParts, IdleAccess

LEMMA QuietAccess ==
    ASSUME TypeInv, TypeInv', AccessInv, NEW r \in Requests,
           \/ ReadPermissions(r) \/ LoadPolicy(r) \/ Install(r) \/ SaveKey(r) \/ Fails(r) \/ InsertFails(r)
           \/ \E u \in Users : GrantRead(r, u)
    PROVE  AccessInv'
  <1>1. req[r] \in Req /\ StepOK(req[r]) /\ WithOK(req[r])  BY WithUser
  <1>2. UNCHANGED <<users, policies, made, clash>> /\ torn \subseteq torn'
    BY DEF ReadPermissions, LoadPolicy, Install, SaveKey, Aborts, Fails, InsertFails, GrantRead, store, hist
  <1>3. CASE ReadPermissions(r)
    <2> DEFINE cs == {c \in Cases : \E a \in Acts : MayUse(req[r].user, c, a) \in policies}
               q  == [req[r] EXCEPT !.pc = "unperm", !.todo = cs]
    <2>1. req' = [req EXCEPT ![r] = q]
      BY <1>3 DEF ReadPermissions, TypeInv, ReqsOK
    <2>2. /\ q.pc = "unperm" /\ q.op = "save" /\ req[r].op = "save" /\ req[r].pc = "perms"
          /\ q.with = req[r].with /\ q.user = req[r].user /\ q.row = req[r].row
      BY <1>1, <1>3 DEF ReadPermissions, Req, StepOK
    <2> HIDE DEF q
    <2>3. OthersSame(r) /\ req'[r] = q  BY <2>1, OneChanges DEF TypeInv, ReqsOK
    <2>4. WithOK(q)  BY <1>1, <2>2 DEF WithOK
    <2>5. Changes(req[r])  BY <2>2 DEF Changes
    <2>6. \A v : MidChange(req[r], v) => MidChange(q, v)  BY <2>2 DEF MidChange, Changes
    <2>7. r \notin clash => Achieved(q, policies, users[q.user])
      <3>1. r \notin clash => Achieved(req[r], policies, users[req[r].user])
        BY DEF AccessInv, RequestInv
      <3> QED  BY <2>2, <3>1 DEF Achieved
    <2>8. \A x : Current(q, x)  BY <2>2 DEF Current
    <2> QED  BY <1>2, <2>2, <2>3, <2>4, <2>5, <2>6, <2>7, <2>8, IdleAccess
  <1>4. CASE LoadPolicy(r)
    <2> DEFINE q == [req[r] EXCEPT !.pc = "install", !.snap = policies]
    <2>1. req' = [req EXCEPT ![r] = q]
      BY <1>4 DEF LoadPolicy, TypeInv, ReqsOK
    <2>2. q.pc = "install" /\ q.op = "case" /\ q.with = req[r].with
      BY <1>1, <1>4 DEF LoadPolicy, Req, StepOK
    <2>3. req[r].pc = "grant" /\ req[r].op = "case"  BY <1>1, <1>4 DEF LoadPolicy, StepOK
    <2> HIDE DEF q
    <2>4. OthersSame(r) /\ req'[r] = q  BY <2>1, OneChanges DEF TypeInv, ReqsOK
    <2>5. WithOK(q) /\ ~Changes(q) /\ \A v : ~MidChange(req[r], v)
      BY <2>2, <2>3 DEF WithOK, Changes, MidChange
    <2>6. \A table, x : Achieved(q, table, x) /\ Current(q, x)
      BY <2>2 DEF Achieved, Current
    <2> QED  BY <1>2, <2>2, <2>4, <2>5, <2>6, IdleAccess
  <1>5. CASE Install(r) \/ SaveKey(r)
    <2>1. req' = Done(r)  BY <1>5 DEF Install, SaveKey
    <2>2. \A v : ~MidChange(req[r], v)
      BY <1>1, <1>5 DEF Install, SaveKey, MidChange, Changes, StepOK
    <2> QED  BY <1>2, <2>1, <2>2, DoneAccess
  <1>6. CASE Fails(r) \/ InsertFails(r)
    <2>1. req' = Done(r)  BY <1>6 DEF Aborts, Fails, InsertFails
    <2>2. \A v \in Users : MidChange(req[r], v) => v \in torn'
      BY <1>1, <1>6 DEF Aborts, Fails, InsertFails, HalfWay, MidChange, Changes, WithOK, Req
    <2> QED  BY <1>2, <2>1, <2>2, DoneAccess
  <1>7. ASSUME NEW u \in Users, GrantRead(r, u)  PROVE AccessInv'
    <2>1. req[r].op = "case" /\ req[r].pc = "grant"  BY <1>1, <1>7 DEF GrantRead, StepOK
    <2>2. \A v : ~MidChange(req[r], v)  BY <2>1 DEF MidChange, Changes
    <2>3. CASE users[u] = NoRow
      <3>1. req' = Done(r)  BY <1>7, <2>3 DEF GrantRead
      <3> QED  BY <1>2, <2>2, <3>1, DoneAccess
    <2>4. CASE users[u] # NoRow
      <3> DEFINE q == [req[r] EXCEPT !.pc = "give", !.user = u, !.row = users[u]]
      <3>1. req' = [req EXCEPT ![r] = q]  BY <1>7, <2>4 DEF GrantRead, TypeInv, ReqsOK
      <3>2. /\ q.pc = "give" /\ q.op = "case" /\ q.user = u /\ q.row = users[u]
            /\ q.with = req[r].with /\ q.todo = req[r].todo
        BY <1>1, <2>1 DEF Req
      <3> HIDE DEF q
      <3>3. OthersSame(r) /\ req'[r] = q  BY <3>1, OneChanges DEF TypeInv, ReqsOK
      <3>4. WithOK(q) /\ ~Changes(q)
        BY <1>1, <1>7, <2>1, <3>2 DEF WithOK, Changes, GrantRead
      <3>5. \A table, x : Achieved(q, table, x)  BY <3>2 DEF Achieved
      <3>6. Current(q, users[q.user])  BY <2>4, <3>2 DEF Current
      <3> QED  BY <1>2, <2>2, <3>2, <3>3, <3>4, <3>5, <3>6, IdleAccess
    <2> QED  BY <2>3, <2>4
  <1> QED  BY <1>3, <1>4, <1>5, <1>6, <1>7

\* The row is written and the rules are not.
LEMMA SaveRowAccess ==
    ASSUME TypeInv, TypeInv', AccessInv, NEW r \in Requests, SaveRow(r)
    PROVE  AccessInv'
  <1> DEFINE u == req[r].user
             q == [req[r] EXCEPT !.pc = "unrole"]
  <1>1. /\ req[r] \in Req /\ StepOK(req[r]) /\ WithOK(req[r])
        /\ req[r].op = "save" /\ req[r].pc = "row" /\ u \in Users /\ u \in req[r].with \cup Builtin
    BY WithUser DEF SaveRow
  <1>2. UNCHANGED <<policies, made, clash, torn>>  BY DEF SaveRow, hist
  <1>3. CASE u \in Builtin
    <2>1. req' = Done(r) /\ UNCHANGED users  BY <1>3 DEF SaveRow
    <2>2. \A v : ~MidChange(req[r], v)  BY <1>1 DEF MidChange
    <2> QED  BY <1>2, <2>1, <2>2, DoneAccess
  <1>4. CASE u \notin Builtin
    <2>1. req' = [req EXCEPT ![r] = q] /\ users' = [users EXCEPT ![u] = req[r].row]
      BY <1>4 DEF SaveRow, Goto, TypeInv, ReqsOK
    <2>2. /\ q.pc = "unrole" /\ q.op = "save" /\ q.user = u /\ q.row = req[r].row
          /\ q.with = req[r].with
      BY <1>1 DEF Req
    <2> HIDE DEF q
    <2>3. OthersSame(r) /\ req'[r] = q  BY <2>1, OneChanges DEF TypeInv, ReqsOK
    <2>4. WithOK(q) /\ Changes(q) /\ Changes(req[r]) /\ MidChange(q, u)
      BY <1>1, <1>4, <2>2 DEF WithOK, Changes, MidChange
    <2>5. \A v \in Users : users'[v] = IF v = u THEN req[r].row ELSE users[v]
      BY <2>1 DEF TypeInv, TablesOK
    <2>6. req[r].row # NoRow  BY <1>1, AccessAssumption DEF StepOK, Rows
    <2>7. Achieved(q, policies', users'[q.user])  BY <1>1, <2>2, <2>5, <2>6 DEF Achieved
    <2>8. \A x : Current(q, x)  BY <2>2 DEF Current
    <2>9. \A v : ~MidChange(req[r], v)  BY <1>1 DEF MidChange
    <2> HIDE DEF u
    <2> QED  BY <1>1, <1>2, <1>4, <2>2, <2>3, <2>4, <2>5, <2>7, <2>8, <2>9, WorkAccess
  <1> QED  BY <1>3, <1>4

\* A login or a new password leaves the role as it is, unless the role changed in between.
LEMMA KeepRoleAccess ==
    ASSUME TypeInv, TypeInv', AccessInv, NEW r \in Requests, req[r].op \in {"login", "password"},
           NEW row \in Rows, row.role = req[r].row.role,
           users' = [users EXCEPT ![req[r].user] = row], req' = Done(r),
           UNCHANGED <<policies, made, clash, torn>>
    PROVE  AccessInv'
  <1> DEFINE u == req[r].user
  <1>1. u \in Users /\ u \in req[r].with \cup Builtin /\ u \notin Builtin
    BY WithUser
  <1>2. \A v \in Users : users'[v] = IF v = u THEN row ELSE users[v]
    BY DEF TypeInv, TablesOK
  <1>3. row # NoRow  BY AccessAssumption DEF Rows
  <1>4. u \notin torn => RoleOf(users'[u]) = RoleOf(users[u])
    <2>1. u \notin torn => Current(req[r], users[u])  BY <1>1 DEF AccessInv, RequestInv
    <2> QED  BY <1>1, <1>2, <1>3, <2>1 DEF Current, RoleOf
  <1>5. \A v : ~MidChange(req[r], v) /\ ~Changes(req[r])  BY DEF MidChange, Changes
  <1>6. ASSUME u \notin torn, \A q \in Requests : ~MidChange(req'[q], u)
        PROVE  Grants(policies, u, users'[u])
    <2>1. \A q \in Requests : ~MidChange(req[q], u)
      BY <1>5, <1>6, SameMeans, DoneParts DEF OthersSame
    <2>2. Grants(policies, u, users[u])  BY <1>1, <1>6, <2>1 DEF AccessInv, TableInv
    <2>3. NoRole # ReadOnly  BY AccessAssumption
    <2> QED  BY <1>1, <1>2, <1>3, <1>4, <1>6, <2>2, <2>3 DEF Grants, RoleOf
  <1>7. users[u] # NoRow => users'[u] # NoRow  BY <1>1, <1>2, <1>3
  <1> HIDE DEF u
  <1> QED  BY <1>1, <1>2, <1>4, <1>5, <1>6, <1>7, DoneParts, WorkAccess

LEMMA LoggedInAccess ==
    ASSUME TypeInv, TypeInv', AccessInv, NEW r \in Requests, LoggedIn(r) \/ PasswordSet(r)
    PROVE  AccessInv'
  <1>1. /\ req[r].op \in {"login", "password"} /\ req[r].row \in Rows /\ req[r].user \in Users
        /\ req' = Done(r) /\ UNCHANGED <<policies, made, clash, torn>>
    BY WithUser DEF LoggedIn, PasswordSet, StepOK, hist
  <1>2. CASE LoggedIn(r)
    <2>1. users' = [users EXCEPT ![req[r].user] = req[r].row]  BY <1>2 DEF LoggedIn
    <2> QED  BY <1>1, <2>1, KeepRoleAccess
  <1>3. CASE PasswordSet(r)
    <2> DEFINE u   == req[r].user
               pw  == IF newest[u] < MaxPassword THEN newest[u] + 1 ELSE newest[u]
               row == [req[r].row EXCEPT !.pw = pw]
    <2>1. pw \in 0..MaxPassword  BY <1>1, AccessAssumption DEF TypeInv, HistoryOK
    <2>2. row \in Rows /\ row.role = req[r].row.role
      <3> HIDE DEF pw
      <3> QED  BY <1>1, <2>1 DEF Rows
    <2>3. users' = [users EXCEPT ![req[r].user] = row]  BY <1>3 DEF PasswordSet
    <2> HIDE DEF row
    <2> QED  BY <1>1, <2>2, <2>3, KeepRoleAccess
  <1> QED  BY <1>2, <1>3

LEMMA RuleKinds ==
    ASSUME NEW u, NEW v, NEW c, NEW a, NEW x
    PROVE  /\ HasRole(u, x) \notin PermissionRules(v) /\ MayUse(u, c, a) \notin RoleRules(v)
           /\ HasRole(u, x) # MayUse(v, c, a)
  BY DEF PermissionRules, RoleRules, HasRole, MayUse

\* Rules of one user go and come; casbin's copy is of no interest here.
LEMMA AutosaveParts ==
    ASSUME TypeInv, NEW r \in Requests, req[r].user \in Users,
           NEW gone \in SUBSET RulesOf(req[r].user), NEW new \in SUBSET RulesOf(req[r].user),
           NEW q \in Req, StepOK(q), Autosave(r, gone, new, [req EXCEPT ![r] = q])
    PROVE  /\ policies' = (policies \ gone) \cup new
           /\ \A v \in Users \ {req[r].user} : RulesOf(v) \cap policies' = RulesOf(v) \cap policies
           /\ OthersSame(r) /\ Same(req'[r], q)
  <1>1. ReqsOK([req EXCEPT ![r] = q])  BY UpdateOK DEF TypeInv
  <1>2. req' = Behind([req EXCEPT ![r] = q], {req[r].user}) /\ {req[r].user} \in SUBSET Users
    BY DEF Autosave
  <1>3. OthersSame(r) /\ Same(req'[r], q)  BY <1>1, <1>2, OneChanges
  <1>4. policies' = (policies \ gone) \cup new  BY DEF Autosave
  <1> QED  BY <1>3, <1>4, RulesApart

LEMMA AutosaveAddParts ==
    ASSUME TypeInv, NEW r \in Requests, req[r].user \in Users,
           NEW rule \in RulesOf(req[r].user),
           NEW q \in Req, StepOK(q), AutosaveAdd(r, rule, [req EXCEPT ![r] = q])
    PROVE  /\ policies \subseteq policies' /\ policies' \subseteq policies \cup {rule}
           /\ \A v \in Users \ {req[r].user} : RulesOf(v) \cap policies' = RulesOf(v) \cap policies
           /\ OthersSame(r) /\ Same(req'[r], q)
           /\ clash \subseteq clash' /\ clash' \subseteq clash \cup {r} /\ torn \subseteq torn'
           /\ r \in clash' \ clash => {req[r].user} \ Builtin \subseteq torn'
           /\ r \notin clash' => rule \in policies'
  <1>1. /\ policies \subseteq policies' /\ policies' \subseteq policies \cup {rule}
        /\ OthersSame(r) /\ Same(req'[r], q)
        /\ \A v \in Users \ {req[r].user} : RulesOf(v) \cap policies' = RulesOf(v) \cap policies
        /\ rule \notin enforcer => rule \in policies'
    <2>1. CASE rule \in enforcer
      <3>1. req' = [req EXCEPT ![r] = q] /\ UNCHANGED policies  BY <2>1 DEF AutosaveAdd
      <3> QED  BY <2>1, <3>1, OneChanges
    <2>2. CASE rule \notin enforcer
      <3>1. Autosave(r, {}, {rule}, [req EXCEPT ![r] = q])  BY <2>2 DEF AutosaveAdd
      <3>2. {} \in SUBSET RulesOf(req[r].user) /\ {rule} \in SUBSET RulesOf(req[r].user)
        OBVIOUS
      <3>3. /\ policies' = (policies \ {}) \cup {rule}
            /\ \A v \in Users \ {req[r].user} : RulesOf(v) \cap policies' = RulesOf(v) \cap policies
            /\ OthersSame(r) /\ Same(req'[r], q)
        BY <3>1, <3>2, AutosaveParts
      <3> QED  BY <3>3
    <2> QED  BY <2>1, <2>2
  <1>2. /\ torn' = IF rule \in enforcer \ policies THEN torn \cup ({req[r].user} \ Builtin) ELSE torn
        /\ clash' = IF rule \in enforcer \ policies THEN clash \cup {r} ELSE clash
    BY DEF AutosaveAdd
  <1> QED  BY <1>1, <1>2

\* The roles go, of a user who gets another one or of one who is deleted.
LEMMA DeleteRolesAccess ==
    ASSUME TypeInv, TypeInv', AccessInv, NEW r \in Requests, DeleteRoles(r) \/ DeleteUserRoles(r)
    PROVE  AccessInv'
  <1> DEFINE u    == req[r].user
             next == IF req[r].pc = "unrole" THEN "role" ELSE "purge"
             q    == [req[r] EXCEPT !.pc = next]
  <1>1. /\ req[r] \in Req /\ StepOK(req[r]) /\ WithOK(req[r])
        /\ \/ req[r].op = "save" /\ req[r].pc = "unrole"
           \/ req[r].op = "delete" /\ req[r].pc = "delete"
    BY WithUser DEF DeleteRoles, DeleteUserRoles, StepOK
  <1>2. u \in Users /\ u \in req[r].with \cup Builtin /\ u \notin Builtin /\ Changes(req[r])
    BY <1>1, WithUser DEF Changes
  <1>3. UNCHANGED <<users, made, clash, torn>>  BY DEF DeleteRoles, DeleteUserRoles
  <1>4. Goto(r, next) = [req EXCEPT ![r] = q]  BY DEF Goto, TypeInv, ReqsOK
  <1>5. /\ q \in Req /\ StepOK(q) /\ q.pc = next /\ q.op = req[r].op /\ q.user = u
        /\ q.row = req[r].row /\ q.with = req[r].with
    BY <1>1 DEF Req, StepOK, Pcs
  <1>6. Autosave(r, RoleRules(u), {}, [req EXCEPT ![r] = q])
    BY <1>1, <1>4 DEF DeleteRoles, DeleteUserRoles
  <1>7. next \in {"role", "purge"} /\ (next = "role" <=> req[r].op = "save")  BY <1>1
  <1> HIDE DEF q, next
  <1>8. /\ policies' = policies \ RoleRules(u) /\ OthersSame(r) /\ Same(req'[r], q)
        /\ \A v \in Users \ {u} : RulesOf(v) \cap policies' = RulesOf(v) \cap policies
    <2>1. RoleRules(u) \in SUBSET RulesOf(u) /\ {} \in SUBSET RulesOf(u)  BY DEF RulesOf
    <2>2. /\ policies' = (policies \ RoleRules(u)) \cup {} /\ OthersSame(r) /\ Same(req'[r], q)
          /\ \A v \in Users \ {u} : RulesOf(v) \cap policies' = RulesOf(v) \cap policies
      BY <1>2, <1>5, <1>6, <2>1, AutosaveParts
    <2> QED  BY <2>2
  <1>9. HasRole(u, Administrator) \notin policies'
    BY <1>8, AccessAssumption DEF RoleRules
  <1>10. WithOK(q) /\ Changes(q) /\ MidChange(q, u)
    BY <1>1, <1>2, <1>5, <1>7 DEF WithOK, Changes, MidChange
  <1>11. r \notin clash => Achieved(q, policies', users'[q.user])
    <2>1. r \notin clash => Achieved(req[r], policies, users[u])
      BY DEF AccessInv, RequestInv
    <2> QED  BY <1>1, <1>3, <1>5, <1>7, <1>9, <2>1 DEF Achieved
  <1>12. \A x : Current(q, x)  BY <1>1, <1>5, <1>7 DEF Current
  <1>13. \A v : MidChange(req[r], v) => v = u  BY DEF MidChange
  <1>14. /\ WithOK(req'[r]) /\ Changes(req'[r]) /\ MidChange(req'[r], u)
         /\ req'[r].with = req[r].with /\ req'[r].user = u
         /\ r \notin clash => Achieved(req'[r], policies', users'[u])
         /\ \A x : Current(req'[r], x)
    BY <1>5, <1>8, <1>10, <1>11, <1>12, SameMeans DEF Same
  <1> HIDE DEF u
  <1> QED  BY <1>2, <1>3, <1>8, <1>13, <1>14, WorkAccess

LEMMA DeleteUserRulesAccess ==
    ASSUME TypeInv, TypeInv', AccessInv, NEW r \in Requests, DeleteUserRules(r)
    PROVE  AccessInv'
  <1> DEFINE u == req[r].user
  <1>1. req[r].op = "delete" /\ req[r].pc = "purge"
    BY WithUser DEF DeleteUserRules, StepOK
  <1>2. u \in Users /\ u \in req[r].with \cup Builtin /\ u \notin Builtin /\ Changes(req[r])
    BY <1>1, WithUser DEF Changes
  <1>3. UNCHANGED <<users, made, clash>> /\ Settles(r)  BY DEF DeleteUserRules
  <1>4. /\ policies' = policies \ RulesOf(u) /\ OthersSame(r) /\ Same(req'[r], Idle)
        /\ \A v \in Users \ {u} : RulesOf(v) \cap policies' = RulesOf(v) \cap policies
    <2>1. Autosave(r, RulesOf(u), {}, [req EXCEPT ![r] = Idle])
      BY DEF DeleteUserRules, Done
    <2>2. RulesOf(u) \in SUBSET RulesOf(u) /\ {} \in SUBSET RulesOf(u)  OBVIOUS
    <2> QED  BY <1>2, <2>1, <2>2, IdleOK, AutosaveParts
  <1>5. u \notin torn' => r \notin clash
    <2>1. r \in clash => u \in torn  BY <1>2 DEF AccessInv, ClashInv
    <2> QED  BY <1>3, <2>1 DEF Settles
  <1>6. u \notin torn' => Grants(policies', u, users'[u])
    <2>1. r \notin clash => users[u] = NoRow
      BY <1>1 DEF AccessInv, RequestInv, Achieved
    <2>2. /\ HasRole(u, Administrator) \notin policies'
          /\ \A c \in Cases : MayUse(u, c, "*") \notin policies' /\ MayUse(u, c, "GET") \notin policies'
      BY <1>4, AccessAssumption DEF RulesOf, RoleRules, PermissionRules, Acts
    <2>3. NoRole # Administrator  BY AccessAssumption
    <2> QED  BY <1>3, <1>5, <2>1, <2>2, <2>3 DEF Grants, RoleOf
  <1>7. /\ torn \subseteq torn' \cup {u} /\ (r \in clash => torn' = torn)
    BY <1>3 DEF Settles
  <1>8. /\ WithOK(req'[r]) /\ ~Changes(req'[r]) /\ req'[r].with = {}
        /\ \A table, row : Achieved(req'[r], table, row) /\ Current(req'[r], row)
    BY <1>4, IdleFacts, SameMeans DEF Same
  <1>9. \A v : MidChange(req[r], v) => v = u  BY DEF MidChange
  <1> HIDE DEF u
  <1> QED  BY <1>2, <1>3, <1>4, <1>6, <1>7, <1>8, <1>9, WorkAccess

LEMMA AddRoleAccess ==
    ASSUME TypeInv, TypeInv', AccessInv, NEW r \in Requests, AddRole(r)
    PROVE  AccessInv'
  <1> DEFINE u    == req[r].user
             role == req[r].row.role
             q    == [req[r] EXCEPT !.pc = "perms"]
  <1>1. /\ req[r] \in Req /\ StepOK(req[r]) /\ WithOK(req[r])
        /\ req[r].op = "save" /\ req[r].pc = "role"
    BY WithUser DEF AddRole, StepOK
  <1>2. /\ u \in Users /\ u \in req[r].with \cup Builtin /\ u \notin Builtin /\ Changes(req[r])
        /\ req[r].with = {u} \ Builtin
    BY <1>1, WithUser DEF Changes
  <1>3. UNCHANGED <<users, made>>  BY DEF AddRole
  <1>4. Goto(r, "perms") = [req EXCEPT ![r] = q]  BY DEF Goto, TypeInv, ReqsOK
  <1>5. /\ q \in Req /\ StepOK(q) /\ q.pc = "perms" /\ q.op = "save" /\ q.user = u
        /\ q.row = req[r].row /\ q.with = req[r].with
    BY <1>1 DEF Req, StepOK, Pcs
  <1>6. AutosaveAdd(r, HasRole(u, role), [req EXCEPT ![r] = q])
    BY <1>4 DEF AddRole
  <1>7. HasRole(u, role) \in RulesOf(u) /\ role \in Roles
    BY <1>1, <1>2, RulesInRange DEF StepOK
  <1> HIDE DEF q
  <1>8. /\ policies \subseteq policies' /\ policies' \subseteq policies \cup {HasRole(u, role)}
        /\ \A v \in Users \ {u} : RulesOf(v) \cap policies' = RulesOf(v) \cap policies
        /\ OthersSame(r) /\ Same(req'[r], q)
        /\ clash \subseteq clash' /\ clash' \subseteq clash \cup {r} /\ torn \subseteq torn'
        /\ r \in clash' \ clash => {u} \ Builtin \subseteq torn'
        /\ r \notin clash' => HasRole(u, role) \in policies'
    BY <1>2, <1>5, <1>6, <1>7, AutosaveAddParts
  <1>9. WithOK(q) /\ Changes(q) /\ MidChange(q, u)
    BY <1>1, <1>2, <1>5 DEF WithOK, Changes, MidChange
  <1>10. r \notin clash' => Achieved(q, policies', users'[q.user])
    <2>1. r \notin clash' => Achieved(req[r], policies, users[u])
      BY <1>8 DEF AccessInv, RequestInv
    <2>2. role # Administrator => HasRole(u, role) # HasRole(u, Administrator)
      BY DEF HasRole
    <2> QED  BY <1>1, <1>3, <1>5, <1>8, <2>1, <2>2 DEF Achieved
  <1>11. \A x : Current(q, x)  BY <1>5 DEF Current
  <1>12. \A v : MidChange(req[r], v) => v = u  BY DEF MidChange
  <1>13. /\ WithOK(req'[r]) /\ Changes(req'[r]) /\ MidChange(req'[r], u)
         /\ req'[r].with = req[r].with /\ req'[r].user = u
         /\ r \notin clash' => Achieved(req'[r], policies', users'[u])
         /\ \A x : Current(req'[r], x)
    BY <1>5, <1>8, <1>9, <1>10, <1>11, SameMeans DEF Same
  <1> HIDE DEF u, role
  <1> QED  BY <1>2, <1>3, <1>8, <1>12, <1>13, WorkAccess

LEMMA DeletePermissionsAccess ==
    ASSUME TypeInv, TypeInv', AccessInv, NEW r \in Requests, DeletePermissions(r)
    PROVE  AccessInv'
  <1> DEFINE u == req[r].user
             q == [req[r] EXCEPT !.pc = "perm"]
  <1>1. /\ req[r] \in Req /\ StepOK(req[r]) /\ WithOK(req[r])
        /\ req[r].op \in {"save", "acl"} /\ req[r].pc = "unperm"
        /\ u \in Users /\ u \in req[r].with \cup Builtin
    BY WithUser DEF DeletePermissions, StepOK
  <1>2. UNCHANGED <<users, made, clash, torn>>  BY DEF DeletePermissions
  <1>3. Goto(r, "perm") = [req EXCEPT ![r] = q]  BY DEF Goto, TypeInv, ReqsOK
  <1>4. /\ q \in Req /\ StepOK(q) /\ q.pc = "perm" /\ q.op = req[r].op /\ q.user = u
        /\ q.row = req[r].row /\ q.with = req[r].with
    BY <1>1 DEF Req, StepOK, Pcs
  <1>5. Autosave(r, PermissionRules(u), {}, [req EXCEPT ![r] = q])
    BY <1>3 DEF DeletePermissions
  <1> HIDE DEF q
  <1>6. /\ policies' = policies \ PermissionRules(u) /\ OthersSame(r) /\ Same(req'[r], q)
        /\ \A v \in Users \ {u} : RulesOf(v) \cap policies' = RulesOf(v) \cap policies
    <2>1. PermissionRules(u) \in SUBSET RulesOf(u) /\ {} \in SUBSET RulesOf(u)  BY DEF RulesOf
    <2>2. /\ policies' = (policies \ PermissionRules(u)) \cup {} /\ OthersSame(r)
          /\ Same(req'[r], q)
          /\ \A v \in Users \ {u} : RulesOf(v) \cap policies' = RulesOf(v) \cap policies
      BY <1>1, <1>4, <1>5, <2>1, AutosaveParts
    <2> QED  BY <2>2
  <1>7. HasRole(u, Administrator) \in policies' <=> HasRole(u, Administrator) \in policies
    BY <1>6, RuleKinds
  <1>8. \A c \in Cases : MayUse(u, c, "*") \notin policies' /\ MayUse(u, c, "GET") \notin policies'
    BY <1>6 DEF PermissionRules, Acts
  <1>9. WithOK(q) /\ (Changes(q) <=> Changes(req[r])) /\ (Changes(q) => MidChange(q, u))
    BY <1>1, <1>4 DEF WithOK, Changes, MidChange
  <1>10. r \notin clash => Achieved(q, policies', users'[q.user])
    <2>1. r \notin clash => Achieved(req[r], policies, users[u])
      BY DEF AccessInv, RequestInv
    <2> QED  BY <1>1, <1>2, <1>4, <1>7, <1>8, <2>1 DEF Achieved
  <1>11. u \notin torn => Current(q, users'[q.user])
    <2>1. u \notin torn => Current(req[r], users[u])  BY <1>1 DEF AccessInv, RequestInv
    <2> QED  BY <1>1, <1>2, <1>4, <2>1 DEF Current
  <1>12. \A v : MidChange(req[r], v) => v = u  BY DEF MidChange
  <1>13. /\ WithOK(req'[r]) /\ (Changes(req'[r]) <=> Changes(req[r]))
         /\ Changes(req'[r]) => MidChange(req'[r], u)
         /\ req'[r].with = req[r].with /\ req'[r].user = u
         /\ r \notin clash => Achieved(req'[r], policies', users'[u])
         /\ u \notin torn => Current(req'[r], users'[u])
    BY <1>4, <1>6, <1>9, <1>10, <1>11, SameMeans DEF Same
  <1>14. ASSUME u \notin torn' \cup Builtin, \A p \in Requests : ~MidChange(req'[p], u)
         PROVE  Grants(policies', u, users'[u])
    <2>1. ~Changes(req[r])  BY <1>13, <1>14
    <2>2. \A p \in Requests : ~MidChange(req[p], u)
      <3>1. ~MidChange(req[r], u)  BY <2>1 DEF MidChange
      <3> QED  BY <1>6, <1>14, <3>1, SameMeans DEF OthersSame
    <2>3. Grants(policies, u, users[u])
      BY <1>1, <1>2, <1>14, <2>2 DEF AccessInv, TableInv
    <2> QED  BY <1>2, <1>7, <1>8, <2>3 DEF Grants
  <1>15. u \in Builtin => HasRole(u, Administrator) \in policies'
    BY <1>7 DEF AccessInv, ProtectedInv
  <1> HIDE DEF u
  <1> QED  BY <1>1, <1>2, <1>6, <1>12, <1>13, <1>14, <1>15, WorkAccess

\* A permission is added, and casbin does not write what it has.
LEMMA GivePermission ==
    ASSUME NEW u, NEW c \in Cases, NEW role, NEW row, row # NoRow, row.role = role,
           NEW table, NEW new, table \subseteq new,
           new \subseteq table \cup {MayUse(u, c, Act(role))}, Grants(table, u, row)
    PROVE  Grants(new, u, row)
  <1>1. HasRole(u, Administrator) \in new <=> HasRole(u, Administrator) \in table
    BY RuleKinds
  <1>2. ASSUME NEW d \in Cases, NEW a, MayUse(u, d, a) \in new
        PROVE  MayUse(u, d, a) \in table \/ a = Act(role)
    BY <1>2 DEF MayUse
  <1>3. Act(role) = "*" => role # ReadOnly  BY DEF Act
  <1> QED  BY <1>1, <1>2, <1>3 DEF Grants

LEMMA AddPermissionAccess ==
    ASSUME TypeInv, TypeInv', AccessInv, NEW r \in Requests, NEW c \in Cases, AddPermission(r, c)
    PROVE  AccessInv'
  <1> DEFINE u    == req[r].user
             role == req[r].row.role
             rule == MayUse(u, c, Act(role))
             q    == [req[r] EXCEPT !.todo = @ \ {c}]
  <1>1. /\ req[r] \in Req /\ StepOK(req[r]) /\ WithOK(req[r])
        /\ req[r].op \in {"save", "acl"} /\ req[r].pc = "perm"
        /\ u \in Users /\ u \in req[r].with \cup Builtin
    BY WithUser DEF AddPermission, StepOK
  <1>2. UNCHANGED <<users, made>>  BY DEF AddPermission
  <1>3. [req EXCEPT ![r].todo = @ \ {c}] = [req EXCEPT ![r] = q]
    BY DEF TypeInv, ReqsOK
  <1>4. /\ q \in Req /\ StepOK(q) /\ q.pc = "perm" /\ q.op = req[r].op /\ q.user = u
        /\ q.row = req[r].row /\ q.with = req[r].with
    BY <1>1 DEF Req, StepOK
  <1>5. AutosaveAdd(r, rule, [req EXCEPT ![r] = q])  BY <1>3 DEF AddPermission
  <1>6. rule \in RulesOf(u)  BY <1>1, RulesInRange
  <1> HIDE DEF q
  <1>7. /\ policies \subseteq policies' /\ policies' \subseteq policies \cup {rule}
        /\ \A v \in Users \ {u} : RulesOf(v) \cap policies' = RulesOf(v) \cap policies
        /\ OthersSame(r) /\ Same(req'[r], q)
        /\ clash \subseteq clash' /\ clash' \subseteq clash \cup {r} /\ torn \subseteq torn'
        /\ r \in clash' \ clash => {u} \ Builtin \subseteq torn'
    <2> HIDE DEF rule
    <2> QED  BY <1>1, <1>4, <1>5, <1>6, AutosaveAddParts
  <1>8. HasRole(u, Administrator) \in policies' <=> HasRole(u, Administrator) \in policies
    BY <1>7, RuleKinds
  <1>9. WithOK(q) /\ (Changes(q) <=> Changes(req[r])) /\ (Changes(q) => MidChange(q, u))
    BY <1>1, <1>4 DEF WithOK, Changes, MidChange
  <1>10. r \notin clash' => Achieved(q, policies', users'[q.user])
    <2>1. r \notin clash' => Achieved(req[r], policies, users[u])
      BY <1>7 DEF AccessInv, RequestInv
    <2>2. \A d \in Cases : MayUse(u, d, "*") \in policies' =>
                             MayUse(u, d, "*") \in policies \/ role # ReadOnly
      BY <1>7 DEF MayUse, Act
    <2> QED  BY <1>1, <1>2, <1>4, <1>8, <2>1, <2>2 DEF Achieved
  <1>11. u \notin torn' => Current(q, users'[q.user]) /\ Current(req[r], users[u])
    <2>1. u \notin torn' => Current(req[r], users[u])  BY <1>1, <1>7 DEF AccessInv, RequestInv
    <2> QED  BY <1>1, <1>2, <1>4, <2>1 DEF Current
  <1>12. \A v : MidChange(req[r], v) => v = u  BY DEF MidChange
  <1>13. /\ WithOK(req'[r]) /\ (Changes(req'[r]) <=> Changes(req[r]))
         /\ Changes(req'[r]) => MidChange(req'[r], u)
         /\ req'[r].with = req[r].with /\ req'[r].user = u
         /\ r \notin clash' => Achieved(req'[r], policies', users'[u])
         /\ u \notin torn' => Current(req'[r], users'[u])
    BY <1>4, <1>7, <1>9, <1>10, <1>11, SameMeans DEF Same
  <1>14. ASSUME u \notin torn' \cup Builtin, \A p \in Requests : ~MidChange(req'[p], u)
         PROVE  Grants(policies', u, users'[u])
    <2>1. ~Changes(req[r])  BY <1>13, <1>14
    <2>2. \A p \in Requests : ~MidChange(req[p], u)
      <3>1. ~MidChange(req[r], u)  BY <2>1 DEF MidChange
      <3> QED  BY <1>7, <1>14, <3>1, SameMeans DEF OthersSame
    <2>3. Grants(policies, u, users[u])
      BY <1>1, <1>7, <1>14, <2>2 DEF AccessInv, TableInv
    <2>4. users[u] # NoRow /\ users[u].role = role
      BY <1>1, <1>11, <1>14, <2>1 DEF Current, Changes
    <2> QED  BY <1>2, <1>7, <2>3, <2>4, GivePermission
  <1>15. u \in Builtin => HasRole(u, Administrator) \in policies'
    BY <1>8 DEF AccessInv, ProtectedInv
  <1>16. Changes(req[r]) => req[r].with = {u} \ Builtin  BY WithUser
  <1> HIDE DEF u, role, rule
  <1> QED  BY <1>1, <1>2, <1>7, <1>12, <1>13, <1>14, <1>15, <1>16, WorkAccess

\* The end of a save: now the rules say what the row says.
LEMMA PermissionsSavedAccess ==
    ASSUME TypeInv, TypeInv', AccessInv, NEW r \in Requests, PermissionsSaved(r)
    PROVE  AccessInv'
  <1> DEFINE u == req[r].user
  <1>1. /\ req[r].op \in {"save", "acl"} /\ req[r].pc = "perm"
        /\ u \in Users /\ u \in req[r].with \cup Builtin
        /\ req[r].op = "save" => u \notin Builtin
    BY WithUser DEF PermissionsSaved, StepOK, Changes
  <1>2. req' = Done(r) /\ UNCHANGED <<users, policies, made, clash>>
    BY DEF PermissionsSaved, store
  <1>3. CASE req[r].op = "acl"
    <2>1. UNCHANGED torn /\ \A v : ~MidChange(req[r], v)
      BY <1>3 DEF PermissionsSaved, MidChange, Changes
    <2> QED  BY <1>2, <2>1, DoneAccess
  <1>4. CASE req[r].op = "save"
    <2>1. Settles(r) /\ Changes(req[r])  BY <1>4 DEF PermissionsSaved, Changes
    <2>2. u \notin torn' => r \notin clash
      <3>1. r \in clash => u \in torn  BY <1>1, <1>4, <2>1 DEF AccessInv, ClashInv
      <3> QED  BY <2>1, <3>1 DEF Settles
    <2>3. u \notin torn' => Grants(policies', u, users'[u])
      <3>1. r \notin clash => Achieved(req[r], policies, users[u])
        BY DEF AccessInv, RequestInv
      <3> QED  BY <1>1, <1>2, <1>4, <2>2, <3>1 DEF Achieved, Grants, RoleOf
    <2>4. torn \subseteq torn' \cup {u} /\ (r \in clash => torn' = torn)
      BY <2>1 DEF Settles
    <2>5. \A v : MidChange(req[r], v) => v = u  BY DEF MidChange
    <2> HIDE DEF u
    <2> QED  BY <1>1, <1>2, <1>4, <2>1, <2>3, <2>4, <2>5, DoneParts, WorkAccess
  <1> QED  BY <1>1, <1>3, <1>4

LEMMA GiveAccess ==
    ASSUME TypeInv, TypeInv', AccessInv, NEW r \in Requests, Give(r)
    PROVE  AccessInv'
  <1> DEFINE u    == req[r].user
             role == req[r].row.role
             kase == req[r].kase
             rule == MayUse(u, kase, Act(role))
             q    == [req[r] EXCEPT !.pc = "grant", !.todo = @ \ {u}]
  <1>1. /\ req[r] \in Req /\ StepOK(req[r]) /\ WithOK(req[r])
        /\ req[r].op = "case" /\ req[r].pc = "give" /\ kase \in Cases
        /\ u \in Users /\ u \in req[r].with \cup Builtin /\ u \notin Builtin
    BY WithUser DEF Give, StepOK
  <1>2. UNCHANGED <<users, made, clash, torn>> /\ policies' = policies \cup {rule}
    BY DEF Give
  <1>3. req' = Behind([req EXCEPT ![r] = q], {u})
    <2>1. [req EXCEPT ![r].pc = "grant", ![r].todo = @ \ {u}] = [req EXCEPT ![r] = q]
      BY DEF TypeInv, ReqsOK
    <2> QED  BY <2>1 DEF Give
  <1>4. /\ q \in Req /\ StepOK(q) /\ q.pc = "grant" /\ q.op = "case"
        /\ q.todo \subseteq req[r].todo /\ q.with = req[r].with
    BY <1>1 DEF Req, StepOK, Pcs
  <1> HIDE DEF q
  <1>5. OthersSame(r) /\ Same(req'[r], q)
    <2>1. ReqsOK([req EXCEPT ![r] = q])  BY <1>4, UpdateOK DEF TypeInv
    <2>2. {u} \in SUBSET Users  BY <1>1
    <2> QED  BY <1>3, <2>1, <2>2, OneChanges
  <1>6. \A v \in Users \ {u} : RulesOf(v) \cap policies' = RulesOf(v) \cap policies
    <2>1. rule \in RulesOf(u)  BY <1>1, RulesInRange
    <2> HIDE DEF rule
    <2> QED  BY <1>2, <2>1, RulesApart
  <1>7. /\ WithOK(q) /\ ~Changes(q) /\ ~Changes(req[r])
        /\ \A v : ~MidChange(req[r], v) /\ ~MidChange(q, v)
        /\ \A table, x : Achieved(q, table, x) /\ Current(q, x)
    BY <1>1, <1>4 DEF WithOK, Changes, MidChange, Achieved, Current
  <1>8. /\ WithOK(req'[r]) /\ ~Changes(req'[r]) /\ req'[r].with = req[r].with
        /\ \A table, x : Achieved(req'[r], table, x) /\ Current(req'[r], x)
    BY <1>4, <1>5, <1>7, SameMeans DEF Same
  <1>9. ASSUME u \notin torn', \A p \in Requests : ~MidChange(req'[p], u)
        PROVE  Grants(policies', u, users'[u])
    <2>1. \A p \in Requests : ~MidChange(req[p], u)
      BY <1>5, <1>7, <1>9, SameMeans DEF OthersSame
    <2>2. Grants(policies, u, users[u]) /\ Current(req[r], users[u])
      BY <1>1, <1>2, <1>9, <2>1 DEF AccessInv, TableInv, RequestInv
    <2>3. users[u] # NoRow /\ users[u].role = role  BY <1>1, <2>2 DEF Current
    <2> QED  BY <1>1, <1>2, <2>2, <2>3, GivePermission
  <1> HIDE DEF u, role, kase, rule
  <1> QED  BY <1>1, <1>2, <1>5, <1>6, <1>7, <1>8, <1>9, WorkAccess

\* A user from the command line: nobody knows the id before.
LEMMA CreateUserAccess ==
    ASSUME TypeInv, AccessInv, NEW u \in Users, CreateUser(u)
    PROVE  AccessInv'
  <1> DEFINE row == [role |-> Administrator, pw |-> 0]
  <1>1. /\ u \in CliUsers \ made /\ made' = made \cup {u} /\ u \notin Builtin
        /\ users' = [users EXCEPT ![u] = row] /\ UNCHANGED <<torn, clash>>
        /\ policies' = (policies \ RoleRules(u)) \cup {HasRole(u, Administrator)}
        /\ req' = Behind(req, {u})
    BY AccessAssumption DEF CreateUser
  <1>2. \A q \in Requests : Same(req'[q], req[q])
    BY <1>1, BehindSame DEF TypeInv
  <1>3. \A q \in Requests : u \notin req[q].with /\ ~MidChange(req[q], u)
    <2>1. \A q \in Requests : u \notin req[q].with  BY <1>1 DEF AccessInv, ProtectedInv
    <2> QED  BY <1>1, <2>1, WithUser DEF MidChange
  <1>4. \A v \in Users : users'[v] = IF v = u THEN row ELSE users[v]
    BY <1>1 DEF TypeInv, TablesOK
  <1>5. \A v \in Users \ {u} : RulesOf(v) \cap policies' = RulesOf(v) \cap policies
    <2>1. RoleRules(u) \subseteq RulesOf(u) /\ HasRole(u, Administrator) \in RulesOf(u)
      BY RulesInRange, AccessAssumption
    <2> QED  BY <1>1, <2>1, RulesApart
  <1>6. ASSUME NEW v \in Users \ {u}
        PROVE  /\ HasRole(v, Administrator) \in policies' <=> HasRole(v, Administrator) \in policies
               /\ \A c \in Cases, a \in Acts :
                    MayUse(v, c, a) \in policies' <=> MayUse(v, c, a) \in policies
    <2>1. HasRole(v, Administrator) \in RulesOf(v)  BY RulesInRange, AccessAssumption
    <2>2. \A c \in Cases, a \in Acts : MayUse(v, c, a) \in RulesOf(v)
      BY DEF RulesOf, PermissionRules
    <2>3. RulesOf(v) \cap policies' = RulesOf(v) \cap policies  BY <1>5
    <2> QED  BY <2>1, <2>2, <2>3
  <1>7. "*" \in Acts /\ "GET" \in Acts  BY DEF Acts
  <1>8. ProtectedInv'
    <2>1. Builtin \subseteq Users \ {u} /\ CliUsers \subseteq Users  BY <1>1, AccessAssumption
    <2>2. \A b \in Builtin : RoleOf(users'[b]) = Administrator
                             /\ HasRole(b, Administrator) \in policies'
      BY <1>4, <1>6, <2>1 DEF AccessInv, ProtectedInv
    <2>3. \A v \in CliUsers \ made' : v \in Users \ {u} /\ v \in CliUsers \ made
      BY <1>1, <2>1
    <2>4. \A v \in CliUsers \ made' : /\ RulesOf(v) \cap policies' = {}
                                      /\ \A r \in Requests : v \notin req'[r].with
      BY <1>2, <1>5, <2>3 DEF AccessInv, ProtectedInv, Same
    <2> QED  BY <2>2, <2>4 DEF ProtectedInv
  <1>9. ClashInv'  BY <1>1, <1>2, SameMeans DEF AccessInv, ClashInv, Same
  <1>10. TableInv'
    <2>1. ASSUME NEW v \in Users \ (torn' \cup Builtin),
                 \A q \in Requests : ~MidChange(req'[q], v)
          PROVE  Grants(policies', v, users'[v])
      <3>1. CASE v = u
        <4>1. users'[v] = row /\ row # NoRow /\ row.role = Administrator
          BY <1>4, <3>1, AccessAssumption DEF Rows
        <4>2. Administrator # ReadOnly /\ HasRole(v, Administrator) \in policies'
          BY <1>1, <3>1, AccessAssumption
        <4> HIDE DEF row
        <4> QED  BY <4>1, <4>2 DEF Grants, RoleOf
      <3>2. CASE v # u
        <4>1. Grants(policies, v, users[v])
          BY <1>1, <1>2, <2>1, SameMeans DEF AccessInv, TableInv
        <4> QED  BY <1>4, <1>6, <1>7, <3>2, <4>1 DEF Grants
      <3> QED  BY <3>1, <3>2
    <2> QED  BY <2>1 DEF TableInv
  <1>11. RequestInv'
    <2>1. ASSUME NEW p \in Requests
          PROVE  /\ WithOK(req'[p])
                 /\ p \notin clash' => Achieved(req'[p], policies', users'[req'[p].user])
                 /\ req'[p].user \in Users \ torn' => Current(req'[p], users'[req'[p].user])
      <3> DEFINE q == req[p]
      <3>1. Same(req'[p], q) /\ req'[p].user = q.user  BY <1>2 DEF Same
      <3>2. WithOK(q)  BY DEF AccessInv, RequestInv
      <3>3. ASSUME p \notin clash'  PROVE Achieved(q, policies', users'[q.user])
        <4>1. Achieved(q, policies, users[q.user])
          BY <1>1, <3>3 DEF AccessInv, RequestInv
        <4>2. CASE Changes(q) /\ (q.op = "save" => q.pc # "row")
          <5>1. q.user \in Users \ {u}
            BY <1>3, <4>2, WithUser DEF Changes, WithOK, Req
          <5>2. users'[q.user] = users[q.user]  BY <1>4, <5>1
          <5> HIDE DEF q
          <5> QED  BY <1>6, <1>7, <4>1, <5>1, <5>2 DEF Achieved
        <4>3. CASE ~(Changes(q) /\ (q.op = "save" => q.pc # "row"))
          BY <4>3 DEF Achieved, Changes
        <4> QED  BY <4>2, <4>3
      <3>4. ASSUME q.user \in Users \ torn'  PROVE Current(q, users'[q.user])
        <4>1. Current(q, users[q.user])  BY <1>1, <3>4 DEF AccessInv, RequestInv
        <4>2. CASE q.op \in {"acl", "password", "login"} \/ q.pc = "give"
          <5>1. q.user # u  BY <1>1, <1>3, <4>2, WithUser
          <5> QED  BY <1>4, <3>4, <4>1, <5>1
        <4>3. CASE ~(q.op \in {"acl", "password", "login"} \/ q.pc = "give")
          BY <4>3 DEF Current
        <4> QED  BY <4>2, <4>3
      <3> HIDE DEF q
      <3> QED  BY <3>1, <3>2, <3>3, <3>4, SameMeans DEF q
    <2> QED  BY <2>1 DEF RequestInv
  <1> QED  BY <1>8, <1>9, <1>10, <1>11 DEF AccessInv

\* What a restart leaves half way is torn.
LEMMA RestartAccess ==
    ASSUME TypeInv, AccessInv, Restart
    PROVE  AccessInv'
  <1>1. /\ UNCHANGED <<users, policies, made>> /\ clash' = {} /\ torn \subseteq torn'
        /\ \A r \in Requests : req'[r] = Idle /\ HalfWay(r) \subseteq torn'
    BY DEF Restart
  <1>2. ProtectedInv'  BY <1>1, IdleFacts DEF AccessInv, ProtectedInv
  <1>3. ClashInv'  BY <1>1, IdleFacts DEF ClashInv
  <1>4. ASSUME NEW v \in Users \ (torn' \cup Builtin), NEW r \in Requests
        PROVE  ~MidChange(req[r], v)
    BY <1>1, <1>4 DEF HalfWay, MidChange, Changes
  <1>5. TableInv'  BY <1>1, <1>4 DEF AccessInv, TableInv
  <1>6. RequestInv'  BY <1>1, IdleFacts DEF RequestInv
  <1> QED  BY <1>2, <1>3, <1>5, <1>6 DEF AccessInv

LEMMA KeysAccess ==
    ASSUME TypeInv, AccessInv, NEW k \in Keys,
           DeleteKey(k) \/ \E t \in KeyTypes : MintKey(k, t)
    PROVE  AccessInv'
  <1>1. UNCHANGED <<users, policies, req, torn, clash>>  BY DEF DeleteKey, MintKey
  <1>2. CliUsers \ made' \subseteq CliUsers \ made  BY DEF DeleteKey, MintKey
  <1>3. ProtectedInv'  BY <1>1, <1>2 DEF AccessInv, ProtectedInv
  <1> QED  BY <1>1, <1>3 DEF AccessInv, ClashInv, TableInv, RequestInv

LEMMA NextAccess ==
    TypeInv /\ TypeInv' /\ PasswordInv /\ AccessInv /\ [Next]_vars => AccessInv'
  <1> SUFFICES ASSUME TypeInv, TypeInv', PasswordInv, AccessInv, [Next]_vars PROVE AccessInv'
    OBVIOUS
  <1>1. ASSUME NEW r \in Requests, NEW u \in Users,
               \/ \E role \in Roles : UserSave(r, u, role)
               \/ \E cs \in SUBSET Cases : UserSaveACL(r, u, cs)
               \/ UserDelete(r, u) \/ Login(r, u) \/ ChangePassword(r, u) \/ GrantRead(r, u)
        PROVE  AccessInv'
    BY <1>1, UserSaveAccess, UserSaveACLAccess, UserDeleteAccess, LoginAccess,
       ChangePasswordAccess, QuietAccess
  <1>2. ASSUME NEW r \in Requests,
               \/ SaveRow(r) \/ DeleteRoles(r) \/ AddRole(r) \/ ReadPermissions(r)
               \/ DeletePermissions(r) \/ \E c \in Cases : AddPermission(r, c)
               \/ PermissionsSaved(r) \/ DeleteUserRoles(r) \/ DeleteUserRules(r)
        PROVE  AccessInv'
    BY <1>2, SaveRowAccess, DeleteRolesAccess, AddRoleAccess, QuietAccess,
       DeletePermissionsAccess, AddPermissionAccess, PermissionsSavedAccess,
       DeleteUserRulesAccess
  <1>3. ASSUME NEW r \in Requests,
               \/ \E c \in Cases, us \in SUBSET (Known \ Builtin) : BeginCase(r, c, us)
               \/ Give(r) \/ LoadPolicy(r) \/ Install(r) \/ LoggedIn(r) \/ PasswordSet(r)
               \/ \E k \in Keys, t \in KeyTypes : EditKey(r, k, t)
               \/ SaveKey(r) \/ Fails(r) \/ InsertFails(r)
        PROVE  AccessInv'
    BY <1>3, BeginCaseAccess, GiveAccess, QuietAccess, LoggedInAccess, EditKeyAccess
  <1>4. CASE \E u \in Users : CreateUser(u)  BY <1>4, CreateUserAccess
  <1>5. CASE \E k \in Keys : DeleteKey(k) \/ \E t \in KeyTypes : MintKey(k, t)
    BY <1>5, KeysAccess
  <1>6. CASE Restart  BY <1>6, RestartAccess
  <1>7. CASE UNCHANGED vars
    BY <1>7 DEF vars, store, hist, AccessInv, ProtectedInv, ClashInv, TableInv, RequestInv
  <1> QED  BY <1>1, <1>2, <1>3, <1>4, <1>5, <1>6, <1>7 DEF Next

LEMMA InitAccess == Init => AccessInv
  <1> SUFFICES ASSUME Init PROVE AccessInv  OBVIOUS
  <1>1. \A u \in Users : users[u] = NoRow \/ (users[u] = [role |-> Administrator, pw |-> 0])
    BY DEF Init
  <1>2. [role |-> Administrator, pw |-> 0] # NoRow  BY AccessAssumption DEF Rows
  <1>3. \A r \in Requests : req[r] = Idle  BY DEF Init
  <1>4. policies = {HasRole(u, Administrator) : u \in {v \in Users : users[v] # NoRow}}
    BY DEF Init
  <1>5. \A u \in Users : HasRole(u, Administrator) \in policies <=> users[u] # NoRow
    BY <1>4 DEF HasRole
  <1>6. \A u, c, a : MayUse(u, c, a) \notin policies  BY <1>4 DEF HasRole, MayUse
  <1>7. ProtectedInv
    <2>1. \A b \in Builtin : users[b] # NoRow /\ b \in Users  BY AccessAssumption DEF Init
    <2>2. \A u \in CliUsers \ made : u \in Users /\ users[u] = NoRow
      BY AccessAssumption DEF Init
    <2>3. \A u \in CliUsers \ made : RulesOf(u) \cap policies = {}
      BY <1>4, <2>2 DEF RulesOf, RoleRules, PermissionRules, HasRole, MayUse
    <2> QED  BY <1>1, <1>3, <1>5, <2>1, <2>3, IdleFacts DEF ProtectedInv, RoleOf
  <1>8. ClashInv  BY <1>3, IdleFacts DEF ClashInv
  <1>9. TableInv
    <2>1. Administrator # ReadOnly /\ NoRole # Administrator  BY AccessAssumption
    <2> QED  BY <1>1, <1>2, <1>5, <1>6, <2>1 DEF TableInv, Grants, RoleOf
  <1>10. RequestInv  BY <1>3, IdleFacts DEF RequestInv
  <1> QED  BY <1>7, <1>8, <1>9, <1>10 DEF AccessInv

\* casbin's copy grants what the user's row says, once nobody is working on the
\* user, and unless two requests did so at once or a change of the user broke off.
THEOREM AccessFollows == Spec => []AccessFollowsUsers
  <1>1. ASSUME TypeInv, FollowInv, AccessInv  PROVE AccessFollowsUsers
    <2> SUFFICES ASSUME NEW u \in Users \ (torn \cup unloaded),
                        \A r \in Requests : ~Working(r, u)
                 PROVE  /\ IsAdministrator(u) <=> (users[u] # NoRow /\ users[u].role = Administrator)
                        /\ \A c \in Cases : Allowed(u, c, "POST") =>
                             users[u] # NoRow /\ users[u].role # ReadOnly
                        /\ users[u] = NoRow => \A c \in Cases : ~Allowed(u, c, "GET")
      BY DEF AccessFollowsUsers
    <2>1. RulesOf(u) \cap enforcer = RulesOf(u) \cap policies
      BY <1>1 DEF FollowInv, EnforcerFollowsTable
    <2>2. HasRole(u, Administrator) \in RulesOf(u)  BY RulesInRange, AccessAssumption
    <2>3. \A c \in Cases, a \in Acts : MayUse(u, c, a) \in RulesOf(u)
      BY DEF RulesOf, PermissionRules
    <2>4. \A c \in Cases : MayUse(u, c, "POST") \notin enforcer
      <3>1. \A c \in Cases : MayUse(u, c, "POST") \notin Rules
        BY DEF Rules, RulesOf, RoleRules, PermissionRules, HasRole, MayUse, Acts
      <3> QED  BY <1>1, <3>1 DEF TypeInv, TablesOK
    <2>5. "*" \in Acts /\ "GET" \in Acts  BY DEF Acts
    <2>6. Administrator # ReadOnly /\ NoRole # Administrator  BY AccessAssumption
    <2>7. CASE u \in Builtin
      <3>1. RoleOf(users[u]) = Administrator /\ HasRole(u, Administrator) \in policies
        BY <1>1, <2>7 DEF AccessInv, ProtectedInv
      <3>2. users[u] # NoRow /\ users[u].role = Administrator  BY <2>6, <3>1 DEF RoleOf
      <3> QED  BY <2>1, <2>2, <2>6, <3>1, <3>2 DEF IsAdministrator
    <2>8. CASE u \notin Builtin
      <3>1. \A r \in Requests : ~MidChange(req[r], u)
        <4>1. \A r \in Requests : MidChange(req[r], u) =>
                req[r].op \in {"save", "delete"} /\ u \in req[r].with
          BY <1>1, <2>8, WithUser DEF MidChange, Changes
        <4> QED  BY <4>1 DEF Working
      <3>2. Grants(policies, u, users[u])
        BY <1>1, <2>8, <3>1 DEF AccessInv, TableInv
      <3>3. \A c \in Cases : /\ MayUse(u, c, "*") \in enforcer <=> MayUse(u, c, "*") \in policies
                             /\ MayUse(u, c, "GET") \in enforcer <=> MayUse(u, c, "GET") \in policies
        BY <2>1, <2>3, <2>5
      <3>4. HasRole(u, Administrator) \in enforcer <=> HasRole(u, Administrator) \in policies
        BY <2>1, <2>2
      <3> QED  BY <2>4, <2>6, <3>2, <3>3, <3>4 DEF Grants, RoleOf, IsAdministrator, Allowed
    <2> QED  BY <2>7, <2>8
  <1> QED  BY <1>1, InitType, InitFollow, InitPasswords, InitAccess,
              NextType, NextFollow, NextPasswords, NextAccess, PTL DEF Spec

=============================================================================
