---------------------------- MODULE Permissions ----------------------------
(* Roles, their grants and bindings in the database, the permission cache   *)
(* in Redis, the services that change the one and evict the other, and the  *)
(* guard that fills the cache on a miss.  A step is one statement, one      *)
(* transaction's commit or one Redis command; role codes stand for roles.   *)
EXTENDS Naturals, FiniteSets

CONSTANTS Admin, Guard, User, Role, Code, None,
  MayDie        \* a process may die, or Redis fail, between two steps

VARIABLES
  role,         \* op_role: "none", a status, or "deleted" (ids are not reused)
  grants,       \* op_role_permission
  bindings,     \* op_user_role, without foreign keys
  permCache,    \* permission:op:user:<id>, for 24 hours
  roleCache,    \* permission:op:role_data:<code>
  admin, guard, \* the operations and the guarded requests in progress
  overfilled,   \* history: users whose cache a read from before a change filled
  abandoned,    \* history: users whose eviction a dead operation left undone
  overlapped    \* history: two operations were in progress together

pmVars == <<role, grants, bindings, permCache, roleCache, admin, guard,
            overfilled, abandoned, overlapped>>

Status == {"active", "disabled"}
Row(r) == role[r] \in Status

UserRoleData == [roles : SUBSET Role, codes : SUBSET Code]
AdminPc == {"idle", "find", "create", "save", "count", "delete", "txDelete",
            "txCommit", "bind", "unbind", "clearRole", "readUsers", "evict"}
AdminOp == {"none", "create", "status", "delete", "grant", "bind", "unbind", "setRoles"}
AdminRec == [pc : AdminPc, op : AdminOp, role : Role \cup {None},
             users : SUBSET User, status : Status, codes : SUBSET Code,
             roles : SUBSET Role, seen : SUBSET (Code \cup Role)]
GuardPc == {"idle", "get", "bindings", "grants", "persist", "roleGet",
            "roleFind", "roleSet"}
GuardRec == [pc : GuardPc, user : User \cup {None}, roles : SUBSET Role,
             codes : SUBSET Code, found : [Role -> Status \cup {None}]]

PmTypeOK ==
  /\ role \in [Role -> Status \cup {"none", "deleted"}]
  /\ grants \in [Role -> SUBSET Code]
  /\ bindings \in SUBSET (User \X Role)
  /\ permCache \in [User -> UserRoleData \cup {None}]
  /\ roleCache \in [Role -> Status \cup {None}]
  /\ admin \in [Admin -> AdminRec]
  /\ guard \in [Guard -> GuardRec]
  /\ overfilled \in SUBSET User
  /\ abandoned \in SUBSET User
  /\ overlapped \in BOOLEAN

IdleAdmin == [pc |-> "idle", op |-> "none", role |-> None, users |-> {},
              status |-> "active", codes |-> {}, roles |-> {}, seen |-> {}]
NothingFound == [r \in Role |-> None]
IdleGuard == [pc |-> "idle", user |-> None, roles |-> {}, codes |-> {},
              found |-> NothingFound]

PmInit ==
  /\ role = [r \in Role |-> "none"]
  /\ grants = [r \in Role |-> {}]
  /\ bindings = {}
  /\ permCache = [u \in User |-> None]
  /\ roleCache = [r \in Role |-> None]
  /\ admin = [a \in Admin |-> IdleAdmin]
  /\ guard = [g \in Guard |-> IdleGuard]
  /\ overfilled = {} /\ abandoned = {} /\ overlapped = FALSE

(* What getUserPermissionData computes from the tables.                     *)
ActiveRoles(u) == {r \in Role : <<u, r>> \in bindings /\ role[r] = "active"}
Fresh(u) == [roles |-> ActiveRoles(u), codes |-> UNION {grants[r] : r \in ActiveRoles(u)}]

Filling(u) == \E g \in Guard : guard[g].user = u /\ guard[g].pc \in {"grants", "persist"}

(* A commit: users whose data changes while a request holds an older read.  *)
NoteChange == overfilled' = overfilled \cup {u \in User : Filling(u) /\ Fresh(u)' # Fresh(u)}

tables == <<role, grants, bindings>>
caches == <<permCache, roleCache>>
history == <<overfilled, abandoned, overlapped>>

-----------------------------------------------------------------------------
(* The request: PermissionGuard.mountRolesAndPermissions.                   *)

GuardStart(g, u) ==
  /\ guard[g].pc = "idle"
  /\ guard' = [guard EXCEPT ![g] = [IdleGuard EXCEPT !.pc = "get", !.user = u]]
  /\ UNCHANGED <<tables, caches, admin, history>>

GuardGet(g) ==
  /\ guard[g].pc = "get"
  /\ LET hit == permCache[guard[g].user] IN
     guard' = [guard EXCEPT ![g] =
       IF hit = None THEN [guard[g] EXCEPT !.pc = "bindings"]
       ELSE [guard[g] EXCEPT !.pc = "roleGet", !.roles = hit.roles]]
  /\ UNCHANGED <<tables, caches, admin, history>>

(* Two queries without a transaction: the bindings with the roles' status,  *)
(* then the grants of the roles found active.                               *)
GuardReadBindings(g) ==
  /\ guard[g].pc = "bindings"
  /\ LET active == ActiveRoles(guard[g].user) IN
     guard' = [guard EXCEPT ![g].roles = active,
                            ![g].pc = IF active = {} THEN "persist" ELSE "grants"]
  /\ UNCHANGED <<tables, caches, admin, history>>

GuardReadGrants(g) ==
  /\ guard[g].pc = "grants"
  /\ guard' = [guard EXCEPT ![g].codes = UNION {grants[r] : r \in guard[g].roles},
                            ![g].pc = "persist"]
  /\ UNCHANGED <<tables, caches, admin, history>>

GuardPersist(g) ==
  /\ guard[g].pc = "persist"
  /\ permCache' = [permCache EXCEPT ![guard[g].user] =
                     [roles |-> guard[g].roles, codes |-> guard[g].codes]]
  /\ guard' = [guard EXCEPT ![g].pc = "roleGet", ![g].codes = {}]
  /\ UNCHANGED <<tables, roleCache, admin, history>>

(* getRoleDataByCodes: one MGET, one query for the misses, one SET for each.*)
GuardRoleGet(g) ==
  /\ guard[g].pc = "roleGet"
  /\ guard' = [guard EXCEPT ![g] =
       IF \A r \in guard[g].roles : roleCache[r] # None THEN IdleGuard
       ELSE [guard[g] EXCEPT !.pc = "roleFind"]]
  /\ UNCHANGED <<tables, caches, admin, history>>

GuardRoleFind(g) ==
  /\ guard[g].pc = "roleFind"
  /\ LET found == [r \in Role |->
           IF r \in guard[g].roles /\ Row(r) /\ roleCache[r] = None THEN role[r] ELSE None] IN
     guard' = [guard EXCEPT ![g] =
       IF found = NothingFound THEN IdleGuard
       ELSE [guard[g] EXCEPT !.pc = "roleSet", !.found = found]]
  /\ UNCHANGED <<tables, caches, admin, history>>

GuardRoleSet(g) ==
  /\ guard[g].pc = "roleSet"
  /\ \E r \in Role :
       /\ guard[g].found[r] # None
       /\ roleCache' = [roleCache EXCEPT ![r] = guard[g].found[r]]
       /\ LET left == [guard[g].found EXCEPT ![r] = None] IN
          guard' = [guard EXCEPT ![g] =
            IF left = NothingFound THEN IdleGuard ELSE [guard[g] EXCEPT !.found = left]]
  /\ UNCHANGED <<tables, permCache, admin, history>>

GuardFail(g) ==
  /\ MayDie
  /\ guard[g].pc # "idle"
  /\ guard' = [guard EXCEPT ![g] = IdleGuard]
  /\ UNCHANGED <<tables, caches, admin, history>>

(* The ttl of 24 hours ends.                                                *)
PermExpire(u) ==
  /\ permCache[u] # None
  /\ permCache' = [permCache EXCEPT ![u] = None]
  /\ overfilled' = IF Filling(u) THEN overfilled ELSE overfilled \ {u}
  /\ abandoned' = abandoned \ {u}
  /\ UNCHANGED <<tables, roleCache, admin, guard, overlapped>>

-----------------------------------------------------------------------------
(* The operations of OpRoleSharedService and OpUserSharedService.           *)

Busy(a) == admin[a].pc # "idle"
NoteOverlap(a) == overlapped' = (overlapped \/ \E b \in Admin \ {a} : Busy(b))

Begin(a, rec) ==
  /\ ~Busy(a)
  /\ admin' = [admin EXCEPT ![a] = rec]
  /\ NoteOverlap(a)
  /\ UNCHANGED <<tables, caches, guard, overfilled, abandoned>>

BeginOnRole(a, r, op, pc) == Begin(a, [IdleAdmin EXCEPT !.pc = pc, !.op = op, !.role = r])

CreateRole(a, r) == role[r] = "none" /\ BeginOnRole(a, r, "create", "create")
UpdateStatus(a, r, s) ==
  Begin(a, [IdleAdmin EXCEPT !.pc = "find", !.op = "status", !.role = r, !.status = s])
DeleteRole(a, r) == BeginOnRole(a, r, "delete", "find")
SetRolePermissions(a, r, C) ==
  Begin(a, [IdleAdmin EXCEPT !.pc = "find", !.op = "grant", !.role = r, !.codes = C])
BindUsersToRole(a, r, U) ==
  Begin(a, [IdleAdmin EXCEPT !.pc = "find", !.op = "bind", !.role = r, !.users = U])
UnbindUsersFromRole(a, r, U) ==
  Begin(a, [IdleAdmin EXCEPT !.pc = "unbind", !.op = "unbind", !.role = r, !.users = U])
SetUserRoles(a, u, R) ==
  Begin(a, [IdleAdmin EXCEPT !.pc = "find", !.op = "setRoles", !.users = {u}, !.roles = R])

Goto(a, pc) == admin' = [admin EXCEPT ![a].pc = pc]
Stop(a) == admin' = [admin EXCEPT ![a] = IdleAdmin]

InsertRole(a) ==
  /\ admin[a].pc = "create"
  /\ role' = IF role[admin[a].role] = "none"
               THEN [role EXCEPT ![admin[a].role] = "active"] ELSE role
  /\ Stop(a)
  /\ UNCHANGED <<grants, bindings, caches, guard, abandoned, overlapped>>
  /\ NoteChange

(* findOne of the role, or validateRoleIds of all of them: 404 or 400.      *)
FindRole(a) ==
  /\ admin[a].pc = "find"
  /\ LET o == admin[a]
         wanted == IF o.op = "setRoles" THEN o.roles ELSE {o.role}
         next == CASE o.op = "status" -> "save"
                   [] o.op = "delete" -> "count"
                   [] o.op = "bind" -> "bind"
                   [] OTHER -> "txDelete" IN
     IF \A r \in wanted : Row(r) THEN Goto(a, next) ELSE Stop(a)
  /\ UNCHANGED <<tables, caches, guard, history>>

(* save() of the entity found before: it inserts the row again when the row *)
(* was deleted in the meantime.                                             *)
SaveStatus(a) ==
  /\ admin[a].pc = "save"
  /\ role' = [role EXCEPT ![admin[a].role] = admin[a].status]
  /\ admin' = [admin EXCEPT ![a].pc = "clearRole", ![a].status = "active"]
  /\ UNCHANGED <<grants, bindings, caches, guard, abandoned, overlapped>>
  /\ NoteChange

(* A role with bindings is not deleted; the count is not in the transaction.*)
CountBindings(a) ==
  /\ admin[a].pc = "count"
  /\ IF \E u \in User : <<u, admin[a].role>> \in bindings THEN Stop(a) ELSE Goto(a, "delete")
  /\ UNCHANGED <<tables, caches, guard, history>>

DeleteRows(a) ==
  /\ admin[a].pc = "delete"
  /\ grants' = [grants EXCEPT ![admin[a].role] = {}]
  /\ role' = [role EXCEPT ![admin[a].role] = "deleted"]
  /\ Goto(a, "clearRole")
  /\ UNCHANGED <<bindings, caches, guard, abandoned, overlapped>>
  /\ NoteChange

(* Replacing a set of rows: DELETE sees the rows of its own snapshot, the   *)
(* INSERT of a row another transaction added since breaks the unique index. *)
SameRows(a, b) == /\ admin[b].pc = "txCommit"
                  /\ admin[b].op = admin[a].op
                  /\ admin[b].role = admin[a].role
                  /\ admin[a].op = "setRoles" => admin[b].users = admin[a].users

TxDelete(a) ==
  /\ admin[a].pc = "txDelete"
  /\ LET o == admin[a] IN
     admin' = [admin EXCEPT ![a].pc = "txCommit", ![a].seen =
       IF o.op = "grant" THEN grants[o.role]
       ELSE {r \in Role : \E u \in o.users : <<u, r>> \in bindings}]
  /\ UNCHANGED <<tables, caches, guard, history>>

TxCommit(a) ==
  /\ admin[a].pc = "txCommit"
  /\ LET o == admin[a]
         now == IF o.op = "grant" THEN grants[o.role]
                ELSE {r \in Role : \E u \in o.users : <<u, r>> \in bindings}
         wanted == IF o.op = "grant" THEN o.codes ELSE o.roles
         kept == now \ o.seen
         next == IF o.op = "grant" THEN "clearRole" ELSE "evict" IN
     IF wanted \cap kept # {}
       THEN /\ Stop(a)
            /\ UNCHANGED <<grants, bindings>>
       ELSE /\ admin' = [b \in Admin |->
                 IF b = a THEN [o EXCEPT !.pc = next, !.seen = {}, !.codes = {}, !.roles = {}]
                 ELSE IF SameRows(a, b) THEN [admin[b] EXCEPT !.seen = admin[b].seen \ o.seen]
                 ELSE admin[b]]
            /\ IF o.op = "grant"
                 THEN /\ grants' = [grants EXCEPT ![o.role] = kept \cup wanted]
                      /\ UNCHANGED bindings
                 ELSE /\ bindings' = {b \in bindings : b[1] \notin o.users}
                                       \cup (o.users \X (kept \cup wanted))
                      /\ UNCHANGED grants
  /\ UNCHANGED <<role, caches, guard, abandoned, overlapped>>
  /\ NoteChange

(* One transaction: the missing bindings are inserted.                      *)
Bind(a) ==
  /\ admin[a].pc = "bind"
  /\ bindings' = bindings \cup (admin[a].users \X {admin[a].role})
  /\ Goto(a, "evict")
  /\ UNCHANGED <<role, grants, caches, guard, abandoned, overlapped>>
  /\ NoteChange

Unbind(a) ==
  /\ admin[a].pc = "unbind"
  /\ bindings' = bindings \ (admin[a].users \X {admin[a].role})
  /\ Goto(a, "evict")
  /\ UNCHANGED <<role, grants, caches, guard, abandoned, overlapped>>
  /\ NoteChange

(* clearRoleCaches: the role's key, then the users bound to it by now.      *)
ClearRoleCache(a) ==
  /\ admin[a].pc = "clearRole"
  /\ roleCache' = [roleCache EXCEPT ![admin[a].role] = None]
  /\ Goto(a, "readUsers")
  /\ UNCHANGED <<tables, permCache, guard, history>>

(* Mutant: only the key of the role is evicted. *)
ReadNoUsers(a) ==
  /\ admin[a].pc = "readUsers"
  /\ LET bound == {} IN
     IF bound = {} THEN Stop(a)
     ELSE admin' = [admin EXCEPT ![a] = [IdleAdmin EXCEPT !.pc = "evict", !.users = bound]]
  /\ UNCHANGED <<tables, caches, guard, history>>

ReadBoundUsers(a) ==
  /\ admin[a].pc = "readUsers"
  /\ LET bound == {u \in User : <<u, admin[a].role>> \in bindings} IN
     IF bound = {} THEN Stop(a)
     ELSE admin' = [admin EXCEPT ![a] = [IdleAdmin EXCEPT !.pc = "evict", !.users = bound]]
  /\ UNCHANGED <<tables, caches, guard, history>>

EvictUser(a) ==
  /\ admin[a].pc = "evict"
  /\ \E u \in admin[a].users :
       /\ permCache' = [permCache EXCEPT ![u] = None]
       /\ overfilled' = IF Filling(u) THEN overfilled ELSE overfilled \ {u}
       /\ LET left == admin[a].users \ {u} IN
          admin' = [admin EXCEPT ![a] =
            IF left = {} THEN IdleAdmin ELSE [admin[a] EXCEPT !.users = left]]
  /\ UNCHANGED <<tables, roleCache, guard, abandoned, overlapped>>

(* The users whose cached data a's commit changed and a has still to evict. *)
Owes(a, u) ==
  \/ admin[a].pc = "evict" /\ u \in admin[a].users
  \/ admin[a].pc \in {"clearRole", "readUsers"} /\ <<u, admin[a].role>> \in bindings

AdminDies(a) ==
  /\ MayDie
  /\ Busy(a)
  /\ abandoned' = abandoned \cup {u \in User : Owes(a, u)}
  /\ Stop(a)
  /\ UNCHANGED <<tables, caches, guard, overfilled, overlapped>>

-----------------------------------------------------------------------------
PmNext ==
  \/ \E g \in Guard, u \in User : GuardStart(g, u)
  \/ \E g \in Guard :
       \/ GuardGet(g) \/ GuardReadBindings(g) \/ GuardReadGrants(g)
       \/ GuardPersist(g) \/ GuardRoleGet(g) \/ GuardRoleFind(g)
       \/ GuardRoleSet(g) \/ GuardFail(g)
  \/ \E u \in User : PermExpire(u)
  \/ \E a \in Admin, r \in Role :
       \/ CreateRole(a, r) \/ DeleteRole(a, r)
       \/ \E s \in Status : UpdateStatus(a, r, s)
       \/ \E C \in SUBSET Code : SetRolePermissions(a, r, C)
       \/ \E U \in SUBSET User \ {{}} :
            BindUsersToRole(a, r, U) \/ UnbindUsersFromRole(a, r, U)
  \/ \E a \in Admin, u \in User, R \in SUBSET Role : SetUserRoles(a, u, R)
  \/ \E a \in Admin :
       \/ InsertRole(a) \/ FindRole(a) \/ SaveStatus(a) \/ CountBindings(a)
       \/ DeleteRows(a) \/ TxDelete(a) \/ TxCommit(a) \/ Bind(a) \/ Unbind(a)
       \/ ClearRoleCache(a) \/ ReadBoundUsers(a) \/ EvictUser(a) \/ AdminDies(a)

PmSpec == PmInit /\ [][PmNext]_pmVars

-----------------------------------------------------------------------------
(* A cached permission set is what the tables say, unless the operation     *)
(* that changed them has still to evict it, died before it did, or a        *)
(* request filled the cache from a read older than the change.  Whatever    *)
(* the operations and however they overlap, every other way out is evicted. *)
CachedPermissionsFresh ==
  \A u \in User : permCache[u] \notin {None, Fresh(u)}
    => \/ u \in overfilled \cup abandoned
       \/ \E a \in Admin : Owes(a, u)

(* No user stays bound to a deleted role, while operations do not overlap   *)
(* (the count of bindings is taken before the transaction that deletes).    *)
DeletedRoleUnboundAlone ==
  ~overlapped => \A u \in User, r \in Role : <<u, r>> \in bindings => Row(r)

(* A deleted role is gone, while operations do not overlap: no entity saved *)
(* later brings it back.                                                    *)
DeletedStaysDeletedAlone ==
  [][\A r \in Role : ~overlapped /\ role[r] = "deleted" => role'[r] = "deleted"]_pmVars
=============================================================================
