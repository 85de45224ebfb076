--------------------------- MODULE BackOfficeProofs ---------------------------
(* What TLAPS proves about role permissions and accounts, each a subject of  *)
(* MCBackOffice: roles here, accounts in AccountsProofs.                     *)
EXTENDS MCBackOffice, TLAPS

SharedP == INSTANCE AccountsProofs WITH Request <- {q1}, Op <- {q1}, Site <- {}, Name <- {c1}
RenamesP == INSTANCE AccountsProofs WITH Admin <- {q1}, Request <- {}, Op <- {c1, c2, q1},
              Site <- {}, Name <- {n1, n2}, MayDie <- FALSE
SitesP == INSTANCE AccountsProofs WITH Admin <- {q1}, Request <- {}, Op <- {c1}, Site <- {q1},
            Name <- {n1, n2}

-----------------------------------------------------------------------------
(* Roles: types, and what the place of an operation says of its request.     *)
OnRolePc == {"create", "save", "count", "delete", "bind", "unbind", "clearRole", "readUsers"}
AdminShape(o) ==
  /\ o.pc \in OnRolePc => o.role \in Role
  /\ o.pc = "find" => /\ o.op \in {"status", "delete", "grant", "bind", "setRoles"}
                      /\ o.op # "setRoles" => o.role \in Role
  /\ o.pc \in {"txDelete", "txCommit"} => /\ o.op \in {"grant", "setRoles"}
                                          /\ o.op = "grant" => o.role \in Role
GuardShape(q) ==
  /\ q.pc # "idle" => q.user \in User
  /\ q.pc \in {"get", "bindings"} => q.codes = {}
PmShape ==
  /\ PmTypeOK
  /\ \A a \in Admin : AdminShape(admin[a])
  /\ \A g \in Guard : GuardShape(guard[g])

AdminBecomes(a, n) == n \in AdminRec /\ AdminShape(n) /\ admin' = [admin EXCEPT ![a] = n]
GuardBecomes(g, n) == n \in GuardRec /\ GuardShape(n) /\ guard' = [guard EXCEPT ![g] = n]

(* Only the one operation, or the one request, changes.                      *)
LEMMA AdminTyped ==
  ASSUME PmShape, NEW a \in Admin, NEW n, AdminBecomes(a, n)
  PROVE  /\ admin' \in [Admin -> AdminRec] /\ admin'[a] = n
         /\ \A b \in Admin : b # a => admin'[b] = admin[b]
         /\ \A b \in Admin : AdminShape(admin'[b])
BY DEF PmShape, PmTypeOK, AdminBecomes

LEMMA GuardTyped ==
  ASSUME PmShape, NEW g \in Guard, NEW n, GuardBecomes(g, n)
  PROVE  /\ guard' \in [Guard -> GuardRec] /\ guard'[g] = n
         /\ \A h \in Guard : h # g => guard'[h] = guard[h]
         /\ \A h \in Guard : GuardShape(guard'[h])
BY DEF PmShape, PmTypeOK, GuardBecomes

(* An operation or a request at rest is well-formed.                         *)
LEMMA AdminIdle == IdleAdmin \in AdminRec /\ IdleAdmin.pc = "idle" /\ AdminShape(IdleAdmin)
<1>1. IdleAdmin \in AdminRec /\ IdleAdmin.pc = "idle"
  BY DEF IdleAdmin, AdminRec, AdminPc, AdminOp, Status
<1> QED
  BY <1>1 DEF AdminShape, OnRolePc

LEMMA GuardIdle == IdleGuard \in GuardRec /\ IdleGuard.pc = "idle" /\ GuardShape(IdleGuard)
<1>1. IdleGuard \in GuardRec /\ IdleGuard.pc = "idle"
  BY DEF IdleGuard, GuardRec, GuardPc, NothingFound
<1> QED
  BY <1>1 DEF GuardShape

(* A request of the guard touches no operation and no table.                 *)
LEMMA GuardStays ==
  ASSUME PmShape, NEW g \in Guard, NEW n, GuardBecomes(g, n), UNCHANGED <<tables, admin, history>>,
         permCache' \in [User -> UserRoleData \cup {None}],
         roleCache' \in [Role -> Status \cup {None}]
  PROVE  PmShape'
BY GuardTyped DEF PmShape, PmTypeOK, tables, history, Status

(* An operation's step on the tables and the caches.                         *)
LEMMA AdminStays ==
  ASSUME PmShape, NEW a \in Admin, NEW n, AdminBecomes(a, n), UNCHANGED guard,
         role' \in [Role -> Status \cup {"none", "deleted"}],
         grants' \in [Role -> SUBSET Code], bindings' \in SUBSET (User \X Role),
         permCache' \in [User -> UserRoleData \cup {None}],
         roleCache' \in [Role -> Status \cup {None}],
         overfilled' \in SUBSET User, abandoned' \in SUBSET User, overlapped' \in BOOLEAN
  PROVE  PmShape'
BY AdminTyped DEF PmShape, PmTypeOK

Begins(a) ==
  \E r \in Role :
    \/ CreateRole(a, r) \/ DeleteRole(a, r)
    \/ \E s \in Status : UpdateStatus(a, r, s)
    \/ \E C \in SUBSET Code : SetRolePermissions(a, r, C)
    \/ \E U \in SUBSET User \ {{}} :
         BindUsersToRole(a, r, U) \/ UnbindUsersFromRole(a, r, U)
    \/ \E u \in User, R \in SUBSET Role : SetUserRoles(a, u, R)
BeginsPc == {"create", "find", "unbind"}
(* An operation begins: nothing is written.                                  *)
LEMMA BeginMoves ==
  ASSUME NEW a \in Admin,
         \/ Begins(a)
         \/ \E u \in User, R \in SUBSET Role : SetUserRoles(a, u, R)
  PROVE  \E n : /\ AdminBecomes(a, n) /\ n.pc \in BeginsPc /\ ~Busy(a) /\ NoteOverlap(a)
                /\ UNCHANGED <<tables, caches, guard, overfilled, abandoned>>
<1>1. ASSUME NEW n \in AdminRec, AdminShape(n), n.pc \in BeginsPc, Begin(a, n)
      PROVE  \E m : /\ AdminBecomes(a, m) /\ m.pc \in BeginsPc /\ ~Busy(a) /\ NoteOverlap(a)
                    /\ UNCHANGED <<tables, caches, guard, overfilled, abandoned>>
  BY <1>1 DEF Begin, AdminBecomes
<1> DEFINE Goal == \E n : /\ AdminBecomes(a, n) /\ n.pc \in BeginsPc /\ ~Busy(a) /\ NoteOverlap(a)
                          /\ UNCHANGED <<tables, caches, guard, overfilled, abandoned>>
<1> HIDE DEF Goal
<1>2. ASSUME NEW n \in AdminRec, AdminShape(n), n.pc \in BeginsPc, Begin(a, n) PROVE Goal
  BY <1>1, <1>2 DEF Goal
<1>3. ASSUME NEW r \in Role, NEW op \in AdminOp, NEW pc \in BeginsPc, pc = "find" => op = "delete",
             BeginOnRole(a, r, op, pc)
      PROVE  Goal
  <2> DEFINE n == [IdleAdmin EXCEPT !.pc = pc, !.op = op, !.role = r]
  <2>1. n \in AdminRec /\ n.pc = pc /\ n.op = op /\ n.role = r
    BY <1>3 DEF IdleAdmin, AdminRec, AdminPc, BeginsPc, Status
  <2>2. Begin(a, n)
    BY <1>3 DEF BeginOnRole
  <2> HIDE DEF n
  <2> QED
    BY <1>2, <1>3, <2>1, <2>2 DEF AdminShape, BeginsPc
<1>4. ASSUME NEW r \in Role, NEW s \in Status, UpdateStatus(a, r, s) PROVE Goal
  <2> DEFINE n == [IdleAdmin EXCEPT !.pc = "find", !.op = "status", !.role = r, !.status = s]
  <2>1. n \in AdminRec /\ n.pc = "find" /\ n.op = "status" /\ n.role = r
    BY DEF IdleAdmin, AdminRec, AdminPc, AdminOp
  <2>2. Begin(a, n)
    BY <1>4 DEF UpdateStatus
  <2> HIDE DEF n
  <2> QED
    BY <1>2, <2>1, <2>2 DEF AdminShape, BeginsPc, OnRolePc
<1>5. ASSUME NEW r \in Role, NEW C \in SUBSET Code, SetRolePermissions(a, r, C) PROVE Goal
  <2> DEFINE n == [IdleAdmin EXCEPT !.pc = "find", !.op = "grant", !.role = r, !.codes = C]
  <2>1. n \in AdminRec /\ n.pc = "find" /\ n.op = "grant" /\ n.role = r
    BY DEF IdleAdmin, AdminRec, AdminPc, AdminOp, Status
  <2>2. Begin(a, n)
    BY <1>5 DEF SetRolePermissions
  <2> HIDE DEF n
  <2> QED
    BY <1>2, <2>1, <2>2 DEF AdminShape, BeginsPc, OnRolePc
<1>6. ASSUME NEW r \in Role, NEW U \in SUBSET User, BindUsersToRole(a, r, U) PROVE Goal
  <2> DEFINE n == [IdleAdmin EXCEPT !.pc = "find", !.op = "bind", !.role = r, !.users = U]
  <2>1. n \in AdminRec /\ n.pc = "find" /\ n.op = "bind" /\ n.role = r
    BY DEF IdleAdmin, AdminRec, AdminPc, AdminOp, Status
  <2>2. Begin(a, n)
    BY <1>6 DEF BindUsersToRole
  <2> HIDE DEF n
  <2> QED
    BY <1>2, <2>1, <2>2 DEF AdminShape, BeginsPc, OnRolePc
<1>7. ASSUME NEW r \in Role, NEW U \in SUBSET User, UnbindUsersFromRole(a, r, U) PROVE Goal
  <2> DEFINE n == [IdleAdmin EXCEPT !.pc = "unbind", !.op = "unbind", !.role = r, !.users = U]
  <2>1. n \in AdminRec /\ n.pc = "unbind" /\ n.op = "unbind" /\ n.role = r
    BY DEF IdleAdmin, AdminRec, AdminPc, AdminOp, Status
  <2>2. Begin(a, n)
    BY <1>7 DEF UnbindUsersFromRole
  <2> HIDE DEF n
  <2> QED
    BY <1>2, <2>1, <2>2 DEF AdminShape, BeginsPc, OnRolePc
<1>8. ASSUME NEW u \in User, NEW R \in SUBSET Role, SetUserRoles(a, u, R) PROVE Goal
  <2> DEFINE n == [IdleAdmin EXCEPT !.pc = "find", !.op = "setRoles", !.users = {u}, !.roles = R]
  <2>1. n \in AdminRec /\ n.pc = "find" /\ n.op = "setRoles"
    BY DEF IdleAdmin, AdminRec, AdminPc, AdminOp, Status
  <2>2. Begin(a, n)
    BY <1>8 DEF SetUserRoles
  <2> HIDE DEF n
  <2> QED
    BY <1>2, <2>1, <2>2 DEF AdminShape, BeginsPc, OnRolePc
<1>9. \A r \in Role : CreateRole(a, r) \/ DeleteRole(a, r) => Goal
  BY <1>3 DEF CreateRole, DeleteRole, AdminOp, BeginsPc
<1> QED
  BY <1>4, <1>5, <1>6, <1>7, <1>8, <1>9 DEF Begins, Goal

(* What the tables say of a user is a permission set.                        *)
LEMMA FreshTyped ==
  ASSUME PmShape, NEW u \in User
  PROVE  Fresh(u) \in UserRoleData /\ ActiveRoles(u) \in SUBSET Role
BY DEF PmShape, PmTypeOK, Fresh, ActiveRoles, UserRoleData

(* Types along the steps of a request.                                       *)
LEMMA GuardsKeepShape ==
  ASSUME PmShape, NEW g \in Guard,
         \/ \E u \in User : GuardStart(g, u)
         \/ GuardGet(g) \/ GuardReadBindings(g) \/ GuardReadGrants(g)
         \/ GuardPersist(g) \/ GuardRoleGet(g) \/ GuardRoleFind(g)
         \/ GuardRoleSet(g) \/ GuardFail(g)
  PROVE  PmShape'
<1>0. /\ guard[g] \in GuardRec /\ GuardShape(guard[g])
      /\ permCache \in [User -> UserRoleData \cup {None}]
      /\ roleCache \in [Role -> Status \cup {None}]
      /\ role \in [Role -> Status \cup {"none", "deleted"}] /\ grants \in [Role -> SUBSET Code]
  BY DEF PmShape, PmTypeOK
<1>a. ASSUME NEW n, GuardBecomes(g, n), UNCHANGED <<tables, caches, admin, history>> PROVE PmShape'
  BY <1>0, <1>a, GuardStays DEF caches
<1>1. ASSUME NEW u \in User, GuardStart(g, u) PROVE PmShape'
  <2> DEFINE n == [IdleGuard EXCEPT !.pc = "get", !.user = u]
  <2>1. n \in GuardRec /\ n.pc = "get" /\ n.user = u /\ n.codes = {}
    BY GuardIdle DEF GuardRec, GuardPc, IdleGuard
  <2>2. guard' = [guard EXCEPT ![g] = n]
    BY <1>1 DEF GuardStart
  <2> HIDE DEF n
  <2>3. GuardBecomes(g, n)
    BY <2>1, <2>2 DEF GuardBecomes, GuardShape
  <2> QED
    BY <1>1, <1>a, <2>3 DEF GuardStart
<1>2. CASE GuardGet(g)
  <2> SUFFICES ASSUME NEW hit, hit = permCache[guard[g].user] PROVE PmShape'
    OBVIOUS
  <2>1. guard[g].pc = "get" /\ guard[g].user \in User /\ hit \in UserRoleData \cup {None}
    BY <1>0, <1>2 DEF GuardGet, GuardShape
  <2> DEFINE n == IF hit = None THEN [guard[g] EXCEPT !.pc = "bindings"]
                  ELSE [guard[g] EXCEPT !.pc = "roleGet", !.roles = hit.roles]
  <2>2. n \in GuardRec /\ n.user = guard[g].user /\ n.codes = guard[g].codes
    BY <1>0, <2>1 DEF GuardRec, GuardPc, UserRoleData
  <2>3. guard' = [guard EXCEPT ![g] = n]
    BY <1>2 DEF GuardGet
  <2> HIDE DEF n
  <2>4. GuardBecomes(g, n)
    BY <1>0, <2>1, <2>2, <2>3 DEF GuardBecomes, GuardShape
  <2> QED
    BY <1>2, <1>a, <2>4 DEF GuardGet
<1>3. CASE GuardReadBindings(g)
  <2> SUFFICES ASSUME NEW R, R = ActiveRoles(guard[g].user) PROVE PmShape'
    OBVIOUS
  <2> DEFINE n == [guard[g] EXCEPT !.roles = R, !.pc = IF R = {} THEN "persist" ELSE "grants"]
  <2>1. guard[g].pc = "bindings" /\ guard[g].user \in User /\ R \in SUBSET Role
    BY <1>0, <1>3, FreshTyped DEF GuardReadBindings, GuardShape
  <2>2. /\ n \in GuardRec /\ n.user = guard[g].user /\ n.codes = guard[g].codes
        /\ n.pc \in {"persist", "grants"}
    BY <1>0, <2>1 DEF GuardRec, GuardPc
  <2>3. guard' = [guard EXCEPT ![g] = n]
    BY <1>0, <1>3 DEF GuardReadBindings, GuardRec, PmShape, PmTypeOK
  <2> HIDE DEF n
  <2>4. GuardBecomes(g, n)
    BY <1>0, <2>1, <2>2, <2>3 DEF GuardBecomes, GuardShape
  <2> QED
    BY <1>3, <1>a, <2>4 DEF GuardReadBindings
<1>4. CASE GuardReadGrants(g)
  <2> SUFFICES ASSUME NEW C, C = UNION {grants[r] : r \in guard[g].roles} PROVE PmShape'
    OBVIOUS
  <2> DEFINE n == [guard[g] EXCEPT !.codes = C, !.pc = "persist"]
  <2>1. guard[g].pc = "grants" /\ guard[g].user \in User /\ C \in SUBSET Code
    BY <1>0, <1>4 DEF GuardReadGrants, GuardShape, GuardRec
  <2>2. n \in GuardRec /\ n.user = guard[g].user /\ n.pc = "persist"
    BY <1>0, <2>1 DEF GuardRec, GuardPc
  <2>3. guard' = [guard EXCEPT ![g] = n]
    BY <1>0, <1>4 DEF GuardReadGrants, GuardRec, PmShape, PmTypeOK
  <2> HIDE DEF n
  <2>4. GuardBecomes(g, n)
    BY <1>0, <2>1, <2>2, <2>3 DEF GuardBecomes, GuardShape
  <2> QED
    BY <1>4, <1>a, <2>4 DEF GuardReadGrants
<1>5. CASE GuardPersist(g)
  <2> DEFINE n == [guard[g] EXCEPT !.pc = "roleGet", !.codes = {}]
  <2>1. guard[g].pc = "persist" /\ guard[g].user \in User
    BY <1>0, <1>5 DEF GuardPersist, GuardShape
  <2>2. n \in GuardRec /\ n.user = guard[g].user /\ n.pc = "roleGet"
    BY <1>0, <2>1 DEF GuardRec, GuardPc
  <2>3. guard' = [guard EXCEPT ![g] = n]
    BY <1>0, <1>5 DEF GuardPersist, GuardRec, PmShape, PmTypeOK
  <2> HIDE DEF n
  <2>4. GuardBecomes(g, n)
    BY <1>0, <2>1, <2>2, <2>3 DEF GuardBecomes, GuardShape
  <2>5. permCache' \in [User -> UserRoleData \cup {None}]
    BY <1>0, <1>5, <2>1 DEF GuardPersist, UserRoleData, GuardRec
  <2> QED
    BY <1>0, <1>5, <2>4, <2>5, GuardStays DEF GuardPersist
<1>6. CASE GuardRoleGet(g)
  <2> DEFINE n == IF \A r \in guard[g].roles : roleCache[r] # None THEN IdleGuard
                  ELSE [guard[g] EXCEPT !.pc = "roleFind"]
  <2>1. guard[g].pc = "roleGet" /\ guard[g].user \in User
    BY <1>0, <1>6 DEF GuardRoleGet, GuardShape
  <2>2. [guard[g] EXCEPT !.pc = "roleFind"] \in GuardRec
    BY <1>0 DEF GuardRec, GuardPc
  <2>3. guard' = [guard EXCEPT ![g] = n]
    BY <1>6 DEF GuardRoleGet
  <2>4. GuardBecomes(g, n)
    BY <2>1, <2>2, <2>3, GuardIdle DEF GuardBecomes, GuardShape
  <2> QED
    BY <1>6, <1>a, <2>4 DEF GuardRoleGet
<1>7. CASE GuardRoleFind(g)
  <2> DEFINE found == [r \in Role |->
               IF r \in guard[g].roles /\ Row(r) /\ roleCache[r] = None THEN role[r] ELSE None]
             n == IF found = NothingFound THEN IdleGuard
                  ELSE [guard[g] EXCEPT !.pc = "roleSet", !.found = found]
  <2>1. guard[g].pc = "roleFind" /\ guard[g].user \in User
    BY <1>0, <1>7 DEF GuardRoleFind, GuardShape
  <2>2. found \in [Role -> Status \cup {None}]
    BY <1>0 DEF Row
  <2>3. guard' = [guard EXCEPT ![g] = n]
    BY <1>7 DEF GuardRoleFind
  <2> HIDE DEF found
  <2>4. [guard[g] EXCEPT !.pc = "roleSet", !.found = found] \in GuardRec
    BY <1>0, <2>2 DEF GuardRec, GuardPc
  <2>5. GuardBecomes(g, n)
    BY <2>1, <2>3, <2>4, GuardIdle DEF GuardBecomes, GuardShape
  <2> QED
    BY <1>7, <1>a, <2>5 DEF GuardRoleFind
<1>8. CASE GuardRoleSet(g)
  <2>1. PICK r \in Role :
          /\ guard[g].found[r] # None
          /\ roleCache' = [roleCache EXCEPT ![r] = guard[g].found[r]]
          /\ guard' = [guard EXCEPT ![g] =
               IF [guard[g].found EXCEPT ![r] = None] = NothingFound THEN IdleGuard
               ELSE [guard[g] EXCEPT !.found = [guard[g].found EXCEPT ![r] = None]]]
    BY <1>8 DEF GuardRoleSet
  <2>2. guard[g].pc = "roleSet" /\ guard[g].found \in [Role -> Status \cup {None}]
    BY <1>0, <1>8 DEF GuardRoleSet, GuardRec
  <2> DEFINE left == [guard[g].found EXCEPT ![r] = None]
             n == IF left = NothingFound THEN IdleGuard ELSE [guard[g] EXCEPT !.found = left]
  <2>3. left \in [Role -> Status \cup {None}]
    BY <2>2
  <2>4. guard' = [guard EXCEPT ![g] = n]
    BY <2>1
  <2> HIDE DEF left
  <2>5. [guard[g] EXCEPT !.found = left] \in GuardRec
    BY <1>0, <2>3 DEF GuardRec
  <2>6. GuardBecomes(g, n)
    BY <1>0, <2>2, <2>4, <2>5, GuardIdle DEF GuardBecomes, GuardShape
  <2>7. roleCache' \in [Role -> Status \cup {None}]
    BY <1>0, <2>1, <2>2
  <2> QED
    BY <1>0, <1>8, <2>6, <2>7, GuardStays DEF GuardRoleSet
<1>9. CASE GuardFail(g)
  BY <1>9, <1>a, GuardIdle DEF GuardFail, GuardBecomes
<1> QED
  BY <1>1, <1>2, <1>3, <1>4, <1>5, <1>6, <1>7, <1>8, <1>9

(* One step of an operation: what it has done so far becomes n.              *)
Moves(a) ==
  InsertRole(a) \/ FindRole(a) \/ SaveStatus(a) \/ CountBindings(a)
  \/ DeleteRows(a) \/ TxDelete(a) \/ TxCommit(a) \/ Bind(a) \/ Unbind(a)
  \/ ClearRoleCache(a) \/ ReadBoundUsers(a) \/ EvictUser(a) \/ AdminDies(a)

(* An operation goes to another place, where its role has to be set.         *)
LEMMA GotoBecomes ==
  ASSUME PmShape, NEW a \in Admin, NEW pc \in AdminPc, Goto(a, pc),
         pc \in OnRolePc => admin[a].role \in Role,
         pc \in {"txDelete", "txCommit"} => /\ admin[a].op \in {"grant", "setRoles"}
                                            /\ admin[a].op = "grant" => admin[a].role \in Role,
         pc # "find"
  PROVE  /\ AdminBecomes(a, [admin[a] EXCEPT !.pc = pc])
         /\ admin'[a] \in AdminRec /\ admin'[a].pc = pc
         /\ admin'[a].op = admin[a].op /\ admin'[a].role = admin[a].role
         /\ admin'[a].users = admin[a].users /\ admin'[a].roles = admin[a].roles
<1> DEFINE n == [admin[a] EXCEPT !.pc = pc]
<1>1. /\ n \in AdminRec /\ n.pc = pc /\ n.op = admin[a].op /\ n.role = admin[a].role
      /\ n.users = admin[a].users /\ n.roles = admin[a].roles
  BY DEF PmShape, PmTypeOK, AdminRec
<1>2. admin' = [admin EXCEPT ![a] = n]
  BY DEF Goto, PmShape, PmTypeOK
<1> HIDE DEF n
<1>3. AdminBecomes(a, n)
  BY <1>1, <1>2 DEF AdminBecomes, AdminShape
<1>4. AdminBecomes(a, [admin[a] EXCEPT !.pc = pc])
  BY <1>3 DEF n
<1> QED
  BY <1>1, <1>3, <1>4, AdminTyped

(* A commit of rows: its user sets and roles are of the model's.             *)
LEMMA CommitShape ==
  ASSUME PmShape, NEW a \in Admin, TxCommit(a)
  PROVE  /\ admin' \in [Admin -> AdminRec] /\ \A b \in Admin : AdminShape(admin'[b])
         /\ grants' \in [Role -> SUBSET Code] /\ bindings' \in SUBSET (User \X Role)
         /\ \A b \in Admin : b # a => \E S \in SUBSET (Code \cup Role) :
              admin'[b] = [admin[b] EXCEPT !.seen = S]
         /\ \/ UNCHANGED <<grants, bindings>> /\ admin'[a] = IdleAdmin
            \/ /\ admin[a].op = "grant" /\ admin'[a].pc = "clearRole"
               /\ admin'[a].role = admin[a].role /\ UNCHANGED bindings
               /\ \A r \in Role : r # admin[a].role => grants'[r] = grants[r]
            \/ /\ admin[a].op = "setRoles" /\ admin'[a].pc = "evict"
               /\ admin'[a].users = admin[a].users /\ UNCHANGED grants
               /\ \A u \in User, r \in Role :
                    /\ <<u, r>> \in bindings' => <<u, r>> \in bindings \/ u \in admin[a].users
                    /\ u \notin admin[a].users => (<<u, r>> \in bindings' <=> <<u, r>> \in bindings)
                    /\ <<u, r>> \in bindings' => \/ r \in admin[a].roles
                                                 \/ \E v \in User : <<v, r>> \in bindings
<1> DEFINE o == admin[a]
           now == IF o.op = "grant" THEN grants[o.role]
                  ELSE {r \in Role : \E u \in o.users : <<u, r>> \in bindings}
           wanted == IF o.op = "grant" THEN o.codes ELSE o.roles
           kept == now \ o.seen
           next == IF o.op = "grant" THEN "clearRole" ELSE "evict"
           n == [o EXCEPT !.pc = next, !.seen = {}, !.codes = {}, !.roles = {}]
<1>0. /\ o \in AdminRec /\ admin \in [Admin -> AdminRec] /\ o.pc = "txCommit"
      /\ o.op \in {"grant", "setRoles"} /\ (o.op = "grant" => o.role \in Role)
      /\ grants \in [Role -> SUBSET Code] /\ bindings \in SUBSET (User \X Role)
      /\ \A b \in Admin : admin[b] \in AdminRec /\ AdminShape(admin[b])
  BY DEF PmShape, PmTypeOK, TxCommit, AdminShape
<1>1. CASE wanted \cap kept # {}
  <2>1. UNCHANGED <<grants, bindings>> /\ admin' = [admin EXCEPT ![a] = IdleAdmin]
    BY <1>1 DEF TxCommit, Stop
  <2>2. AdminBecomes(a, IdleAdmin)
    BY <2>1, AdminIdle DEF AdminBecomes
  <2>3. \A b \in Admin : admin[b] = [admin[b] EXCEPT !.seen = admin[b].seen]
    BY <1>0 DEF AdminRec
  <2>4. \A b \in Admin : admin[b].seen \in SUBSET (Code \cup Role)
    BY <1>0 DEF AdminRec
  <2>5. /\ admin' \in [Admin -> AdminRec] /\ admin'[a] = IdleAdmin
        /\ \A b \in Admin : AdminShape(admin'[b])
        /\ \A b \in Admin : b # a => admin'[b] = admin[b]
    BY <2>2, AdminTyped
  <2>6. \A b \in Admin : b # a => \E S \in SUBSET (Code \cup Role) :
              admin'[b] = [admin[b] EXCEPT !.seen = S]
    BY <2>3, <2>4, <2>5
  <2>7. grants' \in [Role -> SUBSET Code] /\ bindings' \in SUBSET (User \X Role)
    BY <1>0, <2>1
  <2> HIDE DEF o, now, wanted, kept, next, n
  <2> QED
    BY <2>1, <2>5, <2>6, <2>7
<1>2. CASE wanted \cap kept = {}
  <2>1. /\ n \in AdminRec /\ n.pc = next /\ n.role = o.role /\ n.users = o.users /\ n.op = o.op
    BY <1>0 DEF AdminRec, AdminPc
  <2>2. AdminShape(n)
    BY <1>0, <2>1 DEF AdminShape, OnRolePc
  <2> DEFINE S(b) == IF SameRows(a, b) THEN admin[b].seen \ o.seen ELSE admin[b].seen
  <2>3. \A b \in Admin : S(b) \in SUBSET (Code \cup Role)
    BY <1>0 DEF AdminRec
  <2>4. \A b \in Admin : admin[b] = [admin[b] EXCEPT !.seen = admin[b].seen]
    BY <1>0 DEF AdminRec
  <2>5. /\ admin' = [b \in Admin |-> IF b = a THEN n
                      ELSE IF SameRows(a, b) THEN [admin[b] EXCEPT !.seen = admin[b].seen \ o.seen]
                      ELSE admin[b]]
        /\ IF o.op = "grant"
             THEN /\ grants' = [grants EXCEPT ![o.role] = kept \cup wanted]
                  /\ UNCHANGED bindings
             ELSE /\ bindings' = {b \in bindings : b[1] \notin o.users}
                                   \cup (o.users \X (kept \cup wanted))
                  /\ UNCHANGED grants
    BY <1>2 DEF TxCommit
  <2> HIDE DEF n
  <2>6. \A b \in Admin : b # a => admin'[b] = [admin[b] EXCEPT !.seen = S(b)]
    BY <2>4, <2>5
  <2>7. \A b \in Admin : b # a => admin'[b] \in AdminRec /\ AdminShape(admin'[b])
    <3> HIDE DEF S
    <3> SUFFICES ASSUME NEW b \in Admin, b # a PROVE admin'[b] \in AdminRec /\ AdminShape(admin'[b])
      OBVIOUS
    <3>1. admin'[b] = [admin[b] EXCEPT !.seen = S(b)] /\ admin[b] \in AdminRec
      BY <1>0, <2>6
    <3>2. /\ admin'[b] \in AdminRec /\ admin'[b].pc = admin[b].pc /\ admin'[b].op = admin[b].op
          /\ admin'[b].role = admin[b].role
      BY <2>3, <3>1 DEF AdminRec
    <3> QED
      BY <1>0, <3>2 DEF AdminShape
  <2>8. admin'[a] = n /\ admin' = [b \in Admin |-> admin'[b]]
    BY <2>5
  <2>9. admin' \in [Admin -> AdminRec] /\ \A b \in Admin : AdminShape(admin'[b])
    BY <2>1, <2>2, <2>7, <2>8
  <2>10. \A b \in Admin : b # a => \E T \in SUBSET (Code \cup Role) :
              admin'[b] = [admin[b] EXCEPT !.seen = T]
    <3> HIDE DEF S
    <3> QED
      BY <2>3, <2>6
  <2>11. CASE o.op = "grant"
    <3>1. kept \in SUBSET Code /\ wanted \in SUBSET Code
      BY <1>0, <2>11 DEF AdminRec
    <3> HIDE DEF kept, wanted
    <3>2. grants' \in [Role -> SUBSET Code] /\ \A r \in Role : r # o.role => grants'[r] = grants[r]
      BY <1>0, <2>5, <2>11, <3>1
    <3> QED
      BY <1>0, <2>1, <2>5, <2>8, <2>9, <2>10, <2>11, <3>2
  <2>12. CASE o.op = "setRoles"
    <3>1. /\ kept \in SUBSET Role /\ wanted = o.roles /\ o.roles \in SUBSET Role
          /\ o.users \in SUBSET User
          /\ \A r \in kept : \E v \in User : <<v, r>> \in bindings
      BY <1>0, <2>12 DEF AdminRec
    <3> HIDE DEF kept, wanted
    <3>2. bindings' = {b \in bindings : b[1] \notin o.users} \cup (o.users \X (kept \cup wanted))
          /\ UNCHANGED grants
      BY <2>5, <2>12
    <3>3. bindings' \in SUBSET (User \X Role)
      BY <1>0, <3>1, <3>2
    <3>4. \A u \in User, r \in Role :
            <<u, r>> \in bindings' <=> \/ <<u, r>> \in bindings /\ u \notin o.users
                                       \/ u \in o.users /\ r \in kept \cup wanted
      BY <3>1, <3>2
    <3>5. \A u \in User, r \in Role :
            /\ <<u, r>> \in bindings' => <<u, r>> \in bindings \/ u \in o.users
            /\ u \notin o.users => (<<u, r>> \in bindings' <=> <<u, r>> \in bindings)
            /\ <<u, r>> \in bindings' => r \in o.roles \/ \E v \in User : <<v, r>> \in bindings
      BY <3>1, <3>4
    <3> QED
      BY <1>0, <2>1, <2>8, <2>9, <2>10, <2>12, <3>2, <3>3, <3>5
  <2> QED
    BY <1>0, <2>11, <2>12
<1> QED
  BY <1>1, <1>2

(* Types along the steps of an operation.                                    *)
LEMMA MovesKeepShape ==
  ASSUME PmShape, NEW a \in Admin, Moves(a)
  PROVE  PmShape'
<1> USE DEF tables, caches, history
<1>0. /\ admin[a] \in AdminRec /\ AdminShape(admin[a])
      /\ permCache \in [User -> UserRoleData \cup {None}]
      /\ roleCache \in [Role -> Status \cup {None}]
      /\ role \in [Role -> Status \cup {"none", "deleted"}] /\ grants \in [Role -> SUBSET Code]
      /\ bindings \in SUBSET (User \X Role)
      /\ overfilled \in SUBSET User /\ abandoned \in SUBSET User /\ overlapped \in BOOLEAN
  BY DEF PmShape, PmTypeOK
<1>a. NoteChange => overfilled' \in SUBSET User
  BY <1>0 DEF NoteChange
<1>b. ASSUME Stop(a) PROVE AdminBecomes(a, IdleAdmin)
  BY <1>b, AdminIdle DEF Stop, AdminBecomes
<1>1. CASE InsertRole(a)
  <2>1. role' \in [Role -> Status \cup {"none", "deleted"}]
    BY <1>0, <1>1 DEF InsertRole, Status
  <2> QED
    BY <1>0, <1>1, <1>a, <1>b, <2>1, AdminStays DEF InsertRole
<1>2. CASE FindRole(a)
  <2>1. UNCHANGED <<role, grants, bindings, permCache, roleCache, guard, overfilled, abandoned,
                    overlapped>>
    BY <1>2 DEF FindRole
  <2>2. CASE Stop(a)
    BY <1>0, <1>b, <2>1, <2>2, AdminStays
  <2>3. CASE \/ /\ admin[a].op \in {"status", "delete", "bind"}
                /\ \E pc \in {"save", "count", "bind"} : Goto(a, pc)
             \/ admin[a].op \in {"grant", "setRoles"} /\ Goto(a, "txDelete")
    <3>1. \E n : AdminBecomes(a, n)
      BY <1>0, <1>2, <2>3, GotoBecomes DEF FindRole, AdminShape, AdminPc, OnRolePc
    <3> QED
      BY <1>0, <2>1, <3>1, AdminStays
  <2> QED
    BY <1>0, <1>2, <2>2, <2>3 DEF FindRole, AdminShape
<1>3. CASE SaveStatus(a)
  <2> DEFINE n == [admin[a] EXCEPT !.pc = "clearRole", !.status = "active"]
  <2>1. n \in AdminRec /\ n.pc = "clearRole" /\ n.role = admin[a].role
    BY <1>0 DEF AdminRec, AdminPc, Status
  <2>2. admin' = [admin EXCEPT ![a] = n]
    BY <1>3, <1>0 DEF SaveStatus, AdminRec, PmShape, PmTypeOK
  <2> HIDE DEF n
  <2>3. AdminBecomes(a, n)
    BY <1>0, <1>3, <2>1, <2>2 DEF SaveStatus, AdminBecomes, AdminShape, OnRolePc
  <2>4. role' \in [Role -> Status \cup {"none", "deleted"}]
    BY <1>0, <1>3 DEF SaveStatus, AdminRec
  <2> QED
    BY <1>0, <1>3, <1>a, <2>3, <2>4, AdminStays DEF SaveStatus
<1>4. CASE CountBindings(a)
  <2>1. Goto(a, "delete") => \E n : AdminBecomes(a, n)
    BY <1>0, <1>4, GotoBecomes DEF CountBindings, AdminShape, AdminPc, OnRolePc
  <2> QED
    BY <1>0, <1>4, <1>b, <2>1, AdminStays DEF CountBindings
<1>5. CASE DeleteRows(a)
  <2>1. \E n : AdminBecomes(a, n)
    BY <1>0, <1>5, GotoBecomes DEF DeleteRows, AdminShape, AdminPc, OnRolePc
  <2>2. role' \in [Role -> Status \cup {"none", "deleted"}] /\ grants' \in [Role -> SUBSET Code]
    BY <1>0, <1>5 DEF DeleteRows
  <2> QED
    BY <1>0, <1>5, <1>a, <2>1, <2>2, AdminStays DEF DeleteRows
<1>6. CASE TxDelete(a)
  <2> DEFINE S == IF admin[a].op = "grant" THEN grants[admin[a].role]
                  ELSE {r \in Role : \E u \in admin[a].users : <<u, r>> \in bindings}
             n == [admin[a] EXCEPT !.pc = "txCommit", !.seen = S]
  <2>1. S \in SUBSET (Code \cup Role)
    BY <1>0, <1>6 DEF TxDelete, AdminShape
  <2>2. admin' = [admin EXCEPT ![a] = n]
    BY <1>6, <1>0 DEF TxDelete, AdminRec, PmShape, PmTypeOK
  <2> HIDE DEF S
  <2>3. n \in AdminRec /\ n.pc = "txCommit" /\ n.role = admin[a].role /\ n.op = admin[a].op
    BY <1>0, <2>1 DEF AdminRec, AdminPc
  <2> HIDE DEF n
  <2>4. AdminBecomes(a, n)
    BY <1>0, <1>6, <2>2, <2>3 DEF TxDelete, AdminBecomes, AdminShape, OnRolePc
  <2> QED
    BY <1>0, <1>6, <2>4, AdminStays DEF TxDelete
<1>7. CASE TxCommit(a)
  <2>1. /\ admin' \in [Admin -> AdminRec] /\ \A b \in Admin : AdminShape(admin'[b])
        /\ grants' \in [Role -> SUBSET Code] /\ bindings' \in SUBSET (User \X Role)
    BY <1>7, CommitShape
  <2> QED
    BY <1>7, <1>a, <2>1 DEF TxCommit, PmShape, PmTypeOK
<1>8. CASE Bind(a)
  <2>1. \E n : AdminBecomes(a, n)
    BY <1>8, GotoBecomes DEF Bind, AdminPc, OnRolePc
  <2>2. bindings' \in SUBSET (User \X Role)
    BY <1>0, <1>8 DEF Bind, AdminRec, AdminShape, OnRolePc
  <2> QED
    BY <1>0, <1>8, <1>a, <2>1, <2>2, AdminStays DEF Bind
<1>9. CASE Unbind(a)
  <2>1. \E n : AdminBecomes(a, n)
    BY <1>9, GotoBecomes DEF Unbind, AdminPc, OnRolePc
  <2>2. bindings' \in SUBSET (User \X Role)
    BY <1>0, <1>9 DEF Unbind
  <2> QED
    BY <1>0, <1>9, <1>a, <2>1, <2>2, AdminStays DEF Unbind
<1>10. CASE ClearRoleCache(a)
  <2>1. \E n : AdminBecomes(a, n)
    BY <1>0, <1>10, GotoBecomes DEF ClearRoleCache, AdminShape, AdminPc, OnRolePc
  <2> QED
    BY <1>0, <1>10, <2>1, AdminStays DEF ClearRoleCache
<1>11. CASE ReadBoundUsers(a)
  <2> DEFINE bound == {u \in User : <<u, admin[a].role>> \in bindings}
             n == [IdleAdmin EXCEPT !.pc = "evict", !.users = bound]
  <2>1. n \in AdminRec /\ n.pc = "evict"
    BY AdminIdle DEF AdminRec, AdminPc, IdleAdmin
  <2>2. AdminShape(n)
    BY <2>1 DEF AdminShape, OnRolePc
  <2>3. admin' = [admin EXCEPT ![a] = n] => AdminBecomes(a, n)
    BY <2>1, <2>2 DEF AdminBecomes
  <2> QED
    BY <1>0, <1>11, <1>b, <2>3, AdminStays DEF ReadBoundUsers
<1>12. CASE EvictUser(a)
  <2>1. PICK u \in admin[a].users :
          /\ permCache' = [permCache EXCEPT ![u] = None]
          /\ overfilled' = IF Filling(u) THEN overfilled ELSE overfilled \ {u}
          /\ admin' = [admin EXCEPT ![a] = IF admin[a].users \ {u} = {} THEN IdleAdmin
                                           ELSE [admin[a] EXCEPT !.users = admin[a].users \ {u}]]
    BY <1>12 DEF EvictUser
  <2> DEFINE m == [admin[a] EXCEPT !.users = admin[a].users \ {u}]
  <2>2. m \in AdminRec /\ m.pc = "evict"
    BY <1>0, <1>12 DEF AdminRec, EvictUser
  <2>3. AdminShape(m)
    BY <2>2 DEF AdminShape, OnRolePc
  <2>4. \E n : AdminBecomes(a, n)
    BY <2>1, <2>2, <2>3, AdminIdle DEF AdminBecomes
  <2>5. permCache' \in [User -> UserRoleData \cup {None}] /\ overfilled' \in SUBSET User
    BY <1>0, <2>1
  <2> QED
    BY <1>0, <1>12, <2>4, <2>5, AdminStays DEF EvictUser
<1>13. CASE AdminDies(a)
  BY <1>0, <1>13, <1>b, AdminStays DEF AdminDies
<1> QED
  BY <1>1, <1>2, <1>3, <1>4, <1>5, <1>6, <1>7, <1>8, <1>9, <1>10, <1>11, <1>12, <1>13 DEF Moves

(* Nobody is bound, or about to be bound, to a role not created yet.         *)
RolesKnown ==
  /\ \A u \in User, r \in Role : <<u, r>> \in bindings => role[r] # "none"
  /\ \A a \in Admin :
       /\ admin[a].pc = "bind" => role[admin[a].role] # "none"
       /\ admin[a].pc \in {"txDelete", "txCommit"} /\ admin[a].op = "setRoles" =>
            \A r \in admin[a].roles : role[r] # "none"

(* What a request has read of a user is still so, unless noted.              *)
GuardHolds(q) ==
  q.pc \in {"grants", "persist"} =>
    \/ q.user \in overfilled
    \/ /\ q.roles = ActiveRoles(q.user)
       /\ q.pc = "persist" => q.codes = Fresh(q.user).codes

PmInv ==
  /\ PmShape /\ RolesKnown
  /\ \A g \in Guard : GuardHolds(guard[g])
  /\ CachedPermissionsFresh

SomeoneOwes(u) == \E a \in Admin : Owes(a, u)

(* What the tables say of a user depends on the roles it is bound to.        *)
LEMMA FreshSame ==
  ASSUME NEW u \in User,
         \A r \in Role : /\ <<u, r>> \in bindings' /\ role'[r] = "active"
                              <=> <<u, r>> \in bindings /\ role[r] = "active"
                         /\ <<u, r>> \in bindings => grants'[r] = grants[r]
  PROVE  Fresh(u)' = Fresh(u) /\ ActiveRoles(u)' = ActiveRoles(u)
<1>1. ActiveRoles(u)' = ActiveRoles(u)
  BY DEF ActiveRoles
<1>2. \A r \in ActiveRoles(u) : grants'[r] = grants[r]
  BY DEF ActiveRoles
<1>3. {grants'[r] : r \in ActiveRoles(u)} = {grants[r] : r \in ActiveRoles(u)}
  BY <1>2
<1> QED
  BY <1>1, <1>3 DEF Fresh

LEMMA TablesSame ==
  ASSUME UNCHANGED tables, NEW u \in User
  PROVE  Fresh(u)' = Fresh(u) /\ ActiveRoles(u)' = ActiveRoles(u)
BY FreshSame DEF tables

(* A commit whose operation evicts every user whose data it changed.         *)
LEMMA CommitKeeps ==
  ASSUME PmInv, NoteChange, UNCHANGED <<permCache, guard, abandoned>>,
         \A u \in User : SomeoneOwes(u) => SomeoneOwes(u)',
         \A u \in User : Fresh(u)' # Fresh(u) => SomeoneOwes(u)'
  PROVE  (\A g \in Guard : GuardHolds(guard[g]))' /\ CachedPermissionsFresh'
<1>1. ASSUME NEW g \in Guard PROVE GuardHolds(guard[g])'
  <2> SUFFICES ASSUME NEW q, q = guard[g], NEW u, u = q.user, q.pc \in {"grants", "persist"},
                      u \notin overfilled'
               PROVE  q.roles = ActiveRoles(u)' /\ (q.pc = "persist" => q.codes = Fresh(u)'.codes)
    BY DEF GuardHolds
  <2>1. u \in User /\ Filling(u)
    BY DEF PmInv, PmShape, GuardShape, Filling
  <2>2. u \notin overfilled /\ Fresh(u)' = Fresh(u)
    BY <2>1 DEF NoteChange
  <2>3. ActiveRoles(u)' = ActiveRoles(u)
    BY <2>2 DEF Fresh
  <2> QED
    BY <2>2, <2>3 DEF PmInv, GuardHolds
<1>2. ASSUME NEW u \in User, permCache'[u] \notin {None, Fresh(u)'},
             u \notin overfilled' \cup abandoned'
      PROVE  SomeoneOwes(u)'
  <2>1. u \notin overfilled \cup abandoned
    BY <1>2 DEF NoteChange
  <2>2. CASE Fresh(u)' = Fresh(u)
    BY <1>2, <2>1, <2>2 DEF PmInv, CachedPermissionsFresh, SomeoneOwes
  <2> QED
    BY <2>2
<1> QED
  BY <1>1, <1>2 DEF CachedPermissionsFresh, SomeoneOwes

(* A step off the tables, which takes back no excuse that is needed.         *)
LEMMA OffTablesKeeps ==
  ASSUME PmInv, UNCHANGED <<tables, guard>>,
         \A u \in User : \/ permCache'[u] = None
                         \/ /\ permCache'[u] = permCache[u]
                            /\ SomeoneOwes(u) => SomeoneOwes(u)' \/ u \in abandoned'
                            /\ u \in abandoned => u \in abandoned',
         \A u \in User : \/ u \in overfilled => u \in overfilled'
                         \/ permCache'[u] = None /\ ~Filling(u)
  PROVE  (\A g \in Guard : GuardHolds(guard[g]))' /\ CachedPermissionsFresh'
<1>0. \A u \in User : Fresh(u)' = Fresh(u) /\ ActiveRoles(u)' = ActiveRoles(u)
  BY TablesSame
<1>1. ASSUME NEW g \in Guard PROVE GuardHolds(guard[g])'
  <2> SUFFICES ASSUME NEW q, q = guard[g], NEW u, u = q.user, q.pc \in {"grants", "persist"},
                      u \notin overfilled'
               PROVE  q.roles = ActiveRoles(u)' /\ (q.pc = "persist" => q.codes = Fresh(u)'.codes)
    BY DEF GuardHolds
  <2>1. u \in User /\ Filling(u)
    BY DEF PmInv, PmShape, GuardShape, Filling
  <2>2. u \notin overfilled
    BY <2>1
  <2> QED
    BY <1>0, <2>1, <2>2 DEF PmInv, GuardHolds
<1>2. ASSUME NEW u \in User, permCache'[u] \notin {None, Fresh(u)'},
             u \notin overfilled' \cup abandoned'
      PROVE  SomeoneOwes(u)'
  BY <1>0, <1>2 DEF PmInv, CachedPermissionsFresh, SomeoneOwes
<1> QED
  BY <1>1, <1>2 DEF CachedPermissionsFresh, SomeoneOwes

(* A request writes nothing but the cache, and what is fresh or noted.       *)
LEMMA GuardKeeps ==
  ASSUME PmInv, PmShape', UNCHANGED <<tables, admin, history>>, NEW g \in Guard, NEW n,
         guard' = [guard EXCEPT ![g] = n], GuardHolds(n),
         \A u \in User : permCache'[u] \in {permCache[u], Fresh(u)} \/ u \in overfilled
  PROVE  PmInv'
<1>0. \A u \in User : Fresh(u)' = Fresh(u) /\ ActiveRoles(u)' = ActiveRoles(u)
  BY TablesSame
<1>1. ASSUME NEW h \in Guard PROVE GuardHolds(guard[h])'
  <2> SUFFICES ASSUME NEW q, q = guard'[h], q.pc \in {"grants", "persist"}, NEW u, u = q.user
               PROVE  \/ u \in overfilled'
                      \/ /\ q.roles = ActiveRoles(u)'
                         /\ q.pc = "persist" => q.codes = Fresh(u)'.codes
    BY DEF GuardHolds
  <2>1. q \in GuardRec /\ GuardShape(q)
    BY DEF PmShape, PmTypeOK
  <2>2. u \in User
    BY <2>1 DEF GuardShape
  <2>3. q = n \/ q = guard[h]
    BY DEF PmInv, PmShape, PmTypeOK
  <2> QED
    BY <1>0, <2>2, <2>3 DEF GuardHolds, PmInv, history
<1>3. RolesKnown'
  BY DEF PmInv, RolesKnown, tables
<1>4. CachedPermissionsFresh'
  <2>1. \A a \in Admin, u \in User : Owes(a, u)' <=> Owes(a, u)
    BY DEF Owes, tables
  <2> QED
    BY <1>0, <2>1 DEF PmInv, CachedPermissionsFresh, history
<1> QED
  BY <1>1, <1>3, <1>4 DEF PmInv

(* The steps of a request.                                                   *)
LEMMA GuardsKeep ==
  ASSUME PmInv, NEW g \in Guard,
         \/ \E u \in User : GuardStart(g, u)
         \/ GuardGet(g) \/ GuardReadBindings(g) \/ GuardReadGrants(g)
         \/ GuardPersist(g) \/ GuardRoleGet(g) \/ GuardRoleFind(g)
         \/ GuardRoleSet(g) \/ GuardFail(g)
  PROVE  PmInv'
<1>0. /\ guard[g] \in GuardRec /\ GuardShape(guard[g]) /\ GuardHolds(guard[g]) /\ PmShape'
      /\ GuardHolds(IdleGuard)
  <2>1. PmShape' /\ guard[g] \in GuardRec /\ GuardShape(guard[g]) /\ GuardHolds(guard[g])
    BY GuardsKeepShape DEF PmInv, PmShape, PmTypeOK
  <2> QED
    BY <2>1, GuardIdle DEF GuardHolds
<1>a. ASSUME NEW n, guard' = [guard EXCEPT ![g] = n], GuardHolds(n),
             UNCHANGED <<tables, permCache, admin, history>>
      PROVE  PmInv'
  BY <1>0, <1>a, GuardKeeps
<1>1. ASSUME NEW u \in User, GuardStart(g, u) PROVE PmInv'
  <2>1. [IdleGuard EXCEPT !.pc = "get", !.user = u].pc = "get"
    BY DEF IdleGuard
  <2> QED
    BY <1>1, <1>a, <2>1 DEF GuardStart, GuardHolds, caches
<1>2. CASE GuardGet(g)
  <2> DEFINE n(hit) == IF hit = None THEN [guard[g] EXCEPT !.pc = "bindings"]
                       ELSE [guard[g] EXCEPT !.pc = "roleGet", !.roles = hit.roles]
  <2>1. \A hit : n(hit).pc \in {"bindings", "roleGet"}
    BY <1>0 DEF GuardRec
  <2>2. \A hit : GuardHolds(n(hit))
    BY <2>1 DEF GuardHolds
  <2>3. guard' = [guard EXCEPT ![g] = n(permCache[guard[g].user])]
    BY <1>2 DEF GuardGet
  <2> HIDE DEF n
  <2> QED
    BY <1>2, <1>a, <2>2, <2>3 DEF GuardGet, caches
<1>3. CASE GuardReadBindings(g)
  <2> SUFFICES ASSUME NEW u, u = guard[g].user, NEW R, R = ActiveRoles(u) PROVE PmInv'
    OBVIOUS
  <2> DEFINE n == [guard[g] EXCEPT !.roles = R, !.pc = IF R = {} THEN "persist" ELSE "grants"]
  <2>1. /\ n.user = u /\ n.roles = R /\ n.codes = guard[g].codes
        /\ n.pc = IF R = {} THEN "persist" ELSE "grants"
    BY <1>0 DEF GuardRec
  <2>2. guard' = [guard EXCEPT ![g] = n]
    BY <1>0, <1>3 DEF GuardReadBindings, GuardRec, PmInv, PmShape, PmTypeOK
  <2>3. guard[g].codes = {} /\ UNCHANGED <<tables, permCache, admin, history>>
    BY <1>0, <1>3 DEF GuardReadBindings, GuardShape, caches
  <2>4. R = {} => Fresh(u).codes = {}
    BY DEF Fresh
  <2> HIDE DEF n
  <2>5. GuardHolds(n)
    BY <2>1, <2>3, <2>4 DEF GuardHolds
  <2> QED
    BY <1>a, <2>2, <2>3, <2>5
<1>4. CASE GuardReadGrants(g)
  <2> SUFFICES ASSUME NEW u, u = guard[g].user,
                      NEW C, C = UNION {grants[r] : r \in guard[g].roles}
               PROVE  PmInv'
    OBVIOUS
  <2> DEFINE n == [guard[g] EXCEPT !.codes = C, !.pc = "persist"]
  <2>1. n.user = u /\ n.roles = guard[g].roles /\ n.codes = C
    BY <1>0 DEF GuardRec
  <2>2. guard' = [guard EXCEPT ![g] = n]
    BY <1>0, <1>4 DEF GuardReadGrants, GuardRec, PmInv, PmShape, PmTypeOK
  <2>3. guard[g].pc = "grants" /\ UNCHANGED <<tables, permCache, admin, history>>
    BY <1>4 DEF GuardReadGrants, caches
  <2>4. guard[g].roles = ActiveRoles(u) => C = Fresh(u).codes
    BY DEF Fresh
  <2> HIDE DEF n
  <2>5. GuardHolds(n)
    BY <1>0, <2>1, <2>3, <2>4 DEF GuardHolds
  <2> QED
    BY <1>a, <2>2, <2>3, <2>5
<1>5. CASE GuardPersist(g)
  <2> SUFFICES ASSUME NEW u, u = guard[g].user PROVE PmInv'
    OBVIOUS
  <2> DEFINE n == [guard[g] EXCEPT !.pc = "roleGet", !.codes = {}]
  <2>1. n.pc = "roleGet"
    BY <1>0 DEF GuardRec
  <2>2. guard' = [guard EXCEPT ![g] = n]
    BY <1>0, <1>5 DEF GuardPersist, GuardRec, PmInv, PmShape, PmTypeOK
  <2>3. /\ guard[g].pc = "persist" /\ UNCHANGED <<tables, admin, history>>
        /\ permCache' = [permCache EXCEPT
                            ![u] = [roles |-> guard[g].roles, codes |-> guard[g].codes]]
    BY <1>5 DEF GuardPersist
  <2>4. u \in overfilled \/ [roles |-> guard[g].roles, codes |-> guard[g].codes] = Fresh(u)
    BY <1>0, <2>3 DEF GuardHolds, Fresh
  <2>5. \A v \in User : permCache'[v] \in {permCache[v], Fresh(v)} \/ v \in overfilled
    BY <2>3, <2>4 DEF PmInv, PmShape, PmTypeOK
  <2> HIDE DEF n
  <2>6. GuardHolds(n)
    BY <2>1 DEF GuardHolds
  <2> QED
    BY <1>0, <2>2, <2>3, <2>5, <2>6, GuardKeeps
<1>6. CASE GuardRoleGet(g)
  <2>1. [guard[g] EXCEPT !.pc = "roleFind"].pc = "roleFind"
    BY <1>0 DEF GuardRec
  <2>2. GuardHolds([guard[g] EXCEPT !.pc = "roleFind"])
    BY <2>1 DEF GuardHolds
  <2>3. UNCHANGED <<tables, permCache, admin, history>>
    BY <1>6 DEF GuardRoleGet, caches
  <2> QED
    BY <1>0, <1>6, <1>a, <2>2, <2>3 DEF GuardRoleGet
<1>7. CASE GuardRoleFind(g)
  <2> DEFINE found == [r \in Role |->
               IF r \in guard[g].roles /\ Row(r) /\ roleCache[r] = None THEN role[r] ELSE None]
             n(f) == IF f = NothingFound THEN IdleGuard
                     ELSE [guard[g] EXCEPT !.pc = "roleSet", !.found = f]
  <2>1. \A f : [guard[g] EXCEPT !.pc = "roleSet", !.found = f].pc = "roleSet"
    BY <1>0 DEF GuardRec
  <2>2. \A f : GuardHolds(n(f))
    BY <1>0, <2>1 DEF GuardHolds
  <2>3. guard' = [guard EXCEPT ![g] = n(found)] /\ UNCHANGED <<tables, permCache, admin, history>>
    BY <1>7 DEF GuardRoleFind, caches
  <2> HIDE DEF n, found
  <2> QED
    BY <1>a, <2>2, <2>3
<1>8. CASE GuardRoleSet(g)
  <2> DEFINE n(f) == IF f = NothingFound THEN IdleGuard ELSE [guard[g] EXCEPT !.found = f]
  <2>1. guard[g].pc = "roleSet" /\ UNCHANGED <<tables, permCache, admin, history>>
    BY <1>8 DEF GuardRoleSet
  <2>2. \A f : [guard[g] EXCEPT !.found = f].pc = "roleSet"
    BY <1>0, <2>1 DEF GuardRec
  <2>3. \A f : GuardHolds(n(f))
    BY <1>0, <2>2 DEF GuardHolds
  <2>4. PICK f : guard' = [guard EXCEPT ![g] = n(f)]
    BY <1>8 DEF GuardRoleSet
  <2> HIDE DEF n
  <2> QED
    BY <1>a, <2>1, <2>3, <2>4
<1>9. CASE GuardFail(g)
  BY <1>0, <1>9, <1>a DEF GuardFail, caches
<1> QED
  BY <1>1, <1>2, <1>3, <1>4, <1>5, <1>6, <1>7, <1>8, <1>9

(* The other operations are where they were.                                 *)
OthersStay(a) ==
  \A b \in Admin : b # a =>
    /\ admin'[b].pc = admin[b].pc /\ admin'[b].op = admin[b].op
    /\ admin'[b].role = admin[b].role /\ admin'[b].users = admin[b].users
    /\ admin'[b].roles = admin[b].roles

(* An operation moves no other one, but for what that has seen.              *)
LEMMA MoveLeavesOthers ==
  ASSUME PmShape, NEW a \in Admin, Moves(a)
  PROVE  OthersStay(a)
<1>1. CASE TxCommit(a)
  <2> SUFFICES ASSUME NEW b \in Admin, b # a
               PROVE  /\ admin'[b].pc = admin[b].pc /\ admin'[b].op = admin[b].op
                      /\ admin'[b].role = admin[b].role /\ admin'[b].users = admin[b].users
                      /\ admin'[b].roles = admin[b].roles
    BY DEF OthersStay
  <2>1. PICK S : admin'[b] = [admin[b] EXCEPT !.seen = S]
    BY <1>1, CommitShape
  <2> QED
    BY <2>1 DEF PmShape, PmTypeOK, AdminRec
<1>2. CASE ~TxCommit(a)
  <2>1. \A b \in Admin : b # a => admin'[b] = admin[b]
    BY <1>2 DEF Moves, InsertRole, FindRole, SaveStatus, CountBindings, DeleteRows, TxDelete, Bind,
         Unbind, ClearRoleCache, ReadBoundUsers, EvictUser, AdminDies, Stop, Goto, PmShape, PmTypeOK
  <2> QED
    BY <2>1 DEF OthersStay
<1> QED
  BY <1>1, <1>2

(* An operation that owed nothing keeps what the others owe, the bindings of *)
(* the users it evicts apart.                                                *)
LEMMA OwedStays ==
  ASSUME PmShape, NEW a \in Admin, OthersStay(a), \A u \in User : ~Owes(a, u),
         \A u \in User, r \in Role :
           (<<u, r>> \in bindings => <<u, r>> \in bindings') \/ Owes(a, u)'
  PROVE  \A u \in User : SomeoneOwes(u) => SomeoneOwes(u)'
<1> SUFFICES ASSUME NEW u \in User, NEW b \in Admin, Owes(b, u), ~Owes(a, u)' PROVE Owes(b, u)'
  BY DEF SomeoneOwes
<1>1. b # a
  OBVIOUS
<1>2. admin[b].pc \in {"clearRole", "readUsers"} => admin[b].role \in Role
  BY DEF PmShape, AdminShape, OnRolePc
<1> QED
  BY <1>1, <1>2 DEF Owes, OthersStay

(* A beginning owes nothing and disturbs nothing.                            *)
LEMMA BeginKeeps ==
  ASSUME PmInv, NEW a \in Admin,
         \/ Begins(a)
         \/ \E u \in User, R \in SUBSET Role : SetUserRoles(a, u, R)
  PROVE  PmInv'
<1>1. PICK n : /\ AdminBecomes(a, n) /\ n.pc \in BeginsPc /\ ~Busy(a) /\ NoteOverlap(a)
               /\ UNCHANGED <<tables, caches, guard, overfilled, abandoned>>
  BY BeginMoves
<1>2. /\ admin'[a] = n /\ \A b \in Admin : b # a => admin'[b] = admin[b]
      /\ admin[a].pc = "idle"
  BY <1>1, AdminTyped DEF PmInv, Busy
<1>3. PmShape'
  <2>1. overlapped' \in BOOLEAN
    BY <1>1 DEF NoteOverlap
  <2> QED
    BY <1>1, <2>1, AdminStays DEF PmInv, PmShape, PmTypeOK, tables, caches
<1>4. RolesKnown'
  <2>1. \A b \in Admin : admin'[b] = admin[b] \/ admin'[b].pc \in BeginsPc
    BY <1>1, <1>2
  <2> QED
    BY <1>1, <2>1 DEF RolesKnown, PmInv, tables, BeginsPc
<1>5. \A u \in User : SomeoneOwes(u) => SomeoneOwes(u)'
  <2>1. OthersStay(a) /\ \A u \in User : ~Owes(a, u)
    BY <1>2 DEF OthersStay, Owes
  <2> QED
    BY <1>1, <2>1, OwedStays DEF PmInv, tables
<1> QED
  BY <1>1, <1>3, <1>4, <1>5, OffTablesKeeps DEF PmInv, caches

(* No role goes back to not being created yet.                               *)
LEMMA OthersRolesKnown ==
  ASSUME RolesKnown, NEW a \in Admin, OthersStay(a),
         \A b \in Admin : AdminShape(admin[b]),
         \A b \in Admin : admin[b].roles \subseteq Role,
         \A r \in Role : role[r] # "none" => role'[r] # "none",
         \A u \in User, r \in Role : <<u, r>> \in bindings' => role'[r] # "none",
         admin'[a].pc = "bind" => role'[admin'[a].role] # "none",
         admin'[a].pc \in {"txDelete", "txCommit"} /\ admin'[a].op = "setRoles" =>
           \A r \in admin'[a].roles : role'[r] # "none"
  PROVE  RolesKnown'
<1> SUFFICES ASSUME NEW b \in Admin
             PROVE  /\ admin'[b].pc = "bind" => role'[admin'[b].role] # "none"
                    /\ admin'[b].pc \in {"txDelete", "txCommit"} /\ admin'[b].op = "setRoles" =>
                         \A r \in admin'[b].roles : role'[r] # "none"
  BY DEF RolesKnown
<1>1. admin[b].pc = "bind" => admin[b].role \in Role
  BY DEF AdminShape, OnRolePc
<1> QED
  BY <1>1 DEF RolesKnown, OthersStay

(* An operation owes the eviction of every user whose data it changes.       *)
LEMMA MovesKeep ==
  ASSUME PmInv, NEW a \in Admin, Moves(a)
  PROVE  PmInv'
<1>0. /\ admin[a] \in AdminRec /\ AdminShape(admin[a]) /\ PmShape /\ PmShape' /\ OthersStay(a)
      /\ RolesKnown /\ role \in [Role -> Status \cup {"none", "deleted"}]
      /\ grants \in [Role -> SUBSET Code] /\ admin \in [Admin -> AdminRec]
      /\ permCache \in [User -> UserRoleData \cup {None}]
      /\ \A b \in Admin : AdminShape(admin[b]) /\ admin[b].roles \subseteq Role
  BY MovesKeepShape, MoveLeavesOthers DEF PmInv, PmShape, PmTypeOK, AdminRec
<1>a. ASSUME NoteChange, UNCHANGED <<permCache, guard, abandoned>>, RolesKnown',
             \A u \in User : ~Owes(a, u),
             \A u \in User, r \in Role :
               (<<u, r>> \in bindings => <<u, r>> \in bindings') \/ Owes(a, u)',
             \A u \in User : Fresh(u)' # Fresh(u) => Owes(a, u)'
      PROVE  PmInv'
  <2>1. \A u \in User : SomeoneOwes(u) => SomeoneOwes(u)'
    BY <1>0, <1>a, OwedStays
  <2>2. \A u \in User : Fresh(u)' # Fresh(u) => SomeoneOwes(u)'
    BY <1>a DEF SomeoneOwes
  <2> QED
    BY <1>0, <1>a, <2>1, <2>2, CommitKeeps DEF PmInv
<1>b. ASSUME UNCHANGED <<tables, guard, overfilled, abandoned, permCache>>,
             admin'[a].pc \notin {"bind", "txDelete", "txCommit"} \/ RolesKnown',
             \A u \in User : Owes(a, u) => Owes(a, u)'
      PROVE  PmInv'
  <2>1. RolesKnown'
    BY <1>0, <1>b, OthersRolesKnown DEF RolesKnown, tables
  <2>2. ASSUME NEW u \in User, SomeoneOwes(u) PROVE SomeoneOwes(u)'
    <3>1. PICK b \in Admin : Owes(b, u)
      BY <2>2 DEF SomeoneOwes
    <3>2. Owes(b, u)'
      BY <1>0, <1>b, <3>1 DEF Owes, OthersStay, tables
    <3> QED
      BY <3>2 DEF SomeoneOwes
  <2> QED
    BY <1>0, <1>b, <2>1, <2>2, OffTablesKeeps DEF PmInv
<1>c. ASSUME Stop(a) PROVE admin'[a].pc = "idle"
  BY <1>0, <1>c, AdminIdle DEF Stop
<1>d. ASSUME NEW pc \in AdminPc, Goto(a, pc)
      PROVE  /\ admin'[a].pc = pc /\ admin'[a].op = admin[a].op /\ admin'[a].role = admin[a].role
             /\ admin'[a].users = admin[a].users /\ admin'[a].roles = admin[a].roles
  BY <1>0, <1>d DEF Goto, AdminRec
<1>1. CASE InsertRole(a)
  <2>1. /\ admin[a].pc = "create" /\ admin[a].role \in Role /\ admin'[a].pc = "idle"
        /\ UNCHANGED <<grants, bindings>>
        /\ role' = IF role[admin[a].role] = "none"
                     THEN [role EXCEPT ![admin[a].role] = "active"] ELSE role
    BY <1>0, <1>1, <1>c DEF InsertRole, AdminShape, OnRolePc
  <2>2. \A r \in Role : role'[r] = role[r] \/ (role[r] = "none" /\ role'[r] = "active")
    BY <1>0, <2>1
  <2>3. RolesKnown'
    BY <1>0, <2>1, <2>2, OthersRolesKnown DEF RolesKnown
  <2>4. \A u \in User : Fresh(u)' = Fresh(u)
    BY <1>0, <2>1, <2>2, FreshSame DEF RolesKnown
  <2> QED
    BY <1>1, <1>a, <2>1, <2>3, <2>4 DEF InsertRole, Owes, caches
<1>2. CASE FindRole(a)
  <2>1. admin[a].pc = "find" /\ UNCHANGED <<tables, guard, overfilled, abandoned, permCache>>
    BY <1>2 DEF FindRole, caches, history
  <2>2. CASE Stop(a)
    BY <1>b, <1>c, <2>1, <2>2 DEF Owes
  <2>3. CASE \E pc \in {"save", "count"} : Goto(a, pc)
    BY <1>b, <1>d, <2>1, <2>3 DEF Owes, AdminPc
  <2>4. CASE admin[a].op = "bind" /\ Goto(a, "bind") /\ Row(admin[a].role)
    <3>1. role[admin[a].role] # "none" /\ admin'[a].pc = "bind" /\ admin'[a].role = admin[a].role
      BY <1>d, <2>4 DEF Row, Status, AdminPc
    <3>2. RolesKnown'
      BY <1>0, <2>1, <3>1, OthersRolesKnown DEF RolesKnown, tables
    <3> QED
      BY <1>b, <2>1, <3>2 DEF Owes
  <2>5. CASE /\ Goto(a, "txDelete")
             /\ admin[a].op = "setRoles" => \A r \in admin[a].roles : Row(r)
    <3>1. /\ admin'[a].pc = "txDelete" /\ admin'[a].op = admin[a].op
          /\ admin'[a].roles = admin[a].roles
      BY <1>d, <2>5 DEF AdminPc
    <3>2. admin[a].op = "setRoles" => \A r \in admin[a].roles : role[r] # "none"
      BY <2>5 DEF Row, Status
    <3>3. RolesKnown'
      BY <1>0, <2>1, <3>1, <3>2, OthersRolesKnown DEF RolesKnown, tables
    <3> QED
      BY <1>b, <2>1, <3>3 DEF Owes
  <2> QED
    BY <1>0, <1>2, <2>1, <2>2, <2>3, <2>4, <2>5 DEF FindRole, AdminShape
<1>3. CASE SaveStatus(a)
  <2> DEFINE n == [admin[a] EXCEPT !.pc = "clearRole", !.status = "active"]
  <2>1. n.pc = "clearRole" /\ n.role = admin[a].role
    BY <1>0 DEF AdminRec
  <2>2. admin' = [admin EXCEPT ![a] = n]
    BY <1>3, <1>0 DEF SaveStatus, AdminRec
  <2> HIDE DEF n
  <2>3. /\ admin'[a].pc = "clearRole" /\ admin'[a].role = admin[a].role
        /\ admin[a].pc = "save" /\ admin[a].role \in Role /\ admin[a].status \in Status
        /\ UNCHANGED <<grants, bindings>>
        /\ role' = [role EXCEPT ![admin[a].role] = admin[a].status]
    BY <1>0, <1>3, <2>1, <2>2 DEF SaveStatus, AdminRec, AdminShape, OnRolePc
  <2>4. \A r \in Role : role'[r] = role[r] \/ (r = admin[a].role /\ role'[r] # "none")
    BY <1>0, <2>3 DEF Status
  <2>5. RolesKnown'
    BY <1>0, <2>3, <2>4, OthersRolesKnown DEF RolesKnown
  <2>6. \A u \in User : Fresh(u)' # Fresh(u) => <<u, admin[a].role>> \in bindings
    BY <1>0, <2>3, <2>4, FreshSame
  <2>7. \A u \in User : <<u, admin[a].role>> \in bindings => Owes(a, u)'
    BY <2>3 DEF Owes
  <2> QED
    BY <1>3, <1>a, <2>3, <2>5, <2>6, <2>7 DEF SaveStatus, Owes, caches
<1>4. CASE CountBindings(a)
  <2>1. /\ admin[a].pc = "count" /\ UNCHANGED <<tables, guard, overfilled, abandoned, permCache>>
        /\ Stop(a) \/ Goto(a, "delete")
    BY <1>4 DEF CountBindings, caches, history
  <2>2. admin'[a].pc \in {"idle", "delete"}
    BY <1>c, <1>d, <2>1 DEF AdminPc
  <2> QED
    BY <1>b, <2>1, <2>2 DEF Owes
<1>5. CASE DeleteRows(a)
  <2>1. /\ admin[a].pc = "delete" /\ admin[a].role \in Role /\ UNCHANGED bindings
        /\ admin'[a].pc = "clearRole" /\ admin'[a].role = admin[a].role
        /\ grants' = [grants EXCEPT ![admin[a].role] = {}]
        /\ role' = [role EXCEPT ![admin[a].role] = "deleted"]
    BY <1>0, <1>5, <1>d DEF DeleteRows, AdminShape, OnRolePc, AdminPc
  <2>2. \A r \in Role : \/ role'[r] = role[r] /\ grants'[r] = grants[r]
                        \/ r = admin[a].role /\ role'[r] = "deleted"
    BY <1>0, <2>1
  <2>3. RolesKnown'
    BY <1>0, <2>1, <2>2, OthersRolesKnown DEF RolesKnown
  <2>4. \A u \in User : Fresh(u)' # Fresh(u) => <<u, admin[a].role>> \in bindings
    BY <1>0, <2>1, <2>2, FreshSame
  <2>5. \A u \in User : <<u, admin[a].role>> \in bindings => Owes(a, u)'
    BY <2>1 DEF Owes
  <2> QED
    BY <1>5, <1>a, <2>1, <2>3, <2>4, <2>5 DEF DeleteRows, Owes, caches
<1>6. CASE TxDelete(a)
  <2> DEFINE n(S) == [admin[a] EXCEPT !.pc = "txCommit", !.seen = S]
  <2>1. \A S : n(S).pc = "txCommit" /\ n(S).op = admin[a].op /\ n(S).roles = admin[a].roles
    BY <1>0 DEF AdminRec
  <2>2. PICK S : admin' = [admin EXCEPT ![a] = n(S)]
    BY <1>6, <1>0 DEF TxDelete, AdminRec
  <2> HIDE DEF n
  <2>3. /\ admin'[a].pc = "txCommit" /\ admin'[a].op = admin[a].op
        /\ admin'[a].roles = admin[a].roles
        /\ admin[a].pc = "txDelete" /\ UNCHANGED <<tables, guard, overfilled, abandoned, permCache>>
    BY <1>0, <1>6, <2>1, <2>2 DEF TxDelete, caches, history
  <2>4. RolesKnown'
    BY <1>0, <2>3, OthersRolesKnown DEF RolesKnown, tables
  <2> QED
    BY <1>b, <2>3, <2>4 DEF Owes
<1>7. CASE TxCommit(a)
  <2>1. /\ admin[a].pc = "txCommit" /\ NoteChange
        /\ UNCHANGED <<role, permCache, guard, abandoned>>
        /\ admin[a].op = "grant" => admin[a].role \in Role
    BY <1>0, <1>7 DEF TxCommit, caches, AdminShape
  <2>2. \A u \in User : ~Owes(a, u)
    BY <2>1 DEF Owes
  <2>3. CASE UNCHANGED <<grants, bindings>> /\ admin'[a] = IdleAdmin
    <3>1. admin'[a].pc = "idle"
      BY <2>3, AdminIdle
    <3>2. RolesKnown'
      BY <1>0, <2>1, <2>3, <3>1, OthersRolesKnown DEF RolesKnown
    <3>3. \A u \in User : Fresh(u)' = Fresh(u)
      BY <2>1, <2>3, TablesSame DEF tables
    <3> QED
      BY <1>a, <2>1, <2>2, <2>3, <3>2, <3>3
  <2>4. CASE /\ admin[a].op = "grant" /\ admin'[a].pc = "clearRole"
             /\ admin'[a].role = admin[a].role /\ UNCHANGED bindings
             /\ \A r \in Role : r # admin[a].role => grants'[r] = grants[r]
    <3>1. RolesKnown'
      BY <1>0, <2>1, <2>4, OthersRolesKnown DEF RolesKnown
    <3>2. \A u \in User : Fresh(u)' # Fresh(u) => <<u, admin[a].role>> \in bindings
      BY <2>1, <2>4, FreshSame
    <3>3. \A u \in User : <<u, admin[a].role>> \in bindings => Owes(a, u)'
      BY <2>4 DEF Owes
    <3> QED
      BY <1>a, <2>1, <2>2, <2>4, <3>1, <3>2, <3>3
  <2>5. CASE /\ admin[a].op = "setRoles" /\ admin'[a].pc = "evict"
             /\ admin'[a].users = admin[a].users /\ UNCHANGED grants
             /\ \A u \in User, r \in Role :
                  /\ <<u, r>> \in bindings' => <<u, r>> \in bindings \/ u \in admin[a].users
                  /\ u \notin admin[a].users => (<<u, r>> \in bindings' <=> <<u, r>> \in bindings)
                  /\ <<u, r>> \in bindings' => \/ r \in admin[a].roles
                                               \/ \E v \in User : <<v, r>> \in bindings
    <3>1. \A u \in User, r \in Role : <<u, r>> \in bindings' => role'[r] # "none"
      BY <1>0, <2>1, <2>5 DEF RolesKnown
    <3>2. RolesKnown'
      BY <1>0, <2>1, <2>5, <3>1, OthersRolesKnown
    <3>3. \A u \in User : u \in admin[a].users => Owes(a, u)'
      BY <2>5 DEF Owes
    <3>4. \A u \in User : Fresh(u)' # Fresh(u) => u \in admin[a].users
      BY <2>1, <2>5, FreshSame
    <3> QED
      BY <1>a, <2>1, <2>2, <2>5, <3>2, <3>3, <3>4
  <2> QED
    BY <1>0, <1>7, <2>3, <2>4, <2>5, CommitShape
<1>8. CASE Bind(a)
  <2>1. /\ admin[a].pc = "bind" /\ admin[a].role \in Role /\ UNCHANGED <<role, grants>>
        /\ admin'[a].pc = "evict" /\ admin'[a].users = admin[a].users
        /\ bindings' = bindings \cup (admin[a].users \X {admin[a].role})
    BY <1>0, <1>8, <1>d DEF Bind, AdminShape, OnRolePc, AdminPc
  <2>2. \A u \in User, r \in Role :
          /\ <<u, r>> \in bindings => <<u, r>> \in bindings'
          /\ <<u, r>> \in bindings' => \/ <<u, r>> \in bindings
                                       \/ r = admin[a].role /\ u \in admin[a].users
    BY <2>1
  <2>3. RolesKnown'
    BY <1>0, <2>1, <2>2, OthersRolesKnown DEF RolesKnown
  <2>4. \A u \in User : Fresh(u)' # Fresh(u) => u \in admin[a].users
    BY <2>1, <2>2, FreshSame
  <2>5. \A u \in User : u \in admin[a].users => Owes(a, u)'
    BY <2>1 DEF Owes
  <2> QED
    BY <1>8, <1>a, <2>1, <2>2, <2>3, <2>4, <2>5 DEF Bind, Owes, caches
<1>9. CASE Unbind(a)
  <2>1. /\ admin[a].pc = "unbind" /\ UNCHANGED <<role, grants>>
        /\ admin'[a].pc = "evict" /\ admin'[a].users = admin[a].users
        /\ bindings' = bindings \ (admin[a].users \X {admin[a].role})
    BY <1>0, <1>9, <1>d DEF Unbind, AdminPc
  <2>2. \A u \in User, r \in Role :
          /\ <<u, r>> \in bindings' => <<u, r>> \in bindings
          /\ <<u, r>> \in bindings /\ <<u, r>> \notin bindings' => u \in admin[a].users
    BY <2>1
  <2>3. RolesKnown'
    BY <1>0, <2>1, <2>2, OthersRolesKnown DEF RolesKnown
  <2>4. \A u \in User : Fresh(u)' # Fresh(u) => u \in admin[a].users
    BY <2>1, <2>2, FreshSame
  <2>5. \A u \in User : u \in admin[a].users => Owes(a, u)'
    BY <2>1 DEF Owes
  <2> QED
    BY <1>9, <1>a, <2>1, <2>2, <2>3, <2>4, <2>5 DEF Unbind, Owes, caches
<1>10. CASE ClearRoleCache(a)
  <2>1. /\ admin[a].pc = "clearRole" /\ admin'[a].pc = "readUsers" /\ admin'[a].role = admin[a].role
        /\ UNCHANGED <<tables, guard, overfilled, abandoned, permCache>>
    BY <1>10, <1>d DEF ClearRoleCache, AdminPc, history
  <2> QED
    BY <1>b, <2>1 DEF Owes, tables
<1>11. CASE ReadBoundUsers(a)
  <2> DEFINE bound == {u \in User : <<u, admin[a].role>> \in bindings}
             n == [IdleAdmin EXCEPT !.pc = "evict", !.users = bound]
  <2>1. n.pc = "evict" /\ n.users = bound
    BY DEF IdleAdmin
  <2>2. /\ admin[a].pc = "readUsers"
        /\ UNCHANGED <<tables, guard, overfilled, abandoned, permCache>>
        /\ IF bound = {} THEN Stop(a) ELSE admin' = [admin EXCEPT ![a] = n]
    BY <1>11 DEF ReadBoundUsers, caches, history
  <2>3. \A u \in User : Owes(a, u) => u \in bound
    BY <2>2 DEF Owes
  <2> HIDE DEF bound, n
  <2>4. CASE bound = {}
    BY <1>b, <1>c, <2>2, <2>3, <2>4
  <2>5. CASE bound # {}
    <3>1. admin'[a] = n
      BY <1>0, <2>2, <2>5
    <3> QED
      BY <1>b, <2>1, <2>2, <2>3, <3>1 DEF Owes
  <2> QED
    BY <2>4, <2>5
<1>12. CASE EvictUser(a)
  <2>1. PICK u \in admin[a].users :
          /\ permCache' = [permCache EXCEPT ![u] = None]
          /\ overfilled' = IF Filling(u) THEN overfilled ELSE overfilled \ {u}
          /\ admin' = [admin EXCEPT ![a] = IF admin[a].users \ {u} = {} THEN IdleAdmin
                                           ELSE [admin[a] EXCEPT !.users = admin[a].users \ {u}]]
    BY <1>12 DEF EvictUser
  <2>2. /\ admin[a].pc = "evict" /\ UNCHANGED <<tables, guard, abandoned>>
        /\ u \in User
    BY <1>0, <1>12 DEF EvictUser, AdminRec
  <2> DEFINE m == [admin[a] EXCEPT !.users = admin[a].users \ {u}]
  <2>3. m.pc = "evict" /\ m.users = admin[a].users \ {u}
    BY <1>0, <2>2 DEF AdminRec
  <2>4. admin'[a] = IF admin[a].users \ {u} = {} THEN IdleAdmin ELSE m
    BY <1>0, <2>1
  <2> HIDE DEF m
  <2>5. admin'[a].pc \in {"idle", "evict"}
    BY <2>3, <2>4, AdminIdle
  <2>6. \A v \in User : v # u /\ Owes(a, v) => Owes(a, v)'
    BY <2>2, <2>3, <2>4 DEF Owes
  <2>7. RolesKnown'
    BY <1>0, <2>2, <2>5, OthersRolesKnown DEF RolesKnown, tables
  <2>8. ASSUME NEW v \in User, v # u, SomeoneOwes(v) PROVE SomeoneOwes(v)'
    <3>1. PICK b \in Admin : Owes(b, v)
      BY <2>8 DEF SomeoneOwes
    <3>2. Owes(b, v)'
      BY <1>0, <2>2, <2>6, <2>8, <3>1 DEF Owes, OthersStay, tables
    <3> QED
      BY <3>2 DEF SomeoneOwes
  <2>9. \A v \in User : permCache'[v] = IF v = u THEN None ELSE permCache[v]
    BY <1>0, <2>1
  <2>10. \A v \in User : (v \in overfilled => v \in overfilled') \/ (v = u /\ ~Filling(v))
    BY <2>1
  <2> QED
    BY <1>0, <2>2, <2>7, <2>8, <2>9, <2>10, OffTablesKeeps DEF PmInv
<1>13. CASE AdminDies(a)
  <2>1. /\ UNCHANGED <<tables, permCache, guard, overfilled>> /\ admin'[a].pc = "idle"
        /\ abandoned' = abandoned \cup {u \in User : Owes(a, u)}
    BY <1>13, <1>c DEF AdminDies, caches
  <2>2. RolesKnown'
    BY <1>0, <2>1, OthersRolesKnown DEF RolesKnown, tables
  <2>3. ASSUME NEW u \in User, SomeoneOwes(u), u \notin abandoned' PROVE SomeoneOwes(u)'
    <3>1. PICK b \in Admin : Owes(b, u)
      BY <2>3 DEF SomeoneOwes
    <3>2. Owes(b, u)'
      BY <1>0, <2>1, <2>3, <3>1 DEF Owes, OthersStay, tables
    <3> QED
      BY <3>2 DEF SomeoneOwes
  <2> QED
    BY <1>0, <2>1, <2>2, <2>3, OffTablesKeeps DEF PmInv
<1> QED
  BY <1>1, <1>2, <1>3, <1>4, <1>5, <1>6, <1>7, <1>8, <1>9, <1>10, <1>11, <1>12, <1>13 DEF Moves

(* An entry that expires is no entry that is wrong.                          *)
LEMMA ExpiryKeeps ==
  ASSUME PmInv, NEW u \in User, PermExpire(u)
  PROVE  PmInv'
<1>1. PmShape'
  <2>1. permCache' \in [User -> UserRoleData \cup {None}] /\ abandoned' \in SUBSET User
    BY DEF PermExpire, PmInv, PmShape, PmTypeOK
  <2>2. overfilled' \in SUBSET User
    BY DEF PermExpire, PmInv, PmShape, PmTypeOK
  <2> QED
    BY <2>1, <2>2 DEF PermExpire, PmInv, PmShape, PmTypeOK, tables
<1>2. RolesKnown'
  BY DEF PermExpire, PmInv, RolesKnown, tables
<1>3. \A v \in User : SomeoneOwes(v) => SomeoneOwes(v)'
  BY DEF PermExpire, SomeoneOwes, Owes, tables
<1>4. \A v \in User : permCache'[v] = IF v = u THEN None ELSE permCache[v]
  BY DEF PermExpire, PmInv, PmShape, PmTypeOK
<1>5. \A v \in User : /\ (v \in overfilled => v \in overfilled') \/ (v = u /\ ~Filling(v))
                      /\ v \in abandoned => v \in abandoned' \/ v = u
  BY DEF PermExpire
<1> QED
  BY <1>1, <1>2, <1>3, <1>4, <1>5, OffTablesKeeps DEF PmInv, PermExpire

LEMMA InitPm == PmInit => PmInv
<1> SUFFICES ASSUME PmInit PROVE PmInv
  OBVIOUS
<1>1. PmShape
  <2>1. PmTypeOK
    BY AdminIdle, GuardIdle DEF PmInit, PmTypeOK, Status
  <2> QED
    BY <2>1, AdminIdle, GuardIdle DEF PmShape, PmInit
<1>2. RolesKnown
  BY AdminIdle DEF PmInit, RolesKnown
<1>3. \A g \in Guard : GuardHolds(guard[g])
  BY GuardIdle DEF PmInit, GuardHolds
<1>4. CachedPermissionsFresh
  BY DEF PmInit, CachedPermissionsFresh
<1> QED
  BY <1>1, <1>2, <1>3, <1>4 DEF PmInv

LEMMA StutterKeepsPm == ASSUME PmInv, UNCHANGED pmVars PROVE PmInv'
<1>1. PmShape' /\ RolesKnown'
  BY DEF pmVars, PmInv, PmShape, PmTypeOK, RolesKnown
<1>2. \A u \in User : SomeoneOwes(u) => SomeoneOwes(u)'
  BY DEF pmVars, SomeoneOwes, Owes
<1> QED
  BY <1>1, <1>2, OffTablesKeeps DEF pmVars, PmInv, tables

(* The steps by what they are about.                                         *)
LEMMA PmSteps ==
  ASSUME PmNext
  PROVE  \/ \E g \in Guard : \/ \E u \in User : GuardStart(g, u)
                             \/ GuardGet(g) \/ GuardReadBindings(g) \/ GuardReadGrants(g)
                             \/ GuardPersist(g) \/ GuardRoleGet(g) \/ GuardRoleFind(g)
                             \/ GuardRoleSet(g) \/ GuardFail(g)
         \/ \E u \in User : PermExpire(u)
         \/ \E a \in Admin : \/ Begins(a)
                             \/ \E u \in User, R \in SUBSET Role : SetUserRoles(a, u, R)
                             \/ Moves(a)
<1>1. \A a \in Admin, r \in Role :
        \/ CreateRole(a, r) \/ DeleteRole(a, r)
        \/ \E s \in Status : UpdateStatus(a, r, s)
        \/ \E C \in SUBSET Code : SetRolePermissions(a, r, C)
        \/ \E U \in SUBSET User \ {{}} :
             BindUsersToRole(a, r, U) \/ UnbindUsersFromRole(a, r, U)
        => Begins(a)
  BY DEF Begins
<1>2. \A a \in Admin :
        InsertRole(a) \/ FindRole(a) \/ SaveStatus(a) \/ CountBindings(a)
        \/ DeleteRows(a) \/ TxDelete(a) \/ TxCommit(a) \/ Bind(a) \/ Unbind(a)
        \/ ClearRoleCache(a) \/ ReadBoundUsers(a) \/ EvictUser(a) \/ AdminDies(a)
        => Moves(a)
  BY DEF Moves
<1> QED
  BY <1>1, <1>2 DEF PmNext

(* The invariant is inductive.                                               *)
LEMMA PmInductive == PmInv /\ [PmNext]_pmVars => PmInv'
BY PmSteps, GuardsKeep, ExpiryKeeps, BeginKeeps, MovesKeep, StutterKeepsPm

-----------------------------------------------------------------------------
(* Operations on roles that do not overlap.                                  *)
RowsBound == \A u \in User, r \in Role : <<u, r>> \in bindings => Row(r)
AloneHolds(o) ==
  /\ o.pc \in {"save", "count", "delete", "bind"} => Row(o.role)
  /\ o.pc = "delete" => \A u \in User : <<u, o.role>> \notin bindings
  /\ o.pc \in {"txDelete", "txCommit"} /\ o.op = "setRoles" => \A r \in o.roles : Row(r)
PmAlone ==
  ~overlapped =>
    /\ \A a, b \in Admin : Busy(a) /\ Busy(b) => a = b
    /\ RowsBound
    /\ \A a \in Admin : AloneHolds(admin[a])

(* An operation at rest holds nothing.                                       *)
LEMMA IdleAlone ==
  ASSUME NEW o, o.pc = "idle"
  PROVE  AloneHolds(o) /\ AloneHolds(o)'
BY DEF AloneHolds

(* When the others are at rest, only the one operation counts.               *)
LEMMA AloneStep ==
  ASSUME PmAlone, PmShape, NEW a \in Admin, OthersStay(a), Busy(a), UNCHANGED overlapped,
         ~overlapped => RowsBound' /\ AloneHolds(admin[a])'
  PROVE  PmAlone'
<1> SUFFICES ASSUME ~overlapped
             PROVE  /\ \A b, c \in Admin : Busy(b)' /\ Busy(c)' => b = c
                    /\ \A b \in Admin : AloneHolds(admin[b])'
  BY DEF PmAlone
<1>1. \A b \in Admin : b # a => admin[b].pc = "idle" /\ admin'[b].pc = "idle"
  BY DEF PmAlone, Busy, OthersStay
<1>2. \A b \in Admin : b # a => AloneHolds(admin[b])'
  BY <1>1 DEF AloneHolds
<1> QED
  BY <1>1, <1>2 DEF Busy

(* Steps that no operation takes.                                            *)
LEMMA RestAlone ==
  ASSUME PmAlone, UNCHANGED <<role, bindings, admin, overlapped>>
  PROVE  PmAlone'
<1>1. \A b \in Admin : AloneHolds(admin[b]) => AloneHolds(admin[b])'
  BY DEF AloneHolds, Row
<1> QED
  BY <1>1 DEF PmAlone, RowsBound, Row, Busy

(* Two operations in progress are noted as they begin.                       *)
LEMMA BeginAlone ==
  ASSUME PmAlone, PmShape, NEW a \in Admin,
         \/ Begins(a)
         \/ \E u \in User, R \in SUBSET Role : SetUserRoles(a, u, R)
  PROVE  PmAlone'
<1>1. PICK n : /\ AdminBecomes(a, n) /\ n.pc \in BeginsPc /\ ~Busy(a) /\ NoteOverlap(a)
               /\ UNCHANGED <<tables, caches, guard, overfilled, abandoned>>
  BY BeginMoves
<1>2. admin'[a] = n /\ \A b \in Admin : b # a => admin'[b] = admin[b]
  BY <1>1, AdminTyped
<1> SUFFICES ASSUME ~overlapped'
             PROVE  /\ \A b, c \in Admin : Busy(b)' /\ Busy(c)' => b = c
                    /\ RowsBound'
                    /\ \A b \in Admin : AloneHolds(admin[b])'
  BY DEF PmAlone
<1>3. ~overlapped /\ \A b \in Admin \ {a} : ~Busy(b)
  BY <1>1 DEF NoteOverlap
<1>4. \A b \in Admin \ {a} : ~Busy(b)'
  BY <1>2, <1>3 DEF Busy
<1>5. RowsBound'
  BY <1>1, <1>3 DEF PmAlone, RowsBound, Row, tables
<1>6. ASSUME NEW b \in Admin PROVE AloneHolds(admin[b])'
  BY <1>1, <1>2, <1>4 DEF AloneHolds, BeginsPc, Busy
<1> QED
  BY <1>4, <1>5, <1>6

(* The operation that runs alone finds the role it binds, and none bound to  *)
(* the role it deletes.                                                      *)
LEMMA MovesAlone ==
  ASSUME PmAlone, PmShape, NEW a \in Admin, Moves(a)
  PROVE  /\ PmAlone'
         /\ ~overlapped => \A r \in Role : role[r] = "deleted" => role'[r] = "deleted"
<1>0. /\ admin[a] \in AdminRec /\ AdminShape(admin[a]) /\ OthersStay(a) /\ Busy(a)
      /\ role \in [Role -> Status \cup {"none", "deleted"}] /\ admin \in [Admin -> AdminRec]
      /\ UNCHANGED overlapped
      /\ ~overlapped => RowsBound /\ AloneHolds(admin[a])
  <2>1. Busy(a) /\ UNCHANGED overlapped
    BY DEF Busy, Moves, InsertRole, FindRole, SaveStatus, CountBindings, DeleteRows, TxDelete,
           TxCommit, Bind, Unbind, ClearRoleCache, ReadBoundUsers, EvictUser, AdminDies, history
  <2> QED
    BY <2>1, MoveLeavesOthers DEF PmShape, PmTypeOK, PmAlone
<1> SUFFICES ASSUME ~overlapped
             PROVE  /\ RowsBound' /\ AloneHolds(admin[a])'
                    /\ \A r \in Role : role[r] = "deleted" => role'[r] = "deleted"
  BY <1>0, AloneStep
<1>a. UNCHANGED <<role, bindings>> =>
        RowsBound' /\ \A r \in Role : role[r] = "deleted" => role'[r] = "deleted"
  BY <1>0 DEF RowsBound, Row
<1>c. ASSUME Stop(a) PROVE admin'[a].pc = "idle"
  BY <1>0, <1>c, AdminIdle DEF Stop
<1>d. ASSUME NEW pc \in AdminPc, Goto(a, pc)
      PROVE  /\ admin'[a].pc = pc /\ admin'[a].op = admin[a].op /\ admin'[a].role = admin[a].role
             /\ admin'[a].users = admin[a].users /\ admin'[a].roles = admin[a].roles
  BY <1>0, <1>d DEF Goto, AdminRec
<1>e. admin'[a].pc \in {"idle", "clearRole", "evict", "readUsers"} => AloneHolds(admin[a])'
  BY DEF AloneHolds
<1>1. CASE InsertRole(a)
  <2>1. /\ admin'[a].pc = "idle" /\ UNCHANGED bindings
        /\ \A r \in Role : role'[r] = role[r] \/ (role[r] = "none" /\ role'[r] = "active")
    BY <1>0, <1>1, <1>c DEF InsertRole, AdminShape, OnRolePc
  <2> QED
    BY <1>0, <1>e, <2>1 DEF RowsBound, Row, Status
<1>2. CASE FindRole(a)
  <2>1. admin[a].pc = "find" /\ UNCHANGED <<role, bindings>>
    BY <1>2 DEF FindRole, tables
  <2>2. CASE Stop(a)
    BY <1>a, <1>c, <1>e, <2>1, <2>2
  <2>3. CASE \E pc \in {"save", "count", "bind"} : Goto(a, pc) /\ Row(admin[a].role)
    <3>1. admin'[a].pc \in {"save", "count", "bind"} /\ admin'[a].role = admin[a].role
      BY <1>d, <2>3 DEF AdminPc
    <3>2. AloneHolds(admin[a])'
      BY <2>1, <2>3, <3>1 DEF AloneHolds, Row
    <3> QED
      BY <1>a, <2>1, <3>2
  <2>4. CASE /\ Goto(a, "txDelete")
             /\ admin[a].op = "setRoles" => \A r \in admin[a].roles : Row(r)
    <3>1. /\ admin'[a].pc = "txDelete" /\ admin'[a].op = admin[a].op
          /\ admin'[a].roles = admin[a].roles
      BY <1>d, <2>4 DEF AdminPc
    <3>2. AloneHolds(admin[a])'
      BY <2>1, <2>4, <3>1 DEF AloneHolds, Row
    <3> QED
      BY <1>a, <2>1, <3>2
  <2> QED
    BY <1>0, <1>2, <2>1, <2>2, <2>3, <2>4 DEF FindRole, AdminShape
<1>3. CASE SaveStatus(a)
  <2> DEFINE n == [admin[a] EXCEPT !.pc = "clearRole", !.status = "active"]
  <2>1. n.pc = "clearRole"
    BY <1>0 DEF AdminRec
  <2>2. admin' = [admin EXCEPT ![a] = n]
    BY <1>3, <1>0 DEF SaveStatus, AdminRec
  <2> HIDE DEF n
  <2>3. /\ admin'[a].pc = "clearRole" /\ admin[a].pc = "save" /\ admin[a].status \in Status
        /\ UNCHANGED bindings /\ role' = [role EXCEPT ![admin[a].role] = admin[a].status]
    BY <1>0, <1>3, <2>1, <2>2 DEF SaveStatus, AdminRec
  <2>4. \A r \in Role : \/ role'[r] = role[r]
                        \/ r = admin[a].role /\ role'[r] \in Status /\ Row(r)
    BY <1>0, <2>3 DEF AloneHolds
  <2> QED
    BY <1>0, <1>e, <2>3, <2>4 DEF RowsBound, Row, Status
<1>4. CASE CountBindings(a)
  <2>1. /\ admin[a].pc = "count" /\ UNCHANGED <<role, bindings>>
        /\ \/ Stop(a)
           \/ Goto(a, "delete") /\ \A u \in User : <<u, admin[a].role>> \notin bindings
    BY <1>4 DEF CountBindings, tables
  <2>2. CASE Stop(a)
    BY <1>a, <1>c, <1>e, <2>1, <2>2
  <2>3. CASE Goto(a, "delete") /\ \A u \in User : <<u, admin[a].role>> \notin bindings
    <3>1. admin'[a].pc = "delete" /\ admin'[a].role = admin[a].role
      BY <1>d, <2>3 DEF AdminPc
    <3>2. AloneHolds(admin[a])'
      BY <1>0, <2>1, <2>3, <3>1 DEF AloneHolds, Row
    <3> QED
      BY <1>a, <2>1, <3>2
  <2> QED
    BY <2>1, <2>2, <2>3
<1>5. CASE DeleteRows(a)
  <2>1. /\ admin[a].pc = "delete" /\ UNCHANGED bindings /\ admin'[a].pc = "clearRole"
        /\ role' = [role EXCEPT ![admin[a].role] = "deleted"]
    BY <1>5, <1>d DEF DeleteRows, AdminPc
  <2>2. \A r \in Role : role'[r] = IF r = admin[a].role THEN "deleted" ELSE role[r]
    BY <1>0, <2>1
  <2> QED
    BY <1>0, <1>e, <2>1, <2>2 DEF RowsBound, Row, AloneHolds
<1>6. CASE TxDelete(a)
  <2> DEFINE n(S) == [admin[a] EXCEPT !.pc = "txCommit", !.seen = S]
  <2>1. \A S : n(S).pc = "txCommit" /\ n(S).op = admin[a].op /\ n(S).roles = admin[a].roles
    BY <1>0 DEF AdminRec
  <2>2. PICK S : admin' = [admin EXCEPT ![a] = n(S)]
    BY <1>6, <1>0 DEF TxDelete, AdminRec
  <2> HIDE DEF n
  <2>3. /\ admin'[a].pc = "txCommit" /\ admin'[a].op = admin[a].op
        /\ admin'[a].roles = admin[a].roles
        /\ admin[a].pc = "txDelete" /\ UNCHANGED <<role, bindings>>
    BY <1>0, <1>6, <2>1, <2>2 DEF TxDelete, tables
  <2>4. AloneHolds(admin[a])'
    BY <1>0, <2>3 DEF AloneHolds, Row
  <2> QED
    BY <1>a, <2>3, <2>4
<1>7. CASE TxCommit(a)
  <2>1. admin[a].pc = "txCommit" /\ UNCHANGED role
    BY <1>7 DEF TxCommit
  <2>2. CASE UNCHANGED <<grants, bindings>> /\ admin'[a] = IdleAdmin
    BY <1>a, <1>e, <2>1, <2>2, AdminIdle
  <2>3. CASE admin'[a].pc = "clearRole" /\ UNCHANGED bindings
    BY <1>a, <1>e, <2>1, <2>3
  <2>4. CASE /\ admin[a].op = "setRoles" /\ admin'[a].pc = "evict"
             /\ \A u \in User, r \in Role :
                  <<u, r>> \in bindings' => \/ r \in admin[a].roles
                                            \/ \E v \in User : <<v, r>> \in bindings
    <3>1. RowsBound'
      BY <1>0, <2>1, <2>4 DEF RowsBound, AloneHolds, Row
    <3> QED
      BY <1>e, <2>1, <2>4, <3>1
  <2> QED
    BY <1>0, <1>7, <2>2, <2>3, <2>4, CommitShape
<1>8. CASE Bind(a)
  <2>1. /\ admin[a].pc = "bind" /\ admin[a].role \in Role /\ UNCHANGED role
        /\ admin'[a].pc = "evict"
        /\ bindings' = bindings \cup (admin[a].users \X {admin[a].role})
    BY <1>0, <1>8, <1>d DEF Bind, AdminShape, OnRolePc, AdminPc
  <2>2. \A u \in User, r \in Role :
          <<u, r>> \in bindings' => <<u, r>> \in bindings \/ r = admin[a].role
    BY <2>1
  <2>3. RowsBound'
    BY <1>0, <2>1, <2>2 DEF RowsBound, AloneHolds, Row
  <2> QED
    BY <1>e, <2>1, <2>3
<1>9. CASE Unbind(a)
  <2>1. /\ UNCHANGED role /\ admin'[a].pc = "evict" /\ bindings' \subseteq bindings
    BY <1>9, <1>d DEF Unbind, AdminPc
  <2>2. RowsBound'
    BY <1>0, <2>1 DEF RowsBound, Row
  <2> QED
    BY <1>e, <2>1, <2>2
<1>10. CASE ClearRoleCache(a)
  <2>1. admin'[a].pc = "readUsers" /\ UNCHANGED <<role, bindings>>
    BY <1>10, <1>d DEF ClearRoleCache, AdminPc, tables
  <2> QED
    BY <1>a, <1>e, <2>1
<1>11. CASE ReadBoundUsers(a)
  <2>1. \A U : [IdleAdmin EXCEPT !.pc = "evict", !.users = U].pc = "evict"
    BY DEF IdleAdmin
  <2>2. \E U : admin'[a] \in {IdleAdmin, [IdleAdmin EXCEPT !.pc = "evict", !.users = U]}
    BY <1>0, <1>11 DEF ReadBoundUsers, Stop
  <2>3. UNCHANGED <<role, bindings>>
    BY <1>11 DEF ReadBoundUsers, tables
  <2>4. admin'[a].pc \in {"idle", "evict"}
    BY <2>1, <2>2, AdminIdle
  <2> QED
    BY <1>a, <1>e, <2>3, <2>4
<1>12. CASE EvictUser(a)
  <2>1. \A U : [admin[a] EXCEPT !.users = U].pc = admin[a].pc
    BY <1>0 DEF AdminRec
  <2>2. \E U : admin'[a] \in {IdleAdmin, [admin[a] EXCEPT !.users = U]}
    BY <1>0, <1>12 DEF EvictUser
  <2>3. admin[a].pc = "evict" /\ UNCHANGED <<role, bindings>>
    BY <1>12 DEF EvictUser, tables
  <2>4. admin'[a].pc \in {"idle", "evict"}
    BY <2>1, <2>2, <2>3, AdminIdle
  <2> QED
    BY <1>a, <1>e, <2>3, <2>4
<1>13. CASE AdminDies(a)
  BY <1>13, <1>a, <1>c, <1>e DEF AdminDies, tables
<1> QED
  BY <1>1, <1>2, <1>3, <1>4, <1>5, <1>6, <1>7, <1>8, <1>9, <1>10, <1>11, <1>12, <1>13 DEF Moves

(* Alone, no deleted role comes back.                                        *)
LEMMA PmStepAlone ==
  ASSUME PmAlone, PmShape, [PmNext]_pmVars
  PROVE  /\ PmAlone'
         /\ ~overlapped => \A r \in Role : role[r] = "deleted" => role'[r] = "deleted"
<1>1. ASSUME NEW a \in Admin,
             \/ Begins(a)
             \/ \E u \in User, R \in SUBSET Role : SetUserRoles(a, u, R)
      PROVE  PmAlone' /\ UNCHANGED role
  BY <1>1, BeginAlone, BeginMoves DEF tables
<1>2. ASSUME NEW g \in Guard,
             \/ \E u \in User : GuardStart(g, u)
             \/ GuardGet(g) \/ GuardReadBindings(g) \/ GuardReadGrants(g)
             \/ GuardPersist(g) \/ GuardRoleGet(g) \/ GuardRoleFind(g)
             \/ GuardRoleSet(g) \/ GuardFail(g)
      PROVE  UNCHANGED <<role, bindings, admin, overlapped>>
  BY <1>2 DEF GuardStart, GuardGet, GuardReadBindings, GuardReadGrants, GuardPersist, GuardRoleGet,
          GuardRoleFind, GuardRoleSet, GuardFail, tables, history
<1>3. \/ UNCHANGED <<role, bindings, admin, overlapped>>
      \/ \E a \in Admin : \/ Begins(a)
                          \/ \E u \in User, R \in SUBSET Role : SetUserRoles(a, u, R)
                          \/ Moves(a)
  BY <1>2, PmSteps DEF PermExpire, pmVars, tables
<1> QED
  BY <1>1, <1>3, MovesAlone, RestAlone

LEMMA InitAlone == PmInit => PmAlone
<1> SUFFICES ASSUME PmInit PROVE PmAlone
  OBVIOUS
<1>1. \A a \in Admin : admin[a].pc = "idle"
  BY AdminIdle DEF PmInit
<1> QED
  BY <1>1 DEF PmInit, PmAlone, RowsBound, AloneHolds, Busy

-----------------------------------------------------------------------------
(* Theorems about roles. *)
DeletedStays == \A r \in Role : ~overlapped /\ role[r] = "deleted" => role'[r] = "deleted"

(* What is cached of a user's permissions is what the tables say, but for    *)
(* the exceptions named; the invariant adds what a request in progress has   *)
(* read, and that no role not created yet is bound.                          *)
THEOREM PermissionsAreFresh == PmSpec => [](PmTypeOK /\ CachedPermissionsFresh)
<1>1. PmInv => PmTypeOK /\ CachedPermissionsFresh
  BY DEF PmInv, PmShape
<1> QED
  BY <1>1, InitPm, PmInductive, PTL DEF PmSpec

(* Operations on roles that do not overlap leave no binding to a deleted     *)
(* role and bring no deleted role back.                                      *)
THEOREM RolesAlone == PmSpec => []DeletedRoleUnboundAlone /\ DeletedStaysDeletedAlone
<1>1. PmInit => PmInv /\ PmAlone
  BY InitPm, InitAlone
<1>2. PmInv /\ PmAlone /\ [PmNext]_pmVars => PmInv' /\ PmAlone' /\ DeletedStays
  BY PmInductive, PmStepAlone DEF PmInv, DeletedStays
<1>3. PmAlone => DeletedRoleUnboundAlone
  BY DEF PmAlone, RowsBound, DeletedRoleUnboundAlone
<1>4. DeletedStaysDeletedAlone <=> [][DeletedStays]_pmVars
  BY PTL DEF DeletedStaysDeletedAlone, DeletedStays
<1> QED
  BY <1>1, <1>2, <1>3, <1>4, PTL DEF PmSpec

-----------------------------------------------------------------------------
(* The accounts that AccountsProofs is about are those MCBackOffice checks,  *)
(* as each of its three subjects.                                            *)
LEMMA SameShared ==
  /\ Shared!acVars = SharedP!acVars
  /\ Shared!AcInit <=> SharedP!AcInit
  /\ Shared!AcNext <=> SharedP!AcNext
  /\ Shared!AcTypeOK <=> SharedP!AcTypeOK
  /\ Shared!OpAccountCacheFresh <=> SharedP!OpAccountCacheFresh
  /\ Shared!NameEntryFresh <=> SharedP!NameEntryFresh
  /\ Shared!UsernameUniqueAlone <=> SharedP!UsernameUniqueAlone
BY DEF Shared!Outrun, SharedP!Outrun, Shared!Fresh, SharedP!Fresh,
       Shared!acVars, SharedP!acVars, Shared!Acct, SharedP!Acct, Shared!Status, SharedP!Status,
       Shared!AccountRow, SharedP!AccountRow, Shared!IdentityRow, SharedP!IdentityRow,
       Shared!Loaded, SharedP!Loaded, Shared!Distinct, SharedP!Distinct, Shared!TaskPc,
       SharedP!TaskPc, Shared!TaskRec, SharedP!TaskRec, Shared!RequestRec, SharedP!RequestRec,
       Shared!AcTypeOK, SharedP!AcTypeOK, Shared!IdleTask, SharedP!IdleTask, Shared!IdleRequest,
       SharedP!IdleRequest, Shared!AcInit, SharedP!AcInit, Shared!Kind, SharedP!Kind,
       Shared!Exists, SharedP!Exists, Shared!Identified, SharedP!Identified, Shared!Frozen,
       SharedP!Frozen, Shared!Load, SharedP!Load, Shared!Filling, SharedP!Filling,
       Shared!NoteChange, SharedP!NoteChange, Shared!rows, SharedP!rows, Shared!cache,
       SharedP!cache, Shared!notes, SharedP!notes, Shared!SetRequest, SharedP!SetRequest,
       Shared!RequestStart, SharedP!RequestStart, Shared!FindById, SharedP!FindById,
       Shared!ReadAccount, SharedP!ReadAccount, Shared!PersistAccount, SharedP!PersistAccount,
       Shared!IdentityGuard, SharedP!IdentityGuard, Shared!Busy, SharedP!Busy, Shared!Goto,
       SharedP!Goto, Shared!Stop, SharedP!Stop, Shared!Begin, SharedP!Begin, Shared!CreateUser,
       SharedP!CreateUser, Shared!UpdateUser, SharedP!UpdateUser, Shared!DeleteUser,
       SharedP!DeleteUser, Shared!FindName, SharedP!FindName, Shared!Insert, SharedP!Insert,
       Shared!FindUser, SharedP!FindUser, Shared!Holder, SharedP!Holder, Shared!LookupName,
       SharedP!LookupName, Shared!SaveIdentity, SharedP!SaveIdentity, Shared!SaveAccount,
       SharedP!SaveAccount, Shared!SoftDelete, SharedP!SoftDelete, Shared!ClearAccountCache,
       SharedP!ClearAccountCache, Shared!Owes, SharedP!Owes, Shared!TaskDies, SharedP!TaskDies,
       Shared!AcNext, SharedP!AcNext, Shared!OpAccountCacheFresh, SharedP!OpAccountCacheFresh,
       Shared!NameEntryFresh, SharedP!NameEntryFresh, Shared!Unique, SharedP!Unique,
       Shared!UsernameUniqueAlone, SharedP!UsernameUniqueAlone

LEMMA SameRenames ==
  /\ Renames!acVars = RenamesP!acVars
  /\ Renames!AcInit <=> RenamesP!AcInit
  /\ Renames!AcNext <=> RenamesP!AcNext
  /\ Renames!AcTypeOK <=> RenamesP!AcTypeOK
  /\ Renames!OpAccountCacheFresh <=> RenamesP!OpAccountCacheFresh
  /\ Renames!NameEntryFresh <=> RenamesP!NameEntryFresh
  /\ Renames!UsernameUniqueAlone <=> RenamesP!UsernameUniqueAlone
BY DEF Renames!Outrun, RenamesP!Outrun, Renames!Fresh, RenamesP!Fresh,
       Renames!acVars, RenamesP!acVars, Renames!Acct, RenamesP!Acct, Renames!Status,
       RenamesP!Status,
       Renames!AccountRow, RenamesP!AccountRow, Renames!IdentityRow, RenamesP!IdentityRow,
       Renames!Loaded, RenamesP!Loaded, Renames!Distinct, RenamesP!Distinct, Renames!TaskPc,
       RenamesP!TaskPc, Renames!TaskRec, RenamesP!TaskRec, Renames!RequestRec, RenamesP!RequestRec,
       Renames!AcTypeOK, RenamesP!AcTypeOK, Renames!IdleTask, RenamesP!IdleTask,
       Renames!IdleRequest, RenamesP!IdleRequest, Renames!AcInit, RenamesP!AcInit, Renames!Kind,
       RenamesP!Kind, Renames!Exists, RenamesP!Exists, Renames!Identified, RenamesP!Identified,
       Renames!Frozen, RenamesP!Frozen, Renames!Load, RenamesP!Load, Renames!Filling,
       RenamesP!Filling, Renames!NoteChange, RenamesP!NoteChange, Renames!rows, RenamesP!rows,
       Renames!cache, RenamesP!cache, Renames!notes, RenamesP!notes, Renames!SetRequest,
       RenamesP!SetRequest, Renames!RequestStart, RenamesP!RequestStart, Renames!FindById,
       RenamesP!FindById, Renames!ReadAccount, RenamesP!ReadAccount, Renames!PersistAccount,
       RenamesP!PersistAccount, Renames!IdentityGuard, RenamesP!IdentityGuard, Renames!Busy,
       RenamesP!Busy, Renames!Goto, RenamesP!Goto, Renames!Stop, RenamesP!Stop, Renames!Begin,
       RenamesP!Begin, Renames!CreateUser, RenamesP!CreateUser, Renames!UpdateUser,
       RenamesP!UpdateUser, Renames!DeleteUser, RenamesP!DeleteUser, Renames!FindName,
       RenamesP!FindName, Renames!Insert, RenamesP!Insert, Renames!FindUser, RenamesP!FindUser,
       Renames!Holder, RenamesP!Holder, Renames!LookupName, RenamesP!LookupName,
       Renames!SaveIdentity, RenamesP!SaveIdentity, Renames!SaveAccount, RenamesP!SaveAccount,
       Renames!SoftDelete, RenamesP!SoftDelete, Renames!ClearAccountCache,
       RenamesP!ClearAccountCache, Renames!Owes, RenamesP!Owes, Renames!TaskDies,
       RenamesP!TaskDies, Renames!AcNext, RenamesP!AcNext, Renames!OpAccountCacheFresh,
       RenamesP!OpAccountCacheFresh, Renames!NameEntryFresh, RenamesP!NameEntryFresh,
       Renames!Unique, RenamesP!Unique, Renames!UsernameUniqueAlone, RenamesP!UsernameUniqueAlone

LEMMA SameSites ==
  /\ Sites!acVars = SitesP!acVars
  /\ Sites!AcInit <=> SitesP!AcInit
  /\ Sites!AcNext <=> SitesP!AcNext
  /\ Sites!AcTypeOK <=> SitesP!AcTypeOK
  /\ Sites!OpAccountCacheFresh <=> SitesP!OpAccountCacheFresh
  /\ Sites!NameEntryFresh <=> SitesP!NameEntryFresh
  /\ Sites!UsernameUniqueAlone <=> SitesP!UsernameUniqueAlone
BY DEF Sites!Outrun, SitesP!Outrun, Sites!Fresh, SitesP!Fresh,
       Sites!acVars, SitesP!acVars, Sites!Acct, SitesP!Acct, Sites!Status, SitesP!Status,
       Sites!AccountRow, SitesP!AccountRow, Sites!IdentityRow, SitesP!IdentityRow, Sites!Loaded,
       SitesP!Loaded, Sites!Distinct, SitesP!Distinct, Sites!TaskPc, SitesP!TaskPc, Sites!TaskRec,
       SitesP!TaskRec, Sites!RequestRec, SitesP!RequestRec, Sites!AcTypeOK, SitesP!AcTypeOK,
       Sites!IdleTask, SitesP!IdleTask, Sites!IdleRequest, SitesP!IdleRequest, Sites!AcInit,
       SitesP!AcInit, Sites!Kind, SitesP!Kind, Sites!Exists, SitesP!Exists, Sites!Identified,
       SitesP!Identified, Sites!Frozen, SitesP!Frozen, Sites!Load, SitesP!Load, Sites!Filling,
       SitesP!Filling, Sites!NoteChange, SitesP!NoteChange, Sites!rows, SitesP!rows, Sites!cache,
       SitesP!cache, Sites!notes, SitesP!notes, Sites!SetRequest, SitesP!SetRequest,
       Sites!RequestStart, SitesP!RequestStart, Sites!FindById, SitesP!FindById, Sites!ReadAccount,
       SitesP!ReadAccount, Sites!PersistAccount, SitesP!PersistAccount, Sites!IdentityGuard,
       SitesP!IdentityGuard, Sites!Busy, SitesP!Busy, Sites!Goto, SitesP!Goto, Sites!Stop,
       SitesP!Stop, Sites!Begin, SitesP!Begin, Sites!CreateUser, SitesP!CreateUser,
       Sites!UpdateUser, SitesP!UpdateUser, Sites!DeleteUser, SitesP!DeleteUser, Sites!FindName,
       SitesP!FindName, Sites!Insert, SitesP!Insert, Sites!FindUser, SitesP!FindUser, Sites!Holder,
       SitesP!Holder, Sites!LookupName, SitesP!LookupName, Sites!SaveIdentity, SitesP!SaveIdentity,
       Sites!SaveAccount, SitesP!SaveAccount, Sites!SoftDelete, SitesP!SoftDelete,
       Sites!ClearAccountCache, SitesP!ClearAccountCache, Sites!Owes, SitesP!Owes, Sites!TaskDies,
       SitesP!TaskDies, Sites!AcNext, SitesP!AcNext, Sites!OpAccountCacheFresh,
       SitesP!OpAccountCacheFresh, Sites!NameEntryFresh, SitesP!NameEntryFresh, Sites!Unique,
       SitesP!Unique, Sites!UsernameUniqueAlone, SitesP!UsernameUniqueAlone

LEMMA AccountsDistinct == SharedP!Distinct /\ RenamesP!Distinct /\ SitesP!Distinct
BY AccountsAssumption
   DEF Shared!Distinct, SharedP!Distinct, Shared!Acct, SharedP!Acct, Shared!AccountRow,
       SharedP!AccountRow, Shared!IdentityRow, SharedP!IdentityRow, Shared!Loaded,
       SharedP!Loaded, Shared!Status, SharedP!Status, Renames!Distinct, RenamesP!Distinct,
       Renames!Acct, RenamesP!Acct, Renames!AccountRow, RenamesP!AccountRow,
       Renames!IdentityRow, RenamesP!IdentityRow, Renames!Loaded, RenamesP!Loaded,
       Renames!Status, RenamesP!Status, Sites!Distinct, SitesP!Distinct, Sites!Acct,
       SitesP!Acct, Sites!AccountRow, SitesP!AccountRow, Sites!IdentityRow, SitesP!IdentityRow,
       Sites!Loaded, SitesP!Loaded, Sites!Status, SitesP!Status

(* The invariants of the subjects, each with what holds while its operations *)
(* do not overlap.                                                           *)
BackOfficeInv ==
  /\ PmInv /\ PmAlone
  /\ subject = "accounts" => SharedP!AcInv /\ SharedP!AcAlone
  /\ subject = "renames" => RenamesP!AcInv /\ RenamesP!AcAlone
  /\ subject = "sites" => SitesP!AcInv /\ SitesP!AcAlone

LEMMA BackOfficeStarts ==
  ASSUME BackOfficeInit
  PROVE  BackOfficeInv
<1>1. PmInv /\ PmAlone
  BY InitPm, InitAlone DEF BackOfficeInit
<1>2. subject = "accounts" => SharedP!AcInv /\ SharedP!AcAlone
  BY AccountsDistinct, SameShared, SharedP!AcInitHolds DEF BackOfficeInit
<1>3. subject = "renames" => RenamesP!AcInv /\ RenamesP!AcAlone
  BY AccountsDistinct, SameRenames, RenamesP!AcInitHolds DEF BackOfficeInit
<1>4. subject = "sites" => SitesP!AcInv /\ SitesP!AcAlone
  BY AccountsDistinct, SameSites, SitesP!AcInitHolds DEF BackOfficeInit
<1> QED
  BY <1>1, <1>2, <1>3, <1>4 DEF BackOfficeInv

(* A step is one of the subject's module; the roles' stay as they are else.  *)
LEMMA BackOfficeSteps ==
  ASSUME BackOfficeInv, [BackOfficeNext]_allVars
  PROVE  BackOfficeInv' /\ NamesStayUnique /\ [DeletedStays]_pmVars
<1>1. /\ subject' = subject /\ [PmNext]_pmVars
      /\ subject = "accounts" => [SharedP!AcNext]_(SharedP!acVars)
      /\ subject = "renames" => [RenamesP!AcNext]_(RenamesP!acVars)
      /\ subject = "sites" => [SitesP!AcNext]_(SitesP!acVars)
  BY SameShared, SameRenames, SameSites
     DEF BackOfficeNext, allVars, accountVars, SharedP!acVars, RenamesP!acVars, SitesP!acVars
<1>2. PmInv' /\ PmAlone' /\ [DeletedStays]_pmVars
  BY <1>1, PmInductive, PmStepAlone DEF BackOfficeInv, PmInv, DeletedStays
<1>3. CASE subject = "accounts"
  <2>1. SharedP!AcInv' /\ SharedP!AcAlone' /\ SharedP!UsernameUniqueAlone
    BY <1>1, <1>3, AccountsDistinct, SharedP!AcStep, SharedP!AloneStep,
       SharedP!UniqueStep DEF BackOfficeInv
  <2> QED
    BY <1>1, <1>2, <1>3, <2>1, SameShared DEF BackOfficeInv, NamesStayUnique
<1>4. CASE subject = "renames"
  <2>1. RenamesP!AcInv' /\ RenamesP!AcAlone' /\ RenamesP!UsernameUniqueAlone
    BY <1>1, <1>4, AccountsDistinct, RenamesP!AcStep, RenamesP!AloneStep,
       RenamesP!UniqueStep DEF BackOfficeInv
  <2> QED
    BY <1>1, <1>2, <1>4, <2>1, SameRenames DEF BackOfficeInv, NamesStayUnique
<1>5. CASE subject = "sites"
  <2>1. SitesP!AcInv' /\ SitesP!AcAlone' /\ SitesP!UsernameUniqueAlone
    BY <1>1, <1>5, AccountsDistinct, SitesP!AcStep, SitesP!AloneStep,
       SitesP!UniqueStep DEF BackOfficeInv
  <2> QED
    BY <1>1, <1>2, <1>5, <2>1, SameSites DEF BackOfficeInv, NamesStayUnique
<1>6. CASE subject \notin {"accounts", "renames", "sites"}
  BY <1>1, <1>2, <1>6 DEF BackOfficeInv, NamesStayUnique
<1> QED
  BY <1>3, <1>4, <1>5, <1>6

LEMMA AccountsImplied ==
  ASSUME BackOfficeInv
  PROVE  AccountsCached
<1>1. CASE subject = "accounts"
  BY <1>1, SameShared, SharedP!InvImplies DEF BackOfficeInv, AccountsCached
<1>2. CASE subject = "renames"
  BY <1>2, SameRenames, RenamesP!InvImplies DEF BackOfficeInv, AccountsCached
<1>3. CASE subject = "sites"
  BY <1>3, SameSites, SitesP!InvImplies DEF BackOfficeInv, AccountsCached
<1>4. CASE subject \notin {"accounts", "renames", "sites"}
  BY <1>4 DEF AccountsCached
<1> QED
  BY <1>1, <1>2, <1>3, <1>4

(* Cached accounts are those of the rows, by id and by name, but for the     *)
(* exceptions the properties name; and operations that do not overlap make   *)
(* two accounts of one name only where a rename left a stale entry.          *)
THEOREM AccountsAreSafe == BackOfficeSpec => AccountsSafe
<1> QED
  BY BackOfficeStarts, BackOfficeSteps, AccountsImplied, PTL DEF BackOfficeSpec, AccountsSafe

(* Cached permissions are those of the rows, but for the exceptions named;   *)
(* and operations on roles that do not overlap leave no binding to a deleted *)
(* role and bring none back.                                                 *)
THEOREM RolesAreSafe == BackOfficeSpec => RolesSafe
<1>1. BackOfficeInv =>
        (subject = "roles" => PmTypeOK /\ CachedPermissionsFresh /\ DeletedRoleUnboundAlone)
  BY DEF BackOfficeInv, PmInv, PmShape, PmAlone, RowsBound, DeletedRoleUnboundAlone
<1>2. DeletedStaysDeletedAlone <=> [][DeletedStays]_pmVars
  BY PTL DEF DeletedStaysDeletedAlone, DeletedStays
<1> QED
  BY <1>1, <1>2, BackOfficeStarts, BackOfficeSteps, PTL DEF BackOfficeSpec, RolesSafe
=============================================================================
