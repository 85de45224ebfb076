------------------------------ MODULE Accounts ------------------------------
(* Accounts and their identities, of back-office users (Op) and site users  *)
(* (Site), the account cache in Redis, which has no ttl, and the guard that *)
(* mounts the identity of a request from it.  A step is one statement, one  *)
(* commit or one Redis command.                                             *)
EXTENDS Naturals

CONSTANTS Admin, Request, Op, Site, Name, None,
  MayDie        \* a process may die, or Redis fail, between two steps

VARIABLES
  account,      \* op_account and account: name and whether soft-deleted
  identity,     \* identity: of several of one account, the one written last
  byId, byName, \* account:<type>:info_by_id:id:<id> and ...:username:<name>
  task,         \* the operations in progress
  request,      \* the requests that deserialize their account
  excused,      \* history: accounts an older read filled, a dead task left, or
                \* a create gave a new identity
  leaked,       \* history: names whose entry no operation evicts any more
  crossed       \* history: two operations were in progress together

acVars == <<account, identity, byId, byName, task, request, excused, leaked, crossed>>

Acct == Op \cup Site
Status == {"active", "disabled"}
AccountRow == [name : Name, deleted : BOOLEAN]
IdentityRow == [status : Status, deleted : BOOLEAN]
(* An account loaded with its relations: soft-deleted rows are left out.    *)
Loaded == [name : Name, status : Status \cup {None}]

(* A row, a name and an account are not the mark of an absent one, and no   *)
(* account is of both kinds.                                                *)
Distinct ==
  /\ None \notin Acct \cup Name \cup AccountRow \cup IdentityRow \cup Loaded \cup Status
  /\ Op \cap Site = {}

TaskPc == {"idle", "find", "insert", "nameSite", "nameOp", "saveIdentity",
           "saveAccount", "remove", "evict"}
TaskRec == [pc : TaskPc, op : {"none", "create", "update", "delete"},
            kind : {"site", "op"}, acct : Acct \cup {None}, name : Name \cup {None},
            status : Status \cup {None}, oldName : Name \cup {None},
            oldStatus : Status \cup {None}]
RequestRec == [pc : {"idle", "get", "read", "persist", "guard", "admitted", "refused"},
               acct : Acct \cup {None}, loaded : Loaded \cup {None},
               frozen : BOOLEAN]   \* history: the identity was frozen, at rest, at the start

AcTypeOK ==
  /\ account \in [Acct -> AccountRow \cup {None}]
  /\ identity \in [Acct -> IdentityRow \cup {None}]
  /\ byId \in [Acct -> Loaded \cup {None}]
  /\ byName \in [{"site", "op"} \X Name -> Acct \cup {None}]
  /\ task \in [Admin -> TaskRec]
  /\ request \in [Request -> RequestRec]
  /\ excused \in SUBSET Acct
  /\ leaked \in SUBSET ({"site", "op"} \X Name)
  /\ crossed \in BOOLEAN

IdleTask == [pc |-> "idle", op |-> "none", kind |-> "op", acct |-> None, name |-> None,
             status |-> None, oldName |-> None, oldStatus |-> None]
IdleRequest == [pc |-> "idle", acct |-> None, loaded |-> None, frozen |-> FALSE]

AcInit ==
  /\ account = [a \in Acct |-> None]
  /\ identity = [a \in Acct |-> None]
  /\ byId = [a \in Acct |-> None]
  /\ byName = [k \in {"site", "op"} \X Name |-> None]
  /\ task = [p \in Admin |-> IdleTask]
  /\ request = [q \in Request |-> IdleRequest]
  /\ excused = {} /\ leaked = {} /\ crossed = FALSE

Kind(a) == IF a \in Op THEN "op" ELSE "site"
Exists(a) == account[a] # None /\ ~account[a].deleted
Identified(a) == identity[a] # None /\ ~identity[a].deleted
Frozen(a) == Identified(a) /\ identity[a].status = "disabled"
Load(a) == IF ~Exists(a) THEN None
           ELSE [name |-> account[a].name,
                 status |-> IF Identified(a) THEN identity[a].status ELSE None]

Filling(a) == \E q \in Request : request[q].pc = "persist" /\ request[q].acct = a
Outrun == {a \in Acct : Filling(a) /\ Load(a)' # Load(a)}
NoteChange == excused' = excused \cup Outrun

Holder(k, n) == {a \in Acct : Kind(a) = k /\ Exists(a) /\ account[a].name = n}

rows == <<account, identity>>
cache == <<byId, byName>>
notes == <<excused, leaked, crossed>>

-----------------------------------------------------------------------------
(* AccountDeserializeGuard, then IdentityRequiredGuard.                     *)

SetRequest(q, r) == request' = [request EXCEPT ![q] = r]

RequestStart(q, a) ==
  /\ request[q].pc \in {"idle", "admitted", "refused"}
  /\ Exists(a)
  /\ SetRequest(q, [pc |-> "get", acct |-> a, loaded |-> None,
                     frozen |-> Frozen(a) /\ \A p \in Admin : task[p].pc = "idle"])
  /\ UNCHANGED <<rows, cache, task, notes>>

FindById(q) ==
  /\ request[q].pc = "get"
  /\ LET hit == byId[request[q].acct] IN
     SetRequest(q, [request[q] EXCEPT !.pc = IF hit = None THEN "read" ELSE "guard",
                                      !.loaded = hit])
  /\ UNCHANGED <<rows, cache, task, notes>>

ReadAccount(q) ==
  /\ request[q].pc = "read"
  /\ LET found == Load(request[q].acct) IN
     SetRequest(q, [request[q] EXCEPT !.pc = IF found = None THEN "guard" ELSE "persist",
                                      !.loaded = found])
  /\ UNCHANGED <<rows, cache, task, notes>>

PersistAccount(q) ==
  /\ request[q].pc = "persist"
  /\ byId' = [byId EXCEPT ![request[q].acct] = request[q].loaded]
  /\ SetRequest(q, [request[q] EXCEPT !.pc = "guard"])
  /\ UNCHANGED <<rows, byName, task, notes>>

(* No account or no identity: 401.  A frozen identity: 403.                 *)
IdentityGuard(q) ==
  /\ request[q].pc = "guard"
  /\ LET a == request[q].loaded
         ok == a # None /\ a.status = "active" IN
     SetRequest(q, [IdleRequest EXCEPT !.pc = IF ok THEN "admitted" ELSE "refused",
                                       !.acct = request[q].acct])
  /\ UNCHANGED <<rows, cache, task, notes>>

-----------------------------------------------------------------------------
(* The operations on users.                                                 *)

Busy(p) == task[p].pc # "idle"
Goto(p, pc) == task' = [task EXCEPT ![p].pc = pc]
Stop(p) == task' = [task EXCEPT ![p] = IdleTask]

Begin(p, rec) ==
  /\ ~Busy(p)
  /\ task' = [task EXCEPT ![p] = rec]
  /\ crossed' = (crossed \/ \E o \in Admin \ {p} : Busy(o))
  /\ UNCHANGED <<rows, cache, request, excused, leaked>>

(* createUser makes an active identity, createOpUser one of a status.  An    *)
(* id has to be left for a new account, which is a bound.                   *)
Fresh(k) == {a \in Acct : Kind(a) = k /\ account[a] = None /\ \A o \in Admin : task[o].acct # a}

CreateUser(p, k, n, s) ==
  /\ k = "site" => s = "active"
  /\ Fresh(k) # {} \/ Holder(k, n) # {}
  /\ Begin(p, [IdleTask EXCEPT !.pc = "find", !.op = "create", !.kind = k, !.name = n,
                               !.status = s])

(* updateOpUser may change name and status, updateUser the status.          *)
UpdateUser(p, a, n, s) ==
  /\ n = None \/ a \in Op
  /\ Begin(p, [IdleTask EXCEPT !.pc = "find", !.op = "update", !.acct = a,
                               !.name = n, !.status = s])
DeleteUser(p, a) ==
  Begin(p, [IdleTask EXCEPT !.pc = "find", !.op = "delete", !.acct = a])

(* The transaction of a create looks the name up, then inserts; nothing in  *)
(* the table keeps another one from inserting the name in between.  Of      *)
(* several accounts of that name the latest is found; which one that is is  *)
(* not modelled.  One with an identity is 409, one without is used again.   *)
FindName(p) ==
  /\ task[p].pc = "find" /\ task[p].op = "create"
  /\ LET same == Holder(task[p].kind, task[p].name)
         InsertFor(a) == task' = [task EXCEPT ![p].pc = "insert", ![p].acct = a]
     IN \/ same = {} /\ \E a \in Fresh(task[p].kind) : InsertFor(a)
        \/ \E a \in same : Identified(a) /\ Stop(p)
        \/ \E a \in same : ~Identified(a) /\ InsertFor(a)
  /\ UNCHANGED <<rows, cache, request, notes>>

(* The commit.  Of an account that is used again createOpUser saves the     *)
(* entity it found, createUser nothing, and neither evicts a cached copy.   *)
Insert(p) ==
  /\ task[p].pc = "insert"
  /\ LET t == task[p]
         a == t.acct
         again == account[a] # None IN
     /\ account' = IF again /\ a \in Site THEN account
                   ELSE [account EXCEPT ![a] = [name |-> t.name, deleted |-> FALSE]]
     /\ identity' = [identity EXCEPT ![a] = [status |-> t.status, deleted |-> FALSE]]
     /\ excused' = excused \cup Outrun \cup (IF byId[a] # None THEN {a} ELSE {})
     /\ leaked' = leaked \cup (IF again /\ a \in Op
                               THEN {<<"op", account[a].name>>} \ {<<"op", t.name>>} ELSE {})
  /\ Stop(p)
  /\ UNCHANGED <<cache, request, crossed>>

(* findOne with the identity and, for Op, the account; 404 when gone.       *)
FindUser(p) ==
  /\ task[p].pc = "find" /\ task[p].op \in {"update", "delete"}
  /\ LET a == task[p].acct
         renames == task[p].name \notin {None, account[a].name} IN
     IF ~(Exists(a) /\ Identified(a)) THEN Stop(p)
     ELSE task' = [task EXCEPT
            ![p].pc = IF task[p].op = "delete" THEN "remove"
                      ELSE IF renames THEN "nameSite" ELSE "saveIdentity",
            ![p].oldName = account[a].name,
            ![p].oldStatus = identity[a].status]
  /\ UNCHANGED <<rows, cache, request, notes>>

(* findAccountByUsername through the cache: site accounts, then Op ones;    *)
(* what is found is cached, a miss is not.  One step per kind: what is said *)
(* of names below supposes that no other operation runs meanwhile.          *)
LookupName(p) ==
  /\ task[p].pc \in {"nameSite", "nameOp"}
  /\ LET k == IF task[p].pc = "nameSite" THEN "site" ELSE "op"
         n == task[p].name
         Answer(a) ==
           IF a # None /\ a # task[p].acct THEN Stop(p)
           ELSE Goto(p, IF k = "site" /\ a = None THEN "nameOp" ELSE "saveIdentity") IN
     IF byName[<<k, n>>] # None \/ Holder(k, n) = {}
       THEN Answer(byName[<<k, n>>]) /\ UNCHANGED byName
       ELSE \E a \in Holder(k, n) :
              /\ byName' = [byName EXCEPT ![<<k, n>>] = a]
              /\ Answer(a)
  /\ UNCHANGED <<rows, byId, request, notes>>

(* Three saves without a transaction, each of the whole entity found        *)
(* before: it restores what another operation changed, deletion included.   *)
SaveIdentity(p) ==
  /\ task[p].pc = "saveIdentity"
  /\ LET t == task[p] IN
     /\ identity' = [identity EXCEPT ![t.acct] =
          [status |-> IF t.status = None THEN t.oldStatus ELSE t.status, deleted |-> FALSE]]
     /\ IF t.acct \in Op THEN Goto(p, "saveAccount") ELSE Stop(p)
  /\ UNCHANGED <<account, cache, request, leaked, crossed>>
  /\ NoteChange

(* The account, with the name it has now or the new one: the entry of the   *)
(* old name is not evicted by anyone.                                       *)
SaveAccount(p) ==
  /\ task[p].pc = "saveAccount"
  /\ LET t == task[p]
         n == IF t.name = None THEN t.oldName ELSE t.name IN
     /\ account' = [account EXCEPT ![t.acct] = [name |-> n, deleted |-> FALSE]]
     /\ leaked' = leaked \cup {<<"op", m>> : m \in {t.oldName, account[t.acct].name} \ {n}}
     /\ task' = [task EXCEPT ![p].pc = "evict", ![p].oldName = n]
  /\ UNCHANGED <<identity, cache, request, crossed>>
  /\ NoteChange

(* One transaction soft-deletes user, identity and, the last identity gone, *)
(* the account.  deleteUser loads no account, so its name is not evicted.   *)
SoftDelete(p) ==
  /\ task[p].pc = "remove"
  /\ LET a == task[p].acct IN
     /\ account' = [account EXCEPT ![a].deleted = TRUE]
     /\ identity' = [identity EXCEPT ![a].deleted = TRUE]
     /\ leaked' = leaked \cup (IF a \in Site THEN {<<"site", account[a].name>>}
                               ELSE {<<"op", account[a].name>>} \ {<<"op", task[p].oldName>>})
  /\ Goto(p, "evict")
  /\ UNCHANGED <<cache, request, crossed>>
  /\ NoteChange

(* Mutant: the keys by id are left. *)
ClearNameOnly(p) ==
  /\ task[p].pc = "evict"
  /\ LET a == task[p].acct IN
     /\ byId' = byId
     /\ byName' = IF a \in Op
                  THEN [byName EXCEPT ![<<"op", task[p].oldName>>] = None,
                                      ![<<"site", task[p].oldName>>] = None]
                  ELSE byName
     /\ excused' = IF Filling(a) THEN excused ELSE excused \ {a}
  /\ leaked' = {k \in leaked : task[p].acct \in Site \/ k[2] # task[p].oldName}
  /\ Stop(p)
  /\ UNCHANGED <<rows, request, crossed>>

(* clearAccountCache: one DEL of the id keys and, given a name, its keys.   *)
ClearAccountCache(p) ==
  /\ task[p].pc = "evict"
  /\ LET a == task[p].acct IN
     /\ byId' = [byId EXCEPT ![a] = None]
     /\ byName' = IF a \in Op
                  THEN [byName EXCEPT ![<<"op", task[p].oldName>>] = None,
                                      ![<<"site", task[p].oldName>>] = None]
                  ELSE byName
     /\ excused' = IF Filling(a) THEN excused ELSE excused \ {a}
  /\ leaked' = {k \in leaked : task[p].acct \in Site \/ k[2] # task[p].oldName}
  /\ Stop(p)
  /\ UNCHANGED <<rows, request, crossed>>

(* What p's saves may have changed and p has still to evict.                *)
Owes(p, a) == task[p].acct = a /\ task[p].pc \in {"saveAccount", "evict"}

TaskDies(p) ==
  /\ MayDie
  /\ Busy(p)
  /\ excused' = excused \cup {a \in Acct : Owes(p, a)}
  /\ leaked' = leaked \cup (IF task[p].pc = "evict" THEN {<<"op", task[p].oldName>>} ELSE {})
  /\ Stop(p)
  /\ UNCHANGED <<rows, cache, request, crossed>>

-----------------------------------------------------------------------------
AcNext ==
  \/ \E q \in Request, a \in Acct : RequestStart(q, a)
  \/ \E q \in Request :
       FindById(q) \/ ReadAccount(q) \/ PersistAccount(q) \/ IdentityGuard(q)
  \/ \E p \in Admin, a \in Acct :
       \/ \E n \in Name, s \in Status : CreateUser(p, Kind(a), n, s)
       \/ \E n \in Name \cup {None}, s \in Status \cup {None} : UpdateUser(p, a, n, s)
       \/ DeleteUser(p, a)
  \/ \E p \in Admin :
       \/ FindName(p) \/ Insert(p) \/ FindUser(p) \/ LookupName(p) \/ SaveIdentity(p)
       \/ SaveAccount(p) \/ SoftDelete(p) \/ ClearAccountCache(p) \/ TaskDies(p)

AcSpec == AcInit /\ [][AcNext]_acVars

-----------------------------------------------------------------------------
(* The cached account of a back-office user is the one in the database,     *)
(* unless the operation that changed it has still to evict it, died before, *)
(* or a request filled it from an older read, or a create gave a cached     *)
(* account a new identity (op-user-shared.service.ts:285, :321): no other   *)
(* operation forgets the id.                                                *)
OpAccountCacheFresh ==
  \A a \in Op : byId[a] \notin {None, Load(a)}
    => a \in excused \/ \E p \in Admin : Owes(p, a)

(* The entry of a name is wrong only where a rename or the deletion of a    *)
(* site user left it: every other change of a name evicts it.               *)
NameEntryFresh ==
  ~crossed => \A k \in {"site", "op"}, n \in Name :
    byName[<<k, n>>] # None /\ byName[<<k, n>>] \notin Holder(k, n)
      => \/ <<k, n>> \in leaked
         \/ \E p \in Admin : task[p].pc = "evict" /\ task[p].oldName = n

(* Two accounts of a kind come to have one name, while operations do not    *)
(* overlap, only where an earlier rename left the entry of that name: a     *)
(* create looks the name up in the table, a rename in the cache, and the    *)
(* entry that still names the renamed account lets it have the name again.  *)
Unique(k, n) == \A a, b \in Holder(k, n) : a = b
UsernameUniqueAlone ==
  \A k \in {"site", "op"}, n \in Name :
    ~crossed /\ Unique(k, n) /\ <<k, n>> \notin leaked => Unique(k, n)'

(* The guard refuses a frozen identity whatever the route: a request that   *)
(* starts when no operation is in progress and the identity is frozen, and  *)
(* that ends with it frozen still, is not admitted.                         *)
FrozenIdentityRefused ==
  [][\A q \in Request :
       request[q].frozen /\ request'[q].pc = "admitted" => ~Frozen(request[q].acct)]_acVars
=============================================================================
