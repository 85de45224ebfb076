--------------------------- MODULE AccountsProofs ---------------------------
(* What TLAPS proves about Accounts, for any accounts, names, operations and *)
(* requests.                                                                 *)
EXTENDS Accounts, TLAPS

Key == {"site", "op"} \X Name
Known(a) == account[a] # None
Found == {"nameSite", "nameOp", "saveIdentity", "saveAccount", "remove", "evict"}

(* What the place of an operation says of it.                                *)
TaskShape(t) ==
  /\ t.pc # "idle" /\ ~(t.pc = "find" /\ t.op = "create") => t.acct \in Acct
  /\ t.pc = "find" => t.op # "none"
  /\ t.op = "create" => t.pc \in {"find", "insert"} /\ t.name \in Name /\ t.status \in Status
  /\ t.pc = "insert" => t.op = "create"
  /\ t.op = "update" /\ t.name # None => t.acct \in Op
  /\ t.pc \in Found => t.oldName \in Name
  /\ t.pc \in {"nameSite", "nameOp", "saveIdentity", "saveAccount"} =>
       t.op = "update" /\ t.oldStatus \in Status
  /\ t.pc \in {"nameSite", "nameOp"} => t.name \in Name
  /\ t.pc = "saveAccount" => t.acct \in Op
RequestShape(q) ==
  /\ q.pc # "idle" => q.acct \in Acct
  /\ q.pc = "persist" => q.loaded \in Loaded

AcShape ==
  /\ AcTypeOK
  /\ \A p \in Admin : TaskShape(task[p])
  /\ \A q \in Request : RequestShape(request[q])
  /\ \A k \in Key : byName[k] # None => Kind(byName[k]) = k[1]

(* Rows are found before they are written.                                   *)
RowsFound ==
  /\ \A p \in Admin : task[p].pc \in Found => Known(task[p].acct)
  /\ \A q \in Request : request[q].pc # "idle" => Known(request[q].acct)
  /\ \A a \in Acct : /\ ~Known(a) => byId[a] = None
                     /\ Known(a) <=> identity[a] # None

(* What a request has read is still so, unless noted.                        *)
RequestHolds(q) == q.pc = "persist" => q.loaded = Load(q.acct) \/ q.acct \in excused

(* A name's entry is wrong only where nobody evicts it any more, or where    *)
(* somebody is about to.                                                     *)
EvictsName(p, n) == task[p].pc = "evict" /\ task[p].acct \in Op /\ task[p].oldName = n
NamesTracked ==
  \A k \in {"site", "op"}, n \in Name :
    byName[<<k, n>>] # None /\ byName[<<k, n>>] \notin Holder(k, n)
      => \/ <<k, n>> \in leaked
         \/ k = "op" /\ \E p \in Admin : EvictsName(p, n)

AcInv ==
  /\ AcShape /\ RowsFound
  /\ \A q \in Request : RequestHolds(request[q])
  /\ OpAccountCacheFresh
  /\ NamesTracked

(* What an operation that runs alone has looked up is so.                    *)
AloneHolds(t) ==
  /\ t.pc \in {"nameSite", "nameOp", "saveIdentity", "saveAccount"} =>
       Exists(t.acct) /\ account[t.acct].name = t.oldName
  /\ t.pc \in {"nameSite", "nameOp"} => t.name # t.oldName
  /\ t.pc = "insert" => Holder(Kind(t.acct), t.name) = {} \/ t.acct \in Holder(Kind(t.acct), t.name)
  /\ t.pc \in {"saveIdentity", "saveAccount"} /\ t.name \notin {None, t.oldName} =>
       Holder("op", t.name) = {} \/ <<"op", t.name>> \in leaked
AcAlone ==
  ~crossed =>
    /\ \A p, o \in Admin : Busy(p) /\ Busy(o) => p = o
    /\ \A p \in Admin : AloneHolds(task[p])

-----------------------------------------------------------------------------
(* Types.                                                                    *)
TaskBecomes(p, t) == t \in TaskRec /\ TaskShape(t) /\ task' = [task EXCEPT ![p] = t]
RequestBecomes(q, r) == r \in RequestRec /\ RequestShape(r) /\ request' = [request EXCEPT ![q] = r]

(* Only p's operation, or q's request, changes.                              *)
LEMMA TaskTyped ==
  ASSUME AcShape, NEW p \in Admin, NEW t, TaskBecomes(p, t)
  PROVE  /\ task' \in [Admin -> TaskRec] /\ task'[p] = t
         /\ \A o \in Admin : o # p => task'[o] = task[o]
         /\ \A o \in Admin : TaskShape(task'[o])
BY DEF AcShape, AcTypeOK, TaskBecomes

LEMMA RequestTyped ==
  ASSUME AcShape, NEW q \in Request, NEW r, RequestBecomes(q, r)
  PROVE  /\ request' \in [Request -> RequestRec] /\ request'[q] = r
         /\ \A o \in Request : o # q => request'[o] = request[o]
         /\ \A o \in Request : RequestShape(request'[o])
BY DEF AcShape, AcTypeOK, RequestBecomes

(* An operation or a request at rest is well-formed.                         *)
LEMMA TaskIdle ==
  ASSUME Distinct
  PROVE  IdleTask \in TaskRec /\ TaskShape(IdleTask) /\ IdleTask.pc = "idle" /\ IdleTask.op = "none"
<1>1. IdleTask \in TaskRec /\ IdleTask.pc = "idle" /\ IdleTask.op = "none"
  BY DEF IdleTask, TaskRec, TaskPc
<1> QED
  BY <1>1 DEF TaskShape, Found

LEMMA RequestIdle ==
  IdleRequest \in RequestRec /\ RequestShape(IdleRequest) /\ IdleRequest.pc = "idle"
<1>1. IdleRequest \in RequestRec /\ IdleRequest.pc = "idle"
  BY DEF IdleRequest, RequestRec
<1> QED
  BY <1>1 DEF RequestShape

(* The database's account, as a request loads it.                            *)
LEMMA LoadTyped ==
  ASSUME Distinct, AcShape, NEW a \in Acct
  PROVE  /\ Load(a) \in Loaded \cup {None}
         /\ Exists(a) => account[a] \in AccountRow /\ account[a].name \in Name
         /\ Identified(a) => identity[a] \in IdentityRow /\ identity[a].status \in Status
         /\ Exists(a) => Known(a)
BY DEF AcShape, AcTypeOK, Load, Exists, Identified, Loaded, AccountRow, IdentityRow, Known

(* A step of a request, on the cache only.                                   *)
LEMMA RequestStays ==
  ASSUME AcShape, NEW q \in Request, NEW r, RequestBecomes(q, r),
         UNCHANGED <<rows, byName, task, notes>>, byId' \in [Acct -> Loaded \cup {None}]
  PROVE  AcShape'
BY RequestTyped DEF AcShape, AcTypeOK, rows, notes, Kind

(* A step of an operation.                                                   *)
LEMMA TaskStays ==
  ASSUME AcShape, NEW p \in Admin, NEW t, TaskBecomes(p, t), UNCHANGED request,
         account' \in [Acct -> AccountRow \cup {None}],
         identity' \in [Acct -> IdentityRow \cup {None}],
         byId' \in [Acct -> Loaded \cup {None}], byName' \in [Key -> Acct \cup {None}],
         \A k \in Key : byName'[k] # None => byName'[k] = byName[k] \/ Kind(byName'[k]) = k[1],
         excused' \in SUBSET Acct, leaked' \in SUBSET Key, crossed' \in BOOLEAN
  PROVE  AcShape'
BY TaskTyped DEF AcShape, AcTypeOK, Key, Kind

(* What the steps of a request do.                                           *)
Requests(q) == FindById(q) \/ ReadAccount(q) \/ PersistAccount(q) \/ IdentityGuard(q)
RequestGoes(q, r) ==
  /\ RequestBecomes(q, r) /\ UNCHANGED <<rows, byName, task, notes>>
  /\ byId' \in [Acct -> Loaded \cup {None}]
  /\ r.pc # "idle" /\ r.acct \in Acct
  /\ (request[q].pc # "idle" /\ r.acct = request[q].acct) \/ Exists(r.acct)
  /\ (r.pc = "persist" => /\ r.loaded = Load(r.acct) /\ request[q].pc = "read"
                          /\ UNCHANGED byId)
  /\ \/ UNCHANGED byId
     \/ /\ request[q].pc = "persist"
        /\ byId' = [byId EXCEPT ![request[q].acct] = request[q].loaded]

LEMMA RequestMoves ==
  ASSUME Distinct, AcShape, NEW q \in Request,
         Requests(q) \/ \E a \in Acct : RequestStart(q, a)
  PROVE  \E r : RequestGoes(q, r)
<1> DEFINE Goal == \E r : RequestGoes(q, r)
<1>0. /\ request[q] \in RequestRec /\ RequestShape(request[q])
      /\ byId \in [Acct -> Loaded \cup {None}]
  BY DEF AcShape, AcTypeOK
<1>1. ASSUME NEW a \in Acct, RequestStart(q, a) PROVE Goal
  <2> SUFFICES ASSUME NEW f, f = (Frozen(a) /\ \A p \in Admin : task[p].pc = "idle") PROVE Goal
    OBVIOUS
  <2> DEFINE r == [pc |-> "get", acct |-> a, loaded |-> None, frozen |-> f]
  <2>f. f \in BOOLEAN
    BY DEF Frozen, Identified
  <2>1. r \in RequestRec /\ r.pc = "get" /\ r.acct = a
    BY <2>f DEF RequestRec
  <2>2. request' = [request EXCEPT ![q] = r] /\ Exists(a) /\ UNCHANGED <<rows, cache, task, notes>>
    BY <1>1 DEF RequestStart, SetRequest
  <2> HIDE DEF r
  <2>3. RequestBecomes(q, r)
    BY <2>1, <2>2 DEF RequestBecomes, RequestShape
  <2>5. RequestGoes(q, r)
    BY <1>0, <2>1, <2>2, <2>3 DEF RequestGoes, cache
  <2> QED
    BY <2>5
<1>2. CASE FindById(q)
  <2> SUFFICES ASSUME NEW hit, hit = byId[request[q].acct] PROVE Goal
    OBVIOUS
  <2> DEFINE r == [request[q] EXCEPT !.pc = IF hit = None THEN "read" ELSE "guard", !.loaded = hit]
  <2>1. request[q].pc = "get" /\ request[q].acct \in Acct /\ hit \in Loaded \cup {None}
    BY <1>0, <1>2 DEF FindById, RequestShape
  <2>2. r \in RequestRec /\ r.pc \in {"read", "guard"} /\ r.acct = request[q].acct
    BY <1>0, <2>1 DEF RequestRec
  <2>3. request' = [request EXCEPT ![q] = r] /\ UNCHANGED <<rows, cache, task, notes>>
    BY <1>2 DEF FindById, SetRequest
  <2> HIDE DEF r
  <2>4. RequestBecomes(q, r)
    BY <2>1, <2>2, <2>3 DEF RequestBecomes, RequestShape
  <2>5. RequestGoes(q, r)
    BY <1>0, <2>1, <2>2, <2>3, <2>4 DEF RequestGoes, cache
  <2> QED
    BY <2>5
<1>3. CASE ReadAccount(q)
  <2> SUFFICES ASSUME NEW found, found = Load(request[q].acct) PROVE Goal
    OBVIOUS
  <2> DEFINE r == [request[q] EXCEPT !.pc = IF found = None THEN "guard" ELSE "persist",
                                     !.loaded = found]
  <2>1. request[q].pc = "read" /\ request[q].acct \in Acct /\ found \in Loaded \cup {None}
    BY <1>0, <1>3, LoadTyped DEF ReadAccount, RequestShape
  <2>2. /\ r \in RequestRec /\ r.pc \in {"guard", "persist"} /\ r.acct = request[q].acct
        /\ r.loaded = found /\ (r.pc = "persist" => found \in Loaded)
    BY <1>0, <2>1 DEF RequestRec
  <2>3. request' = [request EXCEPT ![q] = r] /\ UNCHANGED <<rows, cache, task, notes>>
    BY <1>3 DEF ReadAccount, SetRequest
  <2> HIDE DEF r
  <2>4. RequestBecomes(q, r)
    BY <2>1, <2>2, <2>3 DEF RequestBecomes, RequestShape
  <2>5. RequestGoes(q, r)
    BY <1>0, <2>1, <2>2, <2>3, <2>4 DEF RequestGoes, cache
  <2> QED
    BY <2>5
<1>4. CASE PersistAccount(q)
  <2> DEFINE r == [request[q] EXCEPT !.pc = "guard"]
  <2>1. request[q].pc = "persist" /\ request[q].acct \in Acct /\ request[q].loaded \in Loaded
    BY <1>0, <1>4 DEF PersistAccount, RequestShape
  <2>2. r \in RequestRec /\ r.pc = "guard" /\ r.acct = request[q].acct
    BY <1>0, <2>1 DEF RequestRec
  <2>3. /\ request' = [request EXCEPT ![q] = r] /\ UNCHANGED <<rows, byName, task, notes>>
        /\ byId' = [byId EXCEPT ![request[q].acct] = request[q].loaded]
    BY <1>4 DEF PersistAccount, SetRequest
  <2> HIDE DEF r
  <2>4. RequestBecomes(q, r)
    BY <2>1, <2>2, <2>3 DEF RequestBecomes, RequestShape
  <2>5. RequestGoes(q, r)
    BY <1>0, <2>1, <2>2, <2>3, <2>4 DEF RequestGoes
  <2> QED
    BY <2>5
<1>5. CASE IdentityGuard(q)
  <2> DEFINE ok == request[q].loaded # None /\ request[q].loaded.status = "active"
             r == [IdleRequest EXCEPT !.pc = IF ok THEN "admitted" ELSE "refused",
                                      !.acct = request[q].acct]
  <2>1. request[q].pc = "guard" /\ request[q].acct \in Acct
    BY <1>0, <1>5 DEF IdentityGuard, RequestShape
  <2>2. request' = [request EXCEPT ![q] = r] /\ UNCHANGED <<rows, cache, task, notes>>
    BY <1>5 DEF IdentityGuard, SetRequest
  <2> HIDE DEF ok
  <2>3. r \in RequestRec /\ r.pc \in {"admitted", "refused"} /\ r.acct = request[q].acct
    BY <2>1 DEF RequestRec, IdleRequest
  <2> HIDE DEF r
  <2>4. RequestBecomes(q, r)
    BY <2>1, <2>2, <2>3 DEF RequestBecomes, RequestShape
  <2>5. RequestGoes(q, r)
    BY <1>0, <2>1, <2>2, <2>3, <2>4 DEF RequestGoes, cache
  <2> QED
    BY <2>5
<1> QED
  BY <1>1, <1>2, <1>3, <1>4, <1>5 DEF Requests

-----------------------------------------------------------------------------
(* What the steps of an operation do.                                        *)
OnlyTask(p) == task' \in [Admin -> TaskRec] /\ \A o \in Admin : o # p => task'[o] = task[o]
(* u is t at another place.                                                  *)
SameTask(t, u) == /\ u.op = t.op /\ u.acct = t.acct /\ u.name = t.name /\ u.status = t.status
                  /\ u.oldName = t.oldName /\ u.oldStatus = t.oldStatus

(* An operation goes to another place, where its fields have to be set.      *)
LEMMA GotoTurns ==
  ASSUME AcShape, NEW p \in Admin, NEW pc \in Found, Goto(p, pc), Busy(p),
         task[p].op # "create",
         task[p].oldName \in Name,
         pc \in {"nameSite", "nameOp", "saveIdentity", "saveAccount"} =>
           task[p].op = "update" /\ task[p].oldStatus \in Status,
         pc \in {"nameSite", "nameOp"} => task[p].name \in Name,
         pc = "saveAccount" => task[p].acct \in Op
  PROVE  \E t : TaskBecomes(p, t) /\ t.pc = pc /\ SameTask(task[p], t)
<1> DEFINE t == [task[p] EXCEPT !.pc = pc]
<1>0. task[p] \in TaskRec /\ TaskShape(task[p]) /\ task \in [Admin -> TaskRec] /\ task[p].pc # "idle"
  BY DEF AcShape, AcTypeOK, Busy
<1>1. t \in TaskRec /\ t.pc = pc /\ SameTask(task[p], t)
  BY <1>0 DEF TaskRec, TaskPc, Found, SameTask
<1>2. task' = [task EXCEPT ![p] = t]
  BY <1>0 DEF Goto
<1> HIDE DEF t
<1>3. TaskShape(t)
  BY <1>0, <1>1 DEF TaskShape, SameTask, Found
<1> QED
  BY <1>1, <1>2, <1>3 DEF TaskBecomes

LEMMA StopTurns ==
  ASSUME Distinct, AcShape, NEW p \in Admin, Stop(p)
  PROVE  TaskBecomes(p, IdleTask)
BY TaskIdle DEF Stop, TaskBecomes

(* An operation begins: nothing is written.                                  *)
Begins(p) ==
  \E a \in Acct :
    \/ \E n \in Name, s \in Status : CreateUser(p, Kind(a), n, s)
    \/ \E n \in Name \cup {None}, s \in Status \cup {None} : UpdateUser(p, a, n, s)
    \/ DeleteUser(p, a)
BeginGoes(p) ==
  /\ OnlyTask(p) /\ ~Busy(p) /\ task'[p].pc = "find"
  /\ crossed' = (crossed \/ \E o \in Admin \ {p} : Busy(o))
  /\ UNCHANGED <<rows, cache, request, excused, leaked>>

LEMMA BeginMoves ==
  ASSUME Distinct, AcShape, NEW p \in Admin, Begins(p)
  PROVE  AcShape' /\ BeginGoes(p)
<1>0. /\ crossed \in BOOLEAN /\ account \in [Acct -> AccountRow \cup {None}]
      /\ identity \in [Acct -> IdentityRow \cup {None}] /\ byId \in [Acct -> Loaded \cup {None}]
      /\ byName \in [Key -> Acct \cup {None}] /\ excused \in SUBSET Acct /\ leaked \in SUBSET Key
  BY DEF AcShape, AcTypeOK, Key
<1>1. ASSUME NEW t \in TaskRec, TaskShape(t), Begin(p, t), t.pc = "find"
      PROVE  AcShape' /\ BeginGoes(p)
  <2>1. TaskBecomes(p, t)
    BY <1>1 DEF Begin, TaskBecomes
  <2>2. crossed' \in BOOLEAN
    BY <1>0, <1>1 DEF Begin, Busy
  <2>3. AcShape'
    BY <1>0, <1>1, <2>1, <2>2, TaskStays DEF Begin, rows, cache
  <2>4. BeginGoes(p)
    BY <1>1, <2>1, TaskTyped DEF BeginGoes, OnlyTask, Begin
  <2> QED
    BY <2>3, <2>4
<1>2. ASSUME NEW k \in {"site", "op"}, NEW n \in Name, NEW s \in Status, CreateUser(p, k, n, s)
      PROVE  AcShape' /\ BeginGoes(p)
  <2> DEFINE t == [IdleTask EXCEPT !.pc = "find", !.op = "create", !.kind = k, !.name = n,
                                   !.status = s]
  <2>1. t \in TaskRec /\ t.pc = "find" /\ t.op = "create" /\ t.name = n /\ t.status = s
    BY DEF IdleTask, TaskRec, TaskPc
  <2>2. Begin(p, t)
    BY <1>2 DEF CreateUser
  <2> HIDE DEF t
  <2>3. TaskShape(t)
    BY <2>1 DEF TaskShape, Found
  <2> QED
    BY <1>1, <2>1, <2>2, <2>3
<1>3. ASSUME NEW a \in Acct, NEW n \in Name \cup {None}, NEW s \in Status \cup {None},
             UpdateUser(p, a, n, s)
      PROVE  AcShape' /\ BeginGoes(p)
  <2> DEFINE t == [IdleTask EXCEPT !.pc = "find", !.op = "update", !.acct = a, !.name = n,
                                   !.status = s]
  <2>1. t \in TaskRec /\ t.pc = "find" /\ t.op = "update" /\ t.acct = a /\ t.name = n
    BY DEF IdleTask, TaskRec, TaskPc
  <2>2. Begin(p, t) /\ (n = None \/ a \in Op)
    BY <1>3 DEF UpdateUser
  <2> HIDE DEF t
  <2>3. TaskShape(t)
    BY <2>1, <2>2 DEF TaskShape, Found
  <2> QED
    BY <1>1, <2>1, <2>2, <2>3
<1>4. ASSUME NEW a \in Acct, DeleteUser(p, a) PROVE AcShape' /\ BeginGoes(p)
  <2> DEFINE t == [IdleTask EXCEPT !.pc = "find", !.op = "delete", !.acct = a]
  <2>1. t \in TaskRec /\ t.pc = "find" /\ t.op = "delete" /\ t.acct = a
    BY DEF IdleTask, TaskRec, TaskPc
  <2>2. Begin(p, t)
    BY <1>4 DEF DeleteUser
  <2> HIDE DEF t
  <2>3. TaskShape(t)
    BY <2>1 DEF TaskShape, Found
  <2> QED
    BY <1>1, <2>1, <2>2, <2>3
<1> QED
  BY <1>2, <1>3, <1>4 DEF Begins, Kind

(* A create goes on when the table has no such name, or has it without an    *)
(* identity.                                                                 *)
FindNameGoes(p) ==
  /\ OnlyTask(p) /\ task[p].pc = "find" /\ task[p].op = "create"
  /\ \/ task'[p] = IdleTask
     \/ LET u == task'[p] IN
        /\ u.pc = "insert" /\ u.op = "create" /\ u.acct \in Acct
        /\ Holder(Kind(u.acct), u.name) = {} \/ u.acct \in Holder(Kind(u.acct), u.name)
  /\ UNCHANGED <<rows, cache, request, notes>>

(* A step that leaves all but the operation as it was.                       *)
LEMMA TaskOnly ==
  ASSUME AcShape, NEW p \in Admin, NEW t, TaskBecomes(p, t),
         UNCHANGED <<rows, cache, request, notes>>
  PROVE  AcShape' /\ OnlyTask(p) /\ task'[p] = t
<1>1. AcShape'
  BY TaskStays DEF AcShape, AcTypeOK, Key, rows, cache, notes
<1> QED
  BY <1>1, TaskTyped DEF OnlyTask

LEMMA FindNameMoves ==
  ASSUME Distinct, AcShape, NEW p \in Admin, FindName(p)
  PROVE  AcShape' /\ FindNameGoes(p)
<1>0. /\ task[p] \in TaskRec /\ TaskShape(task[p]) /\ task[p].pc = "find" /\ task[p].op = "create"
      /\ UNCHANGED <<rows, cache, request, notes>>
  BY DEF AcShape, AcTypeOK, FindName
<1>1. CASE Stop(p)
  BY <1>0, <1>1, StopTurns, TaskOnly DEF FindNameGoes
<1>2. ASSUME NEW a \in Acct, task' = [task EXCEPT ![p].pc = "insert", ![p].acct = a],
             Kind(a) = task[p].kind,
             Holder(Kind(a), task[p].name) = {} \/ a \in Holder(Kind(a), task[p].name)
      PROVE  AcShape' /\ FindNameGoes(p)
  <2> DEFINE u == [task[p] EXCEPT !.pc = "insert", !.acct = a]
  <2>1. /\ u \in TaskRec /\ u.pc = "insert" /\ u.acct = a /\ u.op = "create"
        /\ u.name = task[p].name /\ u.status = task[p].status
    BY <1>0 DEF TaskRec, TaskPc
  <2>2. task' = [task EXCEPT ![p] = u]
    BY <1>2 DEF AcShape, AcTypeOK
  <2> HIDE DEF u
  <2>3. TaskShape(u)
    BY <1>0, <2>1 DEF TaskShape, Found
  <2>4. TaskBecomes(p, u)
    BY <2>1, <2>2, <2>3 DEF TaskBecomes
  <2>5. AcShape' /\ OnlyTask(p) /\ task'[p] = u
    BY <1>0, <2>4, TaskOnly
  <2> QED
    BY <1>0, <1>2, <2>1, <2>5 DEF FindNameGoes
<1>3. \A a \in Fresh(task[p].kind) \cup Holder(task[p].kind, task[p].name) :
        a \in Acct /\ Kind(a) = task[p].kind
  BY DEF Fresh, Holder
<1> QED
  BY <1>1, <1>2, <1>3 DEF FindName

(* The rows after a write of one account.                                    *)
LEMMA RowsWritten ==
  ASSUME AcShape, NEW a \in Acct
  PROVE  /\ \A r \in AccountRow : [account EXCEPT ![a] = r] \in [Acct -> AccountRow \cup {None}]
         /\ \A r \in IdentityRow : [identity EXCEPT ![a] = r] \in [Acct -> IdentityRow \cup {None}]
         /\ NoteChange => excused' \in SUBSET Acct
BY DEF AcShape, AcTypeOK, NoteChange, Outrun

(* What an insert writes of its account.                                     *)
InsertGoes(p) ==
  LET t == task[p] a == task[p].acct IN
  /\ OnlyTask(p) /\ task'[p] = IdleTask /\ a \in Acct /\ t.name \in Name /\ t.pc = "insert"
  /\ \/ a \in Site /\ Known(a) /\ UNCHANGED account
     \/ /\ account' = [account EXCEPT ![a] = [name |-> t.name, deleted |-> FALSE]]
        /\ Known(a) => a \in Op /\ (account[a].name = t.name
                                    \/ <<"op", account[a].name>> \in leaked')
  /\ \E r \in IdentityRow : identity' = [identity EXCEPT ![a] = r]
  /\ excused' = excused \cup Outrun \cup (IF byId[a] # None THEN {a} ELSE {})
  /\ leaked \subseteq leaked'
  /\ UNCHANGED <<cache, request, crossed>>

(* An insert writes its account and the identity, and its operation ends.    *)
LEMMA InsertMoves ==
  ASSUME Distinct, AcShape, NEW p \in Admin, Insert(p)
  PROVE  AcShape' /\ InsertGoes(p)
<1> SUFFICES ASSUME NEW t, t = task[p], NEW a, a = t.acct PROVE AcShape' /\ InsertGoes(p)
  OBVIOUS
<1>0. /\ TaskShape(t) /\ t.pc = "insert" /\ Stop(p) /\ leaked \in SUBSET Key
      /\ account \in [Acct -> AccountRow \cup {None}] /\ excused \in SUBSET Acct
  BY DEF AcShape, AcTypeOK, Insert, Key
<1>1. a \in Acct /\ t.name \in Name /\ t.status \in Status
  BY <1>0 DEF TaskShape
<1>2. /\ [name |-> t.name, deleted |-> FALSE] \in AccountRow
      /\ [status |-> t.status, deleted |-> FALSE] \in IdentityRow
  BY <1>1 DEF AccountRow, IdentityRow
<1>3. /\ \/ a \in Site /\ Known(a) /\ UNCHANGED account
         \/ /\ Known(a) => a \in Op
            /\ account' = [account EXCEPT ![a] = [name |-> t.name, deleted |-> FALSE]]
      /\ identity' = [identity EXCEPT ![a] = [status |-> t.status, deleted |-> FALSE]]
      /\ excused' = excused \cup Outrun \cup (IF byId[a] # None THEN {a} ELSE {})
      /\ leaked' = leaked \cup (IF Known(a) /\ a \in Op
                                THEN {<<"op", account[a].name>>} \ {<<"op", t.name>>} ELSE {})
      /\ UNCHANGED <<cache, request, crossed>>
  BY <1>1 DEF Insert, Known, Acct
<1>4. /\ account' \in [Acct -> AccountRow \cup {None}]
      /\ identity' \in [Acct -> IdentityRow \cup {None}]
  BY <1>0, <1>1, <1>2, <1>3, RowsWritten
<1>5. excused' \in SUBSET Acct
  BY <1>0, <1>1, <1>3 DEF Outrun
<1>6. leaked' \in SUBSET Key
  <2>1. Known(a) => account[a].name \in Name
    BY <1>0, <1>1 DEF Known, AccountRow
  <2> QED
    BY <1>0, <1>3, <2>1 DEF Key
<1>7. TaskBecomes(p, IdleTask)
  BY <1>0, StopTurns
<1>8. AcShape'
  BY <1>3, <1>4, <1>5, <1>6, <1>7, TaskStays DEF AcShape, AcTypeOK, Key, cache
<1>9. OnlyTask(p) /\ task'[p] = IdleTask
  BY <1>7, TaskTyped DEF OnlyTask
<1>10. Known(a) /\ a \in Op /\ account[a].name # t.name => <<"op", account[a].name>> \in leaked'
  BY <1>3
<1> QED
  BY <1>0, <1>1, <1>2, <1>3, <1>8, <1>9, <1>10 DEF InsertGoes

(* A user is found, or the operation ends.                                   *)
FindUserGoes(p) ==
  /\ OnlyTask(p) /\ task[p].pc = "find" /\ task[p].op \in {"update", "delete"}
  /\ task'[p] # IdleTask =>
       /\ Exists(task[p].acct)
       /\ task'[p].op = task[p].op /\ task'[p].acct = task[p].acct /\ task'[p].name = task[p].name
       /\ task'[p].oldName = account[task[p].acct].name
       /\ \/ task'[p].pc = "remove"
          \/ task'[p].pc = "nameSite" /\ task[p].name # account[task[p].acct].name
          \/ task'[p].pc = "saveIdentity" /\ task[p].name \in {None, account[task[p].acct].name}
  /\ UNCHANGED <<rows, cache, request, notes>>

LEMMA FindUserMoves ==
  ASSUME Distinct, AcShape, NEW p \in Admin, FindUser(p)
  PROVE  AcShape' /\ FindUserGoes(p)
<1> SUFFICES ASSUME NEW t, t = task[p], NEW a, a = task[p].acct,
                    NEW n, n = account[a].name, NEW s, s = identity[a].status,
                    NEW ok, ok = (Exists(a) /\ Identified(a))
             PROVE  AcShape' /\ FindUserGoes(p)
  OBVIOUS
<1>0. /\ t \in TaskRec /\ TaskShape(t) /\ t.pc = "find" /\ t.op \in {"update", "delete"}
      /\ task \in [Admin -> TaskRec] /\ a \in Acct /\ t.acct = a
      /\ UNCHANGED <<rows, cache, request, notes>>
  BY DEF AcShape, AcTypeOK, FindUser, TaskShape
<1>1. CASE ~ok
  <2>1. Stop(p)
    BY <1>1 DEF FindUser
  <2> QED
    BY <1>0, <2>1, StopTurns, TaskOnly DEF FindUserGoes
<1>2. CASE ok
  <2> DEFINE pc == IF t.op = "delete" THEN "remove"
                   ELSE IF t.name \notin {None, n} THEN "nameSite" ELSE "saveIdentity"
             u == [t EXCEPT !.pc = pc, !.oldName = n, !.oldStatus = s]
  <2>1. n \in Name /\ s \in Status /\ Exists(a)
    BY <1>0, <1>2, LoadTyped
  <2>2. task' = [task EXCEPT ![p] = u]
    BY <1>0, <1>2 DEF FindUser
  <2>3. /\ pc \in {"remove", "nameSite", "saveIdentity"}
        /\ pc = "remove" <=> t.op = "delete"
        /\ pc = "nameSite" => t.name \notin {None, n}
        /\ pc = "saveIdentity" => t.name \in {None, n}
    OBVIOUS
  <2> HIDE DEF pc
  <2>4. /\ u \in TaskRec /\ u.pc = pc /\ u.op = t.op /\ u.acct = t.acct /\ u.name = t.name
        /\ u.oldName = n /\ u.oldStatus = s
    BY <1>0, <2>1, <2>3 DEF TaskRec, TaskPc
  <2> HIDE DEF u
  <2>5. TaskShape(u)
    <3>1. t.name \in Name \cup {None} /\ (t.op = "update" /\ t.name # None => t.acct \in Op)
      BY <1>0 DEF TaskRec, TaskShape
    <3> QED
      BY <1>0, <2>1, <2>3, <2>4, <3>1 DEF TaskShape, Found
  <2>6. TaskBecomes(p, u)
    BY <2>2, <2>4, <2>5 DEF TaskBecomes
  <2>7. AcShape' /\ OnlyTask(p) /\ task'[p] = u
    BY <1>0, <2>6, TaskOnly
  <2> QED
    BY <1>0, <2>1, <2>3, <2>4, <2>7 DEF FindUserGoes
<1> QED
  BY <1>1, <1>2, <1>0 DEF Exists, Identified

(* A name is looked up: x is the account that has it, or None.               *)
LookupGoes(p, k, x) ==
  /\ OnlyTask(p)
  /\ \/ k = "site" /\ task[p].pc = "nameSite"
     \/ k = "op" /\ task[p].pc = "nameOp"
  /\ \/ x = byName[<<k, task[p].name>>] /\ UNCHANGED byName
        /\ (x = None => Holder(k, task[p].name) = {})
     \/ x \in Holder(k, task[p].name) /\ byName' = [byName EXCEPT ![<<k, task[p].name>>] = x]
  /\ \/ task'[p] = IdleTask
     \/ task'[p].pc = "nameOp" /\ k = "site" /\ x = None /\ SameTask(task[p], task'[p])
     \/ /\ task'[p].pc = "saveIdentity" /\ k = "op" /\ x \in {None, task[p].acct}
        /\ SameTask(task[p], task'[p])
  /\ UNCHANGED <<rows, byId, request, notes>>

LEMMA LookupMoves ==
  ASSUME Distinct, AcShape, NEW p \in Admin, LookupName(p)
  PROVE  AcShape' /\ \E k \in {"site", "op"}, x \in Acct \cup {None} : LookupGoes(p, k, x)
<1> SUFFICES ASSUME NEW t, t = task[p], NEW n, n = task[p].name,
                    NEW k, k = IF task[p].pc = "nameSite" THEN "site" ELSE "op"
             PROVE  AcShape' /\ \E x \in Acct \cup {None} : LookupGoes(p, k, x)
  BY DEF LookupGoes
<1>0. /\ t \in TaskRec /\ TaskShape(t) /\ t.pc \in {"nameSite", "nameOp"} /\ t.name = n
      /\ n \in Name /\ k \in {"site", "op"} /\ <<k, n>> \in Key
      /\ t.op = "update" /\ t.oldStatus \in Status /\ t.oldName \in Name /\ t.acct \in Op
      /\ byName \in [Key -> Acct \cup {None}]
      /\ \A i \in Key : byName[i] # None => Kind(byName[i]) = i[1]
      /\ UNCHANGED <<rows, byId, request, notes>> /\ Busy(p)
      /\ \/ k = "site" /\ t.pc = "nameSite"
         \/ k = "op" /\ t.pc = "nameOp"
  <2>1. t \in TaskRec /\ TaskShape(t) /\ t.pc \in {"nameSite", "nameOp"}
    BY DEF AcShape, AcTypeOK, LookupName
  <2>2. n \in Name /\ t.op = "update" /\ t.oldStatus \in Status /\ t.oldName \in Name /\ t.acct \in Op
    BY <2>1 DEF TaskShape, Found, Distinct
  <2> QED
    BY <2>1, <2>2 DEF AcShape, AcTypeOK, LookupName, Key, Busy
<1> DEFINE Answer(x) == IF x # None /\ x # t.acct THEN Stop(p)
                        ELSE Goto(p, IF k = "site" /\ x = None THEN "nameOp" ELSE "saveIdentity")
<1>1. PICK x \in Acct \cup {None} :
        /\ Answer(x)
        /\ \/ x = byName[<<k, n>>] /\ UNCHANGED byName /\ (x = None => Holder(k, n) = {})
           \/ x \in Holder(k, n) /\ byName' = [byName EXCEPT ![<<k, n>>] = x]
  BY <1>0 DEF LookupName, Holder
<1>2. x # None => Kind(x) = k
  BY <1>0, <1>1 DEF Holder
<1>3. \E u : /\ TaskBecomes(p, u)
             /\ \/ u = IdleTask
                \/ u.pc = "nameOp" /\ k = "site" /\ x = None /\ SameTask(t, u)
                \/ u.pc = "saveIdentity" /\ k = "op" /\ x \in {None, t.acct} /\ SameTask(t, u)
  <2>1. CASE x # None /\ x # t.acct
    BY <1>1, <2>1, StopTurns
  <2>2. CASE k = "site" /\ x = None
    <3>1. Goto(p, "nameOp")
      BY <1>1, <2>2
    <3>2. \E u : TaskBecomes(p, u) /\ u.pc = "nameOp" /\ SameTask(t, u)
      BY <1>0, <3>1, GotoTurns DEF TaskPc, Found
    <3> QED
      BY <2>2, <3>2
  <2>3. CASE x \in {None, t.acct} /\ ~(k = "site" /\ x = None)
    <3>1. Goto(p, "saveIdentity")
      BY <1>1, <2>3
    <3>2. k = "op"
      BY <1>0, <1>2, <2>3 DEF Kind
    <3>3. \E u : TaskBecomes(p, u) /\ u.pc = "saveIdentity" /\ SameTask(t, u)
      BY <1>0, <3>1, GotoTurns DEF TaskPc, Found
    <3> QED
      BY <2>3, <3>2, <3>3
  <2> QED
    BY <2>1, <2>2, <2>3
<1>4. /\ byName' \in [Key -> Acct \cup {None}]
      /\ \A i \in Key : byName'[i] # None => byName'[i] = byName[i] \/ Kind(byName'[i]) = i[1]
  BY <1>0, <1>1, <1>2
<1>5. PICK u : /\ TaskBecomes(p, u)
               /\ \/ u = IdleTask
                  \/ u.pc = "nameOp" /\ k = "site" /\ x = None /\ SameTask(t, u)
                  \/ u.pc = "saveIdentity" /\ k = "op" /\ x \in {None, t.acct} /\ SameTask(t, u)
  BY <1>3
<1>6. AcShape'
  BY <1>0, <1>4, <1>5, TaskStays DEF AcShape, AcTypeOK, Key, rows, notes
<1>7. LookupGoes(p, k, x)
  BY <1>0, <1>1, <1>5, TaskTyped DEF LookupGoes, OnlyTask
<1> QED
  BY <1>6, <1>7

(* The saves: the operation goes on from the account it wrote.               *)
LEMMA SaveIdentityMoves ==
  ASSUME Distinct, AcShape, NEW p \in Admin, SaveIdentity(p)
  PROVE  /\ AcShape' /\ OnlyTask(p) /\ task[p].acct \in Acct
         /\ \/ task[p].acct \in Site /\ task'[p] = IdleTask
            \/ /\ task[p].acct \in Op /\ task'[p].pc = "saveAccount"
               /\ SameTask(task[p], task'[p])
<1>0. /\ task[p] \in TaskRec /\ TaskShape(task[p]) /\ task[p].pc = "saveIdentity"
  BY DEF AcShape, AcTypeOK, SaveIdentity
<1>1. /\ task[p].acct \in Acct /\ task[p].oldName \in Name /\ task[p].op = "update"
      /\ task[p].oldStatus \in Status
  BY <1>0 DEF TaskShape, Found
<1>2. [status |-> IF task[p].status = None THEN task[p].oldStatus ELSE task[p].status,
       deleted |-> FALSE] \in IdentityRow
  BY <1>0, <1>1 DEF IdentityRow, TaskRec
<1>3. identity' \in [Acct -> IdentityRow \cup {None}] /\ excused' \in SUBSET Acct
  BY <1>1, <1>2, RowsWritten DEF SaveIdentity
<1>4. ASSUME NEW t, TaskBecomes(p, t) PROVE AcShape' /\ OnlyTask(p) /\ task'[p] = t
  <2>1. AcShape'
    BY <1>3, <1>4, TaskStays DEF SaveIdentity, AcShape, AcTypeOK, Key, cache
  <2> QED
    BY <1>4, <2>1, TaskTyped DEF OnlyTask
<1>5. CASE task[p].acct \in Op
  <2>1. Goto(p, "saveAccount")
    BY <1>5 DEF SaveIdentity
  <2>2. \E t : TaskBecomes(p, t) /\ t.pc = "saveAccount" /\ SameTask(task[p], t)
    BY <1>0, <1>1, <1>5, <2>1, GotoTurns DEF TaskPc, Found, Busy
  <2> QED
    BY <1>1, <1>4, <1>5, <2>2
<1>6. CASE task[p].acct \notin Op
  <2>1. Stop(p)
    BY <1>6 DEF SaveIdentity
  <2> QED
    BY <1>1, <1>4, <1>6, <2>1, StopTurns DEF Acct
<1> QED
  BY <1>5, <1>6

NewName(t) == IF t.name = None THEN t.oldName ELSE t.name
SaveAccountGoes(p) ==
  LET t == task[p] u == task'[p] IN
  /\ OnlyTask(p) /\ t.pc = "saveAccount" /\ t.acct \in Op /\ NewName(t) \in Name
  /\ u.pc = "evict" /\ u.acct = t.acct /\ u.oldName = NewName(t) /\ u.op = t.op
  /\ account' = [account EXCEPT ![t.acct] = [name |-> NewName(t), deleted |-> FALSE]]
  /\ leaked' = leaked \cup
       {<<"op", m>> : m \in {t.oldName, account[t.acct].name} \ {NewName(t)}}
  /\ UNCHANGED <<identity, cache, request, crossed>>
  /\ NoteChange

(* An account saved is one found: only rows that are there are written.      *)
LEMMA SaveAccountMoves ==
  ASSUME Distinct, AcShape, NEW p \in Admin, SaveAccount(p), Known(task[p].acct)
  PROVE  AcShape' /\ SaveAccountGoes(p)
<1> SUFFICES ASSUME NEW t, t = task[p], NEW n, n = NewName(t), NEW a, a = t.acct
             PROVE  AcShape' /\ SaveAccountGoes(p)
  OBVIOUS
<1>0. /\ t \in TaskRec /\ TaskShape(t) /\ t.pc = "saveAccount" /\ task \in [Admin -> TaskRec]
  BY DEF AcShape, AcTypeOK, SaveAccount
<1>1. /\ a \in Acct /\ a \in Op /\ t.oldName \in Name /\ t.op = "update" /\ n \in Name
  BY <1>0 DEF TaskShape, Found, NewName, TaskRec
<1>2. /\ account' = [account EXCEPT ![a] = [name |-> n, deleted |-> FALSE]]
      /\ leaked' = leaked \cup {<<"op", m>> : m \in {t.oldName, account[a].name} \ {n}}
      /\ task' = [task EXCEPT ![p].pc = "evict", ![p].oldName = n]
      /\ UNCHANGED <<identity, cache, request, crossed>> /\ NoteChange
  BY DEF SaveAccount, NewName
<1>3. account' \in [Acct -> AccountRow \cup {None}] /\ excused' \in SUBSET Acct
  <2>1. [name |-> n, deleted |-> FALSE] \in AccountRow
    BY <1>1 DEF AccountRow
  <2> QED
    BY <1>1, <1>2, <2>1, RowsWritten
<1>4. leaked' \in SUBSET Key
  <2>1. account[a].name \in Name
    BY <1>1 DEF AcShape, AcTypeOK, Known, AccountRow
  <2>2. leaked \in SUBSET Key
    BY DEF AcShape, AcTypeOK, Key
  <2> QED
    BY <1>1, <1>2, <2>1, <2>2 DEF Key
<1> DEFINE u == [t EXCEPT !.pc = "evict", !.oldName = n]
<1>5. /\ u \in TaskRec /\ u.pc = "evict" /\ u.acct = a /\ u.oldName = n /\ u.op = t.op
      /\ u.name = t.name /\ u.oldStatus = t.oldStatus
  BY <1>0, <1>1 DEF TaskRec, TaskPc
<1>6. task' = [task EXCEPT ![p] = u]
  BY <1>0, <1>2
<1> HIDE DEF u
<1>7. TaskShape(u)
  BY <1>0, <1>1, <1>5 DEF TaskShape, Found
<1>8. TaskBecomes(p, u)
  BY <1>5, <1>6, <1>7 DEF TaskBecomes
<1>9. AcShape'
  BY <1>2, <1>3, <1>4, <1>8, TaskStays DEF AcShape, AcTypeOK, Key, cache
<1> QED
  BY <1>0, <1>1, <1>2, <1>5, <1>8, <1>9, TaskTyped DEF OnlyTask, SaveAccountGoes

(* A user soft-deleted: only its account is written.                         *)
SoftDeleteGoes(p) ==
  LET t == task[p] a == task[p].acct u == task'[p] IN
  /\ OnlyTask(p) /\ t.pc = "remove" /\ a \in Acct /\ t.oldName \in Name
  /\ u.pc = "evict" /\ SameTask(t, u)
  /\ account' = [account EXCEPT ![a] = [account[a] EXCEPT !.deleted = TRUE]]
  /\ leaked' = leaked \cup (IF a \in Site THEN {<<"site", account[a].name>>}
                            ELSE {<<"op", account[a].name>>} \ {<<"op", t.oldName>>})
  /\ UNCHANGED <<cache, request, crossed>>
  /\ NoteChange

LEMMA SoftDeleteMoves ==
  ASSUME Distinct, AcShape, NEW p \in Admin, SoftDelete(p), Known(task[p].acct),
         identity[task[p].acct] # None
  PROVE  AcShape' /\ SoftDeleteGoes(p)
<1> SUFFICES ASSUME NEW t, t = task[p], NEW a, a = t.acct
             PROVE  AcShape' /\ SoftDeleteGoes(p)
  OBVIOUS
<1>0. /\ t \in TaskRec /\ TaskShape(t) /\ t.pc = "remove" /\ task \in [Admin -> TaskRec]
      /\ account \in [Acct -> AccountRow \cup {None}]
      /\ identity \in [Acct -> IdentityRow \cup {None}] /\ leaked \in SUBSET Key
  BY DEF AcShape, AcTypeOK, SoftDelete, Key
<1>1. a \in Acct /\ t.oldName \in Name
  BY <1>0 DEF TaskShape, Found
<1>2. /\ account' = [account EXCEPT ![a] = [account[a] EXCEPT !.deleted = TRUE]]
      /\ identity' = [identity EXCEPT ![a] = [identity[a] EXCEPT !.deleted = TRUE]]
      /\ Goto(p, "evict") /\ UNCHANGED <<cache, request, crossed>> /\ NoteChange
      /\ leaked' = leaked \cup (IF a \in Site THEN {<<"site", account[a].name>>}
                                ELSE {<<"op", account[a].name>>} \ {<<"op", t.oldName>>})
  BY <1>0 DEF SoftDelete
<1>3. /\ account[a] \in AccountRow /\ account[a].name \in Name /\ identity[a] \in IdentityRow
      /\ [account[a] EXCEPT !.deleted = TRUE] \in AccountRow
      /\ [identity[a] EXCEPT !.deleted = TRUE] \in IdentityRow
  BY <1>0, <1>1 DEF Known, AccountRow, IdentityRow
<1>4. /\ account' \in [Acct -> AccountRow \cup {None}]
      /\ identity' \in [Acct -> IdentityRow \cup {None}] /\ excused' \in SUBSET Acct
  BY <1>1, <1>2, <1>3, RowsWritten
<1>5. leaked' \in SUBSET Key
  BY <1>0, <1>2, <1>3 DEF Key
<1>6. t.op # "create"
  BY <1>0 DEF TaskShape
<1>7. PICK u : TaskBecomes(p, u) /\ u.pc = "evict" /\ SameTask(t, u)
  BY <1>0, <1>1, <1>2, <1>6, GotoTurns DEF TaskPc, Found, Busy
<1>8. AcShape'
  BY <1>2, <1>4, <1>5, <1>7, TaskStays DEF AcShape, AcTypeOK, Key, cache
<1> QED
  BY <1>0, <1>1, <1>2, <1>7, <1>8, TaskTyped DEF OnlyTask, SoftDeleteGoes

(* An eviction, and a death, end the operation.                              *)
LEMMA ClearMoves ==
  ASSUME Distinct, AcShape, NEW p \in Admin, ClearAccountCache(p)
  PROVE  /\ AcShape' /\ OnlyTask(p) /\ task'[p] = IdleTask /\ task[p].acct \in Acct
         /\ task[p].oldName \in Name /\ byName' \in [Key -> Acct \cup {None}]
<1> SUFFICES ASSUME NEW t, t = task[p]
             PROVE  /\ AcShape' /\ OnlyTask(p) /\ task'[p] = IdleTask /\ t.acct \in Acct
                    /\ t.oldName \in Name /\ byName' \in [Key -> Acct \cup {None}]
  OBVIOUS
<1>0. /\ TaskShape(t) /\ t.pc = "evict" /\ Stop(p) /\ UNCHANGED <<rows, request, crossed>>
      /\ byName \in [Key -> Acct \cup {None}] /\ byId \in [Acct -> Loaded \cup {None}]
      /\ leaked \in SUBSET Key /\ excused \in SUBSET Acct
  BY DEF AcShape, AcTypeOK, ClearAccountCache, Key
<1>1. t.acct \in Acct /\ t.oldName \in Name
  BY <1>0 DEF TaskShape, Found
<1>2. /\ byName' \in [Key -> Acct \cup {None}] /\ byId' \in [Acct -> Loaded \cup {None}]
      /\ \A i \in Key : byName'[i] \in {byName[i], None}
      /\ leaked' \in SUBSET Key /\ excused' \in SUBSET Acct
  BY <1>0, <1>1 DEF ClearAccountCache
<1>3. TaskBecomes(p, IdleTask)
  BY <1>0, StopTurns
<1>4. AcShape'
  BY <1>0, <1>2, <1>3, TaskStays DEF AcShape, AcTypeOK, Key, rows
<1> QED
  BY <1>1, <1>2, <1>3, <1>4, TaskTyped DEF OnlyTask

LEMMA DiesMoves ==
  ASSUME Distinct, AcShape, NEW p \in Admin, TaskDies(p)
  PROVE  AcShape' /\ OnlyTask(p) /\ task'[p] = IdleTask
<1>1. TaskBecomes(p, IdleTask)
  BY StopTurns DEF TaskDies
<1>2. task[p].pc = "evict" => task[p].oldName \in Name
  BY DEF AcShape, TaskShape, Found
<1>3. leaked' \in SUBSET Key /\ excused' \in SUBSET Acct
  BY <1>2 DEF TaskDies, AcShape, AcTypeOK, Key
<1>4. AcShape'
  BY <1>1, <1>3, TaskStays DEF TaskDies, AcShape, AcTypeOK, Key, rows, cache
<1> QED
  BY <1>1, <1>4, TaskTyped DEF OnlyTask

-----------------------------------------------------------------------------
(* Rows are found before they are written.                                   *)
(* A request is for an account that is there.                                *)
LEMMA RequestRows ==
  ASSUME Distinct, AcShape, RowsFound, NEW q \in Request, NEW r, RequestGoes(q, r)
  PROVE  RowsFound'
<1>1. UNCHANGED <<account, identity, task>>
  BY DEF RequestGoes, rows
<1>2. \A o \in Request : request'[o] = IF o = q THEN r ELSE request[o]
  BY RequestTyped DEF RequestGoes
<1>3. Known(r.acct)
  BY LoadTyped DEF RequestGoes, RowsFound
<1>4. \A a \in Acct : ~Known(a) => byId'[a] = None
  <2>1. /\ byId \in [Acct -> Loaded \cup {None}]
        /\ request[q].pc = "persist" => Known(request[q].acct)
    BY DEF RowsFound, AcShape, AcTypeOK
  <2>2. \A a \in Acct : \/ byId'[a] = byId[a]
                        \/ request[q].pc = "persist" /\ a = request[q].acct
    BY <2>1 DEF RequestGoes
  <2> QED
    BY <2>1, <2>2 DEF RowsFound
<1> QED
  BY <1>1, <1>2, <1>3, <1>4 DEF RowsFound, Known

(* A step that makes no account known.                                       *)
LEMMA TaskRows ==
  ASSUME RowsFound, NEW p \in Admin, OnlyTask(p), UNCHANGED request,
         \A a \in Acct : /\ Known(a)' <=> Known(a)
                         /\ identity'[a] # None <=> identity[a] # None
                         /\ byId'[a] \in {byId[a], None},
         \A o \in Admin : TaskShape(task[o]) /\ TaskShape(task'[o]),
         \A q \in Request : RequestShape(request[q]),
         task'[p].pc \in Found => Known(task'[p].acct)
  PROVE  RowsFound'
<1>1. \A o \in Admin : task'[o].pc \in Found => task'[o].acct \in Acct /\ Known(task'[o].acct)
  BY DEF RowsFound, OnlyTask, TaskShape, Found
<1>2. \A o \in Admin : task'[o].pc \in Found => account'[task'[o].acct] # None
  BY <1>1 DEF Known
<1>4. ASSUME NEW q \in Request, request[q].pc # "idle" PROVE account'[request[q].acct] # None
  BY <1>4 DEF RequestShape, RowsFound, Known
<1>5. \A a \in Acct : /\ account'[a] = None => byId'[a] = None
                      /\ account'[a] # None <=> identity'[a] # None
  <2>1. \A a \in Acct : /\ account[a] = None => byId[a] = None
                        /\ account[a] # None <=> identity[a] # None
    BY DEF RowsFound, Known
  <2> QED
    BY <2>1 DEF Known
<1> QED
  BY <1>2, <1>4, <1>5 DEF RowsFound, Known

(* An operation that begins has found nothing yet.                           *)
LEMMA BeginRows ==
  ASSUME AcShape, RowsFound, NEW p \in Admin, BeginGoes(p)
  PROVE  RowsFound'
BY DEF BeginGoes, OnlyTask, RowsFound, Known, Found, rows, cache

(* The account inserted is known from then on.                               *)
LEMMA InsertRows ==
  ASSUME Distinct, AcShape, RowsFound, NEW p \in Admin, Insert(p)
  PROVE  RowsFound'
<1> SUFFICES ASSUME NEW a, a = task[p].acct PROVE RowsFound'
  OBVIOUS
<1>1. /\ InsertGoes(p) /\ OnlyTask(p) /\ task'[p] = IdleTask /\ a \in Acct
      /\ task[p].name \in Name /\ \A o \in Admin : TaskShape(task[o])
  BY InsertMoves DEF AcShape, InsertGoes
<1>2. UNCHANGED <<byId, request>>
  BY <1>1 DEF InsertGoes, cache
<1>3. \A c \in Acct : account'[c] # None <=> c = a \/ Known(c)
  <2>1. [name |-> task[p].name, deleted |-> FALSE] \in AccountRow
    BY <1>1 DEF AccountRow
  <2>2. [name |-> task[p].name, deleted |-> FALSE] # None
    BY <2>1 DEF Distinct
  <2> QED
    BY <1>1, <2>2 DEF InsertGoes, AcShape, AcTypeOK, Known
<1>4. \A c \in Acct : identity'[c] # None <=> c = a \/ identity[c] # None
  BY <1>1 DEF InsertGoes, AcShape, AcTypeOK, Distinct
<1>5. \A o \in Admin : task'[o].pc \in Found =>
        task'[o].acct \in Acct /\ Known(task'[o].acct)
  BY <1>1, TaskIdle DEF OnlyTask, RowsFound, TaskShape, Found
<1>6. \A q \in Request : request[q].pc # "idle" => account'[request[q].acct] # None
  BY <1>3 DEF RowsFound, AcShape, RequestShape
<1> QED
  BY <1>2, <1>3, <1>4, <1>5, <1>6 DEF RowsFound, Known

(* The other steps of an operation.                                          *)
Goes(p) == FindName(p) \/ FindUser(p) \/ LookupName(p) \/ SaveIdentity(p) \/ SaveAccount(p)
             \/ SoftDelete(p) \/ ClearAccountCache(p) \/ TaskDies(p)
LEMMA TasksRows ==
  ASSUME Distinct, AcShape, RowsFound, NEW p \in Admin, Goes(p)
  PROVE  AcShape' /\ RowsFound'
<1> SUFFICES ASSUME NEW t, t = task[p], NEW u, u = task'[p], NEW a, a = t.acct
             PROVE  AcShape' /\ RowsFound'
  OBVIOUS
<1>0. /\ account \in [Acct -> AccountRow \cup {None}] /\ byId \in [Acct -> Loaded \cup {None}]
      /\ identity \in [Acct -> IdentityRow \cup {None}]
      /\ t.pc \in Found => a \in Acct /\ Known(a) /\ identity[a] # None
      /\ TaskShape(t)
  <2>1. TaskShape(t) /\ (t.pc \in Found => a \in Acct)
    BY DEF AcShape, TaskShape, Found
  <2>2. /\ t.pc \in Found => Known(a)
        /\ \A c \in Acct : Known(c) <=> identity[c] # None
    BY DEF RowsFound
  <2> QED
    BY <2>1, <2>2 DEF AcShape, AcTypeOK
<1>a. ASSUME AcShape', OnlyTask(p), UNCHANGED request,
             \A c \in Acct : /\ account'[c] # None <=> account[c] # None
                             /\ identity'[c] # None <=> identity[c] # None
                             /\ byId'[c] \in {byId[c], None},
             u.pc \in Found => Known(u.acct)
      PROVE  RowsFound'
  BY <1>a, TaskRows DEF AcShape, Known
<1>i. IdleTask.pc \notin Found
  BY TaskIdle DEF Found
<1>1. CASE FindName(p)
  <2>1. AcShape' /\ FindNameGoes(p)
    BY <1>1, FindNameMoves
  <2> QED
    BY <1>a, <1>i, <2>1 DEF FindNameGoes, rows, cache, Found
<1>2. CASE FindUser(p)
  <2>1. AcShape' /\ FindUserGoes(p) /\ a \in Acct
    BY <1>0, <1>2, FindUserMoves DEF TaskShape, FindUserGoes
  <2>2. u # IdleTask => Known(u.acct)
    BY <2>1, LoadTyped DEF FindUserGoes
  <2> QED
    BY <1>a, <1>i, <2>1, <2>2 DEF FindUserGoes, rows, cache
<1>3. CASE LookupName(p)
  <2>1. AcShape' /\ \E k \in {"site", "op"}, x \in Acct \cup {None} : LookupGoes(p, k, x)
    BY <1>3, LookupMoves
  <2>2. /\ OnlyTask(p) /\ t.pc \in Found /\ UNCHANGED <<rows, byId, request>>
        /\ u = IdleTask \/ SameTask(t, u)
    BY <2>1 DEF LookupGoes, Found
  <2> QED
    BY <1>0, <1>a, <1>i, <2>1, <2>2 DEF SameTask, rows
<1>4. CASE SaveIdentity(p)
  <2>1. AcShape' /\ OnlyTask(p) /\ a \in Acct /\ (u = IdleTask \/ SameTask(t, u))
    BY <1>4, SaveIdentityMoves
  <2>2. /\ UNCHANGED <<account, cache, request>> /\ t.pc \in Found
        /\ \A c \in Acct \ {a} : identity'[c] = identity[c]
    BY <1>0, <1>4, <2>1 DEF SaveIdentity, Found
  <2>3. identity'[a] # None
    <3>1. t.oldStatus \in Status /\ t \in TaskRec
      BY <1>0, <1>4 DEF SaveIdentity, TaskShape, AcShape, AcTypeOK
    <3>2. [status |-> IF t.status = None THEN t.oldStatus ELSE t.status, deleted |-> FALSE]
             \in IdentityRow
      BY <3>1 DEF IdentityRow, TaskRec
    <3> QED
      BY <1>0, <1>4, <2>1, <3>2 DEF SaveIdentity, Distinct
  <2> QED
    BY <1>0, <1>a, <1>i, <2>1, <2>2, <2>3 DEF SameTask, cache
<1>5. CASE SaveAccount(p)
  <2>1. t.pc \in Found
    BY <1>5 DEF SaveAccount, Found
  <2>2. AcShape' /\ SaveAccountGoes(p) /\ Known(a) /\ a \in Acct
    BY <1>0, <1>5, <2>1, SaveAccountMoves
  <2>3. account'[a] # None
    <3>1. [name |-> NewName(t), deleted |-> FALSE] \in AccountRow
      BY <2>2 DEF SaveAccountGoes, AccountRow
    <3> QED
      BY <1>0, <2>2, <3>1 DEF SaveAccountGoes, Distinct
  <2>4. \A c \in Acct \ {a} : account'[c] = account[c]
    BY <1>0, <2>2 DEF SaveAccountGoes
  <2>5. u.op = t.op /\ u.acct = a /\ OnlyTask(p) /\ UNCHANGED <<identity, cache, request>>
    BY <2>2 DEF SaveAccountGoes
  <2> QED
    BY <1>a, <2>2, <2>3, <2>4, <2>5 DEF cache, Known
<1>6. CASE SoftDelete(p)
  <2>1. t.pc \in Found
    BY <1>6 DEF SoftDelete, Found
  <2>2. AcShape' /\ SoftDeleteGoes(p) /\ Known(a) /\ a \in Acct
    BY <1>0, <1>6, <2>1, SoftDeleteMoves
  <2>3. /\ account[a] \in AccountRow /\ [account[a] EXCEPT !.deleted = TRUE] \in AccountRow
        /\ identity[a] \in IdentityRow /\ [identity[a] EXCEPT !.deleted = TRUE] \in IdentityRow
    BY <1>0, <2>1, <2>2 DEF Known, AccountRow, IdentityRow
  <2>4. /\ account' = [account EXCEPT ![a] = [account[a] EXCEPT !.deleted = TRUE]]
        /\ identity' = [identity EXCEPT ![a] = [identity[a] EXCEPT !.deleted = TRUE]]
    BY <1>0, <1>6, <2>2 DEF SoftDelete, SoftDeleteGoes
  <2>5. \A c \in Acct : /\ account'[c] # None <=> account[c] # None
                        /\ identity'[c] # None <=> identity[c] # None
    BY <1>0, <2>2, <2>3, <2>4 DEF Distinct
  <2>6. u.op = t.op /\ u.acct = a /\ OnlyTask(p) /\ UNCHANGED <<cache, request>>
    BY <2>2 DEF SoftDeleteGoes, SameTask
  <2> QED
    BY <1>a, <2>2, <2>5, <2>6 DEF cache
<1>7. CASE ClearAccountCache(p)
  <2>1. AcShape' /\ OnlyTask(p) /\ u = IdleTask
    BY <1>7, ClearMoves
  <2> QED
    BY <1>0, <1>7, <1>a, <1>i, <2>1 DEF ClearAccountCache, rows
<1>8. CASE TaskDies(p)
  <2>1. AcShape' /\ OnlyTask(p) /\ u = IdleTask
    BY <1>8, DiesMoves
  <2> QED
    BY <1>8, <1>a, <1>i, <2>1 DEF TaskDies, rows, cache
<1> QED
  BY <1>1, <1>2, <1>3, <1>4, <1>5, <1>6, <1>7, <1>8 DEF Goes

-----------------------------------------------------------------------------
(* The cached account, and what a request is about to cache.                 *)
SomeoneOwes(a) == \E p \in Admin : Owes(p, a)
CacheHolds == (\A q \in Request : RequestHolds(request[q])) /\ OpAccountCacheFresh

(* What a request would load depends on the rows only.                       *)
LEMMA LoadSame ==
  ASSUME UNCHANGED rows, NEW a
  PROVE  Load(a)' = Load(a)
BY DEF rows, Load, Exists, Identified

(* A step that writes rows: who writes owes the eviction.                    *)
LEMMA WriteKeeps ==
  ASSUME AcShape, CacheHolds, excused \cup Outrun \subseteq excused', UNCHANGED <<byId, request>>,
         \A a \in Op : SomeoneOwes(a) => SomeoneOwes(a)',
         \A a \in Op : Load(a)' # Load(a) => SomeoneOwes(a)' \/ byId[a] = None \/ a \in excused'
  PROVE  CacheHolds'
<1>1. ASSUME NEW q \in Request PROVE RequestHolds(request[q])'
  <2> SUFFICES ASSUME NEW r, r = request[q], r.pc = "persist", NEW a, a = r.acct, a \notin excused'
               PROVE  r.loaded = Load(a)'
    BY DEF RequestHolds
  <2>1. a \in Acct /\ Filling(a)
    BY DEF AcShape, RequestShape, Filling
  <2>2. a \notin excused /\ Load(a)' = Load(a)
    BY <2>1 DEF Outrun
  <2> QED
    BY <2>2 DEF CacheHolds, RequestHolds
<1>2. ASSUME NEW a \in Op, byId'[a] \notin {None, Load(a)'}, a \notin excused'
      PROVE  SomeoneOwes(a)'
  <2>1. a \notin excused
    BY <1>2
  <2>2. CASE Load(a)' = Load(a)
    BY <1>2, <2>1, <2>2 DEF CacheHolds, OpAccountCacheFresh, SomeoneOwes
  <2> QED
    BY <1>2, <2>2
<1> QED
  BY <1>1, <1>2 DEF CacheHolds, OpAccountCacheFresh, SomeoneOwes

(* A step that writes no row, and takes back no excuse that is needed.       *)
LEMMA OffRowsKeeps ==
  ASSUME AcShape, CacheHolds, UNCHANGED <<rows, request>>,
         \A a \in Acct : \/ byId'[a] = None
                         \/ /\ byId'[a] = byId[a]
                            /\ SomeoneOwes(a) => SomeoneOwes(a)' \/ a \in excused',
         \A a \in Acct : \/ a \in excused => a \in excused'
                         \/ byId'[a] = None /\ ~Filling(a)
  PROVE  CacheHolds'
<1>0. \A a \in Acct : Load(a)' = Load(a)
  BY LoadSame
<1>1. ASSUME NEW q \in Request PROVE RequestHolds(request[q])'
  <2> SUFFICES ASSUME NEW r, r = request[q], r.pc = "persist", NEW a, a = r.acct, a \notin excused'
               PROVE  r.loaded = Load(a)'
    BY DEF RequestHolds
  <2>1. a \in Acct /\ Filling(a)
    BY DEF AcShape, RequestShape, Filling
  <2>2. a \notin excused
    BY <2>1
  <2> QED
    BY <1>0, <2>1, <2>2 DEF CacheHolds, RequestHolds
<1>2. ASSUME NEW a \in Op, byId'[a] \notin {None, Load(a)'}, a \notin excused'
      PROVE  SomeoneOwes(a)'
  BY <1>0, <1>2 DEF CacheHolds, OpAccountCacheFresh, SomeoneOwes, Acct
<1> QED
  BY <1>1, <1>2 DEF CacheHolds, OpAccountCacheFresh, SomeoneOwes

(* A request caches what it has read, which is so or noted.                  *)
LEMMA RequestKeeps ==
  ASSUME AcShape, CacheHolds, NEW q \in Request, NEW r, RequestGoes(q, r)
  PROVE  CacheHolds'
<1>0. /\ \A a \in Acct : Load(a)' = Load(a)
      /\ UNCHANGED <<task, excused>> /\ byId \in [Acct -> Loaded \cup {None}]
      /\ \A o \in Request : request'[o] = IF o = q THEN r ELSE request[o]
  BY LoadSame, RequestTyped DEF RequestGoes, notes, AcShape, AcTypeOK
<1>1. ASSUME NEW o \in Request PROVE RequestHolds(request[o])'
  <2> SUFFICES ASSUME NEW s, s = request'[o], s.pc = "persist", NEW a, a = s.acct
               PROVE  s.loaded = Load(a)' \/ a \in excused'
    BY DEF RequestHolds
  <2>1. CASE o = q
    BY <1>0, <2>1 DEF RequestGoes
  <2>2. CASE o # q
    BY <1>0, <2>2 DEF CacheHolds, RequestHolds, AcShape, RequestShape
  <2> QED
    BY <2>1, <2>2
<1>2. \A a \in Acct : byId'[a] \in {None, byId[a], Load(a)} \/ a \in excused
  BY <1>0 DEF RequestGoes, CacheHolds, RequestHolds
<1>3. \A a \in Acct : SomeoneOwes(a)' <=> SomeoneOwes(a)
  BY <1>0 DEF SomeoneOwes, Owes
<1> QED
  BY <1>0, <1>1, <1>2, <1>3 DEF CacheHolds, OpAccountCacheFresh, SomeoneOwes, Acct

(* An operation owes the eviction of the one account it writes.              *)
LEMMA TasksKeep ==
  ASSUME Distinct, AcShape, RowsFound, CacheHolds, NEW p \in Admin,
         Begins(p) \/ Insert(p) \/ Goes(p)
  PROVE  CacheHolds'
<1> SUFFICES ASSUME NEW t, t = task[p], NEW u, u = task'[p], NEW a, a = t.acct
             PROVE  CacheHolds'
  OBVIOUS
<1>0. /\ account \in [Acct -> AccountRow \cup {None}] /\ byId \in [Acct -> Loaded \cup {None}]
      /\ identity \in [Acct -> IdentityRow \cup {None}] /\ TaskShape(t)
      /\ t.pc \in Found => a \in Acct /\ Known(a) /\ identity[a] # None
  <2>1. TaskShape(t) /\ (t.pc \in Found => a \in Acct)
    BY DEF AcShape, TaskShape, Found
  <2> QED
    BY <2>1 DEF AcShape, AcTypeOK, RowsFound
<1>a. ASSUME OnlyTask(p), NEW c \in Acct,
             Owes(p, c) => u.acct = c /\ u.pc \in {"saveAccount", "evict"},
             SomeoneOwes(c)
      PROVE  SomeoneOwes(c)'
  BY <1>a DEF OnlyTask, SomeoneOwes, Owes
<1>b. ASSUME OnlyTask(p), t.pc \notin {"saveAccount", "evict"},
             UNCHANGED <<rows, byId, request, excused>>
      PROVE  CacheHolds'
  <2>1. \A c \in Acct : ~Owes(p, c)
    BY <1>b DEF Owes
  <2>2. \A c \in Acct : SomeoneOwes(c) => SomeoneOwes(c)'
    BY <1>a, <1>b, <2>1
  <2> QED
    BY <1>b, <2>2, OffRowsKeeps
<1>c. ASSUME OnlyTask(p), excused \cup Outrun \subseteq excused', UNCHANGED <<byId, request>>,
             a \in Acct, \A c \in Acct : c # a => Load(c)' = Load(c),
             t.pc \in {"saveAccount", "evict"} => u.pc \in {"saveAccount", "evict"} /\ u.acct = a,
             a \in Op /\ byId[a] # None =>
               (u.pc \in {"saveAccount", "evict"} /\ u.acct = a) \/ a \in excused'
      PROVE  CacheHolds'
  <2>1. \A c \in Op : SomeoneOwes(c) => SomeoneOwes(c)'
    BY <1>a, <1>c DEF Owes, Acct
  <2>2. \A c \in Op : Load(c)' # Load(c) => SomeoneOwes(c)' \/ byId[c] = None \/ c \in excused'
    BY <1>c DEF SomeoneOwes, Owes, Acct
  <2> QED
    BY <1>c, <2>1, <2>2, WriteKeeps
<1>d. ASSUME a \in Acct,
             \A c \in Acct : c # a => account'[c] = account[c] /\ identity'[c] = identity[c]
      PROVE  \A c \in Acct : c # a => Load(c)' = Load(c)
  BY <1>d DEF Load, Exists, Identified
<1>1. CASE Begins(p)
  BY <1>1, <1>b, BeginMoves DEF BeginGoes, Busy, cache
<1>2. CASE Insert(p)
  <2>1. InsertGoes(p) /\ OnlyTask(p) /\ a \in Acct /\ t.pc = "insert"
    BY <1>2, InsertMoves DEF InsertGoes
  <2>2. /\ UNCHANGED <<byId, request>> /\ excused \cup Outrun \subseteq excused'
        /\ byId[a] # None => a \in excused'
    BY <2>1 DEF InsertGoes, cache
  <2>3. \A c \in Acct : c # a => account'[c] = account[c] /\ identity'[c] = identity[c]
    BY <1>0, <2>1 DEF InsertGoes
  <2> QED
    BY <1>c, <1>d, <2>1, <2>2, <2>3
<1>3. CASE FindName(p)
  BY <1>3, <1>b, FindNameMoves DEF FindNameGoes, cache, notes
<1>4. CASE FindUser(p)
  BY <1>4, <1>b, FindUserMoves DEF FindUserGoes, cache, notes
<1>5. CASE LookupName(p)
  <2>1. \E k \in {"site", "op"}, x \in Acct \cup {None} : LookupGoes(p, k, x)
    BY <1>5, LookupMoves
  <2> QED
    BY <1>b, <2>1 DEF LookupGoes, notes
<1>6. CASE SaveIdentity(p)
  <2>1. /\ OnlyTask(p) /\ a \in Acct /\ t.pc = "saveIdentity"
        /\ a \in Op => u.pc = "saveAccount" /\ u.acct = a
    BY <1>6, SaveIdentityMoves DEF SameTask, SaveIdentity, Distinct
  <2>2. excused \cup Outrun \subseteq excused' /\ UNCHANGED <<byId, request>>
    BY <1>6 DEF SaveIdentity, NoteChange, cache
  <2>3. \A c \in Acct : c # a => account'[c] = account[c] /\ identity'[c] = identity[c]
    BY <1>0, <1>6, <2>1 DEF SaveIdentity
  <2> QED
    BY <1>c, <1>d, <2>1, <2>2, <2>3
<1>7. CASE SaveAccount(p)
  <2>1. t.pc \in Found
    BY <1>7 DEF SaveAccount, Found
  <2>2. SaveAccountGoes(p) /\ a \in Acct
    BY <1>0, <1>7, <2>1, SaveAccountMoves
  <2>3. /\ OnlyTask(p) /\ u.pc = "evict" /\ u.acct = a /\ UNCHANGED <<byId, request>>
        /\ excused \cup Outrun \subseteq excused'
    BY <2>2 DEF SaveAccountGoes, NoteChange, cache
  <2>4. \A c \in Acct : c # a => account'[c] = account[c] /\ identity'[c] = identity[c]
    BY <1>0, <2>2 DEF SaveAccountGoes
  <2> QED
    BY <1>c, <1>d, <2>2, <2>3, <2>4
<1>8. CASE SoftDelete(p)
  <2>1. t.pc \in Found
    BY <1>8 DEF SoftDelete, Found
  <2>2. SoftDeleteGoes(p) /\ a \in Acct
    BY <1>0, <1>8, <2>1, SoftDeleteMoves
  <2>3. /\ OnlyTask(p) /\ u.pc = "evict" /\ u.acct = a /\ UNCHANGED <<byId, request>>
        /\ excused \cup Outrun \subseteq excused'
    BY <2>2 DEF SoftDeleteGoes, SameTask, NoteChange, cache
  <2>4. \A c \in Acct : c # a => account'[c] = account[c] /\ identity'[c] = identity[c]
    BY <1>0, <1>8, <2>2 DEF SoftDeleteGoes, SoftDelete
  <2> QED
    BY <1>c, <1>d, <2>2, <2>3, <2>4
<1>9. CASE ClearAccountCache(p)
  <2>1. OnlyTask(p) /\ a \in Acct
    BY <1>9, ClearMoves
  <2>2. /\ UNCHANGED <<rows, request>> /\ byId' = [byId EXCEPT ![a] = None]
        /\ excused' = IF Filling(a) THEN excused ELSE excused \ {a}
    BY <1>9 DEF ClearAccountCache
  <2>3. byId'[a] = None /\ \A c \in Acct : c # a => byId'[c] = byId[c]
    BY <1>0, <2>1, <2>2
  <2>4. \A c \in Acct : c # a /\ SomeoneOwes(c) => SomeoneOwes(c)'
    BY <1>a, <2>1 DEF Owes
  <2> QED
    BY <2>1, <2>2, <2>3, <2>4, OffRowsKeeps
<1>10. CASE TaskDies(p)
  <2>1. OnlyTask(p)
    BY <1>10, DiesMoves
  <2>2. /\ UNCHANGED <<rows, request, byId>> /\ excused' = excused \cup {c \in Acct : Owes(p, c)}
    BY <1>10 DEF TaskDies, cache
  <2>3. \A c \in Acct : SomeoneOwes(c) => SomeoneOwes(c)' \/ c \in excused'
    BY <1>a, <2>1, <2>2
  <2> QED
    BY <2>2, <2>3, OffRowsKeeps
<1> QED
  BY <1>1, <1>2, <1>3, <1>4, <1>5, <1>6, <1>7, <1>8, <1>9, <1>10 DEF Goes

-----------------------------------------------------------------------------
(* The entries of names.                                                     *)
SomeEvicts(n) == \E p \in Admin : EvictsName(p, n)

(* No entry comes to be wrong but those noted.                               *)
LEMMA NamesKept ==
  ASSUME AcShape, NamesTracked,
         \A k \in {"site", "op"}, n \in Name :
           \/ byName'[<<k, n>>] = None
           \/ /\ byName'[<<k, n>>] = byName[<<k, n>>]
              /\ <<k, n>> \in leaked => <<k, n>> \in leaked'
              /\ SomeEvicts(n) /\ k = "op" => <<k, n>> \in leaked' \/ SomeEvicts(n)'
           \/ byName'[<<k, n>>] \in Holder(k, n)',
         \A k \in {"site", "op"}, n \in Name, x \in Acct :
           x \in Holder(k, n) => \/ x \in Holder(k, n)' \/ <<k, n>> \in leaked'
                                 \/ k = "op" /\ SomeEvicts(n)'
  PROVE  NamesTracked'
<1>1. ASSUME NEW k \in {"site", "op"}, NEW n \in Name, byName'[<<k, n>>] # None,
             byName'[<<k, n>>] \notin Holder(k, n)'
      PROVE  <<k, n>> \in leaked' \/ (k = "op" /\ SomeEvicts(n)')
  <2>1. byName'[<<k, n>>] = byName[<<k, n>>] /\ byName[<<k, n>>] \in Acct
    BY <1>1 DEF AcShape, AcTypeOK
  <2>2. CASE byName[<<k, n>>] \in Holder(k, n)
    BY <1>1, <2>1, <2>2
  <2>3. CASE byName[<<k, n>>] \notin Holder(k, n)
    BY <1>1, <2>1, <2>3 DEF NamesTracked, SomeEvicts
  <2> QED
    BY <2>2, <2>3
<1> QED
  BY <1>1 DEF NamesTracked, SomeEvicts

(* Who holds a name depends on the accounts only.                            *)
LEMMA HolderSame ==
  ASSUME UNCHANGED account
  PROVE  \A k, n : Holder(k, n)' = Holder(k, n)
BY DEF Holder, Exists

LEMMA RequestNames ==
  ASSUME AcShape, NamesTracked, NEW q \in Request, NEW r, RequestGoes(q, r)
  PROVE  NamesTracked'
<1>1. UNCHANGED <<account, byName, task, leaked>>
  BY DEF RequestGoes, rows, notes
<1>2. \A n : SomeEvicts(n)' <=> SomeEvicts(n)
  BY <1>1 DEF SomeEvicts, EvictsName
<1> QED
  BY <1>1, <1>2, HolderSame, NamesKept

(* A holder loses its name to a save, which leaves the entry, or to a        *)
(* deletion, which leaves or evicts it.                                      *)
LEMMA TasksNames ==
  ASSUME Distinct, AcShape, RowsFound, NamesTracked, NEW p \in Admin,
         Begins(p) \/ Insert(p) \/ Goes(p)
  PROVE  NamesTracked'
<1> SUFFICES ASSUME NEW t, t = task[p], NEW u, u = task'[p], NEW a, a = t.acct
             PROVE  NamesTracked'
  OBVIOUS
<1>0. /\ account \in [Acct -> AccountRow \cup {None}] /\ byName \in [Key -> Acct \cup {None}]
      /\ TaskShape(t)
      /\ t.pc \in Found => a \in Acct /\ Known(a) /\ identity[a] # None /\ account[a] \in AccountRow
  <2>1. TaskShape(t) /\ (t.pc \in Found => a \in Acct)
    BY DEF AcShape, TaskShape, Found
  <2>2. t.pc \in Found => Known(a) /\ identity[a] # None
    BY <2>1 DEF RowsFound
  <2> QED
    BY <2>1, <2>2 DEF AcShape, AcTypeOK, Known, Key
<1>a. ASSUME OnlyTask(p), NEW n,
             EvictsName(p, n) => u.pc = "evict" /\ u.acct \in Op /\ u.oldName = n,
             SomeEvicts(n)
      PROVE  SomeEvicts(n)'
  BY <1>a DEF OnlyTask, SomeEvicts, EvictsName
<1>b. ASSUME OnlyTask(p), t.pc # "evict", UNCHANGED <<account, byName, leaked>>
      PROVE  NamesTracked'
  <2>1. \A n : SomeEvicts(n) => SomeEvicts(n)'
    BY <1>a, <1>b DEF EvictsName
  <2> QED
    BY <1>b, <2>1, HolderSame, NamesKept
<1>c. ASSUME a \in Acct, \A c \in Acct : c # a => account'[c] = account[c]
      PROVE  \A k, n : \A c \in Holder(k, n) : c # a => c \in Holder(k, n)'
  BY <1>c DEF Holder, Exists
<1>1. CASE Begins(p)
  BY <1>1, <1>b, BeginMoves DEF BeginGoes, Busy, rows, cache
<1>2. CASE Insert(p)
  <2>1. InsertGoes(p) /\ OnlyTask(p) /\ a \in Acct /\ t.name \in Name /\ t.pc = "insert"
    BY <1>2, InsertMoves DEF InsertGoes
  <2>2. /\ UNCHANGED byName /\ leaked \subseteq leaked'
        /\ \A c \in Acct : c # a => account'[c] = account[c]
    BY <1>0, <2>1 DEF InsertGoes, cache
  <2>3. [name |-> t.name, deleted |-> FALSE] # None
    <3>1. [name |-> t.name, deleted |-> FALSE] \in AccountRow
      BY <2>1 DEF AccountRow
    <3> QED
      BY <3>1 DEF Distinct
  <2>4. \A k, n : a \in Holder(k, n) => a \in Holder(k, n)' \/ <<k, n>> \in leaked'
    <3>1. CASE UNCHANGED account
      BY <3>1, HolderSame
    <3>2. CASE account' = [account EXCEPT ![a] = [name |-> t.name, deleted |-> FALSE]]
      <4>1. Exists(a)' /\ account'[a].name = t.name
        BY <1>0, <2>1, <2>3, <3>2 DEF Exists
      <4>2. \A k, n : a \in Holder(k, n) => account[a].name = n /\ Kind(a) = k /\ Known(a)
        BY DEF Holder, Exists, Known
      <4> QED
        BY <2>1, <4>1, <4>2 DEF InsertGoes, Holder, Kind
    <3> QED
      BY <2>1, <3>1, <3>2 DEF InsertGoes
  <2>5. \A n : SomeEvicts(n) => SomeEvicts(n)'
    BY <1>a, <2>1 DEF EvictsName
  <2>6. \A k, n : \A c \in Holder(k, n) : c \in Holder(k, n)' \/ <<k, n>> \in leaked'
    BY <1>c, <2>1, <2>2, <2>4
  <2> QED
    BY <2>1, <2>2, <2>5, <2>6, NamesKept
<1>3. CASE FindName(p)
  BY <1>3, <1>b, FindNameMoves DEF FindNameGoes, rows, cache, notes
<1>4. CASE FindUser(p)
  BY <1>4, <1>b, FindUserMoves DEF FindUserGoes, rows, cache, notes
<1>5. CASE LookupName(p)
  <2>1. PICK k \in {"site", "op"}, x \in Acct \cup {None} : LookupGoes(p, k, x)
    BY <1>5, LookupMoves
  <2>2. /\ OnlyTask(p) /\ UNCHANGED <<account, leaked>> /\ t.pc \in {"nameSite", "nameOp"}
        /\ t.name \in Name
    BY <1>0, <2>1 DEF LookupGoes, rows, notes, TaskShape
  <2>3. CASE UNCHANGED byName
    BY <1>b, <2>2, <2>3
  <2>4. CASE x \in Holder(k, t.name) /\ byName' = [byName EXCEPT ![<<k, t.name>>] = x]
    <3>1. \A n : SomeEvicts(n) => SomeEvicts(n)'
      BY <1>a, <2>2 DEF EvictsName
    <3>2. \A l \in {"site", "op"}, n \in Name :
            byName'[<<l, n>>] = byName[<<l, n>>] \/ byName'[<<l, n>>] \in Holder(l, n)'
      BY <1>0, <2>2, <2>4, HolderSame DEF Key
    <3> QED
      BY <2>2, <3>1, <3>2, HolderSame, NamesKept
  <2> QED
    BY <2>1, <2>3, <2>4 DEF LookupGoes
<1>6. CASE SaveIdentity(p)
  BY <1>6, <1>b, SaveIdentityMoves DEF SaveIdentity, cache
<1>7. CASE SaveAccount(p)
  <2>1. t.pc \in Found
    BY <1>7 DEF SaveAccount, Found
  <2>2. SaveAccountGoes(p) /\ a \in Acct
    BY <1>0, <1>7, <2>1, SaveAccountMoves
  <2>3. /\ OnlyTask(p) /\ t.pc = "saveAccount" /\ UNCHANGED byName /\ Kind(a) = "op"
        /\ account' = [account EXCEPT ![a] = [name |-> NewName(t), deleted |-> FALSE]]
        /\ leaked' = leaked \cup {<<"op", m>> : m \in {t.oldName, account[a].name} \ {NewName(t)}}
    BY <2>2 DEF SaveAccountGoes, cache, Kind
  <2>4. \A n : SomeEvicts(n) => SomeEvicts(n)'
    BY <1>a, <2>3 DEF EvictsName
  <2>5. [name |-> NewName(t), deleted |-> FALSE] # None
    <3>1. [name |-> NewName(t), deleted |-> FALSE] \in AccountRow
      BY <2>2 DEF SaveAccountGoes, AccountRow
    <3> QED
      BY <3>1 DEF Distinct
  <2>6. Exists(a)' /\ account'[a].name = NewName(t)
    BY <1>0, <2>2, <2>3, <2>5 DEF Exists
  <2>7. \A k, n : a \in Holder(k, n) => a \in Holder(k, n)' \/ <<k, n>> \in leaked'
    BY <2>2, <2>3, <2>6 DEF Holder
  <2>8. \A c \in Acct : c # a => account'[c] = account[c]
    BY <1>0, <2>3
  <2>9. \A k, n : \A c \in Holder(k, n) : c \in Holder(k, n)' \/ <<k, n>> \in leaked'
    BY <1>c, <2>2, <2>7, <2>8
  <2> QED
    BY <2>3, <2>4, <2>9, NamesKept
<1>8. CASE SoftDelete(p)
  <2>1. t.pc \in Found
    BY <1>8 DEF SoftDelete, Found
  <2>2. SoftDeleteGoes(p) /\ a \in Acct
    BY <1>0, <1>8, <2>1, SoftDeleteMoves
  <2>3. /\ OnlyTask(p) /\ t.pc = "remove" /\ UNCHANGED byName
        /\ u.pc = "evict" /\ u.acct = a /\ u.oldName = t.oldName
        /\ account' = [account EXCEPT ![a] = [account[a] EXCEPT !.deleted = TRUE]]
        /\ leaked' = leaked \cup (IF a \in Site THEN {<<"site", account[a].name>>}
                                  ELSE {<<"op", account[a].name>>} \ {<<"op", t.oldName>>})
    BY <2>2 DEF SoftDeleteGoes, cache, SameTask
  <2>4. \A n : SomeEvicts(n) => SomeEvicts(n)'
    BY <1>a, <2>3 DEF EvictsName
  <2>5. \A k, n : a \in Holder(k, n) =>
          <<k, n>> \in leaked' \/ (k = "op" /\ n = t.oldName /\ a \in Op)
    BY <2>2, <2>3 DEF Holder, Kind, Distinct, Acct
  <2>6. a \in Op => SomeEvicts(t.oldName)'
    BY <2>3 DEF SomeEvicts, EvictsName
  <2>7. \A c \in Acct : c # a => account'[c] = account[c]
    BY <1>0, <2>3
  <2>8. \A k, n : \A c \in Holder(k, n) :
          c \in Holder(k, n)' \/ <<k, n>> \in leaked' \/ (k = "op" /\ SomeEvicts(n)')
    <3> SUFFICES ASSUME NEW k, NEW n, NEW c \in Holder(k, n)
                 PROVE  c \in Holder(k, n)' \/ <<k, n>> \in leaked' \/ (k = "op" /\ SomeEvicts(n)')
      OBVIOUS
    <3>1. CASE c = a /\ <<k, n>> \notin leaked'
      BY <2>5, <2>6, <3>1
    <3>2. CASE c # a
      BY <1>c, <2>2, <2>7, <3>2
    <3> QED
      BY <3>1, <3>2
  <2> QED
    BY <2>3, <2>4, <2>8, NamesKept
<1>9. CASE ClearAccountCache(p)
  <2>1. /\ OnlyTask(p) /\ u = IdleTask /\ a \in Acct /\ t.oldName \in Name
        /\ UNCHANGED account
    BY <1>9, ClearMoves DEF ClearAccountCache, rows
  <2>2. leaked' = {k \in leaked : a \in Site \/ k[2] # t.oldName}
    BY <1>9 DEF ClearAccountCache
  <2>3. \A n : SomeEvicts(n) => SomeEvicts(n)' \/ (a \in Op /\ n = t.oldName)
    BY <1>a, <2>1 DEF EvictsName
  <2>4. CASE a \in Op
    <3>1. byName' = [byName EXCEPT ![<<"op", t.oldName>>] = None, ![<<"site", t.oldName>>] = None]
      BY <1>9, <2>4 DEF ClearAccountCache
    <3>2. \A k \in {"site", "op"}, n \in Name :
            IF n = t.oldName THEN byName'[<<k, n>>] = None
                             ELSE byName'[<<k, n>>] = byName[<<k, n>>]
      BY <1>0, <2>1, <3>1 DEF Key
    <3>3. \A k \in {"site", "op"}, n \in Name :
            n # t.oldName /\ <<k, n>> \in leaked => <<k, n>> \in leaked'
      BY <2>2
    <3> QED
      BY <2>1, <2>3, <3>2, <3>3, HolderSame, NamesKept
  <2>5. CASE a \notin Op
    <3>1. UNCHANGED byName
      BY <1>9, <2>5 DEF ClearAccountCache
    <3>2. leaked' = leaked
      BY <2>1, <2>2, <2>5 DEF Acct
    <3> QED
      BY <2>1, <2>3, <2>5, <3>1, <3>2, HolderSame, NamesKept
  <2> QED
    BY <2>4, <2>5
<1>10. CASE TaskDies(p)
  <2>1. /\ OnlyTask(p) /\ UNCHANGED <<account, byName>>
        /\ leaked' = leaked \cup (IF t.pc = "evict" THEN {<<"op", t.oldName>>} ELSE {})
    BY <1>10, DiesMoves DEF TaskDies, rows, cache
  <2>2. \A n : SomeEvicts(n) => SomeEvicts(n)' \/ <<"op", n>> \in leaked'
    BY <1>a, <2>1 DEF EvictsName
  <2> QED
    BY <2>1, <2>2, HolderSame, NamesKept
<1> QED
  BY <1>1, <1>2, <1>3, <1>4, <1>5, <1>6, <1>7, <1>8, <1>9, <1>10 DEF Goes

-----------------------------------------------------------------------------
(* The invariant.                                                            *)
LEMMA AcInitHolds ==
  ASSUME Distinct, AcInit
  PROVE  AcInv /\ AcAlone
<1>1. /\ \A p \in Admin : task[p] = IdleTask /\ task[p].pc = "idle" /\ task[p].op = "none"
      /\ \A q \in Request : request[q] = IdleRequest /\ request[q].pc = "idle"
  BY TaskIdle, RequestIdle DEF AcInit
<1>2. AcShape
  BY <1>1, TaskIdle, RequestIdle DEF AcInit, AcShape, AcTypeOK, Key
<1>3. RowsFound
  BY <1>1 DEF AcInit, RowsFound, Known, Found
<1>4. CacheHolds
  BY <1>1 DEF AcInit, CacheHolds, RequestHolds, OpAccountCacheFresh, Acct
<1>5. NamesTracked
  BY DEF AcInit, NamesTracked
<1>6. AcAlone
  BY <1>1 DEF AcAlone, Busy, AloneHolds
<1> QED
  BY <1>2, <1>3, <1>4, <1>5, <1>6 DEF AcInv, CacheHolds

(* A step is a request's or an operation's.                                  *)
LEMMA NextSplits ==
  ASSUME AcNext
  PROVE  \/ \E q \in Request : Requests(q) \/ \E a \in Acct : RequestStart(q, a)
         \/ \E p \in Admin : Begins(p) \/ Insert(p) \/ Goes(p)
BY DEF AcNext, Requests, Begins, Goes

LEMMA AcStep ==
  ASSUME Distinct, AcInv, [AcNext]_acVars
  PROVE  AcInv'
<1>0. AcShape /\ RowsFound /\ CacheHolds /\ NamesTracked
  BY DEF AcInv, CacheHolds
<1>a. ASSUME AcShape', RowsFound', CacheHolds', NamesTracked' PROVE AcInv'
  BY <1>a DEF AcInv, CacheHolds
<1>1. ASSUME NEW q \in Request, Requests(q) \/ \E a \in Acct : RequestStart(q, a) PROVE AcInv'
  <2>1. PICK r : RequestGoes(q, r)
    BY <1>0, <1>1, RequestMoves
  <2>2. AcShape'
    BY <1>0, <2>1, RequestStays DEF RequestGoes
  <2> QED
    BY <1>0, <1>a, <2>1, <2>2, RequestRows, RequestKeeps, RequestNames
<1>2. ASSUME NEW p \in Admin, Begins(p) \/ Insert(p) \/ Goes(p) PROVE AcInv'
  <2>1. AcShape' /\ RowsFound'
    BY <1>0, <1>2, BeginMoves, BeginRows, InsertMoves, InsertRows, TasksRows
  <2> QED
    BY <1>0, <1>2, <1>a, <2>1, TasksKeep, TasksNames
<1>3. CASE UNCHANGED acVars
  <2>1. UNCHANGED <<account, identity, byId, byName, task, request, excused, leaked, crossed>>
    BY <1>3 DEF acVars
  <2>2. AcShape' /\ RowsFound'
    BY <1>0, <2>1 DEF AcShape, AcTypeOK, RowsFound, Known, Kind
  <2>3. CacheHolds'
    BY <1>0, <2>1, OffRowsKeeps DEF rows, SomeoneOwes, Owes
  <2>4. NamesTracked'
    BY <1>0, <2>1, HolderSame DEF NamesTracked, EvictsName
  <2> QED
    BY <1>a, <2>2, <2>3, <2>4
<1> QED
  BY <1>1, <1>2, <1>3, NextSplits

LEMMA InvImplies ==
  ASSUME AcInv
  PROVE  AcTypeOK /\ OpAccountCacheFresh /\ NameEntryFresh
BY DEF AcInv, AcShape, NamesTracked, NameEntryFresh, EvictsName

(* For any accounts, names, operations and requests: the account cached of a *)
(* back-office user is the one in the database, and the entry of a name      *)
(* names its holder, but for the exceptions the properties name.             *)
THEOREM CachedAccountsFresh ==
  ASSUME Distinct
  PROVE  AcSpec => [](AcTypeOK /\ OpAccountCacheFresh /\ NameEntryFresh)
<1>1. AcInit => AcInv
  BY AcInitHolds
<1>2. AcInv /\ [AcNext]_acVars => AcInv'
  BY AcStep
<1>3. AcInv => AcTypeOK /\ OpAccountCacheFresh /\ NameEntryFresh
  BY InvImplies
<1> QED
  BY <1>1, <1>2, <1>3, PTL DEF AcSpec

-----------------------------------------------------------------------------
(* Operations that do not overlap.                                           *)
(* A step of an operation in progress.                                       *)
LEMMA TaskGoesOn ==
  ASSUME Distinct, AcInv, NEW p \in Admin, Insert(p) \/ Goes(p)
  PROVE  OnlyTask(p) /\ Busy(p) /\ UNCHANGED crossed
<1>0. AcShape /\ RowsFound /\ TaskShape(task[p])
  BY DEF AcInv, AcShape
<1>1. task[p].pc \in Found =>
        Known(task[p].acct) /\ task[p].acct \in Acct /\ identity[task[p].acct] # None
  BY <1>0 DEF RowsFound, TaskShape, Found
<1>2. CASE Insert(p)
  BY <1>0, <1>2, InsertMoves DEF InsertGoes, Busy
<1>3. CASE FindName(p)
  BY <1>0, <1>3, FindNameMoves DEF FindNameGoes, Busy, notes
<1>4. CASE FindUser(p)
  BY <1>0, <1>4, FindUserMoves DEF FindUserGoes, Busy, notes
<1>5. CASE LookupName(p)
  BY <1>0, <1>5, LookupMoves DEF LookupGoes, LookupName, Busy, notes
<1>6. CASE SaveIdentity(p)
  BY <1>0, <1>6, SaveIdentityMoves DEF SaveIdentity, Busy
<1>7. CASE SaveAccount(p)
  BY <1>0, <1>1, <1>7, SaveAccountMoves DEF SaveAccount, SaveAccountGoes, Busy, Found
<1>8. CASE SoftDelete(p)
  BY <1>0, <1>1, <1>8, SoftDeleteMoves DEF SoftDelete, SoftDeleteGoes, Busy, Found
<1>9. CASE ClearAccountCache(p)
  BY <1>0, <1>9, ClearMoves DEF ClearAccountCache, Busy
<1>10. CASE TaskDies(p)
  BY <1>0, <1>10, DiesMoves DEF TaskDies
<1> QED
  BY <1>2, <1>3, <1>4, <1>5, <1>6, <1>7, <1>8, <1>9, <1>10 DEF Goes

(* What the operation that runs alone knows after its step.                  *)
LEMMA AloneGoesOn ==
  ASSUME Distinct, AcInv, NEW p \in Admin, Insert(p) \/ Goes(p), AloneHolds(task[p]),
         \A o \in Admin : Busy(o) => o = p
  PROVE  AloneHolds(task[p])'
<1> SUFFICES ASSUME NEW t, t = task[p], NEW u, u = task'[p], NEW a, a = t.acct
             PROVE  AloneHolds(task[p])'
  OBVIOUS
<1>0. AcShape /\ RowsFound /\ TaskShape(t) /\ AloneHolds(t) /\ NamesTracked
  BY DEF AcInv, AcShape
<1>1. t.pc \in Found => Known(a) /\ a \in Acct /\ identity[a] # None
  BY <1>0 DEF RowsFound, TaskShape, Found
<1>i. IdleTask.pc = "idle"
  BY DEF IdleTask
<1>a. ASSUME u.pc \in {"idle", "find", "remove", "evict"} PROVE AloneHolds(task[p])'
  BY <1>a DEF AloneHolds
<1>b. ASSUME UNCHANGED account, leaked \subseteq leaked', u.acct = a,
             u.pc \in {"nameSite", "nameOp", "saveIdentity", "saveAccount"} =>
               Exists(a) /\ account[a].name = u.oldName,
             u.pc \in {"nameSite", "nameOp"} => u.name # u.oldName,
             u.pc # "insert",
             u.pc \in {"saveIdentity", "saveAccount"} /\ u.name \notin {None, u.oldName} =>
               Holder("op", u.name) = {} \/ <<"op", u.name>> \in leaked
      PROVE  AloneHolds(task[p])'
  BY <1>b DEF AloneHolds, Exists, Holder, Kind
<1>2. CASE Insert(p)
  BY <1>0, <1>2, <1>a, <1>i, InsertMoves DEF InsertGoes
<1>3. CASE FindName(p)
  <2>1. FindNameGoes(p)
    BY <1>0, <1>3, FindNameMoves
  <2>2. CASE u = IdleTask
    BY <1>a, <1>i, <2>2
  <2>3. CASE u # IdleTask
    <3>1. /\ u.pc = "insert" /\ UNCHANGED account
          /\ Holder(Kind(u.acct), u.name) = {} \/ u.acct \in Holder(Kind(u.acct), u.name)
      BY <2>1, <2>3 DEF FindNameGoes, rows
    <3>2. Kind(u.acct)' = Kind(u.acct)
      BY DEF Kind
    <3> QED
      BY <3>1, HolderSame DEF AloneHolds, Holder, Exists, Kind
  <2> QED
    BY <2>2, <2>3
<1>4. CASE FindUser(p)
  <2>1. FindUserGoes(p)
    BY <1>0, <1>4, FindUserMoves
  <2>2. CASE u = IdleTask
    BY <1>a, <1>i, <2>2
  <2>3. CASE u # IdleTask
    BY <1>b, <2>1, <2>3 DEF FindUserGoes, rows, notes
  <2> QED
    BY <2>2, <2>3
<1>5. CASE LookupName(p)
  <2>1. PICK k \in {"site", "op"}, x \in Acct \cup {None} : LookupGoes(p, k, x)
    BY <1>0, <1>5, LookupMoves
  <2>2. CASE u = IdleTask
    BY <1>a, <1>i, <2>2
  <2>3. CASE u # IdleTask
    <3>1. /\ t.pc \in {"nameSite", "nameOp"} /\ SameTask(t, u) /\ UNCHANGED <<account, leaked>>
          /\ u.pc = "nameOp" \/ (u.pc = "saveIdentity" /\ k = "op" /\ x \in {None, a})
      BY <2>1, <2>3 DEF LookupGoes, rows, notes
    <3>2. Exists(a) /\ account[a].name = t.oldName /\ t.name # t.oldName /\ t.name \in Name
      BY <1>0, <3>1 DEF AloneHolds, TaskShape
    <3>3. k = "op" /\ x \in {None, a} => Holder("op", t.name) = {} \/ <<"op", t.name>> \in leaked
      <4> SUFFICES ASSUME k = "op", x \in {None, a}, Holder("op", t.name) # {}
                   PROVE  <<"op", t.name>> \in leaked
        OBVIOUS
      <4>1. a \notin Holder("op", t.name) /\ None \notin Holder("op", t.name)
        BY <3>2 DEF Holder, Distinct
      <4>2. x = byName[<<"op", t.name>>] /\ x = a /\ x # None
        BY <1>1, <2>1, <3>1, <4>1 DEF LookupGoes, Found, Distinct
      <4>3. ~\E o \in Admin : EvictsName(o, t.name)
        BY <3>1 DEF EvictsName, Busy
      <4> QED
        BY <1>0, <3>2, <4>1, <4>2, <4>3 DEF NamesTracked
    <3> QED
      BY <1>b, <3>1, <3>2, <3>3 DEF SameTask
  <2> QED
    BY <2>2, <2>3
<1>6. CASE SaveIdentity(p)
  <2>1. /\ u = IdleTask \/ (u.pc = "saveAccount" /\ SameTask(t, u))
        /\ UNCHANGED <<account, leaked>> /\ t.pc = "saveIdentity"
    BY <1>0, <1>6, SaveIdentityMoves DEF SaveIdentity
  <2>2. CASE u = IdleTask
    BY <1>a, <1>i, <2>2
  <2>3. CASE u # IdleTask
    BY <1>0, <1>b, <2>1, <2>3 DEF SameTask, AloneHolds
  <2> QED
    BY <2>2, <2>3
<1>7. CASE SaveAccount(p)
  BY <1>0, <1>1, <1>7, <1>a, SaveAccountMoves DEF SaveAccount, SaveAccountGoes, Found
<1>8. CASE SoftDelete(p)
  BY <1>0, <1>1, <1>8, <1>a, SoftDeleteMoves DEF SoftDelete, SoftDeleteGoes, Found
<1>9. CASE ClearAccountCache(p)
  BY <1>0, <1>9, <1>a, <1>i, ClearMoves
<1>10. CASE TaskDies(p)
  BY <1>0, <1>10, <1>a, <1>i, DiesMoves
<1> QED
  BY <1>2, <1>3, <1>4, <1>5, <1>6, <1>7, <1>8, <1>9, <1>10 DEF Goes

(* The others are idle, so that nothing disturbs what was looked up.         *)
LEMMA AloneStep ==
  ASSUME Distinct, AcInv, AcAlone, [AcNext]_acVars
  PROVE  AcAlone'
<1> SUFFICES ASSUME ~crossed'
             PROVE  /\ \A p, o \in Admin : task'[p].pc # "idle" /\ task'[o].pc # "idle" => p = o
                    /\ \A p \in Admin : AloneHolds(task[p])'
  BY DEF AcAlone, Busy
<1>0. AcShape
  BY DEF AcInv
<1>a. ASSUME UNCHANGED <<account, task, leaked, crossed>>
      PROVE  /\ \A p, o \in Admin : task'[p].pc # "idle" /\ task'[o].pc # "idle" => p = o
             /\ \A p \in Admin : AloneHolds(task[p])'
  BY <1>a DEF AcAlone, Busy, AloneHolds, Exists, Holder, Kind
<1>b. ASSUME NEW p \in Admin, OnlyTask(p), \A o \in Admin : Busy(o) => o = p, AloneHolds(task[p])'
      PROVE  /\ \A i, o \in Admin : task'[i].pc # "idle" /\ task'[o].pc # "idle" => i = o
             /\ \A o \in Admin : AloneHolds(task[o])'
  <2>1. \A o \in Admin : o # p => task'[o].pc = "idle"
    BY <1>b DEF OnlyTask, Busy
  <2>2. \A o \in Admin : o # p => AloneHolds(task[o])'
    BY <2>1 DEF AloneHolds
  <2> QED
    BY <1>b, <2>1, <2>2
<1>1. ASSUME NEW q \in Request, Requests(q) \/ \E a \in Acct : RequestStart(q, a)
      PROVE  UNCHANGED <<account, task, leaked, crossed>>
  <2>1. PICK r : RequestGoes(q, r)
    BY <1>0, <1>1, RequestMoves
  <2> QED
    BY <2>1 DEF RequestGoes, rows, notes
<1>2. ASSUME NEW p \in Admin, Begins(p)
      PROVE  OnlyTask(p) /\ (\A o \in Admin : Busy(o) => o = p) /\ AloneHolds(task[p])'
  <2>1. BeginGoes(p)
    BY <1>0, <1>2, BeginMoves
  <2>2. AloneHolds(task[p])'
    BY <2>1 DEF BeginGoes, AloneHolds
  <2> QED
    BY <2>1, <2>2 DEF BeginGoes
<1>3. ASSUME NEW p \in Admin, Insert(p) \/ Goes(p)
      PROVE  OnlyTask(p) /\ (\A o \in Admin : Busy(o) => o = p) /\ AloneHolds(task[p])'
  <2>1. OnlyTask(p) /\ Busy(p) /\ UNCHANGED crossed
    BY <1>3, TaskGoesOn
  <2>2. (\A o \in Admin : Busy(o) => o = p) /\ AloneHolds(task[p])
    BY <2>1 DEF AcAlone
  <2> QED
    BY <1>3, <2>1, <2>2, AloneGoesOn
<1>4. CASE UNCHANGED acVars
  BY <1>4, <1>a DEF acVars
<1> QED
  BY <1>1, <1>2, <1>3, <1>4, <1>a, <1>b, NextSplits

(* The holders of a name after a step.                                       *)
LEMMA UniqueKept ==
  ASSUME NEW k, NEW n, Unique(k, n),
         \/ Holder(k, n)' \subseteq Holder(k, n)
         \/ \E a \in Acct : Holder(k, n)' \subseteq {a}
  PROVE  Unique(k, n)'
BY DEF Unique

(* An account gets a name from an insert or a save, after it was looked up.  *)
LEMMA UniqueStep ==
  ASSUME Distinct, AcInv, AcAlone, [AcNext]_acVars
  PROVE  UsernameUniqueAlone
<1> SUFFICES ASSUME NEW k \in {"site", "op"}, NEW n \in Name,
                    ~crossed, Unique(k, n), <<k, n>> \notin leaked
             PROVE  Unique(k, n)'
  BY DEF UsernameUniqueAlone
<1>0. AcShape /\ RowsFound /\ account \in [Acct -> AccountRow \cup {None}]
  BY DEF AcInv, AcShape, AcTypeOK
<1>a. ASSUME UNCHANGED account PROVE Unique(k, n)'
  BY <1>a, HolderSame, UniqueKept
<1>b. ASSUME NEW a \in Acct, \A c \in Acct : c # a => account'[c] = account[c],
             \/ a \notin Holder(k, n)'
             \/ a \in Holder(k, n)
             \/ Holder(k, n) = {}
      PROVE  Unique(k, n)'
  <2>1. \A c \in Holder(k, n)' : c = a \/ c \in Holder(k, n)
    BY <1>b DEF Holder, Exists
  <2> QED
    BY <1>b, <2>1, UniqueKept
<1>1. ASSUME NEW q \in Request, Requests(q) \/ \E a \in Acct : RequestStart(q, a)
      PROVE  Unique(k, n)'
  <2>1. PICK r : RequestGoes(q, r)
    BY <1>0, <1>1, RequestMoves
  <2> QED
    BY <1>a, <2>1 DEF RequestGoes, rows
<1>2. ASSUME NEW p \in Admin, Begins(p) PROVE Unique(k, n)'
  BY <1>0, <1>2, <1>a, BeginMoves DEF BeginGoes, rows
<1>3. ASSUME NEW p \in Admin, Insert(p) \/ Goes(p) PROVE Unique(k, n)'
  <2> SUFFICES ASSUME NEW t, t = task[p], NEW a, a = t.acct PROVE Unique(k, n)'
    OBVIOUS
  <2>0. /\ AloneHolds(t) /\ TaskShape(t)
        /\ t.pc \in Found => Known(a) /\ a \in Acct /\ identity[a] # None
    <3>1. AloneHolds(t) /\ TaskShape(t)
      BY DEF AcAlone, AcInv, AcShape
    <3> QED
      BY <1>0, <3>1 DEF RowsFound, TaskShape, Found
  <2>1. CASE Insert(p)
    <3>1. /\ InsertGoes(p) /\ a \in Acct
          /\ Holder(Kind(a), t.name) = {} \/ a \in Holder(Kind(a), t.name)
      BY <1>0, <2>0, <2>1, InsertMoves DEF InsertGoes, AloneHolds
    <3>2. CASE UNCHANGED account
      BY <1>a, <3>2
    <3>3. CASE account' = [account EXCEPT ![a] = [name |-> t.name, deleted |-> FALSE]]
      <4>1. \A c \in Acct : c # a => account'[c] = account[c]
        BY <1>0, <3>1, <3>3
      <4>2. a \in Holder(k, n)' => Kind(a) = k /\ t.name = n
        BY <1>0, <3>1, <3>3 DEF Holder, Kind
      <4> QED
        BY <1>b, <3>1, <4>1, <4>2
    <3> QED
      BY <3>1, <3>2, <3>3 DEF InsertGoes
  <2>2. CASE SaveAccount(p)
    <3>1. t.pc \in Found /\ t.pc = "saveAccount"
      BY <2>2 DEF SaveAccount, Found
    <3>2. SaveAccountGoes(p) /\ a \in Acct /\ Kind(a) = "op"
      BY <1>0, <2>0, <2>2, <3>1, SaveAccountMoves DEF SaveAccountGoes, Kind
    <3>3. account' = [account EXCEPT ![a] = [name |-> NewName(t), deleted |-> FALSE]]
      BY <3>2 DEF SaveAccountGoes
    <3>4. a \in Holder(k, n)' => k = "op" /\ n = NewName(t)
      BY <1>0, <3>2, <3>3 DEF Holder, Kind
    <3>5. NewName(t) = account[a].name => a \in Holder("op", NewName(t))
      BY <2>0, <3>1, <3>2 DEF AloneHolds, Holder
    <3>6. NewName(t) # account[a].name =>
            Holder("op", NewName(t)) = {} \/ <<"op", NewName(t)>> \in leaked
      BY <2>0, <3>1 DEF AloneHolds, NewName
    <3> QED
      BY <1>0, <1>b, <3>2, <3>3, <3>4, <3>5, <3>6
  <2>3. CASE SoftDelete(p)
    <3>1. t.pc \in Found
      BY <2>3 DEF SoftDelete, Found
    <3>2. SoftDeleteGoes(p) /\ a \in Acct /\ account[a] \in AccountRow
      BY <1>0, <2>0, <2>3, <3>1, SoftDeleteMoves DEF Known
    <3>3. account' = [account EXCEPT ![a] = [account[a] EXCEPT !.deleted = TRUE]]
      BY <3>2 DEF SoftDeleteGoes
    <3>4. a \notin Holder(k, n)'
      BY <1>0, <3>2, <3>3 DEF Holder, Exists, AccountRow
    <3> QED
      BY <1>0, <1>b, <3>2, <3>3, <3>4
  <2>4. CASE FindName(p) \/ FindUser(p) \/ LookupName(p) \/ SaveIdentity(p)
               \/ ClearAccountCache(p) \/ TaskDies(p)
    BY <1>a, <2>4 DEF FindName, FindUser, LookupName, SaveIdentity, ClearAccountCache, TaskDies, rows
  <2> QED
    BY <1>3, <2>1, <2>2, <2>3, <2>4 DEF Goes
<1>4. CASE UNCHANGED acVars
  BY <1>4, <1>a DEF acVars
<1> QED
  BY <1>1, <1>2, <1>3, <1>4, NextSplits

(* While operations do not overlap, two accounts of a kind come to have one  *)
(* name only where a rename left the entry of that name behind.              *)
THEOREM NamesStayUniqueAlone ==
  ASSUME Distinct
  PROVE  AcSpec => [][UsernameUniqueAlone]_acVars
<1>1. AcInit => AcInv /\ AcAlone
  BY AcInitHolds
<1>2. AcInv /\ AcAlone /\ [AcNext]_acVars => AcInv' /\ AcAlone' /\ UsernameUniqueAlone
  BY AcStep, AloneStep, UniqueStep
<1> QED
  BY <1>1, <1>2, PTL DEF AcSpec
=============================================================================
