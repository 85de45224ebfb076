----------------------------- MODULE OssUpload -----------------------------
(***************************************************************************)
(* Uploads of one file by one person for one purpose, to an object store   *)
(* that speaks S3: multipart-upload.service.ts under an OssUploadPolicy.   *)
(* Every task (a row of sys_file) has an object key of its own; calls find *)
(* the latest task that is not completed and go on with it.                *)
(*                                                                         *)
(* Every SQL statement and every request to the store is a step.           *)
(* repo.save is two: it loads the row by primary key, then updates the     *)
(* columns in which the entity differs from the row it loaded.  The        *)
(* browser sends parts and objects to the store itself, at any time after  *)
(* it got a signed URL.                                                    *)
(***************************************************************************)
EXTENDS Naturals

CONSTANTS
  Proc,         \* concurrent calls of the service
  Part,         \* parts of the file
  MayFail,      \* statements and requests may fail, processes may crash
  MaxTasks,     \* bound: number of tasks
  MaxUploads,   \* bound: number of multipart uploads opened in the store
  MaxCreated    \* bound: number of both together

ASSUME BoundAssumption ==
  MayFail \in BOOLEAN /\ {MaxTasks, MaxUploads, MaxCreated} \subseteq Nat

Task == 1..MaxTasks
Upload == 1..MaxUploads
NoUpload == 0

VARIABLES
  tasks,      \* number of tasks created
  row,        \* row[t]: the committed row of task t
  opened,     \* number of multipart uploads opened
  upload,     \* upload[i]: multipart upload i in the store
  object,     \* the tasks whose object is in the store
  signed,     \* <<i, n>>: a URL for part n of upload i is in circulation
  signedPut,  \* the tasks with a URL for the whole object in circulation
  op,         \* op[p]: the call p runs
  overlapped, \* history: two calls have run at the same time
  failed      \* history: a call has failed

vars == <<tasks, row, opened, upload, object, signed, signedPut, op, overlapped, failed>>
store == <<opened, upload, object>>
urls == <<signed, signedPut>>
ghost == <<overlapped, failed>>

Row == [upload : Upload \cup {NoUpload}, completed : BOOLEAN]
NewRow == [upload |-> NoUpload, completed |-> FALSE]

StoreUpload == [task : Task \cup {0}, state : {"none", "open", "done", "gone"},
                parts : SUBSET Part]

Kind == {"none", "prepare", "init", "complete", "abort", "callback"}
Pc == {"done", "create", "open", "save", "write", "sign", "list", "merge", "drop", "head"}

(* ent is the entity in memory, base the row repo.save loaded.              *)
OpRec == [pc : Pc, kind : Kind, task : Task \cup {0}, ent : Row, base : Row]

TypeOK ==
  /\ tasks \in 0..MaxTasks
  /\ row \in [Task -> Row]
  /\ opened \in 0..MaxUploads
  /\ upload \in [Upload -> StoreUpload]
  /\ object \in SUBSET Task
  /\ signed \in SUBSET (Upload \X Part)
  /\ signedPut \in SUBSET Task
  /\ op \in [Proc -> OpRec]
  /\ \A p \in Proc : op[p].pc \notin {"done", "create"} => op[p].task # 0
  /\ overlapped \in BOOLEAN
  /\ failed \in BOOLEAN

Idle == [pc |-> "done", kind |-> "none", task |-> 0, ent |-> NewRow, base |-> NewRow]

Init ==
  /\ tasks = 0
  /\ row = [t \in Task |-> NewRow]
  /\ opened = 0
  /\ upload = [i \in Upload |-> [task |-> 0, state |-> "none", parts |-> {}]]
  /\ object = {}
  /\ signed = {}
  /\ signedPut = {}
  /\ op = [p \in Proc |-> Idle]
  /\ overlapped = FALSE
  /\ failed = FALSE

At(p, pc) == op[p].pc = pc
Goto(p, pc) == op' = [op EXCEPT ![p].pc = pc]
End(p) == op' = [op EXCEPT ![p] = Idle]

(* The call goes on with entity e ...                                       *)
Hold(p, pc, e) == op' = [op EXCEPT ![p] = [@ EXCEPT !.pc = pc, !.ent = e]]

(* ... or goes to a point from which it needs no more than task t and e.    *)
Enter(p, kind, pc, t, e) ==
  op' = [op EXCEPT ![p] = [pc |-> pc, kind |-> kind, task |-> t, ent |-> e, base |-> NewRow]]

Begins(p) ==
  /\ At(p, "done")
  /\ overlapped' = (overlapped \/ \E q \in Proc \ {p} : ~At(q, "done"))
  /\ UNCHANGED <<tasks, row, store, urls, failed>>

-----------------------------------------------------------------------------
(* prepareDirectUpload and initMultipart: locate the latest pending task.   *)

Pending == {t \in 1..tasks : ~row[t].completed}

LocateNone(p, kind) ==
  /\ Begins(p)
  /\ Pending = {}
  /\ Enter(p, kind, "create", 0, NewRow)

LocatePending(p, kind, t) ==
  /\ Begins(p)
  /\ t \in Pending /\ \A s \in Pending : s <= t
  /\ Enter(p, kind, IF kind = "init" /\ row[t].upload = NoUpload THEN "open" ELSE "save",
           t, row[t])

(* Mutant: the call goes on without the task it made. *)
CreateTaskLost(p) ==
  /\ At(p, "create")
  /\ tasks < MaxTasks /\ tasks + opened < MaxCreated
  /\ tasks' = tasks + 1
  /\ row' = [row EXCEPT ![tasks + 1] = NewRow]
  /\ Goto(p, IF op[p].kind = "init" THEN "open" ELSE "sign")
  /\ UNCHANGED <<store, urls, ghost>>

CreateTask(p) ==
  /\ At(p, "create")
  /\ tasks < MaxTasks /\ tasks + opened < MaxCreated
  /\ tasks' = tasks + 1
  /\ row' = [row EXCEPT ![tasks + 1] = NewRow]
  /\ op' = [op EXCEPT ![p] =
              [@ EXCEPT !.pc = IF op[p].kind = "init" THEN "open" ELSE "sign",
                        !.task = tasks + 1]]
  /\ UNCHANGED <<store, urls, ghost>>

OpenUpload(p) ==
  /\ At(p, "open")
  /\ opened < MaxUploads /\ tasks + opened < MaxCreated
  /\ opened' = opened + 1
  /\ upload' = [upload EXCEPT ![opened + 1] =
                  [task |-> op[p].task, state |-> "open", parts |-> {}]]
  /\ Hold(p, "save", [upload |-> opened + 1, completed |-> FALSE])
  /\ UNCHANGED <<tasks, row, object, urls, ghost>>

(* The signed PUT of prepareDirectUpload. *)
SignPut(p) ==
  /\ At(p, "sign")
  /\ signedPut' = signedPut \cup {op[p].task}
  /\ End(p)
  /\ UNCHANGED <<tasks, row, store, signed, ghost>>

-----------------------------------------------------------------------------
(* FileService.save                                                         *)

SaveLoad(p) ==
  /\ At(p, "save")
  /\ op' = [op EXCEPT ![p] = [@ EXCEPT !.pc = "write", !.base = row[op[p].task]]]
  /\ UNCHANGED <<tasks, row, store, urls, ghost>>

Column(ent, base, cur) == IF ent # base THEN ent ELSE cur

Written(ent, base, cur) ==
  [upload    |-> Column(ent.upload, base.upload, cur.upload),
   completed |-> Column(ent.completed, base.completed, cur.completed)]

(* prepareDirectUpload goes on to sign; initMultipart lists the parts of an *)
(* upload it resumes, which is only its answer.                             *)
SaveWrite(p) ==
  /\ At(p, "write")
  /\ LET t == op[p].task IN
       row' = [row EXCEPT ![t] = Written(op[p].ent, op[p].base, @)]
  /\ IF op[p].kind = "prepare"
     THEN Enter(p, "prepare", "sign", op[p].task, NewRow)
     ELSE End(p)
  /\ UNCHANGED <<tasks, store, urls, ghost>>

-----------------------------------------------------------------------------
(* completeMultipart: read, list and check the parts, merge, head, save.    *)

(* A completed task is answered with its row, or refused. *)
Read(p, kind, pc, t) ==
  /\ Begins(p)
  /\ ~row[t].completed
  /\ Enter(p, kind, pc, t, row[t])

CompleteRead(p, t) == row[t].upload # NoUpload /\ Read(p, "complete", "list", t)
AbortRead(p, t) == row[t].upload # NoUpload /\ Read(p, "abort", "drop", t)
CallbackRead(p, t) == Read(p, "callback", "head", t)

IsOpen(i) == upload[i].state = "open"

ListParts(p) ==
  /\ At(p, "list")
  /\ LET i == op[p].ent.upload IN
       IF IsOpen(i) /\ upload[i].parts = Part THEN Goto(p, "merge") ELSE End(p)
  /\ UNCHANGED <<tasks, row, store, urls, ghost>>

(* The store may answer the repetition of a merge with its result, or not   *)
(* know the upload any more.                                                *)
Merge(p) ==
  /\ At(p, "merge")
  /\ LET i == op[p].ent.upload IN
       \/ /\ IsOpen(i)
          /\ upload' = [upload EXCEPT ![i].state = "done"]
          /\ object' = object \cup {op[p].task}
          /\ Goto(p, "head")
       \/ upload[i].state = "done" /\ Goto(p, "head") /\ UNCHANGED <<upload, object>>
       \/ ~IsOpen(i) /\ End(p) /\ UNCHANGED <<upload, object>>
  /\ UNCHANGED <<tasks, row, opened, urls, ghost>>

(* The callback of a direct upload leaves the upload id alone. *)
CompletedRow(p) ==
  [upload |-> IF op[p].kind = "complete" THEN NoUpload ELSE op[p].ent.upload,
   completed |-> TRUE]

(* Mutant: the object is not looked up. *)
HeadTrusted(p) ==
  /\ At(p, "head")
  /\ Hold(p, "save", CompletedRow(p))
  /\ UNCHANGED <<tasks, row, store, urls, ghost>>

(* The head of the object and its ACL, then the fields of a completed task. *)
HeadObject(p) ==
  /\ At(p, "head")
  /\ IF op[p].task \in object
     THEN Hold(p, "save", CompletedRow(p))
     ELSE End(p)
  /\ UNCHANGED <<tasks, row, store, urls, ghost>>

(* Mutant: an upload is forgotten before the store has been told. *)
DropForgets(p) ==
  /\ At(p, "drop")
  /\ Hold(p, "save", NewRow)
  /\ UNCHANGED <<tasks, row, store, urls, ghost>>

(* abortMultipart *)
Drop(p) ==
  /\ At(p, "drop")
  /\ LET i == op[p].ent.upload IN
       \/ /\ IsOpen(i)
          /\ upload' = [upload EXCEPT ![i].state = "gone"]
          /\ Hold(p, "save", NewRow)
       \/ ~IsOpen(i) /\ End(p) /\ UNCHANGED upload
  /\ UNCHANGED <<tasks, row, opened, object, urls, ghost>>

-----------------------------------------------------------------------------
(* signMultipartPart: the row is read, the URL computed. *)
SignPart(t, n) ==
  /\ ~row[t].completed /\ row[t].upload # NoUpload
  /\ signed' = signed \cup {<<row[t].upload, n>>}
  /\ UNCHANGED <<tasks, row, store, signedPut, op, ghost>>

(* The browser sends a part ... *)
PutPart(i, n) ==
  /\ <<i, n>> \in signed
  /\ IsOpen(i)
  /\ n \notin upload[i].parts
  /\ upload' = [upload EXCEPT ![i].parts = @ \cup {n}]
  /\ UNCHANGED <<tasks, row, opened, object, urls, op, ghost>>

(* ... or the whole object. *)
PutObject(t) ==
  /\ t \in signedPut
  /\ t \notin object
  /\ object' = object \cup {t}
  /\ UNCHANGED <<tasks, row, opened, upload, urls, op, ghost>>

Fail(p) ==
  /\ MayFail
  /\ ~At(p, "done")
  /\ failed' = TRUE
  /\ End(p)
  /\ UNCHANGED <<tasks, row, store, urls, overlapped>>

Call(p) ==
  \/ \E kind \in {"prepare", "init"} :
       LocateNone(p, kind) \/ \E t \in 1..tasks : LocatePending(p, kind, t)
  \/ \E t \in 1..tasks : CompleteRead(p, t) \/ AbortRead(p, t) \/ CallbackRead(p, t)

Step(p) ==
  \/ CreateTask(p) \/ OpenUpload(p) \/ SignPut(p) \/ SaveLoad(p) \/ SaveWrite(p)
  \/ ListParts(p) \/ Merge(p) \/ HeadObject(p) \/ Drop(p)

Next ==
  \/ \E p \in Proc : Call(p) \/ Step(p) \/ Fail(p)
  \/ \E t \in 1..tasks, n \in Part : SignPart(t, n)
  \/ \E i \in Upload, n \in Part : PutPart(i, n)
  \/ \E t \in Task : PutObject(t)

Spec == Init /\ [][Next]_vars

-----------------------------------------------------------------------------
(* A task is completed only when its object is in the store, whatever       *)
(* calls, crashes and late requests of browsers come between                *)
(* (multipart-upload.service.ts:423).                                       *)
CompletedHasObject == \A t \in Task : row[t].completed => t \in object

(* A completed task stays completed: abort refuses it (:452), complete and  *)
(* the callback answer with its row, init and prepare do not find it; as    *)
(* long as no two calls have overlapped, crashes or not.                    *)
CompletedIsFinalAlone ==
  [][overlapped \/ \A t \in Task : row[t].completed => row'[t].completed]_vars

Quiet == \A p \in Proc : At(p, "done")

(* The upload a pending task refers to can be resumed (libs/web/README.md:  *)
(* 35), as long as calls neither overlap nor fail.                          *)
ResumableAlone ==
  overlapped \/ failed \/
    (Quiet => \A t \in Pending : row[t].upload # NoUpload => IsOpen(row[t].upload))

(* An upload the store keeps parts of is the one its task refers to, so     *)
(* that none is forgotten, as long as calls neither overlap nor fail.       *)
NoOrphansAlone ==
  overlapped \/ failed \/
    (Quiet => \A i \in Upload : IsOpen(i) => row[upload[i].task].upload = i)

(* A pending task is found and reused: there is one object                  *)
(* (docs/development/oss-upload.md:52) ...                                  *)
OneTask == \A s, t \in Pending : s = t

(* ... as long as calls do not overlap.                                     *)
OneTaskAlone == overlapped \/ OneTask
=============================================================================
