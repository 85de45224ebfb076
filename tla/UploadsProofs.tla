---------------------------- MODULE UploadsProofs ----------------------------
(* What TLAPS proves about uploads and files, each kind a subject of         *)
(* MCOssUpload: multipart uploads to a store, rows of files and their        *)
(* copies, and the browser here, uploads to the disk in LocalUploadProofs.   *)
EXTENDS MCOssUpload, FiniteSetTheorems, TLAPS

LocalP == INSTANCE LocalUploadProofs WITH Client <- Proc, Part <- LocalPart, failed <- died
HalvesP == INSTANCE LocalUploadProofs WITH Client <- Proc, Part <- LocalPart \cup {2},
                                        failed <- died

-----------------------------------------------------------------------------
(* Multipart uploads to a store.                                             *)

(* Only a call that saves holds a completed entity, and its object is there. *)
Merged(o, objects) == o.ent.completed => o.pc \in {"save", "write"} /\ o.task \in objects

SavesMerged == \A p \in Proc : Merged(op[p], object)

IInv == TypeOK /\ CompletedHasObject /\ SavesMerged

USE DEF Row, NewRow, NoUpload, Task, Upload

LEMMA IdleTyped == Idle \in OpRec /\ Idle.pc = "done" /\ ~Idle.ent.completed
  BY BoundAssumption DEF Idle, OpRec, Pc, Kind

LEMMA NewRowTyped == NewRow \in Row /\ ~NewRow.completed
  BY BoundAssumption

(* A step that moves the call p to o, and loses no object. *)
LEMMA OpStep ==
  ASSUME IInv, NEW p \in Proc, NEW o \in OpRec,
         o.pc \notin {"done", "create"} => o.task # 0,
         Merged(o, object'),
         object \subseteq object',
         op' = [op EXCEPT ![p] = o]
  PROVE  /\ op' \in [Proc -> OpRec]
         /\ \A q \in Proc : op'[q].pc \notin {"done", "create"} => op'[q].task # 0
         /\ SavesMerged'
  BY DEF IInv, TypeOK, SavesMerged, Merged

(* The same, when nothing else changes but the history. *)
LEMMA OpOnly ==
  ASSUME IInv, NEW p \in Proc, NEW o \in OpRec,
         o.pc \notin {"done", "create"} => o.task # 0,
         Merged(o, object),
         op' = [op EXCEPT ![p] = o],
         UNCHANGED <<tasks, row, store, urls>>,
         overlapped' \in BOOLEAN, failed' \in BOOLEAN
  PROVE  IInv'
<1>1. /\ op' \in [Proc -> OpRec]
      /\ \A q \in Proc : op'[q].pc \notin {"done", "create"} => op'[q].task # 0
      /\ SavesMerged'
  BY OpStep DEF store
<1>2. TypeOK'
  BY <1>1 DEF IInv, TypeOK, store, urls
<1>3. CompletedHasObject'
  BY DEF IInv, CompletedHasObject, store
<1> QED
  BY <1>1, <1>2, <1>3 DEF IInv

(* The shape of what a save writes. *)
LEMMA WrittenTyped ==
  ASSUME NEW ent \in Row, NEW base \in Row, NEW cur \in Row
  PROVE  /\ Written(ent, base, cur) \in Row
         /\ Written(ent, base, cur).completed => ent.completed \/ cur.completed
  BY DEF Written, Column

LEMMA InitInv == Init => IInv
<1> SUFFICES ASSUME Init PROVE IInv
  OBVIOUS
<1>1. TypeOK
  <2>1. op \in [Proc -> OpRec] /\ \A p \in Proc : op[p].pc = "done"
    BY IdleTyped DEF Init
  <2>2. row \in [Task -> Row]
    BY NewRowTyped DEF Init
  <2>3. upload \in [Upload -> StoreUpload]
    BY BoundAssumption DEF Init, StoreUpload
  <2>4. overlapped \in BOOLEAN /\ failed \in BOOLEAN
    BY Zenon DEF Init
  <2>5. tasks \in 0..MaxTasks /\ opened \in 0..MaxUploads
    BY BoundAssumption DEF Init
  <2>6. object \in SUBSET Task /\ signed \in SUBSET (Upload \X Part)
        /\ signedPut \in SUBSET Task
    BY DEF Init
  <2> QED
    BY <2>1, <2>2, <2>3, <2>4, <2>5, <2>6 DEF TypeOK
<1>2. CompletedHasObject
  BY NewRowTyped DEF Init, CompletedHasObject
<1>3. SavesMerged
  BY IdleTyped DEF Init, SavesMerged, Merged
<1> QED
  BY <1>1, <1>2, <1>3 DEF IInv

(* The facts about p the steps share. *)
LEMMA ProcTyped ==
  ASSUME IInv, NEW p \in Proc
  PROVE  /\ op[p] \in OpRec
         /\ op[p].ent \in Row /\ op[p].base \in Row
         /\ op[p].task \in Task \cup {0}
         /\ Merged(op[p], object)
         /\ op[p].pc \notin {"done", "create"} => op[p].task \in Task
         /\ \A t \in Task : row[t] \in Row
  BY DEF IInv, TypeOK, SavesMerged, OpRec

(* A call that begins at task t. *)
LEMMA BeginStep ==
  ASSUME IInv, NEW p \in Proc, NEW kind \in Kind, NEW pc \in Pc,
         NEW t \in Task \cup {0}, NEW e \in Row,
         pc \notin {"done", "create"} => t # 0,
         ~e.completed,
         Begins(p), Enter(p, kind, pc, t, e)
  PROVE  IInv'
<1> DEFINE o == [pc |-> pc, kind |-> kind, task |-> t, ent |-> e, base |-> NewRow]
<1>1. o \in OpRec
  BY NewRowTyped DEF OpRec
<1>2. overlapped' \in BOOLEAN
  BY Zenon DEF Begins
<1>3. failed' \in BOOLEAN
  BY DEF Begins, IInv, TypeOK
<1>4. op' = [op EXCEPT ![p] = o]
  BY DEF Enter
<1>5. UNCHANGED <<tasks, row, store, urls>>
  BY DEF Begins
<1>6. /\ o.pc \notin {"done", "create"} => o.task # 0
      /\ Merged(o, object)
  BY DEF Merged
<1> HIDE DEF o
<1> QED
  BY <1>1, <1>2, <1>3, <1>4, <1>5, <1>6, OpOnly

LEMMA LocateNoneInv ==
  ASSUME IInv, NEW p \in Proc, NEW kind \in {"prepare", "init"}, LocateNone(p, kind)
  PROVE  IInv'
<1>1. kind \in Kind /\ "create" \in Pc
  BY DEF Kind, Pc
<1> QED
  BY <1>1, BeginStep, NewRowTyped DEF LocateNone

LEMMA TaskRange ==
  ASSUME IInv, NEW t \in 1..tasks
  PROVE  t \in Task /\ t # 0 /\ row[t] \in Row
  BY BoundAssumption DEF IInv, TypeOK

LEMMA LocatePendingInv ==
  ASSUME IInv, NEW p \in Proc, NEW kind \in {"prepare", "init"}, NEW t \in 1..tasks,
         LocatePending(p, kind, t)
  PROVE  IInv'
<1> DEFINE pc == IF kind = "init" /\ row[t].upload = 0 THEN "open" ELSE "save"
<1>1. kind \in Kind /\ pc \in Pc /\ pc \notin {"done", "create"}
  BY DEF Kind, Pc
<1>2. t \in Task /\ t # 0 /\ row[t] \in Row
  BY TaskRange
<1>3. ~row[t].completed
  BY DEF LocatePending, Pending
<1>4. Begins(p) /\ Enter(p, kind, pc, t, row[t])
  BY DEF LocatePending
<1> HIDE DEF pc
<1> QED
  BY <1>1, <1>2, <1>3, <1>4, BeginStep

LEMMA ReadInv ==
  ASSUME IInv, NEW p \in Proc, NEW t \in 1..tasks,
         CompleteRead(p, t) \/ AbortRead(p, t) \/ CallbackRead(p, t)
  PROVE  IInv'
<1>1. PICK kind \in Kind, pc \in Pc \ {"done", "create"} : Read(p, kind, pc, t)
  BY DEF Kind, Pc, CompleteRead, AbortRead, CallbackRead
<1>2. t \in Task /\ t # 0 /\ row[t] \in Row
  BY TaskRange
<1> QED
  BY <1>1, <1>2, BeginStep DEF Read

LEMMA CreateTaskInv ==
  ASSUME IInv, NEW p \in Proc, CreateTask(p)
  PROVE  IInv'
<1> DEFINE pc == IF op[p].kind = "init" THEN "open" ELSE "sign"
           o == [op[p] EXCEPT !.pc = pc, !.task = tasks + 1]
<1>1. tasks + 1 \in Task /\ tasks' \in 0..MaxTasks
  BY BoundAssumption DEF CreateTask, IInv, TypeOK
<1>2. o \in OpRec /\ o.task = tasks + 1 /\ o.ent = op[p].ent /\ o.task # 0
  <2>1. pc \in Pc /\ tasks + 1 # 0
    BY <1>1 DEF Pc
  <2>2. op[p] \in OpRec
    BY ProcTyped
  <2> HIDE DEF pc
  <2>3. o \in OpRec /\ o.task = tasks + 1 /\ o.ent = op[p].ent
    BY <1>1, <2>1, <2>2 DEF OpRec
  <2> HIDE DEF o
  <2> QED
    BY <2>1, <2>3
<1>3. Merged(o, object')
  BY <1>2, ProcTyped DEF CreateTask, At, Merged
<1>4. /\ op' \in [Proc -> OpRec]
      /\ \A q \in Proc : op'[q].pc \notin {"done", "create"} => op'[q].task # 0
      /\ SavesMerged'
  <2>1. op' = [op EXCEPT ![p] = o] /\ object \subseteq object'
    BY DEF CreateTask, store
  <2> HIDE DEF o
  <2> QED
    BY <1>2, <1>3, <2>1, OpStep
<1>5. TypeOK'
  BY <1>1, <1>4, NewRowTyped DEF CreateTask, IInv, TypeOK, store, urls, ghost
<1>6. CompletedHasObject'
  BY <1>1, NewRowTyped DEF CreateTask, IInv, TypeOK, CompletedHasObject, store
<1> QED
  BY <1>4, <1>5, <1>6 DEF IInv

LEMMA OpenUploadInv ==
  ASSUME IInv, NEW p \in Proc, OpenUpload(p)
  PROVE  IInv'
<1> DEFINE e == [upload |-> opened + 1, completed |-> FALSE]
           o == [op[p] EXCEPT !.pc = "save", !.ent = e]
<1>1. opened + 1 \in Upload /\ opened' \in 0..MaxUploads
  BY BoundAssumption DEF OpenUpload, IInv, TypeOK
<1>2. op[p].task \in Task
  BY ProcTyped DEF OpenUpload, At
<1>3. o \in OpRec /\ o.task # 0 /\ ~o.ent.completed
  <2>1. e \in Row /\ "save" \in Pc /\ ~e.completed /\ op[p].task # 0
    BY <1>1, <1>2 DEF Pc
  <2>2. op[p] \in OpRec
    BY ProcTyped
  <2> HIDE DEF e
  <2>3. o \in OpRec /\ o.task = op[p].task /\ o.ent = e
    BY <2>1, <2>2 DEF OpRec
  <2> HIDE DEF o
  <2> QED
    BY <2>1, <2>3
<1>4. /\ op' \in [Proc -> OpRec]
      /\ \A q \in Proc : op'[q].pc \notin {"done", "create"} => op'[q].task # 0
      /\ SavesMerged'
  <2>1. op' = [op EXCEPT ![p] = o] /\ object \subseteq object' /\ Merged(o, object')
    BY <1>3 DEF OpenUpload, Hold, Merged
  <2> HIDE DEF o
  <2> QED
    BY <1>3, <2>1, OpStep
<1>5. upload' \in [Upload -> StoreUpload]
  BY <1>2 DEF OpenUpload, IInv, TypeOK, StoreUpload
<1>6. TypeOK'
  BY <1>1, <1>4, <1>5 DEF OpenUpload, IInv, TypeOK, urls, ghost
<1>7. CompletedHasObject'
  BY DEF OpenUpload, IInv, CompletedHasObject
<1> QED
  BY <1>4, <1>6, <1>7 DEF IInv

(* A step to where p holds entity e. *)
LEMMA HoldStep ==
  ASSUME IInv, NEW p \in Proc, op[p].task \in Task,
         NEW pc \in Pc, NEW e \in Row,
         e.completed => pc \in {"save", "write"} /\ op[p].task \in object,
         Hold(p, pc, e),
         UNCHANGED <<tasks, row, store, urls, ghost>>
  PROVE  IInv'
<1> DEFINE o == [op[p] EXCEPT !.pc = pc, !.ent = e]
<1>1. /\ o \in OpRec /\ o.task # 0
      /\ Merged(o, object)
  <2>1. op[p] \in OpRec
    BY ProcTyped
  <2>2. o \in OpRec /\ o.pc = pc /\ o.task = op[p].task /\ o.ent = e
    BY <2>1 DEF OpRec
  <2> HIDE DEF o
  <2> QED
    BY <2>2 DEF Merged
<1>2. overlapped' \in BOOLEAN /\ failed' \in BOOLEAN
  BY DEF ghost, IInv, TypeOK
<1>3. op' = [op EXCEPT ![p] = o]
  BY DEF Hold
<1> HIDE DEF o
<1> QED
  BY <1>1, <1>2, <1>3, OpOnly

(* What p's next point does to the calls: it ends, ... *)
LEMMA EndStep ==
  ASSUME IInv, NEW p \in Proc, End(p), object \subseteq object'
  PROVE  /\ op' \in [Proc -> OpRec]
         /\ \A q \in Proc : op'[q].pc \notin {"done", "create"} => op'[q].task # 0
         /\ SavesMerged'
<1> Idle \in OpRec /\ Idle.pc = "done" /\ Merged(Idle, object')
  BY IdleTyped DEF Merged
<1> QED
  BY OpStep DEF End

(* ... or goes on, not to a save, with the entity it has. *)
LEMMA GotoStep ==
  ASSUME IInv, NEW p \in Proc, op[p].pc \notin {"done", "create", "save", "write"},
         NEW pc \in Pc, Goto(p, pc), object \subseteq object'
  PROVE  /\ op' \in [Proc -> OpRec]
         /\ \A q \in Proc : op'[q].pc \notin {"done", "create"} => op'[q].task # 0
         /\ SavesMerged'
<1> DEFINE o == [op[p] EXCEPT !.pc = pc]
<1>1. op[p] \in OpRec /\ op[p].task \in Task /\ ~op[p].ent.completed
  BY ProcTyped DEF Merged
<1>2. o \in OpRec /\ o.task = op[p].task /\ o.ent = op[p].ent
  BY <1>1 DEF OpRec
<1>3. op' = [op EXCEPT ![p] = o]
  BY DEF Goto
<1> HIDE DEF o
<1>4. o.task # 0 /\ Merged(o, object')
  BY <1>1, <1>2 DEF Merged
<1> QED
  BY <1>2, <1>3, <1>4, OpStep

LEMMA SignPutInv ==
  ASSUME IInv, NEW p \in Proc, SignPut(p)
  PROVE  IInv'
<1>1. op[p].task \in Task
  BY ProcTyped DEF SignPut, At
<1>2. /\ op' \in [Proc -> OpRec]
      /\ \A q \in Proc : op'[q].pc \notin {"done", "create"} => op'[q].task # 0
      /\ SavesMerged'
  BY EndStep DEF SignPut, store
<1> QED
  BY <1>1, <1>2 DEF SignPut, IInv, TypeOK, CompletedHasObject, store, ghost

LEMMA SaveLoadInv ==
  ASSUME IInv, NEW p \in Proc, SaveLoad(p)
  PROVE  IInv'
<1> DEFINE o == [op[p] EXCEPT !.pc = "write", !.base = row[op[p].task]]
<1>1. /\ op[p] \in OpRec /\ op[p].task \in Task /\ row[op[p].task] \in Row
      /\ Merged(op[p], object)
  BY ProcTyped DEF SaveLoad, At
<1>2. o \in OpRec /\ o.pc = "write" /\ o.task = op[p].task /\ o.ent = op[p].ent
  BY <1>1 DEF OpRec, Pc
<1>3. op' = [op EXCEPT ![p] = o]
  BY DEF SaveLoad
<1> HIDE DEF o
<1>4. o.task # 0 /\ Merged(o, object)
  BY <1>1, <1>2 DEF Merged
<1>5. overlapped' \in BOOLEAN /\ failed' \in BOOLEAN
  BY DEF SaveLoad, ghost, IInv, TypeOK
<1> QED
  BY <1>2, <1>3, <1>4, <1>5, OpOnly DEF SaveLoad

LEMMA SaveWriteInv ==
  ASSUME IInv, NEW p \in Proc, SaveWrite(p)
  PROVE  IInv'
<1> DEFINE t == op[p].task
           w == Written(op[p].ent, op[p].base, row[t])
<1>1. t \in Task /\ row[t] \in Row /\ op[p].ent \in Row /\ op[p].base \in Row
      /\ Merged(op[p], object)
  BY ProcTyped DEF SaveWrite, At
<1>2. w \in Row /\ (w.completed => op[p].ent.completed \/ row[t].completed)
  BY <1>1, WrittenTyped
<1>3. row' = [row EXCEPT ![t] = w] /\ object' = object
  BY DEF SaveWrite, store
<1>4. CompletedHasObject'
  <2> HIDE DEF w
  <2>1. w.completed => t \in object
    BY <1>1, <1>2 DEF Merged, IInv, CompletedHasObject
  <2> HIDE DEF t
  <2> QED
    BY <1>1, <1>3, <2>1 DEF IInv, TypeOK, CompletedHasObject
<1>5. /\ op' \in [Proc -> OpRec]
      /\ \A q \in Proc : op'[q].pc \notin {"done", "create"} => op'[q].task # 0
      /\ SavesMerged'
  <2>1. CASE End(p)
    BY <1>3, <2>1, EndStep
  <2>2. CASE Enter(p, "prepare", "sign", t, NewRow)
    <3> DEFINE o == [pc |-> "sign", kind |-> "prepare", task |-> t, ent |-> NewRow,
                     base |-> NewRow]
    <3>1. o \in OpRec /\ o.task # 0 /\ Merged(o, object')
      BY <1>1, NewRowTyped DEF OpRec, Pc, Kind, Merged
    <3>2. op' = [op EXCEPT ![p] = o]
      BY <2>2 DEF Enter
    <3> HIDE DEF o
    <3> QED
      BY <1>3, <3>1, <3>2, OpStep
  <2> QED
    BY <2>1, <2>2 DEF SaveWrite
<1>6. row' \in [Task -> Row]
  <2> HIDE DEF w, t
  <2> QED
    BY <1>1, <1>2, <1>3 DEF IInv, TypeOK
<1>7. TypeOK'
  BY <1>5, <1>6 DEF SaveWrite, IInv, TypeOK, store, urls, ghost
<1> QED
  BY <1>4, <1>5, <1>7 DEF IInv

LEMMA ListPartsInv ==
  ASSUME IInv, NEW p \in Proc, ListParts(p)
  PROVE  IInv'
<1>1. op[p].pc = "list" /\ "merge" \in Pc /\ object' = object
  BY DEF ListParts, At, Pc, store
<1>2. Goto(p, "merge") \/ End(p)
  BY DEF ListParts
<1>3. /\ op' \in [Proc -> OpRec]
      /\ \A q \in Proc : op'[q].pc \notin {"done", "create"} => op'[q].task # 0
      /\ SavesMerged'
  BY <1>1, <1>2, GotoStep, EndStep
<1> QED
  BY <1>3 DEF ListParts, IInv, TypeOK, CompletedHasObject, store, urls, ghost

LEMMA MergeInv ==
  ASSUME IInv, NEW p \in Proc, Merge(p)
  PROVE  IInv'
<1>1. /\ op[p].pc = "merge" /\ "head" \in Pc /\ op[p].task \in Task
  BY ProcTyped DEF Merge, At, Pc
<1>2. object' \in SUBSET Task /\ object \subseteq object'
  BY <1>1 DEF Merge, IInv, TypeOK
<1>3. upload' \in [Upload -> StoreUpload]
  BY DEF Merge, IInv, TypeOK, StoreUpload
<1>4. Goto(p, "head") \/ End(p)
  BY DEF Merge
<1>5. /\ op' \in [Proc -> OpRec]
      /\ \A q \in Proc : op'[q].pc \notin {"done", "create"} => op'[q].task # 0
      /\ SavesMerged'
  BY <1>1, <1>2, <1>4, GotoStep, EndStep
<1>6. UNCHANGED <<tasks, row, opened, urls, ghost>>
  BY DEF Merge
<1>7. TypeOK'
  BY <1>2, <1>3, <1>5, <1>6 DEF IInv, TypeOK, urls, ghost
<1>8. CompletedHasObject'
  BY <1>2, <1>6 DEF IInv, CompletedHasObject
<1> QED
  BY <1>5, <1>7, <1>8 DEF IInv

(* The heart of the matter: completed is set under the head of the object. *)
LEMMA HeadInv ==
  ASSUME IInv, NEW p \in Proc, HeadObject(p)
  PROVE  IInv'
<1>1. /\ op[p].task \in Task /\ op[p].ent \in Row
  BY ProcTyped DEF HeadObject, At
<1>2. UNCHANGED <<tasks, row, store, urls, ghost>>
  BY DEF HeadObject
<1>3. CASE op[p].task \in object /\ Hold(p, "save", CompletedRow(p))
  <2>1. CompletedRow(p) \in Row /\ "save" \in Pc
    BY <1>1 DEF CompletedRow, Pc
  <2> QED
    BY <1>1, <1>2, <1>3, <2>1, HoldStep
<1>4. CASE End(p)
  <2>1. /\ op' \in [Proc -> OpRec]
        /\ \A q \in Proc : op'[q].pc \notin {"done", "create"} => op'[q].task # 0
        /\ SavesMerged'
    BY <1>2, <1>4, EndStep DEF store
  <2> QED
    BY <1>2, <2>1 DEF IInv, TypeOK, CompletedHasObject, store, urls, ghost
<1> QED
  BY <1>3, <1>4 DEF HeadObject

LEMMA DropInv ==
  ASSUME IInv, NEW p \in Proc, Drop(p)
  PROVE  IInv'
<1>1. op[p] \in OpRec /\ op[p].task \in Task
  BY ProcTyped DEF Drop, At
<1>2. upload' \in [Upload -> StoreUpload]
  BY DEF Drop, IInv, TypeOK, StoreUpload
<1>3. UNCHANGED <<tasks, row, opened, object, urls, ghost>>
  BY DEF Drop
<1>4. /\ op' \in [Proc -> OpRec]
      /\ \A q \in Proc : op'[q].pc \notin {"done", "create"} => op'[q].task # 0
      /\ SavesMerged'
  <2>1. CASE End(p)
    BY <1>3, <2>1, EndStep
  <2>2. CASE Hold(p, "save", NewRow)
    <3> DEFINE o == [op[p] EXCEPT !.pc = "save", !.ent = NewRow]
    <3>1. o \in OpRec /\ o.task = op[p].task /\ o.ent = NewRow
      BY <1>1, NewRowTyped DEF OpRec, Pc
    <3>2. op' = [op EXCEPT ![p] = o]
      BY <2>2 DEF Hold
    <3> HIDE DEF o
    <3>3. o.task # 0 /\ Merged(o, object')
      BY <1>1, <3>1, NewRowTyped DEF Merged
    <3> QED
      BY <1>3, <3>1, <3>2, <3>3, OpStep
  <2> QED
    BY <2>1, <2>2 DEF Drop
<1>5. TypeOK'
  BY <1>2, <1>3, <1>4 DEF IInv, TypeOK, urls, ghost
<1>6. CompletedHasObject'
  BY <1>3 DEF IInv, CompletedHasObject
<1> QED
  BY <1>4, <1>5, <1>6 DEF IInv

LEMMA FailInv ==
  ASSUME IInv, NEW p \in Proc, Fail(p)
  PROVE  IInv'
<1>1. Idle \in OpRec /\ Idle.pc = "done" /\ Merged(Idle, object)
  BY IdleTyped DEF Merged
<1>2. op' = [op EXCEPT ![p] = Idle]
  BY DEF Fail, End
<1>3. overlapped' \in BOOLEAN /\ failed' \in BOOLEAN
  BY DEF Fail, IInv, TypeOK
<1> QED
  BY <1>1, <1>2, <1>3, OpOnly DEF Fail

(* The requests of the browser leave rows and calls alone. *)
LEMMA BrowserInv ==
  ASSUME IInv,
         \/ \E t \in 1..tasks, n \in Part : SignPart(t, n)
         \/ \E i \in Upload, n \in Part : PutPart(i, n)
         \/ \E t \in Task : PutObject(t)
  PROVE  IInv'
<1>1. UNCHANGED <<tasks, row, opened, op, ghost>> /\ object \subseteq object'
  BY DEF SignPart, PutPart, PutObject, store
<1>2. object' \in SUBSET Task
  BY DEF SignPart, PutPart, PutObject, store, IInv, TypeOK
<1>3. upload' \in [Upload -> StoreUpload]
  <2>1. upload \in [Upload -> StoreUpload]
    BY DEF IInv, TypeOK
  <2>2. CASE \E i \in Upload, n \in Part : PutPart(i, n)
    <3>1. PICK i \in Upload, n \in Part : PutPart(i, n)
      BY <2>2
    <3> DEFINE u == [upload[i] EXCEPT !.parts = @ \cup {n}]
    <3>2. u \in StoreUpload
      BY <2>1 DEF StoreUpload
    <3>3. upload' = [upload EXCEPT ![i] = u]
      BY <3>1 DEF PutPart
    <3> HIDE DEF u
    <3> QED
      BY <2>1, <3>2, <3>3
  <2>3. CASE (\E t \in 1..tasks, n \in Part : SignPart(t, n)) \/ \E t \in Task : PutObject(t)
    BY <2>1, <2>3 DEF SignPart, PutObject, store
  <2> QED
    BY <2>2, <2>3
<1>4. signed' \in SUBSET (Upload \X Part) /\ signedPut' \in SUBSET Task
  <2>1. CASE \E t \in 1..tasks, n \in Part : SignPart(t, n)
    <3>1. PICK t \in 1..tasks, n \in Part : SignPart(t, n)
      BY <2>1
    <3>2. row[t].upload \in Upload
      BY <3>1, TaskRange DEF SignPart
    <3> QED
      BY <3>1, <3>2 DEF SignPart, IInv, TypeOK
  <2>2. CASE (\E i \in Upload, n \in Part : PutPart(i, n)) \/ \E t \in Task : PutObject(t)
    BY <2>2 DEF PutPart, PutObject, urls, IInv, TypeOK
  <2> QED
    BY <2>1, <2>2
<1>5. TypeOK'
  BY <1>1, <1>2, <1>3, <1>4 DEF IInv, TypeOK, ghost
<1>6. CompletedHasObject' /\ SavesMerged'
  BY <1>1 DEF IInv, CompletedHasObject, SavesMerged, Merged
<1> QED
  BY <1>5, <1>6 DEF IInv

LEMMA NextInv == IInv /\ [Next]_vars => IInv'
<1> SUFFICES ASSUME IInv, [Next]_vars PROVE IInv'
  OBVIOUS
<1>1. ASSUME NEW p \in Proc, Call(p) PROVE IInv'
  BY <1>1, LocateNoneInv, LocatePendingInv, ReadInv DEF Call
<1>2. ASSUME NEW p \in Proc, Step(p) PROVE IInv'
  BY <1>2, CreateTaskInv, OpenUploadInv, SignPutInv, SaveLoadInv, SaveWriteInv,
     ListPartsInv, MergeInv, HeadInv, DropInv DEF Step
<1>3. ASSUME NEW p \in Proc, Fail(p) PROVE IInv'
  BY <1>3, FailInv
<1>4. CASE UNCHANGED vars
  BY <1>4 DEF vars, store, urls, ghost, IInv, TypeOK, CompletedHasObject, SavesMerged, Merged
<1> QED
  BY <1>1, <1>2, <1>3, <1>4, BrowserInv DEF Next

(* The strengthened invariant holds in every reachable state. *)
THEOREM Inductive == Spec => []IInv
  BY InitInv, NextInv, PTL DEF Spec

(* Every reachable state is well typed, for any number of calls, tasks,     *)
(* uploads and parts.                                                       *)
THEOREM TypeCorrect == Spec => []TypeOK
<1>1. IInv => TypeOK
  BY DEF IInv
<1> QED
  BY <1>1, Inductive, PTL

(* A task is completed only when its object is in the store                 *)
(* (multipart-upload.service.ts:423), whatever calls of complete, abort,    *)
(* init, prepare and the callback interleave, crash or are repeated.        *)
THEOREM CompletedOnlyWithObject == Spec => []CompletedHasObject
<1>1. IInv => CompletedHasObject
  BY DEF IInv
<1> QED
  BY <1>1, Inductive, PTL
-----------------------------------------------------------------------------
(* Calls that do not overlap: what one of them holds is what the rows and    *)
(* the store have, because nobody else writes either meanwhile.              *)

(* Rows that are not there yet are as they will be made. *)
Fresh == \A t \in Task : t > tasks => row[t] = NewRow

(* A call makes a task only when there is no pending one; the task it goes   *)
(* on with is pending, and a save writes on top of the row it has loaded.    *)
Placed(o) ==
  /\ o.pc = "create" => Pending = {}
  /\ o.pc \notin {"done", "create"} => o.task \in 1..tasks /\ ~row[o.task].completed
  /\ o.pc = "write" => o.base = row[o.task]

(* What the call has in hand at each point. *)
Kept(o) ==
  /\ o.pc = "create" => o.kind \in {"init", "prepare"}
  /\ o.pc = "open" => o.kind = "init" /\ row[o.task].upload = NoUpload
  /\ o.pc = "sign" => o.kind = "prepare"
  /\ o.pc \in {"list", "merge"} => o.kind = "complete"
  /\ o.pc = "merge" => IsOpen(row[o.task].upload)
  /\ o.pc = "drop" => o.kind = "abort"
  /\ o.pc = "head" => o.kind \in {"complete", "callback"}
  /\ o.pc = "head" /\ o.kind = "complete" => o.task \in object
  /\ o.pc \in {"list", "merge", "drop"} => row[o.task].upload # NoUpload
  /\ o.pc \in {"list", "merge", "drop", "head"} => o.ent = row[o.task]
  /\ o.pc \in {"save", "write"} =>
       /\ o.kind \in Kind \ {"none"}
       /\ o.kind = "prepare" => o.ent = row[o.task]
       /\ o.kind = "init" =>
            \/ o.ent = row[o.task]
            \/ /\ row[o.task].upload = NoUpload
               /\ ~o.ent.completed /\ o.ent.upload # NoUpload
               /\ IsOpen(o.ent.upload) /\ upload[o.ent.upload].task = o.task
       /\ o.kind = "complete" => o.ent = [upload |-> NoUpload, completed |-> TRUE]
       /\ o.kind = "abort" => o.ent = NewRow
       /\ o.kind = "callback" => o.ent = [upload |-> row[o.task].upload, completed |-> TRUE]

(* The call is to take the upload it has merged or dropped off row t ...     *)
Ending(o, t) ==
  /\ o.task = t
  /\ \/ o.kind = "complete" /\ o.pc \in {"head", "save", "write"}
     \/ o.kind = "abort" /\ o.pc \in {"save", "write"}

Ended(o) ==
  \A t \in Task : Ending(o, t) => row[t].upload # NoUpload /\ ~IsOpen(row[t].upload)

(* ... or is to write the upload it has opened to its row.                   *)
Opening(o, i) ==
  /\ o.kind = "init" /\ o.pc \in {"save", "write"}
  /\ o.ent.upload = i /\ o.task = upload[i].task

OneCall == \A p, q \in Proc : p # q => At(p, "done") \/ At(q, "done")

AloneInv ==
  ~overlapped =>
    /\ Fresh /\ OneCall /\ OneTask
    /\ \A p \in Proc : Placed(op[p]) /\ Kept(op[p]) /\ Ended(op[p])

(* The upload of a pending row is open, and an open upload is its row's: but *)
(* for the one that the call is about to take off or to write to a row.      *)
Referred(o) ==
  \A t \in Pending : row[t].upload # NoUpload => IsOpen(row[t].upload) \/ Ending(o, t)

Owned(o) ==
  \A i \in Upload : IsOpen(i) =>
    upload[i].task \in Task /\ (row[upload[i].task].upload = i \/ Opening(o, i))

Alone(p) == ~overlapped /\ \A q \in Proc \ {p} : At(q, "done")

SerialInv ==
  ~failed => \A p \in Proc : Alone(p) => Referred(op[p]) /\ Owned(op[p])

LEMMA OnesAlone ==
  ASSUME AloneInv, ~overlapped, NEW p \in Proc, ~At(p, "done")
  PROVE  Alone(p)
BY DEF AloneInv, OneCall, Alone

LEMMA BeginsAlone ==
  ASSUME AloneInv, NEW p \in Proc, Begins(p), ~overlapped'
  PROVE  Alone(p)
BY DEF Begins, Alone

(* A call q that does nothing neither opens nor ends anything: all that is   *)
(* open is so for whichever call is looked at.                               *)
LEMMA QuietAlone ==
  ASSUME NEW o, NEW q, o.pc = "done", Referred(o), Owned(o)
  PROVE  Referred(q) /\ Owned(q)
BY DEF Referred, Owned, Ending, Opening

(* One step of the call p, which takes it to o. *)
LEMMA AloneStep ==
  ASSUME IInv, AloneInv, NEW p \in Proc, NEW o, op' = [op EXCEPT ![p] = o],
         ~overlapped' => /\ Alone(p) /\ Fresh' /\ OneTask'
                         /\ Placed(o)' /\ Kept(o)' /\ Ended(o)'
  PROVE  AloneInv'
<1>1. op'[p] = o /\ \A q \in Proc \ {p} : op'[q] = op[q]
  BY DEF IInv, TypeOK
<1> SUFFICES ASSUME ~overlapped'
             PROVE  /\ OneCall'
                    /\ \A q \in Proc : Placed(op[q])' /\ Kept(op[q])' /\ Ended(op[q])'
  BY DEF AloneInv
<1>2. \A q \in Proc \ {p} : op'[q].pc = "done"
  BY <1>1 DEF Alone, At
<1>3. OneCall'
  BY <1>2 DEF OneCall, At
<1>4. ASSUME NEW q \in Proc \ {p}
      PROVE  Placed(op[q])' /\ Kept(op[q])' /\ Ended(op[q])'
  BY <1>2 DEF Placed, Kept, Ended, Ending
<1> QED
  BY <1>1, <1>3, <1>4

LEMMA SerialStep ==
  ASSUME IInv, NEW p \in Proc, NEW o, op' = [op EXCEPT ![p] = o],
         ~overlapped' /\ ~failed' => Alone(p) /\ Referred(o)' /\ Owned(o)'
  PROVE  SerialInv'
<1>1. op'[p] = o /\ \A q \in Proc \ {p} : op'[q] = op[q]
  BY DEF IInv, TypeOK
<1> SUFFICES ASSUME ~failed', NEW q \in Proc, Alone(q)'
             PROVE  Referred(op[q])' /\ Owned(op[q])'
  BY DEF SerialInv
<1>2. CASE q = p
  BY <1>1, <1>2 DEF Alone
<1>3. CASE q # p
  <2>1. o.pc = "done" /\ Referred(o)' /\ Owned(o)'
    BY <1>1, <1>3 DEF Alone, At
  <2> QED
    BY <2>1 DEF Referred, Owned, Ending, Opening
<1> QED
  BY <1>2, <1>3

(* A step of a call that has begun. *)
LEMMA CallStep ==
  ASSUME IInv, AloneInv, NEW p \in Proc, ~At(p, "done"),
         NEW o, op' = [op EXCEPT ![p] = o], UNCHANGED ghost,
         Alone(p) => Fresh' /\ OneTask' /\ Placed(o)' /\ Kept(o)' /\ Ended(o)',
         Alone(p) /\ ~failed => Referred(o)' /\ Owned(o)'
  PROVE  AloneInv' /\ SerialInv'
<1>1. ~overlapped' => Alone(p)
  BY OnesAlone DEF ghost
<1>2. failed' = failed
  BY DEF ghost
<1> QED
  BY <1>1, <1>2, AloneStep, SerialStep

(* What a call that runs alone knows. *)
LEMMA KnownAlone ==
  ASSUME IInv, AloneInv, SerialInv, NEW p \in Proc, Alone(p)
  PROVE  /\ Fresh /\ OneTask /\ Placed(op[p]) /\ Kept(op[p]) /\ Ended(op[p])
         /\ ~failed => Referred(op[p]) /\ Owned(op[p])
BY DEF AloneInv, SerialInv, Alone

LEMMA IdleAlone ==
  /\ Idle.pc = "done"
  /\ Placed(Idle) /\ Kept(Idle) /\ Ended(Idle)
  /\ Placed(Idle)' /\ Kept(Idle)' /\ Ended(Idle)'
<1>1. Idle.pc = "done"
  BY DEF Idle
<1> QED
  BY <1>1 DEF Placed, Kept, Ended, Ending

(* A call begins: at that point nothing is being opened or ended. *)
LEMMA BeginKeeps ==
  ASSUME IInv, AloneInv, SerialInv, NEW p \in Proc, Begins(p), NEW o,
         op' = [op EXCEPT ![p] = o], Placed(o), Kept(o), o.pc # "write",
         \A t \in Task : ~Ending(o, t)
  PROVE  AloneInv' /\ SerialInv'
<1>1. UNCHANGED <<tasks, row, opened, upload, object, failed>> /\ op[p].pc = "done"
  BY DEF Begins, store, At
<1>2. (Fresh => Fresh') /\ (OneTask => OneTask')
  BY <1>1 DEF Fresh, OneTask, Pending
<1>3. Placed(o)' /\ Kept(o)' /\ Ended(o)'
  BY <1>1 DEF Placed, Kept, Ended, Ending, Pending, IsOpen
<1>4. ASSUME ~overlapped' PROVE Alone(p) /\ Fresh /\ OneTask
  BY <1>4, BeginsAlone, KnownAlone
<1>5. ASSUME ~overlapped', ~failed' PROVE Referred(o)' /\ Owned(o)'
  <2>1. Referred(op[p]) /\ Owned(op[p])
    BY <1>1, <1>4, <1>5, KnownAlone
  <2>2. Referred(o) /\ Owned(o)
    BY <1>1, <2>1, QuietAlone
  <2> QED
    BY <1>1, <2>2 DEF Referred, Owned, Opening, Ending, Pending, IsOpen
<1> QED
  BY <1>2, <1>3, <1>4, <1>5, AloneStep, SerialStep

LEMMA CallKeeps ==
  ASSUME IInv, AloneInv, SerialInv, NEW p \in Proc, Call(p)
  PROVE  AloneInv' /\ SerialInv'
<1>1. ASSUME NEW kind \in {"prepare", "init"}, LocateNone(p, kind)
      PROVE  AloneInv' /\ SerialInv'
  <2> DEFINE o == [pc |-> "create", kind |-> kind, task |-> 0, ent |-> NewRow, base |-> NewRow]
  <2>1. o.pc = "create" /\ o.kind \in {"prepare", "init"} /\ Pending = {}
    BY <1>1 DEF LocateNone
  <2>2. Begins(p) /\ op' = [op EXCEPT ![p] = o]
    BY <1>1 DEF LocateNone, Enter
  <2> HIDE DEF o
  <2>3. Placed(o) /\ Kept(o) /\ \A t \in Task : ~Ending(o, t)
    BY <2>1 DEF Placed, Kept, Ending
  <2> QED
    BY <2>1, <2>2, <2>3, BeginKeeps
<1>2. ASSUME NEW kind \in {"prepare", "init"}, NEW t \in 1..tasks, LocatePending(p, kind, t)
      PROVE  AloneInv' /\ SerialInv'
  <2> DEFINE pc == IF kind = "init" /\ row[t].upload = NoUpload THEN "open" ELSE "save"
             o == [pc |-> pc, kind |-> kind, task |-> t, ent |-> row[t], base |-> NewRow]
  <2>1. /\ o.pc \in {"open", "save"} /\ o.kind = kind /\ o.task = t /\ o.ent = row[t]
        /\ o.pc = "open" => kind = "init" /\ row[t].upload = NoUpload
        /\ ~row[t].completed /\ t \in Task
    BY <1>2, TaskRange DEF LocatePending, Pending
  <2>2. Begins(p) /\ op' = [op EXCEPT ![p] = o]
    BY <1>2 DEF LocatePending, Enter
  <2> HIDE DEF o, pc
  <2>3. Placed(o) /\ Kept(o) /\ \A s \in Task : ~Ending(o, s)
    BY <2>1 DEF Placed, Kept, Ending, Kind
  <2> QED
    BY <2>1, <2>2, <2>3, BeginKeeps
<1>3. ASSUME NEW t \in 1..tasks, CompleteRead(p, t) \/ AbortRead(p, t) \/ CallbackRead(p, t)
      PROVE  AloneInv' /\ SerialInv'
  <2>1. \/ Read(p, "complete", "list", t) /\ row[t].upload # NoUpload
        \/ Read(p, "abort", "drop", t) /\ row[t].upload # NoUpload
        \/ Read(p, "callback", "head", t)
    BY <1>3 DEF CompleteRead, AbortRead, CallbackRead
  <2>2. PICK kind, pc :
          /\ Read(p, kind, pc, t)
          /\ \/ kind = "complete" /\ pc = "list" /\ row[t].upload # NoUpload
             \/ kind = "abort" /\ pc = "drop" /\ row[t].upload # NoUpload
             \/ kind = "callback" /\ pc = "head"
    BY <2>1
  <2> DEFINE o == [pc |-> pc, kind |-> kind, task |-> t, ent |-> row[t], base |-> NewRow]
  <2>3. /\ o.pc = pc /\ o.kind = kind /\ o.task = t /\ o.ent = row[t]
        /\ ~row[t].completed
    BY <2>2 DEF Read
  <2>4. Begins(p) /\ op' = [op EXCEPT ![p] = o]
    BY <2>2 DEF Read, Enter
  <2> HIDE DEF o
  <2>5. Placed(o) /\ Kept(o) /\ o.pc # "write" /\ \A s \in Task : ~Ending(o, s)
    BY <2>2, <2>3 DEF Placed, Kept, Ending
  <2> QED
    BY <2>4, <2>5, BeginKeeps
<1> QED
  BY <1>1, <1>2, <1>3 DEF Call

LEMMA CreateTaskKeeps ==
  ASSUME IInv, AloneInv, SerialInv, NEW p \in Proc, CreateTask(p)
  PROVE  AloneInv' /\ SerialInv'
<1> SUFFICES ASSUME NEW q, q = op[p], NEW pc, pc = IF q.kind = "init" THEN "open" ELSE "sign",
                    NEW o, o = [q EXCEPT !.pc = pc, !.task = tasks + 1]
             PROVE  AloneInv' /\ SerialInv'
  OBVIOUS
<1>1. /\ q \in OpRec /\ q.pc = "create" /\ tasks \in Nat /\ tasks' = tasks + 1
      /\ UNCHANGED <<upload, object, ghost>>
      /\ row \in [Task -> Row] /\ row' = [row EXCEPT ![tasks + 1] = NewRow]
  BY ProcTyped, BoundAssumption DEF CreateTask, At, store, IInv, TypeOK
<1>2. op' = [op EXCEPT ![p] = o]
  BY DEF CreateTask
<1>3. tasks + 1 \in Task
  BY BoundAssumption DEF CreateTask, IInv, TypeOK
<1>4. /\ o.pc = pc /\ o.kind = q.kind /\ o.task = tasks + 1
      /\ pc \in {"open", "sign"} /\ (pc = "open" <=> q.kind = "init")
  BY <1>1 DEF OpRec
<1>5. ASSUME Alone(p)
      PROVE  /\ row' = row /\ row[tasks + 1] = NewRow
             /\ Pending = {} /\ Pending' \subseteq {tasks + 1}
  <2>1. Fresh /\ Pending = {}
    BY <1>1, <1>5, KnownAlone DEF Placed
  <2>2. row[tasks + 1] = NewRow
    <3>1. \A t : t = tasks + 1 => t > tasks
      BY <1>1
    <3> QED
      BY <1>3, <2>1, <3>1 DEF Fresh
  <2>3. row' = row
    BY <1>1, <1>3, <2>2
  <2> QED
    BY <1>1, <2>1, <2>2, <2>3 DEF Pending
<1>6. ASSUME Alone(p) PROVE Fresh' /\ OneTask' /\ Placed(o)' /\ Kept(o)' /\ Ended(o)'
  <2>1. q.kind \in {"init", "prepare"} /\ Fresh
    BY <1>1, <1>6, KnownAlone DEF Kept
  <2>2. Fresh' /\ OneTask'
    BY <1>1, <1>5, <1>6, <2>1, BoundAssumption DEF OneTask, Fresh
  <2>3. Placed(o)'
    BY <1>1, <1>4, <1>5, <1>6 DEF Placed
  <2>4. Kept(o)' /\ Ended(o)'
    BY <1>4, <1>5, <1>6, <2>1 DEF Kept, Ended, Ending
  <2> QED
    BY <2>2, <2>3, <2>4
<1>7. ASSUME Alone(p), ~failed PROVE Referred(o)' /\ Owned(o)'
  <2>1. Owned(q)
    BY <1>7, KnownAlone
  <2>2. Referred(o)'
    BY <1>5, <1>7 DEF Referred
  <2>3. Owned(o)'
    BY <1>1, <1>5, <1>7, <2>1 DEF Owned, Opening, IsOpen
  <2> QED
    BY <2>2, <2>3
<1> QED
  BY <1>1, <1>2, <1>6, <1>7, CallStep DEF At

LEMMA OpenUploadKeeps ==
  ASSUME IInv, AloneInv, SerialInv, NEW p \in Proc, OpenUpload(p)
  PROVE  AloneInv' /\ SerialInv'
<1> SUFFICES ASSUME NEW q, q = op[p], NEW e, e = [upload |-> opened + 1, completed |-> FALSE],
                    NEW o, o = [q EXCEPT !.pc = "save", !.ent = e]
             PROVE  AloneInv' /\ SerialInv'
  OBVIOUS
<1>1. /\ q \in OpRec /\ q.pc = "open" /\ q.task \in Task
      /\ opened + 1 \in Upload /\ opened + 1 # NoUpload
      /\ UNCHANGED <<tasks, row, object, ghost>>
      /\ upload \in [Upload -> StoreUpload] /\ row \in [Task -> Row]
  BY ProcTyped, BoundAssumption DEF OpenUpload, At, IInv, TypeOK
<1>0. op' = [op EXCEPT ![p] = o]
  BY DEF OpenUpload, Hold
<1>2. /\ \A i \in Upload \ {opened + 1} : upload'[i] = upload[i]
      /\ upload'[opened + 1].state = "open" /\ upload'[opened + 1].task = q.task
  BY <1>1 DEF OpenUpload
<1>3. /\ o.pc = "save" /\ o.kind = q.kind /\ o.task = q.task
      /\ o.ent.upload = opened + 1 /\ ~o.ent.completed
  BY <1>1 DEF OpRec
<1>5. ASSUME Alone(p) PROVE Fresh' /\ OneTask' /\ Placed(o)' /\ Kept(o)' /\ Ended(o)'
  <2>1. Fresh /\ OneTask /\ Placed(q) /\ q.kind = "init" /\ row[q.task].upload = NoUpload
    BY <1>1, <1>5, KnownAlone DEF Kept
  <2>2. Fresh' /\ OneTask' /\ Placed(o)'
    BY <1>1, <1>3, <2>1 DEF Fresh, OneTask, Placed, Pending
  <2>3. Kept(o)' /\ Ended(o)'
    BY <1>1, <1>2, <1>3, <2>1 DEF Kept, Ended, Ending, IsOpen, Kind
  <2> QED
    BY <2>2, <2>3
<1>6. ASSUME Alone(p), ~failed PROVE Referred(o)' /\ Owned(o)'
  <2>1. Referred(q) /\ Owned(q) /\ q.kind = "init"
    BY <1>1, <1>6, KnownAlone DEF Kept
  <2>2. Referred(o)'
    <3> SUFFICES ASSUME NEW t \in Pending, row[t].upload # NoUpload
                 PROVE  IsOpen(row[t].upload)'
      BY <1>1 DEF Referred, Pending
    <3>1. IsOpen(row[t].upload)
      BY <1>1, <2>1 DEF Referred, Ending
    <3>2. row[t].upload \in Upload
      <4>1. t \in Task
        BY TaskRange DEF Pending
      <4> QED
        BY <1>1, <4>1
    <3> QED
      BY <1>1, <1>2, <3>1, <3>2 DEF IsOpen
  <2>3. Owned(o)'
    BY <1>1, <1>2, <1>3, <2>1 DEF Owned, Opening, IsOpen
  <2> QED
    BY <2>2, <2>3
<1> QED
  BY <1>0, <1>1, <1>5, <1>6, CallStep DEF At

(* The call ends, having changed no row and no upload. *)
LEMMA EndKeeps ==
  ASSUME IInv, AloneInv, SerialInv, NEW p \in Proc, ~At(p, "done"), End(p),
         UNCHANGED <<tasks, row, store, ghost>>,
         \A t : ~Ending(op[p], t), \A i : ~Opening(op[p], i)
  PROVE  AloneInv' /\ SerialInv'
<1>1. UNCHANGED <<tasks, row, upload, object>> /\ op' = [op EXCEPT ![p] = Idle]
  BY DEF store, End
<1>3. ASSUME Alone(p) PROVE Fresh' /\ OneTask'
  BY <1>1, <1>3, KnownAlone DEF Fresh, OneTask, Pending
<1>4. ASSUME Alone(p), ~failed PROVE Referred(Idle)' /\ Owned(Idle)'
  <2>1. Referred(op[p]) /\ Owned(op[p]) /\ \A t \in Pending : t \in Task
    BY <1>4, KnownAlone, TaskRange DEF Pending
  <2>2. Referred(Idle)'
    BY <1>1, <2>1 DEF Referred, Pending, IsOpen
  <2>3. Owned(Idle)'
    BY <1>1, <2>1 DEF Owned, IsOpen
  <2> QED
    BY <2>2, <2>3
<1> QED
  BY <1>1, <1>3, <1>4, IdleAlone, CallStep

LEMMA SignPutKeeps ==
  ASSUME IInv, AloneInv, SerialInv, NEW p \in Proc, SignPut(p)
  PROVE  AloneInv' /\ SerialInv'
<1>1. (\A t : ~Ending(op[p], t)) /\ \A i : ~Opening(op[p], i)
  BY DEF SignPut, At, Ending, Opening
<1> QED
  BY <1>1, EndKeeps DEF SignPut, At

LEMMA SaveLoadKeeps ==
  ASSUME IInv, AloneInv, SerialInv, NEW p \in Proc, SaveLoad(p)
  PROVE  AloneInv' /\ SerialInv'
<1> SUFFICES ASSUME NEW q, q = op[p],
                    NEW o, o = [q EXCEPT !.pc = "write", !.base = row[q.task]]
             PROVE  AloneInv' /\ SerialInv'
  OBVIOUS
<1>1. /\ q \in OpRec /\ q.pc = "save"
      /\ UNCHANGED <<tasks, row, upload, object, ghost>>
  BY ProcTyped DEF SaveLoad, At, store
<1>0. op' = [op EXCEPT ![p] = o]
  BY DEF SaveLoad
<1>2. /\ o.pc = "write" /\ o.kind = q.kind /\ o.task = q.task /\ o.ent = q.ent
      /\ o.base = row[q.task]
  BY <1>1 DEF OpRec
<1>4. ASSUME Alone(p) PROVE Fresh' /\ OneTask' /\ Placed(o)' /\ Kept(o)' /\ Ended(o)'
  <2>1. Fresh /\ OneTask /\ Placed(q) /\ Kept(q) /\ Ended(q)
    BY <1>4, KnownAlone
  <2>2. Fresh' /\ OneTask' /\ Placed(o)'
    BY <1>1, <1>2, <2>1 DEF Fresh, OneTask, Placed, Pending
  <2>3. Kept(o)'
    BY <1>1, <1>2, <2>1 DEF Kept, IsOpen
  <2>4. Ended(o)'
    BY <1>1, <1>2, <2>1 DEF Ended, Ending, IsOpen
  <2> QED
    BY <2>2, <2>3, <2>4
<1>5. ASSUME Alone(p), ~failed PROVE Referred(o)' /\ Owned(o)'
  <2>1. Referred(q) /\ Owned(q)
    BY <1>5, KnownAlone
  <2>2. Referred(o)'
    BY <1>1, <1>2, <2>1 DEF Referred, Ending, Pending, IsOpen
  <2>3. Owned(o)'
    BY <1>1, <1>2, <2>1 DEF Owned, Opening, IsOpen
  <2> QED
    BY <2>2, <2>3
<1> QED
  BY <1>0, <1>1, <1>4, <1>5, CallStep DEF At

(* What a save writes is the entity when nobody has written meanwhile. *)
LEMMA WrittenAlone ==
  ASSUME NEW ent \in Row, NEW base \in Row
  PROVE  Written(ent, base, base) = ent
BY DEF Written, Column

LEMMA SaveWriteKeeps ==
  ASSUME IInv, AloneInv, SerialInv, NEW p \in Proc, SaveWrite(p)
  PROVE  AloneInv' /\ SerialInv'
<1> SUFFICES ASSUME NEW q, q = op[p], NEW t, t = q.task,
                    NEW w, w = Written(q.ent, q.base, row[t])
             PROVE  AloneInv' /\ SerialInv'
  OBVIOUS
<1>1. /\ q \in OpRec /\ q.pc = "write" /\ t \in Task /\ q.ent \in Row /\ q.base \in Row
      /\ row \in [Task -> Row] /\ row' = [row EXCEPT ![t] = w]
      /\ UNCHANGED <<tasks, upload, object, ghost>>
  BY ProcTyped DEF SaveWrite, At, store, IInv, TypeOK
<1>2. row'[t] = w /\ \A s \in Task \ {t} : row'[s] = row[s]
  BY <1>1
<1>3. PICK o : /\ op' = [op EXCEPT ![p] = o]
               /\ \/ o = Idle /\ o.pc = "done" /\ q.kind # "prepare"
                  \/ /\ o.pc = "sign" /\ o.kind = "prepare" /\ o.task = t
                     /\ q.kind = "prepare"
  BY IdleAlone DEF SaveWrite, Enter, End
<1>4. ASSUME Alone(p)
      PROVE  /\ w = q.ent /\ t \in 1..tasks /\ ~row[t].completed
             /\ Kept(q) /\ Fresh /\ OneTask
  BY <1>1, <1>4, KnownAlone, WrittenAlone DEF Placed
<1>5. ASSUME Alone(p) PROVE Pending' \subseteq Pending
  BY <1>1, <1>2, <1>4, <1>5, BoundAssumption DEF Pending, IInv, TypeOK
<1>6. ASSUME Alone(p) PROVE Fresh' /\ OneTask' /\ Placed(o)' /\ Kept(o)' /\ Ended(o)'
  <2>1. OneTask'
    BY <1>4, <1>5, <1>6 DEF OneTask
  <2>2. Fresh'
    <3>1. \A s \in Task : s > tasks => s # t
      BY <1>1, <1>4, <1>6, BoundAssumption DEF IInv, TypeOK
    <3> QED
      BY <1>1, <1>2, <1>4, <1>6, <3>1 DEF Fresh
  <2>3. Placed(o)' /\ Kept(o)' /\ Ended(o)'
    <3>1. CASE o = Idle
      BY <3>1, IdleAlone
    <3>2. CASE o.pc = "sign" /\ o.kind = "prepare" /\ o.task = t /\ q.kind = "prepare"
      <4>1. w = row[t]
        BY <1>1, <1>4, <1>6, <3>2 DEF Kept
      <4> QED
        BY <1>1, <1>2, <1>4, <1>6, <3>2, <4>1 DEF Placed, Kept, Ended, Ending
    <3> QED
      BY <1>3, <3>1, <3>2
  <2> QED
    BY <2>1, <2>2, <2>3
<1>7. ASSUME Alone(p), ~failed PROVE Referred(o)' /\ Owned(o)'
  <2>1. Referred(q) /\ Owned(q) /\ Ended(q)
    BY <1>7, KnownAlone
  <2>2. q.kind \in Kind \ {"none"}
    BY <1>1, <1>4, <1>7 DEF Kept
  <2>3. Referred(o)'
    <3> SUFFICES ASSUME NEW s, s \in Pending', row'[s].upload # NoUpload
                 PROVE  IsOpen(row[s].upload)'
      BY DEF Referred
    <3>1. s \in Pending /\ s \in Task /\ t \in Pending
      BY <1>1, <1>4, <1>5, <1>7, TaskRange DEF Pending
    <3>2. s = t
      BY <1>4, <1>7, <3>1 DEF OneTask
    <3>3. w.upload # NoUpload /\ ~w.completed
      BY <1>2, <1>1, <3>1, <3>2 DEF Pending
    <3>4. \/ w = row[t] /\ q.kind \in {"prepare", "init"}
          \/ IsOpen(w.upload)
      BY <1>1, <1>4, <1>7, <2>2, <3>3 DEF Kept, Kind
    <3>5. IsOpen(w.upload)
      BY <1>1, <2>1, <3>1, <3>2, <3>3, <3>4 DEF Referred, Ending
    <3> QED
      BY <1>1, <1>2, <3>2, <3>5 DEF IsOpen
  <2>4. Owned(o)'
    <3> SUFFICES ASSUME NEW i \in Upload, IsOpen(i)
                 PROVE  upload[i].task \in Task /\ row'[upload[i].task].upload = i
      BY <1>1 DEF Owned, IsOpen
    <3>1. /\ upload[i].task \in Task
          /\ row[upload[i].task].upload = i \/ Opening(q, i)
      BY <2>1 DEF Owned
    <3>2. CASE upload[i].task # t
      BY <1>1, <1>2, <3>1, <3>2 DEF Opening
    <3>3. CASE upload[i].task = t /\ Opening(q, i)
      BY <1>1, <1>2, <1>4, <1>7, <3>3 DEF Opening
    <3>4. CASE upload[i].task = t /\ row[t].upload = i
      <4>1. ~Ending(q, t)
        BY <1>1, <2>1, <3>4 DEF Ended
      <4>2. q.kind \in {"prepare", "init", "callback"}
        BY <1>1, <2>2, <4>1 DEF Ending, Kind
      <4>3. w.upload = row[t].upload
        BY <1>1, <1>4, <1>7, <3>4, <4>2 DEF Kept
      <4> QED
        BY <1>1, <1>2, <3>4, <4>3
    <3> QED
      BY <3>1, <3>2, <3>3, <3>4
  <2> QED
    BY <2>3, <2>4
<1> QED
  BY <1>1, <1>3, <1>6, <1>7, CallStep DEF At

LEMMA ListPartsKeeps ==
  ASSUME IInv, AloneInv, SerialInv, NEW p \in Proc, ListParts(p)
  PROVE  AloneInv' /\ SerialInv'
<1> SUFFICES ASSUME NEW q, q = op[p], NEW o, o = [q EXCEPT !.pc = "merge"]
             PROVE  AloneInv' /\ SerialInv'
  OBVIOUS
<1>1. /\ q \in OpRec /\ q.pc = "list"
      /\ UNCHANGED <<tasks, row, store, upload, object, ghost>>
      /\ \/ End(p)
         \/ IsOpen(q.ent.upload) /\ op' = [op EXCEPT ![p].pc = "merge"]
  BY ProcTyped DEF ListParts, At, store, Goto
<1>2. CASE End(p)
  <2>1. (\A t : ~Ending(q, t)) /\ \A i : ~Opening(q, i)
    BY <1>1 DEF Ending, Opening
  <2> QED
    BY <1>1, <1>2, <2>1, EndKeeps DEF At
<1>3. CASE IsOpen(q.ent.upload) /\ op' = [op EXCEPT ![p].pc = "merge"]
  <2>1. /\ o.pc = "merge" /\ o.kind = q.kind /\ o.task = q.task /\ o.ent = q.ent
        /\ op' = [op EXCEPT ![p] = o]
    BY <1>1, <1>3 DEF OpRec
  <2>2. ASSUME Alone(p) PROVE Fresh' /\ OneTask' /\ Placed(o)' /\ Kept(o)' /\ Ended(o)'
    <3>1. Fresh /\ OneTask /\ Placed(q) /\ Kept(q)
      BY <2>2, KnownAlone
    <3>2. Fresh' /\ OneTask' /\ Placed(o)'
      BY <1>1, <2>1, <3>1 DEF Fresh, OneTask, Placed, Pending
    <3>3. Kept(o)' /\ Ended(o)'
      BY <1>1, <1>3, <2>1, <3>1 DEF Kept, Ended, Ending, IsOpen
    <3> QED
      BY <3>2, <3>3
  <2>3. ASSUME Alone(p), ~failed PROVE Referred(o)' /\ Owned(o)'
    <3>1. Referred(q) /\ Owned(q)
      BY <2>3, KnownAlone
    <3>2. Referred(o)'
      BY <1>1, <2>1, <3>1 DEF Referred, Ending, Pending, IsOpen
    <3>3. Owned(o)'
      BY <1>1, <2>1, <3>1 DEF Owned, Opening, IsOpen
    <3> QED
      BY <3>2, <3>3
  <2> QED
    BY <1>1, <2>1, <2>2, <2>3, CallStep DEF At
<1> QED
  BY <1>1, <1>2, <1>3

(* The upload i of the task at hand is closed in the store, which the call   *)
(* is to take off the row: no other pending row refers to it.                *)
LEMMA CloseKeeps ==
  ASSUME IInv, AloneInv, SerialInv, NEW p \in Proc, NEW q, q = op[p], NEW i, i = q.ent.upload,
         q.pc \in {"merge", "drop"}, UNCHANGED <<tasks, row, ghost>>, object \subseteq object',
         NEW s \in {"done", "gone"}, upload' = [upload EXCEPT ![i].state = s],
         NEW o, op' = [op EXCEPT ![p] = o], o.kind = q.kind, o.task = q.task,
         \/ /\ q.pc = "merge" /\ o.pc = "head" /\ o.ent = q.ent /\ o.task \in object'
         \/ /\ q.pc = "drop" /\ o.pc = "save" /\ o.ent = NewRow
  PROVE  AloneInv' /\ SerialInv'
<1>1. /\ q \in OpRec /\ q.task \in Task /\ row \in [Task -> Row]
      /\ upload \in [Upload -> StoreUpload]
  BY ProcTyped DEF IInv, TypeOK
<1>2. ASSUME Alone(p)
      PROVE  /\ Fresh /\ OneTask /\ q.task \in Pending /\ q.ent = row[q.task]
             /\ i \in Upload /\ row[q.task].upload = i
             /\ q.pc = "merge" => q.kind = "complete"
             /\ q.pc = "drop" => q.kind = "abort"
  <2>1. Fresh /\ OneTask /\ Placed(q) /\ Kept(q)
    BY <1>2, KnownAlone
  <2> QED
    BY <1>1, <2>1 DEF Placed, Kept, Pending
<1>3. ASSUME Alone(p)
      PROVE  /\ ~IsOpen(i)'
             /\ \A j \in Upload \ {i} : upload'[j] = upload[j]
             /\ \A j \in Upload : upload'[j].task = upload[j].task
  BY <1>1, <1>2, <1>3 DEF IsOpen, StoreUpload
<1>4. ASSUME Alone(p) PROVE Fresh' /\ OneTask' /\ Placed(o)' /\ Kept(o)' /\ Ended(o)'
  <2>1. Fresh' /\ OneTask' /\ Placed(o)'
    BY <1>2, <1>4 DEF Fresh, OneTask, Placed, Pending
  <2>2. Kept(o)'
    BY <1>2, <1>4 DEF Kept, Kind
  <2>3. Ended(o)'
    BY <1>1, <1>2, <1>3, <1>4 DEF Ended, Ending, Kept
  <2> QED
    BY <2>1, <2>2, <2>3
<1>5. ASSUME Alone(p), ~failed PROVE Referred(o)' /\ Owned(o)'
  <2>1. Owned(q)
    BY <1>5, KnownAlone
  <2>2. Referred(o)'
    <3>1. \A t \in Pending' : t = q.task
      BY <1>2, <1>5 DEF OneTask, Pending
    <3> QED
      BY <1>2, <1>5, <3>1 DEF Referred, Ending
  <2>3. Owned(o)'
    BY <1>1, <1>3, <1>5, <2>1 DEF Owned, Opening, IsOpen
  <2> QED
    BY <2>2, <2>3
<1> QED
  BY <1>4, <1>5, CallStep DEF At

LEMMA MergeKeeps ==
  ASSUME IInv, AloneInv, SerialInv, NEW p \in Proc, Merge(p)
  PROVE  AloneInv' /\ SerialInv'
<1> SUFFICES ASSUME NEW q, q = op[p], NEW i, i = q.ent.upload,
                    NEW o, o = [q EXCEPT !.pc = "head"]
             PROVE  AloneInv' /\ SerialInv'
  OBVIOUS
<1>1. /\ q \in OpRec /\ q.pc = "merge" /\ UNCHANGED <<tasks, row, opened, ghost>>
      /\ o.pc = "head" /\ o.kind = q.kind /\ o.task = q.task /\ o.ent = q.ent
      /\ [op EXCEPT ![p].pc = "head"] = [op EXCEPT ![p] = o]
  BY ProcTyped DEF Merge, At, OpRec, IInv, TypeOK
<1>2. CASE IsOpen(i)
  <2>1. /\ upload' = [upload EXCEPT ![i].state = "done"]
        /\ object' = object \cup {q.task} /\ op' = [op EXCEPT ![p] = o]
    BY <1>1, <1>2 DEF Merge, Goto, IsOpen
  <2>2. /\ object \subseteq object' /\ o.task \in object' /\ UNCHANGED <<tasks, row, ghost>>
        /\ o.pc = "head" /\ o.ent = q.ent /\ o.kind = q.kind /\ o.task = q.task
        /\ q.pc = "merge" /\ q.pc \in {"merge", "drop"} /\ "done" \in {"done", "gone"}
    BY <1>1, <2>1
  <2> QED
    BY <2>1, <2>2, CloseKeeps, Zenon
<1>3. CASE ~IsOpen(i)
  <2>1. ~Alone(p)
    BY <1>1, <1>3, KnownAlone DEF Kept
  <2>2. overlapped'
    BY <1>1, <2>1, OnesAlone DEF At, ghost, IInv, TypeOK
  <2> QED
    BY <2>2 DEF AloneInv, SerialInv, Alone
<1> QED
  BY <1>2, <1>3

LEMMA DropKeeps ==
  ASSUME IInv, AloneInv, SerialInv, NEW p \in Proc, Drop(p)
  PROVE  AloneInv' /\ SerialInv'
<1> SUFFICES ASSUME NEW q, q = op[p], NEW i, i = q.ent.upload,
                    NEW o, o = [q EXCEPT !.pc = "save", !.ent = NewRow]
             PROVE  AloneInv' /\ SerialInv'
  OBVIOUS
<1>1. /\ q \in OpRec /\ q.pc = "drop" /\ UNCHANGED <<tasks, row, opened, object, ghost>>
      /\ o.pc = "save" /\ o.kind = q.kind /\ o.task = q.task /\ o.ent = NewRow
  BY ProcTyped DEF Drop, At, OpRec
<1>2. CASE IsOpen(i)
  <2>1. /\ upload' = [upload EXCEPT ![i].state = "gone"] /\ op' = [op EXCEPT ![p] = o]
    BY <1>2 DEF Drop, Hold
  <2> QED
    BY <1>1, <2>1, CloseKeeps
<1>3. CASE ~IsOpen(i)
  <2>1. End(p) /\ UNCHANGED <<tasks, row, store, ghost>>
    BY <1>1, <1>3 DEF Drop, store
  <2>2. (\A t : ~Ending(q, t)) /\ \A j : ~Opening(q, j)
    BY <1>1 DEF Ending, Opening
  <2> QED
    BY <1>1, <2>1, <2>2, EndKeeps DEF At
<1> QED
  BY <1>2, <1>3

LEMMA HeadKeeps ==
  ASSUME IInv, AloneInv, SerialInv, NEW p \in Proc, HeadObject(p)
  PROVE  AloneInv' /\ SerialInv'
<1> SUFFICES ASSUME NEW q, q = op[p], NEW e, e = CompletedRow(p),
                    NEW o, o = [q EXCEPT !.pc = "save", !.ent = e]
             PROVE  AloneInv' /\ SerialInv'
  OBVIOUS
<1>1. /\ q \in OpRec /\ q.pc = "head"
      /\ UNCHANGED <<tasks, row, store, upload, object, ghost>>
      /\ o.pc = "save" /\ o.kind = q.kind /\ o.task = q.task /\ o.ent = e
      /\ e = [upload |-> IF q.kind = "complete" THEN NoUpload ELSE q.ent.upload,
              completed |-> TRUE]
  BY ProcTyped DEF HeadObject, At, OpRec, store, CompletedRow
<1>2. CASE q.task \in object /\ Hold(p, "save", e)
  <2>1. op' = [op EXCEPT ![p] = o]
    BY <1>2 DEF Hold
  <2>2. ASSUME Alone(p) PROVE Fresh' /\ OneTask' /\ Placed(o)' /\ Kept(o)' /\ Ended(o)'
    <3>1. Fresh /\ OneTask /\ Placed(q) /\ Kept(q) /\ Ended(q)
      BY <2>2, KnownAlone
    <3>2. Fresh' /\ OneTask' /\ Placed(o)'
      BY <1>1, <3>1 DEF Fresh, OneTask, Placed, Pending
    <3>3. Kept(o)'
      BY <1>1, <3>1 DEF Kept, Kind
    <3>4. Ended(o)'
      BY <1>1, <3>1 DEF Kept, Ended, Ending, IsOpen
    <3> QED
      BY <3>2, <3>3, <3>4
  <2>3. ASSUME Alone(p), ~failed PROVE Referred(o)' /\ Owned(o)'
    <3>1. Referred(q) /\ Owned(q) /\ q.kind \in {"complete", "callback"}
      BY <1>1, <2>3, KnownAlone DEF Kept
    <3>2. Referred(o)'
      BY <1>1, <3>1 DEF Referred, Ending, Pending, IsOpen
    <3>3. Owned(o)'
      BY <1>1, <3>1 DEF Owned, Opening, IsOpen
    <3> QED
      BY <3>2, <3>3
  <2> QED
    BY <1>1, <2>1, <2>2, <2>3, CallStep DEF At
<1>3. CASE q.task \notin object /\ End(p)
  <2>1. CASE q.kind = "complete"
    <3>1. ~Alone(p)
      BY <1>1, <1>3, <2>1, KnownAlone DEF Kept
    <3>2. overlapped'
      BY <1>1, <3>1, OnesAlone DEF At, ghost, IInv, TypeOK
    <3> QED
      BY <3>2 DEF AloneInv, SerialInv, Alone
  <2>2. CASE q.kind # "complete"
    <3>1. (\A t : ~Ending(q, t)) /\ \A j : ~Opening(q, j)
      BY <1>1, <2>2 DEF Ending, Opening
    <3> QED
      BY <1>1, <1>3, <3>1, EndKeeps DEF At
  <2> QED
    BY <2>1, <2>2
<1> QED
  BY <1>2, <1>3 DEF HeadObject

LEMMA FailKeeps ==
  ASSUME IInv, AloneInv, SerialInv, NEW p \in Proc, Fail(p)
  PROVE  AloneInv' /\ SerialInv'
<1>1. /\ UNCHANGED <<tasks, row, upload, object, overlapped>>
      /\ op' = [op EXCEPT ![p] = Idle] /\ failed'
  BY DEF Fail, End, store
<1>2. ASSUME ~overlapped' PROVE Alone(p) /\ Fresh' /\ OneTask'
  <2>1. Alone(p)
    BY <1>1, <1>2, OnesAlone DEF Fail
  <2> QED
    BY <1>1, <2>1, KnownAlone DEF Fresh, OneTask, Pending
<1> QED
  BY <1>1, <1>2, AloneStep, IdleAlone DEF SerialInv

LEMMA BrowserKeeps ==
  ASSUME IInv, AloneInv, SerialInv,
         \/ \E t \in 1..tasks, n \in Part : SignPart(t, n)
         \/ \E i \in Upload, n \in Part : PutPart(i, n)
         \/ \E t \in Task : PutObject(t)
  PROVE  AloneInv' /\ SerialInv'
<1>1. /\ UNCHANGED <<tasks, row, op, overlapped, failed>> /\ object \subseteq object'
      /\ \A i : IsOpen(i)' <=> IsOpen(i)
      /\ \A i : upload'[i].task = upload[i].task
  <2>1. CASE \E t \in 1..tasks, n \in Part : SignPart(t, n)
    BY <2>1 DEF SignPart, store, ghost, IsOpen
  <2>2. CASE \E t \in Task : PutObject(t)
    BY <2>2 DEF PutObject, ghost, IsOpen
  <2>3. CASE \E i \in Upload, n \in Part : PutPart(i, n)
    <3>1. upload \in [Upload -> StoreUpload]
      BY DEF IInv, TypeOK
    <3> QED
      BY <2>3, <3>1 DEF PutPart, ghost, IsOpen, StoreUpload
  <2> QED
    BY <2>1, <2>2, <2>3
<1>2. AloneInv'
  <2>1. /\ OneCall => OneCall'
        /\ OneTask => OneTask'
        /\ Fresh => Fresh'
    BY <1>1 DEF OneCall, At, OneTask, Fresh, Pending
  <2>2. ASSUME NEW p \in Proc, Placed(op[p]), Kept(op[p]), Ended(op[p])
        PROVE  Placed(op[p])' /\ Kept(op[p])' /\ Ended(op[p])'
    <3>1. Placed(op[p])'
      BY <1>1, <2>2 DEF Placed, Pending
    <3>2. Kept(op[p])'
      BY <1>1, <2>2 DEF Kept
    <3>3. Ended(op[p])'
      BY <1>1, <2>2 DEF Ended, Ending
    <3> QED
      BY <3>1, <3>2, <3>3
  <2> QED
    BY <1>1, <2>1, <2>2 DEF AloneInv
<1>3. SerialInv'
  <2>1. ASSUME NEW p \in Proc, Referred(op[p]), Owned(op[p])
        PROVE  Referred(op[p])' /\ Owned(op[p])'
    <3>1. Referred(op[p])'
      BY <1>1, <2>1 DEF Referred, Ending, Pending
    <3>2. Owned(op[p])'
      BY <1>1, <2>1 DEF Owned, Opening
    <3> QED
      BY <3>1, <3>2
  <2> QED
    BY <1>1, <2>1 DEF SerialInv, Alone, At
<1> QED
  BY <1>2, <1>3

LEMMA AloneInit == Init => AloneInv /\ SerialInv
<1> SUFFICES ASSUME Init PROVE AloneInv /\ SerialInv
  OBVIOUS
<1>1. Fresh /\ OneCall /\ OneTask /\ Pending = {}
  BY IdleAlone, BoundAssumption DEF Init, Fresh, OneCall, OneTask, Pending, At
<1>2. \A i \in Upload : ~IsOpen(i)
  BY DEF Init, IsOpen
<1>3. \A p \in Proc : op[p] = Idle
  BY DEF Init
<1> QED
  BY <1>1, <1>2, <1>3, IdleAlone DEF AloneInv, SerialInv, Referred, Owned

LEMMA AloneNext == IInv /\ AloneInv /\ SerialInv /\ [Next]_vars => AloneInv' /\ SerialInv'
<1> SUFFICES ASSUME IInv, AloneInv, SerialInv, [Next]_vars PROVE AloneInv' /\ SerialInv'
  OBVIOUS
<1>1. ASSUME NEW p \in Proc, Step(p) PROVE AloneInv' /\ SerialInv'
  BY <1>1, CreateTaskKeeps, OpenUploadKeeps, SignPutKeeps, SaveLoadKeeps, SaveWriteKeeps,
     ListPartsKeeps, MergeKeeps, HeadKeeps, DropKeeps DEF Step
<1>2. CASE UNCHANGED vars
  BY <1>2 DEF vars, AloneInv, SerialInv, Fresh, OneCall, OneTask, Pending, Placed, Kept, Ended,
              Ending, Opening, Referred, Owned, Alone, At, IsOpen
<1> QED
  BY <1>1, <1>2, CallKeeps, FailKeeps, BrowserKeeps DEF Next

(* Where nobody calls there is neither a row nor an upload. *)
NoCalls == Proc = {} => tasks = 0 /\ \A i \in Upload : ~IsOpen(i)

LEMMA NobodyCalls == NoCalls /\ [Next]_vars => NoCalls'
<1> SUFFICES ASSUME NoCalls, [Next]_vars, Proc = {} PROVE NoCalls'
  BY DEF NoCalls
<1>1. tasks = 0 /\ 1..tasks = {} /\ \A i \in Upload : ~IsOpen(i)
  BY DEF NoCalls
<1>2. CASE UNCHANGED vars
  BY <1>1, <1>2 DEF vars, store, NoCalls, IsOpen
<1>3. CASE \E t \in Task : PutObject(t)
  BY <1>1, <1>3 DEF PutObject, NoCalls, IsOpen
<1> QED
  BY <1>1, <1>2, <1>3 DEF Next, PutPart

(* While calls neither overlap nor fail, the upload of a pending row can be  *)
(* resumed, no open upload is forgotten; while they do not overlap, a file   *)
(* has one pending task.                                                     *)
THEOREM SerialCallsKeepUploads ==
  Spec => [](ResumableAlone /\ NoOrphansAlone /\ OneTaskAlone)
<1>1. IInv /\ AloneInv /\ SerialInv /\ NoCalls
        => ResumableAlone /\ NoOrphansAlone /\ OneTaskAlone
  <2> SUFFICES ASSUME IInv, AloneInv, SerialInv, NoCalls
               PROVE  ResumableAlone /\ NoOrphansAlone /\ OneTaskAlone
    OBVIOUS
  <2>1. OneTaskAlone
    BY DEF AloneInv, OneTaskAlone
  <2>2. ASSUME ~overlapped, ~failed, Quiet
        PROVE  /\ \A t \in Pending : row[t].upload # NoUpload => IsOpen(row[t].upload)
               /\ \A i \in Upload : IsOpen(i) => row[upload[i].task].upload = i
    <3>1. CASE Proc = {}
      <4>1. Pending = {} /\ \A i \in Upload : ~IsOpen(i)
        BY <3>1 DEF NoCalls, Pending
      <4> QED
        BY <4>1
    <3>2. CASE Proc # {}
      <4>1. PICK p \in Proc : TRUE
        BY <3>2
      <4>2. Referred(op[p]) /\ Owned(op[p]) /\ op[p].pc = "done"
        BY <2>2 DEF SerialInv, Alone, Quiet, At
      <4> QED
        BY <4>2 DEF Referred, Owned, Ending, Opening
    <3> QED
      BY <3>1, <3>2
  <2> QED
    BY <2>1, <2>2 DEF ResumableAlone, NoOrphansAlone
<1>2. Init => NoCalls
  BY DEF Init, NoCalls, IsOpen
<1> QED
  BY <1>1, <1>2, Inductive, AloneInit, AloneNext, NobodyCalls, PTL DEF Spec

(* A completed task stays completed as long as no two calls have overlapped: *)
(* a row is written over only while its task is pending.                     *)
THEOREM CompletedStaysCompleted == Spec => CompletedIsFinalAlone
<1>1. IInv /\ AloneInv /\ SerialInv /\ [Next]_vars =>
        [overlapped \/ \A t \in Task : row[t].completed => row'[t].completed]_vars
  <2> SUFFICES ASSUME IInv, AloneInv, SerialInv, Next, ~overlapped,
                      NEW t \in Task, row[t].completed
               PROVE  row'[t].completed
    OBVIOUS
  <2>1. row \in [Task -> Row]
    BY DEF IInv, TypeOK
  <2>2. ASSUME NEW p \in Proc, CreateTask(p) PROVE row'[t].completed
    <3>1. Fresh /\ tasks \in Nat /\ tasks + 1 \in Task
      BY BoundAssumption, <2>2 DEF AloneInv, CreateTask, IInv, TypeOK
    <3>2. \A s : s = tasks + 1 => s > tasks
      BY <3>1
    <3>3. t # tasks + 1
      BY <3>1, <3>2 DEF Fresh
    <3> QED
      BY <2>1, <2>2, <3>3 DEF CreateTask
  <2>3. ASSUME NEW p \in Proc, SaveWrite(p) PROVE row'[t].completed
    <3>1. ~row[op[p].task].completed
      BY <2>3 DEF AloneInv, Placed, SaveWrite, At
    <3> QED
      BY <2>1, <2>3, <3>1 DEF SaveWrite
  <2>4. CASE row' = row
    BY <2>4
  <2>5. row' = row \/ \E p \in Proc : CreateTask(p) \/ SaveWrite(p)
    BY DEF Next, Call, Step, LocateNone, LocatePending, CompleteRead, AbortRead, CallbackRead,
           Read, Begins, OpenUpload, SignPut, SaveLoad, ListParts, Merge, HeadObject,
           Drop, Fail, SignPart, PutPart, PutObject
  <2> QED
    BY <2>2, <2>3, <2>4, <2>5
<1> QED
  BY <1>1, Inductive, InitInv, NextInv, AloneInit, AloneNext, PTL
     DEF Spec, CompletedIsFinalAlone

-----------------------------------------------------------------------------
(* Rows of files and their copies. *)
FileEntry == [id : Records!Id, row : Records!Row]
FileOpRec ==
  [name : {None, "translate", "create", "save", "delete"},
   pc : {"idle", "hmget", "find", "hmset", "save", "hset", "delete", "hdel"},
   ids : SUBSET Records!Id, found : SUBSET FileEntry,
   object : {o1, None}, storageType : Records!StorageType \cup {None},
   id : Records!Id \cup {0}, row : Records!Row \cup {None}, overlapped : BOOLEAN]

RecordsTyped ==
  /\ file \in [Records!Id -> Records!Row \cup {None}]
  /\ map \in [Records!Id -> Records!Row \cup {None}]
  /\ writes \in 0..MaxWrites /\ suspect \in SUBSET Records!Id
  /\ fileOp \in [Proc -> FileOpRec]

(* What an operation holds is the row, unless the row was written meanwhile: *)
(* then the row is suspect and the operation knows that it was overlapped.   *)
FileOpHolds(o) ==
  /\ o.pc \in {"delete", "hdel"} =>
       o.name = "delete" /\ o.id \in Records!Id /\ file[o.id] # None
  /\ o.pc # "hmset" => o.found = {}
  /\ o.pc = "find" /\ o.name = "create" =>
       o.object = o1 /\ o.storageType \in Records!StorageType
  /\ o.pc = "save" => \/ o.row \in Records!Row
                      \/ o.object = o1 /\ o.storageType \in Records!StorageType
  /\ o.pc = "save" /\ o.name # "create" => o.id \in Records!Id /\ file[o.id] # None
  /\ o.pc = "hset" => /\ o.id \in Records!Id /\ o.row \in Records!Row /\ ~o.row.deleted
                      /\ o.row = file[o.id] \/ (o.id \in suspect /\ o.overlapped)
  /\ o.pc = "hmset" => \A e \in o.found : e.id \in suspect \/ (e.row = file[e.id] /\ ~e.row.deleted)

RecordsInv ==
  /\ RecordsTyped
  /\ \A c \in Proc : FileOpHolds(fileOp[c])
  /\ Records!CopyIsRow

FileOpBecomes(c, o) == o \in FileOpRec /\ fileOp' = [fileOp EXCEPT ![c] = o]

LEMMA FileOpTyped ==
  ASSUME RecordsTyped, NEW c \in Proc, NEW o, FileOpBecomes(c, o)
  PROVE  /\ fileOp' \in [Proc -> FileOpRec] /\ fileOp'[c] = o
         /\ \A d \in Proc : d # c => fileOp'[d] = fileOp[d]
BY DEF RecordsTyped, FileOpBecomes

LEMMA FileIdle ==
  /\ Records!Idle \in FileOpRec /\ Records!Idle.pc = "idle" /\ FileOpHolds(Records!Idle)
  /\ FileOpHolds(Records!Idle)'
<1>1. Records!Idle \in FileOpRec /\ Records!Idle.pc = "idle"
  BY DEF Records!Idle, FileOpRec
<1> QED
  BY <1>1 DEF FileOpHolds, Records!Idle

(* A step that only looks. *)
LEMMA FileLooks ==
  ASSUME RecordsInv, NEW c \in Proc, NEW o, FileOpBecomes(c, o), FileOpHolds(o),
         fileOp[c].pc \notin {"hset", "delete", "hdel"},
         UNCHANGED <<file, map, writes, suspect>>
  PROVE  RecordsInv'
<1>1. /\ fileOp' \in [Proc -> FileOpRec] /\ fileOp'[c] = o
      /\ \A d \in Proc : d # c => fileOp'[d] = fileOp[d]
  BY FileOpTyped DEF RecordsInv
<1>2. RecordsTyped'
  BY <1>1 DEF RecordsInv, RecordsTyped
<1>3. ASSUME NEW d \in Proc PROVE FileOpHolds(fileOp[d])'
  BY <1>1 DEF RecordsInv, FileOpHolds
<1>4. Records!CopyIsRow'
  <2> SUFFICES ASSUME NEW id \in Records!Id \ suspect, map[id] # None,
                      ~\E d \in Proc : /\ Records!Holds(d, id)'
                                      /\ fileOp'[d].pc \in {"hset", "delete", "hdel"}
               PROVE  map[id] = file[id] /\ ~map[id].deleted
    BY DEF Records!CopyIsRow
  <2>1. ASSUME NEW d \in Proc, Records!Holds(d, id),
               fileOp[d].pc \in {"hset", "delete", "hdel"}
        PROVE  FALSE
    BY <1>1, <2>1 DEF Records!Holds
  <2> QED
    BY <2>1 DEF RecordsInv, Records!CopyIsRow
<1> QED
  BY <1>2, <1>3, <1>4 DEF RecordsInv

(* An operation that knows, if it is in S, that it was overlapped. *)
Marked(q, S, d, m) == m = [q EXCEPT !.overlapped = @ \/ d \in S]

LEMMA FileMarked ==
  ASSUME NEW q \in FileOpRec, NEW S, NEW d, NEW m, Marked(q, S, d, m)
  PROVE  /\ m \in FileOpRec /\ m.pc = q.pc /\ m.id = q.id /\ m.name = q.name
         /\ m.row = q.row /\ m.found = q.found /\ m.object = q.object
         /\ m.storageType = q.storageType
         /\ d \in S => m.overlapped
         /\ q.overlapped => m.overlapped
<1> DEFINE v == q.overlapped \/ d \in S
<1>1. v \in BOOLEAN /\ m = [q EXCEPT !.overlapped = v] /\ (v <=> q.overlapped \/ d \in S)
  BY DEF FileOpRec, Marked
<1> HIDE DEF v
<1> QED
  BY <1>1 DEF FileOpRec

(* A write of the row makes it suspect to whoever holds what it was. *)
LEMMA FileWrites ==
  ASSUME RecordsInv, NEW c \in Proc, NEW id \in Records!Id, NEW r \in Records!Row,
         NEW o \in FileOpRec, Records!WriteRow(c, id, r, o),
         o.pc \in {"hset", "delete", "hdel"}, o.id = id,
         o.pc = "hset" => o.row = r /\ ~r.deleted, o.found = {},
         o.pc \in {"delete", "hdel"} => o.name = "delete",
         \/ fileOp[c].pc = "save"
         \/ fileOp[c].pc = "delete" /\ fileOp[c].id = id,
         map' = map
  PROVE  RecordsInv'
<1>1. /\ file \in [Records!Id -> Records!Row \cup {None}] /\ suspect \in SUBSET Records!Id
      /\ writes \in Nat /\ writes < MaxWrites /\ writes' = writes + 1
      /\ fileOp \in [Proc -> FileOpRec] /\ file' = [file EXCEPT ![id] = r]
      /\ r # None
  BY FilesAssumption DEF Records!WriteRow, RecordsInv, RecordsTyped
<1>2. file'[id] = r /\ \A i \in Records!Id \ {id} : file'[i] = file[i]
  BY <1>1
<1>3. /\ fileOp'[c] = o
      /\ \A d \in Proc \ {c} :
           fileOp'[d] = [fileOp[d] EXCEPT !.overlapped = @ \/ d \in Records!Others(c, id)]
      /\ \E S : fileOp' = [d \in Proc |-> S[d]]
  <2> DEFINE f == [d \in Proc |-> IF d = c THEN o
                     ELSE [fileOp[d] EXCEPT !.overlapped = @ \/ d \in Records!Others(c, id)]]
  <2>1. fileOp' = f
    BY DEF Records!WriteRow
  <2>2. f = [d \in Proc |-> f[d]]
    OBVIOUS
  <2> QED
    BY <2>1, <2>2
<1>4. \A d \in Proc \ {c} :
        /\ fileOp'[d] \in FileOpRec
        /\ fileOp'[d].pc = fileOp[d].pc /\ fileOp'[d].id = fileOp[d].id
        /\ fileOp'[d].name = fileOp[d].name /\ fileOp'[d].row = fileOp[d].row
        /\ fileOp'[d].found = fileOp[d].found /\ fileOp'[d].object = fileOp[d].object
        /\ fileOp'[d].storageType = fileOp[d].storageType
        /\ d \in Records!Others(c, id) => fileOp'[d].overlapped
        /\ fileOp[d].overlapped => fileOp'[d].overlapped
  <2> TAKE d \in Proc \ {c}
  <2>1. /\ fileOp[d] \in FileOpRec
        /\ Marked(fileOp[d], Records!Others(c, id), d, fileOp'[d])
    BY <1>1, <1>3 DEF Marked
  <2> QED
    BY <2>1, FileMarked
<1>5. fileOp' \in [Proc -> FileOpRec]
  BY <1>3, <1>4
<1>6. /\ suspect' \in SUBSET Records!Id /\ suspect \subseteq suspect'
      /\ Records!Others(c, id) # {} => id \in suspect'
  BY <1>1 DEF Records!WriteRow
<1>7. RecordsTyped'
  BY <1>1, <1>5, <1>6, FilesAssumption DEF RecordsInv, RecordsTyped
<1>8. FileOpHolds(o)'
  BY <1>1, <1>2, FilesAssumption DEF FileOpHolds
<1>9. ASSUME NEW d \in Proc \ {c} PROVE FileOpHolds(fileOp[d])'
  <2> SUFFICES ASSUME NEW q, q = fileOp[d], NEW m, m = fileOp'[d] PROVE FileOpHolds(m)'
    OBVIOUS
  <2>1. /\ FileOpHolds(q) /\ q \in FileOpRec
        /\ m.pc = q.pc /\ m.id = q.id /\ m.name = q.name /\ m.row = q.row
        /\ m.found = q.found /\ m.object = q.object /\ m.storageType = q.storageType
        /\ q.overlapped => m.overlapped
    BY <1>1, <1>4 DEF RecordsInv
  <2>2. /\ \A i \in Records!Id : file[i] # None => file'[i] # None
        /\ \A i \in suspect : i \in suspect'
    BY <1>1, <1>2, <1>6
  <2>3. Records!Holds(d, id) => m.overlapped /\ id \in suspect'
    BY <1>4, <1>6 DEF Records!Others
  <2>4. q.pc = "hset" => m.row = file'[m.id] \/ (m.id \in suspect' /\ m.overlapped)
    <3> SUFFICES ASSUME q.pc = "hset"
                 PROVE  q.row = file'[q.id] \/ (q.id \in suspect' /\ m.overlapped)
      BY <2>1
    <3>1. q.id \in Records!Id /\ (q.row = file[q.id] \/ (q.id \in suspect /\ q.overlapped))
      BY <2>1 DEF FileOpHolds
    <3>2. CASE q.id = id
      BY <2>3, <3>2 DEF Records!Holds
    <3>3. CASE q.id # id
      BY <1>2, <2>1, <2>2, <3>1, <3>3
    <3> QED
      BY <3>2, <3>3
  <2>5. q.pc = "hmset" =>
          \A e \in m.found : e.id \in suspect' \/ (e.row = file'[e.id] /\ ~e.row.deleted)
    <3> SUFFICES ASSUME q.pc = "hmset", NEW e \in q.found
                 PROVE  e.id \in suspect' \/ (e.row = file'[e.id] /\ ~e.row.deleted)
      BY <2>1
    <3>1. e.id \in Records!Id /\ (e.id \in suspect \/ (e.row = file[e.id] /\ ~e.row.deleted))
      BY <2>1 DEF FileOpHolds, FileOpRec, FileEntry
    <3>2. CASE e.id = id
      BY <2>3, <3>2 DEF Records!Holds
    <3>3. CASE e.id # id
      BY <1>2, <2>2, <3>1, <3>3
    <3> QED
      BY <3>2, <3>3
  <2> QED
    BY <2>1, <2>2, <2>4, <2>5 DEF FileOpHolds
<1>10. Records!CopyIsRow'
  <2> SUFFICES ASSUME NEW i \in Records!Id \ suspect', map[i] # None,
                      ~\E d \in Proc : /\ Records!Holds(d, i)'
                                      /\ fileOp'[d].pc \in {"hset", "delete", "hdel"}
               PROVE  map[i] = file'[i] /\ ~map[i].deleted
    BY DEF Records!CopyIsRow
  <2>1. i # id
    BY <1>3 DEF Records!Holds
  <2>2. ASSUME NEW d \in Proc, Records!Holds(d, i),
               fileOp[d].pc \in {"hset", "delete", "hdel"}
        PROVE  FALSE
    <3>1. d # c
      BY <2>1, <2>2 DEF Records!Holds, RecordsInv, FileOpHolds
    <3> QED
      BY <1>4, <2>2, <3>1 DEF Records!Holds
  <2>3. i \in Records!Id \ suspect /\ file'[i] = file[i]
    BY <1>2, <1>6, <2>1
  <2>4. ~\E d \in Proc : /\ Records!Holds(d, i)
                       /\ fileOp[d].pc \in {"hset", "delete", "hdel"}
    BY <2>2
  <2> QED
    BY <2>3, <2>4 DEF RecordsInv, Records!CopyIsRow
<1> QED
  BY <1>3, <1>7, <1>8, <1>9, <1>10 DEF RecordsInv

(* The end of an operation on row id whose copy it has put right, unless it  *)
(* was overlapped.                                                           *)
LEMMA FileSettles ==
  ASSUME RecordsInv, NEW c \in Proc, NEW id \in Records!Id, id = fileOp[c].id,
         NEW r \in Records!Row \cup {None},
         Records!Settle(c, id), Records!Finish(c), UNCHANGED <<file, writes>>,
         map' = [map EXCEPT ![id] = r],
         fileOp[c].pc \in {"hset", "hdel"},
         \/ r = None
         \/ r = file[id] /\ ~r.deleted
         \/ id \in suspect /\ fileOp[c].overlapped
  PROVE  RecordsInv'
<1>1. FileOpBecomes(c, Records!Idle) /\ Records!Idle.pc = "idle"
  BY FileIdle DEF Records!Finish, FileOpBecomes
<1>2. /\ fileOp' \in [Proc -> FileOpRec] /\ fileOp'[c] = Records!Idle
      /\ \A d \in Proc : d # c => fileOp'[d] = fileOp[d]
  BY <1>1, FileOpTyped DEF RecordsInv
<1>3. /\ suspect' \in SUBSET Records!Id /\ suspect \in SUBSET Records!Id
      /\ \A i \in Records!Id \ {id} : i \in suspect' <=> i \in suspect
      /\ suspect' # suspect => ~fileOp[c].overlapped /\ Records!Others(c, id) = {}
  BY DEF Records!Settle, RecordsInv, RecordsTyped
<1>4. RecordsTyped'
  BY <1>2, <1>3 DEF RecordsInv, RecordsTyped
<1>5. ASSUME NEW d \in Proc PROVE FileOpHolds(fileOp[d])'
  <2>1. CASE d = c
    BY <1>2, <2>1, FileIdle
  <2>2. CASE d # c
    <3> SUFFICES ASSUME NEW q, q = fileOp[d] PROVE FileOpHolds(q)'
      BY <1>2, <2>2
    <3>1. FileOpHolds(q) /\ q \in FileOpRec
      BY <1>2 DEF RecordsInv, RecordsTyped
    <3>2. Records!Holds(d, id) => suspect' = suspect
      BY <1>3, <2>2 DEF Records!Others
    <3>3. q.pc = "hset" /\ q.id \in suspect => q.id \in suspect'
      BY <1>3, <3>1, <3>2 DEF Records!Holds, FileOpHolds
    <3>4. q.pc = "hmset" => \A e \in q.found : e.id \in suspect => e.id \in suspect'
      BY <1>3, <3>1, <3>2 DEF Records!Holds, FileOpRec, FileEntry
    <3> QED
      BY <3>1, <3>3, <3>4 DEF FileOpHolds
  <2> QED
    BY <2>1, <2>2
<1>6. Records!CopyIsRow'
  <2> SUFFICES ASSUME NEW i \in Records!Id \ suspect', map'[i] # None,
                      ~\E d \in Proc : /\ Records!Holds(d, i)'
                                      /\ fileOp'[d].pc \in {"hset", "delete", "hdel"}
               PROVE  map'[i] = file[i] /\ ~map'[i].deleted
    BY DEF Records!CopyIsRow
  <2>1. CASE i = id
    <3>1. map'[i] = r
      BY <2>1 DEF RecordsInv, RecordsTyped
    <3>2. ~(id \in suspect /\ fileOp[c].overlapped)
      BY <1>3, <2>1
    <3> QED
      BY <2>1, <3>1, <3>2
  <2>2. CASE i # id
    <3>1. map'[i] = map[i] /\ i \in Records!Id \ suspect
      BY <1>3, <2>2 DEF RecordsInv, RecordsTyped
    <3>2. ASSUME NEW d \in Proc, Records!Holds(d, i),
                 fileOp[d].pc \in {"hset", "delete", "hdel"}
          PROVE  FALSE
      <4>1. d # c
        BY <2>2, <3>2 DEF Records!Holds, RecordsInv, FileOpHolds
      <4> QED
        BY <1>2, <3>2, <4>1 DEF Records!Holds
    <3> QED
      BY <3>1, <3>2 DEF RecordsInv, Records!CopyIsRow
  <2> QED
    BY <2>1, <2>2
<1> QED
  BY <1>4, <1>5, <1>6 DEF RecordsInv

LEMMA BackfillSteps ==
  ASSUME RecordsInv, NEW c \in Proc, Records!Backfill(c)
  PROVE  RecordsInv'
<1> SUFFICES ASSUME NEW o, o = fileOp[c] PROVE RecordsInv'
  OBVIOUS
<1>1. /\ o \in FileOpRec /\ FileOpHolds(o) /\ o.pc = "hmset"
      /\ UNCHANGED <<file, writes, suspect>>
      /\ map' = [id \in Records!Id |-> IF \E e \in o.found : e.id = id
                                      THEN (CHOOSE e \in o.found : e.id = id).row ELSE map[id]]
  BY DEF Records!Backfill, Records!At, RecordsInv, RecordsTyped
<1>2. FileOpBecomes(c, Records!Idle)
  BY FileIdle DEF Records!Backfill, Records!Finish, FileOpBecomes
<1>3. /\ fileOp' \in [Proc -> FileOpRec] /\ fileOp'[c] = Records!Idle
      /\ \A d \in Proc : d # c => fileOp'[d] = fileOp[d]
  BY <1>2, FileOpTyped DEF RecordsInv
<1>4. ASSUME NEW id \in Records!Id
      PROVE  \/ map'[id] = map[id]
             \/ \E e \in o.found : e.id = id /\ map'[id] = e.row
  <2>1. CASE \E e \in o.found : e.id = id
    <3> DEFINE x == CHOOSE e \in o.found : e.id = id
    <3>1. x \in o.found /\ x.id = id
      BY <2>1
    <3>2. map'[id] = x.row
      BY <1>1, <2>1
    <3> QED
      BY <3>1, <3>2
  <2>2. CASE ~\E e \in o.found : e.id = id
    BY <1>1, <2>2
  <2> QED
    BY <2>1, <2>2
<1>5. map' \in [Records!Id -> Records!Row \cup {None}]
  <2>1. \A id \in Records!Id : map'[id] \in Records!Row \cup {None}
    BY <1>1, <1>4 DEF FileOpRec, FileEntry, RecordsInv, RecordsTyped
  <2>2. \E S : map' = [id \in Records!Id |-> S[id]]
    <3> DEFINE f == [id \in Records!Id |-> IF \E e \in o.found : e.id = id
                       THEN (CHOOSE e \in o.found : e.id = id).row ELSE map[id]]
    <3>1. map' = f
      BY <1>1
    <3>2. f = [id \in Records!Id |-> f[id]]
      OBVIOUS
    <3> QED
      BY <3>1, <3>2
  <2> QED
    BY <2>1, <2>2
<1>6. RecordsTyped'
  BY <1>1, <1>3, <1>5 DEF RecordsInv, RecordsTyped
<1>7. ASSUME NEW d \in Proc PROVE FileOpHolds(fileOp[d])'
  BY <1>1, <1>3, FileIdle DEF RecordsInv, FileOpHolds
<1>8. Records!CopyIsRow'
  <2> SUFFICES ASSUME NEW i \in Records!Id \ suspect, map'[i] # None,
                      ~\E d \in Proc : /\ Records!Holds(d, i)'
                                      /\ fileOp'[d].pc \in {"hset", "delete", "hdel"}
               PROVE  map'[i] = file[i] /\ ~map'[i].deleted
    BY <1>1 DEF Records!CopyIsRow
  <2>1. CASE \E e \in o.found : e.id = i /\ map'[i] = e.row
    BY <1>1, <2>1 DEF FileOpHolds
  <2>2. CASE map'[i] = map[i]
    <3>1. ASSUME NEW d \in Proc, Records!Holds(d, i),
                 fileOp[d].pc \in {"hset", "delete", "hdel"}
          PROVE  FALSE
      <4>1. d # c
        BY <1>1, <3>1
      <4> QED
        BY <1>3, <3>1, <4>1 DEF Records!Holds
    <3> QED
      BY <2>2, <3>1 DEF RecordsInv, Records!CopyIsRow
  <2> QED
    BY <1>4, <2>1, <2>2
<1> QED
  BY <1>6, <1>7, <1>8 DEF RecordsInv

LEMMA FileFails ==
  ASSUME RecordsInv, NEW c \in Proc, Records!Fail(c)
  PROVE  RecordsInv'
<1> SUFFICES ASSUME NEW o, o = fileOp[c] PROVE RecordsInv'
  OBVIOUS
<1>1. /\ o \in FileOpRec /\ FileOpHolds(o) /\ UNCHANGED <<file, map, writes>>
      /\ suspect \in SUBSET Records!Id /\ suspect \subseteq suspect'
      /\ suspect' \subseteq suspect \cup {o.id}
      /\ o.pc \in {"hset", "hdel"} => o.id \in suspect'
      /\ o.pc = "delete" /\ o.name = "delete" => o.id \in suspect'
      /\ suspect' # suspect => o.pc \in {"hset", "hdel", "delete"}
  BY DEF Records!Fail, Records!At, RecordsInv, RecordsTyped
<1>2. FileOpBecomes(c, Records!Idle)
  BY FileIdle DEF Records!Fail, Records!Finish, FileOpBecomes
<1>3. /\ fileOp' \in [Proc -> FileOpRec] /\ fileOp'[c] = Records!Idle
      /\ \A d \in Proc : d # c => fileOp'[d] = fileOp[d]
  BY <1>2, FileOpTyped DEF RecordsInv
<1>4. suspect' \in SUBSET Records!Id
  BY <1>1 DEF FileOpHolds
<1>5. RecordsTyped'
  BY <1>1, <1>3, <1>4 DEF RecordsInv, RecordsTyped
<1>6. ASSUME NEW d \in Proc PROVE FileOpHolds(fileOp[d])'
  <2>1. CASE d = c
    BY <1>3, <2>1, FileIdle
  <2>2. CASE d # c
    BY <1>1, <1>3, <2>2 DEF RecordsInv, FileOpHolds
  <2> QED
    BY <2>1, <2>2
<1>7. Records!CopyIsRow'
  <2> SUFFICES ASSUME NEW i \in Records!Id \ suspect', map[i] # None,
                      ~\E d \in Proc : /\ Records!Holds(d, i)'
                                      /\ fileOp'[d].pc \in {"hset", "delete", "hdel"}
               PROVE  map[i] = file[i] /\ ~map[i].deleted
    BY <1>1 DEF Records!CopyIsRow
  <2>1. ASSUME NEW d \in Proc, Records!Holds(d, i),
               fileOp[d].pc \in {"hset", "delete", "hdel"}
        PROVE  FALSE
    <3>1. d # c
      BY <1>1, <2>1 DEF Records!Holds, FileOpHolds
    <3> QED
      BY <1>3, <2>1, <3>1 DEF Records!Holds
  <2> QED
    BY <1>1, <2>1 DEF RecordsInv, Records!CopyIsRow
<1> QED
  BY <1>5, <1>6, <1>7 DEF RecordsInv

(* The start of an operation, or a step that ends one or reads.              *)
LEMMA FileEnters ==
  ASSUME RecordsInv, NEW c \in Proc,
         \/ \E ids \in SUBSET Records!Id \ {{}} : Records!Translate(c, ids)
         \/ \E o \in {o1}, t \in Records!StorageType :
              Records!Create(c, o, t) \/ Records!CreateTask(c, o, t)
         \/ \E id \in Records!Id :
              \/ Records!Save(c, id)
              \/ Records!SoftDelete(c, id, TRUE) \/ Records!SoftDelete(c, id, FALSE)
  PROVE  RecordsInv'
<1>1. fileOp[c].pc = "idle" /\ UNCHANGED <<file, map, writes, suspect>>
  BY DEF Records!Translate, Records!Create, Records!CreateTask, Records!Save,
         Records!SoftDelete, Records!Enter
<1> SUFFICES ASSUME NEW o, fileOp' = [fileOp EXCEPT ![c] = o]
             PROVE  o \in FileOpRec /\ FileOpHolds(o)
  <2>1. \E o : fileOp' = [fileOp EXCEPT ![c] = o]
    BY DEF Records!Translate, Records!Create, Records!CreateTask, Records!Save,
           Records!SoftDelete, Records!Enter
  <2>2. PICK o : fileOp' = [fileOp EXCEPT ![c] = o]
    BY <2>1
  <2>3. o \in FileOpRec /\ FileOpHolds(o)
    BY <2>2
  <2> QED
    BY <1>1, <2>2, <2>3, FileLooks DEF FileOpBecomes
<1>2. fileOp'[c] = o
  BY DEF RecordsInv, RecordsTyped
<1>3. CASE \E ids \in SUBSET Records!Id \ {{}} : Records!Translate(c, ids)
  <2>1. PICK ids \in SUBSET Records!Id : Records!Translate(c, ids)
    BY <1>3
  <2>2. o = [Records!Idle EXCEPT !.name = "translate", !.pc = "hmget", !.ids = ids]
    BY <1>2, <2>1 DEF Records!Translate, Records!Enter, RecordsInv, RecordsTyped
  <2> QED
    BY <2>2 DEF Records!Idle, FileOpRec, FileOpHolds
<1>4. ASSUME NEW t \in Records!StorageType,
             Records!Create(c, o1, t) \/ Records!CreateTask(c, o1, t)
      PROVE  o \in FileOpRec /\ FileOpHolds(o)
  <2>1. \E pc \in {"find", "save"} :
          o = [Records!Idle EXCEPT !.name = "create", !.pc = pc, !.object = o1,
                                   !.storageType = t]
    BY <1>2, <1>4
       DEF Records!Create, Records!CreateTask, Records!Enter, RecordsInv, RecordsTyped
  <2> QED
    BY <2>1 DEF Records!Idle, FileOpRec, FileOpHolds
<1>5. ASSUME NEW id \in Records!Id, Records!Save(c, id)
      PROVE  o \in FileOpRec /\ FileOpHolds(o)
  <2>1. /\ file[id] # None /\ file[id] \in Records!Row
        /\ o = [Records!Idle EXCEPT !.name = "save", !.pc = "save", !.id = id,
                                    !.row = file[id]]
    BY <1>2, <1>5 DEF Records!Save, Records!Live, Records!Enter, RecordsInv, RecordsTyped
  <2> QED
    BY <2>1 DEF Records!Idle, FileOpRec, FileOpHolds
<1>6. ASSUME NEW id \in Records!Id, NEW b \in BOOLEAN, Records!SoftDelete(c, id, b)
      PROVE  o \in FileOpRec /\ FileOpHolds(o)
  <2>1. CASE Records!Live(id)
    <3>1. file[id] # None /\ file[id] \in Records!Row
      BY <2>1 DEF Records!Live, RecordsInv, RecordsTyped
    <3>2. \E pc \in {"save", "delete"} :
            o = [Records!Idle EXCEPT !.name = "delete", !.pc = pc, !.id = id,
                                     !.row = file[id]]
      BY <1>2, <1>6, <2>1 DEF Records!SoftDelete, Records!Enter, RecordsInv, RecordsTyped
    <3> QED
      BY <3>1, <3>2 DEF Records!Idle, FileOpRec, FileOpHolds
  <2>2. CASE ~Records!Live(id)
    <3>1. o = Records!Idle
      BY <1>2, <1>6, <2>2 DEF Records!SoftDelete, Records!Enter, RecordsInv, RecordsTyped
    <3> QED
      BY <3>1, FileIdle
  <2> QED
    BY <2>1, <2>2
<1> QED
  BY <1>3, <1>4, <1>5, <1>6

LEMMA FileFinishes ==
  ASSUME RecordsInv, NEW c \in Proc, Records!Finish(c),
         fileOp[c].pc \notin {"hset", "delete", "hdel"},
         UNCHANGED <<file, map, writes, suspect>>
  PROVE  RecordsInv'
BY FileIdle, FileLooks DEF Records!Finish, FileOpBecomes

LEMMA FileReads ==
  ASSUME RecordsInv, NEW c \in Proc,
         Records!Hmget(c) \/ Records!FindMissing(c) \/ Records!FindOne(c)
  PROVE  RecordsInv'
<1> SUFFICES ASSUME NEW q, q = fileOp[c] PROVE RecordsInv'
  OBVIOUS
<1>1. q \in FileOpRec /\ FileOpHolds(q)
  BY DEF RecordsInv, RecordsTyped
<1>2. CASE Records!Hmget(c)
  <2>1. /\ q.name = "translate" /\ q.pc = "hmget"
        /\ UNCHANGED <<file, map, writes, suspect>>
        /\ \/ Records!Finish(c)
           \/ \E ids \in SUBSET Records!Id :
                fileOp' = [fileOp EXCEPT ![c] = [q EXCEPT !.ids = ids, !.pc = "find"]]
    <3> DEFINE missing == {i \in q.ids : map[i] = None}
    <3>1. missing \in SUBSET Records!Id
      BY <1>1 DEF FileOpRec
    <3>2. /\ q.name = "translate" /\ q.pc = "hmget"
          /\ UNCHANGED <<file, map, writes, suspect>>
          /\ \/ Records!Finish(c)
             \/ fileOp' = [fileOp EXCEPT ![c].ids = missing, ![c].pc = "find"]
      BY <1>2 DEF Records!Hmget, Records!At
    <3>3. [fileOp EXCEPT ![c].ids = missing, ![c].pc = "find"]
            = [fileOp EXCEPT ![c] = [q EXCEPT !.ids = missing, !.pc = "find"]]
      BY DEF RecordsInv, RecordsTyped, FileOpRec
    <3> HIDE DEF missing
    <3> QED
      BY <3>1, <3>2, <3>3
  <2>2. CASE Records!Finish(c)
    BY <2>1, <2>2, FileFinishes
  <2>3. ASSUME NEW ids \in SUBSET Records!Id, NEW o,
               o = [q EXCEPT !.ids = ids, !.pc = "find"], fileOp' = [fileOp EXCEPT ![c] = o]
        PROVE  RecordsInv'
    <3>1. o \in FileOpRec /\ FileOpHolds(o)
      BY <1>1, <2>1, <2>3 DEF FileOpRec, FileOpHolds
    <3> QED
      BY <2>1, <2>3, <3>1, FileLooks DEF FileOpBecomes
  <2> QED
    BY <2>1, <2>2, <2>3
<1>3. CASE Records!FindMissing(c)
  <2> DEFINE entries == {Records!Entry(id) : id \in {i \in q.ids : Records!Live(i)}}
  <2>1. /\ entries \in SUBSET FileEntry
        /\ \A e \in entries : e.row = file[e.id] /\ ~e.row.deleted
    <3>1. ASSUME NEW id \in q.ids, Records!Live(id)
          PROVE  /\ Records!Entry(id) \in FileEntry /\ Records!Entry(id).row = file[id]
                 /\ Records!Entry(id).id = id /\ ~file[id].deleted
      BY <1>1, <3>1
         DEF Records!Entry, FileEntry, Records!Live, FileOpRec, RecordsInv, RecordsTyped
    <3> QED
      BY <3>1
  <2>2. /\ q.name = "translate" /\ q.pc = "find"
        /\ UNCHANGED <<file, map, writes, suspect>>
        /\ \/ Records!Finish(c)
           \/ fileOp' = [fileOp EXCEPT ![c].found = entries, ![c].pc = "hmset"]
    BY <1>3 DEF Records!FindMissing, Records!At
  <2>3. [fileOp EXCEPT ![c].found = entries, ![c].pc = "hmset"]
          = [fileOp EXCEPT ![c] = [q EXCEPT !.found = entries, !.pc = "hmset"]]
    BY DEF RecordsInv, RecordsTyped, FileOpRec
  <2> HIDE DEF entries
  <2>4. CASE Records!Finish(c)
    BY <2>2, <2>4, FileFinishes
  <2>5. ASSUME NEW o, o = [q EXCEPT !.found = entries, !.pc = "hmset"],
               fileOp' = [fileOp EXCEPT ![c] = o]
        PROVE  RecordsInv'
    <3>1. o \in FileOpRec /\ FileOpHolds(o)
      BY <1>1, <2>1, <2>5 DEF FileOpRec, FileOpHolds
    <3> QED
      BY <2>2, <2>5, <3>1, FileLooks DEF FileOpBecomes
  <2> QED
    BY <2>2, <2>3, <2>4, <2>5
<1>4. CASE Records!FindOne(c)
  <2>1. /\ q.name = "create" /\ q.pc = "find" /\ q.object = o1
        /\ q.storageType \in Records!StorageType
        /\ UNCHANGED <<file, map, writes, suspect>>
    BY <1>1, <1>4 DEF Records!FindOne, Records!At, FileOpHolds
  <2>2. \/ fileOp' = [fileOp EXCEPT ![c].pc = "save"]
        \/ \E i \in Records!Id : /\ file[i] \in Records!Row
                                 /\ fileOp' = [fileOp EXCEPT ![c].id = i, ![c].row = file[i],
                                                             ![c].pc = "save"]
    BY <1>4 DEF Records!FindOne, Records!Step, Records!Inserted, RecordsInv, RecordsTyped
  <2>3. ASSUME NEW o, fileOp' = [fileOp EXCEPT ![c] = o],
               \/ o = [q EXCEPT !.pc = "save"]
               \/ \E i \in Records!Id, r \in Records!Row :
                    o = [q EXCEPT !.id = i, !.row = r, !.pc = "save"]
        PROVE  RecordsInv'
    <3>1. o \in FileOpRec /\ FileOpHolds(o)
      BY <1>1, <2>1, <2>3 DEF FileOpRec, FileOpHolds
    <3> QED
      BY <2>1, <2>3, <3>1, FileLooks DEF FileOpBecomes
  <2>4. /\ [fileOp EXCEPT ![c].pc = "save"] = [fileOp EXCEPT ![c] = [q EXCEPT !.pc = "save"]]
        /\ \A i, r : [fileOp EXCEPT ![c].id = i, ![c].row = r, ![c].pc = "save"]
             = [fileOp EXCEPT ![c] = [q EXCEPT !.id = i, !.row = r, !.pc = "save"]]
    BY DEF RecordsInv, RecordsTyped, FileOpRec
  <2>5. CASE fileOp' = [fileOp EXCEPT ![c].pc = "save"]
    BY <2>3, <2>4, <2>5
  <2>6. ASSUME NEW i \in Records!Id, file[i] \in Records!Row,
               fileOp' = [fileOp EXCEPT ![c].id = i, ![c].row = file[i], ![c].pc = "save"]
        PROVE  RecordsInv'
    <3>1. fileOp' = [fileOp EXCEPT ![c] = [q EXCEPT !.id = i, !.row = file[i], !.pc = "save"]]
      BY <2>4, <2>6
    <3> QED
      BY <2>3, <2>6, <3>1
  <2> QED
    BY <2>2, <2>5, <2>6
<1> QED
  BY <1>2, <1>3, <1>4

(* The step of an operation that writes a row or finds another of its object. *)
LEMMA FileSaved ==
  ASSUME RecordsInv, NEW c \in Proc, fileOp[c].pc = "save", writes < MaxWrites
  PROVE  Records!Saved(c) \in Records!Row /\ ~Records!Saved(c).deleted
<1>1. FileOpHolds(fileOp[c]) /\ fileOp[c] \in FileOpRec /\ writes \in Nat
  BY FilesAssumption DEF RecordsInv, RecordsTyped
<1>2. writes + 1 \in 1..MaxWrites
  BY <1>1, FilesAssumption
<1>3. CASE fileOp[c].row = None
  BY <1>1, <1>2, <1>3, FilesAssumption DEF FileOpHolds, Records!Saved, Records!Row
<1>4. CASE fileOp[c].row \in Records!Row
  BY <1>2, <1>4, FilesAssumption DEF Records!Saved, Records!Row
<1> QED
  BY <1>1, <1>3, <1>4 DEF FileOpRec

LEMMA FileSaves ==
  ASSUME RecordsInv, NEW c \in Proc, Records!SaveRow(c) \/ Records!SaveUpdatedBy(c)
  PROVE  RecordsInv'
<1> SUFFICES ASSUME NEW q, q = fileOp[c], NEW s, s = Records!Saved(c) PROVE RecordsInv'
  OBVIOUS
<1>1. q \in FileOpRec /\ FileOpHolds(q) /\ q.pc = "save" /\ map' = map
  BY DEF Records!SaveRow, Records!SaveUpdatedBy, Records!At, RecordsInv, RecordsTyped
<1>2. CASE Records!Finish(c) /\ UNCHANGED <<file, writes, suspect>>
  BY <1>1, <1>2, FileFinishes
<1>3. ASSUME NEW id \in Records!Id,
             Records!WriteRow(c, id, s, [q EXCEPT !.id = id, !.row = s, !.pc = "hset"])
      PROVE  RecordsInv'
  <2>1. s \in Records!Row /\ ~s.deleted
    BY <1>1, <1>3, FileSaved DEF Records!WriteRow
  <2>2. q.found = {}
    BY <1>1 DEF FileOpHolds
  <2> DEFINE o == [q EXCEPT !.id = id, !.row = s, !.pc = "hset"]
  <2>3. o \in FileOpRec /\ o.pc = "hset" /\ o.id = id /\ o.row = s /\ o.found = {}
    BY <1>1, <2>1, <2>2 DEF FileOpRec
  <2>4. Records!WriteRow(c, id, s, o)
    BY <1>3
  <2> HIDE DEF o
  <2> QED
    BY <1>1, <2>1, <2>3, <2>4, FileWrites
<1>4. CASE q.name = "delete" /\ q.id \in Records!Id
             /\ Records!WriteRow(c, q.id, s, [q EXCEPT !.pc = "delete"])
  <2>1. s \in Records!Row /\ ~s.deleted
    BY <1>1, <1>4, FileSaved DEF Records!WriteRow
  <2>2. q.found = {}
    BY <1>1 DEF FileOpHolds
  <2> DEFINE o == [q EXCEPT !.pc = "delete"]
  <2>3. /\ o \in FileOpRec /\ o.pc = "delete" /\ o.id = q.id /\ o.found = {}
        /\ o.name = "delete"
    BY <1>1, <1>4, <2>2 DEF FileOpRec
  <2>4. Records!WriteRow(c, q.id, s, o)
    BY <1>4
  <2> HIDE DEF o
  <2> QED
    BY <1>1, <1>4, <2>1, <2>3, <2>4, FileWrites
<1>5. CASE Records!SaveRow(c)
  <2>1. PICK id : /\ id \in Records!Id
                  /\ IF Records!Unique(id, Records!Saved(c))
                     THEN Records!WriteRow(c, id, Records!Saved(c),
                            [fileOp[c] EXCEPT !.id = id, !.row = Records!Saved(c), !.pc = "hset"])
                     ELSE Records!Finish(c) /\ UNCHANGED <<file, writes, suspect>>
    BY <1>5 DEF Records!SaveRow
  <2>2. CASE Records!Unique(id, Records!Saved(c))
    BY <1>3, <2>1, <2>2
  <2>3. CASE ~Records!Unique(id, Records!Saved(c))
    BY <1>2, <2>1, <2>3
  <2> QED
    BY <2>2, <2>3
<1>6. CASE Records!SaveUpdatedBy(c)
  <2>1. q.name = "delete" /\ q.id \in Records!Id
    BY <1>1, <1>6 DEF Records!SaveUpdatedBy, Records!At, FileOpHolds
  <2> QED
    BY <1>2, <1>4, <1>6, <2>1 DEF Records!SaveUpdatedBy
<1> QED
  BY <1>5, <1>6

LEMMA FileDeletes ==
  ASSUME RecordsInv, NEW c \in Proc, Records!DeleteRow(c)
  PROVE  RecordsInv'
<1> SUFFICES ASSUME NEW q, q = fileOp[c],
                    NEW r, r = [file[q.id] EXCEPT !.deleted = TRUE, !.version = writes + 1]
             PROVE  RecordsInv'
  OBVIOUS
<1>1. /\ q \in FileOpRec /\ q.name = "delete" /\ q.pc = "delete" /\ map' = map
      /\ q.id \in Records!Id /\ q.found = {} /\ file[q.id] \in Records!Row
      /\ Records!WriteRow(c, q.id, r, [q EXCEPT !.pc = "hdel"])
  BY DEF Records!DeleteRow, Records!At, RecordsInv, RecordsTyped, FileOpHolds
<1>2. r \in Records!Row
  <2>1. writes + 1 \in 1..MaxWrites
    BY <1>1, FilesAssumption DEF Records!WriteRow, RecordsInv, RecordsTyped
  <2> QED
    BY <1>1, <2>1 DEF Records!Row
<1> DEFINE o == [q EXCEPT !.pc = "hdel"]
<1>3. o \in FileOpRec /\ o.pc = "hdel" /\ o.id = q.id /\ o.found = {} /\ o.name = "delete"
  BY <1>1 DEF FileOpRec
<1>4. Records!WriteRow(c, q.id, r, o)
  BY <1>1
<1> HIDE DEF o
<1> QED
  BY <1>1, <1>2, <1>3, <1>4, FileWrites

LEMMA FileCopies ==
  ASSUME RecordsInv, NEW c \in Proc, Records!Hset(c) \/ Records!Hdel(c)
  PROVE  RecordsInv'
<1> SUFFICES ASSUME NEW q, q = fileOp[c] PROVE RecordsInv'
  OBVIOUS
<1>1. q \in FileOpRec /\ FileOpHolds(q)
  BY DEF RecordsInv, RecordsTyped
<1>2. CASE Records!Hset(c)
  <2>1. /\ q.pc = "hset" /\ q.id \in Records!Id /\ q.row \in Records!Row /\ ~q.row.deleted
        /\ q.row = file[q.id] \/ (q.id \in suspect /\ q.overlapped)
    BY <1>1, <1>2 DEF Records!Hset, FileOpHolds
  <2>2. /\ Records!Settle(c, q.id) /\ Records!Finish(c) /\ UNCHANGED <<file, writes>>
        /\ map' = [map EXCEPT ![q.id] = q.row]
    BY <1>2 DEF Records!Hset
  <2> QED
    BY <2>1, <2>2, FileSettles
<1>3. CASE Records!Hdel(c)
  <2>1. q.pc = "hdel" /\ q.id \in Records!Id
    BY <1>1, <1>3 DEF Records!Hdel, Records!At, FileOpHolds
  <2>2. /\ Records!Settle(c, q.id) /\ Records!Finish(c) /\ UNCHANGED <<file, writes>>
        /\ map' = [map EXCEPT ![q.id] = None]
    BY <1>3 DEF Records!Hdel, Records!Without
  <2> QED
    BY <2>1, <2>2, FileSettles
<1> QED
  BY <1>2, <1>3

(* Every copy is its row, whatever the operations do to one another, unless  *)
(* the row is suspect.                                                       *)
THEOREM CopiesAreRows ==
  Records!FrSpec => [](Records!FrTypeOK /\ Records!CopyIsRow)
<1>1. Records!FrInit => RecordsInv
  <2> SUFFICES ASSUME Records!FrInit PROVE RecordsInv
    OBVIOUS
  <2>1. RecordsTyped /\ \A c \in Proc : fileOp[c] = Records!Idle
    BY FileIdle, FilesAssumption DEF Records!FrInit, RecordsTyped
  <2>2. Records!CopyIsRow
    BY DEF Records!FrInit, Records!CopyIsRow
  <2> QED
    BY <2>1, <2>2, FileIdle DEF RecordsInv
<1>2. RecordsInv /\ [Records!FrNext]_(Records!frVars) => RecordsInv'
  <2> SUFFICES ASSUME RecordsInv, [Records!FrNext]_(Records!frVars) PROVE RecordsInv'
    OBVIOUS
  <2>1. CASE UNCHANGED Records!frVars
    BY <2>1 DEF Records!frVars, RecordsInv, RecordsTyped, FileOpHolds, Records!CopyIsRow,
                Records!Holds
  <2>2. ASSUME NEW c \in Proc,
               \/ Records!Backfill(c) \/ Records!Fail(c)
               \/ \E ids \in SUBSET Records!Id \ {{}} : Records!Translate(c, ids)
               \/ \E o \in {o1}, t \in Records!StorageType :
                    Records!Create(c, o, t) \/ Records!CreateTask(c, o, t)
               \/ \E id \in Records!Id :
                    \/ Records!Save(c, id)
                    \/ Records!SoftDelete(c, id, TRUE) \/ Records!SoftDelete(c, id, FALSE)
               \/ Records!Hmget(c) \/ Records!FindMissing(c) \/ Records!FindOne(c)
               \/ Records!SaveRow(c) \/ Records!SaveUpdatedBy(c)
               \/ Records!DeleteRow(c) \/ Records!Hset(c) \/ Records!Hdel(c)
        PROVE  RecordsInv'
    BY <2>2, BackfillSteps, FileFails, FileEnters, FileReads, FileSaves, FileDeletes, FileCopies
  <2>3. CASE Records!FrNext
    BY <2>2, <2>3 DEF Records!FrNext
  <2> QED
    BY <2>1, <2>3
<1>3. RecordsInv => Records!FrTypeOK /\ Records!CopyIsRow
  BY FilesAssumption DEF RecordsInv, RecordsTyped, Records!FrTypeOK, FileOpRec
<1> QED
  BY <1>1, <1>2, <1>3, PTL DEF Records!FrSpec, Records!frVars

-----------------------------------------------------------------------------
(* The specification of a local upload that LocalUploadProofs is about is    *)
(* the one MCOssUpload checks, with either set of parts.                     *)
LEMMA SameLocal ==
  /\ Local!LuInit <=> LocalP!LuInit
  /\ Local!LuNext <=> LocalP!LuNext
  /\ Local!luVars = LocalP!luVars
  /\ Local!LuTypeOK <=> LocalP!LuTypeOK
  /\ Local!CompletedObjectWhole <=> LocalP!CompletedObjectWhole
  /\ Local!EndedUploadsCleared <=> LocalP!EndedUploadsCleared
  /\ Local!AcceptedPartsStay <=> LocalP!AcceptedPartsStay
  /\ Local!OneLocalTaskAlone <=> LocalP!OneLocalTaskAlone
BY DEF Local!Task, LocalP!Task, Local!UploadId, LocalP!UploadId, Local!Dir, LocalP!Dir,
    Local!TaskRow, LocalP!TaskRow, Local!CallPc, LocalP!CallPc, Local!CallRec, LocalP!CallRec,
    Local!NoCall, LocalP!NoCall, Local!rows, LocalP!rows, Local!parts, LocalP!parts,
    Local!objects, LocalP!objects, Local!Step, LocalP!Step, Local!Ends, LocalP!Ends,
    Local!WritesRow, LocalP!WritesRow, Local!Active, LocalP!Active, Local!Names, LocalP!Names,
    Local!Receive, LocalP!Receive, Local!InitMultipart, LocalP!InitMultipart, Local!UploadPart,
    LocalP!UploadPart, Local!CompleteMultipart, LocalP!CompleteMultipart, Local!AbortMultipart,
    LocalP!AbortMultipart, Local!FindLocalByObject, LocalP!FindLocalByObject,
    Local!CreateLocalUploadTask, LocalP!CreateLocalUploadTask, Local!SaveInit, LocalP!SaveInit,
    Local!GetActiveTask, LocalP!GetActiveTask, Local!StillActive, LocalP!StillActive,
    Local!DirOf, LocalP!DirOf, Local!TakePart, LocalP!TakePart, Local!DropPart,
    LocalP!DropPart, Local!CheckPart, LocalP!CheckPart, Local!MovePart, LocalP!MovePart,
    Local!PlacePart, LocalP!PlacePart, Local!AnswerPart, LocalP!AnswerPart, Local!RecheckPart,
    LocalP!RecheckPart, Local!Merging, LocalP!Merging, Local!ListParts, LocalP!ListParts,
    Local!OpenAssembling, LocalP!OpenAssembling, Local!CopyPart, LocalP!CopyPart,
    Local!MoveAssembled, LocalP!MoveAssembled, Local!RemoveObject, LocalP!RemoveObject,
    Local!ReplaceObject, LocalP!ReplaceObject, Local!SaveEnded, LocalP!SaveEnded, Local!Clear,
    LocalP!Clear, Local!RemoveParts, LocalP!RemoveParts, Local!NoteCut, LocalP!NoteCut,
    Local!CallFails, LocalP!CallFails, Local!ClientDies, LocalP!ClientDies, Local!LuNext,
    LocalP!LuNext, Local!LuInit, LocalP!LuInit, Local!luVars, LocalP!luVars, Local!LuTypeOK,
    LocalP!LuTypeOK, Local!CompletedObjectWhole, LocalP!CompletedObjectWhole,
    Local!EndedUploadsCleared, LocalP!EndedUploadsCleared, Local!Replacing, LocalP!Replacing,
    Local!AcceptedPartsStay, LocalP!AcceptedPartsStay, Local!OneLocalTaskAlone,
    LocalP!OneLocalTaskAlone

LEMMA SameHalves ==
  /\ Halves!LuInit <=> HalvesP!LuInit
  /\ Halves!LuNext <=> HalvesP!LuNext
  /\ Halves!luVars = HalvesP!luVars
  /\ Halves!LuTypeOK <=> HalvesP!LuTypeOK
  /\ Halves!CompletedObjectWhole <=> HalvesP!CompletedObjectWhole
  /\ Halves!EndedUploadsCleared <=> HalvesP!EndedUploadsCleared
  /\ Halves!AcceptedPartsStay <=> HalvesP!AcceptedPartsStay
  /\ Halves!OneLocalTaskAlone <=> HalvesP!OneLocalTaskAlone
BY DEF Halves!Task, HalvesP!Task, Halves!UploadId, HalvesP!UploadId, Halves!Dir, HalvesP!Dir,
    Halves!TaskRow, HalvesP!TaskRow, Halves!CallPc, HalvesP!CallPc, Halves!CallRec,
    HalvesP!CallRec, Halves!NoCall, HalvesP!NoCall, Halves!rows, HalvesP!rows, Halves!parts,
    HalvesP!parts, Halves!objects, HalvesP!objects, Halves!Step, HalvesP!Step, Halves!Ends,
    HalvesP!Ends, Halves!WritesRow, HalvesP!WritesRow, Halves!Active, HalvesP!Active,
    Halves!Names, HalvesP!Names, Halves!Receive, HalvesP!Receive, Halves!InitMultipart,
    HalvesP!InitMultipart, Halves!UploadPart, HalvesP!UploadPart, Halves!CompleteMultipart,
    HalvesP!CompleteMultipart, Halves!AbortMultipart, HalvesP!AbortMultipart,
    Halves!FindLocalByObject, HalvesP!FindLocalByObject, Halves!CreateLocalUploadTask,
    HalvesP!CreateLocalUploadTask, Halves!SaveInit, HalvesP!SaveInit, Halves!GetActiveTask,
    HalvesP!GetActiveTask, Halves!StillActive, HalvesP!StillActive, Halves!DirOf,
    HalvesP!DirOf, Halves!TakePart, HalvesP!TakePart, Halves!DropPart, HalvesP!DropPart,
    Halves!CheckPart, HalvesP!CheckPart, Halves!MovePart, HalvesP!MovePart, Halves!PlacePart,
    HalvesP!PlacePart, Halves!AnswerPart, HalvesP!AnswerPart, Halves!RecheckPart,
    HalvesP!RecheckPart, Halves!Merging, HalvesP!Merging, Halves!ListParts, HalvesP!ListParts,
    Halves!OpenAssembling, HalvesP!OpenAssembling, Halves!CopyPart, HalvesP!CopyPart,
    Halves!MoveAssembled, HalvesP!MoveAssembled, Halves!RemoveObject, HalvesP!RemoveObject,
    Halves!ReplaceObject, HalvesP!ReplaceObject, Halves!SaveEnded, HalvesP!SaveEnded,
    Halves!Clear, HalvesP!Clear, Halves!RemoveParts, HalvesP!RemoveParts, Halves!NoteCut,
    HalvesP!NoteCut, Halves!CallFails, HalvesP!CallFails, Halves!ClientDies,
    HalvesP!ClientDies, Halves!LuNext, HalvesP!LuNext, Halves!LuInit, HalvesP!LuInit,
    Halves!luVars, HalvesP!luVars, Halves!LuTypeOK, HalvesP!LuTypeOK,
    Halves!CompletedObjectWhole, HalvesP!CompletedObjectWhole, Halves!EndedUploadsCleared,
    HalvesP!EndedUploadsCleared, Halves!Replacing, HalvesP!Replacing, Halves!AcceptedPartsStay,
    HalvesP!AcceptedPartsStay, Halves!OneLocalTaskAlone, HalvesP!OneLocalTaskAlone

LEMMA LocalBounds == LocalP!Bounds /\ HalvesP!Bounds
BY BoundAssumption, FilesAssumption
   DEF LocalP!Bounds, HalvesP!Bounds, LocalP!TaskRow, HalvesP!TaskRow, Local!TaskRow

LocalsInv ==
  /\ subject = "local" => LocalP!LocalInv
  /\ subject = "halves" => HalvesP!LocalInv

LEMMA LocalsStart == UploadsInit => LocalsInv
<1> SUFFICES ASSUME UploadsInit PROVE LocalsInv
  OBVIOUS
<1>1. LocalP!LuInit
  BY SameLocal DEF UploadsInit
<1>2. HalvesP!LuInit
  BY <1>1 DEF LocalP!LuInit, HalvesP!LuInit, LocalP!NoCall, HalvesP!NoCall,
              LocalP!Task, HalvesP!Task, LocalP!UploadId, HalvesP!UploadId, LocalP!Dir, HalvesP!Dir
<1>3. LocalP!LocalInv
  BY <1>1, LocalBounds, LocalP!LocalStarts
<1>4. HalvesP!LocalInv
  BY <1>2, LocalBounds, HalvesP!LocalStarts
<1> QED
  BY <1>3, <1>4 DEF LocalsInv

LEMMA LocalsStep ==
  ASSUME LocalsInv, [UploadsNext]_allVars
  PROVE  LocalsInv' /\ [LocalP!RowsStay]_(Local!luVars)
<1>1. /\ subject' = subject
      /\ subject = "local" => [LocalP!LuNext]_(LocalP!luVars)
      /\ subject = "halves" => [HalvesP!LuNext]_(HalvesP!luVars)
      /\ subject \notin {"local", "halves"} => UNCHANGED localVars
  BY SameLocal, SameHalves
     DEF UploadsNext, allVars, localVars, LocalP!luVars, HalvesP!luVars
<1>2. CASE subject = "local"
  <2>1. LocalP!LocalInv' /\ LocalP!RowsStay
    BY <1>1, <1>2, LocalBounds, LocalP!LocalSteps, LocalP!CompletedRowsStay DEF LocalsInv
  <2> QED
    BY <1>1, <1>2, <2>1 DEF LocalsInv
<1>3. CASE subject = "halves"
  <2>1. HalvesP!LocalInv' /\ HalvesP!RowsStay
    BY <1>1, <1>3, LocalBounds, HalvesP!LocalSteps, HalvesP!CompletedRowsStay DEF LocalsInv
  <2> QED
    BY <1>1, <1>3, <2>1 DEF LocalsInv, LocalP!RowsStay, HalvesP!RowsStay, LocalP!Task, HalvesP!Task
<1>4. CASE subject \notin {"local", "halves"}
  BY <1>1, <1>4 DEF LocalsInv, localVars, Local!luVars
<1> QED
  BY <1>2, <1>3, <1>4

(* What MCOssUpload checks of a local upload holds for every number of rows, *)
(* uploads, files and calls, and every set of parts.                         *)
THEOREM LocalUploadIsSafe == UploadsSpec => []LocalUploadSafe
<1>1. LocalsInv => LocalUploadSafe
  BY LocalBounds, SameLocal, SameHalves, LocalP!LocalImplies, HalvesP!LocalImplies
     DEF LocalsInv, LocalUploadSafe
<1> QED
  BY <1>1, LocalsStart, LocalsStep, PTL DEF UploadsSpec

(* The row of a completed local upload is written by no call.                *)
THEOREM LocalRowsAreFinal == UploadsSpec => Local!CompletedStaysAlone
<1>1. Local!CompletedStaysAlone <=> [][LocalP!RowsStay]_(Local!luVars)
  <2>1. LocalP!RowsStay <=> (~crossed => \A t \in Local!Task :
          task[t] # None /\ task[t].completed => task'[t] = task[t])
    BY DEF LocalP!RowsStay, LocalP!Task, Local!Task
  <2> QED
    BY <2>1, PTL DEF Local!CompletedStaysAlone
<1> QED
  BY <1>1, LocalsStart, LocalsStep, PTL DEF UploadsSpec
-----------------------------------------------------------------------------
(* The browser. *)

(* A worker that is busy holds a part; one that is done found no part left.  *)
Busy == {"wait", "blocked", "woken", "sent", "answered", "error", "failed"}
Holds(x, n) == x.pc \in Busy /\ x.part = n
WorkerOK(x, rest) ==
  /\ x.pc \in Busy => x.part \in Part
  /\ x.pc = "done" => rest = {}

BrowserTyped ==
  /\ Browser!FpTypeOK
  /\ run.pc # "none" => run.no \in Browser!Run
  /\ \A r \in Browser!Run, w \in Proc : WorkerOK(worker[r][w], pending[r])

(* No pause falls into an init, so that only a stop can give one up.         *)
InitWatched ==
  /\ run.pc \in {"init", "initAnswered"} => state \in {"initializing", "stopped"}
  /\ "init" \in stray => orphaned
  /\ stopped => run.pc # "init"

ServerWhole ==
  /\ server.status = "none" => server.parts = {}
  /\ server.status = "completed" => server.parts = Part
  /\ state = "completed" \/ run.pc \in {"completeAnswered", "directAnswered"}
       => server.status = "completed"

(* The client knows of an upload that is open, and aborts it once stopped.   *)
OpenIsKnown ==
  server.status = "active" /\ ~orphaned =>
    \/ run.pc = "initAnswered"
    \/ IF stopped THEN abort \in {"sent", "failed"} ELSE session

(* While the run goes on, a part is on the server, waits or is in a worker's *)
(* hands.                                                                    *)
NoPartLost ==
  ~stopped =>
    /\ abort = "none" /\ server.status # "aborted"
    /\ \A r \in Browser!Run, w \in Proc :
         worker[r][w].pc = "answered" => worker[r][w].part \in server.parts
    /\ run.pc = "workers" =>
         \A n \in Part : \/ n \in server.parts \/ n \in pending[run.no]
                         \/ \E w \in Proc : Holds(worker[run.no][w], n)
    /\ run.pc = "complete" => server.parts = Part

PageInv == BrowserTyped /\ InitWatched /\ ServerWhole /\ OpenIsKnown /\ NoPartLost

RunRec == [pc : {"none", "init", "initAnswered", "undo", "workers", "direct", "directAnswered",
                 "blocked", "woken", "complete", "completeAnswered", "error"}, no : 0..MaxRuns]
ServerRec == [status : {"none", "active", "completed", "aborted"}, parts : SUBSET Part]

LEMMA WorkerTyped ==
  ASSUME BrowserTyped, NEW r \in Browser!Run, NEW w \in Proc
  PROVE  worker[r][w] \in Browser!WorkerRec /\ WorkerOK(worker[r][w], pending[r])
BY DEF BrowserTyped, Browser!FpTypeOK

LEMMA BrowserRest ==
  /\ Browser!Rest \in Browser!WorkerRec /\ Browser!Rest.pc = "done"
  /\ [Browser!Rest EXCEPT !.pc = "next"] \in Browser!WorkerRec
  /\ [Browser!Rest EXCEPT !.pc = "next"].pc = "next"
<1>1. 0 \in 0..Retries
  BY FilesAssumption
<1> QED
  BY <1>1 DEF Browser!Rest, Browser!WorkerRec

LEMMA PutTyped ==
  ASSUME BrowserTyped, NEW r \in Browser!Run, NEW w \in Proc, NEW x \in Browser!WorkerRec,
         Browser!Put(r, w, x)
  PROVE  /\ worker' \in [Browser!Run -> [Proc -> Browser!WorkerRec]] /\ worker'[r][w] = x
         /\ \A q \in Browser!Run, v \in Proc : q # r \/ v # w => worker'[q][v] = worker[q][v]
<1> SUFFICES ASSUME NEW R, R = Browser!Run, NEW X, X = Browser!WorkerRec
             PROVE  /\ worker' \in [R -> [Proc -> X]] /\ worker'[r][w] = x
                    /\ \A q \in R, v \in Proc : q # r \/ v # w => worker'[q][v] = worker[q][v]
  OBVIOUS
<1>1. worker \in [R -> [Proc -> X]] /\ r \in R /\ x \in X
  BY DEF BrowserTyped, Browser!FpTypeOK
<1>2. worker' = [worker EXCEPT ![r] = [worker[r] EXCEPT ![w] = x]]
  BY <1>1 DEF Browser!Put
<1>3. [worker[r] EXCEPT ![w] = x] \in [Proc -> X]
  BY <1>1
<1> QED
  BY <1>1, <1>2, <1>3

LEMMA GotoTyped ==
  ASSUME BrowserTyped, NEW pc, Browser!Goto(pc),
         pc \in {"none", "init", "initAnswered", "undo", "workers", "direct", "directAnswered",
                 "blocked", "woken", "complete", "completeAnswered", "error"}
  PROVE  run' \in RunRec /\ run'.pc = pc /\ run'.no = run.no
BY DEF BrowserTyped, Browser!FpTypeOK, Browser!Goto, RunRec

LEMMA LandGrows ==
  ASSUME BrowserTyped, NEW n \in Part, Browser!Land(n)
  PROVE  /\ server' \in ServerRec /\ server'.status = server.status
         /\ server.parts \subseteq server'.parts
         /\ server.status = "active" => n \in server'.parts
         /\ server.status # "active" => server' = server
BY DEF BrowserTyped, Browser!FpTypeOK, Browser!Land, ServerRec

LEMMA OpenGrows ==
  ASSUME BrowserTyped, ServerWhole, Browser!OpenUpload
  PROVE  /\ server' \in ServerRec
         /\ server.status \in {"none", "aborted"} => server' = [status |-> "active", parts |-> {}]
         /\ server.status \notin {"none", "aborted"} => server' = server
         /\ server.status # "aborted" => server.parts \subseteq server'.parts
<1>1. server \in ServerRec
  BY DEF BrowserTyped, Browser!FpTypeOK, ServerRec
<1>2. CASE server.status \in {"none", "aborted"}
  BY <1>1, <1>2 DEF Browser!OpenUpload, ServerRec, ServerWhole
<1>3. CASE server.status \notin {"none", "aborted"}
  BY <1>1, <1>3 DEF Browser!OpenUpload, ServerRec, ServerWhole
<1> QED
  BY <1>2, <1>3

(* A worker goes on with its part, and has no answer it did not have.        *)
Stays(x, y) ==
  y = x \/ (x.pc \in Busy /\ y.pc \in Busy \ {"answered"} /\ y.part = x.part)

SendsNot(x, y) == y.pc = "sent" => x.pc = "sent"

LEMMA AbortsRequests ==
  ASSUME BrowserTyped, NEW kept, NEW pc \in {"wait", "error"}, NEW wake \in BOOLEAN,
         Browser!AbortActiveRequests(kept, pc, wake)
  PROVE  /\ worker' \in [Browser!Run -> [Proc -> Browser!WorkerRec]]
         /\ \A r \in Browser!Run, w \in Proc : Stays(worker[r][w], worker'[r][w])
         /\ \A r \in Browser!Run, w \in Proc : SendsNot(worker[r][w], worker'[r][w])
         /\ stray' \in SUBSET (Part \cup {"init", "direct"})
         /\ "init" \in stray' => "init" \in stray \/ run.pc = "init"
<1> DEFINE New(r, w) == LET rec == worker[r][w] IN
         IF <<r, w>> \in Browser!Requests \ kept THEN [rec EXCEPT !.pc = pc]
         ELSE IF wake /\ rec.pc = "blocked" THEN [rec EXCEPT !.pc = "woken"] ELSE rec
<1>1. worker' = [r \in Browser!Run |-> [w \in Proc |-> New(r, w)]]
  BY DEF Browser!AbortActiveRequests
<1>2. ASSUME NEW r \in Browser!Run, NEW w \in Proc
      PROVE  /\ New(r, w) \in Browser!WorkerRec /\ Stays(worker[r][w], New(r, w))
             /\ SendsNot(worker[r][w], New(r, w))
  <2>1. worker[r][w] \in Browser!WorkerRec
    BY WorkerTyped
  <2>2. <<r, w>> \in Browser!Requests => worker[r][w].pc \in {"sent", "answered"}
    BY DEF Browser!Requests
  <2> SUFFICES ASSUME NEW x, x = worker[r][w], NEW y, y = New(r, w)
               PROVE  y \in Browser!WorkerRec /\ Stays(x, y) /\ SendsNot(x, y)
    OBVIOUS
  <2>3. \/ y = x
        \/ x.pc \in {"sent", "answered", "blocked"}
           /\ (y = [x EXCEPT !.pc = pc] \/ y = [x EXCEPT !.pc = "woken"])
    BY <2>2
  <2> QED
    BY <2>1, <2>3 DEF Browser!WorkerRec, Stays, SendsNot, Busy
<1> HIDE DEF New
<1>3. ASSUME NEW x \in Browser!Requests
      PROVE  worker[x[1]][x[2]].part \in Part
  <2>1. x[1] \in Browser!Run /\ x[2] \in Proc /\ worker[x[1]][x[2]].pc \in Busy
    BY DEF Browser!Requests, Busy
  <2> QED
    BY <2>1, WorkerTyped DEF WorkerOK
<1>4. \A n \in stray' : n \in stray \/ n \in Part \/ (n = run.pc /\ n \in {"init", "direct"})
  BY <1>3 DEF Browser!AbortActiveRequests
<1>5. stray \in SUBSET (Part \cup {"init", "direct"})
  BY DEF BrowserTyped, Browser!FpTypeOK
<1> QED
  BY <1>1, <1>2, <1>4, <1>5, FilesAssumption

(* A step in which workers keep their parts and the server what reached it.  *)
LEMMA BrowserStep ==
  ASSUME PageInv, Browser!FpTypeOK', run'.pc # "none" => run'.no \in Browser!Run,
         \A r \in Browser!Run, w \in Proc : Stays(worker[r][w], worker'[r][w]),
         UNCHANGED pending,
         ~stopped' => /\ ~stopped /\ abort' = "none" /\ server'.status # "aborted"
                      /\ server.parts \subseteq server'.parts
                      /\ run'.pc = "workers" => run.pc = "workers" /\ run'.no = run.no
                      /\ run'.pc = "complete" => server'.parts = Part,
         InitWatched', ServerWhole', OpenIsKnown'
  PROVE  PageInv'
<1>1. BrowserTyped'
  <2>1. ASSUME NEW r \in Browser!Run, NEW w \in Proc
        PROVE  WorkerOK(worker'[r][w], pending[r])
    <3> SUFFICES ASSUME NEW x, x = worker[r][w], NEW y, y = worker'[r][w]
                 PROVE  WorkerOK(y, pending[r])
      OBVIOUS
    <3>1. WorkerOK(x, pending[r]) /\ Stays(x, y)
      BY WorkerTyped DEF PageInv
    <3> QED
      BY <3>1 DEF WorkerOK, Stays, Busy
  <2> QED
    BY <2>1 DEF BrowserTyped
<1>2. NoPartLost'
  <2> SUFFICES ASSUME ~stopped'
               PROVE  /\ \A r \in Browser!Run, w \in Proc :
                           worker'[r][w].pc = "answered" => worker'[r][w].part \in server'.parts
                      /\ run'.pc = "workers" =>
                           \A n \in Part : \/ n \in server'.parts \/ n \in pending'[run'.no]
                                           \/ \E w \in Proc : Holds(worker'[run'.no][w], n)
    BY DEF NoPartLost
  <2>1. ASSUME NEW r \in Browser!Run, NEW w \in Proc, worker'[r][w].pc = "answered"
        PROVE  worker'[r][w].part \in server'.parts
    <3>1. worker'[r][w] = worker[r][w]
      BY <2>1 DEF Stays
    <3> QED
      BY <2>1, <3>1 DEF PageInv, NoPartLost
  <2>2. ASSUME run'.pc = "workers", NEW n \in Part,
               n \notin server'.parts, n \notin pending'[run'.no]
        PROVE  \E w \in Proc : Holds(worker'[run'.no][w], n)
    <3>1. run.pc = "workers" /\ run'.no = run.no /\ run.no \in Browser!Run
      BY <2>2 DEF PageInv, BrowserTyped
    <3>2. PICK w \in Proc : Holds(worker[run.no][w], n)
      BY <2>2, <3>1 DEF PageInv, NoPartLost
    <3>3. Stays(worker[run.no][w], worker'[run.no][w])
      BY <3>1
    <3>4. Holds(worker'[run.no][w], n)
      BY <3>2, <3>3 DEF Holds, Stays
    <3> QED
      BY <3>1, <3>4
  <2> QED
    BY <2>1, <2>2
<1> QED
  BY <1>1, <1>2 DEF PageInv
-----------------------------------------------------------------------------
(* The page and the run. *)
LEMMA StartKeeps ==
  ASSUME PageInv, Browser!Start
  PROVE  PageInv'
<1>1. /\ BrowserTyped /\ run.pc = "none" /\ ~stopped /\ run.no + 1 \in Browser!Run
      /\ run.no + 1 \in 0..MaxRuns
      /\ UNCHANGED <<mode, stopped, session, worker, pending, abort, server, stray, budget, orphaned>>
  BY FilesAssumption DEF Browser!Start, PageInv, BrowserTyped, Browser!FpTypeOK, Browser!Run
<1>2. /\ run' \in RunRec /\ run'.no = run.no + 1 /\ run'.pc \in {"direct", "init"}
      /\ state' \in {"uploading", "initializing"}
      /\ run'.pc = "init" => state' = "initializing"
  BY <1>1 DEF Browser!Start, RunRec
<1>3. Browser!FpTypeOK'
  BY <1>1, <1>2 DEF BrowserTyped, Browser!FpTypeOK, RunRec
<1>4. InitWatched' /\ ServerWhole' /\ OpenIsKnown'
  BY <1>1, <1>2 DEF PageInv, InitWatched, ServerWhole, OpenIsKnown
<1>5. \A r \in Browser!Run, w \in Proc : Stays(worker[r][w], worker'[r][w])
  BY <1>1 DEF Stays
<1>6. abort = "none" /\ server.status # "aborted"
  BY <1>1 DEF PageInv, NoPartLost
<1> QED
  BY <1>1, <1>2, <1>3, <1>4, <1>5, <1>6, BrowserStep

LEMMA PauseKeeps ==
  ASSUME PageInv, Browser!Pause
  PROVE  PageInv'
<1>1. /\ BrowserTyped /\ state = "uploading" /\ state' = "paused"
      /\ UNCHANGED <<mode, stopped, session, pending, abort, server, orphaned>>
  BY DEF Browser!Pause, PageInv
<1>2. /\ worker' \in [Browser!Run -> [Proc -> Browser!WorkerRec]]
      /\ \A r \in Browser!Run, w \in Proc : Stays(worker[r][w], worker'[r][w])
      /\ stray' \in SUBSET (Part \cup {"init", "direct"})
      /\ "init" \in stray' => "init" \in stray \/ run.pc = "init"
  BY <1>1, AbortsRequests DEF Browser!Pause
<1>3. /\ run' \in RunRec /\ run'.no = run.no
      /\ run' = run \/ (run.pc \in {"direct", "directAnswered"} /\ run'.pc = "blocked")
  BY <1>1, GotoTyped DEF Browser!Pause, BrowserTyped, Browser!FpTypeOK, RunRec
<1>4. budget' \in [pauses : 0..MaxPauses, errors : 0..MaxErrors]
  BY <1>1, FilesAssumption DEF Browser!Pause, BrowserTyped, Browser!FpTypeOK
<1>5. Browser!FpTypeOK'
  BY <1>1, <1>2, <1>3, <1>4 DEF BrowserTyped, Browser!FpTypeOK, RunRec
<1>6. InitWatched' /\ ServerWhole' /\ OpenIsKnown'
  BY <1>1, <1>2, <1>3 DEF PageInv, InitWatched, ServerWhole, OpenIsKnown
<1>7. /\ run'.pc # "none" => run'.no \in Browser!Run
      /\ ~stopped' => /\ ~stopped /\ abort' = "none" /\ server'.status # "aborted"
                      /\ run'.pc = "workers" => run.pc = "workers" /\ run'.no = run.no
                      /\ run'.pc = "complete" => server'.parts = Part
  BY <1>1, <1>3 DEF PageInv, BrowserTyped, NoPartLost
<1> QED
  BY <1>1, <1>2, <1>5, <1>6, <1>7, BrowserStep

LEMMA ResumeKeeps ==
  ASSUME PageInv, Browser!Resume
  PROVE  PageInv'
<1>1. /\ BrowserTyped /\ state = "paused" /\ state' = "uploading"
      /\ UNCHANGED <<mode, stopped, session, pending, abort, server, stray, budget, orphaned>>
  BY DEF Browser!Resume, PageInv
<1> DEFINE New(x) == IF x.pc = "blocked" THEN [x EXCEPT !.pc = "woken"] ELSE x
<1>2. worker' = [r \in Browser!Run |-> [w \in Proc |-> New(worker[r][w])]]
  BY DEF Browser!Resume
<1>3. ASSUME NEW r \in Browser!Run, NEW w \in Proc
      PROVE  New(worker[r][w]) \in Browser!WorkerRec /\ Stays(worker[r][w], New(worker[r][w]))
  <2> SUFFICES ASSUME NEW x, x = worker[r][w], x \in Browser!WorkerRec, NEW y, y = New(x)
               PROVE  y \in Browser!WorkerRec /\ Stays(x, y)
    BY <1>1, WorkerTyped
  <2> QED
    BY DEF Browser!WorkerRec, Stays, Busy
<1> HIDE DEF New
<1>4. /\ worker' \in [Browser!Run -> [Proc -> Browser!WorkerRec]]
      /\ \A r \in Browser!Run, w \in Proc : Stays(worker[r][w], worker'[r][w])
  BY <1>2, <1>3
<1>5. /\ run' \in RunRec /\ run'.no = run.no
      /\ run' = run \/ (run.pc = "blocked" /\ run'.pc = "woken")
  <2>1. run \in RunRec
    BY <1>1 DEF BrowserTyped, Browser!FpTypeOK, RunRec
  <2>2. CASE run.pc = "blocked"
    BY <2>1, <2>2 DEF Browser!Resume, RunRec
  <2>3. CASE run.pc # "blocked"
    BY <2>1, <2>3 DEF Browser!Resume, RunRec
  <2> QED
    BY <2>2, <2>3
<1>6. Browser!FpTypeOK'
  BY <1>1, <1>4, <1>5 DEF BrowserTyped, Browser!FpTypeOK, RunRec
<1>7. InitWatched' /\ ServerWhole' /\ OpenIsKnown'
  BY <1>1, <1>5 DEF PageInv, InitWatched, ServerWhole, OpenIsKnown
<1>8. /\ run'.pc # "none" => run'.no \in Browser!Run
      /\ ~stopped' => /\ ~stopped /\ abort' = "none" /\ server'.status # "aborted"
                      /\ run'.pc = "workers" => run.pc = "workers" /\ run'.no = run.no
                      /\ run'.pc = "complete" => server'.parts = Part
  BY <1>1, <1>5 DEF PageInv, BrowserTyped, NoPartLost
<1> QED
  BY <1>1, <1>4, <1>6, <1>7, <1>8, BrowserStep

LEMMA StopKeeps ==
  ASSUME PageInv, Browser!Stop
  PROVE  PageInv'
<1>1. /\ BrowserTyped /\ ~stopped /\ stopped' = TRUE /\ state' = "stopped"
      /\ abort' \in {"sent", "none"} /\ (session => abort' = "sent")
      /\ UNCHANGED <<mode, session, pending, server, budget>>
  BY DEF Browser!Stop, PageInv
<1>2. /\ worker' \in [Browser!Run -> [Proc -> Browser!WorkerRec]]
      /\ \A r \in Browser!Run, w \in Proc : Stays(worker[r][w], worker'[r][w])
      /\ stray' \in SUBSET (Part \cup {"init", "direct"})
      /\ "init" \in stray' => "init" \in stray \/ run.pc = "init"
  BY <1>1, AbortsRequests DEF Browser!Stop
<1>3. CASE /\ run.pc \in {"init", "initAnswered", "direct", "directAnswered", "blocked"}
           /\ Browser!Goto("error")
           /\ orphaned' = (orphaned \/ run.pc \in {"init", "initAnswered"})
  <2>1. run' \in RunRec /\ run'.pc = "error" /\ run'.no = run.no
    BY <1>1, <1>3, GotoTyped
  <2>2. orphaned' \in BOOLEAN /\ (orphaned' <=> orphaned \/ run.pc \in {"init", "initAnswered"})
    <3>1. orphaned \in BOOLEAN
      BY <1>1 DEF BrowserTyped, Browser!FpTypeOK
    <3> QED
      BY <1>3, <3>1
  <2>3. Browser!FpTypeOK'
    BY <1>1, <1>2, <2>1, <2>2 DEF BrowserTyped, Browser!FpTypeOK, RunRec
  <2>4. InitWatched' /\ ServerWhole' /\ OpenIsKnown'
    BY <1>1, <1>2, <2>1, <2>2 DEF PageInv, InitWatched, ServerWhole, OpenIsKnown
  <2>5. run'.pc # "none" => run'.no \in Browser!Run
    BY <1>1, <1>3, <2>1 DEF BrowserTyped
  <2> QED
    BY <1>1, <1>2, <2>3, <2>4, <2>5, BrowserStep
<1>4. CASE run.pc \notin {"init", "direct", "blocked"} /\ UNCHANGED <<run, orphaned>>
  <2>1. Browser!FpTypeOK'
    BY <1>1, <1>2, <1>4 DEF BrowserTyped, Browser!FpTypeOK
  <2>2. InitWatched' /\ ServerWhole' /\ OpenIsKnown'
    BY <1>1, <1>2, <1>4 DEF PageInv, InitWatched, ServerWhole, OpenIsKnown
  <2>3. run'.pc # "none" => run'.no \in Browser!Run
    BY <1>1, <1>4 DEF BrowserTyped
  <2> QED
    BY <1>1, <1>2, <2>1, <2>2, <2>3, BrowserStep
<1> QED
  BY <1>3, <1>4 DEF Browser!Stop

(* The run goes to another place, and no part is asked for or taken.         *)
LEMMA RunStep ==
  ASSUME PageInv, NEW pc, Browser!Goto(pc),
         pc \in {"none", "undo", "direct", "directAnswered", "completeAnswered", "error"},
         run.pc # "none",
         UNCHANGED <<mode, stopped, worker, pending, stray>>,
         session' \in BOOLEAN, session => session',
         orphaned' \in BOOLEAN, orphaned => orphaned',
         state' \in {"idle", "initializing", "uploading", "paused", "completing", "completed",
                     "failed", "stopped"},
         abort' \in {"none", "sent", "done", "failed"}, budget' \in
           [pauses : 0..MaxPauses, errors : 0..MaxErrors],
         server' \in ServerRec,
         ~stopped => abort' = "none" /\ server'.status # "aborted",
         server.parts \subseteq server'.parts,
         ServerWhole', OpenIsKnown'
  PROVE  PageInv'
<1>1. run' \in RunRec /\ run'.pc = pc /\ run'.no = run.no /\ run'.no \in Browser!Run
  BY GotoTyped DEF PageInv, BrowserTyped
<1>2. Browser!FpTypeOK'
  BY <1>1 DEF PageInv, BrowserTyped, Browser!FpTypeOK, RunRec, ServerRec
<1>3. InitWatched'
  BY <1>1 DEF PageInv, InitWatched
<1>4. \A r \in Browser!Run, w \in Proc : Stays(worker[r][w], worker'[r][w])
  BY DEF Stays
<1> QED
  BY <1>1, <1>2, <1>3, <1>4, BrowserStep

LEMMA InitAnswerKeeps ==
  ASSUME PageInv, Browser!InitAnswer
  PROVE  PageInv'
<1>1. /\ BrowserTyped /\ run.pc = "initAnswered" /\ run.no \in Browser!Run /\ session' = TRUE
      /\ UNCHANGED <<mode, stopped, server, stray, budget, orphaned>>
      /\ server \in ServerRec /\ orphaned \in BOOLEAN
      /\ budget \in [pauses : 0..MaxPauses, errors : 0..MaxErrors]
  BY DEF Browser!InitAnswer, PageInv, BrowserTyped, Browser!FpTypeOK, ServerRec
<1>2. CASE /\ stopped /\ Browser!Goto("undo") /\ abort' = "sent"
           /\ UNCHANGED <<state, worker, pending>>
  <2>1. run'.pc = "undo"
    BY <1>1, <1>2, GotoTyped
  <2>2. ServerWhole' /\ OpenIsKnown'
    BY <1>1, <1>2, <2>1 DEF PageInv, ServerWhole, OpenIsKnown
  <2>3. state' \in {"idle", "initializing", "uploading", "paused", "completing", "completed",
                    "failed", "stopped"}
    BY <1>1, <1>2 DEF BrowserTyped, Browser!FpTypeOK
  <2> QED
    BY <1>1, <1>2, <2>2, <2>3, RunStep
<1>3. CASE /\ ~stopped
           /\ pending' = [pending EXCEPT ![run.no] = Part \ server.parts]
           /\ worker' = [worker EXCEPT ![run.no] = [w \in Proc |->
                [pc |-> "next", part |-> None, attempt |-> 0]]]
           /\ state' = "uploading" /\ Browser!Goto("workers") /\ UNCHANGED abort
  <2> SUFFICES ASSUME NEW m, m = run.no, NEW x, x = [pc |-> "next", part |-> None, attempt |-> 0],
                      NEW R, R = Browser!Run, NEW W, W = [w \in Proc |-> x]
               PROVE  PageInv'
    OBVIOUS
  <2>1. x \in Browser!WorkerRec /\ x.pc = "next"
    BY FilesAssumption DEF Browser!WorkerRec
  <2>2. run' \in RunRec /\ run'.pc = "workers" /\ run'.no = m
    BY <1>1, <1>3, GotoTyped
  <2>3. /\ worker' \in [R -> [Proc -> Browser!WorkerRec]] /\ worker'[m] = W
        /\ \A r \in R : r # m => worker'[r] = worker[r]
    <3>1. worker \in [R -> [Proc -> Browser!WorkerRec]] /\ W \in [Proc -> Browser!WorkerRec]
      BY <1>1, <2>1 DEF BrowserTyped, Browser!FpTypeOK
    <3> QED
      BY <1>1, <1>3, <3>1
  <2>4. /\ pending' \in [R -> SUBSET Part] /\ pending'[m] = Part \ server.parts
        /\ \A r \in R : r # m => pending'[r] = pending[r]
    BY <1>1, <1>3 DEF BrowserTyped, Browser!FpTypeOK
  <2>5. Browser!FpTypeOK'
    BY <1>1, <1>3, <2>2, <2>3, <2>4 DEF BrowserTyped, Browser!FpTypeOK, RunRec
  <2>6. ASSUME NEW r \in R, NEW w \in Proc
        PROVE  /\ WorkerOK(worker'[r][w], pending'[r])
               /\ worker'[r][w].pc = "answered" => worker'[r][w].part \in server.parts
    <3>1. CASE r = m
      BY <2>1, <2>3, <3>1 DEF WorkerOK, Busy
    <3>2. CASE r # m
      BY <1>1, <1>3, <2>3, <2>4, <3>2, WorkerTyped DEF PageInv, NoPartLost
    <3> QED
      BY <3>1, <3>2
  <2>7. BrowserTyped'
    BY <1>1, <2>2, <2>5, <2>6 DEF BrowserTyped
  <2>8. InitWatched' /\ ServerWhole' /\ OpenIsKnown'
    BY <1>1, <1>3, <2>2 DEF PageInv, InitWatched, ServerWhole, OpenIsKnown
  <2>9. NoPartLost'
    BY <1>1, <1>3, <2>2, <2>4, <2>6 DEF PageInv, NoPartLost
  <2> QED
    BY <2>7, <2>8, <2>9 DEF PageInv
<1> QED
  BY <1>2, <1>3 DEF Browser!InitAnswer

LEMMA SendCompleteKeeps ==
  ASSUME PageInv, Browser!SendComplete
  PROVE  PageInv'
<1>1. /\ BrowserTyped /\ run.pc = "workers" /\ run.no \in Browser!Run
      /\ \A w \in Proc : worker[run.no][w].pc = "done"
      /\ UNCHANGED <<mode, stopped, session, worker, pending, abort, server, stray, budget, orphaned>>
      /\ server \in ServerRec /\ orphaned \in BOOLEAN /\ session \in BOOLEAN
      /\ abort \in {"none", "sent", "done", "failed"}
      /\ budget \in [pauses : 0..MaxPauses, errors : 0..MaxErrors]
  BY DEF Browser!SendComplete, PageInv, BrowserTyped, Browser!FpTypeOK, ServerRec
<1>2. CASE stopped /\ Browser!Goto("error") /\ UNCHANGED state
  <2>1. run'.pc = "error"
    BY <1>1, <1>2, GotoTyped
  <2>2. ServerWhole' /\ OpenIsKnown'
    BY <1>1, <1>2, <2>1 DEF PageInv, ServerWhole, OpenIsKnown
  <2>3. state' \in {"idle", "initializing", "uploading", "paused", "completing", "completed",
                    "failed", "stopped"}
    BY <1>1, <1>2 DEF BrowserTyped, Browser!FpTypeOK
  <2> QED
    BY <1>1, <1>2, <2>2, <2>3, RunStep
<1>3. CASE ~stopped /\ Browser!Goto("complete") /\ state' = "completing"
  <2>1. run' \in RunRec /\ run'.pc = "complete" /\ run'.no = run.no
    BY <1>1, <1>3, GotoTyped
  <2>2. server.parts = Part
    <3>1. PICK w \in Proc : TRUE
      BY FilesAssumption
    <3>2. pending[run.no] = {}
      BY <1>1, <3>1, WorkerTyped DEF WorkerOK
    <3>3. \A v \in Proc, n \in Part : ~Holds(worker[run.no][v], n)
      BY <1>1 DEF Holds, Busy
    <3>4. \A n \in Part : n \in server.parts
      BY <1>1, <1>3, <3>2, <3>3 DEF PageInv, NoPartLost
    <3> QED
      BY <1>1, <3>4 DEF ServerRec
  <2>3. Browser!FpTypeOK'
    BY <1>1, <1>3, <2>1 DEF BrowserTyped, Browser!FpTypeOK, RunRec
  <2>4. InitWatched' /\ ServerWhole' /\ OpenIsKnown'
    BY <1>1, <1>3, <2>1 DEF PageInv, InitWatched, ServerWhole, OpenIsKnown
  <2>5. \A r \in Browser!Run, w \in Proc : Stays(worker[r][w], worker'[r][w])
    BY <1>1 DEF Stays
  <2>6. abort = "none" /\ server.status # "aborted"
    BY <1>3 DEF PageInv, NoPartLost
  <2> QED
    BY <1>1, <1>3, <2>1, <2>2, <2>3, <2>4, <2>5, <2>6, BrowserStep
<1> QED
  BY <1>2, <1>3 DEF Browser!SendComplete

LEMMA RunEndsKeep ==
  ASSUME PageInv, Browser!WorkerFailed \/ Browser!RunCompletes \/ Browser!DirectAgain
  PROVE  PageInv'
<1>1. /\ BrowserTyped /\ run.pc \in {"workers", "completeAnswered", "directAnswered", "woken"}
      /\ UNCHANGED <<mode, stopped, session, worker, pending, abort, server, stray, budget, orphaned>>
      /\ server \in ServerRec /\ orphaned \in BOOLEAN /\ session \in BOOLEAN
      /\ abort \in {"none", "sent", "done", "failed"}
      /\ budget \in [pauses : 0..MaxPauses, errors : 0..MaxErrors]
      /\ state \in {"idle", "initializing", "uploading", "paused", "completing", "completed",
                    "failed", "stopped"}
  BY DEF Browser!WorkerFailed, Browser!RunCompletes, Browser!DirectAgain, PageInv,
         BrowserTyped, Browser!FpTypeOK, ServerRec
<1>2. PICK pc \in {"none", "direct", "error"} :
        /\ Browser!Goto(pc)
        /\ \/ UNCHANGED state
           \/ state' = "completed" /\ run.pc \in {"completeAnswered", "directAnswered"}
  BY DEF Browser!WorkerFailed, Browser!RunCompletes, Browser!DirectAgain
<1>3. run'.pc = pc
  BY <1>1, <1>2, GotoTyped
<1>4. ServerWhole' /\ OpenIsKnown'
  BY <1>1, <1>2, <1>3 DEF PageInv, ServerWhole, OpenIsKnown
<1>5. ~stopped => abort = "none" /\ server.status # "aborted"
  BY DEF PageInv, NoPartLost
<1> QED
  BY <1>1, <1>2, <1>4, <1>5, RunStep

LEMMA RunFailsKeeps ==
  ASSUME PageInv, Browser!RunFails
  PROVE  PageInv'
<1>1. /\ BrowserTyped /\ run.pc \in {"error", "undo"} /\ Browser!Goto("none")
      /\ state' \in {state, "failed"}
      /\ UNCHANGED <<mode, stopped, session, pending, abort, server, budget, orphaned>>
  BY DEF Browser!RunFails, PageInv
<1>2. /\ worker' \in [Browser!Run -> [Proc -> Browser!WorkerRec]]
      /\ \A r \in Browser!Run, w \in Proc : Stays(worker[r][w], worker'[r][w])
      /\ stray' \in SUBSET (Part \cup {"init", "direct"})
      /\ "init" \in stray' => "init" \in stray \/ run.pc = "init"
  BY <1>1, AbortsRequests DEF Browser!RunFails
<1>3. run' \in RunRec /\ run'.pc = "none" /\ run'.no = run.no
  BY <1>1, GotoTyped
<1>4. Browser!FpTypeOK'
  BY <1>1, <1>2, <1>3 DEF BrowserTyped, Browser!FpTypeOK, RunRec
<1>5. InitWatched' /\ ServerWhole' /\ OpenIsKnown'
  BY <1>1, <1>2, <1>3 DEF PageInv, InitWatched, ServerWhole, OpenIsKnown
<1>6. ~stopped => abort = "none" /\ server.status # "aborted"
  BY DEF PageInv, NoPartLost
<1> QED
  BY <1>1, <1>2, <1>3, <1>4, <1>5, <1>6, BrowserStep
-----------------------------------------------------------------------------
(* The workers. *)

LEMMA WorkerKeeps ==
  ASSUME PageInv, NEW r \in Browser!Run, NEW w \in Proc, NEW x \in Browser!WorkerRec,
         Stays(worker[r][w], x), Browser!Put(r, w, x),
         UNCHANGED <<mode, state, stopped, session, run, abort, server, orphaned, pending, stray>>,
         budget' \in [pauses : 0..MaxPauses, errors : 0..MaxErrors]
  PROVE  PageInv'
<1>1. /\ BrowserTyped
      /\ worker' \in [Browser!Run -> [Proc -> Browser!WorkerRec]] /\ worker'[r][w] = x
      /\ \A q \in Browser!Run, v \in Proc : q # r \/ v # w => worker'[q][v] = worker[q][v]
  BY PutTyped DEF PageInv
<1>2. \A q \in Browser!Run, v \in Proc : Stays(worker[q][v], worker'[q][v])
  <2> SUFFICES ASSUME NEW q \in Browser!Run, NEW v \in Proc
               PROVE  Stays(worker[q][v], worker'[q][v])
    OBVIOUS
  <2>1. CASE q = r /\ v = w
    BY <1>1, <2>1
  <2>2. CASE q # r \/ v # w
    BY <1>1, <2>2 DEF Stays
  <2> QED
    BY <2>1, <2>2
<1>3. Browser!FpTypeOK'
  BY <1>1 DEF BrowserTyped, Browser!FpTypeOK
<1>4. InitWatched' /\ ServerWhole' /\ OpenIsKnown'
  BY DEF PageInv, InitWatched, ServerWhole, OpenIsKnown
<1>5. /\ run'.pc # "none" => run'.no \in Browser!Run
      /\ ~stopped' => /\ ~stopped /\ abort' = "none" /\ server'.status # "aborted"
                      /\ run'.pc = "workers" => run.pc = "workers" /\ run'.no = run.no
                      /\ run'.pc = "complete" => server'.parts = Part
  BY <1>1 DEF PageInv, BrowserTyped, NoPartLost
<1> QED
  BY <1>1, <1>2, <1>3, <1>4, <1>5, BrowserStep

LEMMA PartStepsKeep ==
  ASSUME PageInv, NEW r \in Browser!Run, NEW w \in Proc,
         Browser!SendPart(r, w) \/ Browser!PartError(r, w) \/ Browser!PartFails(r, w)
  PROVE  PageInv'
<1> SUFFICES ASSUME NEW x, x = worker[r][w] PROVE PageInv'
  OBVIOUS
<1>1. /\ BrowserTyped /\ x \in Browser!WorkerRec /\ WorkerOK(x, pending[r]) /\ x.attempt \in 0..Retries
      /\ budget \in [pauses : 0..MaxPauses, errors : 0..MaxErrors]
  BY WorkerTyped DEF PageInv, Browser!WorkerRec, BrowserTyped, Browser!FpTypeOK
<1>2. CASE Browser!SendPart(r, w)
  <2>1. PICK pc \in {"blocked", "failed", "sent"} : Browser!Put(r, w, [x EXCEPT !.pc = pc])
    BY <1>2 DEF Browser!SendPart
  <2>2. [x EXCEPT !.pc = pc] \in Browser!WorkerRec /\ Stays(x, [x EXCEPT !.pc = pc])
    BY <1>1, <1>2 DEF Browser!WorkerRec, Stays, Busy, Browser!SendPart
  <2> QED
    BY <1>1, <1>2, <2>1, <2>2, WorkerKeeps DEF Browser!SendPart, Browser!others
<1>3. CASE Browser!PartError(r, w)
  <2>1. PICK y : /\ Browser!Put(r, w, y)
                 /\ \/ y = [x EXCEPT !.pc = "wait"] \/ y = [x EXCEPT !.pc = "failed"]
                    \/ /\ x.attempt # Retries
                       /\ y = [x EXCEPT !.pc = "wait", !.attempt = @ + 1]
    BY <1>3 DEF Browser!PartError
  <2>2. x.attempt # Retries => x.attempt + 1 \in 0..Retries
    BY <1>1, FilesAssumption
  <2>3. y \in Browser!WorkerRec /\ Stays(x, y)
    BY <1>1, <1>3, <2>1, <2>2 DEF Browser!WorkerRec, Stays, Busy, Browser!PartError
  <2> QED
    BY <1>1, <1>3, <2>1, <2>3, WorkerKeeps DEF Browser!PartError, Browser!others
<1>4. CASE Browser!PartFails(r, w)
  <2>1. [x EXCEPT !.pc = "error"] \in Browser!WorkerRec /\ Stays(x, [x EXCEPT !.pc = "error"])
    BY <1>1, <1>4 DEF Browser!WorkerRec, Stays, Busy, Browser!PartFails
  <2>2. budget' \in [pauses : 0..MaxPauses, errors : 0..MaxErrors]
    BY <1>1, <1>4, FilesAssumption DEF Browser!PartFails, Browser!UseError
  <2> QED
    BY <1>1, <1>4, <2>1, <2>2, WorkerKeeps DEF Browser!PartFails, Browser!client
<1> QED
  BY <1>2, <1>3, <1>4

(* A worker takes a part, or gives back one that is on the server.           *)
LEMMA HandsKeep ==
  ASSUME PageInv, NEW r \in Browser!Run, NEW w \in Proc, NEW x \in Browser!WorkerRec,
         Browser!Put(r, w, x), WorkerOK(x, pending'[r]),
         UNCHANGED <<mode, state, stopped, session, run, abort, orphaned, stray, budget>>,
         server' \in ServerRec, server'.status = server.status,
         server.parts \subseteq server'.parts, server.status # "active" => server' = server,
         pending' \in [Browser!Run -> SUBSET Part], pending'[r] \subseteq pending[r],
         \A q \in Browser!Run : q # r => pending'[q] = pending[q],
         x.pc = "answered" => x.part \in server'.parts,
         ~stopped => \A n \in Part : n \in pending[r] \/ Holds(worker[r][w], n) =>
                       n \in server'.parts \/ n \in pending'[r] \/ Holds(x, n)
  PROVE  PageInv'
<1>1. /\ BrowserTyped
      /\ worker' \in [Browser!Run -> [Proc -> Browser!WorkerRec]] /\ worker'[r][w] = x
      /\ \A q \in Browser!Run, v \in Proc : q # r \/ v # w => worker'[q][v] = worker[q][v]
  BY PutTyped DEF PageInv
<1>2. Browser!FpTypeOK'
  BY <1>1 DEF BrowserTyped, Browser!FpTypeOK, ServerRec
<1>3. BrowserTyped'
  <2>1. ASSUME NEW q \in Browser!Run, NEW v \in Proc
        PROVE  WorkerOK(worker'[q][v], pending'[q])
    <3>1. CASE q = r /\ v = w
      BY <1>1, <3>1
    <3>2. CASE q # r \/ v # w
      <4>1. worker'[q][v] = worker[q][v] /\ pending'[q] \subseteq pending[q]
        BY <1>1, <3>2
      <4>2. WorkerOK(worker[q][v], pending[q])
        BY <1>1, WorkerTyped
      <4> QED
        BY <4>1, <4>2 DEF WorkerOK
    <3> QED
      BY <3>1, <3>2
  <2> QED
    BY <1>1, <1>2, <2>1 DEF BrowserTyped
<1>4. InitWatched' /\ ServerWhole' /\ OpenIsKnown'
  <2>1. server.status # "active" => server'.parts = server.parts
    OBVIOUS
  <2> QED
    BY <2>1 DEF PageInv, InitWatched, ServerWhole, OpenIsKnown
<1>5. NoPartLost'
  <2> SUFFICES ASSUME ~stopped
               PROVE  /\ \A q \in Browser!Run, v \in Proc :
                           worker'[q][v].pc = "answered" => worker'[q][v].part \in server'.parts
                      /\ run.pc = "workers" =>
                           \A n \in Part : \/ n \in server'.parts \/ n \in pending'[run.no]
                                           \/ \E v \in Proc : Holds(worker'[run.no][v], n)
                      /\ run.pc = "complete" => server'.parts = Part
    BY DEF PageInv, NoPartLost
  <2>1. ASSUME NEW q \in Browser!Run, NEW v \in Proc, worker'[q][v].pc = "answered"
        PROVE  worker'[q][v].part \in server'.parts
    <3>1. CASE q = r /\ v = w
      BY <1>1, <2>1, <3>1
    <3>2. CASE q # r \/ v # w
      BY <1>1, <2>1, <3>2 DEF PageInv, NoPartLost
    <3> QED
      BY <3>1, <3>2
  <2>2. ASSUME run.pc = "workers", NEW n \in Part,
               n \notin server'.parts, n \notin pending'[run.no]
        PROVE  \E v \in Proc : Holds(worker'[run.no][v], n)
    <3>1. run.no \in Browser!Run
      BY <2>2, <1>1 DEF BrowserTyped
    <3>2. CASE run.no = r /\ (n \in pending[r] \/ Holds(worker[r][w], n))
      <4>1. Holds(worker'[r][w], n)
        BY <1>1, <2>2, <3>2
      <4> QED
        BY <3>2, <4>1
    <3>3. CASE ~(run.no = r /\ (n \in pending[r] \/ Holds(worker[r][w], n)))
      <4>1. n \notin pending[run.no] /\ n \notin server.parts
        BY <2>2, <3>1, <3>3
      <4>2. PICK v \in Proc : Holds(worker[run.no][v], n)
        BY <2>2, <3>1, <4>1 DEF PageInv, NoPartLost
      <4>3. run.no # r \/ v # w
        BY <3>3, <4>2
      <4>4. worker'[run.no][v] = worker[run.no][v]
        BY <1>1, <3>1, <4>3
      <4> QED
        BY <4>2, <4>4
    <3> QED
      BY <3>2, <3>3
  <2>3. run.pc = "complete" => server'.parts = Part
    BY DEF PageInv, NoPartLost, ServerRec
  <2> QED
    BY <2>1, <2>2, <2>3
<1> QED
  BY <1>3, <1>4, <1>5 DEF PageInv

LEMMA TakePartKeeps ==
  ASSUME PageInv, NEW r \in Browser!Run, NEW w \in Proc, Browser!TakePart(r, w)
  PROVE  PageInv'
<1>1. /\ BrowserTyped /\ worker[r][w].pc = "next" /\ \A n \in Part : ~Holds(worker[r][w], n)
      /\ pending \in [Browser!Run -> SUBSET Part] /\ server \in ServerRec
      /\ UNCHANGED <<mode, state, stopped, session, run, abort, server, orphaned, stray, budget>>
  BY DEF Browser!TakePart, PageInv, BrowserTyped, Browser!FpTypeOK, ServerRec, Browser!others,
         Holds, Busy
<1>2. CASE pending[r] = {} /\ Browser!Put(r, w, Browser!Rest) /\ UNCHANGED pending
  <2>1. WorkerOK(Browser!Rest, pending'[r]) /\ Browser!Rest.pc # "answered"
    BY <1>2, BrowserRest DEF WorkerOK, Busy
  <2> QED
    BY <1>1, <1>2, <2>1, BrowserRest, HandsKeep
<1>3. ASSUME NEW n \in pending[r],
             Browser!Put(r, w, [pc |-> "wait", part |-> n, attempt |-> 0]),
             pending' = [pending EXCEPT ![r] = @ \ {n}]
      PROVE  PageInv'
  <2> SUFFICES ASSUME NEW x, x = [pc |-> "wait", part |-> n, attempt |-> 0]
               PROVE  PageInv'
    OBVIOUS
  <2>1. x \in Browser!WorkerRec /\ x.pc = "wait" /\ x.part = n /\ n \in Part
    BY <1>1, <1>3, FilesAssumption DEF Browser!WorkerRec
  <2>2. WorkerOK(x, pending'[r]) /\ Holds(x, n)
    BY <2>1 DEF WorkerOK, Holds, Busy
  <2>3. /\ pending' \in [Browser!Run -> SUBSET Part] /\ pending'[r] = pending[r] \ {n}
        /\ \A q \in Browser!Run : q # r => pending'[q] = pending[q]
    BY <1>1, <1>3
  <2> QED
    BY <1>1, <1>3, <2>1, <2>2, <2>3, HandsKeep
<1> QED
  BY <1>2, <1>3 DEF Browser!TakePart

LEMMA PartAnswerKeeps ==
  ASSUME PageInv, NEW r \in Browser!Run, NEW w \in Proc, Browser!PartAnswer(r, w)
  PROVE  PageInv'
<1> SUFFICES ASSUME NEW x, x = [Browser!Rest EXCEPT !.pc = "next"]
             PROVE  PageInv'
  OBVIOUS
<1>1. /\ worker[r][w].pc = "answered" /\ Browser!Put(r, w, x)
      /\ pending \in [Browser!Run -> SUBSET Part] /\ server \in ServerRec
      /\ UNCHANGED <<mode, state, stopped, session, run, abort, server, orphaned, pending, stray,
                     budget>>
  BY DEF Browser!PartAnswer, PageInv, BrowserTyped, Browser!FpTypeOK, ServerRec, Browser!others
<1>2. x \in Browser!WorkerRec /\ x.pc = "next" /\ WorkerOK(x, pending'[r])
  BY BrowserRest DEF WorkerOK, Busy
<1>3. ~stopped => \A n \in Part : Holds(worker[r][w], n) => n \in server.parts
  BY <1>1 DEF PageInv, NoPartLost, Holds
<1> QED
  BY <1>1, <1>2, <1>3, HandsKeep

LEMMA PartLandsKeeps ==
  ASSUME PageInv, NEW r \in Browser!Run, NEW w \in Proc, Browser!PartLands(r, w)
  PROVE  PageInv'
<1> SUFFICES ASSUME NEW pc, pc = IF server.status = "active" THEN "answered" ELSE "error",
                    NEW x, x = [worker[r][w] EXCEPT !.pc = pc]
             PROVE  PageInv'
  OBVIOUS
<1>1. /\ BrowserTyped /\ worker[r][w].pc = "sent" /\ Browser!Put(r, w, x)
      /\ Browser!Land(worker[r][w].part) /\ pending \in [Browser!Run -> SUBSET Part]
      /\ UNCHANGED <<mode, state, stopped, session, pending, orphaned, run, abort, stray, budget>>
  BY DEF Browser!PartLands, PageInv, BrowserTyped, Browser!FpTypeOK, Browser!client
<1>2. worker[r][w] \in Browser!WorkerRec /\ worker[r][w].part \in Part
  BY <1>1, WorkerTyped DEF WorkerOK, Busy
<1>3. x \in Browser!WorkerRec /\ x.pc = pc /\ x.part = worker[r][w].part
  BY <1>2 DEF Browser!WorkerRec
<1>4. WorkerOK(x, pending'[r]) /\ \A n \in Part : Holds(worker[r][w], n) => Holds(x, n)
  BY <1>2, <1>3 DEF WorkerOK, Holds, Busy
<1>5. /\ server' \in ServerRec /\ server'.status = server.status
      /\ server.parts \subseteq server'.parts
      /\ server.status = "active" => x.part \in server'.parts
      /\ server.status # "active" => server' = server
  BY <1>1, <1>2, <1>3, LandGrows
<1>6. x.pc = "answered" => x.part \in server'.parts
  BY <1>3, <1>5
<1>7. ~stopped => \A n \in Part : n \in pending[r] \/ Holds(worker[r][w], n) =>
                    n \in server'.parts \/ n \in pending'[r] \/ Holds(x, n)
  BY <1>1, <1>4
<1> QED
  BY <1>1, <1>3, <1>4, <1>5, <1>6, <1>7, HandsKeep
-----------------------------------------------------------------------------
(* The network and the server. *)

LEMMA InitLandsKeeps ==
  ASSUME PageInv, Browser!InitLands
  PROVE  PageInv'
<1>1. /\ BrowserTyped /\ ServerWhole /\ run.pc = "init" /\ Browser!OpenUpload
      /\ UNCHANGED <<mode, state, stopped, session, pending, orphaned, worker, abort, stray, budget>>
      /\ ~stopped /\ abort = "none" /\ server.status # "aborted" /\ run.no \in Browser!Run
  BY DEF Browser!InitLands, Browser!client, PageInv, InitWatched, NoPartLost, BrowserTyped
<1>2. /\ server' \in ServerRec /\ server.parts \subseteq server'.parts
      /\ server.status = "none" => server' = [status |-> "active", parts |-> {}]
      /\ server.status # "none" => server' = server
  BY <1>1, OpenGrows
<1>3. PICK pc \in {"error", "initAnswered"} :
        Browser!Goto(pc) /\ (pc = "error" <=> server.status = "completed")
  BY DEF Browser!InitLands
<1>4. run' \in RunRec /\ run'.pc = pc /\ run'.no = run.no
  BY <1>1, <1>3, GotoTyped
<1>5. Browser!FpTypeOK'
  BY <1>1, <1>2, <1>4 DEF BrowserTyped, Browser!FpTypeOK, RunRec, ServerRec
<1>6. InitWatched' /\ ServerWhole' /\ OpenIsKnown'
  BY <1>1, <1>2, <1>3, <1>4 DEF PageInv, InitWatched, ServerWhole, OpenIsKnown
<1>7. \A r \in Browser!Run, w \in Proc : Stays(worker[r][w], worker'[r][w])
  BY <1>1 DEF Stays
<1>8. server'.status # "aborted"
  BY <1>1, <1>2
<1> QED
  BY <1>1, <1>2, <1>4, <1>5, <1>6, <1>7, <1>8, BrowserStep

LEMMA AnswersKeep ==
  ASSUME PageInv, Browser!DirectLands \/ Browser!CompleteLands
  PROVE  PageInv'
<1>1. /\ BrowserTyped /\ run.pc \in {"direct", "complete"}
      /\ UNCHANGED <<mode, state, stopped, session, pending, orphaned, worker, abort, stray, budget>>
      /\ server \in ServerRec /\ orphaned \in BOOLEAN /\ session \in BOOLEAN
      /\ abort \in {"none", "sent", "done", "failed"}
      /\ budget \in [pauses : 0..MaxPauses, errors : 0..MaxErrors]
      /\ state \in {"idle", "initializing", "uploading", "paused", "completing", "completed",
                    "failed", "stopped"}
  BY DEF Browser!DirectLands, Browser!CompleteLands, Browser!client, PageInv, BrowserTyped,
         Browser!FpTypeOK, ServerRec
<1>2. PICK pc \in {"directAnswered", "completeAnswered", "error"} :
        /\ Browser!Goto(pc)
        /\ \/ server' = server /\ pc = "error"
           \/ /\ server' = [status |-> "completed", parts |-> Part] /\ pc # "error"
           \/ /\ server.parts = Part /\ server' = [server EXCEPT !.status = "completed"]
              /\ pc # "error"
  BY DEF Browser!DirectLands, Browser!CompleteLands
<1>3. /\ server' \in ServerRec /\ server.parts \subseteq server'.parts
      /\ server' = server \/ (server'.status = "completed" /\ server'.parts = Part)
      /\ pc # "error" => server'.status = "completed"
  BY <1>1, <1>2 DEF ServerRec
<1>4. run'.pc = pc
  BY <1>1, <1>2, GotoTyped
<1>5. ServerWhole' /\ OpenIsKnown'
  BY <1>1, <1>2, <1>3, <1>4 DEF PageInv, ServerWhole, OpenIsKnown
<1>6. ~stopped => abort = "none" /\ server'.status # "aborted"
  BY <1>3 DEF PageInv, NoPartLost
<1> QED
  BY <1>1, <1>2, <1>3, <1>5, <1>6, RunStep

(* Only a stop sends an abort.                                               *)
LEMMA AbortsKeep ==
  ASSUME PageInv, Browser!AbortLands \/ Browser!AbortFails
  PROVE  PageInv'
<1>1. /\ BrowserTyped /\ abort = "sent" /\ stopped /\ abort' \in {"done", "failed"}
      /\ UNCHANGED <<mode, state, stopped, session, pending, orphaned, run, worker, stray>>
      /\ \/ server' = server /\ abort' = "failed"
         \/ server.status = "active" /\ server' = [status |-> "aborted", parts |-> {}]
  BY DEF Browser!AbortLands, Browser!AbortFails, Browser!client, PageInv, NoPartLost
<1>2. budget' \in [pauses : 0..MaxPauses, errors : 0..MaxErrors]
  BY FilesAssumption DEF Browser!AbortLands, Browser!AbortFails, Browser!UseError, PageInv,
                           BrowserTyped, Browser!FpTypeOK
<1>3. Browser!FpTypeOK'
  BY <1>1, <1>2 DEF BrowserTyped, Browser!FpTypeOK
<1>4. InitWatched' /\ ServerWhole' /\ OpenIsKnown'
  BY <1>1 DEF PageInv, InitWatched, ServerWhole, OpenIsKnown
<1>5. \A r \in Browser!Run, w \in Proc : Stays(worker[r][w], worker'[r][w])
  BY <1>1 DEF Stays
<1>6. run'.pc # "none" => run'.no \in Browser!Run
  BY <1>1 DEF BrowserTyped
<1> QED
  BY <1>1, <1>3, <1>4, <1>5, <1>6, BrowserStep

LEMMA StrayLandsKeeps ==
  ASSUME PageInv, Browser!StrayLands
  PROVE  PageInv'
<1>1. /\ BrowserTyped /\ ServerWhole
      /\ UNCHANGED <<mode, state, stopped, session, pending, orphaned, run, worker, abort, budget>>
      /\ stray \in SUBSET (Part \cup {"init", "direct"}) /\ server \in ServerRec
  BY DEF Browser!StrayLands, Browser!client, PageInv, BrowserTyped, Browser!FpTypeOK, ServerRec
<1>2. PICK x \in stray :
        /\ stray' = stray \ {x}
        /\ CASE x = "init" -> Browser!OpenUpload
             [] x = "direct" -> server' = [status |-> "completed", parts |-> Part]
             [] OTHER -> Browser!Land(x)
  BY DEF Browser!StrayLands
<1>3. /\ server' \in ServerRec
      /\ server' = server
         \/ (server'.status = "completed" /\ server'.parts = Part)
         \/ (server'.status = "active" /\ orphaned /\ server.status \in {"none", "aborted"})
         \/ (server'.status = "active" /\ server.status = "active")
      /\ ~stopped => server'.status # "aborted" /\ server.parts \subseteq server'.parts
  <2>1. ~stopped => server.status # "aborted"
    BY DEF PageInv, NoPartLost
  <2>2. CASE x = "init"
    <3>1. orphaned /\ Browser!OpenUpload
      BY <1>2, <2>2 DEF PageInv, InitWatched
    <3>2. /\ server' \in ServerRec
          /\ server.status \in {"none", "aborted"} => server' = [status |-> "active", parts |-> {}]
          /\ server.status \notin {"none", "aborted"} => server' = server
          /\ server.status # "aborted" => server.parts \subseteq server'.parts
      BY <1>1, <3>1, OpenGrows
    <3> QED
      BY <2>1, <3>1, <3>2
  <2>3. CASE x = "direct"
    BY <1>1, <1>2, <2>3 DEF ServerRec
  <2>4. CASE x \notin {"init", "direct"}
    <3>1. x \in Part /\ Browser!Land(x)
      BY <1>1, <1>2, <2>4
    <3>2. /\ server' \in ServerRec /\ server'.status = server.status
          /\ server.parts \subseteq server'.parts /\ (server.status # "active" => server' = server)
      BY <1>1, <3>1, LandGrows
    <3> QED
      BY <2>1, <3>2
  <2> QED
    BY <2>2, <2>3, <2>4
<1>4. Browser!FpTypeOK'
  BY <1>1, <1>2, <1>3 DEF BrowserTyped, Browser!FpTypeOK, ServerRec
<1>5. InitWatched' /\ ServerWhole' /\ OpenIsKnown'
  BY <1>1, <1>2, <1>3 DEF PageInv, InitWatched, ServerWhole, OpenIsKnown
<1>6. \A r \in Browser!Run, w \in Proc : Stays(worker[r][w], worker'[r][w])
  BY <1>1 DEF Stays
<1>7. /\ run'.pc # "none" => run'.no \in Browser!Run
      /\ ~stopped' => abort' = "none" /\ (run'.pc = "complete" => server'.parts = Part)
  BY <1>1, <1>3 DEF BrowserTyped, PageInv, NoPartLost, ServerRec
<1> QED
  BY <1>1, <1>3, <1>4, <1>5, <1>6, <1>7, BrowserStep

LEMMA RunRequestFailsKeeps ==
  ASSUME PageInv, Browser!RunRequestFails
  PROVE  PageInv'
<1>1. /\ BrowserTyped /\ run.pc # "none" /\ Browser!Goto("error")
      /\ orphaned' = (orphaned \/ run.pc \in {"init", "initAnswered"})
      /\ UNCHANGED <<mode, state, stopped, session, pending, worker, abort, server, stray>>
      /\ server \in ServerRec /\ orphaned \in BOOLEAN /\ session \in BOOLEAN
      /\ abort \in {"none", "sent", "done", "failed"}
      /\ state \in {"idle", "initializing", "uploading", "paused", "completing", "completed",
                    "failed", "stopped"}
  BY DEF Browser!RunRequestFails, PageInv, BrowserTyped, Browser!FpTypeOK, ServerRec
<1>2. budget' \in [pauses : 0..MaxPauses, errors : 0..MaxErrors]
  BY FilesAssumption DEF Browser!RunRequestFails, Browser!UseError, PageInv,
                           BrowserTyped, Browser!FpTypeOK
<1>3. orphaned' \in BOOLEAN /\ (orphaned' <=> orphaned \/ run.pc \in {"init", "initAnswered"})
  BY <1>1
<1>4. run'.pc = "error"
  BY <1>1, GotoTyped
<1>5. ServerWhole' /\ OpenIsKnown'
  BY <1>1, <1>3, <1>4 DEF PageInv, ServerWhole, OpenIsKnown
<1>6. ~stopped => abort = "none" /\ server.status # "aborted"
  BY DEF PageInv, NoPartLost
<1> QED
  BY <1>1, <1>2, <1>3, <1>5, <1>6, RunStep
-----------------------------------------------------------------------------
LEMMA PageStarts == Browser!FpInit => PageInv
<1> SUFFICES ASSUME Browser!FpInit PROVE PageInv
  OBVIOUS
<1>1. /\ worker = [r \in Browser!Run |-> [w \in Proc |-> Browser!Rest]]
      /\ pending = [r \in Browser!Run |-> {}]
      /\ run = [pc |-> "none", no |-> 0] /\ server = [status |-> "none", parts |-> {}]
      /\ state = "idle" /\ ~stopped /\ ~session /\ ~orphaned /\ abort = "none" /\ stray = {}
  BY DEF Browser!FpInit
<1>2. \A r \in Browser!Run, w \in Proc : worker[r][w].pc = "done" /\ WorkerOK(worker[r][w], {})
  BY <1>1, BrowserRest DEF WorkerOK, Busy
<1>3. Browser!FpTypeOK
  <2>1. 0 \in 0..MaxRuns /\ MaxPauses \in 0..MaxPauses /\ MaxErrors \in 0..MaxErrors
    BY FilesAssumption
  <2>2. worker \in [Browser!Run -> [Proc -> Browser!WorkerRec]]
    BY <1>1, BrowserRest
  <2>3. /\ budget = [pauses |-> MaxPauses, errors |-> MaxErrors] /\ mode \in {"direct", "multipart"}
        /\ stopped \in BOOLEAN /\ session \in BOOLEAN /\ orphaned \in BOOLEAN
    BY DEF Browser!FpInit
  <2>4. budget \in [pauses : 0..MaxPauses, errors : 0..MaxErrors]
    BY <2>1, <2>3
  <2>5. run \in RunRec /\ server \in ServerRec
    BY <1>1, <2>1 DEF RunRec, ServerRec
  <2>6. pending \in [Browser!Run -> SUBSET Part]
    BY <1>1
  <2> QED
    BY <1>1, <2>2, <2>3, <2>4, <2>5, <2>6 DEF Browser!FpTypeOK, RunRec, ServerRec
<1>4. BrowserTyped
  BY <1>1, <1>2, <1>3 DEF BrowserTyped
<1>5. InitWatched /\ ServerWhole /\ OpenIsKnown
  BY <1>1 DEF InitWatched, ServerWhole, OpenIsKnown
<1>6. NoPartLost
  BY <1>1, <1>2 DEF NoPartLost
<1> QED
  BY <1>4, <1>5, <1>6 DEF PageInv

LEMMA PageSteps ==
  ASSUME PageInv, [Browser!FpNext]_(Browser!fpVars)
  PROVE  PageInv'
<1>1. CASE UNCHANGED Browser!fpVars
  BY <1>1 DEF Browser!fpVars, PageInv, BrowserTyped, Browser!FpTypeOK, InitWatched, ServerWhole,
              OpenIsKnown, NoPartLost
<1>2. CASE Browser!Start \/ Browser!Pause \/ Browser!Resume \/ Browser!Stop
  BY <1>2, StartKeeps, PauseKeeps, ResumeKeeps, StopKeeps
<1>3. CASE Browser!RunStep
  BY <1>3, InitAnswerKeeps, SendCompleteKeeps, RunEndsKeep, RunFailsKeeps DEF Browser!RunStep
<1>4. CASE Browser!ServerStep
  BY <1>4, InitLandsKeeps, AnswersKeep, AbortsKeep DEF Browser!ServerStep
<1>5. CASE Browser!StrayLands \/ Browser!RunRequestFails \/ Browser!AbortFails
  BY <1>5, StrayLandsKeeps, RunRequestFailsKeeps, AbortsKeep
<1>6. ASSUME NEW r \in Browser!Run, NEW w \in Proc,
             Browser!WorkerStep(r, w) \/ Browser!PartFails(r, w)
      PROVE  PageInv'
  BY <1>6, TakePartKeeps, PartStepsKeep, PartAnswerKeeps, PartLandsKeeps DEF Browser!WorkerStep
<1> QED
  BY <1>1, <1>2, <1>3, <1>4, <1>5, <1>6 DEF Browser!FpNext

LEMMA PageImplies ==
  PageInv => /\ Browser!FpTypeOK /\ Browser!CompleteOnlyWhole
             /\ Browser!CompletedIsCompleted /\ Browser!StopAborts
<1>1. PageInv => Browser!CompletedIsCompleted
  BY DEF PageInv, BrowserTyped, Browser!FpTypeOK, ServerWhole, Browser!CompletedIsCompleted
<1> QED
  BY <1>1 DEF PageInv, BrowserTyped, NoPartLost, OpenIsKnown, Browser!CompleteOnlyWhole,
              Browser!StopAborts
-----------------------------------------------------------------------------

SendsNothing ==
  stopped => \A r \in Browser!Run, w \in Proc : SendsNot(worker[r][w], worker'[r][w])

LEMMA PutSendsNothing ==
  ASSUME PageInv, NEW r \in Browser!Run, NEW w \in Proc, NEW x,
         Browser!Put(r, w, x), SendsNot(worker[r][w], x)
  PROVE  SendsNothing
<1> SUFFICES ASSUME NEW R, R = Browser!Run, NEW X, X = Browser!WorkerRec,
                    NEW q \in R, NEW v \in Proc
             PROVE  SendsNot(worker[q][v], worker'[q][v])
  BY DEF SendsNothing
<1>1. worker \in [R -> [Proc -> X]] /\ r \in R
  BY DEF PageInv, BrowserTyped, Browser!FpTypeOK
<1>2. worker' = [worker EXCEPT ![r] = [worker[r] EXCEPT ![w] = x]]
  BY <1>1 DEF Browser!Put
<1>3. CASE q = r /\ v = w
  BY <1>1, <1>2, <1>3
<1>4. CASE q # r \/ v # w
  <2>1. worker'[q][v] = worker[q][v]
    BY <1>1, <1>2, <1>4
  <2> QED
    BY <2>1 DEF SendsNot
<1> QED
  BY <1>3, <1>4

LEMMA StoppedSends ==
  ASSUME PageInv, [Browser!FpNext]_(Browser!fpVars)
  PROVE  SendsNothing
<1>1. BrowserTyped
  BY DEF PageInv
<1>2. CASE UNCHANGED worker
  BY <1>2 DEF SendsNothing, SendsNot
<1>3. CASE Browser!Pause \/ Browser!Stop \/ Browser!RunFails
  <2>1. PICK kept : \/ Browser!AbortActiveRequests(kept, "wait", FALSE)
                    \/ Browser!AbortActiveRequests(kept, "error", TRUE)
                    \/ Browser!AbortActiveRequests(kept, "error", FALSE)
    BY <1>3 DEF Browser!Pause, Browser!Stop, Browser!RunFails
  <2> QED
    BY <1>1, <2>1, AbortsRequests DEF SendsNothing
<1>4. CASE Browser!Resume
  <2> SUFFICES ASSUME NEW r \in Browser!Run, NEW w \in Proc, NEW x, x = worker[r][w]
               PROVE  SendsNot(x, worker'[r][w])
    BY DEF SendsNothing
  <2>1. worker'[r][w] = IF x.pc = "blocked" THEN [x EXCEPT !.pc = "woken"] ELSE x
    BY <1>4 DEF Browser!Resume
  <2>2. x \in Browser!WorkerRec
    BY <1>1, WorkerTyped
  <2> QED
    BY <2>1, <2>2 DEF SendsNot, Browser!WorkerRec
<1>5. CASE Browser!InitAnswer
  BY <1>2, <1>5 DEF SendsNothing, Browser!InitAnswer
<1>6. ASSUME NEW r \in Browser!Run, NEW w \in Proc,
             Browser!WorkerStep(r, w) \/ Browser!PartFails(r, w)
      PROVE  SendsNothing
  <2> SUFFICES ASSUME stopped, NEW x, x = worker[r][w]
               PROVE  SendsNothing
    BY DEF SendsNothing
  <2>1. x \in Browser!WorkerRec
    BY <1>1, WorkerTyped
  <2>2. PICK y : Browser!Put(r, w, y) /\ SendsNot(x, y)
    <3>1. CASE Browser!TakePart(r, w)
      <4>1. CASE Browser!Put(r, w, Browser!Rest)
        BY <4>1, BrowserRest DEF SendsNot
      <4>2. CASE \E n : Browser!Put(r, w, [pc |-> "wait", part |-> n, attempt |-> 0])
        BY <4>2 DEF SendsNot
      <4> QED
        BY <3>1, <4>1, <4>2 DEF Browser!TakePart
    <3>2. CASE Browser!SendPart(r, w)
      <4> DEFINE pc == IF x.pc = "wait" /\ state = "paused" THEN "blocked"
                       ELSE IF stopped THEN "failed" ELSE "sent"
      <4>1. Browser!Put(r, w, [x EXCEPT !.pc = pc]) /\ pc \in {"blocked", "failed"}
        BY <3>2 DEF Browser!SendPart
      <4> HIDE DEF pc
      <4>2. SendsNot(x, [x EXCEPT !.pc = pc])
        BY <2>1, <4>1 DEF Browser!WorkerRec, SendsNot
      <4> QED
        BY <4>1, <4>2
    <3>3. CASE Browser!PartAnswer(r, w)
      BY <3>3, BrowserRest DEF Browser!PartAnswer, SendsNot
    <3>4. CASE Browser!PartError(r, w)
      BY <2>1, <3>4 DEF Browser!PartError, Browser!WorkerRec, SendsNot
    <3>5. CASE Browser!PartLands(r, w)
      BY <3>5 DEF Browser!PartLands, SendsNot
    <3>6. CASE Browser!PartFails(r, w)
      BY <2>1, <3>6 DEF Browser!PartFails, Browser!WorkerRec, SendsNot
    <3> QED
      BY <1>6, <3>1, <3>2, <3>3, <3>4, <3>5, <3>6 DEF Browser!WorkerStep
  <2> QED
    BY <2>2, PutSendsNothing
<1>7. CASE \/ Browser!Start \/ Browser!SendComplete \/ Browser!WorkerFailed
           \/ Browser!RunCompletes \/ Browser!DirectAgain
           \/ Browser!InitLands \/ Browser!DirectLands \/ Browser!CompleteLands
           \/ Browser!AbortLands \/ Browser!StrayLands \/ Browser!RunRequestFails
           \/ Browser!AbortFails \/ UNCHANGED Browser!fpVars
  <2>1. UNCHANGED worker
    BY <1>7 DEF Browser!Start, Browser!SendComplete, Browser!WorkerFailed,
         Browser!RunCompletes, Browser!DirectAgain, Browser!InitLands, Browser!DirectLands,
         Browser!CompleteLands, Browser!AbortLands, Browser!StrayLands,
         Browser!RunRequestFails, Browser!AbortFails, Browser!fpVars
  <2> QED
    BY <1>2, <2>1
<1> QED
  BY <1>3, <1>4, <1>5, <1>6, <1>7
     DEF Browser!FpNext, Browser!RunStep, Browser!ServerStep
-----------------------------------------------------------------------------
LEMMA PagesStep ==
  ASSUME PageInv, [UploadsNext]_allVars
  PROVE  PageInv' /\ [SendsNothing]_(Browser!fpVars)
<1>1. [Browser!FpNext]_(Browser!fpVars)
  BY DEF UploadsNext, allVars, browserVars, Browser!fpVars
<1> QED
  BY <1>1, PageSteps, StoppedSends

(* Whatever is paused, failed, tried again or stopped, the browser asks to   *)
(* complete only what is whole, reports as completed only what the server    *)
(* completed, and aborts what it stops.                                      *)
THEOREM BrowserUploadIsSafe == UploadsSpec => []BrowserUploadSafe
<1>1. UploadsInit => PageInv
  BY PageStarts DEF UploadsInit
<1>2. PageInv => BrowserUploadSafe
  BY PageImplies DEF BrowserUploadSafe
<1> QED
  BY <1>1, <1>2, PagesStep, PTL DEF UploadsSpec

(* A worker of a stopped upload sends no part, whoever resumes, answers or   *)
(* fails meanwhile.                                                          *)
THEOREM StoppedUploadsAreSilent == UploadsSpec => Browser!StoppedSendsNothing
<1>1. UploadsInit => PageInv
  BY PageStarts DEF UploadsInit
<1>2. Browser!StoppedSendsNothing <=> [][SendsNothing]_(Browser!fpVars)
  BY PTL DEF Browser!StoppedSendsNothing, SendsNothing, SendsNot
<1> QED
  BY <1>1, <1>2, PagesStep, PTL DEF UploadsSpec
-----------------------------------------------------------------------------
(* Induction over numbers: of the numbers of a set one is the least.         *)
LEMMA LeastNumber ==
  ASSUME NEW T \in SUBSET Nat, T # {}
  PROVE  \E x \in T : \A y \in T : x <= y
<1> DEFINE R == OpToRel(<, Nat)
<1>1. IsWellFoundedOn(R, Nat)
  BY NatLessThanWellFounded
<1>2. \A x, y \in Nat : y < x => <<y, x>> \in R
  BY DEF OpToRel
<1> HIDE DEF R
<1>3. PICK x \in T : \A y \in T : ~ (<<y, x>> \in R)
  BY <1>1, WFMin
<1>4. ASSUME NEW y \in T PROVE x <= y
  <2>1. x \in Nat /\ y \in Nat /\ ~(<<y, x>> \in R)
    BY <1>3
  <2>2. ~(y < x)
    BY <1>2, <2>1
  <2> QED
    BY <2>1, <2>2
<1> QED
  BY <1>4

Ordered(s) == \A i, j \in DOMAIN s : i < j => s[i] < s[j]
Orders(n) ==
  \A S \in SUBSET Nat : IsFiniteSet(S) /\ Cardinality(S) = n => \E s \in [1..n -> S] : Ordered(s)

(* A finite set of numbers can be put in order: the least first.            *)
LEMMA SetsHaveOrder == \A n \in Nat : Orders(n)
<1>1. Orders(0)
  <2> SUFFICES ASSUME NEW S \in SUBSET Nat PROVE \E s \in [1..0 -> S] : Ordered(s)
    BY DEF Orders
  <2>1. [i \in 1..0 |-> 0] \in [1..0 -> S] /\ Ordered([i \in 1..0 |-> 0])
    BY DEF Ordered
  <2> QED
    BY <2>1
<1>2. ASSUME NEW n \in Nat, Orders(n) PROVE Orders(n + 1)
  <2> SUFFICES ASSUME NEW S \in SUBSET Nat, IsFiniteSet(S), Cardinality(S) = n + 1
               PROVE  \E s \in [1..(n + 1) -> S] : Ordered(s)
    BY DEF Orders
  <2>1. S # {}
    BY FS_EmptySet
  <2>2. PICK m \in S : \A y \in S : m <= y
    BY <2>1, LeastNumber
  <2>3. IsFiniteSet(S \ {m}) /\ Cardinality(S \ {m}) = n
    BY <2>2, FS_RemoveElement
  <2>4. PICK s \in [1..n -> S \ {m}] : Ordered(s)
    BY <1>2, <2>3 DEF Orders
  <2> DEFINE t == [i \in 1..(n + 1) |-> IF i = 1 THEN m ELSE s[i - 1]]
  <2>5. t \in [1..(n + 1) -> S]
    BY <2>2, <2>4
  <2>6. Ordered(t)
    <3> SUFFICES ASSUME NEW i \in 1..(n + 1), NEW j \in 1..(n + 1), i < j PROVE t[i] < t[j]
      BY DEF Ordered
    <3>1. t[j] = s[j - 1] /\ s[j - 1] \in S \ {m} /\ j - 1 \in 1..n
      BY <2>4
    <3>2. CASE i = 1
      <4>1. t[i] = m /\ m <= s[j - 1] /\ m # s[j - 1] /\ m \in Nat /\ s[j - 1] \in Nat
        BY <2>2, <3>1, <3>2
      <4> QED
        BY <3>1, <4>1
    <3>3. CASE i # 1
      <4>1. t[i] = s[i - 1] /\ i - 1 \in 1..n /\ i - 1 < j - 1
        BY <3>3
      <4>2. DOMAIN s = 1..n /\ s[i - 1] < s[j - 1]
        BY <2>4, <3>1, <4>1 DEF Ordered
      <4> QED
        BY <3>1, <4>1, <4>2
    <3> QED
      BY <3>2, <3>3
  <2> QED
    BY <2>5, <2>6
<1>3. ASSUME NEW k \in Nat, ~Orders(k) PROVE FALSE
  <2> DEFINE T == {n \in Nat : ~Orders(n)}
  <2>1. PICK x \in T : \A y \in T : x <= y
    BY <1>3, LeastNumber
  <2>2. x # 0 /\ x - 1 \in Nat /\ x - 1 \notin T
    BY <1>1, <2>1
  <2>3. Orders(x - 1) /\ (x - 1) + 1 = x
    BY <2>1, <2>2
  <2>4. Orders((x - 1) + 1)
    BY <1>2, <2>2, <2>3
  <2> QED
    BY <2>1, <2>3, <2>4
<1> QED
  BY <1>3

-----------------------------------------------------------------------------
(* The object store.  A call that is about to send connects as the row it   *)
(* has read says, and so does what is cached; an answer is fit to be given. *)
IsRequest(r) ==
  DOMAIN r = {"op", "pc", "uploadId", "parts", "expiresIn", "read", "context", "answer"}

Fits(o, a) ==
  /\ a.status = "signed" => a.host # "internal" /\ a.expiresIn > 0
  /\ "fullUrl" \in DOMAIN a => a.fullUrl.host # "internal"
  /\ o = "complete" => (a.status = "failed" /\ "missing" \in DOMAIN a => a.missing)

RequestHolds(r) ==
  /\ IsRequest(r)
  /\ r.pc \in {"idle", "read", "have", "send", "done"}
  /\ r.expiresIn \in {0, 60}
  /\ r.op = "complete" /\ r.pc \in {"read", "have", "send"} => r.parts \in Store!PartList
  /\ r.pc \in {"have", "send"} => r.read \in Store!Config
  /\ r.pc = "send" => r.context = Store!Context(r.read)
  /\ r.answer # None => Fits(r.op, r.answer)

StoreInv ==
  /\ Store!OsTypeOK
  /\ clientCache # None => clientCache.context = Store!Context(clientCache.fingerprint)
  /\ request = [c \in Proc |-> request[c]]
  /\ \A c \in Proc : RequestHolds(request[c])

RequestBecomes(c, r) == RequestHolds(r) /\ request' = [request EXCEPT ![c] = r]

(* The other calls stay as they are. *)
LEMMA RequestsHold ==
  ASSUME StoreInv, NEW c \in Proc, NEW r, RequestBecomes(c, r)
  PROVE  /\ request'[c] = r /\ \A d \in Proc : d # c => request'[d] = request[d]
         /\ request' = [d \in Proc |-> request'[d]]
         /\ \A d \in Proc : RequestHolds(request'[d])
<1>1. request'[c] = r /\ \A d \in Proc : d # c => request'[d] = request[d]
  BY DEF StoreInv, RequestBecomes
<1>2. request' = [d \in Proc |-> request'[d]]
  BY DEF StoreInv, RequestBecomes
<1> QED
  BY <1>1, <1>2 DEF StoreInv, RequestBecomes

(* An answered call remembers its operation and its answer only. *)
LEMMA AnswerBecomes ==
  ASSUME StoreInv, NEW c \in Proc, NEW a, Store!Answer(c, a), Fits(request[c].op, a)
  PROVE  \E r : RequestBecomes(c, r) /\ r.op = request[c].op /\ r.pc = "done" /\ r.answer = a
<1> DEFINE r == [Store!Idle EXCEPT !.op = request[c].op, !.pc = "done", !.answer = a]
<1>1. request' = [request EXCEPT ![c] = r]
  BY DEF Store!Answer
<1>2. /\ IsRequest(r) /\ r.op = request[c].op /\ r.pc = "done" /\ r.answer = a
      /\ r.expiresIn = 0
  BY DEF Store!Idle, IsRequest
<1> HIDE DEF r
<1> QED
  BY <1>1, <1>2 DEF RequestBecomes, RequestHolds

(* The stages before sending: the row read, then its context taken.        *)
LEMMA NextStage ==
  ASSUME StoreInv, NEW c \in Proc
  PROVE  /\ \A f \in Store!Config : request[c].pc = "read" =>
              LET r == [[request[c] EXCEPT !.pc = "have"] EXCEPT !.read = f] IN
              RequestHolds(r) /\ r.pc = "have"
         /\ request[c].pc = "have" =>
              LET r == [[request[c] EXCEPT !.pc = "send"]
                          EXCEPT !.context = Store!Context(request[c].read)] IN
              RequestHolds(r) /\ r.pc = "send"
<1> SUFFICES ASSUME NEW q, q = request[c], RequestHolds(q)
             PROVE  /\ \A f \in Store!Config : q.pc = "read" =>
                         LET r == [[q EXCEPT !.pc = "have"] EXCEPT !.read = f] IN
                         RequestHolds(r) /\ r.pc = "have"
                    /\ q.pc = "have" =>
                         LET r == [[q EXCEPT !.pc = "send"]
                                     EXCEPT !.context = Store!Context(q.read)] IN
                         RequestHolds(r) /\ r.pc = "send"
  BY DEF StoreInv
<1>1. ASSUME NEW f \in Store!Config, q.pc = "read"
      PROVE  LET r == [[q EXCEPT !.pc = "have"] EXCEPT !.read = f] IN
             RequestHolds(r) /\ r.pc = "have"
  <2> DEFINE r == [[q EXCEPT !.pc = "have"] EXCEPT !.read = f]
  <2>1. /\ DOMAIN r = DOMAIN q /\ r.pc = "have" /\ r.read = f /\ r.op = q.op
        /\ r.expiresIn = q.expiresIn /\ r.parts = q.parts /\ r.answer = q.answer
    BY DEF RequestHolds, IsRequest
  <2> HIDE DEF r
  <2>2. RequestHolds(r)
    BY <1>1, <2>1 DEF RequestHolds, IsRequest
  <2> QED
    BY <2>1, <2>2 DEF r
<1>2. ASSUME q.pc = "have"
      PROVE  LET r == [[q EXCEPT !.pc = "send"] EXCEPT !.context = Store!Context(q.read)] IN
             RequestHolds(r) /\ r.pc = "send"
  <2> DEFINE r == [[q EXCEPT !.pc = "send"] EXCEPT !.context = Store!Context(q.read)]
  <2>1. /\ DOMAIN r = DOMAIN q /\ r.pc = "send" /\ r.read = q.read /\ r.op = q.op
        /\ r.context = Store!Context(q.read)
        /\ r.expiresIn = q.expiresIn /\ r.parts = q.parts /\ r.answer = q.answer
    BY DEF RequestHolds, IsRequest
  <2> HIDE DEF r
  <2>2. RequestHolds(r)
    BY <1>2, <2>1 DEF RequestHolds, IsRequest
  <2> QED
    BY <2>1, <2>2 DEF r
<1> QED
  BY <1>1, <1>2

(* What the context of a configuration is made of.                         *)
LEMMA Contexts ==
  ASSUME NEW f \in Store!Config
  PROVE  /\ Store!Context(f).bucket \in Bucket
         /\ Store!Context(f).signingClient = "endpoint"
         /\ Store!Context(f).accessClient \in {"domain", None}
         /\ Store!Context(f).signingExpiresIn \in {0, 600}
BY DEF Store!Context, Store!Config

(* The numbers of the tagged parts are put in order, and there is one if    *)
(* the list of them is not empty.                                           *)
LEMMA PartsAreOrdered ==
  ASSUME FilesAssumption, NEW parts \in Store!PartList
  PROVE  LET s == Store!NormalizedParts(parts) IN
         /\ Store!Ascending(s)
         /\ s # << >> => Store!ToSet(s) # {}
<1> DEFINE S == {parts[i].n : i \in {j \in DOMAIN parts : parts[j].eTag}}
           s == Store!NormalizedParts(parts)
<1>1. PICK k \in Nat : parts \in [1..k -> [n : PartNumber, eTag : BOOLEAN]]
  BY DEF Store!PartList
<1>2. S \in SUBSET Nat /\ S \subseteq {parts[i].n : i \in 1..k}
  BY <1>1 DEF FilesAssumption
<1>3. IsFiniteSet(S) /\ Cardinality(S) \in Nat
  <2>1. IsFiniteSet(1..k)
    BY <1>1, FS_Interval
  <2> DEFINE f == [i \in 1..k |-> parts[i].n]
             I == {parts[i].n : i \in 1..k}
  <2>2. f \in Surjection(1..k, I)
    BY DEF Surjection
  <2>3. IsFiniteSet(I)
    BY <2>1, <2>2, FS_Surjection
  <2> QED
    BY <1>2, <2>3, FS_Subset, FS_CardinalityType
<1> DEFINE n == Cardinality(S)
<1> HIDE DEF S
<1>4. \E t \in [1..n -> S] : Ordered(t)
  BY <1>2, <1>3, SetsHaveOrder DEF Orders
<1>5. s = CHOOSE t \in [1..n -> S] : Ordered(t)
  BY DEF S, Store!NormalizedParts, Store!Ascending, Ordered, Store!Cardinality, Cardinality
<1> HIDE DEF s, n
<1>6. s \in [1..n -> S] /\ Ordered(s)
  BY <1>4, <1>5
<1>7. s # << >> => s[1] \in {s[i] : i \in DOMAIN s}
  <2> SUFFICES ASSUME s # << >> PROVE 1 \in DOMAIN s
    OBVIOUS
  <2>1. n \in Nat
    BY <1>3 DEF n
  <2>2. n # 0
    BY <1>6
  <2> QED
    BY <1>6, <2>1, <2>2
<1> QED
  BY <1>6, <1>7 DEF s, Ordered, Store!Ascending, Store!ToSet

Named(c) ==
  request[c].pc = "send" /\ request'[c].pc = "done" /\ request'[c].answer.status = "ok"
    /\ request[c].op \in {"upload", "complete"}
  => /\ bucketed'[request[c].read.bucket] # {}
     /\ request'[c].answer.bucket = request[c].read.bucket
     /\ request'[c].answer.fullUrl = Store!BuildObjectUrl(Store!Context(request[c].read))
PlacesNamed == \A c \in Proc : Named(c)

(* The stores a project starts with are configurations.                    *)
LEMMA DeployedIsConfig ==
  ASSUME FilesAssumption
  PROVE  Store!Deployed \subseteq Store!Config
<1>1. (CHOOSE b \in Bucket : TRUE) \in Bucket
  BY DEF FilesAssumption
<1> QED
  BY <1>1 DEF Store!Deployed, Store!Config

(* It holds when no call was made yet.                                     *)
LEMMA StoreStarts ==
  ASSUME FilesAssumption, Store!OsInit
  PROVE  StoreInv
<1>1. Store!OsTypeOK
  <2>1. 0 \in 0..MaxEdits /\ 0 \in 0..1
    BY DEF FilesAssumption
  <2> QED
    BY <2>1, DeployedIsConfig DEF Store!OsInit, Store!OsTypeOK, Store!Idle
<1>2. RequestHolds(Store!Idle)
  BY DEF RequestHolds, IsRequest, Store!Idle
<1> QED
  BY <1>1, <1>2 DEF StoreInv, Store!OsInit

(* The row changes, and no call does. *)
LEMMA ConfigChanges ==
  ASSUME FilesAssumption, StoreInv,
         Store!UpdateConfig \/ Store!CreateConfig \/ Store!DeleteConfig
  PROVE  StoreInv' /\ PlacesNamed
<1>1. /\ UNCHANGED <<clientCache, request, bucketed, multipart, openings>>
      /\ edits < MaxEdits /\ edits' = edits + 1
  BY DEF Store!UpdateConfig, Store!CreateConfig, Store!DeleteConfig, Store!osStore
<1>2. config' \in Store!Config \cup {None}
  BY DeployedIsConfig DEF Store!UpdateConfig, Store!CreateConfig, Store!DeleteConfig
<1>3. edits' \in 0..MaxEdits
  BY <1>1 DEF StoreInv, Store!OsTypeOK, FilesAssumption
<1> QED
  BY <1>1, <1>2, <1>3 DEF StoreInv, Store!OsTypeOK, PlacesNamed, Named

(* A step of a call that leaves the store as it is and names no place.       *)
LEMMA CallGoes ==
  ASSUME StoreInv, NEW c \in Proc, NEW r, RequestBecomes(c, r),
         UNCHANGED <<config, bucketed, multipart, openings, edits>>,
         clientCache' # None => clientCache'.context = Store!Context(clientCache'.fingerprint),
         \/ request[c].pc # "send" \/ r.pc # "done" \/ r.answer.status # "ok"
         \/ request[c].op \notin {"upload", "complete"}
  PROVE  StoreInv' /\ PlacesNamed
<1>1. StoreInv'
  <2>1. request' = [d \in Proc |-> request'[d]] /\ \A d \in Proc : RequestHolds(request'[d])
    BY RequestsHold
  <2>2. Store!OsTypeOK'
    BY <2>1 DEF StoreInv, Store!OsTypeOK, RequestHolds
  <2> QED
    BY <2>1, <2>2 DEF StoreInv
<1>2. ASSUME NEW d \in Proc PROVE Named(d)
  <2>1. CASE d = c
    BY <2>1, RequestsHold DEF Named
  <2>2. CASE d # c
    BY <2>2, RequestsHold DEF Named
  <2> QED
    BY <2>1, <2>2
<1> QED
  BY <1>1, <1>2 DEF PlacesNamed

(* A call begins.                                                          *)
LEMMA StartGoes ==
  ASSUME StoreInv, NEW c \in Proc, NEW o, NEW id, NEW parts, NEW t \in {0, 60},
         o = "complete" => parts \in Store!PartList,
         Store!Start(c, o, id, parts, t)
  PROVE  StoreInv' /\ PlacesNamed
<1> DEFINE r == [Store!Idle EXCEPT !.op = o, !.pc = "read", !.uploadId = id,
                                   !.parts = parts, !.expiresIn = t]
<1>1. request' = [request EXCEPT ![c] = r] /\ request[c].pc = "idle"
  BY DEF Store!Start
<1>2. /\ IsRequest(r) /\ r.op = o /\ r.pc = "read" /\ r.parts = parts
      /\ r.expiresIn = t /\ r.answer = None
  BY DEF Store!Idle, IsRequest
<1> HIDE DEF r
<1>3. RequestBecomes(c, r)
  BY <1>1, <1>2 DEF RequestBecomes, RequestHolds
<1>4. UNCHANGED <<config, clientCache, bucketed, multipart, openings, edits>>
  BY DEF Store!Start, Store!osStore
<1> QED
  BY <1>1, <1>3, <1>4, CallGoes DEF StoreInv

(* The row is read and the context taken; a refusal answers no place.        *)
LEMMA FindGoes ==
  ASSUME StoreInv, NEW c \in Proc, Store!FindByCode(c)
  PROVE  StoreInv' /\ PlacesNamed
<1>1. UNCHANGED <<config, clientCache, bucketed, multipart, openings, edits>>
  BY DEF Store!FindByCode, Store!osStore
<1>2. request[c].pc = "read"
  BY DEF Store!FindByCode
<1>3. CASE config = None
  <2>1. Store!Answer(c, Store!Refused) /\ Fits(request[c].op, Store!Refused)
    BY <1>3 DEF Store!FindByCode, Store!Refused, Fits
  <2> QED
    BY <1>1, <1>2, <2>1, AnswerBecomes, CallGoes DEF StoreInv
<1>4. CASE config # None
  <2> DEFINE r == [[request[c] EXCEPT !.pc = "have"] EXCEPT !.read = config]
  <2>1. config \in Store!Config
    BY <1>4 DEF StoreInv, Store!OsTypeOK
  <2>2. request' = [request EXCEPT ![c] = r]
    BY <1>4 DEF Store!FindByCode, StoreInv
  <2>3. RequestHolds(r) /\ r.pc = "have"
    BY <1>2, <2>1, NextStage
  <2> HIDE DEF r
  <2> QED
    BY <1>1, <1>2, <2>2, <2>3, CallGoes DEF StoreInv, RequestBecomes
<1> QED
  BY <1>3, <1>4

(* The context is the cached one of the same row, or a new one.            *)
LEMMA ContextGoes ==
  ASSUME StoreInv, NEW c \in Proc, Store!GetClientContext(c)
  PROVE  StoreInv' /\ PlacesNamed
<1> DEFINE f == request[c].read
           hit == clientCache # None /\ clientCache.fingerprint = Store!Fingerprint(f)
           x == IF hit THEN clientCache.context ELSE Store!Context(f)
<1>1. UNCHANGED <<config, bucketed, multipart, openings, edits>>
  BY DEF Store!GetClientContext, Store!osStore
<1>2. request[c].pc = "have"
  BY DEF Store!GetClientContext
<1>3. x = Store!Context(f)
  BY DEF StoreInv, Store!Fingerprint
<1>4. CASE Store!Answer(c, Store!Refused) /\ UNCHANGED clientCache
  <2>1. Fits(request[c].op, Store!Refused)
    BY DEF Store!Refused, Fits
  <2> QED
    BY <1>1, <1>2, <1>4, <2>1, AnswerBecomes, CallGoes DEF StoreInv
<1>5. CASE /\ request' = [request EXCEPT ![c].pc = "send", ![c].context = x]
           /\ clientCache' = [fingerprint |-> Store!Fingerprint(f), context |-> x]
  <2> DEFINE r == [[request[c] EXCEPT !.pc = "send"] EXCEPT !.context = Store!Context(f)]
  <2>1. request' = [request EXCEPT ![c] = r]
    BY <1>3, <1>5 DEF StoreInv
  <2>2. RequestHolds(r) /\ r.pc = "send"
    BY <1>2, NextStage
  <2>3. clientCache'.context = Store!Context(clientCache'.fingerprint)
    BY <1>3, <1>5 DEF Store!Fingerprint
  <2> HIDE DEF r, x
  <2> QED
    BY <1>1, <1>2, <2>1, <2>2, <2>3, CallGoes DEF RequestBecomes
<1> QED
  BY <1>4, <1>5 DEF Store!GetClientContext

RowStays == UNCHANGED <<config, clientCache, edits>>

(* What a sending call knows: the context of a configuration.               *)
LEMMA SendKnows ==
  ASSUME StoreInv, NEW c \in Proc, request[c].pc = "send"
  PROVE  /\ Store!Ctx(c).bucket \in Bucket
         /\ Store!Ctx(c).signingClient = "endpoint"
         /\ Store!Ctx(c).accessClient \in {"domain", None}
         /\ Store!Ctx(c).signingExpiresIn \in {0, 600}
         /\ request[c].expiresIn \in {0, 60}
<1>1. /\ request[c].read \in Store!Config /\ request[c].expiresIn \in {0, 60}
      /\ request[c].context = Store!Context(request[c].read)
  BY DEF StoreInv, RequestHolds
<1> QED
  BY <1>1, Contexts DEF Store!Ctx

(* An answer that leaves the store alone and names no place.                 *)
LEMMA AnswerGoes ==
  ASSUME StoreInv, NEW c \in Proc, NEW a, Store!Answer(c, a), Fits(request[c].op, a),
         RowStays, Store!OsTypeOK', UNCHANGED bucketed,
         a.status # "ok" \/ request[c].op \notin {"upload", "complete"}
  PROVE  StoreInv' /\ PlacesNamed
<1>1. PICK r : RequestBecomes(c, r) /\ r.op = request[c].op /\ r.pc = "done" /\ r.answer = a
  BY AnswerBecomes
<1>2. /\ request' = [d \in Proc |-> request'[d]] /\ \A d \in Proc : RequestHolds(request'[d])
      /\ request'[c] = r /\ \A d \in Proc : d # c => request'[d] = request[d]
  BY <1>1, RequestsHold
<1>3. StoreInv'
  BY <1>2 DEF StoreInv, RowStays
<1>4. ASSUME NEW d \in Proc PROVE Named(d)
  <2>1. CASE d = c
    BY <1>1, <1>2, <2>1 DEF Named
  <2>2. CASE d # c
    BY <1>2, <2>2 DEF Named
  <2> QED
    BY <2>1, <2>2
<1> QED
  BY <1>3, <1>4 DEF PlacesNamed

(* An answer that names the place of what it stored.                         *)
LEMMA StoredGoes ==
  ASSUME StoreInv, NEW c \in Proc, NEW a, Store!Answer(c, a), Fits(request[c].op, a),
         RowStays, Store!OsTypeOK',
         bucketed'[request[c].read.bucket] # {}, a.bucket = request[c].read.bucket,
         a.fullUrl = Store!BuildObjectUrl(Store!Context(request[c].read))
  PROVE  StoreInv' /\ PlacesNamed
<1>1. PICK r : RequestBecomes(c, r) /\ r.op = request[c].op /\ r.pc = "done" /\ r.answer = a
  BY AnswerBecomes
<1>2. /\ request' = [d \in Proc |-> request'[d]] /\ \A d \in Proc : RequestHolds(request'[d])
      /\ request'[c] = r /\ \A d \in Proc : d # c => request'[d] = request[d]
  BY <1>1, RequestsHold
<1>3. StoreInv'
  BY <1>2 DEF StoreInv, RowStays
<1>4. ASSUME NEW d \in Proc PROVE Named(d)
  <2>1. CASE d = c
    BY <1>1, <1>2, <2>1 DEF Named
  <2>2. CASE d # c
    BY <1>2, <2>2 DEF Named
  <2> QED
    BY <2>1, <2>2
<1> QED
  BY <1>3, <1>4 DEF PlacesNamed

(* The stages of a call stay known while its answer is given.               *)
LEMMA StagesKept ==
  ASSUME StoreInv, NEW c \in Proc, NEW a, Store!Answer(c, a)
  PROVE  \A d \in Proc : request'[d].pc \in {"idle", "read", "have", "send", "done"}
<1> DEFINE r == [Store!Idle EXCEPT !.op = request[c].op, !.pc = "done", !.answer = a]
<1>1. r.pc = "done" /\ request' = [request EXCEPT ![c] = r]
  BY DEF Store!Answer, Store!Idle
<1> HIDE DEF r
<1> QED
  BY <1>1 DEF StoreInv, Store!OsTypeOK

(* The store itself is not touched.                                        *)
LEMMA StoreStays ==
  ASSUME StoreInv, NEW c \in Proc, NEW a, Store!Answer(c, a), RowStays,
         UNCHANGED <<bucketed, multipart, openings>>
  PROVE  Store!OsTypeOK'
BY StagesKept DEF StoreInv, Store!OsTypeOK, RowStays

(* Calls that read, or fail.                                               *)
LEMMA ReadsGo ==
  ASSUME StoreInv, NEW c \in Proc,
         \/ Store!SendFails(c) \/ Store!DownloadObject(c) \/ Store!GetObjectMetadata(c)
         \/ Store!ListObjects(c) \/ Store!ListUploadParts(c) \/ Store!SetObjectAcl(c)
  PROVE  StoreInv' /\ PlacesNamed
<1>1. RowStays /\ UNCHANGED <<bucketed, multipart, openings>>
  BY DEF Store!SendFails, Store!DownloadObject, Store!GetObjectMetadata, Store!ListObjects,
         Store!ListUploadParts, Store!SetObjectAcl, Store!osRest, Store!osStore, RowStays
<1>2. \E a : Store!Answer(c, a) /\ Fits(request[c].op, a)
             /\ (a.status # "ok" \/ request[c].op \notin {"upload", "complete"})
  <2>1. CASE Store!SendFails(c)
    BY <2>1 DEF Store!SendFails, Fits
  <2>2. CASE Store!DownloadObject(c)
    BY <2>2 DEF Store!DownloadObject, Store!Sends, Fits
  <2>3. CASE Store!GetObjectMetadata(c)
    <3> DEFINE x == Store!BuildObjectUrl(Store!Ctx(c))
    <3>1. x.host # "internal"
      BY DEF Store!BuildObjectUrl
    <3> HIDE DEF x
    <3>2. CASE Store!Answer(c, [status |-> "failed"])
      BY <2>3, <3>2 DEF Store!GetObjectMetadata, Store!Sends, Fits
    <3>3. CASE Store!Answer(c, [status |-> "ok", bucket |-> Store!Ctx(c).bucket, fullUrl |-> x])
      BY <2>3, <3>1, <3>3 DEF Store!GetObjectMetadata, Store!Sends, Fits
    <3> QED
      BY <2>3, <3>2, <3>3 DEF Store!GetObjectMetadata, x
  <2>4. CASE Store!ListObjects(c)
    BY <2>4 DEF Store!ListObjects, Store!Sends, Fits
  <2>5. CASE Store!ListUploadParts(c)
    BY <2>5 DEF Store!ListUploadParts, Store!Sends, Fits
  <2>6. CASE Store!SetObjectAcl(c)
    BY <2>6 DEF Store!SetObjectAcl, Store!Sends, Fits
  <2> QED
    BY <2>1, <2>2, <2>3, <2>4, <2>5, <2>6
<1> QED
  BY <1>1, <1>2, StoreStays, AnswerGoes

(* Calls that sign: no address is internal, and every signature lives.     *)
LEMMA SignaturesGo ==
  ASSUME StoreInv, NEW c \in Proc,
         \/ Store!SignObject(c) \/ Store!GeneratePresignedPutUrl(c)
         \/ Store!GeneratePresignedGetUrl(c) \/ Store!GeneratePresignedUploadPartUrl(c)
  PROVE  StoreInv' /\ PlacesNamed
<1>1. RowStays /\ UNCHANGED <<bucketed, multipart, openings>>
  BY DEF Store!SignObject, Store!GeneratePresignedPutUrl, Store!GeneratePresignedGetUrl,
         Store!GeneratePresignedUploadPartUrl, Store!osRest, Store!osStore, RowStays
<1>2. request[c].pc = "send" /\ request[c].op \in {"sign", "signPut", "signGet", "signPart"}
  BY DEF Store!SignObject, Store!GeneratePresignedPutUrl, Store!GeneratePresignedGetUrl,
         Store!GeneratePresignedUploadPartUrl, Store!Sends
<1>3. PICK h \in {"endpoint", "domain"} : Store!Answer(c, Store!Signed(c, h))
  <2>1. CASE Store!GeneratePresignedGetUrl(c)
    BY <1>2, <2>1, SendKnows DEF Store!GeneratePresignedGetUrl
  <2>2. CASE ~Store!GeneratePresignedGetUrl(c)
    BY <1>2, <2>2, SendKnows DEF Store!SignObject, Store!GeneratePresignedPutUrl,
         Store!GeneratePresignedUploadPartUrl
  <2> QED
    BY <2>1, <2>2
<1>4. Store!ResolveExpiresIn(request[c].expiresIn, Store!Ctx(c).signingExpiresIn) > 0
  BY <1>2, SendKnows DEF Store!ResolveExpiresIn
<1>5. Fits(request[c].op, Store!Signed(c, h))
  BY <1>2, <1>4 DEF Fits, Store!Signed
<1> QED
  BY <1>1, <1>2, <1>3, <1>5, StoreStays, AnswerGoes

(* An upload of the store has an identifier and parts.                       *)
UploadOk(u, k) == u # None => u.id \in 1..k /\ u.parts \subseteq PartNumber

(* The store after a change of its object or of its upload.                *)
LEMMA StoreTypes ==
  ASSUME StoreInv, NEW c \in Proc, NEW a, Store!Answer(c, a), RowStays,
         bucketed' \in [Bucket -> SUBSET (PartNumber \cup {0})],
         \A b \in Bucket : UploadOk(multipart'[b], openings'), openings' \in 0..1
  PROVE  Store!OsTypeOK'
BY StagesKept DEF StoreInv, Store!OsTypeOK, RowStays, UploadOk

(* Calls that store, delete, and complete an object.                       *)
LEMMA ReadIsKnown ==
  ASSUME StoreInv, NEW c \in Proc, request[c].pc = "send"
  PROVE  /\ Store!Ctx(c) = Store!Context(request[c].read)
         /\ Store!Ctx(c).bucket = request[c].read.bucket
BY DEF StoreInv, RequestHolds, Store!Ctx, Store!Context

LEMMA UploadGoes ==
  ASSUME StoreInv, NEW c \in Proc, Store!UploadObject(c)
  PROVE  StoreInv' /\ PlacesNamed
<1> DEFINE b == Store!Ctx(c).bucket
           x == Store!BuildObjectUrl(Store!Ctx(c))
           a == [status |-> "ok", bucket |-> b, fullUrl |-> x]
<1>1. /\ RowStays /\ UNCHANGED <<multipart, openings>> /\ Store!Answer(c, a)
      /\ bucketed' = [bucketed EXCEPT ![b] = {0}] /\ request[c].op = "upload"
      /\ request[c].pc = "send"
  BY DEF Store!UploadObject, Store!osRest, RowStays, Store!Sends
<1>2. b \in Bucket
  BY <1>1, SendKnows
<1>3. x.host # "internal"
  BY DEF Store!BuildObjectUrl
<1> HIDE DEF x, b
<1>4. bucketed' \in [Bucket -> SUBSET (PartNumber \cup {0})] /\ bucketed'[b] # {}
  BY <1>1, <1>2 DEF StoreInv, Store!OsTypeOK
<1>5. Store!OsTypeOK'
  BY <1>1, <1>4, StoreTypes DEF StoreInv, Store!OsTypeOK, UploadOk
<1>6. Fits(request[c].op, a)
  BY <1>1, <1>3 DEF Fits
<1>7. /\ b = request[c].read.bucket
      /\ a.fullUrl = Store!BuildObjectUrl(Store!Context(request[c].read))
  BY <1>1, ReadIsKnown DEF b, x
<1>8. a.bucket = b
  OBVIOUS
<1> HIDE DEF a
<1> QED
  BY <1>1, <1>4, <1>5, <1>6, <1>7, <1>8, StoredGoes

LEMMA DeleteGoes ==
  ASSUME StoreInv, NEW c \in Proc, Store!DeleteObject(c)
  PROVE  StoreInv' /\ PlacesNamed
<1> DEFINE b == Store!Ctx(c).bucket
           a == [status |-> "ok", bucket |-> b]
<1>1. /\ RowStays /\ UNCHANGED <<multipart, openings>> /\ Store!Answer(c, a)
      /\ bucketed' = [bucketed EXCEPT ![b] = {}] /\ request[c].op = "delete"
      /\ request[c].pc = "send"
  BY DEF Store!DeleteObject, Store!osRest, RowStays, Store!Sends
<1>2. bucketed' \in [Bucket -> SUBSET (PartNumber \cup {0})]
  BY <1>1 DEF StoreInv, Store!OsTypeOK
<1>3. Store!OsTypeOK'
  BY <1>1, <1>2, StoreTypes DEF StoreInv, Store!OsTypeOK, UploadOk
<1>4. Fits(request[c].op, a)
  BY <1>1 DEF Fits
<1> HIDE DEF a
<1>5. \A d \in Proc : RequestHolds(request'[d])
  <2>1. PICK r : RequestBecomes(c, r)
    BY <1>1, <1>4, AnswerBecomes
  <2> QED
    BY <2>1, RequestsHold
<1>6. PICK r : RequestBecomes(c, r) /\ r.op = "delete"
  BY <1>1, <1>4, AnswerBecomes
<1>7. request' = [d \in Proc |-> request'[d]] /\ \A d \in Proc : d # c => request'[d] = request[d]
  BY <1>6, RequestsHold
<1> QED
  BY <1>1, <1>3, <1>5, <1>7 DEF StoreInv, RowStays, PlacesNamed, Named

(* What concerns the multipart upload only.                                  *)
LEMMA MultipartGoes ==
  ASSUME StoreInv, NEW c \in Proc, NEW n,
         \/ Store!InitMultipartUpload(c) \/ (n \in PartNumber /\ Store!UploadPart(c, n))
         \/ Store!AbortMultipartUpload(c)
  PROVE  StoreInv' /\ PlacesNamed
<1> DEFINE b == Store!Ctx(c).bucket
<1>1. RowStays /\ UNCHANGED bucketed /\ request[c].pc = "send"
      /\ request[c].op \in {"init", "part", "abort"}
  BY DEF Store!InitMultipartUpload, Store!UploadPart, Store!AbortMultipartUpload,
         Store!Sends, Store!osRest, RowStays
<1>2. b \in Bucket
  BY <1>1, SendKnows
<1>3. /\ bucketed \in [Bucket -> SUBSET (PartNumber \cup {0})] /\ openings \in 0..1
      /\ \A d \in Bucket : UploadOk(multipart[d], openings)
  BY DEF StoreInv, Store!OsTypeOK, UploadOk
<1>4. CASE Store!InitMultipartUpload(c)
  <2>1. openings' \in 0..1 /\ openings' = openings + 1 /\ openings' \in 1..openings'
    BY <1>3, <1>4 DEF Store!InitMultipartUpload
  <2>2. \A d \in Bucket : UploadOk(multipart'[d], openings')
    <3> SUFFICES ASSUME NEW d \in Bucket PROVE UploadOk(multipart'[d], openings')
      OBVIOUS
    <3>1. CASE multipart'[d] = multipart[d]
      BY <1>3, <2>1, <3>1 DEF UploadOk
    <3>2. CASE multipart'[d] = [id |-> openings + 1, parts |-> {}]
      BY <2>1, <3>2 DEF UploadOk
    <3> QED
      BY <1>4, <3>1, <3>2 DEF Store!InitMultipartUpload
  <2> QED
    BY <1>1, <1>3, <1>4, <2>1, <2>2, StoreTypes, AnswerGoes DEF Store!InitMultipartUpload, Fits
<1>5. CASE n \in PartNumber /\ Store!UploadPart(c, n)
  <2>1. /\ multipart' = [multipart EXCEPT ![b].parts = @ \cup {n}] /\ multipart[b] # None
        /\ UNCHANGED openings
    BY <1>5 DEF Store!UploadPart, Store!HasUpload
  <2>2. n \in PartNumber
    BY <1>5
  <2>3. \A d \in Bucket : UploadOk(multipart'[d], openings')
    BY <1>2, <1>3, <2>1, <2>2 DEF UploadOk
  <2> QED
    BY <1>1, <1>3, <1>5, <2>1, <2>3, StoreTypes, AnswerGoes DEF Store!UploadPart, Fits
<1>6. CASE Store!AbortMultipartUpload(c)
  <2>1. multipart' = [multipart EXCEPT ![b] = None] /\ UNCHANGED openings
    BY <1>6 DEF Store!AbortMultipartUpload
  <2>2. \A d \in Bucket : UploadOk(multipart'[d], openings')
    BY <1>2, <1>3, <2>1 DEF UploadOk
  <2> QED
    BY <1>1, <1>3, <1>6, <2>1, <2>2, StoreTypes, AnswerGoes DEF Store!AbortMultipartUpload, Fits
<1> QED
  BY <1>4, <1>5, <1>6

LEMMA CompleteGoes ==
  ASSUME FilesAssumption, StoreInv, NEW c \in Proc, Store!CompleteMultipartUpload(c)
  PROVE  StoreInv' /\ PlacesNamed
<1> DEFINE s == Store!NormalizedParts(request[c].parts)
           b == Store!Ctx(c).bucket
           x == Store!BuildObjectUrl(Store!Ctx(c))
           ok == [status |-> "ok", bucket |-> b, fullUrl |-> x]
           miss == ~Store!HasUpload(c) \/ ~(Store!ToSet(s) \subseteq multipart[b].parts)
           no == [status |-> "failed", missing |-> miss]
<1>1. RowStays /\ request[c].pc = "send" /\ request[c].op = "complete" /\ UNCHANGED openings
  BY DEF Store!CompleteMultipartUpload, Store!Sends, Store!osRest, RowStays
<1>2. b \in Bucket
  BY <1>1, SendKnows
<1>3. x.host # "internal"
  BY DEF Store!BuildObjectUrl
<1>4. request[c].parts \in Store!PartList
  BY <1>1 DEF StoreInv, RequestHolds
<1>5. Store!Ascending(s) /\ (s # << >> => Store!ToSet(s) # {})
  BY <1>4, PartsAreOrdered
<1>6. /\ bucketed \in [Bucket -> SUBSET (PartNumber \cup {0})] /\ openings \in 0..1
      /\ \A d \in Bucket : UploadOk(multipart[d], openings)
  BY DEF StoreInv, Store!OsTypeOK, UploadOk
<1>7. \/ Store!Answer(c, Store!Refused) /\ UNCHANGED <<bucketed, multipart>>
      \/ Store!Answer(c, no) /\ UNCHANGED <<bucketed, multipart>> /\ miss = TRUE
      \/ /\ Store!Answer(c, ok) /\ s # << >> /\ Store!HasUpload(c)
         /\ Store!ToSet(s) \subseteq multipart[b].parts
         /\ bucketed' = [bucketed EXCEPT ![b] = Store!ToSet(s)]
         /\ multipart' = [multipart EXCEPT ![b] = None]
  BY <1>5 DEF Store!CompleteMultipartUpload
<1>8. CASE Store!Answer(c, Store!Refused) /\ UNCHANGED <<bucketed, multipart>>
  BY <1>1, <1>8, StoreStays, AnswerGoes DEF Store!Refused, Fits
<1>9. CASE Store!Answer(c, no) /\ UNCHANGED <<bucketed, multipart>> /\ miss = TRUE
  <2>1. Fits(request[c].op, no) /\ no.status = "failed"
    BY <1>9 DEF Fits
  <2> HIDE DEF no
  <2> QED
    BY <1>1, <1>9, <2>1, StoreStays, AnswerGoes
<1>10. CASE /\ Store!Answer(c, ok) /\ s # << >> /\ Store!HasUpload(c)
            /\ Store!ToSet(s) \subseteq multipart[b].parts
            /\ bucketed' = [bucketed EXCEPT ![b] = Store!ToSet(s)]
            /\ multipart' = [multipart EXCEPT ![b] = None]
  <2> DEFINE S == Store!ToSet(s)
  <2> HIDE DEF s, x, b, S
  <2>1. S \subseteq PartNumber /\ S # {}
    BY <1>2, <1>5, <1>6, <1>10 DEF UploadOk, Store!HasUpload, S, b
  <2>2. bucketed' \in [Bucket -> SUBSET (PartNumber \cup {0})] /\ bucketed'[b] # {}
    BY <1>2, <1>6, <1>10, <2>1 DEF S
  <2>3. \A d \in Bucket : UploadOk(multipart'[d], openings')
    BY <1>1, <1>2, <1>6, <1>10 DEF UploadOk
  <2>4. Store!OsTypeOK'
    BY <1>1, <1>6, <1>10, <2>2, <2>3, StoreTypes
  <2>5. Fits(request[c].op, ok)
    BY <1>1, <1>3 DEF Fits
  <2>6. /\ b = request[c].read.bucket
        /\ ok.fullUrl = Store!BuildObjectUrl(Store!Context(request[c].read))
    BY <1>1, ReadIsKnown DEF b, x
  <2>7. ok.bucket = b
    OBVIOUS
  <2> HIDE DEF ok
  <2> QED
    BY <1>1, <1>10, <2>2, <2>4, <2>5, <2>6, <2>7, StoredGoes
<1> QED
  BY <1>7, <1>8, <1>9, <1>10

(* The answer is taken.                                                    *)
LEMMA ReturnGoes ==
  ASSUME StoreInv, NEW c \in Proc, Store!Return(c)
  PROVE  StoreInv' /\ PlacesNamed
<1>1. /\ request' = [request EXCEPT ![c] = Store!Idle] /\ request[c].pc = "done"
      /\ UNCHANGED <<config, clientCache, bucketed, multipart, openings, edits>>
  BY DEF Store!Return, Store!osRest, Store!osStore
<1>2. RequestHolds(Store!Idle)
  BY DEF RequestHolds, IsRequest, Store!Idle
<1> QED
  BY <1>1, <1>2, CallGoes DEF RequestBecomes, StoreInv

(* No step of the object store breaks what holds of its calls.               *)
LEMMA StoreSteps ==
  ASSUME FilesAssumption, StoreInv, [Store!OsNext]_(Store!osVars)
  PROVE  StoreInv' /\ PlacesNamed
<1>1. CASE UNCHANGED Store!osVars
  BY <1>1 DEF StoreInv, Store!OsTypeOK, Store!osVars, PlacesNamed, Named
<1>2. CASE Store!UpdateConfig \/ Store!CreateConfig \/ Store!DeleteConfig
  BY <1>2, ConfigChanges
<1>3. ASSUME NEW c \in Proc, NEW o, NEW id, NEW s, NEW t \in {0, 60},
             o = "complete" => s \in Store!PartList, Store!Start(c, o, id, s, t)
      PROVE  StoreInv' /\ PlacesNamed
  BY <1>3, StartGoes
<1>4. ASSUME NEW c \in Proc, Store!FindByCode(c) \/ Store!GetClientContext(c) \/ Store!Return(c)
      PROVE  StoreInv' /\ PlacesNamed
  BY <1>4, FindGoes, ContextGoes, ReturnGoes
<1>5. ASSUME NEW c \in Proc,
             \/ Store!SendFails(c) \/ Store!DownloadObject(c) \/ Store!GetObjectMetadata(c)
             \/ Store!ListObjects(c) \/ Store!ListUploadParts(c) \/ Store!SetObjectAcl(c)
      PROVE  StoreInv' /\ PlacesNamed
  BY <1>5, ReadsGo
<1>6. ASSUME NEW c \in Proc,
             \/ Store!SignObject(c) \/ Store!GeneratePresignedPutUrl(c)
             \/ Store!GeneratePresignedGetUrl(c) \/ Store!GeneratePresignedUploadPartUrl(c)
      PROVE  StoreInv' /\ PlacesNamed
  BY <1>6, SignaturesGo
<1>7. ASSUME NEW c \in Proc, Store!UploadObject(c) \/ Store!DeleteObject(c)
                             \/ Store!CompleteMultipartUpload(c)
      PROVE  StoreInv' /\ PlacesNamed
  BY <1>7, UploadGoes, DeleteGoes, CompleteGoes
<1>8. ASSUME NEW c \in Proc, Store!InitMultipartUpload(c) \/ Store!AbortMultipartUpload(c)
      PROVE  StoreInv' /\ PlacesNamed
  BY <1>8, MultipartGoes
<1>9. ASSUME NEW c \in Proc, NEW n \in PartNumber, Store!UploadPart(c, n)
      PROVE  StoreInv' /\ PlacesNamed
  BY <1>9, MultipartGoes
<1> QED
  BY <1>1, <1>2, <1>3, <1>4, <1>5, <1>6, <1>7, <1>8, <1>9 DEF Store!OsNext

(* Whatever the configuration becomes while calls are on their way, a call   *)
(* connects as the row it has read says, addresses and signatures lead to a  *)
(* public host, parts are completed in order, and the answer of a call that  *)
(* stored an object names where it is.                                       *)
THEOREM CallsFollowConfig == UploadsSpec => StoreFollowsConfig
<1>1. UploadsInit => StoreInv
  BY FilesAssumption, StoreStarts DEF UploadsInit
<1>2. StoreInv /\ [UploadsNext]_allVars => StoreInv' /\ [PlacesNamed]_(Store!osVars)
  <2>1. [UploadsNext]_allVars => [Store!OsNext]_(Store!osVars)
    BY DEF UploadsNext, allVars, storeVars, Store!osVars
  <2> QED
    BY <2>1, FilesAssumption, StoreSteps
<1>3. StoreInv => Store!OsTypeOK /\ Store!ContextIsOfReadConfig /\ Store!UrlsArePublic
                  /\ Store!PartsInOrder
  BY DEF StoreInv, RequestHolds, Fits, Store!ContextIsOfReadConfig, Store!UrlsArePublic,
         Store!PartsInOrder
<1>4. Store!AnswerNamesPlace <=> [][PlacesNamed]_(Store!osVars)
  BY PTL DEF Store!AnswerNamesPlace, PlacesNamed, Named
<1> QED
  BY <1>1, <1>2, <1>3, <1>4, PTL DEF UploadsSpec, StoreFollowsConfig
-----------------------------------------------------------------------------
(* A behaviour about one kind of upload is one of every component: the       *)
(* others stand still.                                                       *)
THEOREM UploadsRefineEach == UploadsSpec => Spec /\ Records!FrSpec /\ Store!OsSpec
<1>1. UploadsInit => Init /\ Records!FrInit /\ Store!OsInit
  BY DEF UploadsInit
<1>2. [UploadsNext]_allVars => /\ [Next]_vars /\ [Records!FrNext]_(Records!frVars)
                               /\ [Store!OsNext]_(Store!osVars)
  BY DEF UploadsNext, allVars, recordVars, Records!frVars, storeVars, Store!osVars
<1> QED
  BY <1>1, <1>2, PTL DEF UploadsSpec, Spec, Records!FrSpec, Store!OsSpec

(* The copy of a file's row is the row, whatever operations on other files   *)
(* run, unless operations on the file overlapped or one failed.              *)
THEOREM CopiesFollow == UploadsSpec => []CopiesFollowRows
<1>1. Records!FrTypeOK /\ Records!CopyIsRow => CopiesFollowRows
  BY DEF CopiesFollowRows
<1> QED
  BY <1>1, UploadsRefineEach, CopiesAreRows, PTL

(* Calls on an S3 task that do not overlap keep one task per file, which can *)
(* be resumed, and forget no upload.                                         *)
THEOREM UploadsAreSerial == UploadsSpec => []SerialUploads
<1>1. ResumableAlone /\ NoOrphansAlone /\ OneTaskAlone => SerialUploads
  BY DEF SerialUploads
<1> QED
  BY <1>1, UploadsRefineEach, SerialCallsKeepUploads, PTL

(* A completed row of an S3 task or of a local upload stays completed while  *)
(* calls do not overlap, and a stopped browser sends no part.                *)
THEOREM WhatEndedStaysEnded == UploadsSpec => EndedStaysEnded
<1>1. UploadsSpec => CompletedIsFinalAlone
  BY UploadsRefineEach, CompletedStaysCompleted
<1> QED
  BY <1>1, LocalRowsAreFinal, StoppedUploadsAreSilent DEF EndedStaysEnded
=============================================================================
