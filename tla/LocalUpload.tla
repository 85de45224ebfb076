---------------------------- MODULE LocalUpload ----------------------------
(* LocalMultipartUploadService: multipart uploads of one object into the    *)
(* server's own disk.  A step is one SQL statement or one call of the file  *)
(* system; a step of copying is one part.                                   *)
EXTENDS Naturals

CONSTANTS Client, Part, None,
  MaxTasks,     \* bound: sys_file rows of the object
  MaxUploads,   \* bound: upload ids drawn
  MaxFiles,     \* bound: files created to assemble parts in
  MayFail       \* a process may die, or a call fail, between two steps

VARIABLES
  task,         \* sys_file rows of the object, the newest last
  uploads,      \* how many upload ids were drawn
  dir,          \* the part files, by row and upload id
  written,      \* the calls whose part is there under a temporary name
  files,        \* how many files were created to assemble parts in
  data,         \* the parts each of them holds
  temp,         \* the one named <target>.<upload>.assembling, 0 for none
  target,       \* the one that has the object's name, 0 for none
  call,         \* the calls in progress
  accepted,     \* history: parts whose upload was answered
  lost,         \* history: accepted parts that a call has removed since
  mixed,        \* history: files that two completions had a hand in
  cut,          \* history: the object was removed, and nothing put in its place
  crossed,      \* history: two calls that write the row were in progress
  failed        \* a process died or a call failed; bound: one does

luVars == <<task, uploads, dir, written, files, data, temp, target, call,
            accepted, lost, mixed, cut, crossed, failed>>

Task == 1..MaxTasks
UploadId == 1..MaxUploads
Dir == Task \X UploadId
TaskRow == [upload : 0..MaxUploads, completed : BOOLEAN]
CallPc == {"idle", "find", "create", "save", "check", "move", "place", "recheck", "list",
           "open", "copy", "rename", "remove", "replace", "finish", "clear"}
CallRec == [pc : CallPc, op : {"none", "init", "part", "complete", "abort"},
            task : 0..MaxTasks, upload : 0..MaxUploads, part : Part \cup {None},
            file : 0..MaxFiles, left : SUBSET Part]

LuTypeOK ==
  /\ task \in [Task -> TaskRow \cup {None}]
  /\ uploads \in 0..MaxUploads /\ files \in 0..MaxFiles
  /\ dir \in [Dir -> SUBSET Part] /\ written \in SUBSET Client
  /\ data \in [1..MaxFiles -> SUBSET Part]
  /\ temp \in [UploadId -> 0..MaxFiles]
  /\ target \in 0..MaxFiles
  /\ call \in [Client -> CallRec]
  /\ accepted \in [Dir -> SUBSET Part] /\ lost \in [Dir -> SUBSET Part]
  /\ mixed \in SUBSET (1..MaxFiles)
  /\ cut \in BOOLEAN /\ crossed \in BOOLEAN /\ failed \in BOOLEAN

NoCall == [pc |-> "idle", op |-> "none", task |-> 0, upload |-> 0, part |-> None,
           file |-> 0, left |-> {}]

LuInit ==
  /\ task = [t \in Task |-> None]
  /\ uploads = 0 /\ files = 0
  /\ dir = [d \in Dir |-> {}] /\ written = {}
  /\ data = [f \in 1..MaxFiles |-> {}]
  /\ temp = [u \in UploadId |-> 0]
  /\ target = 0
  /\ call = [c \in Client |-> NoCall]
  /\ accepted = [d \in Dir |-> {}] /\ lost = [d \in Dir |-> {}]
  /\ mixed = {} /\ cut = FALSE /\ crossed = FALSE /\ failed = FALSE

rows == <<task, uploads>>
parts == <<dir, written, accepted, lost>>
objects == <<files, data, temp, target, mixed, cut>>

Step(c, pc) == call' = [call EXCEPT ![c].pc = pc]
Ends(c) == call' = [call EXCEPT ![c] = NoCall]
WritesRow(c) == call[c].op \in {"init", "complete", "abort"}
Active(t) == task[t] # None /\ task[t].upload # 0 /\ ~task[t].completed
Names(t, u) == task[t] # None /\ task[t].upload = u

-----------------------------------------------------------------------------
(* Calls: a client names the task an earlier init gave it.                  *)

Receive(c, r) ==
  /\ call[c].pc = "idle"
  /\ call' = [call EXCEPT ![c] = r]
  /\ crossed' = (crossed \/ (r.op # "part" /\ \E o \in Client \ {c} : WritesRow(o)))
  /\ UNCHANGED <<rows, parts, objects, failed>>

InitMultipart(c) == Receive(c, [NoCall EXCEPT !.pc = "find", !.op = "init"])

UploadPart(c, t, n) ==
  task[t] # None /\ Receive(c, [NoCall EXCEPT !.pc = "find", !.op = "part", !.task = t, !.part = n])

CompleteMultipart(c, t) ==
  task[t] # None /\ Receive(c, [NoCall EXCEPT !.pc = "find", !.op = "complete", !.task = t])

AbortMultipart(c, t) ==
  task[t] # None /\ Receive(c, [NoCall EXCEPT !.pc = "find", !.op = "abort", !.task = t])

(* The newest row of the object; 409 when it is completed.                  *)
FindLocalByObject(c) ==
  /\ call[c].pc = "find" /\ call[c].op = "init"
  /\ LET found == {t \in Task : task[t] # None} IN
     IF found = {} THEN Step(c, "create")
     ELSE LET t == CHOOSE s \in found : \A r \in found : r <= s IN
          IF task[t].completed THEN Ends(c)
          ELSE call' = [call EXCEPT ![c].pc = "save", ![c].task = t, ![c].upload = task[t].upload]
  /\ UNCHANGED <<rows, parts, objects, crossed, failed>>

CreateLocalUploadTask(c) ==
  /\ call[c].pc = "create"
  /\ uploads < MaxUploads
  /\ uploads' = uploads + 1
  /\ \E t \in Task :
       /\ task[t] = None /\ \A s \in 1..(t - 1) : task[s] # None
       /\ task' = [task EXCEPT ![t] = [upload |-> uploads + 1, completed |-> FALSE]]
  /\ Ends(c)
  /\ UNCHANGED <<parts, objects, crossed, failed>>

(* The whole entity found before is written back, whatever the row holds.   *)
SaveInit(c) ==
  /\ call[c].pc = "save" /\ call[c].op = "init"
  /\ IF call[c].upload # 0 THEN UNCHANGED uploads
     ELSE uploads < MaxUploads /\ uploads' = uploads + 1
  /\ task' = [task EXCEPT ![call[c].task] =
       [upload |-> IF call[c].upload # 0 THEN call[c].upload ELSE uploads', completed |-> FALSE]]
  /\ Ends(c)
  /\ UNCHANGED <<parts, objects, crossed, failed>>

GetActiveTask(c) ==
  /\ call[c].pc = "find" /\ call[c].op # "init"
  /\ LET t == call[c].task IN
     IF ~Active(t) THEN Ends(c)
     ELSE call' = [call EXCEPT ![c].upload = task[t].upload,
            ![c].pc = CASE call[c].op = "part" -> "check"
                        [] call[c].op = "complete" -> "list"
                        [] OTHER -> "save"]
  /\ UNCHANGED <<rows, parts, objects, crossed, failed>>

-----------------------------------------------------------------------------
(* A part: a temporary file, then its move, between two checks that the     *)
(* upload is still the task's; a failure removes the part file.  The move   *)
(* removes a part that is there, then renames: the part is gone in between. *)

StillActive(c) == Active(call[c].task) /\ Names(call[c].task, call[c].upload)
DirOf(c) == <<call[c].task, call[c].upload>>
TakePart(c) == dir' = [dir EXCEPT ![DirOf(c)] = @ \ {call[c].part}]
DropPart(c) ==
  /\ TakePart(c)
  /\ written' = written \ {c}
  /\ lost' = [lost EXCEPT ![DirOf(c)] = @ \cup ({call[c].part} \cap accepted[DirOf(c)])]
  /\ Ends(c)

CheckPart(c) ==
  /\ call[c].pc = "check"
  /\ \/ /\ StillActive(c) /\ Step(c, "move")
        /\ written' = written \cup {c}
        /\ UNCHANGED <<dir, lost>>
     \/ ~StillActive(c) /\ DropPart(c)
  /\ UNCHANGED <<rows, objects, accepted, crossed, failed>>

(* The move fails when a removal took the temporary file with its directory.*)
MovePart(c) ==
  /\ call[c].pc = "move"
  /\ \/ c \in written /\ TakePart(c) /\ Step(c, "place") /\ UNCHANGED <<written, lost>>
     \/ c \notin written /\ DropPart(c)
  /\ UNCHANGED <<rows, objects, accepted, crossed, failed>>

PlacePart(c) ==
  /\ call[c].pc = "place"
  /\ \/ /\ c \in written /\ Step(c, "recheck")
        /\ written' = written \ {c}
        /\ dir' = [dir EXCEPT ![DirOf(c)] = @ \cup {call[c].part}]
        /\ lost' = [lost EXCEPT ![DirOf(c)] = @ \ {call[c].part}]
     \/ c \notin written /\ DropPart(c)
  /\ UNCHANGED <<rows, objects, accepted, crossed, failed>>

(* The answer; what was removed meanwhile is noted as lost.                 *)
AnswerPart(c) ==
  /\ accepted' = [accepted EXCEPT ![DirOf(c)] = @ \cup ({call[c].part} \cap dir[DirOf(c)])]
  /\ Ends(c)
  /\ UNCHANGED <<dir, written, lost>>

RecheckPart(c) ==
  /\ call[c].pc = "recheck"
  /\ \/ StillActive(c) /\ AnswerPart(c)
     \/ ~StillActive(c) /\ DropPart(c) /\ UNCHANGED accepted
  /\ UNCHANGED <<rows, objects, crossed, failed>>

-----------------------------------------------------------------------------
(* Completion: the parts are copied in order into a file named after the    *)
(* upload, which then takes the object's name; the row follows.             *)

Merging(c) == call[c].pc \in {"copy", "rename", "remove", "replace"}

ListParts(c) ==
  /\ call[c].pc = "list"
  /\ IF dir[DirOf(c)] = Part THEN Step(c, "open") ELSE Ends(c)
  /\ UNCHANGED <<rows, parts, objects, crossed, failed>>

(* Opened for writing: the file of that name is truncated when there is one.*)
OpenAssembling(c) ==
  /\ call[c].pc = "open"
  /\ LET u == call[c].upload
         f == IF temp[u] # 0 THEN temp[u] ELSE files + 1 IN
     /\ f <= MaxFiles
     /\ files' = IF f > files THEN f ELSE files
     /\ data' = [data EXCEPT ![f] = {}]
     /\ temp' = [temp EXCEPT ![u] = f]
     /\ call' = [call EXCEPT ![c].pc = "copy", ![c].file = f, ![c].left = Part]
     /\ mixed' = IF \E o \in Client \ {c} : Merging(o) /\ call[o].file = f
                 THEN mixed \cup {f} ELSE mixed
  /\ UNCHANGED <<rows, parts, target, cut, crossed, failed>>

(* A part that is gone ends the call, and with it the file of that name.    *)
CopyPart(c) ==
  /\ call[c].pc = "copy"
  /\ LET u == call[c].upload
         n == CHOOSE m \in call[c].left : \A k \in call[c].left : m <= k IN
     IF n \in dir[DirOf(c)]
       THEN /\ data' = [data EXCEPT ![call[c].file] = @ \cup {n}]
            /\ call' = [call EXCEPT ![c].left = @ \ {n},
                         ![c].pc = IF call[c].left = {n} THEN "rename" ELSE "copy"]
            /\ UNCHANGED temp
       ELSE temp' = [temp EXCEPT ![u] = 0] /\ Ends(c) /\ UNCHANGED data
  /\ UNCHANGED <<rows, parts, files, target, mixed, cut, crossed, failed>>

(* The move again: it looks at the file, removes the object, then renames;  *)
(* the file of that name may be gone, or be another completion's.           *)
MoveAssembled(c) ==
  /\ call[c].pc = "rename"
  /\ IF temp[call[c].upload] = 0 THEN Ends(c) ELSE Step(c, "remove")
  /\ UNCHANGED <<rows, parts, objects, crossed, failed>>

RemoveObject(c) ==
  /\ call[c].pc = "remove"
  /\ target' = 0
  /\ Step(c, "replace")
  /\ UNCHANGED <<rows, parts, files, data, temp, mixed, cut, crossed, failed>>

ReplaceObject(c) ==
  /\ call[c].pc = "replace"
  /\ LET f == temp[call[c].upload] IN
     IF f = 0 THEN cut' = (target = 0) /\ Ends(c) /\ UNCHANGED <<temp, target, mixed>>
     ELSE /\ target' = f /\ cut' = FALSE
          /\ temp' = [temp EXCEPT ![call[c].upload] = 0]
          /\ mixed' = IF f = call[c].file THEN mixed ELSE mixed \cup {f}
          /\ Step(c, "finish")
  /\ UNCHANGED <<rows, parts, files, data, crossed, failed>>

(* complete and abort write the entity they found, with uploadId null; then *)
(* both remove the directory of the upload and that of the whole row, which *)
(* holds it, whatever other upload is in there: one step.                   *)
SaveEnded(c) ==
  /\ call[c].pc = "finish" \/ (call[c].pc = "save" /\ call[c].op = "abort")
  /\ task' = [task EXCEPT ![call[c].task] =
       [upload |-> 0, completed |-> call[c].op = "complete"]]
  /\ Step(c, "clear")
  /\ UNCHANGED <<uploads, parts, objects, crossed, failed>>

Clear(c, D) ==
  /\ call[c].pc = "clear"
  /\ dir' = [d \in Dir |-> IF d \in D THEN {} ELSE dir[d]]
  /\ lost' = [d \in Dir |-> IF d \in D THEN lost[d] \cup (accepted[d] \cap dir[d]) ELSE lost[d]]
  /\ written' = {o \in written : DirOf(o) \notin D}
  /\ Ends(c)
  /\ UNCHANGED <<rows, objects, accepted, crossed, failed>>

(* Mutant: only the directory of the upload is removed. *)
RemoveOwnParts(c) == Clear(c, {DirOf(c)})

RemoveParts(c) == Clear(c, {d \in Dir : d[1] = call[c].task})

(* A call that fails where the service cleans up after it; a process that   *)
(* dies anywhere, and cleans up nothing.  Either, between the removal and   *)
(* the rename of a move, loses what was there before.                       *)
NoteCut(c) == cut' = (cut \/ (call[c].pc = "replace" /\ target = 0))
CallFails(c) ==
  /\ MayFail /\ ~failed
  /\ failed' = TRUE
  /\ \/ /\ call[c].pc \in {"check", "move", "place", "recheck"}
        /\ DropPart(c) /\ UNCHANGED temp
     \/ /\ Merging(c)
        /\ temp' = [temp EXCEPT ![call[c].upload] = 0]
        /\ Ends(c) /\ UNCHANGED <<dir, written, lost>>
  /\ NoteCut(c)
  /\ UNCHANGED <<rows, files, data, target, accepted, mixed, crossed>>

ClientDies(c) ==
  /\ MayFail /\ ~failed
  /\ call[c].pc # "idle"
  /\ failed' = TRUE
  /\ written' = written \ {c}
  /\ lost' = IF call[c].pc # "place" THEN lost
             ELSE [lost EXCEPT ![DirOf(c)] = @ \cup ({call[c].part} \cap accepted[DirOf(c)])]
  /\ NoteCut(c)
  /\ Ends(c)
  /\ UNCHANGED <<rows, dir, files, data, temp, target, mixed, accepted, crossed>>

-----------------------------------------------------------------------------
LuNext ==
  \/ \E c \in Client : InitMultipart(c)
  \/ \E c \in Client, t \in Task :
       \/ \E n \in Part : UploadPart(c, t, n)
       \/ CompleteMultipart(c, t) \/ AbortMultipart(c, t)
  \/ \E c \in Client :
       \/ FindLocalByObject(c) \/ CreateLocalUploadTask(c) \/ SaveInit(c) \/ GetActiveTask(c)
       \/ CheckPart(c) \/ MovePart(c) \/ PlacePart(c) \/ RecheckPart(c)
       \/ ListParts(c) \/ OpenAssembling(c) \/ CopyPart(c) \/ MoveAssembled(c)
       \/ RemoveObject(c) \/ ReplaceObject(c) \/ SaveEnded(c) \/ RemoveParts(c)
       \/ CallFails(c) \/ ClientDies(c)

LuSpec == LuInit /\ [][LuNext]_luVars

-----------------------------------------------------------------------------
(* The object of a completed task is whole, whatever else runs, dies or     *)
(* uploads parts, unless another completion is replacing it, one removed it *)
(* and then died or found its own file gone, or two had a hand in its file: *)
(* the second one to open the file of an upload truncates it.               *)
CompletedObjectWhole ==
  (\E t \in Task : task[t] # None /\ task[t].completed)
    => IF target # 0 THEN data[target] = Part \/ target \in mixed
       ELSE cut \/ \E c \in Client : call[c].pc = "replace"

(* The parts of a row that is no upload's any more are gone once the calls  *)
(* on it are, though a part may arrive while it ends, unless a call failed; *)
(* those of an upload that another init has taken the row from are so too,  *)
(* but where the inits overlapped.                                          *)
EndedUploadsCleared ==
  ~failed /\ (\A c \in Client : call[c].pc = "idle")
    => \A t \in Task, u \in UploadId :
         dir[<<t, u>>] # {} => Active(t) /\ (Names(t, u) \/ crossed)

(* A part whose upload was answered is there as long as the upload goes on, *)
(* except while another upload of the same part replaces it; when such a    *)
(* one failed, or two calls on the row overlapped, that part may be lost    *)
(* to its clean-up, or to the removal of the row's directory.               *)
Replacing(d, n) == \E c \in Client : call[c].pc = "place" /\ DirOf(c) = d /\ call[c].part = n
AcceptedPartsStay ==
  \A t \in Task, u \in UploadId : Active(t) /\ Names(t, u) =>
    \A n \in accepted[<<t, u>>] \ dir[<<t, u>>] :
      Replacing(<<t, u>>, n) \/ (n \in lost[<<t, u>>] /\ (crossed \/ failed))

(* Alone, the calls keep one task that is not completed for the object.     *)
OneLocalTaskAlone == ~crossed => \A s, t \in Task : Active(s) /\ Active(t) => s = t

(* Alone, the row of a completed task stays as it is.                       *)
CompletedStaysAlone ==
  [][~crossed => \A t \in Task :
       task[t] # None /\ task[t].completed => task'[t] = task[t]]_luVars
=============================================================================
