---------------------------- MODULE MCOssUpload ----------------------------
(* Model checking of the modules about files on small instances: the three  *)
(* kinds of upload, the rows of files with their copies in Redis, the calls *)
(* of the object store.  A behaviour is about one of them, its subject; the *)
(* others stand still.                                                      *)
EXTENDS OssUpload, TLC

CONSTANTS p1, p2, n1, n2, o1, None,
  LocalPart, MaxFiles,            \* LocalUpload
  Retries, MaxRuns, MaxPauses, MaxErrors,  \* UploadProcess
  MaxWrites,                      \* FileRecords
  Bucket, PartNumber, MaxEdits, Overlapping   \* ObjectStorage

VARIABLES
  subject,
  task, uploads, dir, written, files, data, temp, target, call, accepted, lost, mixed, cut,
  crossed, died,
  mode, state, stopped, session, run, worker, pending, abort, server, stray, budget, orphaned,
  file, map, fileOp, writes, suspect,
  config, clientCache, request, bucketed, multipart, openings, edits

Local == INSTANCE LocalUpload WITH Client <- Proc, Part <- LocalPart, failed <- died
Halves == INSTANCE LocalUpload WITH Client <- Proc, Part <- LocalPart \cup {2}, failed <- died
Browser == INSTANCE UploadProcess WITH Worker <- Proc

Records == INSTANCE FileRecords WITH Client <- Proc, Object <- {o1}, op <- fileOp
Store == INSTANCE ObjectStorage
  WITH Caller <- Proc, Part <- PartNumber, MaxUploads <- 1, call <- request,
       object <- bucketed, upload <- multipart, opened <- openings

(* A row is none of the marks that stand for one; there is a worker, as     *)
(* options.concurrency is at least 1 (file-upload-process.ts:48), and a part*)
(* is none of the requests of a run.  There is a bucket, and parts have     *)
(* numbers.                                                                 *)
ASSUME FilesAssumption ==
  /\ {MaxFiles, MaxWrites, Retries, MaxRuns, MaxPauses, MaxErrors, MaxEdits} \subseteq Nat
  /\ None \notin Records!Row \cup Local!TaskRow
  /\ Proc # {} /\ {"init", "direct"} \cap Part = {}
  /\ Bucket # {} /\ PartNumber \subseteq Nat

localVars == <<task, uploads, dir, written, files, data, temp, target, call, accepted, lost,
               mixed, cut, crossed, died>>
browserVars == <<mode, state, stopped, session, run, worker, pending, abort, server,
                 stray, budget, orphaned>>
recordVars == <<file, map, fileOp, writes, suspect>>
storeVars == <<config, clientCache, request, bucketed, multipart, openings, edits>>
allVars == <<subject, vars, localVars, browserVars, recordVars, storeVars>>

UploadsInit ==
  /\ subject \in {"s3", "local", "halves", "browser", "records", "store"}
  /\ Init /\ Local!LuInit /\ Browser!FpInit /\ Records!FrInit /\ Store!OsInit
  /\ subject # "browser" => mode = "direct"
  /\ subject # "store" => config = None

UploadsNext ==
  \/ /\ subject = "s3" /\ Next
     /\ UNCHANGED <<subject, localVars, browserVars, recordVars, storeVars>>
  \/ /\ subject = "local" /\ Local!LuNext
     /\ UNCHANGED <<subject, vars, browserVars, recordVars, storeVars>>
  \/ /\ subject = "halves" /\ Halves!LuNext
     /\ UNCHANGED <<subject, vars, browserVars, recordVars, storeVars>>
  \/ /\ subject = "browser" /\ Browser!FpNext
     /\ UNCHANGED <<subject, vars, localVars, recordVars, storeVars>>
  \/ /\ subject = "records" /\ Records!FrNext
     /\ UNCHANGED <<subject, vars, localVars, browserVars, storeVars>>
  \/ /\ subject = "store" /\ Store!OsNext
     /\ UNCHANGED <<subject, vars, localVars, browserVars, recordVars>>

UploadsSpec == UploadsInit /\ [][UploadsNext]_allVars

(* Where calls on S3 tasks, or on local uploads of two parts, have          *)
(* overlapped, or two completions have had a hand in a local file, the      *)
(* instance is smaller than for calls one after the other.                  *)
Explored ==
  /\ overlapped => tasks + opened <= 2
  /\ subject = "halves" /\ crossed => uploads <= 1
  /\ mixed # {} => uploads <= 1

(* A finished object on the file system is whole, an upload that ended has  *)
(* no parts left, an accepted part stays, and calls that do not overlap     *)
(* open one task per file.                                                  *)
LocalUploadSafe ==
  /\ subject = "local" =>
       /\ Local!LuTypeOK
       /\ Local!CompletedObjectWhole /\ Local!EndedUploadsCleared
       /\ Local!AcceptedPartsStay /\ Local!OneLocalTaskAlone
  /\ subject = "halves" =>
       /\ Halves!LuTypeOK
       /\ Halves!CompletedObjectWhole /\ Halves!EndedUploadsCleared
       /\ Halves!AcceptedPartsStay /\ Halves!OneLocalTaskAlone

(* The browser asks to complete only what is whole, reports as completed    *)
(* only what the server completed, and aborts what it stops.                *)
BrowserUploadSafe ==
  subject = "browser" =>
  /\ Browser!FpTypeOK
  /\ Browser!CompleteOnlyWhole /\ Browser!CompletedIsCompleted /\ Browser!StopAborts

(* The copy of a file's row is the row, unless operations on it overlapped  *)
(* or one failed; the next write repairs it.                                *)
CopiesFollowRows == subject = "records" => Records!FrTypeOK /\ Records!CopyIsRow

(* A call connects as the configuration it read says, an address or a       *)
(* signature leads to a public host, parts are completed in order, and the  *)
(* answer of a call that stored an object names where it is.                *)
StoreFollowsConfig ==
  [](subject = "store" =>
       Store!OsTypeOK /\ Store!ContextIsOfReadConfig /\ Store!UrlsArePublic /\ Store!PartsInOrder)
    /\ Store!AnswerNamesPlace

(* Calls that do not overlap keep one task per file, whose upload can be    *)
(* resumed, and (without failures) forget no upload.                        *)
SerialUploads == ResumableAlone /\ NoOrphansAlone /\ OneTaskAlone

(* What has ended stays so: a completed row while calls do not overlap, and *)
(* a stopped browser, which sends nothing more.                             *)
EndedStaysEnded ==
  CompletedIsFinalAlone /\ Local!CompletedStaysAlone /\ Browser!StoppedSendsNothing

MCSymmetry == Permutations(Proc) \cup Permutations(Part)
=============================================================================
