---------------------------- MODULE UploadProcess ----------------------------
(* FileUploadProcess, the browser's side of an upload: a run initializes    *)
(* the upload, workers send its parts, the run completes it; the page may   *)
(* pause, resume, stop or start again at any moment.  JavaScript runs a step*)
(* from one await to the next.  Requests are apart from their answers: one  *)
(* the client gave up may still reach the server.                           *)
EXTENDS Naturals, FiniteSets

CONSTANTS Part, Worker, None,
  Retries,      \* options.retries
  MaxRuns,      \* bound: calls of start() that begin a run
  MaxPauses,    \* bound: calls of pause()
  MaxErrors     \* bound: requests that fail

VARIABLES
  mode,         \* direct or multipart
  state,        \* stateValue
  stopped,      \* the flag stopped
  session,      \* an init has been answered
  run,          \* how far the run is, and which run it is
  worker,       \* the workers of every run: those of a failed run go on
  pending,      \* parts no worker of the run has taken
  abort,        \* the abort request
  server,       \* the upload on the server, and the parts that reached it
  stray,        \* requests given up by the client that may still arrive
  budget,       \* pauses and failures left
  orphaned      \* history: an init was never answered

fpVars == <<mode, state, stopped, session, run, worker, pending, abort, server,
            stray, budget, orphaned>>

Run == 1..MaxRuns
WorkerRec == [pc : {"next", "wait", "blocked", "woken", "sent", "answered", "error",
                    "failed", "done"},
              part : Part \cup {None}, attempt : 0..Retries]

FpTypeOK ==
  /\ mode \in {"direct", "multipart"}
  /\ state \in {"idle", "initializing", "uploading", "paused", "completing", "completed",
                "failed", "stopped"}
  /\ stopped \in BOOLEAN /\ session \in BOOLEAN
  /\ run \in [pc : {"none", "init", "initAnswered", "undo", "workers", "direct", "directAnswered",
                    "blocked", "woken", "complete", "completeAnswered", "error"}, no : 0..MaxRuns]
  /\ worker \in [Run -> [Worker -> WorkerRec]]
  /\ pending \in [Run -> SUBSET Part]
  /\ abort \in {"none", "sent", "done", "failed"}
  /\ server \in [status : {"none", "active", "completed", "aborted"}, parts : SUBSET Part]
  /\ stray \in SUBSET (Part \cup {"init", "direct"})
  /\ budget \in [pauses : 0..MaxPauses, errors : 0..MaxErrors]
  /\ orphaned \in BOOLEAN

Rest == [pc |-> "done", part |-> None, attempt |-> 0]

FpInit ==
  /\ mode \in {"direct", "multipart"}
  /\ state = "idle" /\ stopped = FALSE /\ session = FALSE
  /\ run = [pc |-> "none", no |-> 0]
  /\ worker = [r \in Run |-> [w \in Worker |-> Rest]]
  /\ pending = [r \in Run |-> {}]
  /\ abort = "none"
  /\ server = [status |-> "none", parts |-> {}]
  /\ stray = {}
  /\ budget = [pauses |-> MaxPauses, errors |-> MaxErrors]
  /\ orphaned = FALSE

Goto(pc) == run' = [run EXCEPT !.pc = pc]

(* abortActiveRequests gives up every request that has a controller, of any *)
(* run, but those in kept, whose answer is already there.                   *)
Requests == {x \in Run \X Worker : worker[x[1]][x[2]].pc \in {"sent", "answered"}}
Answers == {x \in Requests : worker[x[1]][x[2]].pc = "answered"}

AbortActiveRequests(kept, pc, wake) ==
  /\ worker' = [r \in Run |-> [w \in Worker |->
       LET rec == worker[r][w] IN
       IF <<r, w>> \in Requests \ kept THEN [rec EXCEPT !.pc = pc]
       ELSE IF wake /\ rec.pc = "blocked" THEN [rec EXCEPT !.pc = "woken"] ELSE rec]]
  /\ stray' = stray \cup {worker[x[1]][x[2]].part : x \in Requests \ Answers}
                    \cup ({run.pc} \cap {"init", "direct"})

-----------------------------------------------------------------------------
(* What the page calls.                                                     *)

Start ==
  /\ state \in {"idle", "failed"} /\ ~stopped
  /\ run.pc = "none" /\ run.no < MaxRuns
  /\ run' = [pc |-> IF mode = "direct" THEN "direct" ELSE "init", no |-> run.no + 1]
  /\ state' = IF mode = "direct" THEN "uploading" ELSE "initializing"
  /\ UNCHANGED <<mode, stopped, session, worker, pending, abort, server, stray, budget, orphaned>>

Pause ==
  /\ state = "uploading"
  /\ budget.pauses > 0 /\ budget' = [budget EXCEPT !.pauses = @ - 1]
  /\ state' = "paused"
  /\ \E kept \in SUBSET Answers : AbortActiveRequests(kept, "wait", FALSE)
  /\ \/ run.pc \in {"direct", "directAnswered"} /\ Goto("blocked")
     \/ run.pc # "direct" /\ UNCHANGED run
  /\ UNCHANGED <<mode, stopped, session, pending, abort, server, orphaned>>

(* Mutant: the workers that wait are not woken. *)
ResumeKeepsAsleep ==
  /\ state = "paused" /\ run.pc # "none"
  /\ state' = "uploading"
  /\ worker' = [r \in Run |-> [w \in Worker |->
       worker[r][w]]]
  /\ run' = [run EXCEPT !.pc = IF @ = "blocked" THEN "woken" ELSE @]
  /\ UNCHANGED <<mode, stopped, session, pending, abort, server, stray, budget, orphaned>>

Resume ==
  /\ state = "paused" /\ run.pc # "none"
  /\ state' = "uploading"
  /\ worker' = [r \in Run |-> [w \in Worker |->
       IF worker[r][w].pc = "blocked" THEN [worker[r][w] EXCEPT !.pc = "woken"]
       ELSE worker[r][w]]]
  /\ run' = [run EXCEPT !.pc = IF @ = "blocked" THEN "woken" ELSE @]
  /\ UNCHANGED <<mode, stopped, session, pending, abort, server, stray, budget, orphaned>>

(* An abort follows at once when the upload has a session; otherwise the    *)
(* run sends it, if it ever gets the answer of its init.                    *)
Stop ==
  /\ ~stopped /\ state # "completed"
  /\ stopped' = TRUE /\ state' = "stopped"
  /\ \E kept \in SUBSET Answers : AbortActiveRequests(kept, "error", TRUE)
  /\ \/ /\ run.pc \in {"init", "initAnswered", "direct", "directAnswered", "blocked"}
        /\ Goto("error")
        /\ orphaned' = (orphaned \/ run.pc \in {"init", "initAnswered"})
     \/ run.pc \notin {"init", "direct", "blocked"} /\ UNCHANGED <<run, orphaned>>
  /\ abort' = IF session THEN "sent" ELSE "none"
  /\ UNCHANGED <<mode, session, pending, server, budget>>

-----------------------------------------------------------------------------
(* The run.                                                                 *)

(* The parts the server lists are not sent again.                           *)
InitAnswer ==
  /\ run.pc = "initAnswered"
  /\ session' = TRUE
  /\ IF stopped
       THEN Goto("undo") /\ abort' = "sent" /\ UNCHANGED <<state, worker, pending>>
       ELSE /\ pending' = [pending EXCEPT ![run.no] = Part \ server.parts]
            /\ worker' = [worker EXCEPT ![run.no] = [w \in Worker |->
                            [pc |-> "next", part |-> None, attempt |-> 0]]]
            /\ state' = "uploading" /\ Goto("workers") /\ UNCHANGED abort
  /\ UNCHANGED <<mode, stopped, server, stray, budget, orphaned>>

(* Promise.all: every worker has ended, or one of them has failed.          *)
SendComplete ==
  /\ run.pc = "workers"
  /\ \A w \in Worker : worker[run.no][w].pc = "done"
  /\ IF stopped THEN Goto("error") /\ UNCHANGED state
     ELSE Goto("complete") /\ state' = "completing"
  /\ UNCHANGED <<mode, stopped, session, worker, pending, abort, server, stray, budget, orphaned>>

WorkerFailed ==
  /\ run.pc = "workers"
  /\ \E w \in Worker : worker[run.no][w].pc = "failed"
  /\ Goto("error")
  /\ UNCHANGED <<mode, state, stopped, session, worker, pending, abort, server, stray, budget,
                 orphaned>>

(* A stop does not take a completion back: its answer makes the state       *)
(* completed again.                                                         *)
RunCompletes ==
  /\ run.pc \in {"completeAnswered", "directAnswered"}
  /\ IF run.pc = "directAnswered" /\ stopped THEN Goto("error") /\ UNCHANGED state
     ELSE Goto("none") /\ state' = "completed"
  /\ UNCHANGED <<mode, stopped, session, worker, pending, abort, server, stray, budget, orphaned>>

(* What failed ends the run; the other workers' requests are given up, and  *)
(* the workers try them again, for themselves.                              *)
RunFails ==
  /\ run.pc = "error" \/ (run.pc = "undo" /\ abort # "sent")
  /\ \E kept \in SUBSET Answers : AbortActiveRequests(kept, "error", FALSE)
  /\ Goto("none")
  /\ state' = IF stopped THEN state ELSE "failed"
  /\ UNCHANGED <<mode, stopped, session, pending, abort, server, budget, orphaned>>

DirectAgain ==
  /\ run.pc = "woken"
  /\ Goto(IF stopped THEN "error" ELSE "direct")
  /\ UNCHANGED <<mode, state, stopped, session, worker, pending, abort, server, stray, budget,
                 orphaned>>

-----------------------------------------------------------------------------
(* A worker of run r.                                                       *)

others == <<mode, state, stopped, session, run, abort, server, orphaned>>
Put(r, w, rec) == worker' = [worker EXCEPT ![r][w] = rec]

TakePart(r, w) ==
  /\ worker[r][w].pc = "next"
  /\ IF pending[r] = {} THEN Put(r, w, Rest) /\ UNCHANGED pending
     ELSE \E n \in pending[r] :
            /\ Put(r, w, [pc |-> "wait", part |-> n, attempt |-> 0])
            /\ pending' = [pending EXCEPT ![r] = @ \ {n}]
  /\ UNCHANGED <<others, stray, budget>>

(* Mutant: a stop is not looked at before a part is sent. *)
SendPartAnyway(r, w) ==
  /\ worker[r][w].pc \in {"wait", "woken"}
  /\ Put(r, w, [worker[r][w] EXCEPT
       !.pc = IF @ = "wait" /\ state = "paused" THEN "blocked"
              ELSE "sent"])
  /\ UNCHANGED <<others, pending, stray, budget>>

(* A worker that was woken looks at the pause no more before it sends.      *)
SendPart(r, w) ==
  /\ worker[r][w].pc \in {"wait", "woken"}
  /\ Put(r, w, [worker[r][w] EXCEPT
       !.pc = IF @ = "wait" /\ state = "paused" THEN "blocked"
              ELSE IF stopped THEN "failed" ELSE "sent"])
  /\ UNCHANGED <<others, pending, stray, budget>>

PartAnswer(r, w) ==
  /\ worker[r][w].pc = "answered"
  /\ Put(r, w, [Rest EXCEPT !.pc = "next"])
  /\ UNCHANGED <<others, pending, stray, budget>>

(* Mutant: a part that keeps failing is skipped. *)
PartErrorSkips(r, w) ==
  /\ worker[r][w].pc = "error"
  /\ LET rec == worker[r][w] IN
     Put(r, w, IF state = "paused" THEN [rec EXCEPT !.pc = "wait"]
               ELSE IF stopped \/ rec.attempt = Retries THEN [Rest EXCEPT !.pc = "next"]
               ELSE [rec EXCEPT !.pc = "wait", !.attempt = @ + 1])
  /\ UNCHANGED <<others, pending, stray, budget>>

PartError(r, w) ==
  /\ worker[r][w].pc = "error"
  /\ LET rec == worker[r][w] IN
     Put(r, w, IF state = "paused" THEN [rec EXCEPT !.pc = "wait"]
               ELSE IF stopped \/ rec.attempt = Retries THEN [rec EXCEPT !.pc = "failed"]
               ELSE [rec EXCEPT !.pc = "wait", !.attempt = @ + 1])
  /\ UNCHANGED <<others, pending, stray, budget>>

-----------------------------------------------------------------------------
(* The network and the server, as the adapters use it: an upload is active  *)
(* from its init to its completion or its abort.                            *)

client == <<mode, state, stopped, session, pending, orphaned>>
Land(n) == server' = IF server.status = "active" THEN [server EXCEPT !.parts = @ \cup {n}]
                     ELSE server
OpenUpload == server' = CASE server.status \in {"none", "aborted"} ->
                               [status |-> "active", parts |-> {}]
                          [] OTHER -> server
UseError == budget.errors > 0 /\ budget' = [budget EXCEPT !.errors = @ - 1]

InitLands ==
  /\ run.pc = "init"
  /\ OpenUpload
  /\ Goto(IF server.status = "completed" THEN "error" ELSE "initAnswered")
  /\ UNCHANGED <<client, worker, abort, stray, budget>>

PartLands(r, w) ==
  /\ worker[r][w].pc = "sent"
  /\ Land(worker[r][w].part)
  /\ Put(r, w, [worker[r][w] EXCEPT !.pc = IF server.status = "active" THEN "answered" ELSE "error"])
  /\ UNCHANGED <<client, run, abort, stray, budget>>

DirectLands ==
  /\ run.pc = "direct"
  /\ server' = [status |-> "completed", parts |-> Part]
  /\ Goto("directAnswered")
  /\ UNCHANGED <<client, worker, abort, stray, budget>>

CompleteLands ==
  /\ run.pc = "complete"
  /\ IF server.status = "active" /\ server.parts = Part
       THEN server' = [server EXCEPT !.status = "completed"] /\ Goto("completeAnswered")
       ELSE Goto("error") /\ UNCHANGED server
  /\ UNCHANGED <<client, worker, abort, stray, budget>>

AbortLands ==
  /\ abort = "sent"
  /\ IF server.status = "active"
       THEN server' = [status |-> "aborted", parts |-> {}] /\ abort' = "done"
       ELSE abort' = "failed" /\ UNCHANGED server
  /\ UNCHANGED <<client, run, worker, stray, budget>>

StrayLands ==
  /\ \E x \in stray :
       /\ stray' = stray \ {x}
       /\ CASE x = "init" -> OpenUpload
            [] x = "direct" -> server' = [status |-> "completed", parts |-> Part]
            [] OTHER -> Land(x)
  /\ UNCHANGED <<client, run, worker, abort, budget>>

(* A request fails; what it asked for may have been done all the same.      *)
RunRequestFails ==
  /\ run.pc \in {"init", "initAnswered", "direct", "directAnswered", "complete", "completeAnswered"}
  /\ UseError
  /\ Goto("error")
  /\ orphaned' = (orphaned \/ run.pc \in {"init", "initAnswered"})
  /\ UNCHANGED <<mode, state, stopped, session, pending, worker, abort, server, stray>>

PartFails(r, w) ==
  /\ worker[r][w].pc \in {"sent", "answered"}
  /\ UseError
  /\ Put(r, w, [worker[r][w] EXCEPT !.pc = "error"])
  /\ UNCHANGED <<client, run, abort, server, stray>>

AbortFails ==
  /\ abort = "sent"
  /\ UseError
  /\ abort' = "failed"
  /\ UNCHANGED <<client, run, worker, server, stray>>

-----------------------------------------------------------------------------
WorkerStep(r, w) ==
  TakePart(r, w) \/ SendPart(r, w) \/ PartAnswer(r, w) \/ PartError(r, w) \/ PartLands(r, w)
RunStep == InitAnswer \/ SendComplete \/ WorkerFailed \/ RunCompletes \/ RunFails \/ DirectAgain
ServerStep == InitLands \/ DirectLands \/ CompleteLands \/ AbortLands

FpNext ==
  \/ Start \/ Pause \/ Resume \/ Stop
  \/ RunStep \/ ServerStep
  \/ StrayLands \/ RunRequestFails \/ AbortFails
  \/ \E r \in Run, w \in Worker : WorkerStep(r, w) \/ PartFails(r, w)

(* The event loop goes on and requests are answered or fail; the page need  *)
(* do nothing.                                                              *)
FpFairness ==
  /\ WF_fpVars(RunStep) /\ WF_fpVars(ServerStep)
  /\ \A r \in Run, w \in Worker : WF_fpVars(WorkerStep(r, w))

FpSpec == FpInit /\ [][FpNext]_fpVars /\ FpFairness

-----------------------------------------------------------------------------
(* The completion of a multipart upload is asked for only when every part   *)
(* has reached the server, whatever was paused, failed, tried again or      *)
(* resumed from an earlier run; a stop may have aborted it meanwhile.       *)
CompleteOnlyWhole ==
  run.pc = "complete" /\ ~stopped => server.parts = Part

(* completed tells the truth about the server.                              *)
CompletedIsCompleted == state = "completed" => server = [status |-> "completed", parts |-> Part]

(* A stopped upload does not stay open on the server once the run and the   *)
(* abort are over, unless an init that the server may have taken was never  *)
(* answered, as when the stop gives it up, or the abort failed.             *)
StopAborts ==
  stopped /\ run.pc = "none" /\ abort # "sent"
    => server.status # "active" \/ orphaned \/ abort = "failed"

(* Once stopped, workers send nothing more.                                 *)
StoppedSendsNothing ==
  [][stopped => \A r \in Run, w \in Worker :
       worker'[r][w].pc = "sent" => worker[r][w].pc = "sent"]_fpVars

(* A run ends, or waits for the page to resume it: no worker sleeps through *)
(* a resume or a stop.                                                      *)
RunEnds == (run.pc # "none") ~> (run.pc = "none" \/ state = "paused")
=============================================================================
