----------------------------- MODULE MCProgress -----------------------------
(* Model checking of what must eventually happen: the cached configuration, *)
(* a task that was answered, a run of the browser's upload, each under the  *)
(* fairness of its own module.  A behaviour is about one of them, its       *)
(* subject; no fair action of the others is enabled in their initial states.*)
EXTENDS RuntimeConfig, TLC

CONSTANTS p1, p2, v1,
  Attempts, MaxData, MaxStops,              \* TaskQueue
  MaxRuns, MaxPauses, MaxErrors, Retries    \* UploadProcess

VARIABLES
  subject,
  job, call, worker, handled, drawn, stops, ran, want,
  mode, state, stopped, session, run, uploader, pending, abort, server, stray,
  budget, orphaned

Tasks == INSTANCE TaskQueue WITH Caller <- Proc
Browser == INSTANCE UploadProcess WITH Worker <- Proc, Part <- Proc, worker <- uploader

taskVars == <<job, call, worker, handled, drawn, stops, ran, want>>
browserVars == <<mode, state, stopped, session, run, uploader, pending, abort, server,
                 stray, budget, orphaned>>
allVars == <<subject, vars, taskVars, browserVars>>

ProgressInit ==
  /\ subject \in {"config", "tasks", "browser"}
  /\ Init /\ Tasks!TqInit /\ Browser!FpInit
  /\ subject # "browser" => mode = "direct"

ProgressNext ==
  \/ subject = "config" /\ Next /\ UNCHANGED <<subject, taskVars, browserVars>>
  \/ subject = "tasks" /\ Tasks!TqNext /\ UNCHANGED <<subject, vars, browserVars>>
  \/ subject = "browser" /\ Browser!FpNext /\ UNCHANGED <<subject, vars, taskVars>>

ProgressSpec ==
  /\ ProgressInit /\ [][ProgressNext]_allVars
  /\ Fairness /\ Tasks!TqFairness /\ Browser!FpFairness

AnsweredTaskRuns == Tasks!AnsweredTaskRuns
RunEnds == Browser!RunEnds
=============================================================================
