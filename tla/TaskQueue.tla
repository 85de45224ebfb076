------------------------------ MODULE TaskQueue ------------------------------
(* One idempotent job, <name>#<bizKey>, of a BullMQ queue: the callers of   *)
(* TaskService, who look at the job's state before they act on it, and the  *)
(* worker of the process, which takes it, fails, restarts or dies.  A step  *)
(* is one command to the queue.                                             *)
EXTENDS Naturals

CONSTANTS Caller,
  Attempts,     \* DEFAULT_JOB_OPTIONS.attempts
  MaxData,      \* bound: how many values of data are drawn
  MaxStops      \* bound: how many times the worker's process dies or is closed

VARIABLES
  job,          \* the job in Redis
  call,         \* the calls in progress
  worker,       \* the worker of this process
  handled,      \* its code has a @TaskHandler of the job's name
  drawn,        \* how many values of data were drawn
  stops,        \* how many times the process died or was closed
  ran,          \* history: the data the handler was called with
  want          \* history: what the last addTask that answered a job asked for,
                \* sure unless something changed the job after it was looked at

tqVars == <<job, call, worker, handled, drawn, stops, ran, want>>

Data == 1..MaxData
Pending == {"waiting", "delayed", "prioritized"}
Settled == {"completed", "failed"}
(* A job whose worker died is still active for the queue.                   *)
Running == {"active", "abandoned"}
JobState == {"none"} \cup Running \cup Pending \cup Settled
JobRec == [state : JobState, data : Data \cup {0}, failures : 0..Attempts, stalls : 0..1]
NoJob == [state |-> "none", data |-> 0, failures |-> 0, stalls |-> 0]

CallPc == {"idle", "getJob", "getState", "updateData", "remove", "add", "retry"}
Acting == {"updateData", "remove", "add", "retry"}
CallRec == [pc : CallPc, op : {"none", "add", "remove", "retry", "update"},
            data : Data \cup {0}, priority : BOOLEAN, seen : JobState, raced : BOOLEAN]
NoCall == [pc |-> "idle", op |-> "none", data |-> 0, priority |-> FALSE,
           seen |-> "none", raced |-> FALSE]

TqTypeOK ==
  /\ job \in JobRec
  /\ call \in [Caller -> CallRec]
  /\ worker \in {"running", "closing", "closed"}
  /\ handled \in BOOLEAN
  /\ drawn \in 0..MaxData /\ stops \in 0..MaxStops
  /\ ran \in SUBSET Data
  /\ want \in [data : Data \cup {0}, sure : BOOLEAN]

TqInit ==
  /\ job = NoJob
  /\ call = [c \in Caller |-> NoCall]
  /\ worker = "running" /\ handled = TRUE
  /\ drawn = 0 /\ stops = 0
  /\ ran = {}
  /\ want = [data |-> 0, sure |-> TRUE]

Goto(c, pc) == call' = [call EXCEPT ![c].pc = pc]
(* c's command changed the job under every other call that looked at it.    *)
Race(calls) == [c \in Caller |-> IF calls[c].pc \in Acting
                                   THEN [calls[c] EXCEPT !.raced = TRUE] ELSE calls[c]]
EndAndRace(c) == call' = Race([call EXCEPT ![c] = NoCall])
Ends(c) == call' = [call EXCEPT ![c] = NoCall]

queueHistory == <<handled, drawn, stops, ran>>

-----------------------------------------------------------------------------
(* TaskService: addTask, removeTask, retryTask, updateJobData.              *)

Begin(c, rec) ==
  /\ call[c].pc = "idle"
  /\ call' = [call EXCEPT ![c] = rec]
  /\ UNCHANGED <<job, worker, handled, stops, ran, want>>

AddTask(c, priority) ==
  /\ drawn < MaxData
  /\ drawn' = drawn + 1
  /\ Begin(c, [NoCall EXCEPT !.pc = "getJob", !.op = "add", !.data = drawn + 1,
                             !.priority = priority])
UpdateJobData(c) ==
  /\ drawn < MaxData
  /\ drawn' = drawn + 1
  /\ Begin(c, [NoCall EXCEPT !.pc = "getJob", !.op = "update", !.data = drawn + 1])
RemoveTask(c) ==
  Begin(c, [NoCall EXCEPT !.pc = "getJob", !.op = "remove"]) /\ UNCHANGED drawn
RetryTask(c) ==
  Begin(c, [NoCall EXCEPT !.pc = "getJob", !.op = "retry"]) /\ UNCHANGED drawn

GetJob(c) ==
  /\ call[c].pc = "getJob"
  /\ LET op == call[c].op IN
     IF job.state = "none"
       THEN IF op = "add" THEN Goto(c, "add") ELSE Ends(c)
       ELSE Goto(c, CASE op \in {"add", "retry"} -> "getState"
                      [] op = "remove" -> "remove"
                      [] op = "update" -> "updateData")
  /\ UNCHANGED <<job, worker, queueHistory, want>>

(* What addTask does with a job it found.  A prioritized job is none of the *)
(* listed states: the data is not updated and the add changes nothing.      *)
AfterStateKeepsSettled(state) ==
  CASE state \in Running -> "idle"
    [] state \in {"waiting", "delayed"} -> "updateData"
    [] OTHER -> "add"

AfterState(state) ==
  CASE state \in Running -> "idle"
    [] state \in {"waiting", "delayed"} -> "updateData"
    [] state \in Settled -> "remove"
    [] OTHER -> "add"

GetState(c) ==
  /\ call[c].pc = "getState"
  /\ LET next == IF call[c].op = "add" THEN AfterState(job.state)
                 ELSE IF job.state = "failed" THEN "retry" ELSE "idle" IN
     IF next = "idle" THEN Ends(c)
       ELSE call' = [call EXCEPT ![c].pc = next, ![c].seen = job.state]
  /\ UNCHANGED <<job, worker, queueHistory, want>>

(* A job was answered for the data.                                         *)
Answered(c, sure) == want' = [data |-> call[c].data, sure |-> sure /\ ~call[c].raced]

(* updateData writes the job's hash whatever the state; a worker that has   *)
(* taken the job goes on with what it read.  A job that is gone: rejected.  *)
UpdateData(c) ==
  /\ call[c].pc = "updateData"
  /\ IF job.state = "none"
       THEN Ends(c) /\ UNCHANGED <<job, want>>
       ELSE /\ job' = [job EXCEPT !.data = call[c].data]
            /\ EndAndRace(c)
            /\ IF call[c].op = "add" THEN Answered(c, TRUE)
               ELSE want' = [want EXCEPT !.sure = FALSE]
  /\ UNCHANGED <<worker, queueHistory>>

(* remove is refused while a worker holds the job, dead or alive: the lock  *)
(* of a dead one lasts a while.                                             *)
Remove(c) ==
  /\ call[c].pc = "remove"
  /\ \/ /\ job.state \in Running
        /\ Ends(c) /\ UNCHANGED <<job, want>>
     \/ /\ job.state # "active"
        /\ job' = NoJob
        /\ want' = IF call[c].op = "remove" THEN [data |-> 0, sure |-> TRUE]
                   ELSE [want EXCEPT !.sure = want.sure /\ ~call[c].raced]
        /\ IF call[c].op = "remove" THEN EndAndRace(c)
           ELSE call' = [Race(call) EXCEPT ![c] = [call[c] EXCEPT !.pc = "add"]]
  /\ UNCHANGED <<worker, queueHistory>>

(* add does nothing to a job that exists, and answers it all the same.      *)
Add(c) ==
  /\ call[c].pc = "add"
  /\ IF job.state = "none"
       THEN /\ \E state \in {"waiting", "delayed"} :
                 job' = [NoJob EXCEPT !.data = call[c].data,
                           !.state = IF call[c].priority THEN "prioritized" ELSE state]
            /\ EndAndRace(c)
       ELSE Ends(c) /\ UNCHANGED job
  /\ Answered(c, call[c].seen # "prioritized")
  /\ UNCHANGED <<worker, queueHistory>>

Retry(c) ==
  /\ call[c].pc = "retry"
  /\ IF job.state = "failed"
       THEN job' = [job EXCEPT !.state = "waiting"] /\ EndAndRace(c)
       ELSE Ends(c) /\ UNCHANGED job
  /\ UNCHANGED <<worker, queueHistory, want>>

-----------------------------------------------------------------------------
(* The worker, and what the queue does by itself.                           *)

Changes(state) == job' = [job EXCEPT !.state = state] /\ call' = Race(call)

(* The processor gets the job with its data as it is now.  Without a        *)
(* handler of its name it returns, which completes the job.                 *)
TakeJob ==
  /\ worker = "running"
  /\ job.state \in {"waiting", "prioritized"}
  /\ Changes("active")
  /\ IF handled THEN ran' = ran \cup {job.data} /\ UNCHANGED want
     ELSE want' = [want EXCEPT !.sure = FALSE] /\ UNCHANGED ran
  /\ UNCHANGED <<worker, handled, drawn, stops>>

JobCompletes ==
  /\ job.state = "active" /\ worker # "closed"
  /\ Changes("completed")
  /\ UNCHANGED <<worker, queueHistory, want>>

JobFails ==
  /\ job.state = "active" /\ worker # "closed" /\ handled
  /\ LET failures == IF job.failures < Attempts THEN job.failures + 1 ELSE Attempts IN
     job' = [job EXCEPT !.failures = failures,
                        !.state = IF failures = Attempts THEN "failed" ELSE "delayed"]
  /\ call' = Race(call)
  /\ UNCHANGED <<worker, queueHistory, want>>

DelayEnds ==
  /\ job.state = "delayed"
  /\ Changes("waiting")
  /\ UNCHANGED <<worker, queueHistory, want>>

(* A running worker finds a job whose worker died: again, but once only.    *)
JobStalled ==
  /\ job.state = "abandoned" /\ worker = "running"
  /\ job' = IF job.stalls = 0 THEN [job EXCEPT !.state = "waiting", !.stalls = 1]
            ELSE [job EXCEPT !.state = "failed"]
  /\ call' = Race(call)
  /\ UNCHANGED <<worker, queueHistory, want>>

(* removeOnComplete and removeOnFail.                                       *)
SettledExpires ==
  /\ job.state \in Settled
  /\ job' = NoJob
  /\ call' = Race(call)
  /\ UNCHANGED <<worker, queueHistory, want>>

(* WorkerFactory.onModuleDestroy: no new job, the one in hand is finished.  *)
CloseWorkers ==
  /\ worker = "running" /\ stops < MaxStops
  /\ stops' = stops + 1
  /\ worker' = "closing"
  /\ UNCHANGED <<job, call, handled, drawn, ran, want>>

WorkersClosed ==
  /\ worker = "closing" /\ job.state # "active"
  /\ worker' = "closed"
  /\ UNCHANGED <<job, call, queueHistory, want>>

(* The process dies with its worker and its callers.                        *)
Crash ==
  /\ worker # "closed" /\ stops < MaxStops
  /\ stops' = stops + 1
  /\ worker' = "closed"
  /\ job' = IF job.state = "active" THEN [job EXCEPT !.state = "abandoned"] ELSE job
  /\ call' = [c \in Caller |-> NoCall]
  /\ UNCHANGED <<handled, drawn, ran, want>>

(* The next process, of another version of the code perhaps, finds its      *)
(* handlers and makes one worker per queue that has any.                    *)
DiscoverTaskHandlers == handled' \in BOOLEAN

StartWorker ==
  /\ worker = "closed"
  /\ worker' = "running"
  /\ DiscoverTaskHandlers
  /\ UNCHANGED <<job, call, drawn, stops, ran, want>>

-----------------------------------------------------------------------------
TqNext ==
  \/ \E c \in Caller :
       \/ \E priority \in BOOLEAN : AddTask(c, priority)
       \/ UpdateJobData(c) \/ RemoveTask(c) \/ RetryTask(c)
       \/ GetJob(c) \/ GetState(c) \/ UpdateData(c) \/ Remove(c) \/ Add(c) \/ Retry(c)
  \/ TakeJob \/ JobCompletes \/ JobFails \/ DelayEnds \/ JobStalled \/ SettledExpires
  \/ CloseWorkers \/ WorkersClosed \/ Crash \/ StartWorker

(* The worker and the queue go on; nobody has to close, die or call.        *)
TqFairness ==
  /\ WF_tqVars(TakeJob) /\ WF_tqVars(DelayEnds) /\ WF_tqVars(JobStalled)
  /\ WF_tqVars(JobCompletes \/ JobFails)
  /\ WF_tqVars(WorkersClosed) /\ WF_tqVars(StartWorker)

TqSpec == TqInit /\ [][TqNext]_tqVars /\ TqFairness

-----------------------------------------------------------------------------
(* The data of an addTask that answered a job reaches the handler before    *)
(* the job is settled or gone: a settled job does not swallow it, and an    *)
(* update of a waiting one is not lost.  Sure does not hold when the job    *)
(* changed between the look at its state and the command, had a priority,   *)
(* or was given to a process without a handler of its name.                 *)
AnsweredTaskNotLost ==
  want.sure /\ want.data # 0 /\ (job.state = "none" \/ job.state \in Settled)
  => want.data \in ran

(* And it does reach the handler, across the deaths and restarts of the     *)
(* worker, or another call asks for something else.                         *)
AnsweredTaskRuns ==
  \A d \in Data :
    want = [data |-> d, sure |-> TRUE] ~> d \in ran \/ want # [data |-> d, sure |-> TRUE]
=============================================================================
