------------------------------- MODULE CronJobs -------------------------------
(* The cron queue of one process name: CronService registers the schedules   *)
(* of the code that starts and clears those of the code that ran before,     *)
(* schedules may be added and removed while it runs, and it may die anywhere.*)
(* A step is one command to the queue.                                       *)
EXTENDS Naturals, FiniteSets

CONSTANTS Name, Pattern,
  MaxBoots      \* bound: how many times the process starts

VARIABLES
  repeatables,  \* the schedules in Redis, name and pattern
  jobs,         \* the schedules whose next job is waiting or delayed
  registry,     \* CronRegistry: the names that have a handler, with the pattern
  phase,        \* how far onApplicationBootstrap is
  todo,         \* what the loop of this phase has still to look at
  request,      \* the call of registerCron or removeCron under way
  active,       \* the job the worker runs
  boots,        \* how many times the process started
  removed,      \* history: names removeCron was called for since the start
  kept,         \* history: schedules of earlier code that has kept its name since
  orphanRuns    \* history: jobs taken without a handler

cjVars == <<repeatables, jobs, registry, phase, todo, request, active, boots,
            removed, kept, orphanRuns>>

Schedule == [name : Name, pattern : Pattern]
Code == UNION {[N -> Pattern] : N \in SUBSET Name}
Phase == {"down", "listRepeatables", "cleanRepeatables", "listJobs", "cleanJobs",
          "register", "startWorker", "up", "upIdle"}
NoRequest == [op |-> "none", on |-> {}]
Up == phase \in {"up", "upIdle"}

CjTypeOK ==
  /\ repeatables \subseteq Schedule /\ jobs \subseteq Schedule
  /\ registry \in Code
  /\ phase \in Phase
  /\ todo \subseteq Schedule
  /\ request.op \in {"none", "register", "remove"} /\ request.on \subseteq Schedule
  /\ active \subseteq Schedule /\ Cardinality(active) <= 1
  /\ boots \in 0..MaxBoots
  /\ removed \subseteq Name /\ kept \subseteq Schedule
  /\ orphanRuns \in BOOLEAN

CjInit ==
  /\ repeatables = {} /\ jobs = {}
  /\ registry = [n \in {} |-> CHOOSE p \in Pattern : TRUE]
  /\ phase = "down" /\ todo = {}
  /\ request = NoRequest
  /\ active = {}
  /\ boots = 0
  /\ removed = {} /\ kept = {} /\ orphanRuns = FALSE

Known == DOMAIN registry
Registered == {s \in Schedule : s.name \in Known /\ registry[s.name] = s.pattern}
queue == <<repeatables, jobs>>
cronHistory == <<boots, removed, kept, orphanRuns>>

-----------------------------------------------------------------------------
(* WorkerDiscoveryService has registered the decorated methods of the code  *)
(* that starts, each name once.                                             *)
Boot(code) ==
  /\ phase = "down" /\ boots < MaxBoots
  /\ boots' = boots + 1
  /\ registry' = code
  /\ phase' = "listRepeatables"
  /\ removed' = {}
  /\ UNCHANGED <<queue, todo, request, active, kept, orphanRuns>>

ListRepeatables ==
  /\ phase = "listRepeatables"
  /\ todo' = {s \in repeatables : s.name \notin Known}
  /\ phase' = "cleanRepeatables"
  /\ UNCHANGED <<queue, registry, request, active, cronHistory>>

(* The schedule goes, a job it has made stays.                              *)
CleanupOrphanRepeatable ==
  /\ phase = "cleanRepeatables"
  /\ IF todo = {}
       THEN /\ phase' = "listJobs"
            /\ kept' = {s \in kept : s.name \in Known} \cup Registered
            /\ UNCHANGED <<repeatables, todo>>
       ELSE \E s \in todo : /\ repeatables' = repeatables \ {s}
                            /\ todo' = todo \ {s}
                            /\ UNCHANGED <<phase, kept>>
  /\ UNCHANGED <<jobs, registry, request, active, boots, removed, orphanRuns>>

NoOrphanJobs == {}
OrphanJobs == {s \in jobs : s.name \notin Known}

ListJobs ==
  /\ phase = "listJobs"
  /\ todo' = OrphanJobs
  /\ phase' = "cleanJobs"
  /\ UNCHANGED <<queue, registry, request, active, cronHistory>>

CleanupOrphanJob ==
  /\ phase = "cleanJobs"
  /\ IF todo = {}
       THEN /\ phase' = IF Known = {} THEN "upIdle" ELSE "register"
            /\ todo' = Registered
            /\ UNCHANGED jobs
       ELSE \E s \in todo : /\ jobs' = jobs \ {s}
                            /\ todo' = todo \ {s}
                            /\ UNCHANGED phase
  /\ UNCHANGED <<repeatables, registry, request, active, cronHistory>>

(* queue.add with repeat: a schedule that is there already stays as it is.  *)
Add(s) == /\ repeatables' = repeatables \cup {s}
          /\ jobs' = IF s \in repeatables THEN jobs ELSE jobs \cup {s}

RegisterCronJob ==
  /\ phase = "register"
  /\ IF todo = {} THEN phase' = "startWorker" /\ UNCHANGED <<queue, todo>>
     ELSE \E s \in todo : Add(s) /\ todo' = todo \ {s} /\ UNCHANGED phase
  /\ UNCHANGED <<registry, request, active, cronHistory>>

StartCronWorker ==
  /\ phase = "startWorker"
  /\ phase' = "up"
  /\ UNCHANGED <<queue, registry, todo, request, active, cronHistory>>

-----------------------------------------------------------------------------
(* registerCron: the registry, which refuses a name it has, then the queue. *)
RegisterCron(s) ==
  /\ Up /\ request.op = "none"
  /\ s.name \notin Known
  /\ registry' = [n \in Known \cup {s.name} |-> IF n = s.name THEN s.pattern ELSE registry[n]]
  /\ request' = [op |-> "register", on |-> {s}]
  /\ kept' = kept \cup {s}
  /\ UNCHANGED <<queue, phase, todo, active, boots, removed, orphanRuns>>

(* removeCron looks for the first schedule of the name; the registry keeps  *)
(* it, so that it can't be registered again before a restart.               *)
RemoveCron(n) ==
  /\ Up /\ request.op = "none"
  /\ \E s \in repeatables : s.name = n /\ request' = [op |-> "remove", on |-> {s}]
  /\ removed' = removed \cup {n}
  /\ UNCHANGED <<queue, registry, phase, todo, active, boots, kept, orphanRuns>>

FinishRequest ==
  /\ request.op # "none"
  /\ \E s \in request.on :
       IF request.op = "register" THEN Add(s)
       ELSE repeatables' = repeatables \ {s} /\ UNCHANGED jobs
  /\ request' = NoRequest
  /\ UNCHANGED <<registry, phase, todo, active, cronHistory>>

(* The worker takes a job whose time has come; while its schedule is there  *)
(* the next one is made.  A name without a handler only leaves a warning.   *)
RunCronJob ==
  /\ phase = "up" /\ active = {}
  /\ \E s \in jobs :
       /\ active' = {s}
       /\ jobs' = IF s \in repeatables THEN jobs ELSE jobs \ {s}
       /\ orphanRuns' = (orphanRuns \/ s.name \notin Known)
  /\ UNCHANGED <<repeatables, registry, phase, todo, request, boots, removed, kept>>

(* The handler returns or throws.                                           *)
CronJobEnds ==
  /\ active # {} /\ phase = "up"
  /\ active' = {}
  /\ UNCHANGED <<queue, registry, phase, todo, request, cronHistory>>

(* Nothing closes the cron worker: a job it runs is given to the next one.  *)
Stop ==
  /\ phase # "down"
  /\ phase' = "down" /\ todo' = {} /\ request' = NoRequest
  /\ active' = {}
  /\ jobs' = jobs \cup active
  /\ UNCHANGED <<repeatables, registry, cronHistory>>

-----------------------------------------------------------------------------
CjNext ==
  \/ \E code \in Code : Boot(code)
  \/ ListRepeatables \/ CleanupOrphanRepeatable \/ ListJobs \/ CleanupOrphanJob
  \/ RegisterCronJob \/ StartCronWorker
  \/ \E s \in Schedule : RegisterCron(s)
  \/ \E n \in Name : RemoveCron(n)
  \/ FinishRequest \/ RunCronJob \/ CronJobEnds \/ Stop

CjSpec == CjInit /\ [][CjNext]_cjVars

-----------------------------------------------------------------------------
(* The worker never takes a job of a cron that is not in the code, wherever *)
(* an earlier start was cut short.                                          *)
OrphansNeverRun == ~orphanRuns

(* Once started, every cron of the code is scheduled and has its next job,  *)
(* unless removeCron took it away or registerCron is still adding it.       *)
CronsScheduled ==
  phase = "up" => \A s \in Registered :
    s.name \in removed \/ s \in request.on \/ (s \in repeatables /\ s \in jobs)

(* A cron runs on one schedule, unless its pattern was changed while it kept*)
(* its name: the cleanup compares names only, so the old schedule stays.    *)
OneScheduleUnlessRepatterned ==
  phase = "up" => \A s, t \in repeatables :
    s.name = t.name => s = t \/ {s, t} \subseteq kept
=============================================================================
