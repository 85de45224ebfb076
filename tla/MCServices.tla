----------------------------- MODULE MCServices -----------------------------
(* Model checking of the services of libs/core that keep state in Redis, in *)
(* the database, in queues or with a broker.  They share nothing: a         *)
(* behaviour is about one of them, its subject; the others stand still.     *)
EXTENDS RuntimeConfig, TLC

CONSTANTS p1, p2, p3, v1, m1,
  LockTtl, FnTicks,                   \* CacheService
  Attempts, MaxData, MaxStops,        \* TaskQueue
  Name, Pattern, MaxBoots,            \* CronJobs
  Message, MAX_RETRY, MaxFailures,    \* RabbitAck
  MaxOffset,                          \* KafkaCommit
  MaxCrashes,                         \* RabbitAck, KafkaCommit
  Req, MaxRows, MaxFaults,            \* RequestLogs
  ListedCode, Trees, MaxStarts,       \* ReferenceData
  Critical, Optional, CacheTtl, CheckTimeout,  \* Health
  MaxChanges                          \* RequestGuards

(* What the bounds and the tunables of the services are. *)
ASSUME BrokerAssumption ==
  MaxOffset \in Nat /\ MaxCrashes \in Nat /\ MAX_RETRY \in Nat /\ MaxFailures \in Nat

VARIABLES
  subject,
  cached, holder, lockLeft, wrap, disturbed,
  job, call, worker, handled, drawn, stops, ran, want,
  repeatables, jobs, registry, phase, todo, request, active, boots, removed, kept, orphanRuns,
  rabbit, crashes,
  partition, position, current, offsets, committed, outcome, rebalances,
  mode, byDefault, req, topic, consumed, rows, stored, faults, lost, doubled,
  group, full, map, starter, spoilt, starts,
  dependency, age, report, inflight, waiting,
  facts, admission, held, changes

Cache == INSTANCE CacheService WITH Calls <- Proc \cup {p3}, call <- wrap
Tasks == INSTANCE TaskQueue WITH Caller <- Proc
Cron == INSTANCE CronJobs
Rabbit == INSTANCE RabbitAck
Kafka == INSTANCE KafkaCommit WITH commits <- offsets, crashes <- rebalances
Logs == INSTANCE RequestLogs
Reference == INSTANCE ReferenceData WITH Process <- Proc, Value <- ListedCode, proc <- starter
Healthy == INSTANCE Health WITH Request <- Proc, cache <- report
Guards == INSTANCE RequestGuards WITH req <- admission

(* The option of CacheService asks for a lock that outlives the callback.   *)
ASSUME CacheAssumption ==
  /\ LockTtl \in Nat /\ FnTicks \in Nat /\ FnTicks < LockTtl
  /\ None \notin Proc \cup {p3, "value"}

(* The bounds of the queues. *)
ASSUME QueuesAssumption ==
  MaxBoots \in Nat /\ MaxData \in Nat /\ MaxStops \in Nat /\ Attempts \in Nat

ASSUME LogsAssumption == MaxRows \in Nat /\ MaxFaults \in Nat /\ None \notin Req

(* The files hold trees.  Those of the instance: several codes, a child, a  *)
(* code listed twice, once with its children.                               *)
ASSUME DataAssumption == Trees \subseteq Reference!Tree \ {None} /\ MaxStarts \in Nat
MCTrees ==
  LET Leaf(v) == [value |-> v, depth |-> 1]
      Child(v) == [value |-> v, depth |-> 2]
  IN {<< >>, <<Leaf("a")>>, <<Leaf("a"), Leaf("b")>>, <<Leaf("a"), Child("b")>>,
      <<Leaf("b"), Child("a"), Leaf("a")>>, <<Leaf("a"), Leaf("a"), Child("b")>>}

(* None is null, which is no set of identities and no name of one. *)
ASSUME GuardsAssumption ==
  /\ \A ids \in SUBSET Guards!Identity : None # ids
  /\ None \notin Guards!Identity \cup {"other"} /\ MaxChanges \in Nat

(* A report lives for a while, a check is critical or not, and None is      *)
(* undefined, which is neither a report nor a computation.                  *)
ASSUME HealthAssumption ==
  /\ CacheTtl \in Nat \ {0} /\ CheckTimeout \in Nat /\ Critical \cap Optional = {}
  /\ None \notin Healthy!Condition
  /\ \A n \in 0..CheckTimeout, f \in [Healthy!Check -> Healthy!Condition \cup {None}] :
       [ran |-> n, results |-> f] # None
  /\ \A n \in 1..CacheTtl, s \in Healthy!Condition,
        f \in [Healthy!Check -> Healthy!Condition] :
       [results |-> f, status |-> s, ttl |-> n] # None

cacheVars == <<cached, holder, lockLeft, wrap, disturbed>>
taskVars == <<job, call, worker, handled, drawn, stops, ran, want>>
cronVars == <<repeatables, jobs, registry, phase, todo, request, active, boots,
              removed, kept, orphanRuns>>
rabbitVars == <<rabbit, crashes>>
kafkaVars == <<partition, position, current, offsets, committed, outcome, rebalances>>
logVars == <<mode, byDefault, req, topic, consumed, rows, stored, faults, lost, doubled>>
dataVars == <<group, full, map, starter, spoilt, starts>>
healthVars == <<dependency, age, report, inflight, waiting>>
guardVars == <<facts, admission, held, changes>>
webVars == <<dataVars, healthVars, guardVars>>
allVars == <<subject, vars, cacheVars, taskVars, cronVars, rabbitVars, kafkaVars, logVars,
             webVars>>

ServicesInit ==
  /\ subject \in {"config", "cache", "tasks", "cron", "rabbit", "kafka", "logs", "data",
                  "health", "guards"}
  /\ Init /\ Cache!CsInit /\ Tasks!TqInit /\ Cron!CjInit /\ Rabbit!RqInit
  /\ Kafka!KcInit /\ Logs!RlInit
  /\ Reference!RdInit /\ Healthy!HlInit /\ Guards!RgInit
  /\ subject # "logs" => mode = "kafka" /\ byDefault
  /\ subject # "data" => group = "city"
  /\ subject # "guards" => facts = Guards!Fact

ServicesNext ==
  \/ /\ subject = "config" /\ Next
     /\ UNCHANGED <<subject, cacheVars, taskVars, cronVars,
                    rabbitVars, kafkaVars, logVars, webVars>>
  \/ /\ subject = "cache" /\ Cache!CsNext
     /\ UNCHANGED <<subject, vars, taskVars, cronVars,
                    rabbitVars, kafkaVars, logVars, webVars>>
  \/ /\ subject = "tasks" /\ Tasks!TqNext
     /\ UNCHANGED <<subject, vars, cacheVars, cronVars,
                    rabbitVars, kafkaVars, logVars, webVars>>
  \/ /\ subject = "cron" /\ Cron!CjNext
     /\ UNCHANGED <<subject, vars, cacheVars, taskVars,
                    rabbitVars, kafkaVars, logVars, webVars>>
  \/ /\ subject = "rabbit" /\ Rabbit!RqNext
     /\ UNCHANGED <<subject, vars, cacheVars, taskVars,
                    cronVars, kafkaVars, logVars, webVars>>
  \/ /\ subject = "kafka" /\ Kafka!KcNext
     /\ UNCHANGED <<subject, vars, cacheVars, taskVars,
                    cronVars, rabbitVars, logVars, webVars>>
  \/ /\ subject = "logs" /\ Logs!RlNext
     /\ UNCHANGED <<subject, vars, cacheVars, taskVars,
                    cronVars, rabbitVars, kafkaVars, webVars>>
  \/ /\ subject = "data" /\ Reference!RdNext
     /\ UNCHANGED <<subject, vars, cacheVars, taskVars, cronVars, rabbitVars,
                    kafkaVars, logVars, healthVars, guardVars>>
  \/ /\ subject = "health" /\ Healthy!HlNext
     /\ UNCHANGED <<subject, vars, cacheVars, taskVars, cronVars, rabbitVars,
                    kafkaVars, logVars, dataVars, guardVars>>
  \/ /\ subject = "guards" /\ Guards!RgNext
     /\ UNCHANGED <<subject, vars, cacheVars, taskVars, cronVars, rabbitVars,
                    kafkaVars, logVars, dataVars, healthVars>>

ServicesSpec == ServicesInit /\ [][ServicesNext]_allVars

(* One computation per key and lock holder, waiters that outlast it, and no *)
(* release of a lock that is not one's own.                                 *)
SingleFlight ==
  subject = "cache" =>
  Cache!CsTypeOK /\ Cache!OneComputation /\ Cache!WaitOutlastsHolder /\ Cache!DeletesOwnLock

(* The data of the last answered addTask are not lost; a cron of earlier    *)
(* code never runs, a cron of this code has its schedule, and one only.     *)
QueuesFollowTheCode ==
  /\ subject = "tasks" => Tasks!TqTypeOK /\ Tasks!AnsweredTaskNotLost
  /\ subject = "cron" => /\ Cron!CjTypeOK /\ Cron!OrphansNeverRun /\ Cron!CronsScheduled
                         /\ Cron!OneScheduleUnlessRepatterned

(* A message leaves its RabbitMQ queue only handled or out of retries, and  *)
(* no Kafka offset is committed past a message that nobody processed.       *)
MessagesSettled ==
  /\ subject = "rabbit" => Rabbit!RqTypeOK /\ Rabbit!LeavesHandledOrExhausted
  /\ subject = "kafka" => Kafka!KcTypeOK /\ Kafka!CommittedWasProcessed

(* A request log that fits its columns is stored, once, and the flags an    *)
(* administrator sets at run time decide what it holds.                     *)
LogsKept ==
  subject = "logs" =>
  Logs!RlTypeOK /\ Logs!ShortLogsSaved /\ Logs!SavedOnce /\ Logs!RuntimeOptionWins

(* What a dictionary or the cities list translates to its place, unless     *)
(* refreshes overlapped or broke off.                                       *)
ListedCodesTranslate ==
  subject = "data" => Reference!RdTypeOK /\ Reference!ListedTranslates

(* A request for the health is answered in the time of one check, and a     *)
(* report does not hide a dependency that has been in trouble for long.     *)
HealthIsReported ==
  subject = "health" =>
  Healthy!HlTypeOK /\ Healthy!AnswersInTime /\ Healthy!TroubleShows

(* Only who may reaches the handler, whatever changes between the guards,   *)
(* and who may is not refused.                                              *)
GuardsAdmitAndRefuse ==
  subject = "guards" =>
  Guards!RgTypeOK /\ Guards!AdmittedWasAllowed /\ Guards!RefusedForAReason

(* The promises the runtime configuration keeps while calls do not overlap. *)
SerialPromises == OptimisticLockAlone /\ BuiltinStaysAlone /\ EnsureKeepsValueAlone

MCSymmetry == Permutations(Proc)
=============================================================================
