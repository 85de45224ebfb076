-------------------------- MODULE IdentityActivity --------------------------
(* IdentityActiveService: requests record in Redis when an identity was     *)
(* active, a cron job carries it over to identity.last_active_at.  A step   *)
(* is one Redis command or one UPDATE.                                      *)
EXTENDS Naturals

CONSTANTS Recorder, Who, None,
  MaxNow,       \* bound: the clock's last value
  MaxDeaths     \* bound: how many processes may die between two steps

VARIABLES
  now,          \* the clock
  activeAt,     \* identity:lastActive:<id>, for 300 s
  throttled,    \* identity:lastActive:lock:<id>, for 60 s
  dirty,        \* identity:lastActive:dirty_set
  lastActive,   \* identity.last_active_at, 0 for null
  rec,          \* recordActive in progress
  job,          \* syncToDb in progress: one, as the cron queue runs it
  deaths,       \* how many died
  missed        \* history: a time was set late, or the mark of a newer one was
                \* taken off or never set

iaVars == <<now, activeAt, throttled, dirty, lastActive, rec, job, deaths, missed>>

RecRec == [pc : {"idle", "exists", "setActive", "setLock", "sadd"},
           who : Who \cup {None}, at : 0..MaxNow]
JobRec == [pc : {"idle", "mget", "update", "srem"}, ids : SUBSET Who,
           left : SUBSET Who, time : [Who -> 0..MaxNow]]

IaTypeOK ==
  /\ now \in 1..MaxNow
  /\ activeAt \in [Who -> 0..MaxNow]
  /\ throttled \in SUBSET Who /\ dirty \in SUBSET Who
  /\ lastActive \in [Who -> 0..MaxNow]
  /\ rec \in [Recorder -> RecRec]
  /\ job \in JobRec
  /\ deaths \in 0..MaxDeaths
  /\ missed \in SUBSET Who

IdleRec == [pc |-> "idle", who |-> None, at |-> 0]
IdleJob == [pc |-> "idle", ids |-> {}, left |-> {}, time |-> [i \in Who |-> 0]]

IaInit ==
  /\ now = 1
  /\ activeAt = [i \in Who |-> 0]
  /\ throttled = {} /\ dirty = {}
  /\ lastActive = [i \in Who |-> 0]
  /\ rec = [r \in Recorder |-> IdleRec]
  /\ job = IdleJob
  /\ deaths = 0 /\ missed = {}

keys == <<activeAt, throttled, dirty>>
SetRec(r, pc) == rec' = [rec EXCEPT ![r].pc = pc]

RecordActive(r, i) ==
  /\ rec[r].pc = "idle"
  /\ rec' = [rec EXCEPT ![r] = [pc |-> "exists", who |-> i, at |-> 0]]
  /\ UNCHANGED <<now, keys, lastActive, job, deaths, missed>>

(* Throttled: nothing is recorded for a minute.                             *)
CheckThrottle(r) ==
  /\ rec[r].pc = "exists"
  /\ rec' = [rec EXCEPT ![r] = IF rec[r].who \in throttled THEN IdleRec
                               ELSE [rec[r] EXCEPT !.pc = "setActive", !.at = now]]
  /\ UNCHANGED <<now, keys, lastActive, job, deaths, missed>>

SetActive(r) ==
  /\ rec[r].pc = "setActive"
  /\ activeAt' = [activeAt EXCEPT ![rec[r].who] = rec[r].at]
  /\ missed' = IF rec[r].at < now THEN missed \cup {rec[r].who} ELSE missed
  /\ SetRec(r, "setLock")
  /\ UNCHANGED <<now, throttled, dirty, lastActive, job, deaths>>

SetThrottle(r) ==
  /\ rec[r].pc = "setLock"
  /\ throttled' = throttled \cup {rec[r].who}
  /\ SetRec(r, "sadd")
  /\ UNCHANGED <<now, activeAt, dirty, lastActive, job, deaths, missed>>

MarkDirty(r) ==
  /\ rec[r].pc = "sadd"
  /\ dirty' = dirty \cup {rec[r].who}
  /\ rec' = [rec EXCEPT ![r] = IdleRec]
  /\ UNCHANGED <<now, activeAt, throttled, lastActive, job, deaths, missed>>

(* Mutant: the marks are taken off before the times are written. *)
SyncStartUnmarks ==
  /\ job.pc = "idle"
  /\ dirty # {}
  /\ job' = [IdleJob EXCEPT !.pc = "mget", !.ids = dirty, !.left = dirty]
  /\ dirty' = {}
  /\ UNCHANGED <<now, activeAt, throttled, lastActive, rec, deaths, missed>>

(* The cron job: SMEMBERS, MGET, one UPDATE each, SREM.                     *)
SyncStart ==
  /\ job.pc = "idle"
  /\ dirty # {}
  /\ job' = [IdleJob EXCEPT !.pc = "mget", !.ids = dirty, !.left = dirty]
  /\ UNCHANGED <<now, keys, lastActive, rec, deaths, missed>>

SyncReadTimes ==
  /\ job.pc = "mget"
  /\ job' = [job EXCEPT !.pc = "update",
                        !.time = [i \in Who |-> IF i \in job.ids THEN activeAt[i] ELSE 0]]
  /\ UNCHANGED <<now, keys, lastActive, rec, deaths, missed>>

(* A time that has expired by now is replaced by the job's own.             *)
SyncUpdate ==
  /\ job.pc = "update"
  /\ \E i \in job.left :
       /\ lastActive' = [lastActive EXCEPT ![i] = IF job.time[i] = 0 THEN now ELSE job.time[i]]
       /\ job' = [job EXCEPT !.left = job.left \ {i},
                             !.pc = IF job.left = {i} THEN "srem" ELSE "update"]
  /\ UNCHANGED <<now, keys, rec, deaths, missed>>

SyncUnmark ==
  /\ job.pc = "srem"
  /\ dirty' = dirty \ job.ids
  /\ missed' = missed \cup {i \in job.ids : activeAt[i] > lastActive[i]}
  /\ job' = IdleJob
  /\ UNCHANGED <<now, activeAt, throttled, lastActive, rec, deaths>>

RecorderDies(r) ==
  /\ deaths < MaxDeaths
  /\ rec[r].pc # "idle"
  /\ deaths' = deaths + 1
  /\ rec' = [rec EXCEPT ![r] = IdleRec]
  /\ missed' = IF rec[r].pc \in {"setLock", "sadd"} THEN missed \cup {rec[r].who} ELSE missed
  /\ UNCHANGED <<now, keys, lastActive, job>>

JobDies ==
  /\ deaths < MaxDeaths
  /\ job.pc # "idle"
  /\ deaths' = deaths + 1
  /\ job' = IdleJob
  /\ UNCHANGED <<now, keys, lastActive, rec, missed>>

ThrottleExpires(i) ==
  /\ i \in throttled
  /\ throttled' = throttled \ {i}
  /\ UNCHANGED <<now, activeAt, dirty, lastActive, rec, job, deaths, missed>>

(* Its 300 s outlast a run: a time set since the run read the times stays. *)
ActiveExpires(i) ==
  /\ activeAt[i] # 0
  /\ job.pc \in {"update", "srem"} => activeAt[i] = job.time[i]
  /\ activeAt' = [activeAt EXCEPT ![i] = 0]
  /\ UNCHANGED <<now, throttled, dirty, lastActive, rec, job, deaths, missed>>

Tick ==
  /\ now < MaxNow
  /\ now' = now + 1
  /\ UNCHANGED <<keys, lastActive, rec, job, deaths, missed>>

IaNext ==
  \/ \E r \in Recorder, i \in Who : RecordActive(r, i)
  \/ \E r \in Recorder : CheckThrottle(r) \/ SetActive(r) \/ SetThrottle(r)
                           \/ MarkDirty(r) \/ RecorderDies(r)
  \/ SyncStart \/ SyncReadTimes \/ SyncUpdate \/ SyncUnmark \/ JobDies
  \/ \E i \in Who : ThrottleExpires(i) \/ ActiveExpires(i)
  \/ Tick

(* The cron queue starts the job again every five minutes and a run goes on *)
(* until it ends or dies.                                                   *)
IaFairness ==
  /\ WF_iaVars(SyncStart) /\ WF_iaVars(SyncReadTimes)
  /\ WF_iaVars(SyncUpdate) /\ WF_iaVars(SyncUnmark)

IaSpec == IaInit /\ [][IaNext]_iaVars /\ IaFairness

-----------------------------------------------------------------------------

(* What is marked reaches the database, though a run may die on the way: a  *)
(* run takes the mark off only when it has written.  A time set between the *)
(* run's read and its SREM, and one a stalled request sets late, over a     *)
(* newer one, are the exceptions.                                           *)
MarkedTimeLands ==
  \A i \in Who, t \in 1..MaxNow :
    (i \in dirty /\ activeAt[i] = t) ~> (lastActive[i] >= t \/ i \in missed)
=============================================================================
