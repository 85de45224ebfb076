---------------------------- MODULE MCCompletion ----------------------------
(* Model checking of what must eventually be over: calls that wait for each *)
(* other's locks, calls of wrap that wait for a value, a synchronisation of *)
(* activity.  A behaviour is about one of them, its subject; no fair action *)
(* of the others is enabled in their initial states.  Uploads, which take   *)
(* and await no lock, are left out.                                         *)
EXTENDS OssStorage, TLC

CONSTANTS p1, p2, oss1,
  LockTtl, FnTicks, MayFail,   \* CacheService
  MaxNow, MaxDeaths            \* IdentityActivity

VARIABLES
  subject,
  value, holder, lockLeft, call, disturbed,
  now, activeAt, throttled, dirty, lastActive, rec, job, deaths, missed

Cache == INSTANCE CacheService WITH Calls <- Proc, cached <- value
Activity == INSTANCE IdentityActivity WITH Recorder <- Proc, Who <- Code

cacheVars == <<value, holder, lockLeft, call, disturbed>>
activityVars == <<now, activeAt, throttled, dirty, lastActive, rec, job, deaths, missed>>
allVars == <<subject, vars, cacheVars, activityVars>>

CompletionInit ==
  /\ subject \in {"storage", "cache", "activity"}
  /\ Init /\ Cache!CsInit /\ Activity!IaInit

CompletionNext ==
  \/ /\ subject = "storage" /\ Next
     /\ \A p \in Proc : op'[p].pc # "get"
     /\ UNCHANGED <<subject, cacheVars, activityVars>>
  \/ subject = "cache" /\ Cache!CsNext /\ UNCHANGED <<subject, vars, activityVars>>
  \/ subject = "activity" /\ Activity!IaNext /\ UNCHANGED <<subject, vars, cacheVars>>

CompletionSpec ==
  /\ CompletionInit /\ [][CompletionNext]_allVars
  /\ Fairness /\ Cache!CsFairness /\ Activity!IaFairness

EveryWrapEnds == Cache!EveryWrapEnds
(* A marked activity time reaches the database. *)
MarkedTimeLands == []Activity!IaTypeOK /\ Activity!MarkedTimeLands
=============================================================================
