------------------------------- MODULE Health -------------------------------
(* HealthService.readiness: the report of all checks, computed once for the *)
(* requests that ask at the same time, cached for a while, with a timeout   *)
(* on each check.  Time passes in ticks; a timer that is due fires before   *)
(* the next tick.                                                           *)
EXTENDS Naturals, FiniteSets

CONSTANTS Request, None,
  Critical, Optional,     \* names of the checks
  CacheTtl, CheckTimeout  \* cacheTtlMs and checkTimeoutMs, in ticks

VARIABLES
  dependency,   \* what each check looks at
  age,          \* how long it has been in trouble, or out of service, or has not
  cache,        \* the last report and how long it has to live
  inflight,     \* the computation in progress and how long it has run
  waiting       \* how long each request has waited for it

hlVars == <<dependency, age, cache, inflight, waiting>>
-----------------------------------------------------------------------------
Check == Critical \cup Optional
(* A dependency that hangs answers neither way.                             *)
Condition == {"up", "degraded", "down", "hang"}
Severity == {"trouble", "outage"}
Suffers(k, s) == IF k = "trouble" THEN s # "up" ELSE s \in {"down", "hang"}
(* Ages beyond the limit are alike: see TroubleShows. *)
Limit == CacheTtl + CheckTimeout
LongAgo == Limit + 1

HlInit ==
  /\ dependency = [t \in Check |-> "up"]
  /\ age = [x \in Severity \X Check |-> LongAgo]
  /\ cache = None /\ inflight = None
  /\ waiting = [r \in Request |-> None]

(* A business indicator, which is critical unless it says otherwise, may say*)
(* degraded; the built-in checks, all of them critical, never do.           *)
Changes(t, s) ==
  /\ dependency[t] # s
  /\ dependency' = [dependency EXCEPT ![t] = s]
  /\ age' = [x \in Severity \X Check |->
       IF x[2] = t /\ Suffers(x[1], s) # Suffers(x[1], dependency[t]) THEN 0 ELSE age[x]]
  /\ UNCHANGED <<cache, inflight, waiting>>

Cached == cache # None

(* Mutant: a second computation takes the place of the first. *)
NeverJoins == FALSE
Joins == inflight # None
(* readiness: the cached report, or that of the computation in progress, or *)
(* a new one.                                                               *)
Readiness(r) ==
  /\ waiting[r] = None /\ ~Cached
  /\ waiting' = [waiting EXCEPT ![r] = 0]
  /\ inflight' = IF Joins THEN inflight
                 ELSE [ran |-> 0, results |-> [t \in Check |-> None]]
  /\ UNCHANGED <<dependency, age, cache>>

(* compute: any critical check down is down, any other trouble degraded.    *)
Overall(results) ==
  IF \E t \in Critical : results[t] = "down" THEN "down"
  ELSE IF \E t \in Check : results[t] # "up" THEN "degraded" ELSE "up"

(* A check has settled; the last one makes the report, which is cached and  *)
(* answered to all that wait.                                               *)
Settled(t, s) ==
  LET results == [inflight.results EXCEPT ![t] = s]
  IN IF \E u \in Check : results[u] = None
     THEN /\ inflight' = [inflight EXCEPT !.results = results]
          /\ UNCHANGED <<cache, waiting>>
     ELSE /\ cache' = [results |-> results, status |-> Overall(results),
                       ttl |-> CacheTtl]
          /\ inflight' = None
          /\ waiting' = [r \in Request |-> None]

Pending(t) == inflight # None /\ inflight.results[t] = None

(* The check answers or throws, which counts as down.                       *)
Completes(t) ==
  /\ Pending(t) /\ dependency[t] # "hang"
  /\ Settled(t, dependency[t])
  /\ UNCHANGED <<dependency, age>>

(* withTimeout: the answer that comes later is ignored.                     *)
Due == inflight # None /\ inflight.ran >= CheckTimeout
TimesOut(t) ==
  /\ Pending(t) /\ Due
  /\ Settled(t, "down")
  /\ UNCHANGED <<dependency, age>>

Tick ==
  /\ ~Due
  /\ age' = [x \in Severity \X Check |-> IF age[x] = LongAgo THEN LongAgo ELSE age[x] + 1]
  /\ cache' = IF ~Cached \/ cache.ttl = 1 THEN None ELSE [cache EXCEPT !.ttl = @ - 1]
  /\ inflight' = IF inflight = None THEN None ELSE [inflight EXCEPT !.ran = @ + 1]
  /\ waiting' = [r \in Request |-> IF waiting[r] = None THEN None ELSE waiting[r] + 1]
  /\ UNCHANGED dependency

HlNext ==
  \/ Tick
  \/ \E t \in Check : Completes(t) \/ TimesOut(t) \/ \E s \in Condition : Changes(t, s)
  \/ \E r \in Request : Readiness(r)

HlSpec == HlInit /\ [][HlNext]_hlVars
-----------------------------------------------------------------------------
HlTypeOK ==
  /\ dependency \in [Check -> Condition] /\ age \in [Severity \X Check -> 0..LongAgo]
  /\ cache # None => cache.ttl \in 1..CacheTtl /\ cache.status \in Condition

(* No request waits longer than one check may take, whatever hangs and      *)
(* whoever asked before.                                                    *)
AnswersInTime ==
  \A r \in Request : waiting[r] # None => inflight # None /\ waiting[r] <= CheckTimeout

(* A dependency in trouble for longer than a report lives and a check may   *)
(* take is not reported as up, nor the whole as ready; a critical one that  *)
(* has been out of service so long, whether it says so, throws or hangs,    *)
(* takes the whole down, while one that is degraded does not have to.       *)
TroubleShows ==
  Cached => \A t \in Check :
    /\ Suffers("trouble", dependency[t]) /\ age[<<"trouble", t>>] >= Limit
         => cache.results[t] # "up" /\ cache.status # "up"
    /\ t \in Critical /\ Suffers("outage", dependency[t]) /\ age[<<"outage", t>>] >= Limit
         => cache.status = "down"
=============================================================================
