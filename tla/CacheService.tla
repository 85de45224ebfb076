---------------------------- MODULE CacheService ----------------------------
(* CacheService.wrap on one key with the single-flight lock that lets one   *)
(* of many concurrent misses compute the value.  A step is one Redis        *)
(* command or the callback fn.  Time is counted in ticks: the lock, the     *)
(* callback and the waiters have their lengths, a Redis command takes less  *)
(* than a tick.  (Without the option every miss computes and writes.)       *)
EXTENDS Naturals, FiniteSets

CONSTANTS
  Calls,        \* concurrent calls of wrap
  None,         \* no value, no holder
  LockTtl,      \* lockTtlSec
  FnTicks,      \* the longest fn may take, below LockTtl (doc of the option)
  MayFail       \* Redis may answer an error, a process may die, fn may throw

VARIABLES
  cached,       \* the value under the key, or None
  holder,       \* the token under `${key}:lock`: the call that set it, or None
  lockLeft,     \* ticks until the lock expires
  call,         \* the calls in progress
  disturbed     \* history: an error, a crash, an unless or an eviction occurred

csVars == <<cached, holder, lockLeft, call, disturbed>>

Waiting  == {"poll"}
Holding  == {"recheck", "compute", "persist", "releaseGet", "releaseDel"}
Fallback == {"fallback", "fallbackPersist"}
CallPc   == {"idle", "get", "acquire", "answered", "failed", "dead"}
              \cup Waiting \cup Holding \cup Fallback

(* waitTimeoutMs ?? lockTtlSec * 1000 + 2000: longer than the lock lives.   *)
WaitTimeout == LockTtl + 2

CallRec == [pc : CallPc, left : 0..WaitTimeout, seen : Calls \cup {None}]

CsTypeOK ==
  /\ cached \in {None, "value"}
  /\ holder \in Calls \cup {None}
  /\ lockLeft \in 0..LockTtl
  /\ call \in [Calls -> CallRec]
  /\ disturbed \in BOOLEAN

CsInit ==
  /\ cached = None
  /\ holder = None
  /\ lockLeft = 0
  /\ call = [c \in Calls |-> [pc |-> "idle", left |-> 0, seen |-> None]]
  /\ disturbed = FALSE

Move(c, pc) == call' = [call EXCEPT ![c].pc = pc]
Work(c, pc) == call' = [call EXCEPT ![c].pc = pc, ![c].left = FnTicks]

(* The fast path: a hit answers, a miss goes for the lock.                  *)
Start(c) ==
  /\ call[c].pc = "idle"
  /\ Move(c, "get")
  /\ UNCHANGED <<cached, holder, lockLeft, disturbed>>

Get(c) ==
  /\ call[c].pc = "get"
  /\ Move(c, IF cached # None THEN "answered" ELSE "acquire")
  /\ UNCHANGED <<cached, holder, lockLeft, disturbed>>

(* An error of GET is thrown; the holder's is thrown after the release.     *)
GetError(c) ==
  /\ MayFail
  /\ call[c].pc \in {"get", "recheck"}
  /\ Move(c, IF call[c].pc = "get" THEN "failed" ELSE "releaseGet")
  /\ disturbed' = TRUE
  /\ UNCHANGED <<cached, holder, lockLeft>>

(* SET key token EX ttl NX, one command.                                    *)
AcquireLockWithoutNx(c) ==
  /\ call[c].pc = "acquire"
  /\ holder' = c
  /\ lockLeft' = LockTtl
  /\ Move(c, "recheck")
  /\ UNCHANGED <<cached, disturbed>>

AcquireLock(c) ==
  /\ call[c].pc = "acquire"
  /\ IF holder = None
       THEN /\ holder' = c
            /\ lockLeft' = LockTtl
            /\ Move(c, "recheck")
       ELSE /\ call' = [call EXCEPT ![c] =
                 [pc |-> "poll", left |-> WaitTimeout, seen |-> holder]]
            /\ UNCHANGED <<holder, lockLeft>>
  /\ UNCHANGED <<cached, disturbed>>

(* A Redis error on acquiring degrades to computing without the lock.       *)
AcquireError(c) ==
  /\ MayFail
  /\ call[c].pc = "acquire"
  /\ Work(c, "fallback")
  /\ disturbed' = TRUE
  /\ UNCHANGED <<cached, holder, lockLeft>>

(* The holder looks again before it computes.                               *)
Recheck(c) ==
  /\ call[c].pc = "recheck"
  /\ IF cached # None THEN Move(c, "releaseGet") ELSE Work(c, "compute")
  /\ UNCHANGED <<cached, holder, lockLeft, disturbed>>

(* fn answers.                                                              *)
FnAnswers(c) ==
  /\ call[c].pc \in {"compute", "fallback"}
  /\ Move(c, IF call[c].pc = "compute" THEN "persist" ELSE "fallbackPersist")
  /\ UNCHANGED <<cached, holder, lockLeft, disturbed>>

AfterPersist(c) ==
  Move(c, IF call[c].pc = "persist" THEN "releaseGet" ELSE "answered")

Persist(c) ==
  /\ call[c].pc \in {"persist", "fallbackPersist"}
  /\ cached' = "value"
  /\ AfterPersist(c)
  /\ UNCHANGED <<holder, lockLeft, disturbed>>

(* `unless` keeps the result out, or SET fails: the call ends either way.   *)
SkipPersist(c) ==
  /\ MayFail
  /\ call[c].pc \in {"persist", "fallbackPersist"}
  /\ disturbed' = TRUE
  /\ AfterPersist(c)
  /\ UNCHANGED <<cached, holder, lockLeft>>

(* fn throws: `finally` releases the lock, the callers waiting are not told.*)
FnThrows(c) ==
  /\ MayFail
  /\ call[c].pc \in {"compute", "fallback"}
  /\ Move(c, IF call[c].pc = "compute" THEN "releaseGet" ELSE "failed")
  /\ disturbed' = TRUE
  /\ UNCHANGED <<cached, holder, lockLeft>>

(* GET, compare, DEL: two commands, the lock may change hands in between.   *)
ReleaseGet(c) ==
  /\ call[c].pc = "releaseGet"
  /\ Move(c, IF holder = c THEN "releaseDel" ELSE "answered")
  /\ UNCHANGED <<cached, holder, lockLeft, disturbed>>

ReleaseDel(c) ==
  /\ call[c].pc = "releaseDel"
  /\ Move(c, "answered")
  /\ holder' = None
  /\ lockLeft' = 0
  /\ UNCHANGED <<cached, disturbed>>

(* An error of either command is swallowed: the lock is left to expire.     *)
ReleaseError(c) ==
  /\ MayFail
  /\ call[c].pc \in {"releaseGet", "releaseDel"}
  /\ Move(c, "answered")
  /\ disturbed' = TRUE
  /\ UNCHANGED <<cached, holder, lockLeft>>

(* A poll that finds the value answers; past the deadline the call computes *)
(* without looking again; the other polls sleep on, which changes nothing.  *)
PollHit(c) ==
  /\ call[c].pc = "poll"
  /\ cached # None
  /\ Move(c, "answered")
  /\ UNCHANGED <<cached, holder, lockLeft, disturbed>>

PollTimeoutSleepsOn(c) ==
  /\ call[c].pc = "poll"
  /\ call[c].left = 0
  /\ call' = [call EXCEPT ![c].left = WaitTimeout]
  /\ UNCHANGED <<cached, holder, lockLeft, disturbed>>

PollTimeout(c) ==
  /\ call[c].pc = "poll"
  /\ call[c].left = 0
  /\ Work(c, "fallback")
  /\ UNCHANGED <<cached, holder, lockLeft, disturbed>>

(* The process that runs the call dies: its lock stays until it expires.    *)
Crash(c) ==
  /\ MayFail
  /\ call[c].pc \notin {"idle", "answered", "failed", "dead"}
  /\ Move(c, "dead")
  /\ disturbed' = TRUE
  /\ UNCHANGED <<cached, holder, lockLeft>>

(* evict, or the end of the value's ttl.                                    *)
Evict ==
  /\ MayFail
  /\ cached # None
  /\ cached' = None
  /\ disturbed' = TRUE
  /\ UNCHANGED <<holder, lockLeft, call>>

Computing(c) == call[c].pc \in {"compute", "fallback"}
AtDeadline(c) == \/ Computing(c) /\ call[c].left = 0
                 \/ call[c].pc = "poll" /\ call[c].left = 0
InCommand(c) == call[c].pc \notin {"idle", "answered", "failed", "dead", "poll"}
                  /\ ~Computing(c)

(* A tick passes when no Redis command is under way, no deadline is due and *)
(* every waiter has polled: the poll interval is shorter than a tick.       *)
CsTick ==
  /\ \E c \in Calls : Computing(c) \/ call[c].pc = "poll"
  /\ \A c \in Calls : ~AtDeadline(c) /\ ~InCommand(c)
  /\ \A c \in Calls : call[c].pc = "poll" => cached = None
  /\ lockLeft' = IF lockLeft > 0 THEN lockLeft - 1 ELSE 0
  /\ holder' = IF lockLeft > 1 THEN holder ELSE None
  /\ call' = [c \in Calls |->
       IF Computing(c) \/ call[c].pc = "poll"
         THEN [call[c] EXCEPT !.left = call[c].left - 1] ELSE call[c]]
  /\ UNCHANGED <<cached, disturbed>>

CallStep(c) ==
  \/ Get(c) \/ GetError(c) \/ AcquireLock(c) \/ AcquireError(c) \/ Recheck(c) \/ FnAnswers(c)
  \/ Persist(c) \/ SkipPersist(c) \/ FnThrows(c) \/ ReleaseGet(c)
  \/ ReleaseDel(c) \/ ReleaseError(c) \/ PollHit(c) \/ PollTimeout(c)

CsNext ==
  \/ \E c \in Calls : Start(c) \/ CallStep(c) \/ Crash(c)
  \/ Evict
  \/ CsTick

CsFairness == /\ \A c \in Calls : WF_csVars(CallStep(c))
              /\ WF_csVars(CsTick)

CsSpec == CsInit /\ [][CsNext]_csVars /\ CsFairness

-----------------------------------------------------------------------------

(* While Redis answers, nobody dies, fn succeeds and nothing is evicted,    *)
(* only one of the concurrent misses computes.                              *)
OneComputation ==
  ~disturbed => Cardinality({c \in Calls : Computing(c)}) <= 1

(* A waiter stops waiting and computes only when the call it waited for has *)
(* stopped computing, whatever went wrong: the wait outlasts the lock.      *)
WaitOutlastsHolder ==
  \A c \in Calls : call[c].pc = "fallback" /\ call[c].seen # None
    => call[call[c].seen].pc # "compute"

(* GET and DEL are two commands, yet no call deletes the lock of another    *)
(* one, as long as fn is shorter than the lock (the bound the code states). *)
DeletesOwnLock ==
  \A c \in Calls : call[c].pc = "releaseDel" => holder = c

(* Every call ends, with the value, an error or its process.                *)
EveryWrapEnds ==
  \A c \in Calls : (call[c].pc = "get") ~> (call[c].pc \in {"answered", "failed", "dead"})
=============================================================================
