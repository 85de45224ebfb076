------------------------------ MODULE Session ------------------------------
(***************************************************************************)
(* Login sessions kept in Redis: session.service.ts (create, touch,        *)
(* delete, validate), jwt-issuer.helper.ts (token issue), session.guard.ts *)
(* (admission of a request) and the credential state the guard compares    *)
(* with (op-user-shared.service.ts, credential-check.service.ts).          *)
(*                                                                         *)
(* One (system, account) pair is modelled: every Redis key carries both,   *)
(* so two pairs never share a key.  A jti is used by one login only        *)
(* (randomUUID).  Every Redis command is a step of its own, since every    *)
(* one of them is awaited; logins, requests and the touch a request leaves *)
(* behind interleave freely.  Time is counted in ticks of a fraction of a  *)
(* second, because the code truncates some instants to seconds.            *)
(***************************************************************************)
EXTENDS Naturals, FiniteSets

CONSTANTS
  Jti,              \* token identifiers, one per login
  Requests,         \* request slots of the client(s); a slot is reusable
  Resets,           \* slots of the calls that reset the password, reusable
  None,             \* an absent Redis value
  KickOutEnable,    \* config session.kickOutEnable
  CheckerPresent,   \* a CREDENTIAL_CHECKER provider is registered
  QueryMayFail,     \* the credential queries may fail (they then answer null)
  TicksPerSec,      \* clock resolution
  MaxTime,          \* config session.maxTime (seconds)
  Grace,            \* the 3600 s added to maxTime for the Redis TTL
  KickTtl,          \* the 86400 s a kicked session is kept
  Debounce,         \* config session.debounceTime (seconds)
  MaxTick           \* bound of the clock

SessionRec == [last : Nat, kicked : BOOLEAN, exp : Nat]
LookupRec  == [jti : Jti, exp : Nat]

ASSUME ClockAssumption ==
  /\ TicksPerSec \in Nat \ {0}
  /\ MaxTime \in Nat /\ Grace \in Nat /\ KickTtl \in Nat
  /\ Debounce \in Nat /\ MaxTick \in Nat

ASSUME FlagAssumption ==
  /\ KickOutEnable \in BOOLEAN
  /\ CheckerPresent \in BOOLEAN
  /\ QueryMayFail \in BOOLEAN

ASSUME NoneAssumption ==
  None \notin Jti /\ None \notin SessionRec /\ None \notin LookupRec

VARIABLES
  tick,       \* the clock shared by the processes, Redis and PostgreSQL
  data,       \* data[j]: the session record under the data key of j, or None
  lookup,     \* the record under the account's lookup key, or None
  lock,       \* lock[j]: expiry of the debounce key of j, 0 when absent
  resetAt,    \* committed passwordResetAt, 0 when null
  resetting,  \* resetting[x]: the Date taken by an open reset transaction, or 0
  latest,     \* history: the latest Date of the resets committed so far
  overlapped, \* history: the Dates of the resets open together with another one
  status,     \* account status column
  login,      \* login[j]: progress of the issue() call that mints j
  req         \* req[r]: progress of the request in slot r

vars == <<tick, data, lookup, lock, resetAt, resetting, latest, overlapped, status,
          login, req>>

redis  == <<data, lookup, lock>>
cred   == <<resetAt, resetting, latest, overlapped, status>>

LoginPc == {"idle", "lookup", "old", "mark", "store", "point", "issued", "failed"}
ReqPc == {"done", "get", "delGet", "delLookup", "del", "credential", "status",
          "exists", "lock", "touchGet", "touchSet"}
Outcome == {"none", "ok", "invalid", "kicked", "timeout", "credential",
            "disabled", "error"}

(* "prior" and "reset" are history fields: no step reads them.  "reset" is  *)
(* the latest reset committed when the request began.                       *)
LoginRec == [pc : LoginPc, at : Nat, old : Jti \cup {None},
             snap : SessionRec \cup {None}, prior : SUBSET Jti]
ReqRec == [pc : ReqPc, jti : Jti \cup {None}, snap : SessionRec \cup {None},
           mine : BOOLEAN, res : Outcome, reset : Nat]

Sec(t) == t \div TicksPerSec
(* Mutant: the hour after maxTime is forgotten. *)
RedisTtlWithoutGrace == MaxTime
RedisTtl == MaxTime + Grace
Expiry(ttl) == tick + ttl * TicksPerSec

TypeOK ==
  /\ tick \in Nat
  /\ data \in [Jti -> SessionRec \cup {None}]
  /\ lookup \in LookupRec \cup {None}
  /\ lock \in [Jti -> Nat]
  /\ resetAt \in Nat
  /\ resetting \in [Resets -> Nat]
  /\ latest \in Nat
  /\ overlapped \in SUBSET Nat
  /\ status \in {"active", "disabled"}
  /\ login \in [Jti -> LoginRec]
  /\ req \in [Requests -> ReqRec]

Init ==
  /\ tick = 1
  /\ data = [j \in Jti |-> None]
  /\ lookup = None
  /\ lock = [j \in Jti |-> 0]
  /\ resetAt = 0
  /\ resetting = [x \in Resets |-> 0]
  /\ latest = 0
  /\ overlapped = {}
  /\ status = "active"
  /\ login = [j \in Jti |-> [pc |-> "idle", at |-> 0, old |-> None,
                             snap |-> None, prior |-> {}]]
  /\ req = [r \in Requests |-> [pc |-> "done", jti |-> None, snap |-> None,
                                mine |-> FALSE, res |-> "none", reset |-> 0]]

-----------------------------------------------------------------------------
(* Login: JwtIssuer.issue, which awaits SessionService.createSession.       *)

Issued == {j \in Jti : login[j].pc = "issued"}

(* issue() takes "now" (iat, createdAt, lastActivityAt) in one synchronous  *)
(* slice and reaches the first Redis command of createSession.              *)
LoginStart(j) ==
  /\ login[j].pc = "idle"
  /\ login' = [login EXCEPT ![j] =
                 [@ EXCEPT !.pc = IF KickOutEnable THEN "lookup" ELSE "store",
                           !.at = tick,
                           !.prior = Issued]]
  /\ UNCHANGED <<tick, redis, cred, req>>

(* Mutant: the whole lookup value is taken for the old jti. *)
ReadLookupWhole(j) ==
  /\ login[j].pc = "lookup"
  /\ login' = IF lookup = None
              THEN [login EXCEPT ![j].pc = "store"]
              ELSE [login EXCEPT ![j] = [@ EXCEPT !.pc = "old", !.old = lookup]]
  /\ UNCHANGED <<tick, redis, cred, req>>

ReadLookup(j) ==
  /\ login[j].pc = "lookup"
  /\ login' = IF lookup = None
              THEN [login EXCEPT ![j].pc = "store"]
              ELSE [login EXCEPT ![j] = [@ EXCEPT !.pc = "old", !.old = lookup.jti]]
  /\ UNCHANGED <<tick, redis, cred, req>>

ReadOld(j) ==
  /\ login[j].pc = "old"
  /\ LET s == data[login[j].old] IN
       login' = [login EXCEPT ![j] =
                   [@ EXCEPT !.pc = IF s = None THEN "store" ELSE "mark", !.snap = s]]
  /\ UNCHANGED <<tick, redis, cred, req>>

(* Mutant: the copy is written back without the mark. *)
UnmarkedCopy(s) == [s EXCEPT !.exp = Expiry(KickTtl)]

KickedCopy(s) == [s EXCEPT !.kicked = TRUE, !.exp = Expiry(KickTtl)]

MarkKicked(j) ==
  /\ login[j].pc = "mark"
  /\ data' = [data EXCEPT ![login[j].old] = KickedCopy(login[j].snap)]
  /\ login' = [login EXCEPT ![j].pc = "store"]
  /\ UNCHANGED <<tick, lookup, lock, cred, req>>

(* Mutant: the new session is spread from the old, marked one. *)
InheritedSession(j) ==
  [last |-> Sec(login[j].at), kicked |-> login[j].snap # None,
   exp |-> Expiry(RedisTtl)]

NewSession(j) ==
  [last |-> Sec(login[j].at), kicked |-> FALSE, exp |-> Expiry(RedisTtl)]

StoreSession(j) ==
  /\ login[j].pc = "store"
  /\ data' = [data EXCEPT ![j] = NewSession(j)]
  /\ login' = [login EXCEPT ![j].pc = IF KickOutEnable THEN "point" ELSE "issued"]
  /\ UNCHANGED <<tick, lookup, lock, cred, req>>

(* Mutant: the lookup key lives for maxTime only. *)
PointLookupBriefly(j) ==
  /\ login[j].pc = "point"
  /\ lookup' = [jti |-> j, exp |-> Expiry(MaxTime)]
  /\ login' = [login EXCEPT ![j].pc = "issued"]
  /\ UNCHANGED <<tick, data, lock, cred, req>>

PointLookup(j) ==
  /\ login[j].pc = "point"
  /\ lookup' = [jti |-> j, exp |-> Expiry(RedisTtl)]
  /\ login' = [login EXCEPT ![j].pc = "issued"]
  /\ UNCHANGED <<tick, data, lock, cred, req>>

(* A Redis command rejects (commandTimeout) or the process dies: issue()    *)
(* throws, no token reaches the client, and what was written stays.         *)
LoginFail(j) ==
  /\ login[j].pc \in {"lookup", "old", "mark", "store", "point"}
  /\ login' = [login EXCEPT ![j].pc = "failed"]
  /\ UNCHANGED <<tick, redis, cred, req>>

-----------------------------------------------------------------------------
(* A request with token j: SessionGuard.canActivate.                        *)

RequestStart(r, j) ==
  /\ req[r].pc = "done"
  /\ login[j].pc = "issued"
  /\ req' = [req EXCEPT ![r] = [pc |-> "get", jti |-> j, snap |-> None,
                                mine |-> FALSE, res |-> "none", reset |-> latest]]
  /\ UNCHANGED <<tick, redis, cred, login>>

TimedOut(s) == Sec(tick) > s.last + MaxTime

Goto(r, pc, res) ==
  req' = [req EXCEPT ![r] = [@ EXCEPT !.pc = pc, !.res = res, !.snap = None]]

(* validateSession: the verdict is fixed by this read; a rejection by kick  *)
(* or timeout is thrown after deleteSession has run.                        *)
Validate(r) ==
  /\ req[r].pc = "get"
  /\ LET s == data[req[r].jti] IN
       \/ s = None /\ Goto(r, "done", "invalid")
       \/ s # None /\ s.kicked /\ Goto(r, "delGet", "kicked")
       \/ s # None /\ ~s.kicked /\ TimedOut(s) /\ Goto(r, "delGet", "timeout")
       \/ /\ s # None /\ ~s.kicked /\ ~TimedOut(s)
          /\ IF CheckerPresent THEN Goto(r, "credential", "none")
                               ELSE Goto(r, "exists", "ok")
  /\ UNCHANGED <<tick, redis, cred, login>>

DeleteRead(r) ==
  /\ req[r].pc = "delGet"
  /\ Goto(r, IF data[req[r].jti] = None THEN "done" ELSE "delLookup", req[r].res)
  /\ UNCHANGED <<tick, redis, cred, login>>

DeleteLookup(r) ==
  /\ req[r].pc = "delLookup"
  /\ req' = [req EXCEPT ![r] =
               [@ EXCEPT !.pc = "del",
                         !.mine = (lookup # None /\ lookup.jti = req[r].jti)]]
  /\ UNCHANGED <<tick, redis, cred, login>>

DeleteKeys(r) ==
  /\ req[r].pc = "del"
  /\ data' = [data EXCEPT ![req[r].jti] = None]
  /\ lookup' = IF req[r].mine THEN None ELSE lookup
  /\ Goto(r, "done", req[r].res)
  /\ UNCHANGED <<tick, lock, cred, login>>

(* Mutant: < where the guard has <=. *)
RevokedBefore(reset, j) == reset # 0 /\ Sec(login[j].at) < Sec(reset)

RevokedBy(reset, j) == reset # 0 /\ Sec(login[j].at) <= Sec(reset)

(* Segment 2 of the guard; a failed query answers null and is skipped. *)
CheckCredential(r) ==
  /\ req[r].pc = "credential"
  /\ \/ RevokedBy(resetAt, req[r].jti) /\ Goto(r, "done", "credential")
     \/ ~RevokedBy(resetAt, req[r].jti) /\ Goto(r, "status", "none")
     \/ QueryMayFail /\ Goto(r, "status", "none")
  /\ UNCHANGED <<tick, redis, cred, login>>

(* Segment 3; a pass admits the request, and the touch goes on without it. *)
CheckStatus(r) ==
  /\ req[r].pc = "status"
  /\ \/ status # "active" /\ Goto(r, "done", "disabled")
     \/ status = "active" /\ Goto(r, "exists", "ok")
     \/ QueryMayFail /\ Goto(r, "exists", "ok")
  /\ UNCHANGED <<tick, redis, cred, login>>

(* updateLastActivity *)
TouchExists(r) ==
  /\ req[r].pc = "exists"
  /\ Goto(r, IF lock[req[r].jti] # 0 THEN "done" ELSE "lock", req[r].res)
  /\ UNCHANGED <<tick, redis, cred, login>>

TouchLock(r) ==
  /\ req[r].pc = "lock"
  /\ lock' = [lock EXCEPT ![req[r].jti] = Expiry(Debounce)]
  /\ Goto(r, "touchGet", req[r].res)
  /\ UNCHANGED <<tick, data, lookup, cred, login>>

TouchGet(r) ==
  /\ req[r].pc = "touchGet"
  /\ LET s == data[req[r].jti] IN
       IF s = None
       THEN Goto(r, "done", req[r].res)
       ELSE req' = [req EXCEPT ![r] =
                      [@ EXCEPT !.pc = "touchSet",
                                !.snap = [s EXCEPT !.last = Sec(tick)]]]
  /\ UNCHANGED <<tick, redis, cred, login>>

TouchSet(r) ==
  /\ req[r].pc = "touchSet"
  /\ data' = [data EXCEPT ![req[r].jti] =
                [req[r].snap EXCEPT !.exp = Expiry(RedisTtl)]]
  /\ Goto(r, "done", req[r].res)
  /\ UNCHANGED <<tick, lookup, lock, cred, login>>

(* A rejected Redis command: swallowed by the guard's catch in the touch,   *)
(* an error response while the session is validated or deleted.             *)
RequestFail(r) ==
  /\ \/ req[r].pc \in {"get", "delGet", "delLookup", "del"} /\ Goto(r, "done", "error")
     \/ req[r].pc \in {"exists", "lock", "touchGet", "touchSet"}
        /\ Goto(r, "done", req[r].res)
  /\ UNCHANGED <<tick, redis, cred, login>>

-----------------------------------------------------------------------------
(* Account administration and time.                                         *)

(* resetOpUserPassword takes new Date() inside the transaction, and no lock *)
(* before its save: resets may overlap ...                                  *)
ResetBegin(x) ==
  /\ resetting[x] = 0
  /\ resetting' = [resetting EXCEPT ![x] = tick]
  /\ LET others == {resetting[y] : y \in Resets \ {x}} \ {0} IN
       overlapped' = IF others = {} THEN overlapped ELSE overlapped \cup others \cup {tick}
  /\ UNCHANGED <<tick, redis, resetAt, latest, status, login, req>>

(* ... and commit in any order: the guard compares with the Date of the one *)
(* that committed last, be it the earlier one.                              *)
ResetCommit(x) ==
  /\ resetting[x] # 0
  /\ resetAt' = resetting[x]
  /\ latest' = IF latest < resetting[x] THEN resetting[x] ELSE latest
  /\ resetting' = [resetting EXCEPT ![x] = 0]
  /\ UNCHANGED <<tick, redis, overlapped, status, login, req>>

(* The transaction is rolled back, or the process dies. *)
ResetFail(x) ==
  /\ resetting[x] # 0
  /\ resetting' = [resetting EXCEPT ![x] = 0]
  /\ UNCHANGED <<tick, redis, resetAt, latest, overlapped, status, login, req>>

SetStatus(s) ==
  /\ status' = s
  /\ UNCHANGED <<tick, redis, resetAt, resetting, latest, overlapped, login, req>>

(* The clock advances and Redis drops the keys whose TTL has run out. *)
Tick ==
  /\ tick < MaxTick
  /\ tick' = tick + 1
  /\ data' = [j \in Jti |-> IF data[j] # None /\ data[j].exp <= tick'
                            THEN None ELSE data[j]]
  /\ lookup' = IF lookup # None /\ lookup.exp <= tick' THEN None ELSE lookup
  /\ lock' = [j \in Jti |-> IF lock[j] <= tick' THEN 0 ELSE lock[j]]
  /\ UNCHANGED <<cred, login, req>>

LoginStep(j) ==
  \/ LoginStart(j) \/ ReadLookup(j) \/ ReadOld(j) \/ MarkKicked(j)
  \/ StoreSession(j) \/ PointLookup(j) \/ LoginFail(j)

RequestStep(r) ==
  \/ \E j \in Jti : RequestStart(r, j)
  \/ Validate(r)
  \/ DeleteRead(r) \/ DeleteLookup(r) \/ DeleteKeys(r)
  \/ CheckCredential(r) \/ CheckStatus(r)
  \/ TouchExists(r) \/ TouchLock(r) \/ TouchGet(r) \/ TouchSet(r)
  \/ RequestFail(r)

ResetStep(x) == ResetBegin(x) \/ ResetCommit(x) \/ ResetFail(x)

Next ==
  \/ \E j \in Jti : LoginStep(j)
  \/ \E r \in Requests : RequestStep(r)
  \/ \E x \in Resets : ResetStep(x)
  \/ \E s \in {"active", "disabled"} : SetStatus(s)
  \/ Tick

Spec == Init /\ [][Next]_vars

-----------------------------------------------------------------------------
(* Safety.                                                                  *)

Live(j) == data[j] # None /\ ~data[j].kicked

(* A session carries the kick mark, in Redis or in a copy somebody is about *)
(* to write back, only if another login has got past the marking step: no   *)
(* login ever kicks the session it is creating (createSession reads the     *)
(* lookup key before it writes it), and nothing else marks a session.       *)
Kicker(j) == \E k \in Jti \ {j} : login[k].old = j
KickIsByAnotherLogin ==
  /\ \A j \in Jti : data[j] # None /\ data[j].kicked => Kicker(j)
  /\ \A r \in Requests : req[r].snap # None /\ req[r].snap.kicked
                           => Kicker(req[r].jti)

(* The Redis TTL of a session outlasts its idle limit by the grace period,  *)
(* so that an idle session is answered with "timeout" and not with          *)
(* "invalid" (session.service.ts:79); a late touch never shortens it.       *)
TtlOutlastsIdleLimit ==
  \A j \in Jti : Live(j) =>
    data[j].exp >= (data[j].last + MaxTime + Grace) * TicksPerSec

(* A token issued no later than a password reset is never admitted by a     *)
(* request that begins after the reset committed, although the token's iat  *)
(* and the reset time are both truncated to seconds (session.guard.ts:115), *)
(* unless resets overlapped: the one with the earlier Date may commit last, *)
(* and then tokens younger than that Date pass again.                       *)
RevokedNeverAdmitted ==
  (CheckerPresent /\ ~QueryMayFail) =>
    \A r \in Requests :
      (req[r].res = "ok" /\ req[r].reset # 0) =>
        \/ login[req[r].jti].at > req[r].reset
        \/ \E d \in overlapped : Sec(d) < Sec(login[req[r].jti].at)

(* A session that is kicked, deleted or expired comes back into force only  *)
(* when its own login stores it or when a touch that had read it before     *)
(* writes its stale copy back; no other step revives it.                    *)
OnlyTouchRevives ==
  [][\A j \in Jti : (~Live(j) /\ Live(j)') =>
       \/ login[j].pc = "store"
       \/ \E r \in Requests :
            /\ req[r].pc = "touchSet" /\ req[r].jti = j
            /\ ~req[r].snap.kicked]_vars

(* A login that began after another one was issued, and before the lookup   *)
(* key written by that one ran out, has put the older session out of force  *)
(* (session.service.ts:50), when logins, requests and touches run one at a  *)
(* time.  Touches do not renew the lookup key: without the time limit it is *)
(* false.                                                                   *)
LaterLoginKicksWithinTtl ==
  KickOutEnable =>
    \A k \in Issued : \A j \in login[k].prior :
      login[k].at < login[j].at + RedisTtl * TicksPerSec => ~Live(j)

(* A kicked session is told so on its next access (session.service.ts:53):  *)
(* once a login that marked it has been issued, it is not admitted.         *)
KickMarkSticks ==
  [][\A j \in Jti : (data[j] # None /\ data[j].kicked) => ~Live(j)']_vars

(* A token issued after a password change is unaffected by it               *)
(* (session.guard.ts:118).                                                  *)
NewTokenUnaffected ==
  \A r \in Requests :
    req[r].res = "credential" => login[req[r].jti].at <= latest
=============================================================================
