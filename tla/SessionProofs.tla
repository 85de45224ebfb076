--------------------------- MODULE SessionProofs ---------------------------
(* Theorems about Session for every set of tokens and request slots and     *)
(* every value of the configuration constants.                              *)
EXTENDS MCSession, TLAPS

(* What the program counters guarantee about the other fields of a handler. *)
LoginShape ==
  \A j \in Jti :
    /\ login[j].pc \in {"idle", "lookup"} => login[j].old = None
    /\ login[j].pc \in {"old", "mark"} => login[j].old # None
    /\ login[j].pc = "mark" => login[j].snap # None
    /\ login[j].old # j

ReqShape ==
  \A r \in Requests :
    /\ req[r].pc # "done" => req[r].jti # None
    /\ req[r].pc = "touchSet" => req[r].snap # None
    /\ req[r].snap # None => req[r].jti # None

(* Only issued tokens are in the hands of clients and in the lookup key.    *)
LookupIssued == lookup # None => login[lookup.jti].pc = "issued"

IInv == TypeOK /\ LoginShape /\ ReqShape /\ LookupIssued

(* The initial state satisfies the inductive invariant. *)
LEMMA InitIInv == Init => IInv
  BY NoneAssumption DEF Init, IInv, TypeOK, LoginShape, ReqShape, LookupIssued,
     LoginRec, ReqRec, LoginPc, ReqPc, Outcome

(* A time to live counted from now is a clock value. *)
LEMMA ExpiryNat == ASSUME TypeOK, NEW ttl \in Nat PROVE Expiry(ttl) \in Nat
  BY ClockAssumption DEF TypeOK, Expiry

(* The second an instant falls in is a natural number. *)
LEMMA SecNat == ASSUME NEW t \in Nat PROVE Sec(t) \in Nat
  BY ClockAssumption DEF Sec

(* A login handler moves to a well-formed record that keeps the shape;      *)
(* everything else but its own write stays as it is.                        *)
LEMMA LoginMoves ==
  ASSUME IInv, NEW j \in Jti, NEW n \in LoginRec,
         login' = [login EXCEPT ![j] = n],
         login[j].pc # "issued",
         n.pc \in {"idle", "lookup"} => n.old = None,
         n.pc \in {"old", "mark"} => n.old # None,
         n.pc = "mark" => n.snap # None,
         n.old # j
  PROVE  /\ login' \in [Jti -> LoginRec]
         /\ LoginShape'
         /\ lookup' = lookup => LookupIssued'
<1>1. login' \in [Jti -> LoginRec]
  BY DEF IInv, TypeOK
<1>2. LoginShape'
  BY DEF IInv, TypeOK, LoginShape
<1>3. ASSUME lookup' = lookup PROVE LookupIssued'
  BY <1>3 DEF IInv, TypeOK, LookupIssued, LookupRec
<1> QED
  BY <1>1, <1>2, <1>3

(* Every step of a login preserves the inductive invariant. *)
LEMMA LoginPreserves ==
  ASSUME IInv, NEW j \in Jti, LoginStep(j)
  PROVE  IInv'
<1> USE DEF redis, cred
<1>0. login[j] \in LoginRec /\ j # None
  BY NoneAssumption DEF IInv, TypeOK
<1>a. ASSUME login' \in [Jti -> LoginRec], LoginShape', LookupIssued',
             UNCHANGED <<tick, redis, cred, req>>
      PROVE  IInv'
  BY <1>a DEF IInv, TypeOK, ReqShape
<1>1. CASE LoginStart(j)
  <2> DEFINE n == [login[j] EXCEPT
                     !.pc = IF KickOutEnable THEN "lookup" ELSE "store",
                     !.at = tick, !.prior = Issued]
  <2>1. Issued \in SUBSET Jti /\ tick \in Nat
    BY DEF Issued, IInv, TypeOK
  <2>2. n \in LoginRec /\ n.pc \in {"lookup", "store"} /\ n.old = login[j].old
    BY <1>0, <2>1 DEF LoginRec, LoginPc
  <2>3. n.old = None
    BY <1>1, <2>2 DEF LoginStart, IInv, LoginShape
  <2>4. login' = [login EXCEPT ![j] = n] /\ login[j].pc # "issued"
    BY <1>1 DEF LoginStart
  <2> HIDE DEF n
  <2> QED
    BY <1>0, <1>1, <1>a, <2>2, <2>3, <2>4, LoginMoves DEF LoginStart
<1>2. CASE ReadLookup(j)
  <2>1. CASE lookup = None
    <3> DEFINE n == [login[j] EXCEPT !.pc = "store"]
    <3>1. n \in LoginRec /\ n.pc = "store" /\ n.old = login[j].old
      BY <1>0 DEF LoginRec, LoginPc
    <3>2. n.old # j
      BY <3>1 DEF IInv, LoginShape
    <3>3. login' = [login EXCEPT ![j] = n] /\ login[j].pc # "issued"
      BY <1>2, <2>1, <1>0 DEF ReadLookup, IInv, TypeOK
    <3> HIDE DEF n
    <3> QED
      BY <1>2, <1>a, <3>1, <3>2, <3>3, LoginMoves DEF ReadLookup
  <2>2. CASE lookup # None
    <3> DEFINE n == [login[j] EXCEPT !.pc = "old", !.old = lookup.jti]
    <3>1. lookup.jti \in Jti /\ lookup.jti # j
      BY <1>2, <2>2 DEF IInv, TypeOK, LookupRec, LookupIssued, ReadLookup
    <3>2. n \in LoginRec /\ n.pc = "old" /\ n.old = lookup.jti
      BY <1>0, <3>1 DEF LoginRec, LoginPc
    <3>3. login' = [login EXCEPT ![j] = n] /\ login[j].pc # "issued"
      BY <1>2, <2>2 DEF ReadLookup
    <3> HIDE DEF n
    <3> QED
      BY <1>2, <1>a, <3>1, <3>2, <3>3, LoginMoves, NoneAssumption DEF ReadLookup
  <2> QED
    BY <2>1, <2>2
<1>3. CASE ReadOld(j)
  <2> DEFINE s == data[login[j].old]
             n == [login[j] EXCEPT
                     !.pc = IF s = None THEN "store" ELSE "mark", !.snap = s]
  <2>1. login[j].pc = "old" /\ login[j].old \in Jti /\ login[j].old # j
    BY <1>3, <1>0 DEF ReadOld, IInv, LoginShape, LoginRec
  <2>2. s \in SessionRec \cup {None}
    BY <2>1 DEF IInv, TypeOK
  <2> HIDE DEF s
  <2>3. /\ n \in LoginRec /\ n.old = login[j].old /\ n.snap = s
        /\ n.pc = IF s = None THEN "store" ELSE "mark"
    BY <1>0, <2>2 DEF LoginRec, LoginPc
  <2>4. login' = [login EXCEPT ![j] = n]
    BY <1>3 DEF ReadOld, s
  <2> HIDE DEF n
  <2> QED
    BY <1>3, <1>a, <2>1, <2>3, <2>4, LoginMoves, NoneAssumption DEF ReadOld
<1>4. CASE MarkKicked(j)
  <2> DEFINE n == [login[j] EXCEPT !.pc = "store"]
  <2>1. login[j].snap \in SessionRec /\ login[j].old \in Jti /\ login[j].old # j
    BY <1>0, <1>4 DEF MarkKicked, IInv, LoginShape, LoginRec
  <2>2. KickedCopy(login[j].snap) \in SessionRec
    BY <2>1, ExpiryNat, ClockAssumption DEF KickedCopy, SessionRec, IInv
  <2>3. n \in LoginRec /\ n.pc = "store" /\ n.old = login[j].old
    BY <1>0 DEF LoginRec, LoginPc
  <2>4. login' = [login EXCEPT ![j] = n] /\ login[j].pc # "issued"
    BY <1>4, <1>0 DEF MarkKicked, IInv, TypeOK
  <2> HIDE DEF n
  <2>5. /\ login' \in [Jti -> LoginRec] /\ LoginShape' /\ LookupIssued'
    BY <1>4, <2>1, <2>3, <2>4, LoginMoves DEF MarkKicked
  <2> QED
    BY <1>4, <2>1, <2>2, <2>5 DEF MarkKicked, IInv, TypeOK, ReqShape
<1>5. CASE StoreSession(j)
  <2> DEFINE n == [login[j] EXCEPT
                     !.pc = IF KickOutEnable THEN "point" ELSE "issued"]
  <2>1. NewSession(j) \in SessionRec
    BY <1>0, SecNat, ExpiryNat, ClockAssumption
       DEF NewSession, SessionRec, RedisTtl, LoginRec, IInv
  <2>2. n \in LoginRec /\ n.pc \in {"point", "issued"} /\ n.old = login[j].old
    BY <1>0 DEF LoginRec, LoginPc
  <2>3. n.old # j
    BY <2>2 DEF IInv, LoginShape
  <2>4. login' = [login EXCEPT ![j] = n] /\ login[j].pc # "issued"
    BY <1>5, <1>0 DEF StoreSession, IInv, TypeOK
  <2> HIDE DEF n
  <2>5. /\ login' \in [Jti -> LoginRec] /\ LoginShape' /\ LookupIssued'
    BY <1>5, <2>2, <2>3, <2>4, LoginMoves DEF StoreSession
  <2> QED
    BY <1>5, <2>1, <2>5 DEF StoreSession, IInv, TypeOK, ReqShape
<1>6. CASE PointLookup(j)
  <2> DEFINE n == [login[j] EXCEPT !.pc = "issued"]
  <2>1. [jti |-> j, exp |-> Expiry(RedisTtl)] \in LookupRec
    BY ExpiryNat, ClockAssumption DEF LookupRec, RedisTtl, IInv
  <2>2. n \in LoginRec /\ n.pc = "issued" /\ n.old = login[j].old
    BY <1>0 DEF LoginRec, LoginPc
  <2>3. n.old # j
    BY <2>2 DEF IInv, LoginShape
  <2>4. login' = [login EXCEPT ![j] = n] /\ login[j].pc # "issued"
    BY <1>6, <1>0 DEF PointLookup, IInv, TypeOK
  <2> HIDE DEF n
  <2>5. login' \in [Jti -> LoginRec] /\ LoginShape'
    BY <2>2, <2>3, <2>4, LoginMoves
  <2>6. LookupIssued'
    BY <1>6, <2>2, <2>4 DEF PointLookup, LookupIssued, IInv, TypeOK
  <2> QED
    BY <1>6, <2>1, <2>5, <2>6 DEF PointLookup, IInv, TypeOK, ReqShape
<1>7. CASE LoginFail(j)
  <2> DEFINE n == [login[j] EXCEPT !.pc = "failed"]
  <2>1. n \in LoginRec /\ n.pc = "failed" /\ n.old = login[j].old
    BY <1>0 DEF LoginRec, LoginPc
  <2>2. n.old # j
    BY <2>1 DEF IInv, LoginShape
  <2>3. login' = [login EXCEPT ![j] = n] /\ login[j].pc # "issued"
    BY <1>7, <1>0 DEF LoginFail, IInv, TypeOK
  <2> HIDE DEF n
  <2> QED
    BY <1>7, <1>a, <2>1, <2>2, <2>3, LoginMoves DEF LoginFail
<1> QED
  BY <1>1, <1>2, <1>3, <1>4, <1>5, <1>6, <1>7 DEF LoginStep

(* A request handler that moves on by Goto keeps its record well formed.    *)
LEMMA GotoMoves ==
  ASSUME IInv, NEW r \in Requests, NEW pc \in ReqPc \ {"touchSet"},
         NEW res \in Outcome, Goto(r, pc, res),
         pc = "done" \/ req[r].pc # "done"
  PROVE  req' \in [Requests -> ReqRec] /\ ReqShape'
<1> DEFINE n == [req[r] EXCEPT !.pc = pc, !.res = res, !.snap = None]
<1>1. n \in ReqRec /\ n.pc = pc /\ n.snap = None /\ n.jti = req[r].jti
  BY DEF IInv, TypeOK, ReqRec
<1>2. req' = [req EXCEPT ![r] = n]
  BY DEF Goto
<1> HIDE DEF n
<1> QED
  BY <1>1, <1>2 DEF IInv, TypeOK, ReqShape

(* Every step of a request preserves the inductive invariant. *)
LEMMA RequestPreserves ==
  ASSUME IInv, NEW r \in Requests, RequestStep(r)
  PROVE  IInv'
<1> USE DEF redis, cred
<1>0. req[r] \in ReqRec /\ req[r].res \in Outcome
  BY DEF IInv, TypeOK, ReqRec
<1>a. ASSUME req' \in [Requests -> ReqRec], ReqShape',
             UNCHANGED <<tick, redis, cred, login>>
      PROVE  IInv'
  BY <1>a DEF IInv, TypeOK, LoginShape, LookupIssued
<1>1. ASSUME NEW j \in Jti, RequestStart(r, j) PROVE IInv'
  <2> DEFINE n == [pc |-> "get", jti |-> j, snap |-> None, mine |-> FALSE,
                   res |-> "none", reset |-> latest]
  <2>1. n \in ReqRec /\ n.pc = "get" /\ n.jti = j /\ n.snap = None /\ j # None
    BY NoneAssumption DEF ReqRec, ReqPc, Outcome, IInv, TypeOK
  <2>2. req' = [req EXCEPT ![r] = n]
    BY <1>1 DEF RequestStart
  <2> HIDE DEF n
  <2> QED
    BY <1>1, <1>a, <2>1, <2>2 DEF RequestStart, IInv, TypeOK, ReqShape
<1>2. CASE Validate(r)
  BY <1>2, <1>a, GotoMoves DEF Validate, ReqPc, Outcome
<1>3. CASE DeleteRead(r)
  BY <1>3, <1>0, <1>a, GotoMoves DEF DeleteRead, ReqPc
<1>4. CASE DeleteLookup(r)
  <2> DEFINE b == lookup # None /\ lookup.jti = req[r].jti
             n == [req[r] EXCEPT !.pc = "del", !.mine = b]
  <2>1. b \in BOOLEAN
    OBVIOUS
  <2>2. req' = [req EXCEPT ![r] = n] /\ req[r].jti # None
    BY <1>4 DEF DeleteLookup, IInv, ReqShape
  <2> HIDE DEF b
  <2>3. n \in ReqRec /\ n.pc = "del" /\ n.jti = req[r].jti
    BY <1>0, <2>1 DEF ReqRec, ReqPc
  <2> HIDE DEF n
  <2> QED
    BY <1>4, <1>a, <2>2, <2>3 DEF DeleteLookup, IInv, TypeOK, ReqShape
<1>5. CASE DeleteKeys(r)
  <2>1. req' \in [Requests -> ReqRec] /\ ReqShape'
    BY <1>5, <1>0, GotoMoves DEF DeleteKeys, ReqPc
  <2> QED
    BY <1>5, <2>1 DEF DeleteKeys, IInv, TypeOK, LoginShape, LookupIssued
<1>6. CASE CheckCredential(r)
  BY <1>6, <1>a, GotoMoves DEF CheckCredential, ReqPc, Outcome
<1>7. CASE CheckStatus(r)
  BY <1>7, <1>a, GotoMoves DEF CheckStatus, ReqPc, Outcome
<1>8. CASE TouchExists(r)
  BY <1>8, <1>0, <1>a, GotoMoves DEF TouchExists, ReqPc
<1>9. CASE TouchLock(r)
  <2>1. req' \in [Requests -> ReqRec] /\ ReqShape'
    BY <1>9, <1>0, GotoMoves DEF TouchLock, ReqPc
  <2> QED
    BY <1>9, <2>1, ExpiryNat, ClockAssumption
       DEF TouchLock, IInv, TypeOK, LoginShape, LookupIssued
<1>10. CASE TouchGet(r)
  <2> DEFINE s == data[req[r].jti]
             t == [s EXCEPT !.last = Sec(tick)]
             n == [req[r] EXCEPT !.pc = "touchSet", !.snap = t]
  <2>1. CASE s = None
    BY <1>0, <1>10, <1>a, <2>1, GotoMoves DEF TouchGet, ReqPc
  <2>2. CASE s # None
    <3>1. req[r].jti \in Jti
      BY <1>0, <1>10 DEF TouchGet, IInv, ReqShape, ReqRec
    <3>2. t \in SessionRec
      BY <2>2, <3>1, SecNat DEF IInv, TypeOK, SessionRec
    <3>3. req' = [req EXCEPT ![r] = n]
      BY <1>10, <2>2 DEF TouchGet
    <3> HIDE DEF t
    <3>4. n \in ReqRec /\ n.pc = "touchSet" /\ n.snap = t /\ n.jti = req[r].jti
      BY <1>0, <3>2 DEF ReqRec, ReqPc
    <3> HIDE DEF n
    <3> QED
      BY <1>10, <1>a, <3>1, <3>2, <3>3, <3>4, NoneAssumption
         DEF TouchGet, IInv, TypeOK, ReqShape
  <2> QED
    BY <2>1, <2>2
<1>11. CASE TouchSet(r)
  <2> DEFINE t == [req[r].snap EXCEPT !.exp = Expiry(RedisTtl)]
  <2>1. req[r].snap \in SessionRec
    BY <1>0, <1>11 DEF TouchSet, IInv, ReqShape, ReqRec
  <2>2. t \in SessionRec
    BY <2>1, ExpiryNat, ClockAssumption DEF SessionRec, RedisTtl, IInv
  <2>3. req' \in [Requests -> ReqRec] /\ ReqShape'
    BY <1>0, <1>11, GotoMoves DEF TouchSet, ReqPc
  <2>4. data' = [data EXCEPT ![req[r].jti] = t]
    BY <1>11 DEF TouchSet
  <2> HIDE DEF t
  <2> QED
    BY <1>11, <2>2, <2>3, <2>4 DEF TouchSet, IInv, TypeOK, LoginShape, LookupIssued
<1>12. CASE RequestFail(r)
  BY <1>0, <1>12, <1>a, GotoMoves DEF RequestFail, ReqPc, Outcome
<1> QED
  BY <1>1, <1>2, <1>3, <1>4, <1>5, <1>6, <1>7, <1>8, <1>9, <1>10, <1>11, <1>12
     DEF RequestStep

(* The clock, the credential administration and stuttering preserve it. *)
LEMMA EnvironmentPreserves ==
  ASSUME IInv,
         \/ \E x \in Resets : ResetStep(x)
         \/ \E s \in {"active", "disabled"} : SetStatus(s)
         \/ Tick \/ UNCHANGED vars
  PROVE  IInv'
<1> USE DEF IInv, TypeOK, LoginShape, ReqShape, LookupIssued, redis, cred
<1>1. ASSUME NEW x \in Resets, ResetBegin(x) PROVE IInv'
  <2>1. overlapped' \in SUBSET Nat /\ resetting' \in [Resets -> Nat]
    BY <1>1 DEF ResetBegin
  <2> QED
    BY <1>1, <2>1 DEF ResetBegin
<1>2. ASSUME NEW x \in Resets, ResetCommit(x) PROVE IInv'
  <2>1. latest' \in Nat /\ resetAt' \in Nat /\ resetting' \in [Resets -> Nat]
    BY <1>2 DEF ResetCommit
  <2> QED
    BY <1>2, <2>1 DEF ResetCommit
<1>6. ASSUME NEW x \in Resets, ResetFail(x) PROVE IInv'
  <2>1. resetting' \in [Resets -> Nat]
    BY <1>6 DEF ResetFail
  <2> QED
    BY <1>6, <2>1 DEF ResetFail
<1>3. CASE \E s \in {"active", "disabled"} : SetStatus(s)
  BY <1>3 DEF SetStatus
<1>4. CASE Tick
  BY <1>4 DEF Tick
<1>5. CASE UNCHANGED vars
  BY <1>5 DEF vars
<1>7. ASSUME NEW x \in Resets, ResetStep(x) PROVE IInv'
  BY <1>1, <1>2, <1>6, <1>7 DEF ResetStep
<1> QED
  BY <1>3, <1>4, <1>5, <1>7

(* The inductive invariant holds in every reachable state: each field has   *)
(* its type, no login has read its own token as the old one, and the lookup *)
(* key names only tokens whose createSession has finished.                  *)
THEOREM Inductive == Spec => []IInv
<1>1. IInv /\ [Next]_vars => IInv'
  BY LoginPreserves, RequestPreserves, EnvironmentPreserves DEF Next
<1> QED
  BY <1>1, InitIInv, PTL DEF Spec

(* Type correctness of the session store and of every handler. *)
THEOREM TypeCorrect == Spec => []TypeOK
  BY Inductive, PTL DEF IInv

-----------------------------------------------------------------------------
(* The kick mark.                                                           *)

(* A login that has read a token as the old one keeps it. *)
LEMMA KickerStable ==
  ASSUME IInv, [Next]_vars, NEW j \in Jti, Kicker(j)
  PROVE  Kicker(j)'
<1>1. PICK k \in Jti \ {j} : login[k].old = j
  BY DEF Kicker
<1>2. login[k].pc \notin {"idle", "lookup"}
  BY <1>1, NoneAssumption DEF IInv, LoginShape
<1>3. SUFFICES login'[k].old = j
  BY <1>1 DEF Kicker
<1>4. ASSUME NEW i \in Jti, LoginStep(i) PROVE login'[k].old = j
  <2>1. CASE i # k
    BY <1>1, <1>4, <2>1 DEF LoginStep, LoginStart, ReadLookup, ReadOld, MarkKicked,
       StoreSession, PointLookup, LoginFail, IInv, TypeOK
  <2>2. CASE i = k
    <3>1. ~LoginStart(i) /\ ~ReadLookup(i)
      BY <1>2, <2>2 DEF LoginStart, ReadLookup
    <3>2. login[k] \in LoginRec
      BY DEF IInv, TypeOK
    <3>3. CASE ReadOld(i)
      BY <1>1, <2>2, <3>2, <3>3 DEF ReadOld, IInv, TypeOK, LoginRec
    <3>4. CASE ~ReadOld(i)
      BY <1>1, <1>4, <2>2, <3>1, <3>2, <3>4 DEF LoginStep, MarkKicked,
         StoreSession, PointLookup, LoginFail, IInv, TypeOK, LoginRec
    <3> QED
      BY <3>3, <3>4
  <2> QED
    BY <2>1, <2>2
<1>5. ASSUME NEW r \in Requests, RequestStep(r) PROVE login' = login
  BY <1>5 DEF RequestStep, RequestStart, Validate, DeleteRead, DeleteLookup,
     DeleteKeys, CheckCredential, CheckStatus, TouchExists, TouchLock, TouchGet,
     TouchSet, RequestFail
<1>6. ASSUME ~(\E i \in Jti : LoginStep(i)), ~(\E r \in Requests : RequestStep(r))
      PROVE  login' = login
  BY <1>6 DEF Next, vars, ResetStep, ResetBegin, ResetCommit, ResetFail, SetStatus, Tick
<1> QED
  BY <1>1, <1>4, <1>5, <1>6

MarkedInRedis == \A j \in Jti : data[j] # None /\ data[j].kicked => Kicker(j)
MarkedInCopy ==
  \A r \in Requests : req[r].snap # None /\ req[r].snap.kicked => Kicker(req[r].jti)

(* No step of a login marks the session that login is creating. *)
LEMMA LoginMarksOthers ==
  ASSUME IInv, KickIsByAnotherLogin, NEW i \in Jti, LoginStep(i),
         \A j \in Jti : Kicker(j) => Kicker(j)'
  PROVE  KickIsByAnotherLogin'
<1>1. \A r \in Requests : req[r].snap # None => req[r].jti \in Jti
  BY DEF IInv, TypeOK, ReqShape, ReqRec
<1>2. req' = req
  BY DEF LoginStep, LoginStart, ReadLookup, ReadOld, MarkKicked, StoreSession,
     PointLookup, LoginFail
<1>3. MarkedInCopy'
  BY <1>1, <1>2 DEF MarkedInCopy, KickIsByAnotherLogin
<1>4. CASE data' = data
  BY <1>3, <1>4 DEF KickIsByAnotherLogin, MarkedInCopy
<1>5. CASE MarkKicked(i)
  <2>1. login[i].old \in Jti /\ login[i].old # i
    BY <1>5 DEF MarkKicked, IInv, TypeOK, LoginShape, LoginRec
  <2>2. Kicker(login[i].old)
    BY <2>1 DEF Kicker
  <2>3. MarkedInRedis'
    BY <1>5, <2>1, <2>2
       DEF MarkKicked, KickIsByAnotherLogin, MarkedInRedis, IInv, TypeOK
  <2> QED
    BY <1>3, <2>3 DEF KickIsByAnotherLogin, MarkedInCopy, MarkedInRedis
<1>6. CASE StoreSession(i)
  <2>1. ~NewSession(i).kicked
    BY DEF NewSession
  <2>2. MarkedInRedis'
    BY <1>6, <2>1 DEF StoreSession, KickIsByAnotherLogin, MarkedInRedis, IInv, TypeOK
  <2> QED
    BY <1>3, <2>2 DEF KickIsByAnotherLogin, MarkedInCopy, MarkedInRedis
<1>7. data' = data \/ MarkKicked(i) \/ StoreSession(i)
  BY DEF LoginStep, LoginStart, ReadLookup, ReadOld, PointLookup, LoginFail, redis
<1> QED
  BY <1>4, <1>5, <1>6, <1>7

(* A handler that moves on by Goto drops its copy of the session. *)
LEMMA GotoClears ==
  ASSUME TypeOK, NEW r \in Requests, NEW pc, NEW res, Goto(r, pc, res)
  PROVE  req'[r].snap = None
<1>1. req[r] \in ReqRec
  BY DEF TypeOK
<1> QED
  BY <1>1 DEF Goto, TypeOK, ReqRec

(* A request only carries a mark it has read. *)
LEMMA RequestCopiesMarks ==
  ASSUME IInv, KickIsByAnotherLogin, NEW r \in Requests, RequestStep(r),
         \A j \in Jti : Kicker(j) => Kicker(j)'
  PROVE  KickIsByAnotherLogin'
<1> DEFINE Cleared == req'[r].snap = None
<1>1. \A q \in Requests : q # r => req'[q] = req[q]
  BY DEF RequestStep, RequestStart, Validate, DeleteRead, DeleteLookup, DeleteKeys,
     CheckCredential, CheckStatus, TouchExists, TouchLock, TouchGet, TouchSet,
     RequestFail, Goto, IInv, TypeOK
<1>2. \A q \in Requests : req[q].snap # None => req[q].jti \in Jti
  BY DEF IInv, TypeOK, ReqShape, ReqRec
<1>3. ASSUME Cleared PROVE MarkedInCopy'
  BY <1>1, <1>2, <1>3 DEF MarkedInCopy, KickIsByAnotherLogin
<1>4. CASE TouchSet(r)
  <2>1. req[r].jti \in Jti /\ req[r].snap \in SessionRec
    BY <1>4 DEF TouchSet, IInv, TypeOK, ReqShape, ReqRec
  <2>2. [req[r].snap EXCEPT !.exp = Expiry(RedisTtl)].kicked = req[r].snap.kicked
    BY <2>1 DEF SessionRec
  <2>3. MarkedInRedis'
    BY <1>4, <2>1, <2>2, NoneAssumption
       DEF TouchSet, KickIsByAnotherLogin, MarkedInRedis, IInv, TypeOK
  <2>4. Cleared
    BY <1>4 DEF TouchSet, Goto, IInv, TypeOK, ReqRec
  <2> QED
    BY <1>3, <2>3, <2>4 DEF KickIsByAnotherLogin, MarkedInRedis, MarkedInCopy
<1>5. CASE DeleteKeys(r)
  <2>1. MarkedInRedis'
    BY <1>5 DEF DeleteKeys, KickIsByAnotherLogin, MarkedInRedis, IInv, TypeOK
  <2>2. Cleared
    BY <1>5 DEF DeleteKeys, Goto, IInv, TypeOK, ReqRec
  <2> QED
    BY <1>3, <2>1, <2>2 DEF KickIsByAnotherLogin, MarkedInRedis, MarkedInCopy
<1>6. CASE TouchGet(r)
  <2> DEFINE s == data[req[r].jti]
  <2>1. data' = data
    BY <1>6 DEF TouchGet, redis
  <2>2. CASE s = None
    BY <1>3, <1>6, <2>1, <2>2
       DEF TouchGet, Goto, IInv, TypeOK, ReqRec, KickIsByAnotherLogin, MarkedInCopy
  <2>3. CASE s # None
    <3>1. req[r].jti \in Jti /\ s \in SessionRec
      BY <1>6, <2>3 DEF TouchGet, IInv, TypeOK, ReqShape, ReqRec
    <3>2. [s EXCEPT !.last = Sec(tick)].kicked = s.kicked
      BY <3>1 DEF SessionRec
    <3>3. req'[r].snap.kicked = s.kicked /\ req'[r].jti = req[r].jti
      BY <1>6, <2>3, <3>2 DEF TouchGet, IInv, TypeOK, ReqRec
    <3>4. MarkedInCopy'
      BY <1>1, <1>2, <2>3, <3>1, <3>3 DEF MarkedInCopy, KickIsByAnotherLogin
    <3> QED
      BY <2>1, <3>4 DEF KickIsByAnotherLogin, MarkedInCopy
  <2> QED
    BY <2>2, <2>3
<1>7. CASE DeleteLookup(r)
  <2>1. req[r].pc # "touchSet" /\ data' = data
    BY <1>7 DEF DeleteLookup, redis
  <2>2. req'[r].snap = req[r].snap /\ req'[r].jti = req[r].jti
    BY <1>7 DEF DeleteLookup, IInv, TypeOK, ReqRec
  <2>3. MarkedInCopy'
    BY <1>1, <1>2, <2>2 DEF MarkedInCopy, KickIsByAnotherLogin
  <2> QED
    BY <2>1, <2>3 DEF KickIsByAnotherLogin, MarkedInCopy
<1>8. ASSUME ~TouchSet(r), ~DeleteKeys(r), ~TouchGet(r), ~DeleteLookup(r)
      PROVE  data' = data /\ Cleared
  <2>1. CASE \E j \in Jti : RequestStart(r, j)
    BY <2>1 DEF RequestStart, IInv, TypeOK, redis
  <2>2. CASE ~\E j \in Jti : RequestStart(r, j)
    BY <1>8, <2>2, GotoClears DEF RequestStep, Validate, DeleteRead,
       CheckCredential, CheckStatus, TouchExists, TouchLock, RequestFail, redis, IInv
  <2> QED
    BY <2>1, <2>2
<1> QED
  BY <1>3, <1>4, <1>5, <1>6, <1>7, <1>8 DEF KickIsByAnotherLogin, MarkedInCopy

(* No login ever kicks the session it creates, and nothing but a login      *)
(* kicks: createSession reads the lookup key before it writes it.           *)
THEOREM KickOnlyByAnotherLogin == Spec => []KickIsByAnotherLogin
<1>1. Init => KickIsByAnotherLogin
  BY DEF Init, KickIsByAnotherLogin
<1>2. ASSUME IInv, KickIsByAnotherLogin, [Next]_vars PROVE KickIsByAnotherLogin'
  <2>1. \A j \in Jti : Kicker(j) => Kicker(j)'
    BY <1>2, KickerStable
  <2>2. ASSUME NEW i \in Jti, LoginStep(i) PROVE KickIsByAnotherLogin'
    BY <1>2, <2>1, <2>2, LoginMarksOthers
  <2>3. ASSUME NEW r \in Requests, RequestStep(r) PROVE KickIsByAnotherLogin'
    BY <1>2, <2>1, <2>3, RequestCopiesMarks
  <2>4. \A r \in Requests : req[r].snap # None => req[r].jti \in Jti
    BY <1>2 DEF IInv, TypeOK, ReqShape, ReqRec
  <2>5. CASE Tick
    BY <1>2, <2>1, <2>4, <2>5 DEF Tick, KickIsByAnotherLogin
  <2>6. CASE \/ (\E x \in Resets : ResetStep(x)) \/ UNCHANGED vars
             \/ \E s \in {"active", "disabled"} : SetStatus(s)
    BY <1>2, <2>1, <2>4, <2>6
       DEF ResetStep, ResetBegin, ResetCommit, ResetFail, SetStatus, vars, redis,
           KickIsByAnotherLogin
  <2> QED
    BY <1>2, <2>2, <2>3, <2>5, <2>6 DEF Next
<1> QED
  BY <1>1, <1>2, Inductive, PTL DEF Spec

-----------------------------------------------------------------------------
(* Truncation to seconds.                                                   *)

(* What integer division by the clock resolution is. *)
LEMMA DivisionBounds ==
  ASSUME NEW a \in Nat, NEW t \in Nat \ {0}
  PROVE  (a \div t) \in Nat /\ (a \div t) * t <= a /\ a < ((a \div t) + 1) * t
  BY Z3

(* Multiplying by the clock resolution keeps the order. *)
LEMMA TimesMonotone ==
  ASSUME NEW x \in Nat, NEW y \in Nat, NEW t \in Nat, x <= y
  PROVE  x * t \in Nat /\ y * t \in Nat /\ x * t <= y * t
  BY Z3

(* Truncating two instants to seconds keeps their order. *)
LEMMA SecMonotone ==
  ASSUME NEW a \in Nat, NEW b \in Nat, a <= b
  PROVE  Sec(a) <= Sec(b)
<1> DEFINE x == a \div TicksPerSec
           y == b \div TicksPerSec
<1>1. /\ x \in Nat /\ x * TicksPerSec <= a
      /\ y \in Nat /\ b < (y + 1) * TicksPerSec
  BY ClockAssumption, DivisionBounds
<1> HIDE DEF x, y
<1>2. SUFFICES ASSUME y < x PROVE FALSE
  BY <1>1 DEF Sec, x, y
<1>3. /\ (y + 1) * TicksPerSec <= x * TicksPerSec
      /\ (y + 1) * TicksPerSec \in Nat /\ x * TicksPerSec \in Nat
  BY <1>1, <1>2, ClockAssumption, TimesMonotone
<1> QED
  BY <1>1, <1>3

-----------------------------------------------------------------------------
(* Revocation by a password reset.                                          *)

(* A request remembers a reset that was committed when it began.            *)
ResetOrder ==
  /\ 0 < tick /\ latest <= tick
  /\ \A x \in Resets : resetting[x] <= tick
  /\ \A r \in Requests : req[r].reset <= latest

(* The Date the guard compares with is the latest one committed, or one of a *)
(* reset that overlapped another; so is every Date still to be committed.    *)
ResetDates ==
  /\ resetAt # latest => resetAt # 0 /\ resetAt \in overlapped
  /\ \A x \in Resets : resetting[x] \in {0} \cup overlapped \/ resetting[x] >= latest
  /\ \A x, y \in Resets :
       x # y /\ resetting[x] # 0 /\ resetting[y] # 0 => resetting[x] \in overlapped

HoldsIssued ==
  \A r \in Requests : req[r].jti # None => login[req[r].jti].pc = "issued"

(* ... or than one that overlapped another reset. *)
Younger(at, reset) == at > reset \/ \E d \in overlapped : Sec(d) < Sec(at)

(* Past the credential check, a token is younger than the remembered reset. *)
PastCheck ==
  \A r \in Requests :
    (/\ req[r].pc = "status" \/ req[r].res = "ok"
     /\ req[r].reset # 0)
      => req[r].jti # None /\ Younger(login[req[r].jti].at, req[r].reset)

Strict == CheckerPresent /\ ~QueryMayFail

RInv == ResetOrder /\ ResetDates /\ HoldsIssued /\ (Strict => PastCheck)

(* A login that is not finished is nobody's token. *)
LEMMA LoginKeepsRInv ==
  ASSUME IInv, RInv, NEW i \in Jti, LoginStep(i)
  PROVE  RInv'
<1>1. UNCHANGED <<tick, resetAt, resetting, latest, overlapped, req>>
  BY DEF LoginStep, LoginStart, ReadLookup, ReadOld, MarkKicked, StoreSession,
     PointLookup, LoginFail, cred
<1>2. login[i].pc # "issued"
  BY DEF LoginStep, LoginStart, ReadLookup, ReadOld, MarkKicked, StoreSession,
     PointLookup, LoginFail
<1>3. \A j \in Jti : j # i => login'[j] = login[j]
  BY DEF LoginStep, LoginStart, ReadLookup, ReadOld, MarkKicked, StoreSession,
     PointLookup, LoginFail, IInv, TypeOK
<1>4. \A r \in Requests : req[r].jti # None
        => login'[req[r].jti] = login[req[r].jti]
  BY <1>2, <1>3 DEF RInv, HoldsIssued, IInv, TypeOK, ReqRec
<1> QED
  BY <1>1, <1>4 DEF RInv, ResetOrder, ResetDates, HoldsIssued, PastCheck, Younger

(* A handler that moves on by Goto keeps its token and remembered reset. *)
LEMMA GotoKeeps ==
  ASSUME TypeOK, NEW r \in Requests, NEW pc, NEW res, Goto(r, pc, res)
  PROVE  /\ req'[r].pc = pc /\ req'[r].res = res
         /\ req'[r].jti = req[r].jti /\ req'[r].reset = req[r].reset
<1>1. req[r] \in ReqRec
  BY DEF TypeOK
<1> QED
  BY <1>1 DEF Goto, TypeOK, ReqRec

(* A step that keeps the token and the remembered reset, and that reaches   *)
(* the later stages only from the later stages, keeps the invariant.        *)
LEMMA LaterStages ==
  ASSUME IInv, RInv, NEW r \in Requests,
         UNCHANGED <<tick, resetAt, resetting, latest, overlapped, login>>,
         \A q \in Requests : q # r => req'[q] = req[q],
         req'[r].jti = req[r].jti, req'[r].reset = req[r].reset,
         \/ req[r].pc = "status" \/ req[r].res = "ok"
         \/ req'[r].pc # "status" /\ req'[r].res # "ok"
         \/ ~Strict
  PROVE  RInv'
  BY DEF RInv, ResetOrder, ResetDates, HoldsIssued, PastCheck, Younger, Strict, IInv, TypeOK

(* A token that passes the comparison is younger than the remembered reset. *)
LEMMA CheckedIsYounger ==
  ASSUME IInv, RInv, NEW r \in Requests, req[r].jti # None,
         ~RevokedBy(resetAt, req[r].jti), req[r].reset # 0
  PROVE  Younger(login[req[r].jti].at, req[r].reset)
<1> DEFINE at == login[req[r].jti].at
<1>1. /\ at \in Nat /\ resetAt \in Nat /\ req[r].reset \in Nat /\ latest \in Nat
      /\ Sec(at) \in Nat /\ Sec(resetAt) \in Nat
  BY ClockAssumption, DivisionBounds DEF IInv, TypeOK, ReqRec, LoginRec, Sec
<1>2. req[r].reset <= latest /\ (resetAt # latest => resetAt # 0 /\ resetAt \in overlapped)
  BY DEF RInv, ResetOrder, ResetDates
<1>3. resetAt # 0 /\ ~(Sec(at) <= Sec(resetAt))
  BY <1>1, <1>2 DEF RevokedBy
<1> HIDE DEF at
<1>4. ~(at <= resetAt)
  BY <1>1, <1>3, SecMonotone
<1>5. CASE resetAt = latest
  BY <1>1, <1>2, <1>4, <1>5 DEF at, Younger
<1>6. CASE resetAt # latest
  BY <1>1, <1>2, <1>3, <1>6 DEF at, Younger
<1> QED
  BY <1>5, <1>6

(* Every step of a request keeps the revocation invariant. *)
LEMMA RequestKeepsRInv ==
  ASSUME IInv, RInv, NEW r \in Requests, RequestStep(r)
  PROVE  RInv'
<1>1. \A q \in Requests : q # r => req'[q] = req[q]
  BY DEF RequestStep, RequestStart, Validate, DeleteRead, DeleteLookup, DeleteKeys,
     CheckCredential, CheckStatus, TouchExists, TouchLock, TouchGet, TouchSet,
     RequestFail, Goto, IInv, TypeOK
<1>2. UNCHANGED <<tick, resetAt, resetting, latest, overlapped, login>>
  BY DEF RequestStep, RequestStart, Validate, DeleteRead, DeleteLookup, DeleteKeys,
     CheckCredential, CheckStatus, TouchExists, TouchLock, TouchGet, TouchSet,
     RequestFail, cred
<1>0. TypeOK
  BY DEF IInv
<1>3. ASSUME NEW j \in Jti, RequestStart(r, j) PROVE RInv'
  BY <1>1, <1>2, <1>3
     DEF RequestStart, RInv, ResetOrder, ResetDates, HoldsIssued, PastCheck, Younger, IInv, TypeOK
<1>4. CASE Validate(r)
  BY <1>0, <1>1, <1>2, <1>4, GotoKeeps, LaterStages DEF Validate, Strict
<1>5. CASE DeleteRead(r) \/ DeleteKeys(r) \/ TouchExists(r) \/ TouchLock(r)
  <2>1. \E pc \in {"done", "delLookup", "lock", "touchGet"} : Goto(r, pc, req[r].res)
    BY <1>5 DEF DeleteRead, DeleteKeys, TouchExists, TouchLock
  <2> QED
    BY <1>0, <1>1, <1>2, <2>1, GotoKeeps, LaterStages
<1>6. CASE DeleteLookup(r) \/ TouchGet(r) \/ TouchSet(r)
  <2>1. req[r] \in ReqRec
    BY DEF IInv, TypeOK
  <2>2. /\ req'[r].pc # "status" /\ req'[r].res = req[r].res
        /\ req'[r].jti = req[r].jti /\ req'[r].reset = req[r].reset
    <3>1. CASE DeleteLookup(r)
      BY <2>1, <3>1 DEF DeleteLookup, IInv, TypeOK, ReqRec
    <3>2. CASE TouchGet(r)
      <4> DEFINE t == [data[req[r].jti] EXCEPT !.last = Sec(tick)]
      <4>1. CASE Goto(r, "done", req[r].res)
        BY <1>0, <4>1, GotoKeeps
      <4>2. CASE req' = [req EXCEPT ![r] = [@ EXCEPT !.pc = "touchSet", !.snap = t]]
        <5> HIDE DEF t
        <5> QED
          BY <2>1, <4>2 DEF IInv, TypeOK, ReqRec
      <4> QED
        BY <3>2, <4>1, <4>2 DEF TouchGet
    <3>3. CASE TouchSet(r)
      BY <1>0, <3>3, GotoKeeps DEF TouchSet
    <3> QED
      BY <1>6, <3>1, <3>2, <3>3
  <2> QED
    BY <1>1, <1>2, <2>2, LaterStages
<1>7. CASE CheckCredential(r)
  <2>1. CASE Goto(r, "done", "credential")
    BY <1>0, <1>1, <1>2, <2>1, GotoKeeps, LaterStages
  <2>2. CASE Goto(r, "status", "none") /\ ~Strict
    BY <1>0, <1>1, <1>2, <2>2, GotoKeeps, LaterStages
  <2>3. CASE Goto(r, "status", "none") /\ ~RevokedBy(resetAt, req[r].jti)
    <3>1. req[r].jti # None
      BY <1>7 DEF CheckCredential, IInv, ReqShape
    <3>2. req[r].reset # 0 => Younger(login[req[r].jti].at, req[r].reset)
      BY <2>3, <3>1, CheckedIsYounger
    <3>3. /\ req'[r].jti = req[r].jti /\ req'[r].reset = req[r].reset
      BY <1>0, <2>3, GotoKeeps
    <3> QED
      BY <1>1, <1>2, <3>1, <3>2, <3>3
         DEF RInv, ResetOrder, ResetDates, HoldsIssued, PastCheck, Younger, IInv, TypeOK
  <2> QED
    BY <1>7, <2>1, <2>2, <2>3 DEF CheckCredential, Strict
<1>8. CASE CheckStatus(r)
  <2>1. \E pc \in {"done", "exists"}, res \in {"disabled", "ok"} : Goto(r, pc, res)
    BY <1>8 DEF CheckStatus
  <2>2. req[r].pc = "status"
    BY <1>8 DEF CheckStatus
  <2> QED
    BY <1>0, <1>1, <1>2, <2>1, <2>2, GotoKeeps, LaterStages
<1>9. CASE RequestFail(r)
  <2>1. \E res \in {"error", req[r].res} : Goto(r, "done", res)
    BY <1>9 DEF RequestFail
  <2> QED
    BY <1>0, <1>1, <1>2, <2>1, GotoKeeps, LaterStages
<1> QED
  BY <1>3, <1>4, <1>5, <1>6, <1>7, <1>8, <1>9 DEF RequestStep

(* A reset takes a Date no earlier than any other, but commits when it will. *)
LEMMA ResetKeepsRInv ==
  ASSUME IInv, RInv, NEW x \in Resets, ResetStep(x)
  PROVE  RInv'
<1>1. /\ UNCHANGED <<tick, login, req>>
      /\ tick \in Nat /\ latest \in Nat /\ resetAt \in Nat
      /\ resetting \in [Resets -> Nat]
      /\ overlapped \subseteq overlapped'
  BY DEF ResetStep, ResetBegin, ResetCommit, ResetFail, IInv, TypeOK
<1>2. (HoldsIssued /\ (Strict => PastCheck))'
  BY <1>1 DEF RInv, HoldsIssued, Strict, PastCheck, Younger, Sec
<1>3. ResetOrder' /\ ResetDates'
  <2>1. CASE ResetBegin(x)
    <3> DEFINE others == {resetting[y] : y \in Resets \ {x}} \ {0}
    <3>1. /\ resetAt' = resetAt /\ latest' = latest /\ resetting' = [resetting EXCEPT ![x] = tick]
          /\ others # {} => tick \in overlapped'
          /\ others \subseteq overlapped'
      BY <2>1 DEF ResetBegin
    <3>2. \A y \in Resets \ {x} : resetting'[y] # 0 => resetting'[y] \in others
      BY <1>1, <3>1
    <3>3. ResetOrder'
      BY <1>1, <3>1 DEF RInv, ResetOrder
    <3>4. /\ resetAt' # latest' => resetAt' # 0 /\ resetAt' \in overlapped'
          /\ \A y \in Resets : resetting'[y] \in {0} \cup overlapped' \/ resetting'[y] >= latest'
      BY <1>1, <3>1 DEF RInv, ResetOrder, ResetDates
    <3>5. ASSUME NEW y \in Resets, NEW z \in Resets, y # z, resetting'[y] # 0, resetting'[z] # 0
          PROVE  resetting'[y] \in overlapped'
      <4>1. CASE y = x
        BY <1>1, <3>1, <3>2, <3>5, <4>1
      <4>2. CASE y # x
        BY <3>1, <3>2, <3>5, <4>2
      <4> QED
        BY <4>1, <4>2
    <3> QED
      BY <3>3, <3>4, <3>5 DEF ResetDates
  <2>2. CASE ResetCommit(x)
    <3>1. /\ resetting[x] # 0 /\ resetAt' = resetting[x] /\ overlapped' = overlapped
          /\ latest' = IF latest < resetting[x] THEN resetting[x] ELSE latest
          /\ resetting' = [resetting EXCEPT ![x] = 0]
      BY <2>2 DEF ResetCommit
    <3>2. resetting[x] <= tick
      BY <1>1 DEF RInv, ResetOrder
    <3>3. ResetOrder'
      BY <1>1, <3>1, <3>2 DEF RInv, ResetOrder, IInv, TypeOK, ReqRec
    <3> QED
      BY <1>1, <3>1, <3>3 DEF RInv, ResetDates
  <2>3. CASE ResetFail(x)
    BY <1>1, <2>3 DEF ResetFail, RInv, ResetOrder, ResetDates
  <2> QED
    BY <2>1, <2>2, <2>3 DEF ResetStep
<1> QED
  BY <1>2, <1>3 DEF RInv

(* With a credential checker whose queries answer, a token issued no later  *)
(* than a password reset is never admitted by a request that begins after   *)
(* the reset committed, whatever the resolution of the clock, unless it is  *)
(* younger than a reset that overlapped another.                            *)
THEOREM ResetRevokes == Spec => []RevokedNeverAdmitted
<1>1. Init => RInv
  BY DEF Init, RInv, ResetOrder, ResetDates, HoldsIssued, PastCheck
<1>2. ASSUME IInv, RInv, [Next]_vars PROVE RInv'
  <2>1. ASSUME NEW i \in Jti, LoginStep(i) PROVE RInv'
    BY <1>2, <2>1, LoginKeepsRInv
  <2>2. ASSUME NEW r \in Requests, RequestStep(r) PROVE RInv'
    BY <1>2, <2>2, RequestKeepsRInv
  <2>3. \A r \in Requests : req[r].reset \in Nat
    BY <1>2 DEF IInv, TypeOK, ReqRec
  <2>4. CASE \/ Tick \/ UNCHANGED vars
             \/ \E s \in {"active", "disabled"} : SetStatus(s)
    BY <1>2, <2>3, <2>4
       DEF SetStatus, Tick, vars, redis, cred, RInv,
           ResetOrder, ResetDates, HoldsIssued, PastCheck, Younger, IInv, TypeOK
  <2>5. ASSUME NEW x \in Resets, ResetStep(x) PROVE RInv'
    BY <1>2, <2>5, ResetKeepsRInv
  <2> QED
    BY <1>2, <2>1, <2>2, <2>4, <2>5 DEF Next
<1>3. RInv => RevokedNeverAdmitted
  BY DEF RInv, PastCheck, Younger, Strict, RevokedNeverAdmitted
<1> QED
  BY <1>1, <1>2, <1>3, Inductive, PTL DEF Spec

-----------------------------------------------------------------------------
(* The TTL of a session in force.                                           *)

(* Whoever writes a session wrote an activity time that is not ahead of the *)
(* clock.                                                                   *)
TInv ==
  /\ \A j \in Jti : login[j].at <= tick
  /\ \A r \in Requests : req[r].snap # None => req[r].snap.last <= Sec(tick)
  /\ TtlOutlastsIdleLimit

(* A TTL counted from now covers the idle limit and the grace period of any *)
(* activity that is not ahead of the clock.                                 *)
LEMMA TtlFits ==
  ASSUME TypeOK, NEW last \in Nat, last <= Sec(tick)
  PROVE  Expiry(RedisTtl) >= (last + MaxTime + Grace) * TicksPerSec
<1> DEFINE s == tick \div TicksPerSec
           ttl == MaxTime + Grace
<1>1. tick \in Nat /\ TicksPerSec \in Nat \ {0} /\ ttl \in Nat
  BY ClockAssumption DEF TypeOK
<1>2. s \in Nat /\ s * TicksPerSec <= tick
  BY <1>1, DivisionBounds
<1>3. last <= s /\ RedisTtl = ttl /\ last + MaxTime + Grace = last + ttl
  BY ClockAssumption DEF Sec, RedisTtl
<1> HIDE DEF s, ttl
<1>4. /\ last * TicksPerSec \in Nat /\ s * TicksPerSec \in Nat
      /\ last * TicksPerSec <= s * TicksPerSec
  BY <1>1, <1>2, <1>3, TimesMonotone
<1>5. (last + ttl) * TicksPerSec = last * TicksPerSec + ttl * TicksPerSec
  BY <1>1, Z3
<1>6. ttl * TicksPerSec \in Nat
  BY <1>1
<1> QED
  BY <1>1, <1>2, <1>3, <1>4, <1>5, <1>6 DEF Expiry

(* A step that writes no session and takes no copy keeps the bounds. *)
LEMMA QuietKeepsTInv ==
  ASSUME IInv, TInv, UNCHANGED <<tick, data>>,
         \A j \in Jti : login'[j].at = login[j].at \/ login'[j].at = tick,
         \A r \in Requests : req'[r].snap = req[r].snap \/ req'[r].snap = None
  PROVE  TInv'
  BY DEF IInv, TypeOK, TInv, TtlOutlastsIdleLimit, Live, Sec

(* Every step of a login keeps the TTL bound. *)
LEMMA LoginKeepsTInv ==
  ASSUME IInv, TInv, NEW i \in Jti, LoginStep(i)
  PROVE  TInv'
<1>1. tick' = tick /\ req' = req
  BY DEF LoginStep, LoginStart, ReadLookup, ReadOld, MarkKicked, StoreSession,
     PointLookup, LoginFail
<1>2. \A j \in Jti : login'[j].at = login[j].at \/ login'[j].at = tick
  <2>1. \A j \in Jti : login[j] \in LoginRec
    BY DEF IInv, TypeOK
  <2>2. CASE LoginStart(i)
    <3>1. login'[i].at = tick
      BY <2>1, <2>2 DEF LoginStart, IInv, TypeOK, LoginRec
    <3> QED
      BY <2>2, <3>1 DEF LoginStart, IInv, TypeOK
  <2>3. CASE ReadLookup(i)
    <3>1. CASE login' = [login EXCEPT ![i].pc = "store"]
      BY <2>1, <3>1 DEF IInv, TypeOK, LoginRec
    <3>2. CASE login' = [login EXCEPT ![i] = [@ EXCEPT !.pc = "old", !.old = lookup.jti]]
      <4> DEFINE o == lookup.jti
      <4> HIDE DEF o
      <4>1. login' = [login EXCEPT ![i] = [@ EXCEPT !.pc = "old", !.old = o]]
        BY <3>2 DEF o
      <4> QED
        BY <2>1, <4>1 DEF IInv, TypeOK, LoginRec
    <3> QED
      BY <2>3, <3>1, <3>2 DEF ReadLookup
  <2>4. CASE ReadOld(i)
    BY <2>1, <2>4 DEF ReadOld, IInv, TypeOK, LoginRec
  <2>5. CASE MarkKicked(i) \/ StoreSession(i) \/ PointLookup(i) \/ LoginFail(i)
    BY <2>1, <2>5 DEF MarkKicked, StoreSession, PointLookup, LoginFail, IInv,
       TypeOK, LoginRec
  <2> QED
    BY <2>2, <2>3, <2>4, <2>5 DEF LoginStep
<1>3. CASE data' = data
  BY <1>1, <1>2, <1>3, QuietKeepsTInv
<1>4. ASSUME TtlOutlastsIdleLimit' PROVE TInv'
  BY <1>1, <1>2, <1>4 DEF TInv, IInv, TypeOK, Sec
<1>5. CASE MarkKicked(i)
  <2>1. login[i].old \in Jti /\ login[i].snap \in SessionRec
    BY <1>5 DEF MarkKicked, IInv, TypeOK, LoginShape, LoginRec
  <2>2. KickedCopy(login[i].snap).kicked
    BY <2>1 DEF KickedCopy, SessionRec
  <2>3. data' = [data EXCEPT ![login[i].old] = KickedCopy(login[i].snap)]
    BY <1>5 DEF MarkKicked
  <2> QED
    BY <1>4, <2>1, <2>2, <2>3 DEF TInv, TtlOutlastsIdleLimit, Live, IInv, TypeOK
<1>6. CASE StoreSession(i)
  <2>1. login[i].at \in Nat /\ tick \in Nat /\ login[i].at <= tick
    BY DEF IInv, TypeOK, LoginRec, TInv
  <2>2. Sec(login[i].at) \in Nat /\ Sec(login[i].at) <= Sec(tick)
    BY <2>1, SecNat, SecMonotone
  <2>3. NewSession(i).exp >= (NewSession(i).last + MaxTime + Grace) * TicksPerSec
    BY <2>2, TtlFits DEF NewSession, IInv
  <2>4. data' = [data EXCEPT ![i] = NewSession(i)]
    BY <1>6 DEF StoreSession
  <2> HIDE DEF NewSession
  <2> QED
    BY <1>4, <2>3, <2>4 DEF TInv, TtlOutlastsIdleLimit, Live, IInv, TypeOK
<1>7. data' = data \/ MarkKicked(i) \/ StoreSession(i)
  BY DEF LoginStep, LoginStart, ReadLookup, ReadOld, PointLookup, LoginFail, redis
<1> QED
  BY <1>3, <1>5, <1>6, <1>7

(* Every step of a request keeps the TTL bound. *)
LEMMA RequestKeepsTInv ==
  ASSUME IInv, TInv, NEW r \in Requests, RequestStep(r)
  PROVE  TInv'
<1>0. TypeOK
  BY DEF IInv
<1>1. \A q \in Requests : q # r => req'[q] = req[q]
  BY DEF RequestStep, RequestStart, Validate, DeleteRead, DeleteLookup, DeleteKeys,
     CheckCredential, CheckStatus, TouchExists, TouchLock, TouchGet, TouchSet,
     RequestFail, Goto, IInv, TypeOK
<1>2. tick' = tick /\ login' = login
  BY DEF RequestStep, RequestStart, Validate, DeleteRead, DeleteLookup, DeleteKeys,
     CheckCredential, CheckStatus, TouchExists, TouchLock, TouchGet, TouchSet,
     RequestFail
<1>3. ASSUME data' = data, req'[r].snap = req[r].snap \/ req'[r].snap = None
      PROVE  TInv'
  BY <1>1, <1>2, <1>3, QuietKeepsTInv
<1>4. CASE TouchSet(r)
  <2> DEFINE t == [req[r].snap EXCEPT !.exp = Expiry(RedisTtl)]
  <2>1. req[r].snap \in SessionRec /\ req[r].jti \in Jti
    BY <1>4 DEF TouchSet, IInv, TypeOK, ReqShape, ReqRec
  <2>2. req[r].snap.last \in Nat /\ req[r].snap.last <= Sec(tick)
    BY <2>1, NoneAssumption DEF TInv, SessionRec
  <2>3. t.last = req[r].snap.last /\ t.exp = Expiry(RedisTtl)
    BY <2>1 DEF SessionRec
  <2>4. t.exp >= (t.last + MaxTime + Grace) * TicksPerSec
    BY <1>0, <2>2, <2>3, TtlFits
  <2>5. data' = [data EXCEPT ![req[r].jti] = t]
    BY <1>4 DEF TouchSet
  <2>6. req'[r].snap = None
    BY <1>0, <1>4, GotoClears DEF TouchSet
  <2> HIDE DEF t
  <2> QED
    BY <1>1, <1>2, <2>1, <2>4, <2>5, <2>6
       DEF TInv, TtlOutlastsIdleLimit, Live, IInv, TypeOK, Sec
<1>5. CASE TouchGet(r)
  <2> DEFINE t == [data[req[r].jti] EXCEPT !.last = Sec(tick)]
  <2>1. data' = data
    BY <1>5 DEF TouchGet, redis
  <2>2. CASE Goto(r, "done", req[r].res)
    BY <1>0, <1>3, <2>1, <2>2, GotoClears
  <2>3. CASE /\ data[req[r].jti] # None
             /\ req' = [req EXCEPT ![r] = [@ EXCEPT !.pc = "touchSet", !.snap = t]]
    <3>1. data[req[r].jti] \in SessionRec /\ req[r] \in ReqRec
      BY <1>5, <2>3 DEF TouchGet, IInv, TypeOK, ReqShape, ReqRec
    <3>2. t.last = Sec(tick) /\ Sec(tick) \in Nat
      BY <3>1, SecNat DEF SessionRec, IInv, TypeOK
    <3> HIDE DEF t
    <3>3. req'[r].snap = t
      BY <2>3, <3>1 DEF IInv, TypeOK, ReqRec
    <3> QED
      BY <1>1, <1>2, <2>1, <3>2, <3>3 DEF TInv, TtlOutlastsIdleLimit, Live, Sec
  <2> QED
    BY <1>5, <2>2, <2>3 DEF TouchGet
<1>6. CASE DeleteKeys(r)
  <2>1. req'[r].snap = None
    BY <1>0, <1>6, GotoClears DEF DeleteKeys
  <2> QED
    BY <1>1, <1>2, <1>6, <2>1
       DEF DeleteKeys, TInv, TtlOutlastsIdleLimit, Live, IInv, TypeOK, Sec
<1>7. CASE DeleteLookup(r)
  <2>1. req[r] \in ReqRec
    BY DEF IInv, TypeOK
  <2> QED
    BY <1>3, <1>7, <2>1 DEF DeleteLookup, IInv, TypeOK, ReqRec, redis
<1>8. ASSUME NEW j \in Jti, RequestStart(r, j) PROVE TInv'
  BY <1>3, <1>8 DEF RequestStart, IInv, TypeOK, redis
<1>9. CASE \/ Validate(r) \/ DeleteRead(r) \/ CheckCredential(r) \/ CheckStatus(r)
           \/ TouchExists(r) \/ TouchLock(r) \/ RequestFail(r)
  <2>1. data' = data /\ req'[r].snap = None
    BY <1>0, <1>9, GotoClears DEF Validate, DeleteRead, CheckCredential,
       CheckStatus, TouchExists, TouchLock, RequestFail, redis
  <2> QED
    BY <1>3, <2>1
<1> QED
  BY <1>4, <1>5, <1>6, <1>7, <1>8, <1>9 DEF RequestStep

(* Whoever writes it, and however late, a session in force is stored with a *)
(* Redis TTL that outlasts its idle limit by the grace period.              *)
THEOREM TtlCoversGrace == Spec => []TtlOutlastsIdleLimit
<1>1. Init => TInv
  BY NoneAssumption DEF Init, TInv, TtlOutlastsIdleLimit, Live
<1>2. ASSUME IInv, TInv, [Next]_vars PROVE TInv'
  <2>1. ASSUME NEW i \in Jti, LoginStep(i) PROVE TInv'
    BY <1>2, <2>1, LoginKeepsTInv
  <2>2. ASSUME NEW r \in Requests, RequestStep(r) PROVE TInv'
    BY <1>2, <2>2, RequestKeepsTInv
  <2>3. CASE Tick
    <3>1. tick \in Nat /\ tick + 1 \in Nat /\ Sec(tick) <= Sec(tick + 1)
      BY <1>2, SecMonotone DEF IInv, TypeOK
    <3>2. /\ \A j \in Jti : login[j].at \in Nat
          /\ \A r \in Requests : req[r].snap # None => req[r].snap.last \in Nat
          /\ Sec(tick) \in Nat /\ Sec(tick + 1) \in Nat
      BY <1>2, <3>1, SecNat DEF IInv, TypeOK, LoginRec, ReqRec, SessionRec
    <3>3. Sec(tick)' = Sec(tick + 1)
      BY <2>3 DEF Tick, Sec
    <3>4. TtlOutlastsIdleLimit'
      BY <1>2, <2>3 DEF Tick, TInv, TtlOutlastsIdleLimit, Live
    <3>5. /\ \A j \in Jti : login'[j].at <= tick'
          /\ \A r \in Requests : req'[r].snap # None => req'[r].snap.last <= Sec(tick)'
      BY <1>2, <2>3, <3>1, <3>2, <3>3 DEF Tick, TInv
    <3> QED
      BY <3>4, <3>5 DEF TInv
  <2>4. CASE \/ (\E x \in Resets : ResetStep(x)) \/ UNCHANGED vars
             \/ \E s \in {"active", "disabled"} : SetStatus(s)
    BY <1>2, <2>4, QuietKeepsTInv
       DEF ResetStep, ResetBegin, ResetCommit, ResetFail, SetStatus, vars, redis
  <2> QED
    BY <1>2, <2>1, <2>2, <2>3, <2>4 DEF Next
<1>3. TInv => TtlOutlastsIdleLimit
  BY DEF TInv
<1> QED
  BY <1>1, <1>2, <1>3, Inductive, PTL DEF Spec

-----------------------------------------------------------------------------
(* What puts a session in force.                                            *)

Revives(j) ==
  \/ login[j].pc = "store"
  \/ \E r \in Requests : req[r].pc = "touchSet" /\ req[r].jti = j /\ ~req[r].snap.kicked

(* A step that brings a session back is its login's store or a touch.       *)
LEMMA RevivedByTouch ==
  ASSUME IInv, [Next]_vars, NEW j \in Jti, ~Live(j), Live(j)'
  PROVE  Revives(j)
<1>1. data \in [Jti -> SessionRec \cup {None}] /\ login \in [Jti -> LoginRec]
  BY DEF IInv, TypeOK
<1>2. CASE data' = data
  BY <1>2 DEF Live
<1>3. ASSUME NEW k \in Jti, MarkKicked(k) PROVE Revives(j)
  <2>1. login[k].old \in Jti /\ login[k].snap \in SessionRec
    BY <1>1, <1>3 DEF MarkKicked, IInv, LoginShape, LoginRec
  <2>2. KickedCopy(login[k].snap).kicked = TRUE
    BY <2>1 DEF KickedCopy, SessionRec
  <2> QED
    BY <1>1, <1>3, <2>1, <2>2 DEF MarkKicked, Live
<1>4. ASSUME NEW k \in Jti, StoreSession(k) PROVE Revives(j)
  BY <1>1, <1>4 DEF StoreSession, Live, Revives
<1>5. ASSUME NEW r \in Requests, DeleteKeys(r) PROVE Revives(j)
  BY <1>1, <1>5 DEF DeleteKeys, Live
<1>6. ASSUME NEW r \in Requests, TouchSet(r) PROVE Revives(j)
  <2>1. req[r].jti \in Jti /\ req[r].snap \in SessionRec
    BY <1>6 DEF TouchSet, IInv, TypeOK, ReqShape, ReqRec
  <2>2. [req[r].snap EXCEPT !.exp = Expiry(RedisTtl)].kicked = req[r].snap.kicked
    BY <2>1 DEF SessionRec
  <2>3. req[r].pc = "touchSet"
    BY <1>6 DEF TouchSet
  <2> QED
    BY <1>1, <1>6, <2>1, <2>2, <2>3 DEF TouchSet, Live, Revives
<1>7. CASE Tick
  BY <1>1, <1>7 DEF Tick, Live
<1>8. \/ data' = data \/ Tick
      \/ \E k \in Jti : MarkKicked(k) \/ StoreSession(k)
      \/ \E r \in Requests : DeleteKeys(r) \/ TouchSet(r)
  BY DEF Next, vars, redis, LoginStep, RequestStep, LoginStart, ReadLookup, ReadOld, PointLookup,
         LoginFail, RequestStart, Validate, DeleteRead, DeleteLookup, CheckCredential,
         CheckStatus, TouchExists, TouchLock, TouchGet, RequestFail, ResetStep, ResetBegin,
         ResetCommit, ResetFail, SetStatus
<1> QED
  BY <1>2, <1>3, <1>4, <1>5, <1>6, <1>7, <1>8

NoOtherRevives == \A j \in Jti : (~Live(j) /\ Live(j)') => Revives(j)

(* A session that is kicked, deleted or expired comes back into force only  *)
(* when its login stores it or when a touch writes the copy it has read     *)
(* before.                                                                  *)
THEOREM RevivedOnlyByTouch == Spec => OnlyTouchRevives
<1>1. IInv /\ [Next]_vars => NoOtherRevives
  BY RevivedByTouch DEF NoOtherRevives
<1>2. NoOtherRevives <=> \A j \in Jti : (~Live(j) /\ Live(j)') =>
        \/ login[j].pc = "store"
        \/ \E r \in Requests :
             /\ req[r].pc = "touchSet" /\ req[r].jti = j
             /\ ~req[r].snap.kicked
  BY DEF NoOtherRevives, Revives
<1>3. OnlyTouchRevives <=> [][NoOtherRevives]_vars
  BY <1>2, PTL DEF OnlyTouchRevives
<1> QED
  BY <1>1, <1>3, Inductive, PTL DEF Spec
-----------------------------------------------------------------------------
(* Logins, requests and touches one at a time.                              *)

Ttl == RedisTtl * TicksPerSec
Admitted == {"credential", "status", "exists", "lock", "touchGet", "touchSet"}

(* While a handler runs nothing else moves: what it has read is still so.    *)
SerialShape ==
  /\ OneAtATime
  /\ \A j \in Jti :
       /\ LoginBusy(j) => login[j].at = tick
       /\ login[j].pc \in {"old", "mark"} => lookup # None /\ lookup.jti = login[j].old
       /\ login[j].prior \subseteq Issued
  /\ lookup # None => lookup.exp = login[lookup.jti].at + Ttl
  /\ \A r \in Requests :
       /\ req[r].pc \in Admitted => Live(req[r].jti)
       /\ req[r].pc = "del" /\ req[r].mine /\ lookup # None => lookup.jti = req[r].jti

(* Out of force, or older than the lookup key may become.                   *)
Settled(j) == ~Live(j) \/ tick >= login[j].at + Ttl

(* Only the session that the lookup key names is in force; a login that has  *)
(* passed the mark has put that one out of force, too.                       *)
KickShape ==
  /\ \A j \in Issued : Settled(j) \/ (lookup # None /\ lookup.jti = j)
  /\ \A k \in Jti : login[k].pc \in {"store", "point"} => \A j \in Issued : Settled(j)
  /\ \A k \in Issued : \A j \in login[k].prior : ~Live(j) \/ login[k].at >= login[j].at + Ttl

SerialInv == SerialShape /\ KickShape

(* The lookup key's time to live, in ticks. *)
LEMMA TtlNat == Ttl \in Nat /\ (TypeOK => Expiry(RedisTtl) = tick + Ttl)
BY ClockAssumption DEF Ttl, RedisTtl, Expiry

(* A login's record and its instants are well typed. *)
LEMMA LoginTyped ==
  ASSUME IInv, NEW j \in Jti
  PROVE  /\ login[j] \in LoginRec /\ login[j].at \in Nat /\ login[j].prior \subseteq Jti
         /\ tick \in Nat
BY DEF IInv, TypeOK, LoginRec

(* Nobody brings an issued session back.                                     *)
LEMMA StaysOut ==
  ASSUME IInv, SerialShape, [Next]_vars, NEW j \in Jti, login[j].pc # "store", ~Live(j)
  PROVE  ~Live(j)'
<1> SUFFICES ASSUME Live(j)' PROVE FALSE
  OBVIOUS
<1>1. PICK r \in Requests : req[r].pc = "touchSet" /\ req[r].jti = j
  BY RevivedByTouch DEF Revives
<1> QED
  BY <1>1 DEF SerialShape, Admitted

(* The one handler that is busy. *)
LEMMA Others ==
  ASSUME OneAtATime
  PROVE  /\ \A j \in Jti : LoginBusy(j) =>
              /\ \A k \in Jti : k # j => ~LoginBusy(k)
              /\ \A r \in Requests : ~RequestBusy(r)
         /\ \A r \in Requests : RequestBusy(r) =>
              /\ \A q \in Requests : q # r => ~RequestBusy(q)
              /\ \A j \in Jti : ~LoginBusy(j)
BY DEF OneAtATime

(* A login goes on to the record n, with sessions and the lookup key.        *)
LEMMA LoginKeepsSerial ==
  ASSUME IInv, SerialInv, [Next]_vars, OneAtATime', NEW k \in Jti, NEW n \in LoginRec,
         login' = [login EXCEPT ![k] = n], UNCHANGED <<tick, req>>,
         LoginBusy(k) \/ LoginBusy(k)', login[k].pc # "issued",
         n.at = tick, n.prior \subseteq Issued,
         n.pc \in {"old", "mark"} => lookup' # None /\ lookup'.jti = n.old,
         n.pc \in {"store", "point", "issued"} => \A j \in Issued : Settled(j)',
         n.pc # "issued" => lookup' = lookup,
         n.pc = "issued" => lookup' = [jti |-> k, exp |-> Expiry(RedisTtl)]
  PROVE  SerialInv'
<1>1. /\ login'[k] = n /\ \A j \in Jti : j # k => login'[j] = login[j]
      /\ Issued' = IF n.pc = "issued" THEN Issued \cup {k} ELSE Issued
      /\ k \notin Issued /\ Issued \subseteq Jti
  BY DEF IInv, TypeOK, Issued
<1>2. /\ \A j \in Jti : j # k => ~LoginBusy(j)' /\ ~LoginBusy(j)
      /\ \A r \in Requests : ~RequestBusy(r)'
  <2>1. \A j \in Jti : j # k => (LoginBusy(j)' <=> LoginBusy(j))
    BY <1>1 DEF LoginBusy
  <2>2. \A r \in Requests : RequestBusy(r)' <=> RequestBusy(r)
    BY DEF RequestBusy
  <2>3. CASE LoginBusy(k)
    BY <2>1, <2>2, <2>3, Others DEF SerialInv, SerialShape
  <2>4. CASE LoginBusy(k)'
    BY <2>1, <2>2, <2>4 DEF OneAtATime
  <2> QED
    BY <2>3, <2>4
<1>3. \A j \in Issued : ~Live(j) => ~Live(j)'
  BY <1>1, StaysOut DEF SerialInv, Issued
<1>4. \A j \in Issued : Settled(j) => Settled(j)'
  BY <1>1, <1>3 DEF Settled
<1>5. lookup # None => lookup.jti \in Issued
  BY DEF IInv, TypeOK, LookupRec, LookupIssued, Issued
<1>6. SerialShape'
  <2>1. ASSUME NEW j \in Jti
        PROVE  /\ LoginBusy(j)' => login'[j].at = tick'
               /\ login'[j].pc \in {"old", "mark"} => lookup' # None /\ lookup'.jti = login'[j].old
               /\ login'[j].prior \subseteq Issued'
    <3>1. CASE j = k
      BY <1>1, <3>1
    <3>2. CASE j # k
      BY <1>1, <1>2, <3>2 DEF LoginBusy, SerialInv, SerialShape
    <3> QED
      BY <3>1, <3>2
  <2>2. lookup' # None => lookup'.exp = login'[lookup'.jti].at + Ttl
    <3>1. CASE n.pc = "issued"
      BY <1>1, <3>1, TtlNat DEF IInv
    <3>2. CASE n.pc # "issued"
      BY <1>1, <1>5, <3>2 DEF SerialInv, SerialShape
    <3> QED
      BY <3>1, <3>2
  <2>3. \A r \in Requests : req'[r].pc = "done"
    BY <1>2 DEF RequestBusy
  <2> QED
    BY <2>1, <2>2, <2>3 DEF SerialShape, Admitted
<1>7. KickShape'
  <2>1. ASSUME NEW j \in Issued'
        PROVE  Settled(j)' \/ (lookup' # None /\ lookup'.jti = j)
    <3>1. CASE n.pc = "issued"
      <4>1. [jti |-> k, exp |-> Expiry(RedisTtl)] \in LookupRec
        BY ExpiryNat, ClockAssumption DEF LookupRec, RedisTtl, IInv
      <4>2. lookup' # None /\ lookup'.jti = k
        BY <3>1, <4>1, NoneAssumption
      <4>3. j \in Issued => Settled(j)'
        BY <3>1
      <4> QED
        BY <1>1, <2>1, <3>1, <4>2, <4>3
    <3>2. CASE n.pc # "issued"
      BY <1>1, <1>4, <2>1, <3>2 DEF SerialInv, KickShape
    <3> QED
      BY <3>1, <3>2
  <2>2. ASSUME NEW j \in Jti, login'[j].pc \in {"store", "point"}, NEW i \in Issued'
        PROVE  Settled(i)'
    <3>1. j = k
      BY <1>1, <1>2, <2>2 DEF LoginBusy
    <3> QED
      BY <1>1, <2>2, <3>1
  <2>3. ASSUME NEW i \in Issued', NEW j \in login'[i].prior
        PROVE  ~Live(j)' \/ login'[i].at >= login'[j].at + Ttl
    <3>1. CASE i = k
      <4>1. j \in Issued /\ Settled(j)' /\ login'[i].at = tick'
        BY <1>1, <2>3, <3>1
      <4> QED
        BY <4>1 DEF Settled
    <3>2. CASE i # k
      <4>1. i \in Issued /\ j \in login[i].prior /\ j \in Issued /\ j # k
        BY <1>1, <2>3, <3>2 DEF SerialInv, SerialShape
      <4> QED
        BY <1>1, <1>3, <3>2, <4>1 DEF SerialInv, KickShape
    <3> QED
      BY <3>1, <3>2
  <2> QED
    BY <2>1, <2>2, <2>3 DEF KickShape
<1> QED
  BY <1>6, <1>7 DEF SerialInv

(* Every step of a login keeps the serial invariant. *)
LEMMA LoginsKeepSerial ==
  ASSUME KickOutEnable, IInv, SerialInv, [Next]_vars, OneAtATime', NEW k \in Jti, LoginStep(k)
  PROVE  SerialInv'
<1>1. /\ login[k] \in LoginRec /\ login[k].prior \subseteq Issued /\ Issued \subseteq Jti
      /\ LoginBusy(k) => login[k].at = tick
      /\ tick \in Nat /\ data \in [Jti -> SessionRec \cup {None}] /\ login[k].old # k
  BY LoginTyped DEF SerialInv, SerialShape, Issued, IInv, TypeOK, LoginShape
<1>2. \A j \in Jti : ~LoginBusy(k) \/ j = k \/ ~LoginBusy(j)
  BY Others DEF SerialInv, SerialShape
<1>3. /\ login[k].pc \in {"old", "mark"} => lookup # None /\ lookup.jti = login[k].old
      /\ login[k].pc \in {"store", "point"} => \A j \in Issued : Settled(j)
      /\ \A j \in Issued : Settled(j) \/ (lookup # None /\ lookup.jti = j)
  BY DEF SerialInv, SerialShape, KickShape
<1>4. UNCHANGED data => \A j \in Issued : j # k /\ Settled(j) /\ tick' = tick
                          /\ login'[j] = login[j] => Settled(j)'
  BY DEF Settled, Live
<1>5. CASE LoginStart(k)
  <2> DEFINE n == [login[k] EXCEPT !.pc = "lookup", !.at = tick, !.prior = Issued]
  <2>1. n \in LoginRec /\ n.pc = "lookup" /\ n.at = tick /\ n.prior = Issued
    BY <1>1 DEF LoginRec, LoginPc
  <2>2. login' = [login EXCEPT ![k] = n] /\ UNCHANGED <<tick, req, lookup>> /\ login[k].pc = "idle"
    BY <1>5 DEF LoginStart, redis
  <2> HIDE DEF n
  <2>3. LoginBusy(k)'
    BY <2>1, <2>2 DEF LoginBusy, IInv, TypeOK
  <2> QED
    BY <2>1, <2>2, <2>3, LoginKeepsSerial
<1>6. CASE ReadLookup(k)
  <2>0. login[k].pc = "lookup" /\ LoginBusy(k) /\ UNCHANGED <<tick, req, lookup, data>>
    BY <1>6 DEF ReadLookup, LoginBusy, redis
  <2>1. CASE lookup = None
    <3> DEFINE n == [login[k] EXCEPT !.pc = "store"]
    <3>1. n \in LoginRec /\ n.pc = "store" /\ n.at = login[k].at /\ n.prior = login[k].prior
      BY <1>1 DEF LoginRec, LoginPc
    <3>2. login' = [login EXCEPT ![k] = n]
      BY <1>6, <2>1, <1>1 DEF ReadLookup, IInv, TypeOK
    <3> HIDE DEF n
    <3>3. \A j \in Issued : j # k /\ login'[j] = login[j]
      BY <2>0, <3>2 DEF Issued, IInv, TypeOK
    <3>4. \A j \in Issued : Settled(j)'
      BY <1>3, <1>4, <2>0, <2>1, <3>3
    <3> QED
      BY <1>1, <2>0, <3>1, <3>2, <3>4, LoginKeepsSerial
  <2>2. CASE lookup # None
    <3> DEFINE n == [login[k] EXCEPT !.pc = "old", !.old = lookup.jti]
    <3>1. lookup.jti \in Jti
      BY <2>2 DEF IInv, TypeOK, LookupRec
    <3>2. /\ n \in LoginRec /\ n.pc = "old" /\ n.at = login[k].at /\ n.prior = login[k].prior
          /\ n.old = lookup.jti
      BY <1>1, <3>1 DEF LoginRec, LoginPc
    <3>3. login' = [login EXCEPT ![k] = n]
      BY <1>6, <2>2 DEF ReadLookup
    <3> HIDE DEF n
    <3> QED
      BY <1>1, <2>0, <2>2, <3>2, <3>3, LoginKeepsSerial
  <2> QED
    BY <2>1, <2>2
<1>7. CASE ReadOld(k)
  <2> DEFINE s == data[login[k].old]
             n == [login[k] EXCEPT !.pc = IF s = None THEN "store" ELSE "mark", !.snap = s]
  <2>0. login[k].pc = "old" /\ LoginBusy(k) /\ UNCHANGED <<tick, req, lookup, data>>
    BY <1>7 DEF ReadOld, LoginBusy, redis
  <2>1. login[k].old \in Jti
    BY <1>1, <2>0 DEF IInv, LoginShape, LoginRec
  <2>2. s \in SessionRec \cup {None}
    BY <1>1, <2>1
  <2>3. login' = [login EXCEPT ![k] = n]
    BY <1>7 DEF ReadOld
  <2> SUFFICES ASSUME NEW t, t = s, NEW m, m = n PROVE SerialInv'
    OBVIOUS
  <2>4. /\ m \in LoginRec /\ m.pc = (IF t = None THEN "store" ELSE "mark")
        /\ m.at = login[k].at /\ m.prior = login[k].prior /\ m.old = login[k].old
    BY <1>1, <2>2 DEF LoginRec, LoginPc
  <2>5. login' = [login EXCEPT ![k] = m]
    BY <2>3
  <2>6. \A j \in Issued : j # k /\ login'[j] = login[j]
    BY <2>0, <2>5 DEF Issued, IInv, TypeOK
  <2>7. t = None => \A j \in Issued : Settled(j)
    <3>1. t = None => Settled(login[k].old)
      BY DEF Settled, Live
    <3> QED
      BY <1>3, <2>0, <3>1
  <2>8. t = None => \A j \in Issued : Settled(j)'
    BY <1>4, <2>0, <2>6, <2>7
  <2> HIDE DEF s, n
  <2> QED
    BY <1>1, <1>3, <2>0, <2>4, <2>5, <2>8, LoginKeepsSerial
<1>8. CASE MarkKicked(k)
  <2> DEFINE n == [login[k] EXCEPT !.pc = "store"]
  <2>0. login[k].pc = "mark" /\ LoginBusy(k) /\ UNCHANGED <<tick, req, lookup>>
    BY <1>8 DEF MarkKicked, LoginBusy
  <2>1. n \in LoginRec /\ n.pc = "store" /\ n.at = login[k].at /\ n.prior = login[k].prior
    BY <1>1 DEF LoginRec, LoginPc
  <2>2. login' = [login EXCEPT ![k] = n]
    BY <1>8, <1>1 DEF MarkKicked, IInv, TypeOK
  <2> HIDE DEF n
  <2>3. \A j \in Issued : j # k /\ login'[j] = login[j]
    BY <2>0, <2>2 DEF Issued, IInv, TypeOK
  <2>4. login[k].old \in Jti /\ login[k].snap \in SessionRec
    BY <1>1, <2>0 DEF IInv, LoginShape, LoginRec
  <2>5. KickedCopy(login[k].snap).kicked = TRUE
    BY <2>4 DEF KickedCopy, SessionRec
  <2>6. ASSUME NEW j \in Jti
        PROVE  IF j = login[k].old THEN ~Live(j)' ELSE Live(j)' <=> Live(j)
    BY <1>1, <1>8, <2>4, <2>5 DEF MarkKicked, Live
  <2>7. \A j \in Issued : Settled(j)'
    <3>1. \A j \in Issued : j # login[k].old => Settled(j)
      BY <1>3, <2>0
    <3>2. ASSUME NEW j \in Issued PROVE Settled(j)'
      <4>1. j \in Jti /\ j # k /\ login'[j] = login[j] /\ tick' = tick
        BY <1>1, <2>0, <2>3
      <4>2. CASE j = login[k].old
        BY <2>6, <4>1, <4>2 DEF Settled
      <4>3. CASE j # login[k].old
        BY <2>6, <3>1, <4>1, <4>3 DEF Settled
      <4> QED
        BY <4>2, <4>3
    <3> QED
      BY <3>2
  <2> QED
    BY <1>1, <2>0, <2>1, <2>2, <2>7, LoginKeepsSerial
<1>9. CASE StoreSession(k)
  <2> DEFINE n == [login[k] EXCEPT !.pc = "point"]
  <2>0. login[k].pc = "store" /\ LoginBusy(k) /\ UNCHANGED <<tick, req, lookup>>
    BY <1>9 DEF StoreSession, LoginBusy
  <2>1. n \in LoginRec /\ n.pc = "point" /\ n.at = login[k].at /\ n.prior = login[k].prior
    BY <1>1 DEF LoginRec, LoginPc
  <2>2. login' = [login EXCEPT ![k] = n]
    BY <1>9, <1>1 DEF StoreSession, IInv, TypeOK
  <2> HIDE DEF n
  <2>3. \A j \in Issued : j # k /\ login'[j] = login[j] /\ data'[j] = data[j]
    BY <1>1, <1>9, <2>0, <2>2 DEF Issued, IInv, TypeOK, StoreSession
  <2>4. \A j \in Issued : Settled(j)'
    BY <1>3, <2>0, <2>3 DEF Settled, Live
  <2> QED
    BY <1>1, <2>0, <2>1, <2>2, <2>4, LoginKeepsSerial
<1>10. CASE PointLookup(k)
  <2> DEFINE n == [login[k] EXCEPT !.pc = "issued"]
  <2>0. login[k].pc = "point" /\ LoginBusy(k) /\ UNCHANGED <<tick, req, data>>
    BY <1>10 DEF PointLookup, LoginBusy
  <2>1. n \in LoginRec /\ n.pc = "issued" /\ n.at = login[k].at /\ n.prior = login[k].prior
    BY <1>1 DEF LoginRec, LoginPc
  <2>2. login' = [login EXCEPT ![k] = n] /\ lookup' = [jti |-> k, exp |-> Expiry(RedisTtl)]
    BY <1>10, <1>1 DEF PointLookup, IInv, TypeOK
  <2> HIDE DEF n
  <2>3. \A j \in Issued : j # k /\ login'[j] = login[j]
    BY <2>0, <2>2 DEF Issued, IInv, TypeOK
  <2>4. \A j \in Issued : Settled(j)'
    BY <1>3, <1>4, <2>0, <2>3
  <2> QED
    BY <1>1, <2>0, <2>1, <2>2, <2>4, LoginKeepsSerial
<1>11. CASE LoginFail(k)
  <2> DEFINE n == [login[k] EXCEPT !.pc = "failed"]
  <2>0. LoginBusy(k) /\ UNCHANGED <<tick, req, lookup>>
    BY <1>11 DEF LoginFail, LoginBusy, redis
  <2>1. n \in LoginRec /\ n.pc = "failed" /\ n.at = login[k].at /\ n.prior = login[k].prior
    BY <1>1 DEF LoginRec, LoginPc
  <2>2. login' = [login EXCEPT ![k] = n] /\ login[k].pc # "issued"
    BY <1>11, <1>1 DEF LoginFail, IInv, TypeOK
  <2> HIDE DEF n
  <2> QED
    BY <1>1, <2>0, <2>1, <2>2, LoginKeepsSerial
<1> QED
  BY <1>5, <1>6, <1>7, <1>8, <1>9, <1>10, <1>11 DEF LoginStep

(* A request goes on to the record n, with the sessions and the lookup key.  *)
LEMMA RequestKeepsSerial ==
  ASSUME IInv, SerialInv, [Next]_vars, OneAtATime', NEW r \in Requests, NEW n,
         req' = [req EXCEPT ![r] = n], UNCHANGED <<tick, login>>,
         RequestBusy(r) \/ RequestBusy(r)',
         \/ lookup' = lookup
         \/ lookup' = None /\ lookup # None /\ \E j \in Jti : j = lookup.jti /\ ~Live(j)',
         n.pc \in Admitted => Live(n.jti)',
         n.pc = "del" /\ n.mine /\ lookup' # None => lookup'.jti = n.jti
  PROVE  SerialInv'
<1>1. /\ req'[r] = n /\ \A q \in Requests : q # r => req'[q] = req[q]
      /\ Issued' = Issued /\ Issued \subseteq Jti
  BY DEF IInv, TypeOK, Issued
<1>2. /\ \A j \in Jti : ~LoginBusy(j)' /\ ~LoginBusy(j)
      /\ \A q \in Requests : q # r => ~RequestBusy(q)'
  <2>1. \A q \in Requests : q # r => (RequestBusy(q)' <=> RequestBusy(q))
    BY <1>1 DEF RequestBusy
  <2>2. \A j \in Jti : LoginBusy(j)' <=> LoginBusy(j)
    BY DEF LoginBusy
  <2>3. CASE RequestBusy(r)
    BY <2>1, <2>2, <2>3, Others DEF SerialInv, SerialShape
  <2>4. CASE RequestBusy(r)'
    BY <2>1, <2>2, <2>4 DEF OneAtATime
  <2> QED
    BY <2>3, <2>4
<1>3. \A j \in Issued : ~Live(j) => ~Live(j)'
  BY <1>1, StaysOut DEF SerialInv, Issued
<1>4. \A j \in Issued : Settled(j) => Settled(j)'
  BY <1>1, <1>3 DEF Settled
<1>5. \A j \in Jti : ~(login'[j].pc \in {"old", "mark", "store", "point"})
  BY <1>2 DEF LoginBusy
<1>6. SerialShape'
  <2>1. ASSUME NEW q \in Requests
        PROVE  /\ (req[q].pc \in Admitted => Live(req[q].jti))'
               /\ req'[q].pc = "del" /\ req'[q].mine /\ lookup' # None => lookup'.jti = req'[q].jti
    <3>1. CASE q = r
      BY <1>1, <3>1 DEF Live
    <3>2. CASE q # r
      BY <1>2, <3>2 DEF RequestBusy, Admitted
    <3> QED
      BY <3>1, <3>2
  <2>2. lookup' # None => lookup'.exp = login'[lookup'.jti].at + Ttl
    BY DEF SerialInv, SerialShape
  <2>3. \A j \in Jti : /\ LoginBusy(j)' => login'[j].at = tick'
                       /\ login'[j].pc \in {"old", "mark"} =>
                            lookup' # None /\ lookup'.jti = login'[j].old
                       /\ login'[j].prior \subseteq Issued'
    BY <1>1, <1>2, <1>5 DEF SerialInv, SerialShape
  <2> QED
    BY <2>1, <2>2, <2>3 DEF SerialShape
<1>7. KickShape'
  <2>1. ASSUME NEW j \in Issued'
        PROVE  Settled(j)' \/ (lookup' # None /\ lookup'.jti = j)
    <3>1. CASE Settled(j)
      BY <1>1, <1>4, <2>1, <3>1
    <3>2. CASE ~Settled(j)
      <4>1. lookup # None /\ lookup.jti = j
        BY <1>1, <2>1, <3>2 DEF SerialInv, KickShape
      <4>2. CASE lookup' = lookup
        BY <4>1, <4>2
      <4>3. CASE \E i \in Jti : i = lookup.jti /\ ~Live(i)'
        BY <4>1, <4>3 DEF Settled
      <4> QED
        BY <4>2, <4>3
    <3> QED
      BY <3>1, <3>2
  <2>2. ASSUME NEW i \in Issued', NEW j \in login'[i].prior
        PROVE  ~Live(j)' \/ login'[i].at >= login'[j].at + Ttl
    <3>1. i \in Issued /\ j \in login[i].prior /\ j \in Issued
      BY <1>1, <2>2 DEF SerialInv, SerialShape
    <3> QED
      BY <1>3, <3>1 DEF SerialInv, KickShape
  <2> QED
    BY <1>5, <2>1, <2>2 DEF KickShape
<1> QED
  BY <1>6, <1>7 DEF SerialInv

(* A request that moves on by Goto and touches no key.                       *)
LEMMA GotoKeepsSerial ==
  ASSUME IInv, SerialInv, [Next]_vars, OneAtATime', NEW r \in Requests,
         NEW pc \in ReqPc \ {"del"}, NEW res, Goto(r, pc, res),
         UNCHANGED <<tick, login, lookup>>, RequestBusy(r),
         NEW t, t = req[r].jti, pc \in Admitted => Live(t)'
  PROVE  SerialInv'
<1> DEFINE n == [req[r] EXCEPT !.pc = pc, !.res = res, !.snap = None]
<1>1. n.pc = pc /\ n.jti = req[r].jti
  BY DEF IInv, TypeOK, ReqRec
<1>2. req' = [req EXCEPT ![r] = n]
  BY DEF Goto
<1> HIDE DEF n
<1> QED
  BY <1>1, <1>2, RequestKeepsSerial

(* Every step of a request keeps it. *)
LEMMA RequestsKeepSerial ==
  ASSUME IInv, SerialInv, [Next]_vars, OneAtATime', NEW r \in Requests, RequestStep(r)
  PROVE  SerialInv'
<1> SUFFICES ASSUME NEW t, t = req[r].jti PROVE SerialInv'
  OBVIOUS
<1>1. /\ req[r] \in ReqRec /\ data \in [Jti -> SessionRec \cup {None}]
      /\ req[r].pc \in Admitted => Live(t)
      /\ req[r].pc = "del" /\ req[r].mine /\ lookup # None => lookup.jti = t
      /\ req[r].pc # "done" => t \in Jti
  BY DEF SerialInv, SerialShape, IInv, TypeOK, ReqShape, ReqRec
<1>2. UNCHANGED data => \A j \in Jti : Live(j)' <=> Live(j)
  BY DEF Live
<1>3. ASSUME NEW j \in Jti, RequestStart(r, j) PROVE SerialInv'
  <2> DEFINE n == [pc |-> "get", jti |-> j, snap |-> None, mine |-> FALSE,
                   res |-> "none", reset |-> latest]
  <2>1. n.pc = "get"
    OBVIOUS
  <2>2. req' = [req EXCEPT ![r] = n] /\ UNCHANGED <<tick, login, lookup>>
    BY <1>3 DEF RequestStart, redis
  <2> HIDE DEF n
  <2>3. RequestBusy(r)'
    BY <2>1, <2>2 DEF RequestBusy, IInv, TypeOK
  <2> QED
    BY <2>1, <2>2, <2>3, RequestKeepsSerial DEF Admitted
<1>4. CASE Validate(r)
  <2>1. RequestBusy(r) /\ UNCHANGED <<tick, login, lookup, data>> /\ t \in Jti
    BY <1>1, <1>4 DEF Validate, RequestBusy, redis
  <2>2. CASE Goto(r, "done", "invalid")
    BY <2>1, <2>2, GotoKeepsSerial DEF ReqPc, Admitted
  <2>3. CASE \E res \in Outcome : Goto(r, "delGet", res)
    BY <2>1, <2>3, GotoKeepsSerial DEF ReqPc, Admitted
  <2>4. CASE /\ data[req[r].jti] # None /\ ~data[req[r].jti].kicked
             /\ Goto(r, "credential", "none") \/ Goto(r, "exists", "ok")
    <3>1. Live(t)'
      BY <2>1, <2>4, <1>2 DEF Live
    <3> QED
      BY <2>1, <2>4, <3>1, GotoKeepsSerial DEF ReqPc
  <2> QED
    BY <1>4, <2>2, <2>3, <2>4 DEF Validate, Outcome
<1>5. CASE DeleteRead(r)
  <2>1. RequestBusy(r) /\ UNCHANGED <<tick, login, lookup, data>>
    BY <1>5 DEF DeleteRead, RequestBusy, redis
  <2> QED
    BY <1>5, <2>1, GotoKeepsSerial DEF DeleteRead, ReqPc, Admitted
<1>6. CASE DeleteLookup(r)
  <2> DEFINE b == lookup # None /\ lookup.jti = req[r].jti
             n == [req[r] EXCEPT !.pc = "del", !.mine = b]
  <2>1. RequestBusy(r) /\ UNCHANGED <<tick, login, lookup, data>>
    BY <1>6 DEF DeleteLookup, RequestBusy, redis
  <2>2. req' = [req EXCEPT ![r] = n]
    BY <1>6 DEF DeleteLookup
  <2>3. n.pc = "del" /\ n.jti = req[r].jti /\ (n.mine => b)
    BY <1>1 DEF ReqRec
  <2>4. n.mine => lookup'.jti = n.jti
    BY <2>1, <2>3
  <2> HIDE DEF n, b
  <2> QED
    BY <2>1, <2>2, <2>3, <2>4, RequestKeepsSerial DEF Admitted
<1>7. CASE DeleteKeys(r)
  <2> DEFINE n == [req[r] EXCEPT !.pc = "done", !.res = req[r].res, !.snap = None]
  <2>1. RequestBusy(r) /\ UNCHANGED <<tick, login>> /\ t \in Jti
    BY <1>1, <1>7 DEF DeleteKeys, RequestBusy
  <2>2. n.pc = "done" /\ req' = [req EXCEPT ![r] = n]
    BY <1>1, <1>7 DEF DeleteKeys, Goto, ReqRec
  <2>3. ~Live(t)'
    BY <1>1, <1>7, <2>1 DEF DeleteKeys, Live
  <2>4. \/ lookup' = lookup
        \/ lookup' = None /\ lookup # None /\ \E j \in Jti : j = lookup.jti /\ ~Live(j)'
    <3>1. CASE req[r].mine /\ lookup # None
      <4>1. lookup.jti = t
        BY <1>1, <1>7, <3>1 DEF DeleteKeys
      <4> QED
        BY <1>7, <2>1, <2>3, <3>1, <4>1 DEF DeleteKeys
    <3>2. CASE ~(req[r].mine /\ lookup # None)
      BY <1>7, <3>2 DEF DeleteKeys
    <3> QED
      BY <3>1, <3>2
  <2> HIDE DEF n
  <2> QED
    BY <2>1, <2>2, <2>4, RequestKeepsSerial DEF Admitted
<1>8. CASE CheckCredential(r)
  <2>1. /\ RequestBusy(r) /\ UNCHANGED <<tick, login, lookup, data>>
        /\ Live(t)'
    BY <1>1, <1>2, <1>8 DEF CheckCredential, RequestBusy, redis, Admitted
  <2> QED
    BY <1>8, <2>1, GotoKeepsSerial DEF CheckCredential, ReqPc
<1>9. CASE CheckStatus(r)
  <2>1. /\ RequestBusy(r) /\ UNCHANGED <<tick, login, lookup, data>>
        /\ Live(t)'
    BY <1>1, <1>2, <1>9 DEF CheckStatus, RequestBusy, redis, Admitted
  <2> QED
    BY <1>9, <2>1, GotoKeepsSerial DEF CheckStatus, ReqPc
<1>10. CASE TouchExists(r)
  <2>1. /\ RequestBusy(r) /\ UNCHANGED <<tick, login, lookup, data>>
        /\ Live(t)'
    BY <1>1, <1>2, <1>10 DEF TouchExists, RequestBusy, redis, Admitted
  <2> QED
    BY <1>10, <2>1, GotoKeepsSerial DEF TouchExists, ReqPc
<1>11. CASE TouchLock(r)
  <2>1. /\ RequestBusy(r) /\ UNCHANGED <<tick, login, lookup, data>>
        /\ Live(t)'
    BY <1>1, <1>2, <1>11 DEF TouchLock, RequestBusy, Admitted
  <2> QED
    BY <1>11, <2>1, GotoKeepsSerial DEF TouchLock, ReqPc
<1>12. CASE TouchGet(r)
  <2>1. /\ RequestBusy(r) /\ UNCHANGED <<tick, login, lookup, data>>
        /\ Live(t)'
    BY <1>1, <1>2, <1>12 DEF TouchGet, RequestBusy, redis, Admitted
  <2>2. CASE Goto(r, "done", req[r].res)
    BY <2>1, <2>2, GotoKeepsSerial DEF ReqPc
  <2>3. CASE data[req[r].jti] # None
    <3> DEFINE n == [req[r] EXCEPT !.pc = "touchSet",
                                   !.snap = [data[req[r].jti] EXCEPT !.last = Sec(tick)]]
    <3>1. n.pc = "touchSet" /\ n.jti = req[r].jti
      BY <1>1 DEF ReqRec
    <3>2. req' = [req EXCEPT ![r] = n]
      BY <1>12, <2>3 DEF TouchGet
    <3> HIDE DEF n
    <3> QED
      BY <2>1, <3>1, <3>2, RequestKeepsSerial
  <2> QED
    BY <1>12, <2>2, <2>3 DEF TouchGet
<1>13. CASE TouchSet(r)
  <2>1. RequestBusy(r) /\ UNCHANGED <<tick, login, lookup>>
    BY <1>13 DEF TouchSet, RequestBusy
  <2> QED
    BY <1>13, <2>1, GotoKeepsSerial DEF TouchSet, ReqPc, Admitted
<1>14. CASE RequestFail(r)
  <2>1. RequestBusy(r) /\ UNCHANGED <<tick, login, lookup>>
    BY <1>14 DEF RequestFail, RequestBusy, redis
  <2> QED
    BY <1>14, <2>1, GotoKeepsSerial DEF RequestFail, ReqPc, Admitted
<1> QED
  BY <1>3, <1>4, <1>5, <1>6, <1>7, <1>8, <1>9, <1>10, <1>11, <1>12, <1>13, <1>14 DEF RequestStep

(* The clock moves between two handlers; what it expires was settled.        *)
LEMMA ClockKeepsSerial ==
  ASSUME IInv, SerialInv, [Next]_vars, Tick,
         \A j \in Jti : ~LoginBusy(j), \A r \in Requests : ~RequestBusy(r)
  PROVE  SerialInv'
<1>1. /\ tick \in Nat /\ tick' = tick + 1 /\ UNCHANGED <<login, req>>
      /\ lookup' = IF lookup # None /\ lookup.exp <= tick' THEN None ELSE lookup
      /\ Issued' = Issued /\ Issued \subseteq Jti
  BY DEF Tick, IInv, TypeOK, Issued
<1>2. \A j \in Jti : login[j] \in LoginRec /\ login[j].at \in Nat
  BY LoginTyped
<1>3. \A j \in Jti : ~(login[j].pc \in {"lookup", "old", "mark", "store", "point"})
  BY DEF LoginBusy
<1>4. \A j \in Issued : ~Live(j) => ~Live(j)'
  BY <1>1, StaysOut DEF SerialInv, Issued
<1>5. \A j \in Issued : Settled(j) => Settled(j)'
  BY <1>1, <1>2, <1>4, TtlNat DEF Settled
<1>6. SerialShape'
  <2>1. OneAtATime' /\ \A j \in Jti : ~LoginBusy(j)'
    BY <1>1 DEF OneAtATime, LoginBusy, RequestBusy
  <2>2. \A r \in Requests : req'[r].pc = "done"
    BY <1>1 DEF RequestBusy
  <2>3. lookup' # None => lookup'.exp = login'[lookup'.jti].at + Ttl
    BY <1>1 DEF SerialInv, SerialShape
  <2> QED
    BY <1>1, <1>3, <2>1, <2>2, <2>3 DEF SerialShape, SerialInv, Admitted
<1>7. KickShape'
  <2>1. ASSUME NEW j \in Issued'
        PROVE  Settled(j)' \/ (lookup' # None /\ lookup'.jti = j)
    <3>1. CASE Settled(j)
      BY <1>1, <1>5, <2>1, <3>1
    <3>2. CASE ~Settled(j)
      <4>1. lookup # None /\ lookup.jti = j /\ lookup.exp = login[j].at + Ttl
        BY <1>1, <2>1, <3>2 DEF SerialInv, KickShape, SerialShape
      <4>2. CASE lookup.exp <= tick'
        BY <1>1, <1>2, <2>1, <4>1, <4>2, TtlNat DEF Settled
      <4>3. CASE ~(lookup.exp <= tick')
        BY <1>1, <4>1, <4>3
      <4> QED
        BY <4>2, <4>3
    <3> QED
      BY <3>1, <3>2
  <2>2. ASSUME NEW i \in Issued', NEW j \in login'[i].prior
        PROVE  ~Live(j)' \/ login'[i].at >= login'[j].at + Ttl
    <3>1. i \in Issued /\ j \in login[i].prior /\ j \in Issued
      BY <1>1, <2>2 DEF SerialInv, SerialShape
    <3> QED
      BY <1>1, <1>4, <3>1 DEF SerialInv, KickShape
  <2> QED
    BY <1>1, <1>3, <2>1, <2>2 DEF KickShape
<1> QED
  BY <1>6, <1>7 DEF SerialInv

(* A step that leaves the sessions, the clock and the handlers alone.        *)
LEMMA RestKeepsSerial ==
  ASSUME SerialInv, UNCHANGED <<tick, data, lookup, login, req>>
  PROVE  SerialInv'
<1>1. /\ Issued' = Issued /\ \A j : (Live(j)' <=> Live(j)) /\ (Settled(j)' <=> Settled(j))
      /\ \A j : LoginBusy(j)' <=> LoginBusy(j)
      /\ \A r : RequestBusy(r)' <=> RequestBusy(r)
  BY DEF Issued, Live, Settled, LoginBusy, RequestBusy
<1>2. SerialShape'
  BY <1>1 DEF SerialInv, SerialShape, OneAtATime
<1>3. KickShape'
  BY <1>1 DEF SerialInv, KickShape
<1> QED
  BY <1>2, <1>3 DEF SerialInv

(* What holds of the behaviours in which handlers do not overlap.            *)
SerialBehaviour == subject = "serial" => IInv /\ (KickOutEnable => SerialInv)

(* It holds initially. *)
LEMMA InitSerial == Init => SerialInv
<1> SUFFICES ASSUME Init PROVE SerialInv
  OBVIOUS
<1>1. Issued = {} /\ (\A j \in Jti : login[j].pc = "idle" /\ login[j].prior = {})
      /\ (\A r \in Requests : req[r].pc = "done") /\ lookup = None
  BY DEF Init, Issued
<1> QED
  BY <1>1 DEF SerialInv, SerialShape, KickShape, OneAtATime, LoginBusy, RequestBusy, Admitted

(* Every serial step keeps it. *)
LEMMA SerialStep ==
  ASSUME KickOutEnable, IInv, SerialInv, SerialNext
  PROVE  SerialInv'
<1>1. Next /\ [Next]_vars /\ OneAtATime'
  BY DEF SerialNext
<1>2. CASE \E j \in Jti : LoginStep(j)
  BY <1>1, <1>2, LoginsKeepSerial
<1>3. CASE \E r \in Requests : RequestStep(r)
  BY <1>1, <1>3, RequestsKeepSerial
<1>4. CASE (\E x \in Resets : ResetStep(x)) \/ \E s \in {"active", "disabled"} : SetStatus(s)
  BY <1>4, RestKeepsSerial
     DEF ResetStep, ResetBegin, ResetCommit, ResetFail, SetStatus, redis
<1>5. CASE Tick
  <2>1. tick' # tick
    BY <1>5 DEF Tick, IInv, TypeOK
  <2> QED
    BY <1>1, <1>5, <2>1, ClockKeepsSerial DEF SerialNext
<1> QED
  BY <1>1, <1>2, <1>3, <1>4, <1>5 DEF Next

(* Logins that do not overlap kick: when a login has returned, no session    *)
(* issued before it started is in force any more, unless that one is as old  *)
(* as the lookup key lives.                                                  *)
THEOREM SerialLoginsKick == AllSpec => []LaterLoginKicksSerially
<1>1. AllInit => SerialBehaviour
  BY InitIInv, InitSerial DEF AllInit, SerialBehaviour
<1>2. SerialBehaviour /\ [AllNext]_<<subject, vars>> => SerialBehaviour'
  <2> SUFFICES ASSUME SerialBehaviour, [AllNext]_<<subject, vars>>, subject' = "serial"
               PROVE  IInv' /\ (KickOutEnable => SerialInv')
    BY DEF SerialBehaviour
  <2>1. subject = "serial" /\ IInv /\ (KickOutEnable => SerialInv)
    BY DEF AllNext, SerialBehaviour
  <2>2. SerialNext \/ UNCHANGED vars
    BY <2>1 DEF AllNext
  <2>3. IInv'
    BY <2>1, <2>2, LoginPreserves, RequestPreserves, EnvironmentPreserves DEF SerialNext, Next
  <2>4. ASSUME KickOutEnable PROVE SerialInv'
    BY <2>1, <2>2, <2>4, SerialStep, RestKeepsSerial DEF vars
  <2> QED
    BY <2>3, <2>4
<1>3. SerialBehaviour => LaterLoginKicksSerially
  <2> SUFFICES ASSUME SerialBehaviour, subject = "serial", KickOutEnable,
                      NEW k \in Issued, NEW j \in login[k].prior,
                      login[k].at < login[j].at + Ttl
               PROVE  ~Live(j)
    BY DEF LaterLoginKicksSerially, LaterLoginKicksWithinTtl, Ttl
  <2>1. ~Live(j) \/ login[k].at >= login[j].at + Ttl
    BY DEF SerialBehaviour, SerialInv, KickShape
  <2>2. k \in Jti /\ j \in Jti /\ login[k].at \in Nat /\ login[j].at \in Nat
    BY LoginTyped DEF SerialBehaviour, Issued
  <2> QED
    BY <2>1, <2>2, TtlNat
<1> QED
  BY <1>1, <1>2, <1>3, PTL DEF AllSpec
=============================================================================
