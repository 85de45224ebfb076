----------------------------- MODULE MCSession -----------------------------
(* Model checking of Session on small instances.  A behaviour is of one of  *)
(* three kinds, its subject, that differ in the configuration.              *)
EXTENDS Session, TLC

CONSTANTS j1, j2, r1, r2, x1, x2

VARIABLE subject

(* Without a credential checker nothing reads the credential state, so the  *)
(* behaviours about kicking leave it alone.                                 *)
Kick == INSTANCE Session WITH CheckerPresent <- FALSE
KickNext ==
  \/ \E j \in Jti : Kick!LoginStep(j)
  \/ \E r \in Requests : Kick!RequestStep(r)
  \/ tick < 3 /\ Kick!Tick

(* Behaviours about revocation, and the serial ones, use one request slot,  *)
(* those about revocation one token, whose place among two resets matters.  *)
OneSlot == Cardinality({r \in Requests : req'[r].jti # None}) <= 1

Revoke == INSTANCE Session WITH KickOutEnable <- FALSE, TicksPerSec <- 2
OneToken == Cardinality({j \in Jti : login'[j].pc # "idle"}) <= 1
RevokeNext == Revoke!Next /\ OneSlot /\ OneToken /\ tick' <= 3   \* two seconds of two ticks

(* One login, request or touch at a time, each shorter than a tick: the     *)
(* next one starts, and the clock advances, when every other has finished.  *)
LoginBusy(j) == login[j].pc \notin {"idle", "issued", "failed"}
RequestBusy(r) == req[r].pc # "done"
OneAtATime ==
  /\ \A j, k \in Jti : LoginBusy(j) /\ LoginBusy(k) => j = k
  /\ \A r, q \in Requests : RequestBusy(r) /\ RequestBusy(q) => r = q
  /\ \A j \in Jti, r \in Requests : ~(LoginBusy(j) /\ RequestBusy(r))
SerialNext ==
  /\ Next
  /\ OneSlot
  /\ OneAtATime'
  /\ overlapped' = {}
  /\ tick' # tick => /\ \A j \in Jti : ~LoginBusy(j)
                     /\ \A r \in Requests : ~RequestBusy(r)

AllInit == Init /\ subject \in {"kick", "revoke", "serial"}

AllNext ==
  \/ subject = "kick" /\ KickNext /\ UNCHANGED subject
  \/ subject = "revoke" /\ RevokeNext /\ UNCHANGED subject
  \/ subject = "serial" /\ SerialNext /\ UNCHANGED subject

AllSpec == AllInit /\ [][AllNext]_<<subject, vars>>

LaterLoginKicksSerially == subject = "serial" => LaterLoginKicksWithinTtl

MCSymmetry == Permutations(Jti) \cup Permutations(Requests) \cup Permutations(Resets)
=============================================================================
