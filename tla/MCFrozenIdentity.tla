-------------------------- MODULE MCFrozenIdentity --------------------------
(* Model checking of the account cache against the guard that mounts the    *)
(* identity of a request: one administrator, one request, one site account. *)
EXTENDS Accounts

CONSTANTS p1, q1, s1, n1
=============================================================================
