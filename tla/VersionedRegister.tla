------------------------- MODULE VersionedRegister -------------------------
(* What a setting under an optimistic lock promises: a register whose       *)
(* version counts its changes, each of them made by a request that knew the *)
(* version it replaced.  So of the requests that carry one version, at most *)
(* one changes the register.                                                *)
EXTENDS Naturals

CONSTANTS
  Values,       \* contents of the register
  Unset         \* the content before the first change

VARIABLES value, version

TypeOK == value \in Values \cup {Unset} /\ version \in Nat

Init == value = Unset /\ version = 0

(* A request that carries the current version changes the register to v. *)
CompareAndSet(v) ==
  /\ version' = version + 1
  /\ value' = v

Next == \E v \in Values : CompareAndSet(v)

Spec == Init /\ [][Next]_<<value, version>>
=============================================================================
