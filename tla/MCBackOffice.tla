---------------------------- MODULE MCBackOffice ----------------------------
(* Model checking of role permissions and accounts.  A behaviour is about   *)
(* one of them, its subject; the other stands still.                        *)
EXTENDS Permissions, TLC

CONSTANTS p1, p2, q1, c1, c2, n1, n2

VARIABLES
  subject,
  account, identity, byId, byName, task, request, excused, leaked, crossed

(* Two administrators and a request with one account; one administrator     *)
(* with three op_accounts and two names, who completes what he begins; one  *)
(* with an account of each kind.                                            *)
Shared == INSTANCE Accounts WITH Request <- {q1}, Op <- {q1}, Site <- {},
            Name <- {c1}
Renames == INSTANCE Accounts WITH Admin <- {q1}, Request <- {}, Op <- {c1, c2, q1}, Site <- {},
             Name <- {n1, n2}, MayDie <- FALSE
Sites == INSTANCE Accounts WITH Admin <- {q1}, Request <- {}, Op <- {c1}, Site <- {q1},
           Name <- {n1, n2}

(* None is no account, name or row; no account is of both kinds.            *)
ASSUME AccountsAssumption == Shared!Distinct /\ Renames!Distinct /\ Sites!Distinct

accountVars == <<account, identity, byId, byName, task, request, excused, leaked, crossed>>
allVars == <<subject, pmVars, accountVars>>

BackOfficeInit ==
  /\ \/ subject = "renames" /\ Renames!AcInit
     \/ subject = "sites" /\ Sites!AcInit
     \/ subject \in {"roles", "accounts"} /\ Shared!AcInit
  /\ PmInit

BackOfficeNext ==
  \/ subject = "roles" /\ PmNext /\ UNCHANGED <<subject, accountVars>>
  \/ subject = "accounts" /\ Shared!AcNext /\ UNCHANGED <<subject, pmVars>>
  \/ subject = "renames" /\ Renames!AcNext /\ UNCHANGED <<subject, pmVars>>
  \/ subject = "sites" /\ Sites!AcNext /\ UNCHANGED <<subject, pmVars>>

BackOfficeSpec == BackOfficeInit /\ [][BackOfficeNext]_allVars

(* Cached permissions are those of the rows unless an older read filled     *)
(* them or a dead operation left them; deleted roles are bound to nobody    *)
(* while operations do not overlap, and stay deleted.                       *)
RolesSafe ==
  [](subject = "roles" => PmTypeOK /\ CachedPermissionsFresh /\ DeletedRoleUnboundAlone)
    /\ DeletedStaysDeletedAlone

(* Cached accounts, by id and by name, are those of the rows with the same  *)
(* exceptions, and two accounts come to have one name, while operations do  *)
(* not overlap, only where a stale entry vouches for one of them.           *)
AccountsCached ==
  CASE subject = "renames" ->
         Renames!AcTypeOK /\ Renames!OpAccountCacheFresh /\ Renames!NameEntryFresh
    [] subject = "sites" ->
         Sites!AcTypeOK /\ Sites!OpAccountCacheFresh /\ Sites!NameEntryFresh
    [] subject = "accounts" ->
         Shared!AcTypeOK /\ Shared!OpAccountCacheFresh /\ Shared!NameEntryFresh
    [] OTHER -> TRUE
NamesStayUnique ==
  CASE subject = "renames" -> Renames!UsernameUniqueAlone
    [] subject = "sites" -> Sites!UsernameUniqueAlone
    [] subject = "accounts" -> Shared!UsernameUniqueAlone
    [] OTHER -> TRUE
AccountsSafe == [](subject # "roles" => AccountsCached) /\ [][NamesStayUnique]_allVars

MCSymmetry == Permutations(Admin)
=============================================================================
