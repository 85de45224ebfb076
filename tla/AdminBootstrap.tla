---------------------------- MODULE AdminBootstrap ----------------------------
(* The built-in administrator, op_user 1 on op_account 1: every process      *)
(* that starts adds the bootstrap task to its own queue and runs it, while   *)
(* administrators of the same database delete users or name one admin.  A    *)
(* step is one read or one commit.                                           *)
EXTENDS Naturals

CONSTANTS Proc, None,
  Attempts,     \* DEFAULT_JOB_OPTIONS.attempts
  MaxStarts     \* bound: how many times a process starts

VARIABLES
  row,          \* the rows of the built-in administrator, by table
  other,        \* another op_account of the name "admin" exists
  ensure,       \* each process's bootstrap job
  starts,       \* how many times a process started
  deleted       \* history: the user was deleted once

abVars == <<row, other, ensure, starts, deleted>>

Table == {"account", "identity", "credential", "user"}
RowState == {"none", "live", "deleted"}
Pc == {"idle", "waiting", "restore", "begin", "create", "done", "failed"}
EnsureRec == [pc : Pc, failures : 0..Attempts, name : {"admin", "admin_1", None}]

AbTypeOK ==
  /\ row \in [Table -> RowState]
  /\ other \in BOOLEAN
  /\ ensure \in [Proc -> EnsureRec]
  /\ starts \in 0..MaxStarts
  /\ deleted \in BOOLEAN

Idle == [pc |-> "idle", failures |-> 0, name |-> None]

AbInit ==
  /\ row = [t \in Table |-> "none"]
  /\ other \in BOOLEAN
  /\ ensure = [p \in Proc |-> Idle]
  /\ starts = 0
  /\ deleted = FALSE

Goto(p, pc) == ensure' = [ensure EXCEPT ![p].pc = pc]
(* A rejected handler: BullMQ tries again until the attempts are used up.   *)
Fails(p) ==
  LET failures == ensure[p].failures + 1 IN
  ensure' = [ensure EXCEPT ![p] =
    [pc |-> IF failures = Attempts THEN "failed" ELSE "waiting", failures |-> failures,
     name |-> None]]

(* onModuleInit of OpUserBootstrapTask: a job that waits or runs stays, a   *)
(* settled one is replaced.                                                 *)
OnModuleInit(p) ==
  /\ starts < MaxStarts
  /\ ensure[p].pc \in {"idle", "waiting", "done", "failed"}
  /\ starts' = starts + 1
  /\ ensure' = IF ensure[p].pc = "waiting" THEN ensure
               ELSE [ensure EXCEPT ![p] = [Idle EXCEPT !.pc = "waiting"]]
  /\ UNCHANGED <<row, other, deleted>>

(* The look at the user, before the transaction.                            *)
FindExisting(p) ==
  /\ ensure[p].pc = "waiting"
  /\ Goto(p, CASE row["user"] = "live" -> "done"
               [] row["user"] = "deleted" -> "restore"
               [] OTHER -> "begin")
  /\ UNCHANGED <<row, other, starts, deleted>>

(* A deleted user: only its own row is restored.                            *)
Restored == [row EXCEPT !["user"] = "live"]

RestoreUser(p) ==
  /\ ensure[p].pc = "restore"
  /\ row' = Restored
  /\ Goto(p, "done")
  /\ UNCHANGED <<other, starts, deleted>>

(* The transaction looks the account up, then names a new one; a soft-      *)
(* deleted one is not found.                                                *)
ChooseUsername(p) ==
  /\ ensure[p].pc = "begin"
  /\ ensure' = [ensure EXCEPT ![p].pc = "create",
       ![p].name = IF row["account"] = "live" THEN None
                   ELSE IF other THEN "admin_1" ELSE "admin"]
  /\ UNCHANGED <<row, other, starts, deleted>>

(* Rows with fixed ids: save updates one that is there by now, without      *)
(* taking it back from deletion, unless both transactions insert it at once;*)
(* then the second one is rolled back.                                      *)
CreatedWithoutCredential ==
  [t \in Table |-> IF row[t] = "none" /\ t # "credential" THEN "live" ELSE row[t]]

Created == [t \in Table |-> IF row[t] = "none" THEN "live" ELSE row[t]]

CommitAdmin(p) ==
  /\ ensure[p].pc = "create"
  /\ \/ row' = Created /\ Goto(p, "done")
     \/ /\ ensure[p].name # None /\ row["account"] # "none"
        /\ Fails(p) /\ UNCHANGED row
  /\ UNCHANGED <<other, starts, deleted>>

(* Any statement may fail, or the process die: the transaction is undone.   *)
EnsureFails(p) ==
  /\ ensure[p].pc \in {"restore", "begin", "create"}
  /\ Fails(p)
  /\ UNCHANGED <<row, other, starts, deleted>>

-----------------------------------------------------------------------------
(* deleteOpUser, in a transaction: user, identity, and the account with its *)
(* last identity.  The credential stays.                                    *)
DeleteOpUser ==
  /\ row["user"] = "live"
  /\ row' = [row EXCEPT !["user"] = "deleted",
                        !["identity"] = IF row["identity"] = "live" THEN "deleted" ELSE @,
                        !["account"] = IF row["identity"] = "live" THEN "deleted" ELSE @]
  /\ deleted' = TRUE
  /\ UNCHANGED <<other, ensure, starts>>

(* createOpUser of a user named admin: only where no live account has it.   *)
CreateOther ==
  /\ ~other /\ row["account"] # "live"
  /\ other' = TRUE
  /\ UNCHANGED <<row, ensure, starts, deleted>>

AbNext ==
  \/ \E p \in Proc : OnModuleInit(p)
  \/ \E p \in Proc : FindExisting(p) \/ RestoreUser(p) \/ ChooseUsername(p)
                       \/ CommitAdmin(p) \/ EnsureFails(p)
  \/ DeleteOpUser \/ CreateOther

AbSpec == AbInit /\ [][AbNext]_abVars

-----------------------------------------------------------------------------
(* A finished bootstrap leaves an administrator who can log in, whatever    *)
(* other processes did at the same time, as long as nobody deleted it.      *)
BootstrapLeavesAdmin ==
  ~deleted /\ (\E p \in Proc : ensure[p].pc = "done")
    => \A t \in Table : row[t] = "live"

=============================================================================
