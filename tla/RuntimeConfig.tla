--------------------------- MODULE RuntimeConfig ---------------------------
(***************************************************************************)
(* One row of sys_runtime_config and its copy in Redis, as                 *)
(* runtime-config.service.ts reads and writes them.  Rows and cache keys   *)
(* of different codes never meet, so one code is modelled.                 *)
(*                                                                         *)
(* A process runs one operation at a time; every SQL statement and Redis   *)
(* command is a step.  repo.save is two statements: it loads the row by    *)
(* primary key, then writes the columns in which the entity differs from   *)
(* the row it loaded (or inserts, when it found none).                     *)
(***************************************************************************)
EXTENDS Naturals, FiniteSets

CONSTANTS
  Proc,         \* concurrent calls of the service
  Values,       \* values of the configuration
  Status,       \* values of the status column (stands for all columns but value)
  Default,      \* the default value an application declares in ensure()
  None,         \* an absent row, cache entry or input field
  MayFail,      \* SQL statements and Redis commands may fail
  MaxCommits    \* bound: number of row changes

ASSUME ValueAssumption ==
  Default \in Values /\ None \notin Values /\ "active" \in Status

ASSUME BoundAssumption == MayFail \in BOOLEAN /\ MaxCommits \in Nat

(* stamp is a history field: the number of the row change that wrote it.    *)
Row == [value : Values, version : Nat, status : Status, builtin : BOOLEAN,
        stamp : Nat]

ASSUME NoneAssumption == None \notin Row /\ None \notin Status

VARIABLES
  row,       \* the row of the code, or None
  cache,     \* the copy in Redis, or None
  op,        \* op[p]: the operation p runs
  commits,   \* history: number of row changes so far
  history,   \* history: every row ever committed
  returned,  \* history: stamp of the latest write that has returned
  overlapped \* history: two calls have run at the same time

vars == <<row, cache, op, commits, history, returned, overlapped>>
ghost == <<commits, history, returned, overlapped>>

Pc == {"done", "get", "db", "fill", "ensure", "create", "update", "load",
       "write", "clear", "delete", "unset", "remove"}
Expected == Nat \cup {None}

(* ent is the entity in memory, base the row repo.save loaded, exp the      *)
(* expectedVersion; history fields: kind is where the call began, floor     *)
(* the value of returned at that time, served what a read has returned.     *)
OpRec == [pc : Pc, kind : Pc, ent : Row \cup {None}, base : Row \cup {None},
          exp : Expected, floor : Nat, served : Row \cup {None}]

TypeOK ==
  /\ row \in Row \cup {None}
  /\ cache \in Row \cup {None}
  /\ op \in [Proc -> OpRec]
  /\ commits \in Nat
  /\ history \in SUBSET Row
  /\ returned \in Nat
  /\ overlapped \in BOOLEAN

Idle == [pc |-> "done", kind |-> "done", ent |-> None, base |-> None, exp |-> None,
         floor |-> 0, served |-> None]

Init ==
  /\ row = None
  /\ cache = None
  /\ op = [p \in Proc |-> Idle]
  /\ commits = 0
  /\ history = {}
  /\ returned = 0
  /\ overlapped = FALSE

At(p, pc) == op[p].pc = pc

(* The call of p goes on at pc with entity e. *)
Hold(p, pc, e) == op' = [op EXCEPT ![p] = [@ EXCEPT !.pc = pc, !.ent = e]]

(* The call of p ends; a read serves e. *)
End(p, e) ==
  op' = [op EXCEPT ![p] =
           IF e = None THEN Idle ELSE [Idle EXCEPT !.floor = op[p].floor, !.served = e]]

Start(p, pc, exp) ==
  /\ At(p, "done")
  /\ op' = [op EXCEPT ![p] = [Idle EXCEPT !.pc = pc, !.kind = pc, !.exp = exp,
                                       !.floor = returned]]
  /\ overlapped' = (overlapped \/ \E q \in Proc \ {p} : ~At(q, "done"))
  /\ UNCHANGED <<row, cache, commits, history, returned>>

-----------------------------------------------------------------------------
(* findByCode, and getValues for this code: cache, row, fill.               *)

ReadCache(p) ==
  /\ At(p, "get")
  /\ IF cache # None THEN End(p, cache) ELSE Hold(p, "db", None)
  /\ UNCHANGED <<row, cache, ghost>>

ReadRow(p) ==
  /\ At(p, "db")
  /\ IF row = None THEN End(p, None) ELSE Hold(p, "fill", row)
  /\ UNCHANGED <<row, cache, ghost>>

WriteCache(p) ==
  /\ At(p, "fill")
  /\ cache' = op[p].ent
  /\ End(p, op[p].ent)
  /\ UNCHANGED <<row, ghost>>

-----------------------------------------------------------------------------
(* Writers: each reads the row, builds an entity, and saves it.             *)

NewRow(v, status, builtin) ==
  [value |-> v, version |-> 1, status |-> status, builtin |-> builtin, stamp |-> 0]

(* Mutant: the declared definition is applied to an existing row too. *)
RedeclaredRow ==
  IF row = None THEN NewRow(Default, "active", TRUE)
                ELSE [NewRow(Default, "active", TRUE) EXCEPT !.stamp = row.stamp]

(* ensure() keeps value, version and status of a row it finds. *)
EnsuredRow ==
  IF row = None THEN NewRow(Default, "active", TRUE)
                ELSE [row EXCEPT !.builtin = TRUE]

EnsureRead(p) ==
  /\ At(p, "ensure")
  /\ Hold(p, "load", EnsuredRow)
  /\ UNCHANGED <<row, cache, ghost>>

CreateRead(p) ==
  /\ At(p, "create")
  /\ IF row # None
     THEN End(p, None)
     ELSE \E v \in Values, s \in Status, b \in BOOLEAN : Hold(p, "load", NewRow(v, s, b))
  /\ UNCHANGED <<row, cache, ghost>>

(* Mutant: an omitted value is assigned like a given one. *)
UncheckedUpdate(v, s) ==
  [row EXCEPT !.value = v,
              !.version = @ + 1,
              !.status = IF s = None THEN @ ELSE s]

(* The fields update() assigns; a None input is an omitted one. *)
UpdatedRow(v, s) ==
  [row EXCEPT !.value = IF v = None THEN @ ELSE v,
              !.version = IF v = None THEN @ ELSE @ + 1,
              !.status = IF s = None THEN @ ELSE s]

(* Mutant: the version the client sent is not compared. *)
IgnoresVersion(p) == FALSE

VersionConflict(p) == op[p].exp # None /\ op[p].exp # row.version

(* Mutant: the entity goes to Redis before it is saved. *)
UpdateReadThrough(p) ==
  /\ At(p, "update")
  /\ IF row = None \/ VersionConflict(p)
     THEN End(p, None) /\ UNCHANGED cache
     ELSE \E v \in Values \cup {None}, s \in Status \cup {None} :
            Hold(p, "load", UpdatedRow(v, s)) /\ cache' = UpdatedRow(v, s)
  /\ UNCHANGED <<row, ghost>>

UpdateRead(p) ==
  /\ At(p, "update")
  /\ IF row = None \/ VersionConflict(p)
     THEN End(p, None)
     ELSE \E v \in Values \cup {None}, s \in Status \cup {None} :
            Hold(p, "load", UpdatedRow(v, s))
  /\ UNCHANGED <<row, cache, ghost>>

SaveLoad(p) ==
  /\ At(p, "load")
  /\ op' = [op EXCEPT ![p] = [@ EXCEPT !.pc = "write", !.base = row]]
  /\ UNCHANGED <<row, cache, ghost>>

(* A column is written when the entity differs from the row that was loaded *)
Column(ent, base, cur) == IF ent # base THEN ent ELSE cur

Written(ent, base, cur) ==
  [value   |-> Column(ent.value, base.value, cur.value),
   version |-> Column(ent.version, base.version, cur.version),
   status  |-> Column(ent.status, base.status, cur.status),
   builtin |-> Column(ent.builtin, base.builtin, cur.builtin),
   stamp   |-> commits + 1]

Commit(r) ==
  /\ row' = r
  /\ commits' = commits + 1
  /\ history' = history \cup {r}
  /\ UNCHANGED <<returned, overlapped>>

(* INSERT when no row was loaded (a duplicate key is an error), UPDATE      *)
(* otherwise (of no row, when it has been deleted meanwhile).               *)
SaveWrite(p) ==
  /\ At(p, "write")
  /\ commits < MaxCommits
  /\ LET e == op[p].ent
         b == op[p].base
     IN
       \/ /\ b = None /\ row = None
          /\ Commit([e EXCEPT !.stamp = commits + 1])
          /\ Hold(p, "clear", row')
       \/ b = None /\ row # None /\ End(p, None) /\ UNCHANGED <<row, ghost>>
       \/ /\ b # None /\ row # None
          /\ Commit(Written(e, b, row))
          /\ Hold(p, "clear", row')
       \/ b # None /\ row = None /\ Hold(p, "clear", None) /\ UNCHANGED <<row, ghost>>
  /\ UNCHANGED cache

(* Mutant: the copy of the saved row is left in Redis. *)
KeepCache(p) ==
  /\ At(p, "clear")
  /\ End(p, None)
  /\ returned' = IF op[p].ent # None /\ op[p].ent.stamp > returned
                 THEN op[p].ent.stamp ELSE returned
  /\ UNCHANGED <<row, cache, commits, history, overlapped>>

(* clearCache, after which the write returns; invalidate() is this step. *)
ClearCache(p) ==
  /\ At(p, "clear")
  /\ cache' = None
  /\ End(p, None)
  /\ returned' = IF op[p].ent # None /\ op[p].ent.stamp > returned
                 THEN op[p].ent.stamp ELSE returned
  /\ UNCHANGED <<row, commits, history, overlapped>>

-----------------------------------------------------------------------------
(* delete: the cache is cleared before the row is deleted.                  *)

Deletable == row # None /\ ~row.builtin

DeleteRead(p) ==
  /\ At(p, "delete")
  /\ IF Deletable THEN Hold(p, "unset", None) ELSE End(p, None)
  /\ UNCHANGED <<row, cache, ghost>>

DeleteClear(p) ==
  /\ At(p, "unset")
  /\ cache' = None
  /\ Hold(p, "remove", None)
  /\ UNCHANGED <<row, ghost>>

Remove(p) ==
  /\ At(p, "remove")
  /\ commits < MaxCommits
  /\ row' = None
  /\ commits' = commits + 1
  /\ returned' = commits + 1
  /\ End(p, None)
  /\ UNCHANGED <<cache, history, overlapped>>

-----------------------------------------------------------------------------
(* A statement or command fails: the call throws, what was written stays. *)
Fail(p) ==
  /\ MayFail
  /\ ~At(p, "done")
  /\ End(p, None)
  /\ UNCHANGED <<row, cache, ghost>>

(* Mutant: the copy is written without a TTL. *)
NeverExpire ==
  /\ FALSE
  /\ cache' = None
  /\ UNCHANGED <<row, op, ghost>>

(* The TTL of the copy runs out. *)
Expire ==
  /\ cache # None
  /\ cache' = None
  /\ UNCHANGED <<row, op, ghost>>

Call(p) ==
  \/ \E pc \in {"get", "ensure", "create", "delete", "clear"} : Start(p, pc, None)
  \/ \E e \in (1..MaxCommits) \cup {None} : Start(p, "update", e)

Step(p) ==
  \/ ReadCache(p) \/ ReadRow(p) \/ WriteCache(p)
  \/ EnsureRead(p) \/ CreateRead(p) \/ UpdateRead(p)
  \/ SaveLoad(p) \/ SaveWrite(p) \/ ClearCache(p)
  \/ DeleteRead(p) \/ DeleteClear(p) \/ Remove(p)

Next ==
  \/ \E p \in Proc : Call(p) \/ Step(p) \/ Fail(p)
  \/ Expire

Spec == Init /\ [][Next]_vars

(* A call that was made goes on to its end, and a TTL runs out. *)
Fairness == WF_vars(Expire) /\ \A p \in Proc : WF_vars(Step(p))
FairSpec == Spec /\ Fairness

-----------------------------------------------------------------------------
(* Nothing is served that was not committed: the copy in Redis, the copy a  *)
(* reader is about to store and what reads have returned are rows as some   *)
(* save wrote them, never an entity a writer still holds in memory          *)
(* (findByCode caches what it read, writers only clear).                    *)
ServesCommitted ==
  /\ cache # None => cache \in history
  /\ \A p \in Proc : op[p].served # None => op[p].served \in history
  /\ \A p \in Proc : At(p, "fill") => op[p].ent \in history

(* The version of an existing row falls only when a writer whose entity was *)
(* read before the latest change saves it: update() adds one to what it     *)
(* read and ensure() leaves the version alone.                              *)
VersionFallsOnlyByStaleSave ==
  [][(row # None /\ row' # None /\ row'.version < row.version) =>
       \E p \in Proc : At(p, "write") /\ op[p].ent.stamp # row.stamp]_vars

(* When row changes have ceased, the copy in Redis ends up equal to the row *)
(* for good, whatever readers in flight stored meanwhile, even if           *)
(* clearing failed: the TTL of writeCache.                                  *)
Converges == <>[](cache # None => cache = row)

(* The next four are what the comments of the service say; each holds as    *)
(* long as no two calls have overlapped.                                    *)

(* An update that carries expectedVersion replaces only a row of that       *)
(* version (runtime-config.service.ts:52).                                  *)
ReplacesExpected ==
  \A p \in Proc :
    (At(p, "write") /\ op[p].exp # None /\ row' # row /\ op'[p] # op[p]) =>
      row # None /\ row.version = op[p].exp
OptimisticLock == [][ReplacesExpected]_vars
OptimisticLockAlone == [][overlapped \/ ReplacesExpected]_vars

(* A read that begins after a write has returned serves that write or a     *)
(* later one (runtime-config.service.ts:79).                                *)
ReadsSeeReturnedWrites ==
  \A p \in Proc : op[p].served # None => op[p].served.stamp >= op[p].floor
ReadsSeeReturnedWritesAlone == overlapped \/ ReadsSeeReturnedWrites

(* A built-in row is not deleted (runtime-config.service.ts:356).           *)
KeepsBuiltin == (row # None /\ row.builtin) => row' # None
BuiltinStaysAlone == [][overlapped \/ KeepsBuiltin]_vars

(* ensure() does not overwrite an existing value, nor its version, which    *)
(* counts the changes of the value (runtime-config.service.ts:175).         *)
EnsureOnlyDescribes ==
  \A p \in Proc :
    (op[p].kind = "ensure" /\ row # None /\ row' # None /\ op'[p] # op[p])
      => row'.value = row.value /\ row'.version = row.version
EnsureKeepsValueAlone == [][overlapped \/ EnsureOnlyDescribes]_vars
=============================================================================
