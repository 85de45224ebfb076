----------------------------- MODULE OssStorage -----------------------------
(***************************************************************************)
(* The default OSS target (one row of sys_runtime_config, written by       *)
(* oss-storage-setting.service.ts), the OSS configurations it refers to    *)
(* (oss-config.service.ts) and the file rows that refer to them by their   *)
(* code alone: sys_file has no foreign key (sys.sql:39).                   *)
(*                                                                         *)
(* set() and delete() are PostgreSQL transactions at READ COMMITTED: they  *)
(* take one advisory lock, then a row lock on the configuration, and their *)
(* changes become visible at the commit, which also releases the locks.    *)
(* Other calls are single statements.  Statements interleave freely.       *)
(* The generic editor of the runtime configuration writes the same row and *)
(* takes no lock; of it an edit of the status is modelled, the rest is     *)
(* RuntimeConfig.                                                          *)
(***************************************************************************)
EXTENDS Naturals, FiniteSets

CONSTANTS
  Proc,         \* concurrent calls
  Code,         \* OSS configuration codes
  None,         \* an absent row or lock holder
  Enabling,     \* the generic editor may turn a disabled row on again
  MaxVersion    \* bound on the version of the setting

Setting == [target : Code, active : BOOLEAN, version : Nat \ {0}]

ASSUME NoneAssumption ==
  None \notin Proc /\ None \notin Code /\ None \notin Setting

ASSUME BoundAssumption == Enabling \in BOOLEAN /\ MaxVersion \in Nat

VARIABLES
  setting,    \* the committed row of the default target, or None
  cached,     \* its copy in Redis, or None
  configs,    \* codes of the committed configurations
  known,      \* codes of the configurations with a copy in Redis
  filed,      \* codes some file row refers to (soft-deleted rows count) ...
  stray,      \* ... and codes those refer to that came late (see InsertFile)
  advisory,   \* holder of the advisory lock, or None
  shared,     \* shared[c]: holders of FOR SHARE on configuration c
  exclusive,  \* exclusive[c]: holder of FOR UPDATE on configuration c, or None
  op,         \* op[p]: the call p runs
  putBack,    \* history: an edit put an earlier setting back, no set() followed
  crossed,    \* history: an edit put one back since set() last read the row
  late,       \* history: uploads that use a configuration deleted meanwhile
  leftover    \* history: deleted codes of which a copy was left in Redis

locks == <<advisory, shared, exclusive>>
files == <<filed, stray>>
rows == <<setting, configs, files>>
redis == <<cached, known>>
ghost == <<putBack, crossed, late, leftover>>
vars == <<rows, redis, locks, op, ghost>>

SetPc == {"setLock", "setRead", "setShare", "setSave", "setWrite", "setCommit", "setClear"}
DeletePc == {"delLock", "delCurrent", "delRow", "delCount", "delCommit", "delClear"}
UsePc == {"get", "db", "fill", "config", "configDb", "configFill", "insert"}
SavePc == {"create", "update", "load", "saveInsert", "saveUpdate", "saveClear"}
EditPc == {"edit", "editLoad", "editWrite", "editClear"}
Pc == {"done"} \cup EditPc \cup SavePc \cup SetPc \cup DeletePc \cup UsePc

(* row is the row a call has read or is about to commit, base the one that  *)
(* repo.save has loaded.                                                    *)
OpRec == [pc : Pc, code : Code \cup {None}, ver : Nat, row : Setting \cup {None},
          base : Setting \cup {None}]

TypeOK ==
  /\ setting \in Setting \cup {None}
  /\ cached \in Setting \cup {None}
  /\ configs \in SUBSET Code
  /\ known \in SUBSET Code
  /\ filed \in SUBSET Code /\ stray \in SUBSET Code
  /\ advisory \in Proc \cup {None}
  /\ shared \in [Code -> SUBSET Proc]
  /\ exclusive \in [Code -> Proc \cup {None}]
  /\ op \in [Proc -> OpRec]
  /\ putBack \in BOOLEAN /\ crossed \in BOOLEAN
  /\ late \in SUBSET Proc /\ leftover \in SUBSET known

Idle == [pc |-> "done", code |-> None, ver |-> 0, row |-> None, base |-> None]

Init ==
  /\ setting = None
  /\ cached = None
  /\ configs = {}
  /\ known = {}
  /\ filed = {} /\ stray = {}
  /\ advisory = None
  /\ shared = [c \in Code |-> {}]
  /\ exclusive = [c \in Code |-> None]
  /\ op = [p \in Proc |-> Idle]
  /\ putBack = FALSE /\ crossed = FALSE
  /\ late = {} /\ leftover = {}

At(p, pc) == op[p].pc = pc
Goto(p, pc) == op' = [op EXCEPT ![p].pc = pc]
End(p) == op' = [op EXCEPT ![p] = Idle]

Start(p, pc, c, v) ==
  /\ At(p, "done")
  /\ op' = [op EXCEPT ![p] = [Idle EXCEPT !.pc = pc, !.code = c, !.ver = v]]
  /\ UNCHANGED <<rows, redis, locks, ghost>>

(* Mutant: a session lock, which outlives a rollback. *)
ReleaseRows(p) ==
  /\ advisory' = IF At(p, "setCommit") \/ At(p, "delCommit") THEN None ELSE advisory
  /\ shared' = [c \in Code |-> shared[c] \ {p}]
  /\ exclusive' = [c \in Code |-> IF exclusive[c] = p THEN None ELSE exclusive[c]]

(* The end of a transaction, committed or rolled back. *)
Release(p) ==
  /\ advisory' = IF advisory = p THEN None ELSE advisory
  /\ shared' = [c \in Code |-> shared[c] \ {p}]
  /\ exclusive' = [c \in Code |-> IF exclusive[c] = p THEN None ELSE exclusive[c]]

(* What the rest of an upload that has ended, or a delete() that has not    *)
(* cleared its copy, leaves behind.                                         *)
Forget(p) ==
  /\ late' = late \ {p}
  /\ leftover' = IF At(p, "delClear") THEN leftover \cup ({op[p].code} \cap known) ELSE leftover
  /\ UNCHANGED <<putBack, crossed>>

Rollback(p) == Release(p) /\ End(p) /\ Forget(p) /\ UNCHANGED <<rows, redis>>

Lock(p, from, to) ==
  /\ At(p, from)
  /\ advisory = None
  /\ advisory' = p
  /\ Goto(p, to)
  /\ UNCHANGED <<rows, redis, shared, exclusive, ghost>>

-----------------------------------------------------------------------------
(* OssStorageSettingService.set                                             *)

(* Mutant: the transaction begins with the read. *)
SetUnlocked(p) ==
  /\ At(p, "setLock")
  /\ Goto(p, "setRead")
  /\ UNCHANGED <<rows, redis, locks, ghost>>

SetLock(p) == Lock(p, "setLock", "setRead")

Version == IF setting = None THEN 0 ELSE setting.version

SetRead(p) ==
  /\ At(p, "setRead")
  /\ \/ Version # op[p].ver /\ Rollback(p)
     \/ /\ Version = op[p].ver
        /\ op' = [op EXCEPT ![p] = [@ EXCEPT !.pc = "setShare", !.row = setting]]
        /\ crossed' = FALSE
        /\ UNCHANGED <<rows, redis, locks, putBack, late, leftover>>

(* FOR SHARE waits for FOR UPDATE, then sees the committed row, if any. *)
SetShare(p) ==
  /\ At(p, "setShare")
  /\ LET c == op[p].code IN
       /\ exclusive[c] = None
       /\ \/ c \notin configs /\ Rollback(p)
          \/ /\ c \in configs
             /\ shared' = [shared EXCEPT ![c] = @ \cup {p}]
             /\ Goto(p, "setSave")
             /\ UNCHANGED <<rows, redis, advisory, exclusive, ghost>>

(* Mutant: the version is not counted up. *)
NextSettingUncounted(p) ==
  [target |-> op[p].code, active |-> TRUE, version |-> op[p].ver]

NextSetting(p) ==
  [target |-> op[p].code, active |-> TRUE, version |-> op[p].ver + 1]

(* repo.save writes a column when the entity differs from the row that was  *)
(* loaded, and inserts when none was.                                       *)
Column(ent, base, cur) == IF ent # base THEN ent ELSE cur
Written(ent, base, cur) ==
  IF base = None THEN ent
  ELSE [target  |-> Column(ent.target, base.target, cur.target),
        active  |-> Column(ent.active, base.active, cur.active),
        version |-> Column(ent.version, base.version, cur.version)]

(* The same active target with the same prefix is left as it is; the prefix *)
(* is not modelled, so the same target may be a change or not.  A change is *)
(* saved: the row is loaded once more, then written.                        *)
SetSave(p) ==
  /\ At(p, "setSave")
  /\ LET c == op[p].code
         before == op[p].row
     IN
       \/ /\ before # None /\ before.active /\ before.target = c
          /\ op' = [op EXCEPT ![p] = [@ EXCEPT !.pc = "setCommit", !.row = None]]
       \/ op' = [op EXCEPT ![p] = [@ EXCEPT !.pc = "setWrite", !.base = setting]]
  /\ UNCHANGED <<rows, redis, locks, ghost>>

(* The row as the commit will show it; it is locked until then.             *)
SetWrite(p) ==
  /\ At(p, "setWrite")
  /\ op' = [op EXCEPT ![p] = [@ EXCEPT !.pc = "setCommit", !.base = None,
                                 !.row = Written(NextSetting(p), op[p].base, setting)]]
  /\ UNCHANGED <<rows, redis, locks, ghost>>

SetCommit(p) ==
  /\ At(p, "setCommit")
  /\ setting' = IF op[p].row = None THEN setting ELSE op[p].row
  /\ putBack' = (putBack /\ crossed)
  /\ Release(p)
  /\ Goto(p, "setClear")
  /\ UNCHANGED <<configs, files, redis, crossed, late, leftover>>

SetClear(p) ==
  /\ At(p, "setClear")
  /\ cached' = None
  /\ End(p)
  /\ UNCHANGED <<rows, known, locks, ghost>>

-----------------------------------------------------------------------------
(* OssConfigService.delete                                                  *)

(* Mutant: only set() takes the lock. *)
DeleteUnlocked(p) ==
  /\ At(p, "delLock")
  /\ Goto(p, "delCurrent")
  /\ UNCHANGED <<rows, redis, locks, ghost>>

DeleteLock(p) == Lock(p, "delLock", "delCurrent")

IsDefault(c) == setting # None /\ setting.active /\ setting.target = c

DeleteCurrent(p) ==
  /\ At(p, "delCurrent")
  /\ \/ IsDefault(op[p].code) /\ Rollback(p)
     \/ ~IsDefault(op[p].code) /\ Goto(p, "delRow") /\ UNCHANGED <<rows, redis, locks, ghost>>

DeleteRow(p) ==
  /\ At(p, "delRow")
  /\ LET c == op[p].code IN
       /\ exclusive[c] = None
       /\ shared[c] = {}
       /\ \/ c \notin configs /\ Rollback(p)
          \/ /\ c \in configs
             /\ exclusive' = [exclusive EXCEPT ![c] = p]
             /\ Goto(p, "delCount")
             /\ UNCHANGED <<rows, redis, advisory, shared, ghost>>

(* Mutant: the files are not counted. *)
DeleteUncounted(p) ==
  /\ At(p, "delCount")
  /\ Goto(p, "delCommit")
  /\ UNCHANGED <<rows, redis, locks, ghost>>

DeleteCount(p) ==
  /\ At(p, "delCount")
  /\ \/ op[p].code \in filed \cup stray /\ Rollback(p)
     \/ /\ op[p].code \notin filed \cup stray
        /\ Goto(p, "delCommit")
        /\ UNCHANGED <<rows, redis, locks, ghost>>

(* The uploads that have looked the configuration up. *)
Holding(c) == {q \in Proc : (At(q, "configFill") \/ At(q, "insert")) /\ op[q].code = c}

DeleteCommit(p) ==
  /\ At(p, "delCommit")
  /\ configs' = configs \ {op[p].code}
  /\ late' = late \cup Holding(op[p].code)
  /\ Release(p)
  /\ Goto(p, "delClear")
  /\ UNCHANGED <<setting, files, redis, putBack, crossed, leftover>>

DeleteClear(p) ==
  /\ At(p, "delClear")
  /\ known' = known \ {op[p].code}
  /\ leftover' = leftover \ {op[p].code}
  /\ End(p)
  /\ UNCHANGED <<rows, cached, locks, putBack, crossed, late>>

-----------------------------------------------------------------------------
(* OssConfigService.create and update.  repo.save loads the row and inserts *)
(* it when it is not there, updates it when it is.  What a configuration    *)
(* contains is not modelled.                                                *)

CreateRead(p) ==
  /\ At(p, "create")
  /\ IF op[p].code \in configs THEN End(p) ELSE Goto(p, "load")
  /\ UNCHANGED <<rows, redis, locks, ghost>>

UpdateRead(p) ==
  /\ At(p, "update")
  /\ IF op[p].code \in configs THEN Goto(p, "load") ELSE End(p)
  /\ UNCHANGED <<rows, redis, locks, ghost>>

SaveLoad(p) ==
  /\ At(p, "load")
  /\ Goto(p, IF op[p].code \in configs THEN "saveUpdate" ELSE "saveInsert")
  /\ UNCHANGED <<rows, redis, locks, ghost>>

(* A duplicate key is an error. *)
SaveInsert(p) ==
  /\ At(p, "saveInsert")
  /\ exclusive[op[p].code] = None
  /\ configs' = configs \cup {op[p].code}
  /\ IF op[p].code \in configs THEN End(p) ELSE Goto(p, "saveClear")
  /\ UNCHANGED <<setting, files, redis, locks, ghost>>

(* An update of a row deleted meanwhile changes nothing. *)
SaveUpdate(p) ==
  /\ At(p, "saveUpdate")
  /\ exclusive[op[p].code] = None
  /\ shared[op[p].code] = {}
  /\ Goto(p, "saveClear")
  /\ UNCHANGED <<rows, redis, locks, ghost>>

SaveClear(p) ==
  /\ At(p, "saveClear")
  /\ known' = known \ {op[p].code}
  /\ leftover' = leftover \ {op[p].code}
  /\ End(p)
  /\ UNCHANGED <<rows, cached, locks, putBack, crossed, late>>

-----------------------------------------------------------------------------
(* An upload: resolve the default target, look the configuration up, and    *)
(* insert a file row that refers to it.                                     *)

Usable(s) == s # None /\ s.active

UseTarget(p, s) ==
  op' = [op EXCEPT ![p] = [@ EXCEPT !.pc = "config", !.code = s.target]]

GetSetting(p) ==
  /\ At(p, "get")
  /\ \/ cached = None /\ Goto(p, "db")
     \/ cached # None /\ ~cached.active /\ End(p)
     \/ Usable(cached) /\ UseTarget(p, cached)
  /\ UNCHANGED <<rows, redis, locks, ghost>>

ReadSetting(p) ==
  /\ At(p, "db")
  /\ IF setting = None THEN End(p)
     ELSE op' = [op EXCEPT ![p] = [@ EXCEPT !.pc = "fill", !.row = setting]]
  /\ UNCHANGED <<rows, redis, locks, ghost>>

FillSetting(p) ==
  /\ At(p, "fill")
  /\ cached' = op[p].row
  /\ IF Usable(op[p].row) THEN UseTarget(p, op[p].row) ELSE End(p)
  /\ UNCHANGED <<rows, known, locks, ghost>>

(* A copy that is, or was, left in Redis after the delete. *)
Outlived(c) == c \in leftover \/ \E q \in Proc : At(q, "delClear") /\ op[q].code = c

GetConfig(p) ==
  /\ At(p, "config")
  /\ LET c == op[p].code
         hit == c \in known
     IN /\ Goto(p, IF hit THEN "insert" ELSE "configDb")
        /\ late' = IF hit /\ Outlived(c) THEN late \cup {p} ELSE late
  /\ UNCHANGED <<rows, redis, locks, putBack, crossed, leftover>>

ReadConfig(p) ==
  /\ At(p, "configDb")
  /\ IF op[p].code \in configs THEN Goto(p, "configFill") ELSE End(p)
  /\ UNCHANGED <<rows, redis, locks, ghost>>

FillConfig(p) ==
  /\ At(p, "configFill")
  /\ known' = known \cup {op[p].code}
  /\ leftover' = IF p \in late THEN leftover \cup {op[p].code} ELSE leftover
  /\ Goto(p, "insert")
  /\ UNCHANGED <<rows, cached, locks, putBack, crossed, late>>

(* The row is inserted whether or not there still is a configuration of     *)
(* that code.  It is late when the upload is, or when a delete() has        *)
(* counted the files already.                                               *)
Counted(c) == \E q \in Proc : At(q, "delCommit") /\ op[q].code = c

InsertFile(p) ==
  /\ At(p, "insert")
  /\ LET c == op[p].code
     IN IF p \in late \/ Counted(c)
        THEN stray' = stray \cup {c} /\ UNCHANGED filed
        ELSE filed' = filed \cup {c} /\ UNCHANGED stray
  /\ late' = late \ {p}
  /\ End(p)
  /\ UNCHANGED <<setting, configs, redis, locks, putBack, crossed, leftover>>

-----------------------------------------------------------------------------
(* RuntimeConfigService.update with a status and no value: the entity is    *)
(* read, given the status, and saved, which loads the row once more and     *)
(* writes the columns in which the two differ.  The statement waits for a   *)
(* set() that has written the row; no other lock is looked at.              *)

EditRead(p) ==
  /\ At(p, "edit")
  /\ IF setting = None THEN End(p)
     ELSE \E active \in BOOLEAN :
            /\ active => Enabling
            /\ op' = [op EXCEPT ![p] = [@ EXCEPT !.pc = "editLoad",
                                           !.row = [setting EXCEPT !.active = active]]]
  /\ UNCHANGED <<rows, redis, locks, ghost>>

EditLoad(p) ==
  /\ At(p, "editLoad")
  /\ op' = [op EXCEPT ![p] = [@ EXCEPT !.pc = "editWrite", !.base = setting]]
  /\ UNCHANGED <<rows, redis, locks, ghost>>

SettingLocked == \E q \in Proc : At(q, "setCommit") /\ op[q].row # None

EditWrite(p) ==
  /\ At(p, "editWrite")
  /\ ~SettingLocked
  /\ setting' = Written(op[p].row, op[p].base, setting)
  /\ LET back == setting'.target # setting.target \/ setting'.version # setting.version
     IN putBack' = (putBack \/ back) /\ crossed' = (crossed \/ back)
  /\ Goto(p, "editClear")
  /\ UNCHANGED <<configs, files, redis, locks, late, leftover>>

EditClear(p) ==
  /\ At(p, "editClear")
  /\ cached' = None
  /\ End(p)
  /\ UNCHANGED <<rows, known, locks, ghost>>

(* A statement fails or the process dies: the transaction is rolled back;   *)
(* a command to Redis that is not sent leaves the copy until its TTL.       *)
Fail(p) == ~At(p, "done") /\ Rollback(p)

Expire ==
  /\ cached' \in {cached, None}
  /\ known' \in SUBSET known
  /\ redis' # redis
  /\ leftover' = leftover \cap known'
  /\ UNCHANGED <<rows, locks, op, putBack, crossed, late>>

Call(p) ==
  \/ \E c \in Code, v \in 0..(MaxVersion - 1) : Start(p, "setLock", c, v)
  \/ \E c \in Code, pc \in {"delLock", "create", "update"} : Start(p, pc, c, 0)
  \/ \E pc \in {"get", "edit"} : Start(p, pc, None, 0)

Transaction(p) ==
  \/ SetLock(p) \/ SetRead(p) \/ SetShare(p) \/ SetSave(p) \/ SetWrite(p)
  \/ SetCommit(p) \/ SetClear(p)
  \/ DeleteLock(p) \/ DeleteCurrent(p) \/ DeleteRow(p) \/ DeleteCount(p)
  \/ DeleteCommit(p) \/ DeleteClear(p)

Statement(p) ==
  \/ CreateRead(p) \/ UpdateRead(p) \/ SaveLoad(p) \/ SaveInsert(p)
  \/ SaveUpdate(p) \/ SaveClear(p)
  \/ GetSetting(p) \/ ReadSetting(p) \/ FillSetting(p)
  \/ GetConfig(p) \/ ReadConfig(p) \/ FillConfig(p) \/ InsertFile(p)
  \/ EditRead(p) \/ EditLoad(p) \/ EditWrite(p) \/ EditClear(p)

Next ==
  \/ \E p \in Proc : Call(p) \/ Transaction(p) \/ Statement(p) \/ Fail(p)
  \/ Expire

Spec == Init /\ [][Next]_vars

(* PostgreSQL serves lock waiters in turn, so a transaction that again and  *)
(* again could go on does (strong fairness); other calls just go on.        *)
Fairness ==
  \A p \in Proc : SF_vars(Transaction(p)) /\ SF_vars(Statement(p))
FairSpec == Spec /\ Fairness

-----------------------------------------------------------------------------
(* The active default target is a configuration that exists: no delete gets *)
(* past the check of oss-config.service.ts:222 while a set() is on its way  *)
(* to making that configuration the default.  An edit of the status that    *)
(* puts an earlier target back excepts what follows, until the next set().  *)
TargetExists == setting # None /\ setting.active => setting.target \in configs \/ putBack

(* A file row refers to a configuration that exists, although uploads take  *)
(* the target and the configuration from Redis copies that a delete clears  *)
(* only after its commit: rows in stray excepted, whose upload had looked   *)
(* the configuration up before that commit, or found a copy that a delete   *)
(* under way or broken off, or such an upload, had left in Redis, or came   *)
(* between the count of the files and the commit (oss-config.service.ts     *)
(* :236).                                                                   *)
FilesHaveConfig == filed \subseteq configs

(* set() implements a versioned register: of the requests that carry one    *)
(* version at most one changes the setting (oss-storage-setting.service.ts  *)
(* :156).  What else may change it are edits of the status, which put back  *)
(* what they read, and a set() that one of them crossed after its read.     *)
Target == IF setting = None THEN None ELSE setting.target
Register == INSTANCE VersionedRegister
  WITH Values <- Code, Unset <- None, value <- Target, version <- Version
EditPutsBack == \E p \in Proc : At(p, "editWrite") /\ ~At(p, "editWrite")'
ImplementsRegister ==
  /\ Register!Init
  /\ [][Register!Next \/ EditPutsBack \/ crossed]_<<Target, Version>>

(* Every call ends, whatever locks the others hold: both kinds of           *)
(* transaction take the advisory lock before a row lock, and each gives up  *)
(* all of its locks at its commit or rollback.                              *)
EveryCallEnds == \A p \in Proc : ~At(p, "done") ~> At(p, "done")
=============================================================================
