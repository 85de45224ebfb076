---------------------------- MODULE RecordsProofs ----------------------------
(* What TLAPS proves about the services that keep records of each other: OSS *)
(* configurations and their default, the department tree and the built-in    *)
(* administrator, for any number of each.                                    *)
EXTENDS MCRecords, TLAPS
-----------------------------------------------------------------------------
(* OSS configurations and the default among them.                            *)

(* Between these two statements a transaction holds the advisory lock. *)
InSet == {"setShare", "setSave", "setWrite", "setCommit"}
Locked == InSet \cup {"setRead", "delCurrent", "delRow", "delCount", "delCommit"}

(* The calls that have a configuration code, from the caller or the target. *)
Coded == SetPc \cup DeletePc \cup SavePc \cup {"config", "configDb", "configFill", "insert"}

(* r is the setting as far as the register is concerned. *)
IsCurrent(r) ==
  /\ r = None <=> setting = None
  /\ r # None => r.target = setting.target /\ r.version = setting.version

(* What a set() that no edit has crossed relies on until its commit. *)
SetInv(p) ==
  /\ op[p].pc \in InSet => Version = op[p].ver
  /\ op[p].pc \in {"setShare", "setSave"} => IsCurrent(op[p].row)
  /\ op[p].pc = "setWrite" => IsCurrent(op[p].base)
  /\ op[p].pc = "setCommit" =>
       IF op[p].row = None THEN setting # None /\ setting.target = op[p].code
       ELSE op[p].row.target = op[p].code /\ op[p].row.version = op[p].ver + 1

(* What a call has established and relies on until its commit. *)
ProcInv(p) ==
  /\ op[p].pc \in Locked => advisory = p
  /\ op[p].pc \in Coded => op[p].code \in Code
  /\ ~crossed => SetInv(p)
  /\ op[p].pc \in {"setSave", "setWrite", "setCommit"} => op[p].code \in configs
  /\ op[p].pc = "delCommit" => op[p].code \notin filed
  /\ op[p].pc = "fill" => op[p].row # None
  /\ op[p].pc \in {"editLoad", "editWrite"} =>
       setting # None /\ op[p].row # None /\ (op[p].row.active => Enabling)
  /\ op[p].pc = "editWrite" => op[p].base # None
  /\ op[p].pc = "setWrite" /\ op[p].base # None => setting # None

CallsInv == (crossed => putBack) /\ \A p \in Proc : ProcInv(p)

(* Uploads of a configuration deleted meanwhile are late, and a copy of it   *)
(* in Redis has outlived it.                                                 *)
IsLate(p) ==
  op[p].pc \in {"configFill", "insert"} /\ op[p].code \notin configs => p \in late
FilesInv ==
  /\ FilesHaveConfig
  /\ \A p \in Proc : IsLate(p)
  /\ \A c \in known \ configs : Outlived(c)

(* A delete that has found its configuration not to be the default. *)
PastCheck(p) ==
  op[p].pc \in {"delRow", "delCount", "delCommit"} => ~IsDefault(op[p].code) \/ putBack
TargetInv == ~Enabling => TargetExists /\ \A p \in Proc : PastCheck(p)

IInv == TypeOK /\ CallsInv /\ FilesInv /\ TargetInv

-----------------------------------------------------------------------------
LEMMA IdleTyped == Idle \in OpRec /\ Idle.pc = "done"
BY DEF Idle, OpRec, Pc

(* The call of p becomes o, the others go on as they were. *)
Becomes(p, o) ==
  /\ op' \in [Proc -> OpRec] /\ op'[p] = o
  /\ \A q \in Proc : q # p => op'[q] = op[q]

LEMMA RecordMoves ==
  ASSUME TypeOK, NEW p \in Proc, NEW o \in OpRec, op' = [op EXCEPT ![p] = o]
  PROVE  Becomes(p, o)
BY DEF TypeOK, Becomes

LEMMA GotoMoves ==
  ASSUME TypeOK, NEW p \in Proc, NEW pc \in Pc, Goto(p, pc)
  PROVE  /\ Becomes(p, op'[p]) /\ op'[p].pc = pc /\ op'[p].code = op[p].code
         /\ op'[p].ver = op[p].ver /\ op'[p].row = op[p].row /\ op'[p].base = op[p].base
<1> DEFINE o == [op[p] EXCEPT !.pc = pc]
<1>1. op[p] \in OpRec
  BY DEF TypeOK
<1>2. op' = [op EXCEPT ![p] = o]
  BY DEF Goto, TypeOK
<1>3. /\ o \in OpRec /\ o.pc = pc /\ o.code = op[p].code /\ o.ver = op[p].ver
      /\ o.row = op[p].row /\ o.base = op[p].base
  BY <1>1 DEF OpRec
<1> HIDE DEF o
<1> QED
  BY <1>2, <1>3, RecordMoves DEF Becomes

(* A call that goes on with a row, or with a base as well. *)
LEMMA RowMoves ==
  ASSUME TypeOK, NEW p \in Proc, NEW pc \in Pc, NEW r \in Setting \cup {None},
         op' = [op EXCEPT ![p] = [@ EXCEPT !.pc = pc, !.row = r]]
  PROVE  /\ Becomes(p, op'[p]) /\ op'[p].pc = pc /\ op'[p].row = r
         /\ op'[p].code = op[p].code /\ op'[p].ver = op[p].ver
<1> DEFINE o == [op[p] EXCEPT !.pc = pc, !.row = r]
<1>1. op[p] \in OpRec
  BY DEF TypeOK
<1>2. op' = [op EXCEPT ![p] = o]
  BY DEF TypeOK
<1>3. o \in OpRec /\ o.pc = pc /\ o.code = op[p].code /\ o.ver = op[p].ver /\ o.row = r
  BY <1>1 DEF OpRec
<1> HIDE DEF o
<1> QED
  BY <1>2, <1>3, RecordMoves DEF Becomes

LEMMA BaseMoves ==
  ASSUME TypeOK, NEW p \in Proc, NEW pc \in Pc, NEW b \in Setting \cup {None},
         op' = [op EXCEPT ![p] = [@ EXCEPT !.pc = pc, !.base = b]]
  PROVE  /\ Becomes(p, op'[p]) /\ op'[p].pc = pc /\ op'[p].base = b
         /\ op'[p].row = op[p].row /\ op'[p].code = op[p].code /\ op'[p].ver = op[p].ver
<1> DEFINE o == [op[p] EXCEPT !.pc = pc, !.base = b]
<1>1. op[p] \in OpRec
  BY DEF TypeOK
<1>2. op' = [op EXCEPT ![p] = o]
  BY DEF TypeOK
<1>3. /\ o \in OpRec /\ o.pc = pc /\ o.code = op[p].code /\ o.ver = op[p].ver
      /\ o.base = b /\ o.row = op[p].row
  BY <1>1 DEF OpRec
<1> HIDE DEF o
<1> QED
  BY <1>2, <1>3, RecordMoves DEF Becomes

(* What another call must leave alone for q. *)
Respects(q) ==
  /\ advisory = q =>
       /\ advisory' = q /\ configs \subseteq configs'
       /\ ~crossed' => ~crossed /\ Version' = Version /\ (setting' = None <=> setting = None)
                       /\ (setting # None => setting'.target = setting.target
                                             /\ setting'.version = setting.version)
  /\ setting # None => setting' # None
  /\ op[q].pc = "delCommit" /\ op[q].code \in filed' => op[q].code \in filed

LEMMA OtherKeeps ==
  ASSUME NEW q \in Proc, ProcInv(q), op'[q] = op[q], Respects(q)
  PROVE  ProcInv(q)'
<1>1. op[q].pc \in InSet => op[q].pc \in Locked
  BY DEF Locked
<1>2. ASSUME ~crossed' PROVE SetInv(q)'
  <2>1. CASE op[q].pc \notin InSet
    BY <2>1 DEF SetInv, InSet
  <2>2. CASE op[q].pc \in InSet
    <3>1. /\ ~crossed /\ Version' = Version /\ (setting' = None <=> setting = None)
          /\ (setting # None => setting'.target = setting.target
                                /\ setting'.version = setting.version)
      BY <1>1, <1>2, <2>2 DEF ProcInv, Respects
    <3>2. SetInv(q)
      BY <3>1 DEF ProcInv
    <3> QED
      BY <3>1, <3>2 DEF SetInv, IsCurrent
  <2> QED
    BY <2>1, <2>2
<1>3. op[q].pc \in {"setSave", "setWrite", "setCommit"} => op[q].code \in configs'
  BY <1>1 DEF ProcInv, Respects, InSet
<1> QED
  BY <1>2, <1>3 DEF ProcInv, Respects

(* A step of p that keeps what is said of the rows for the others.           *)
LEMMA StepOf ==
  ASSUME IInv, NEW p \in Proc, TypeOK', Becomes(p, op'[p]),
         \A q \in Proc : q # p => Respects(q),
         ProcInv(p)', crossed' => putBack', FilesInv', TargetInv'
  PROVE  IInv'
<1>1. ASSUME NEW q \in Proc, q # p PROVE ProcInv(q)'
  BY <1>1, OtherKeeps DEF IInv, CallsInv, Becomes
<1> QED
  BY <1>1 DEF IInv, CallsInv

(* Files, configurations and their copies stay: the others stay late, and no *)
(* copy loses what makes it known to have outlived its configuration.        *)
LEMMA FilesStay ==
  ASSUME IInv, NEW p \in Proc, Becomes(p, op'[p]), filed' = filed, configs' = configs,
         known' \subseteq known, leftover \cap known' \subseteq leftover',
         late \ {p} \subseteq late', IsLate(p)',
         op[p].pc = "delClear" => op[p].code \in leftover' \/ op[p].code \notin known'
  PROVE  FilesInv'
<1>1. ASSUME NEW q \in Proc PROVE IsLate(q)'
  BY <1>1 DEF IInv, FilesInv, IsLate, Becomes
<1>2. ASSUME NEW c \in known' \ configs' PROVE Outlived(c)'
  <2>1. Outlived(c) /\ c \in known'
    BY <1>2 DEF IInv, FilesInv
  <2>2. CASE c \in leftover
    BY <2>1, <2>2 DEF Outlived
  <2>3. ASSUME NEW q \in Proc, op[q].pc = "delClear", op[q].code = c PROVE Outlived(c)'
    <3>1. CASE q = p
      BY <2>1, <2>3, <3>1 DEF Outlived
    <3>2. CASE q # p
      BY <2>3, <3>2 DEF Outlived, At, Becomes
    <3> QED
      BY <3>1, <3>2
  <2> QED
    BY <2>1, <2>2, <2>3 DEF Outlived, At
<1> QED
  BY <1>1, <1>2 DEF IInv, FilesInv, FilesHaveConfig

(* The setting stays, and no configuration is lost. *)
LEMMA TargetStays ==
  ASSUME IInv, NEW p \in Proc, Becomes(p, op'[p]), setting' = setting,
         configs \subseteq configs', putBack' = putBack, PastCheck(p) => PastCheck(p)'
  PROVE  TargetInv'
<1>1. ASSUME ~Enabling PROVE TargetExists'
  BY <1>1 DEF IInv, TargetInv, TargetExists
<1>2. ASSUME ~Enabling, NEW q \in Proc PROVE PastCheck(q)'
  BY <1>2 DEF IInv, TargetInv, PastCheck, IsDefault, Becomes
<1> QED
  BY <1>1, <1>2 DEF TargetInv

(* An idle call relies on nothing. *)
LEMMA IdleInv ==
  ASSUME NEW p \in Proc, op'[p] = Idle
  PROVE  ProcInv(p)' /\ PastCheck(p)' /\ IsLate(p)'
BY IdleTyped DEF Idle, ProcInv, SetInv, PastCheck, IsLate, InSet, Locked, Coded, SetPc,
   DeletePc, SavePc

(* A step of p that writes nothing but its call and locks of its own.        *)
LEMMA QuietStep ==
  ASSUME IInv, NEW p \in Proc, TypeOK', Becomes(p, op'[p]), UNCHANGED rows,
         \A q \in Proc : q # p => (advisory = q => advisory' = q),
         ProcInv(p)', PastCheck(p) => PastCheck(p)', FilesInv',
         putBack' = putBack, crossed' = crossed
  PROVE  IInv'
<1>1. UNCHANGED <<setting, configs, filed>>
  BY DEF rows, files
<1>2. Version' = Version
  BY <1>1 DEF Version
<1>3. \A q \in Proc : q # p => Respects(q)
  BY <1>1, <1>2 DEF Respects
<1>4. TargetInv'
  BY <1>1, TargetStays
<1>5. crossed' => putBack'
  BY DEF IInv, CallsInv
<1> QED
  BY <1>3, <1>4, <1>5, StepOf

(* A step of p that writes no row, touches no lock and notes nothing. *)
LEMMA MoveKeeps ==
  ASSUME IInv, NEW p \in Proc, UNCHANGED <<rows, locks, known, ghost>>,
         cached' \in Setting \cup {None}, Becomes(p, op'[p]),
         ProcInv(p)', PastCheck(p) => PastCheck(p)', IsLate(p)', op[p].pc # "delClear"
  PROVE  IInv'
<1>1. TypeOK'
  BY DEF IInv, TypeOK, rows, files, locks, ghost, Becomes
<1>2. FilesInv'
  BY FilesStay DEF rows, files, ghost
<1> QED
  BY <1>1, <1>2, QuietStep DEF locks, ghost

(* A step of p after which it is idle. *)
LEMMA EndKeeps ==
  ASSUME IInv, NEW p \in Proc, End(p), UNCHANGED <<rows, locks, known, ghost>>,
         cached' \in Setting \cup {None}, op[p].pc # "delClear"
  PROVE  IInv'
<1>1. Becomes(p, op'[p]) /\ op'[p] = Idle
  BY IdleTyped, RecordMoves DEF IInv, End, Becomes
<1> QED
  BY <1>1, IdleInv, MoveKeeps

(* At these statements a call relies on no more than its code. *)
Plain == {"create", "update", "load", "saveInsert", "saveUpdate", "saveClear",
          "setLock", "setClear", "delLock", "delClear",
          "get", "db", "config", "configDb", "edit", "editClear"}

LEMMA PlainInv ==
  ASSUME NEW p \in Proc, op'[p].pc \in Plain,
         op'[p].pc \in {"get", "db", "edit", "editClear"} \/ op'[p].code \in Code
  PROVE  ProcInv(p)' /\ PastCheck(p)' /\ IsLate(p)'
BY DEF Plain, ProcInv, SetInv, PastCheck, IsLate, InSet, Locked, Coded, SetPc, DeletePc,
   SavePc

LEMMA PlainGoto ==
  ASSUME IInv, NEW p \in Proc, NEW pc \in Plain, Goto(p, pc),
         UNCHANGED <<rows, locks, known, ghost>>, cached' \in Setting \cup {None},
         pc \in {"get", "db"} \/ op[p].code \in Code, op[p].pc # "delClear"
  PROVE  IInv'
<1>1. TypeOK /\ pc \in Pc
  BY DEF IInv, Plain, Pc, SavePc, SetPc, DeletePc, UsePc, EditPc
<1>2. Becomes(p, op'[p]) /\ op'[p].pc = pc /\ op'[p].code = op[p].code
  BY <1>1, GotoMoves
<1> QED
  BY <1>2, PlainInv, MoveKeeps

(* The end of a transaction gives up the locks of its call only. *)
LEMMA ReleaseOwn ==
  ASSUME TypeOK, NEW p \in Proc, Release(p)
  PROVE  /\ advisory' \in Proc \cup {None}
         /\ shared' \in [Code -> SUBSET Proc]
         /\ exclusive' \in [Code -> Proc \cup {None}]
         /\ \A q \in Proc : q # p => (advisory = q => advisory' = q)
BY NoneAssumption DEF TypeOK, Release

LEMMA RollbackKeeps ==
  ASSUME IInv, NEW p \in Proc, Rollback(p)
  PROVE  IInv'
<1>1. TypeOK
  BY DEF IInv
<1>2. Becomes(p, op'[p]) /\ op'[p] = Idle
  BY <1>1, IdleTyped, RecordMoves DEF Rollback, End, Becomes
<1>3. ProcInv(p)' /\ PastCheck(p)' /\ IsLate(p)'
  BY <1>2, IdleInv
<1>4. /\ UNCHANGED <<setting, configs, filed, stray, cached, known, putBack, crossed>>
      /\ late' = late \ {p}
      /\ leftover' = IF op[p].pc = "delClear" THEN leftover \cup ({op[p].code} \cap known)
                     ELSE leftover
  BY DEF Rollback, Forget, At, rows, files, redis
<1>5. TypeOK'
  BY <1>1, <1>2, <1>4, ReleaseOwn DEF TypeOK, Rollback, Becomes
<1>6. FilesInv'
  BY <1>2, <1>3, <1>4, FilesStay
<1> QED
  BY <1>1, <1>2, <1>3, <1>4, <1>5, <1>6, ReleaseOwn, QuietStep DEF Rollback

LEMMA StartKeeps ==
  ASSUME IInv, NEW p \in Proc, Call(p)
  PROVE  IInv'
<1> DEFINE Entry == {"setLock", "delLock", "create", "update", "get", "edit"}
<1>1. PICK pc \in Entry, c \in Code \cup {None}, v \in Nat :
        Start(p, pc, c, v) /\ (pc \in {"get", "edit"} \/ c \in Code)
  <2>1. CASE \E c \in Code, v \in 0..(MaxVersion - 1) : Start(p, "setLock", c, v)
    <3>1. PICK c \in Code, v \in 0..(MaxVersion - 1) : Start(p, "setLock", c, v)
      BY <2>1
    <3>2. v \in Nat
      BY <3>1, BoundAssumption
    <3> QED
      BY <3>1, <3>2
  <2>2. CASE \E c \in Code, pc \in {"delLock", "create", "update"} : Start(p, pc, c, 0)
    BY <2>2
  <2>3. CASE \E pc \in {"get", "edit"} : Start(p, pc, None, 0)
    BY <2>3
  <2> QED
    BY <2>1, <2>2, <2>3 DEF Call
<1> DEFINE o == [Idle EXCEPT !.pc = pc, !.code = c, !.ver = v]
<1>2. o \in OpRec /\ o.pc = pc /\ o.code = c
  BY <1>1 DEF Idle, OpRec, Pc, SavePc, SetPc, DeletePc, UsePc, EditPc
<1>3. op' = [op EXCEPT ![p] = o] /\ op[p].pc = "done"
  BY <1>1 DEF Start, At
<1> HIDE DEF o
<1>4. Becomes(p, op'[p]) /\ op'[p] = o
  BY <1>2, <1>3, RecordMoves DEF IInv, Becomes
<1>5. ProcInv(p)' /\ PastCheck(p)' /\ IsLate(p)'
  BY <1>1, <1>2, <1>4, PlainInv DEF Plain
<1> QED
  BY <1>1, <1>3, <1>4, <1>5, MoveKeeps DEF Start, redis, IInv, TypeOK

(* An upload before it looks the configuration up. *)
LEMMA ResolveKeeps ==
  ASSUME IInv, NEW p \in Proc, GetSetting(p) \/ ReadSetting(p) \/ FillSetting(p)
  PROVE  IInv'
<1>0. /\ TypeOK /\ op[p] \in OpRec /\ ProcInv(p)
      /\ setting \in Setting \cup {None} /\ cached \in Setting \cup {None}
      /\ UNCHANGED <<rows, locks, known, ghost>> /\ op[p].pc \in {"get", "db", "fill"}
  BY DEF IInv, CallsInv, TypeOK, GetSetting, ReadSetting, FillSetting, At, redis
<1>1. ASSUME NEW t \in Setting, UseTarget(p, t), cached' \in Setting \cup {None}
      PROVE  IInv'
  <2> DEFINE o == [op[p] EXCEPT !.pc = "config", !.code = t.target]
  <2>1. o \in OpRec /\ o.pc = "config" /\ o.code \in Code
    BY <1>0, <1>1 DEF OpRec, Pc, UsePc, Setting
  <2>2. op' = [op EXCEPT ![p] = o]
    BY <1>1 DEF UseTarget
  <2> HIDE DEF o
  <2>3. Becomes(p, op'[p]) /\ op'[p] = o
    BY <1>0, <2>1, <2>2, RecordMoves DEF Becomes
  <2>4. ProcInv(p)' /\ PastCheck(p)' /\ IsLate(p)'
    BY <2>1, <2>3, PlainInv DEF Plain
  <2> QED
    BY <1>0, <1>1, <2>3, <2>4, MoveKeeps
<1>2. CASE GetSetting(p)
  <2>1. cached' \in Setting \cup {None}
    BY <1>0, <1>2 DEF GetSetting, redis
  <2>2. CASE Goto(p, "db")
    BY <1>0, <2>1, <2>2, PlainGoto DEF Plain
  <2>3. CASE End(p)
    BY <1>0, <2>1, <2>3, EndKeeps
  <2>4. CASE Usable(cached) /\ UseTarget(p, cached)
    BY <1>0, <1>1, <2>1, <2>4 DEF Usable
  <2> QED
    BY <1>2, <2>2, <2>3, <2>4 DEF GetSetting
<1>3. CASE ReadSetting(p)
  <2>1. cached' \in Setting \cup {None}
    BY <1>0, <1>3 DEF ReadSetting, redis
  <2>2. CASE End(p)
    BY <1>0, <2>1, <2>2, EndKeeps
  <2>3. CASE setting # None /\ op' = [op EXCEPT ![p] = [@ EXCEPT !.pc = "fill", !.row = setting]]
    <3>1. Becomes(p, op'[p]) /\ op'[p].pc = "fill" /\ op'[p].row # None
      BY <1>0, <2>3, RowMoves DEF Pc, UsePc
    <3>2. ProcInv(p)' /\ PastCheck(p)' /\ IsLate(p)'
      BY <3>1 DEF ProcInv, SetInv, PastCheck, IsLate, InSet, Locked, Coded, SetPc,
         DeletePc, SavePc
    <3> QED
      BY <1>0, <2>1, <3>1, <3>2, MoveKeeps
  <2> QED
    BY <1>3, <2>2, <2>3 DEF ReadSetting
<1>4. CASE FillSetting(p)
  <2>1. op[p].row \in Setting
    BY <1>0, <1>4 DEF FillSetting, At, ProcInv, OpRec
  <2>2. cached' \in Setting \cup {None}
    BY <1>4, <2>1 DEF FillSetting
  <2> QED
    BY <1>0, <1>1, <1>4, <2>1, <2>2, EndKeeps DEF FillSetting
<1> QED
  BY <1>2, <1>3, <1>4

(* The statements of an upload at which it relies on its configuration.      *)
LEMMA HoldInv ==
  ASSUME NEW p \in Proc, op'[p].pc \in {"configFill", "insert"}, op'[p].code \in Code
  PROVE  ProcInv(p)' /\ PastCheck(p)'
BY DEF ProcInv, SetInv, PastCheck, InSet, Locked, Coded, SetPc, DeletePc, SavePc

(* An upload looks the configuration up: in Redis, in the database, ... *)
LEMMA LookupKeeps ==
  ASSUME IInv, NEW p \in Proc, GetConfig(p) \/ ReadConfig(p)
  PROVE  IInv'
<1>0. /\ TypeOK /\ op[p] \in OpRec /\ ProcInv(p) /\ cached \in Setting \cup {None}
      /\ op[p].pc \in {"config", "configDb"} /\ op[p].code \in Code
      /\ UNCHANGED <<rows, locks, known, cached, putBack, crossed, leftover>>
  BY DEF IInv, CallsInv, TypeOK, GetConfig, ReadConfig, At, redis, ghost, ProcInv, Coded
<1>1. CASE ReadConfig(p)
  <2>1. CASE End(p)
    BY <1>0, <1>1, <2>1, EndKeeps DEF ReadConfig
  <2>2. CASE op[p].code \in configs /\ Goto(p, "configFill")
    <3>1. Becomes(p, op'[p]) /\ op'[p].pc = "configFill" /\ op'[p].code = op[p].code
      BY <1>0, <2>2, GotoMoves DEF Pc, UsePc
    <3>2. IsLate(p)'
      BY <1>0, <2>2, <3>1 DEF IsLate, rows
    <3> QED
      BY <1>0, <1>1, <3>1, <3>2, HoldInv, MoveKeeps DEF ReadConfig
  <2> QED
    BY <1>1, <2>1, <2>2 DEF ReadConfig
<1>2. CASE GetConfig(p) /\ op[p].code \notin known
  <2>1. late' = late /\ Goto(p, "configDb")
    BY <1>2 DEF GetConfig
  <2> QED
    BY <1>0, <2>1, PlainGoto DEF Plain, ghost
<1>3. CASE GetConfig(p) /\ op[p].code \in known
  <2>1. Becomes(p, op'[p]) /\ op'[p].pc = "insert" /\ op'[p].code = op[p].code
    BY <1>0, <1>3, GotoMoves DEF GetConfig, Pc, UsePc
  <2>2. late \subseteq late' /\ late' \subseteq late \cup {p}
        /\ (Outlived(op[p].code) => p \in late')
    BY <1>3 DEF GetConfig
  <2>3. IsLate(p)'
    BY <1>0, <1>3, <2>1, <2>2 DEF IInv, FilesInv, IsLate, rows
  <2>4. TypeOK'
    BY <1>0, <2>1, <2>2 DEF TypeOK, rows, files, locks, Becomes
  <2>5. FilesInv'
    BY <1>0, <2>1, <2>2, <2>3, FilesStay DEF rows, files
  <2> QED
    BY <1>0, <2>1, <2>4, <2>5, HoldInv, QuietStep DEF locks
<1> QED
  BY <1>1, <1>2, <1>3

(* ... and puts a copy into Redis, which is left over when it is late. *)
LEMMA FillKeeps ==
  ASSUME IInv, NEW p \in Proc, FillConfig(p)
  PROVE  IInv'
<1> DEFINE c == op[p].code
<1>0. /\ TypeOK /\ ProcInv(p) /\ op[p].pc = "configFill" /\ c \in Code /\ IsLate(p)
      /\ UNCHANGED <<rows, locks, cached, putBack, crossed, late>>
      /\ known' = known \cup {c}
      /\ leftover' = IF p \in late THEN leftover \cup {c} ELSE leftover
  BY DEF IInv, CallsInv, FilesInv, FillConfig, At, ProcInv, Coded
<1>1. Becomes(p, op'[p]) /\ op'[p].pc = "insert" /\ op'[p].code = c
  BY <1>0, GotoMoves DEF FillConfig, Pc, UsePc
<1>2. TypeOK'
  BY <1>0, <1>1 DEF TypeOK, rows, files, locks, Becomes
<1>3. filed' = filed /\ configs' = configs
  BY <1>0 DEF rows, files
<1>4. ASSUME NEW q \in Proc PROVE IsLate(q)'
  BY <1>0, <1>1, <1>3, <1>4 DEF IInv, FilesInv, IsLate, Becomes
<1>5. ASSUME NEW d \in known' \ configs' PROVE Outlived(d)'
  <2>1. CASE d = c /\ d \notin known
    BY <1>0, <1>3, <1>5, <2>1 DEF IsLate, Outlived
  <2>2. CASE d \in known
    <3>1. Outlived(d)
      BY <1>3, <1>5, <2>2 DEF IInv, FilesInv
    <3>2. d \in leftover => d \in leftover'
      BY <1>0
    <3>3. \A q \in Proc : op[q].pc = "delClear" => op'[q] = op[q]
      BY <1>0, <1>1 DEF Becomes
    <3> QED
      BY <3>1, <3>2, <3>3 DEF Outlived, At
  <2> QED
    BY <1>0, <1>5, <2>1, <2>2
<1>6. FilesInv'
  BY <1>3, <1>4, <1>5 DEF IInv, FilesInv, FilesHaveConfig
<1> QED
  BY <1>0, <1>1, <1>2, <1>6, HoldInv, QuietStep DEF locks

(* The row of a file: its configuration exists, or the upload is late.       *)
LEMMA InsertKeeps ==
  ASSUME IInv, NEW p \in Proc, InsertFile(p)
  PROVE  IInv'
<1> DEFINE c == op[p].code
<1>0. TypeOK /\ ProcInv(p) /\ IsLate(p) /\ op[p].pc = "insert" /\ c \in Code
  BY DEF IInv, CallsInv, FilesInv, InsertFile, At, ProcInv, Coded
<1>1. Becomes(p, op'[p]) /\ op'[p] = Idle
  BY <1>0, IdleTyped, RecordMoves DEF InsertFile, End, Becomes
<1>2. /\ UNCHANGED <<setting, configs, cached, known, advisory, shared, exclusive, putBack,
                     crossed, leftover>>
      /\ late' = late \ {p}
      /\ filed' \in SUBSET Code /\ stray' \in SUBSET Code
      /\ filed' = filed \/ (filed' = filed \cup {c} /\ p \notin late /\ ~Counted(c))
  BY <1>0 DEF InsertFile, redis, locks, TypeOK
<1>3. TypeOK'
  BY <1>0, <1>1, <1>2 DEF TypeOK, Becomes
<1>4. Version' = Version
  BY <1>2 DEF Version
<1>5. \A q \in Proc : q # p => Respects(q)
  BY <1>2, <1>4 DEF Respects, Counted, At
<1>6. filed' \subseteq configs'
  BY <1>0, <1>2 DEF IInv, FilesInv, FilesHaveConfig, IsLate
<1>7. ASSUME NEW q \in Proc PROVE IsLate(q)'
  BY <1>1, <1>2, <1>7, IdleTyped DEF IInv, FilesInv, IsLate, Becomes
<1>8. ASSUME NEW d \in known' \ configs' PROVE Outlived(d)'
  <2>1. Outlived(d)
    BY <1>2, <1>8 DEF IInv, FilesInv
  <2>2. \A q \in Proc : op[q].pc = "delClear" => op'[q] = op[q]
    BY <1>0, <1>1 DEF Becomes
  <2> QED
    BY <1>2, <2>1, <2>2 DEF Outlived, At
<1>9. FilesInv'
  BY <1>6, <1>7, <1>8 DEF FilesInv, FilesHaveConfig
<1>10. TargetInv'
  BY <1>1, <1>2, IdleInv, TargetStays
<1>11. ProcInv(p)'
  BY <1>1, IdleInv
<1>12. crossed' => putBack'
  BY <1>2 DEF IInv, CallsInv
<1> QED
  BY <1>1, <1>3, <1>5, <1>9, <1>10, <1>11, <1>12, StepOf

(* OssConfigService.create and update. *)
LEMMA SaveKeeps ==
  ASSUME IInv, NEW p \in Proc,
         \/ CreateRead(p) \/ UpdateRead(p) \/ SaveLoad(p) \/ SaveInsert(p) \/ SaveUpdate(p)
  PROVE  IInv'
<1>0. /\ TypeOK /\ op[p] \in OpRec /\ ProcInv(p) /\ op[p].code \in Code
      /\ cached \in Setting \cup {None} /\ op[p].pc \notin DeletePc
  BY DEF IInv, CallsInv, TypeOK, CreateRead, UpdateRead, SaveLoad, SaveInsert, SaveUpdate,
     At, ProcInv, Coded, SavePc, DeletePc
<1>1. op[p].pc # "delClear"
  BY <1>0 DEF DeletePc
<1>2. CASE CreateRead(p) \/ UpdateRead(p) \/ SaveLoad(p) \/ SaveUpdate(p)
  <2>1. UNCHANGED <<rows, locks, known, ghost>> /\ cached' \in Setting \cup {None}
    BY <1>0, <1>2 DEF CreateRead, UpdateRead, SaveLoad, SaveUpdate, redis
  <2>2. \/ End(p)
        \/ Goto(p, "load") \/ Goto(p, "saveInsert") \/ Goto(p, "saveUpdate")
        \/ Goto(p, "saveClear")
    BY <1>2 DEF CreateRead, UpdateRead, SaveLoad, SaveUpdate
  <2> QED
    BY <1>0, <1>1, <2>1, <2>2, EndKeeps, PlainGoto DEF Plain
<1>3. CASE SaveInsert(p)
  <2>1. Becomes(p, op'[p]) /\ ProcInv(p)' /\ PastCheck(p)' /\ IsLate(p)'
    <3>1. CASE End(p)
      <4>1. Becomes(p, op'[p]) /\ op'[p] = Idle
        BY <1>0, <3>1, IdleTyped, RecordMoves DEF End, Becomes
      <4> QED
        BY <4>1, IdleInv
    <3>2. CASE Goto(p, "saveClear")
      <4>1. Becomes(p, op'[p]) /\ op'[p].pc = "saveClear" /\ op'[p].code = op[p].code
        BY <1>0, <3>2, GotoMoves DEF Pc, SavePc
      <4> QED
        BY <1>0, <4>1, PlainInv DEF Plain
    <3> QED
      BY <1>3, <3>1, <3>2 DEF SaveInsert
  <2>2. /\ UNCHANGED <<setting, filed, stray, cached, known, advisory, shared, exclusive,
                       putBack, crossed, late, leftover>>
        /\ configs' = configs \cup {op[p].code}
    BY <1>3 DEF SaveInsert, files, redis, locks, ghost
  <2>3. TypeOK'
    BY <1>0, <2>1, <2>2 DEF TypeOK, Becomes
  <2>4. \A q \in Proc : Respects(q)
    BY <2>2 DEF Respects, Version
  <2>5. FilesHaveConfig'
    BY <2>2 DEF IInv, FilesInv, FilesHaveConfig
  <2>6. ASSUME NEW q \in Proc PROVE IsLate(q)'
    BY <2>1, <2>2, <2>6 DEF IInv, FilesInv, IsLate, Becomes
  <2>7. \A q \in Proc : op[q].pc = "delClear" => op'[q] = op[q]
    BY <1>1, <2>1 DEF Becomes
  <2>8. \A d \in known' \ configs' : Outlived(d)'
    BY <2>2, <2>7 DEF IInv, FilesInv, Outlived, At
  <2>9. FilesInv'
    BY <2>5, <2>6, <2>8 DEF FilesInv
  <2>10. TargetInv'
    BY <2>1, <2>2, TargetStays
  <2>11. crossed' => putBack'
    BY <2>2 DEF IInv, CallsInv
  <2> QED
    BY <2>1, <2>3, <2>4, <2>9, <2>10, <2>11, StepOf
<1> QED
  BY <1>2, <1>3

(* The copy of a configuration is cleared, and with it what was left over.   *)
LEMMA ClearKeeps ==
  ASSUME IInv, NEW p \in Proc, SaveClear(p) \/ DeleteClear(p)
  PROVE  IInv'
<1> DEFINE c == op[p].code
<1>1. /\ TypeOK /\ End(p) /\ UNCHANGED <<rows, locks, cached, putBack, crossed, late>>
      /\ known' = known \ {c} /\ leftover' = leftover \ {c}
  BY DEF SaveClear, DeleteClear, IInv
<1>2. Becomes(p, op'[p]) /\ op'[p] = Idle
  BY <1>1, IdleTyped, RecordMoves DEF End, Becomes
<1>3. TypeOK'
  BY <1>1, <1>2 DEF TypeOK, rows, files, locks, Becomes
<1>4. FilesInv'
  BY <1>1, <1>2, IdleInv, FilesStay DEF rows, files
<1> QED
  BY <1>1, <1>2, <1>3, <1>4, IdleInv, QuietStep DEF locks

(* A transaction takes the advisory lock. *)
LEMMA LockKeeps ==
  ASSUME IInv, NEW p \in Proc, SetLock(p) \/ DeleteLock(p)
  PROVE  IInv'
<1>0. TypeOK /\ ProcInv(p)
  BY DEF IInv, CallsInv
<1>1. PICK to \in {"setRead", "delCurrent"} : Goto(p, to)
  BY DEF SetLock, DeleteLock, Lock
<1>2. /\ advisory = None /\ advisory' = p
      /\ UNCHANGED <<rows, redis, shared, exclusive, ghost>>
      /\ op[p].code \in Code /\ op[p].pc # "delClear"
  BY <1>0 DEF SetLock, DeleteLock, Lock, At, ProcInv, Coded, SetPc, DeletePc
<1>3. Becomes(p, op'[p]) /\ op'[p].pc = to /\ op'[p].code = op[p].code
  BY <1>0, <1>1, GotoMoves DEF Pc, SetPc, DeletePc
<1>4. TypeOK'
  BY <1>0, <1>2, <1>3 DEF TypeOK, rows, files, redis, ghost, Becomes
<1>5. ProcInv(p)' /\ PastCheck(p)' /\ IsLate(p)'
  BY <1>1, <1>2, <1>3 DEF ProcInv, SetInv, PastCheck, IsLate, InSet
<1>6. FilesInv'
  BY <1>2, <1>3, <1>5, FilesStay DEF rows, files, redis, ghost
<1> QED
  BY <1>2, <1>3, <1>4, <1>5, <1>6, NoneAssumption, QuietStep DEF ghost

(* Two calls never hold the advisory lock at once. *)
LEMMA LockExclusive ==
  ASSUME IInv, NEW p \in Proc, op[p].pc \in Locked
  PROVE  advisory = p /\ \A q \in Proc : q # p => advisory # q
BY DEF IInv, CallsInv, ProcInv

(* set() reads the row under the lock; from here on no edit has crossed it.  *)
LEMMA SetReadKeeps ==
  ASSUME IInv, NEW p \in Proc, SetRead(p)
  PROVE  IInv'
<1>0. /\ TypeOK /\ ProcInv(p) /\ op[p].pc = "setRead" /\ op[p].code \in Code
      /\ setting \in Setting \cup {None}
  BY DEF IInv, CallsInv, TypeOK, SetRead, At, ProcInv, Coded, SetPc
<1>1. CASE Rollback(p)
  BY <1>1, RollbackKeeps
<1>2. CASE /\ Version = op[p].ver
           /\ op' = [op EXCEPT ![p] = [@ EXCEPT !.pc = "setShare", !.row = setting]]
           /\ crossed' = FALSE
           /\ UNCHANGED <<rows, redis, locks, putBack, late, leftover>>
  <2>0. "setShare" \in Pc
    BY DEF Pc, SetPc
  <2>1. /\ Becomes(p, op'[p]) /\ op'[p].pc = "setShare" /\ op'[p].row = setting
        /\ op'[p].code = op[p].code /\ op'[p].ver = op[p].ver
    <3>1. ASSUME NEW r \in Setting \cup {None},
                 op' = [op EXCEPT ![p] = [@ EXCEPT !.pc = "setShare", !.row = r]]
          PROVE  /\ Becomes(p, op'[p]) /\ op'[p].pc = "setShare" /\ op'[p].row = r
                 /\ op'[p].code = op[p].code /\ op'[p].ver = op[p].ver
      BY <1>0, <2>0, <3>1, RowMoves
    <3> QED
      BY <1>0, <1>2, <3>1
  <2>2. advisory = p /\ \A q \in Proc : q # p => advisory # q
    BY <1>0, LockExclusive DEF Locked
  <2>3. /\ UNCHANGED <<setting, configs, filed, stray, cached, known, advisory, shared,
                       exclusive>>
        /\ Version' = Version
    BY <1>2 DEF rows, files, redis, locks, Version
  <2>4. ProcInv(p)' /\ PastCheck(p)' /\ IsLate(p)'
    BY <1>0, <1>2, <2>1, <2>2, <2>3 DEF ProcInv, SetInv, IsCurrent, PastCheck, IsLate, InSet
  <2>5. TypeOK'
    BY <1>0, <1>2, <2>1, <2>3 DEF TypeOK, Becomes
  <2>6. \A q \in Proc : q # p => Respects(q)
    BY <2>2, <2>3 DEF Respects
  <2>7. FilesInv'
    BY <1>0, <1>2, <2>1, <2>3, <2>4, FilesStay
  <2>8. TargetInv'
    BY <1>2, <2>1, <2>3, <2>4, TargetStays
  <2> QED
    BY <1>2, <2>1, <2>4, <2>5, <2>6, <2>7, <2>8, StepOf
<1> QED
  BY <1>1, <1>2 DEF SetRead

(* set() locks the configuration and saves. *)
LEMMA SetSaveKeeps ==
  ASSUME IInv, NEW p \in Proc, SetShare(p) \/ SetSave(p) \/ SetWrite(p)
  PROVE  IInv'
<1> DEFINE c == op[p].code
<1>0. /\ TypeOK /\ op[p] \in OpRec /\ ProcInv(p) /\ c \in Code
      /\ op[p].pc \in {"setShare", "setSave", "setWrite"}
      /\ setting \in Setting \cup {None} /\ cached \in Setting \cup {None}
  BY DEF IInv, CallsInv, TypeOK, SetShare, SetSave, SetWrite, At, ProcInv, Coded, SetPc
<1>1. advisory = p
  BY <1>0, LockExclusive DEF Locked, InSet
<1>2. CASE SetShare(p)
  <2>1. CASE Rollback(p)
    BY <2>1, RollbackKeeps
  <2>2. CASE /\ c \in configs
             /\ shared' = [shared EXCEPT ![c] = @ \cup {p}]
             /\ Goto(p, "setSave")
             /\ UNCHANGED <<rows, redis, advisory, exclusive, ghost>>
    <3>1. /\ Becomes(p, op'[p]) /\ op'[p].pc = "setSave" /\ op'[p].code = c
          /\ op'[p].ver = op[p].ver /\ op'[p].row = op[p].row
      BY <1>0, <2>2, GotoMoves DEF Pc, SetPc
    <3>2. ~crossed => Version = op[p].ver /\ IsCurrent(op[p].row)
      BY <1>0, <1>2 DEF SetShare, At, ProcInv, SetInv, InSet
    <3>3. /\ UNCHANGED <<setting, configs, filed, stray, cached, known, advisory, exclusive,
                         putBack, crossed, late, leftover>>
          /\ Version' = Version
      BY <2>2 DEF rows, files, redis, ghost, Version
    <3>4. ProcInv(p)' /\ PastCheck(p)' /\ IsLate(p)'
      BY <1>0, <1>1, <2>2, <3>1, <3>2, <3>3
         DEF ProcInv, SetInv, IsCurrent, PastCheck, IsLate, InSet
    <3>5. TypeOK'
      BY <1>0, <2>2, <3>1, <3>3 DEF TypeOK, Becomes
    <3>6. FilesInv'
      BY <1>0, <3>1, <3>3, <3>4, FilesStay
    <3> QED
      BY <2>2, <3>1, <3>3, <3>4, <3>5, <3>6, QuietStep
  <2> QED
    BY <1>2, <2>1, <2>2 DEF SetShare
<1>3. CASE SetSave(p)
  <2>1. /\ UNCHANGED <<rows, locks, known, cached, ghost>> /\ c \in configs
        /\ ~crossed => Version = op[p].ver /\ IsCurrent(op[p].row)
    BY <1>0, <1>3 DEF SetSave, At, redis, ProcInv, SetInv, InSet
  <2>2. /\ UNCHANGED <<setting, configs, filed, advisory, crossed>> /\ Version' = Version
    BY <2>1 DEF rows, files, locks, ghost, Version
  <2>3. CASE /\ op[p].row # None /\ op[p].row.target = c
             /\ op' = [op EXCEPT ![p] = [@ EXCEPT !.pc = "setCommit", !.row = None]]
    <3>1. /\ Becomes(p, op'[p]) /\ op'[p].pc = "setCommit" /\ op'[p].row = None
          /\ op'[p].code = c /\ op'[p].ver = op[p].ver
      BY <1>0, <2>3, RowMoves DEF Pc, SetPc
    <3>2. ProcInv(p)' /\ PastCheck(p)' /\ IsLate(p)'
      BY <1>0, <1>1, <2>1, <2>2, <2>3, <3>1
         DEF ProcInv, SetInv, IsCurrent, PastCheck, IsLate, InSet
    <3> QED
      BY <1>0, <2>1, <3>1, <3>2, MoveKeeps
  <2>4. CASE op' = [op EXCEPT ![p] = [@ EXCEPT !.pc = "setWrite", !.base = setting]]
    <3>0. "setWrite" \in Pc
      BY DEF Pc, SetPc
    <3>1. /\ Becomes(p, op'[p]) /\ op'[p].pc = "setWrite" /\ op'[p].base = setting
          /\ op'[p].code = c /\ op'[p].ver = op[p].ver
      BY <1>0, <2>4, <3>0, BaseMoves
    <3>2. ProcInv(p)' /\ PastCheck(p)' /\ IsLate(p)'
      BY <1>0, <1>1, <2>1, <2>2, <3>1
         DEF ProcInv, SetInv, IsCurrent, PastCheck, IsLate, InSet
    <3> QED
      BY <1>0, <2>1, <3>1, <3>2, MoveKeeps
  <2> QED
    BY <1>3, <2>3, <2>4 DEF SetSave
<1>4. CASE SetWrite(p)
  <2> DEFINE r == Written(NextSetting(p), op[p].base, setting)
             o == [op[p] EXCEPT !.pc = "setCommit", !.base = None, !.row = r]
  <2>1. /\ UNCHANGED <<rows, locks, known, cached, ghost>> /\ c \in configs
        /\ ~crossed => Version = op[p].ver /\ IsCurrent(op[p].base)
        /\ op[p].pc = "setWrite"
    BY <1>0, <1>4 DEF SetWrite, At, redis, ProcInv, SetInv, InSet
  <2>2. /\ UNCHANGED <<setting, configs, filed, advisory, crossed>> /\ Version' = Version
    BY <2>1 DEF rows, files, locks, ghost, Version
  <2>3. /\ NextSetting(p) \in Setting /\ NextSetting(p).target = c
        /\ NextSetting(p).version = op[p].ver + 1
    BY <1>0 DEF NextSetting, Setting, OpRec
  <2>4. op[p].base \in Setting \cup {None}
    BY <1>0 DEF OpRec
  <2>5. ~crossed => r # None /\ r.target = c /\ r.version = op[p].ver + 1
    <3> SUFFICES ASSUME ~crossed PROVE r # None /\ r.target = c /\ r.version = op[p].ver + 1
      OBVIOUS
    <3>1. CASE op[p].base = None
      BY <2>3, <3>1, NoneAssumption DEF Written
    <3>2. CASE op[p].base # None
      <4>1. /\ setting # None /\ op[p].base.target = setting.target
            /\ op[p].base.version = op[p].ver
        BY <2>1, <3>2 DEF IsCurrent, Version
      <4>2. op[p].ver \in Nat
        BY <1>0 DEF OpRec
      <4>3. r = [target |-> c, active |-> r.active, version |-> op[p].ver + 1]
        BY <2>3, <3>2, <4>1, <4>2 DEF Written, Column
      <4>4. r \in Setting
        BY <1>0, <2>3, <2>4, <3>2, <4>1 DEF Written, Column, Setting
      <4> QED
        BY <4>3, <4>4, NoneAssumption
    <3> QED
      BY <3>1, <3>2
  <2>6. r \in Setting
    BY <1>0, <2>1, <2>3, <2>4 DEF Written, Column, Setting, ProcInv
  <2> HIDE DEF r
  <2>7. /\ o \in OpRec /\ o.pc = "setCommit" /\ o.code = c /\ o.ver = op[p].ver /\ o.row = r
    BY <1>0, <2>6 DEF OpRec, Pc, SetPc
  <2>8. op' = [op EXCEPT ![p] = o]
    BY <1>0, <1>4 DEF SetWrite, r, TypeOK
  <2> HIDE DEF o
  <2>9. Becomes(p, op'[p]) /\ op'[p] = o
    BY <1>0, <2>7, <2>8, RecordMoves DEF Becomes
  <2>10. r # None
    BY <2>6, NoneAssumption
  <2>11. ProcInv(p)' /\ PastCheck(p)' /\ IsLate(p)'
    BY <1>0, <1>1, <2>1, <2>2, <2>5, <2>7, <2>9, <2>10
       DEF ProcInv, SetInv, PastCheck, IsLate, InSet
  <2> QED
    BY <1>0, <2>1, <2>9, <2>11, MoveKeeps
<1> QED
  BY <1>0, <1>2, <1>3, <1>4

(* The commit of set(): what it leaves is the target it holds a row lock on, *)
(* unless an edit has crossed it, which is noted.                            *)
LEMMA SetCommitKeeps ==
  ASSUME IInv, NEW p \in Proc, SetCommit(p)
  PROVE  IInv'
<1>0. /\ TypeOK /\ op[p] \in OpRec /\ ProcInv(p) /\ op[p].code \in Code
      /\ op[p].pc = "setCommit" /\ op[p].code \in configs
      /\ setting \in Setting \cup {None} /\ op[p].row \in Setting \cup {None}
  BY DEF IInv, CallsInv, TypeOK, SetCommit, At, ProcInv, Coded, SetPc, OpRec
<1>1. Becomes(p, op'[p]) /\ op'[p].pc = "setClear" /\ op'[p].code = op[p].code
  BY <1>0, GotoMoves DEF SetCommit, Pc, SetPc
<1>2. ProcInv(p)' /\ PastCheck(p)' /\ IsLate(p)'
  BY <1>0, <1>1, PlainInv DEF Plain
<1>3. /\ UNCHANGED <<configs, filed, stray, cached, known, crossed, late, leftover>> /\ Release(p)
      /\ setting' = IF op[p].row = None THEN setting ELSE op[p].row
      /\ putBack' = (putBack /\ crossed)
  BY DEF SetCommit, redis, files
<1>4. TypeOK'
  BY <1>0, <1>1, <1>3, ReleaseOwn DEF TypeOK, Becomes
<1>5. \A q \in Proc : q # p => advisory # q
  BY <1>0, LockExclusive DEF Locked, InSet
<1>6. \A q \in Proc : q # p => Respects(q)
  BY <1>3, <1>5, NoneAssumption DEF Respects
<1>7. FilesInv'
  BY <1>0, <1>1, <1>2, <1>3, FilesStay
<1>8. crossed' => putBack'
  BY <1>3 DEF IInv, CallsInv
<1>9. TargetExists'
  <2>1. CASE crossed
    BY <1>3, <1>8, <2>1 DEF TargetExists
  <2>2. CASE ~crossed
    <3>1. setting' # None => setting'.target = op[p].code
      BY <1>0, <1>3, <2>2 DEF ProcInv, SetInv
    <3> QED
      BY <1>0, <1>3, <3>1 DEF TargetExists
  <2> QED
    BY <2>1, <2>2
<1>10. ASSUME NEW q \in Proc PROVE PastCheck(q)'
  <2>1. CASE q = p
    BY <1>2, <2>1
  <2>2. CASE q # p
    BY <1>1, <1>5, <2>2 DEF PastCheck, IInv, CallsInv, ProcInv, Locked, Becomes
  <2> QED
    BY <2>1, <2>2
<1>11. TargetInv'
  BY <1>9, <1>10 DEF TargetInv
<1> QED
  BY <1>1, <1>2, <1>4, <1>6, <1>7, <1>8, <1>11, StepOf

(* delete() before its commit. *)
LEMMA DeleteKeeps ==
  ASSUME IInv, NEW p \in Proc, DeleteCurrent(p) \/ DeleteRow(p) \/ DeleteCount(p)
  PROVE  IInv'
<1>0. /\ TypeOK /\ op[p] \in OpRec /\ ProcInv(p) /\ cached \in Setting \cup {None}
      /\ op[p].pc \in {"delCurrent", "delRow", "delCount"} /\ op[p].code \in Code
  BY DEF IInv, CallsInv, TypeOK, DeleteCurrent, DeleteRow, DeleteCount, At, ProcInv, Coded,
     DeletePc
<1>1. advisory = p
  BY <1>0, LockExclusive DEF Locked
<1>2. CASE Rollback(p)
  BY <1>2, RollbackKeeps
<1>3. CASE DeleteCurrent(p) /\ ~Rollback(p)
  <2>1. /\ ~IsDefault(op[p].code) /\ Goto(p, "delRow")
        /\ UNCHANGED <<rows, redis, locks, ghost>>
    BY <1>3 DEF DeleteCurrent
  <2>2. Becomes(p, op'[p]) /\ op'[p].pc = "delRow" /\ op'[p].code = op[p].code
    BY <1>0, <2>1, GotoMoves DEF Pc, DeletePc
  <2>3. PastCheck(p)'
    BY <2>1, <2>2 DEF PastCheck, IsDefault, rows
  <2>4. ProcInv(p)' /\ IsLate(p)'
    BY <1>0, <1>1, <2>1, <2>2 DEF ProcInv, SetInv, IsLate, InSet, locks
  <2> QED
    BY <1>0, <2>1, <2>2, <2>3, <2>4, MoveKeeps DEF redis
<1>4. CASE DeleteRow(p) /\ ~Rollback(p)
  <2>1. /\ exclusive' = [exclusive EXCEPT ![op[p].code] = p]
        /\ Goto(p, "delCount") /\ UNCHANGED <<rows, redis, advisory, shared, ghost>>
        /\ op[p].pc = "delRow"
    BY <1>4 DEF DeleteRow, At
  <2>2. Becomes(p, op'[p]) /\ op'[p].pc = "delCount" /\ op'[p].code = op[p].code
    BY <1>0, <2>1, GotoMoves DEF Pc, DeletePc
  <2>3. PastCheck(p) => PastCheck(p)'
    BY <2>1, <2>2 DEF PastCheck, IsDefault, rows, ghost
  <2>4. ProcInv(p)' /\ IsLate(p)'
    BY <1>0, <1>1, <2>1, <2>2 DEF ProcInv, SetInv, IsLate, InSet
  <2>5. TypeOK'
    BY <1>0, <2>1, <2>2 DEF TypeOK, rows, files, redis, ghost, Becomes
  <2>6. FilesInv'
    BY <1>0, <2>1, <2>2, <2>4, FilesStay DEF rows, files, redis, ghost
  <2> QED
    BY <2>1, <2>2, <2>3, <2>4, <2>5, <2>6, QuietStep DEF ghost
<1>5. CASE DeleteCount(p) /\ ~Rollback(p)
  <2>1. /\ op[p].code \notin filed /\ Goto(p, "delCommit")
        /\ UNCHANGED <<rows, redis, locks, ghost>> /\ op[p].pc = "delCount"
    BY <1>5 DEF DeleteCount, At
  <2>2. Becomes(p, op'[p]) /\ op'[p].pc = "delCommit" /\ op'[p].code = op[p].code
    BY <1>0, <2>1, GotoMoves DEF Pc, DeletePc
  <2>3. PastCheck(p) => PastCheck(p)'
    BY <2>1, <2>2 DEF PastCheck, IsDefault, rows, ghost
  <2>4. ProcInv(p)' /\ IsLate(p)'
    BY <1>0, <1>1, <2>1, <2>2 DEF ProcInv, SetInv, IsLate, InSet, locks, rows, files
  <2> QED
    BY <1>0, <2>1, <2>2, <2>3, <2>4, MoveKeeps DEF redis
<1> QED
  BY <1>2, <1>3, <1>4, <1>5

(* The commit of delete(): no file counts, and the uploads that hold the     *)
(* configuration become late.                                                *)
LEMMA DeleteCommitKeeps ==
  ASSUME IInv, NEW p \in Proc, DeleteCommit(p)
  PROVE  IInv'
<1> DEFINE c == op[p].code
<1>0. TypeOK /\ ProcInv(p) /\ c \in Code /\ op[p].pc = "delCommit"
  BY DEF IInv, CallsInv, DeleteCommit, At, ProcInv, Coded, DeletePc
<1>1. Becomes(p, op'[p]) /\ op'[p].pc = "delClear" /\ op'[p].code = c
  BY <1>0, GotoMoves DEF DeleteCommit, Pc, DeletePc
<1>2. ProcInv(p)' /\ PastCheck(p)' /\ IsLate(p)'
  BY <1>0, <1>1, PlainInv DEF Plain
<1>3. /\ UNCHANGED <<setting, filed, stray, cached, known, putBack, crossed, leftover>>
      /\ Release(p) /\ configs' = configs \ {c} /\ late' = late \cup Holding(c)
  BY DEF DeleteCommit, redis, files
<1>4. TypeOK'
  BY <1>0, <1>1, <1>3, ReleaseOwn DEF TypeOK, Holding, Becomes
<1>5. \A q \in Proc : q # p => advisory # q
  BY <1>0, LockExclusive DEF Locked
<1>6. \A q \in Proc : q # p => Respects(q)
  BY <1>3, <1>5, NoneAssumption DEF Respects
<1>7. FilesHaveConfig'
  BY <1>0, <1>3 DEF IInv, FilesInv, FilesHaveConfig, ProcInv
<1>8. ASSUME NEW q \in Proc PROVE IsLate(q)'
  <2>1. CASE q = p
    BY <1>2, <2>1
  <2>2. CASE q # p
    BY <1>1, <1>3, <2>2 DEF IInv, FilesInv, IsLate, Holding, At, Becomes
  <2> QED
    BY <2>1, <2>2
<1>9. \A q \in Proc : op[q].pc = "delClear" => op'[q] = op[q]
  BY <1>0, <1>1 DEF Becomes
<1>10. ASSUME NEW d \in known' \ configs' PROVE Outlived(d)'
  <2>1. CASE d = c
    BY <1>1, <2>1 DEF Outlived, At
  <2>2. CASE d # c
    BY <1>3, <1>9, <1>10, <2>2 DEF IInv, FilesInv, Outlived, At
  <2> QED
    BY <2>1, <2>2
<1>11. FilesInv'
  BY <1>7, <1>8, <1>10 DEF FilesInv
<1>12. ASSUME ~Enabling PROVE TargetExists'
  BY <1>0, <1>3, <1>12 DEF IInv, TargetInv, TargetExists, PastCheck, IsDefault
<1>13. ASSUME ~Enabling, NEW q \in Proc PROVE PastCheck(q)'
  <2>1. CASE q = p
    BY <1>2, <2>1
  <2>2. CASE q # p
    BY <1>1, <1>3, <1>13, <2>2 DEF IInv, TargetInv, PastCheck, IsDefault, Becomes
  <2> QED
    BY <2>1, <2>2
<1>14. TargetInv'
  BY <1>12, <1>13 DEF TargetInv
<1>15. crossed' => putBack'
  BY <1>3 DEF IInv, CallsInv
<1> QED
  BY <1>1, <1>2, <1>4, <1>6, <1>11, <1>14, <1>15, StepOf

(* An edit of the status reads the row, and loads it once more.              *)
LEMMA EditReadKeeps ==
  ASSUME IInv, NEW p \in Proc, EditRead(p) \/ EditLoad(p)
  PROVE  IInv'
<1>0. /\ TypeOK /\ ProcInv(p) /\ op[p].pc \in {"edit", "editLoad"}
      /\ setting \in Setting \cup {None} /\ cached \in Setting \cup {None}
      /\ UNCHANGED <<rows, locks, known, cached, ghost>> /\ setting' = setting
  BY DEF IInv, CallsInv, TypeOK, EditRead, EditLoad, At, redis, rows
<1>1. CASE End(p)
  BY <1>0, <1>1, EndKeeps
<1>2. CASE EditRead(p) /\ setting # None
  <2>1. \E r \in Setting :
          /\ r.active => Enabling
          /\ op' = [op EXCEPT ![p] = [@ EXCEPT !.pc = "editLoad", !.row = r]]
    <3>1. PICK active \in BOOLEAN :
            /\ active => Enabling
            /\ op' = [op EXCEPT ![p] = [@ EXCEPT !.pc = "editLoad",
                                           !.row = [setting EXCEPT !.active = active]]]
      BY <1>2 DEF EditRead
    <3> DEFINE s == [setting EXCEPT !.active = active]
    <3>2. s \in Setting /\ s.active = active
      BY <1>0, <1>2 DEF Setting
    <3>3. op' = [op EXCEPT ![p] = [@ EXCEPT !.pc = "editLoad", !.row = s]]
      BY <3>1
    <3> HIDE DEF s
    <3> QED
      BY <3>1, <3>2, <3>3
  <2>2. PICK r \in Setting :
          /\ r.active => Enabling
          /\ op' = [op EXCEPT ![p] = [@ EXCEPT !.pc = "editLoad", !.row = r]]
    BY <2>1
  <2>3. "editLoad" \in Pc
    BY DEF Pc, EditPc
  <2>4. Becomes(p, op'[p]) /\ op'[p].pc = "editLoad" /\ op'[p].row = r
    BY <1>0, <2>2, <2>3, RowMoves
  <2>5. ProcInv(p)' /\ PastCheck(p)' /\ IsLate(p)'
    BY <1>0, <1>2, <2>2, <2>4, NoneAssumption
       DEF ProcInv, SetInv, PastCheck, IsLate, InSet, Locked, Coded, SetPc, DeletePc, SavePc
  <2> QED
    BY <1>0, <2>4, <2>5, MoveKeeps
<1>3. CASE EditLoad(p)
  <2>1. setting # None /\ op[p].row # None /\ (op[p].row.active => Enabling)
    BY <1>0, <1>3 DEF ProcInv, EditLoad, At
  <2>2. "editWrite" \in Pc
    BY DEF Pc, EditPc
  <2>3. op' = [op EXCEPT ![p] = [@ EXCEPT !.pc = "editWrite", !.base = setting]]
    BY <1>3 DEF EditLoad
  <2>4. TypeOK /\ setting \in Setting \cup {None}
    BY <1>0
  <2>5. Becomes(p, op'[p]) /\ op'[p].pc = "editWrite" /\ op'[p].base = setting
        /\ op'[p].row = op[p].row
    BY <2>3, <2>2, <2>4, BaseMoves
  <2>6. ProcInv(p)' /\ PastCheck(p)' /\ IsLate(p)'
    BY <1>0, <2>1, <2>5
       DEF ProcInv, SetInv, PastCheck, IsLate, InSet, Locked, Coded, SetPc, DeletePc, SavePc
  <2> QED
    BY <1>0, <2>5, <2>6, MoveKeeps
<1> QED
  BY <1>1, <1>2, <1>3 DEF EditRead

(* It writes: the target and the version as they are, or it is noted.  It    *)
(* turns nothing on that was off.                                            *)
LEMMA EditWriteKeeps ==
  ASSUME IInv, NEW p \in Proc, EditWrite(p)
  PROVE  IInv'
<1>0. /\ TypeOK /\ op[p] \in OpRec /\ ProcInv(p) /\ op[p].pc = "editWrite"
      /\ setting \in Setting /\ op[p].row \in Setting /\ op[p].base \in Setting
      /\ op[p].row.active => Enabling
  BY DEF IInv, CallsInv, TypeOK, EditWrite, At, ProcInv, OpRec
<1> DEFINE back == setting'.target # setting.target \/ setting'.version # setting.version
<1>1. /\ setting' = Written(op[p].row, op[p].base, setting)
      /\ putBack' = (putBack \/ back) /\ crossed' = (crossed \/ back)
      /\ UNCHANGED <<configs, filed, stray, cached, known, advisory, shared, exclusive, late,
                     leftover>>
  BY DEF EditWrite, files, redis, locks
<1>2. setting' \in Setting /\ (setting'.active => setting.active \/ Enabling)
  BY <1>0, <1>1, NoneAssumption DEF Written, Column, Setting
<1> HIDE DEF back
<1>3. "editClear" \in Pc
  BY DEF Pc, EditPc
<1>4. Becomes(p, op'[p]) /\ op'[p].pc = "editClear"
  BY <1>0, <1>3, GotoMoves DEF EditWrite
<1>5. ProcInv(p)' /\ PastCheck(p)' /\ IsLate(p)'
  BY <1>4, PlainInv DEF Plain
<1>6. TypeOK'
  BY <1>0, <1>1, <1>2, <1>4 DEF TypeOK, Becomes
<1>7. setting # None /\ setting' # None
  BY <1>0, <1>2, NoneAssumption
<1>8. ~back => setting'.target = setting.target /\ setting'.version = setting.version
  BY DEF back
<1>9. \A q \in Proc : q # p => Respects(q)
  BY <1>1, <1>7, <1>8 DEF Respects, Version
<1>10. FilesInv'
  BY <1>0, <1>1, <1>4, <1>5, FilesStay
<1>11. crossed' => putBack'
  BY <1>1 DEF IInv, CallsInv
<1>12. ASSUME ~Enabling PROVE TargetExists'
  BY <1>1, <1>2, <1>7, <1>8, <1>12 DEF IInv, TargetInv, TargetExists
<1>13. ASSUME ~Enabling, NEW q \in Proc PROVE PastCheck(q)'
  <2>1. CASE q = p
    BY <1>5, <2>1
  <2>2. CASE q # p
    BY <1>1, <1>2, <1>4, <1>7, <1>8, <1>13, <2>2
       DEF IInv, TargetInv, PastCheck, IsDefault, Becomes
  <2> QED
    BY <2>1, <2>2
<1>14. TargetInv'
  BY <1>12, <1>13 DEF TargetInv
<1> QED
  BY <1>4, <1>5, <1>6, <1>9, <1>10, <1>11, <1>14, StepOf

(* A call that clears the copy of the setting. *)
LEMMA SettingClears ==
  ASSUME IInv, NEW p \in Proc, SetClear(p) \/ EditClear(p)
  PROVE  IInv'
BY EndKeeps DEF SetClear, EditClear, At, IInv, TypeOK

LEMMA ExpireKeeps ==
  ASSUME IInv, Expire \/ UNCHANGED vars
  PROVE  IInv'
<1>1. /\ UNCHANGED <<setting, configs, filed, stray, advisory, shared, exclusive, op, putBack,
                     crossed, late>>
      /\ cached' \in {cached, None} /\ known' \subseteq known /\ leftover' = leftover \cap known'
  BY DEF Expire, rows, files, locks, redis, ghost, vars, IInv, TypeOK
<1>2. TypeOK'
  BY <1>1 DEF IInv, TypeOK
<1>3. Version' = Version
  BY <1>1 DEF Version
<1>4. CallsInv'
  BY <1>1, <1>3, OtherKeeps DEF IInv, CallsInv, Respects
<1>5. FilesInv'
  BY <1>1 DEF IInv, FilesInv, FilesHaveConfig, IsLate, Outlived, At
<1>6. TargetInv'
  BY <1>1 DEF IInv, TargetInv, TargetExists, PastCheck, IsDefault
<1> QED
  BY <1>2, <1>4, <1>5, <1>6 DEF IInv

-----------------------------------------------------------------------------
LEMMA StepKeeps ==
  ASSUME IInv, [Next]_vars
  PROVE  IInv'
<1>1. ASSUME NEW p \in Proc, Transaction(p) PROVE IInv'
  BY <1>1, LockKeeps, SetReadKeeps, SetSaveKeeps, SetCommitKeeps, SettingClears, DeleteKeeps,
     DeleteCommitKeeps, ClearKeeps DEF Transaction
<1>2. ASSUME NEW p \in Proc, Statement(p) PROVE IInv'
  BY <1>2, SaveKeeps, ClearKeeps, ResolveKeeps, LookupKeeps, FillKeeps, InsertKeeps,
     EditReadKeeps, EditWriteKeeps, SettingClears DEF Statement
<1>3. ASSUME NEW p \in Proc, Call(p) \/ Fail(p) PROVE IInv'
  BY <1>3, StartKeeps, RollbackKeeps DEF Fail
<1> QED
  BY <1>1, <1>2, <1>3, ExpireKeeps DEF Next

LEMMA InitHolds == Init => IInv
<1> SUFFICES ASSUME Init PROVE IInv
  OBVIOUS
<1>1. /\ op = [p \in Proc |-> Idle] /\ filed = {} /\ configs = {} /\ setting = None
      /\ known = {} /\ crossed = FALSE
  BY DEF Init
<1>2. TypeOK
  BY <1>1, IdleTyped DEF Init, TypeOK
<1>3. CallsInv
  BY <1>1, IdleTyped DEF CallsInv, ProcInv, SetInv, InSet, Locked, Coded, SetPc, DeletePc, SavePc
<1>4. FilesInv /\ TargetInv
  BY <1>1, IdleTyped DEF FilesInv, FilesHaveConfig, IsLate, TargetInv, TargetExists, PastCheck
<1> QED
  BY <1>2, <1>3, <1>4 DEF IInv

(* Who holds which lock at which statement, what the lock makes true there   *)
(* and what an edit without one may have made false, is kept by every step.  *)
THEOREM Inductive == Spec => []IInv
BY InitHolds, StepKeeps, PTL DEF Spec

(* Every reachable state is well typed. *)
THEOREM TypeCorrect == Spec => []TypeOK
BY Inductive, PTL DEF IInv

(* Unless the generic editor turns a disabled row on again, the active      *)
(* default target exists: delete() and set() cannot cross.  What an edit     *)
(* has put back is excepted until the next set() it does not cross.          *)
THEOREM DefaultExists ==
  ASSUME ~Enabling
  PROVE  Spec => []TargetExists
<1>1. IInv => TargetExists
  BY DEF IInv, TargetInv
<1> QED
  BY <1>1, Inductive, PTL

(* No delete leaves a file row behind, but for rows of late uploads: those   *)
(* that held the configuration at its commit, found a copy of it that was    *)
(* left over in Redis, or came after the count.                              *)
THEOREM FilesKeepConfig == Spec => []FilesHaveConfig
BY Inductive, PTL DEF IInv, FilesInv

-----------------------------------------------------------------------------
(* set() implements the versioned register: a commit that no edit crossed is *)
(* the compare-and-set; of the other steps, only an edit that writes what it *)
(* had read changes target or version.                                       *)
CompareAndSets == Register!Next \/ EditPutsBack \/ crossed

LEMMA CommitSets ==
  ASSUME IInv, NEW p \in Proc, SetCommit(p), ~crossed
  PROVE  [Register!Next]_<<Target, Version>>
<1>1. /\ op[p].code \in Code /\ op[p].ver = Version
      /\ op[p].row # None => op[p].row.target = op[p].code /\ op[p].row.version = op[p].ver + 1
  BY DEF IInv, CallsInv, ProcInv, SetInv, InSet, SetCommit, At, Coded, SetPc
<1>2. setting' = IF op[p].row = None THEN setting ELSE op[p].row
  BY DEF SetCommit
<1>3. CASE op[p].row = None
  BY <1>2, <1>3 DEF Target, Version
<1>4. CASE op[p].row # None
  <2>1. setting' # None /\ setting'.target = op[p].code /\ setting'.version = Version + 1
    BY <1>1, <1>2, <1>4
  <2>2. Register!CompareAndSet(op[p].code)
    BY <2>1 DEF Register!CompareAndSet, Target, Version
  <2> QED
    BY <1>1, <2>2 DEF Register!Next
<1> QED
  BY <1>3, <1>4

LEMMA OthersKeepSetting ==
  ASSUME NEW p \in Proc,
         \/ Call(p) \/ Fail(p)
         \/ Statement(p) /\ ~EditWrite(p)
         \/ Transaction(p) /\ ~SetCommit(p)
  PROVE  setting' = setting
BY DEF Call, Start, Statement, Fail, Rollback, Transaction, rows,
   SetLock, DeleteLock, Lock, SetRead, SetShare, SetSave, SetWrite, SetClear,
   DeleteCurrent, DeleteRow, DeleteCount, DeleteCommit, DeleteClear,
   CreateRead, UpdateRead, SaveLoad, SaveInsert, SaveUpdate, SaveClear,
   GetSetting, ReadSetting, FillSetting, GetConfig, ReadConfig, FillConfig, InsertFile,
   EditRead, EditLoad, EditClear

(* Of the requests that carry one version, at most one changes the default  *)
(* target, and none changes it that carries another version, unless an edit  *)
(* of the status puts back what it read, or crosses the set() by doing so.   *)
THEOREM SetIsCompareAndSet == Spec => ImplementsRegister
<1>1. Init => Register!Init
  BY DEF Init, Register!Init, Target, Version
<1>2. ASSUME IInv, [Next]_vars PROVE [CompareAndSets]_<<Target, Version>>
  <2>1. CASE setting' = setting
    BY <2>1 DEF Target, Version
  <2>2. ASSUME NEW p \in Proc, SetCommit(p) PROVE [CompareAndSets]_<<Target, Version>>
    BY <1>2, <2>2, CommitSets DEF CompareAndSets
  <2>3. ASSUME NEW p \in Proc, EditWrite(p) PROVE CompareAndSets
    <3>1. op[p].pc = "editWrite" /\ op'[p].pc = "editClear"
      BY <1>2, <2>3, GotoMoves DEF IInv, EditWrite, At, Pc, EditPc
    <3> QED
      BY <3>1 DEF CompareAndSets, EditPutsBack, At
  <2>4. CASE Expire \/ UNCHANGED vars
    BY <2>1, <2>4 DEF Expire, rows, vars
  <2> QED
    BY <1>2, <2>1, <2>2, <2>3, <2>4, OthersKeepSetting DEF Next
<1>3. ImplementsRegister <=> Register!Init /\ [][CompareAndSets]_<<Target, Version>>
  BY PTL DEF ImplementsRegister, CompareAndSets
<1> QED
  BY <1>1, <1>2, <1>3, Inductive, PTL DEF Spec
-----------------------------------------------------------------------------
(* The built-in administrator.  Until it is deleted its four rows come and   *)
(* stay together, so that no job finds a deleted user to restore; a job that *)
(* is not settled has an attempt left.                                       *)
RowsTogether ==
  ~deleted => \/ \A t \in Builtin!Table : row[t] = "none"
              \/ \A t \in Builtin!Table : row[t] = "live"

NothingToRestore == ~deleted => \A p \in Proc : ensure[p].pc # "restore"

AttemptLeft ==
  \A p \in Proc : ensure[p].pc \in {"waiting", "restore", "begin", "create"}
                    => ensure[p].failures < Attempts

BootstrapInv ==
  /\ Builtin!AbTypeOK
  /\ RowsTogether
  /\ NothingToRestore
  /\ AttemptLeft
  /\ Builtin!BootstrapLeavesAdmin

(* A job that goes from p's step to pc, with the failures it had or one more. *)
JobGoes(p, pc, n) ==
  /\ ensure'[p].pc = pc /\ ensure'[p].failures = n
  /\ ensure'[p] \in Builtin!EnsureRec
  /\ \A q \in Proc : q # p => ensure'[q] = ensure[q]

LEMMA JobMoves ==
  ASSUME Builtin!AbTypeOK, NEW p \in Proc, NEW pc \in Builtin!Pc, Builtin!Goto(p, pc)
  PROVE  JobGoes(p, pc, ensure[p].failures)
BY DEF Builtin!AbTypeOK, Builtin!EnsureRec, Builtin!Goto, JobGoes

LEMMA JobFails ==
  ASSUME Builtin!AbTypeOK, AttemptLeft, NEW p \in Proc, Builtin!Fails(p),
         ensure[p].pc \in {"waiting", "restore", "begin", "create"}
  PROVE  \/ JobGoes(p, "waiting", ensure[p].failures + 1) /\ ensure[p].failures + 1 < Attempts
         \/ JobGoes(p, "failed", ensure[p].failures + 1)
<1>1. ensure[p].failures \in Nat /\ ensure[p].failures < Attempts
  BY DEF AttemptLeft, Builtin!AbTypeOK, Builtin!EnsureRec
<1> DEFINE n == ensure[p].failures + 1
           rec == [pc |-> IF n = Attempts THEN "failed" ELSE "waiting", failures |-> n,
                   name |-> None]
<1>2. rec \in Builtin!EnsureRec /\ rec.failures = n
      /\ rec.pc = IF n = Attempts THEN "failed" ELSE "waiting"
  BY <1>1, BootstrapAssumption DEF Builtin!EnsureRec, Builtin!Pc
<1>3. ensure' = [ensure EXCEPT ![p] = rec]
  BY DEF Builtin!Fails
<1> HIDE DEF rec
<1>4. ensure'[p] = rec /\ \A q \in Proc : q # p => ensure'[q] = ensure[q]
  BY <1>3 DEF Builtin!AbTypeOK
<1>5. CASE n = Attempts
  BY <1>2, <1>4, <1>5 DEF JobGoes
<1>6. CASE n # Attempts
  BY <1>1, <1>2, <1>4, <1>6, BootstrapAssumption DEF JobGoes
<1> QED
  BY <1>5, <1>6

(* What a job's move asks of the invariant: only a job that is done needs an *)
(* administrator, only one that is not settled an attempt.                   *)
LEMMA JobKeeps ==
  ASSUME BootstrapInv, NEW p \in Proc, NEW pc, NEW n, JobGoes(p, pc, n),
         ensure' = [ensure EXCEPT ![p] = ensure'[p]],
         row' \in [Builtin!Table -> Builtin!RowState], UNCHANGED <<other, deleted>>,
         starts' \in 0..MaxStarts,
         RowsTogether',
         pc = "restore" => deleted,
         pc \in {"waiting", "restore", "begin", "create"} => n < Attempts,
         ~deleted /\ (pc = "done" \/ row # row')
           => \A t \in Builtin!Table : row'[t] = "live"
  PROVE  BootstrapInv'
<1>1. Builtin!AbTypeOK'
  BY DEF BootstrapInv, Builtin!AbTypeOK, JobGoes
<1>2. NothingToRestore' /\ AttemptLeft'
  BY DEF BootstrapInv, NothingToRestore, AttemptLeft, JobGoes
<1>3. Builtin!BootstrapLeavesAdmin'
  BY DEF BootstrapInv, Builtin!BootstrapLeavesAdmin, JobGoes
<1> QED
  BY <1>1, <1>2, <1>3 DEF BootstrapInv

LEMMA BootstrapInit == Builtin!AbInit => BootstrapInv
<1> SUFFICES ASSUME Builtin!AbInit PROVE BootstrapInv
  OBVIOUS
<1>1. Builtin!Idle \in Builtin!EnsureRec /\ Builtin!Idle.pc = "idle"
  BY BootstrapAssumption DEF Builtin!Idle, Builtin!EnsureRec, Builtin!Pc
<1>2. \A p \in Proc : ensure[p] = Builtin!Idle
  BY DEF Builtin!AbInit
<1>3. Builtin!AbTypeOK
  <2>1. ensure \in [Proc -> Builtin!EnsureRec] /\ starts \in 0..MaxStarts
    BY <1>1, BootstrapAssumption DEF Builtin!AbInit
  <2>2. row \in [Builtin!Table -> Builtin!RowState]
    BY DEF Builtin!AbInit, Builtin!RowState
  <2>3. other \in BOOLEAN /\ deleted \in BOOLEAN
    BY DEF Builtin!AbInit
  <2> QED
    BY <2>1, <2>2, <2>3 DEF Builtin!AbTypeOK
<1>4. RowsTogether
  BY DEF Builtin!AbInit, RowsTogether
<1>5. NothingToRestore /\ AttemptLeft /\ Builtin!BootstrapLeavesAdmin
  BY <1>1, <1>2 DEF NothingToRestore, AttemptLeft, Builtin!BootstrapLeavesAdmin
<1> QED
  BY <1>3, <1>4, <1>5 DEF BootstrapInv

LEMMA JobSteps ==
  ASSUME BootstrapInv, NEW p \in Proc,
         \/ Builtin!FindExisting(p) \/ Builtin!RestoreUser(p) \/ Builtin!ChooseUsername(p)
         \/ Builtin!CommitAdmin(p) \/ Builtin!EnsureFails(p)
  PROVE  BootstrapInv'
<1> DEFINE n == ensure[p].failures
<1>1. /\ Builtin!AbTypeOK /\ RowsTogether /\ NothingToRestore /\ AttemptLeft
      /\ row \in [Builtin!Table -> Builtin!RowState] /\ starts \in 0..MaxStarts
      /\ {"waiting", "restore", "begin", "create", "done", "failed"} \subseteq Builtin!Pc
      /\ n \in Nat
      /\ "user" \in Builtin!Table /\ "account" \in Builtin!Table
  BY DEF BootstrapInv, Builtin!AbTypeOK, Builtin!EnsureRec, Builtin!Pc, Builtin!Table
<1>2. ensure' = [ensure EXCEPT ![p] = ensure'[p]]
  BY DEF Builtin!FindExisting, Builtin!RestoreUser, Builtin!ChooseUsername,
     Builtin!CommitAdmin, Builtin!EnsureFails, Builtin!Fails, Builtin!Goto,
     BootstrapInv, Builtin!AbTypeOK
<1>3. CASE Builtin!FindExisting(p)
  <2> DEFINE pc == CASE row["user"] = "live" -> "done"
                     [] row["user"] = "deleted" -> "restore"
                     [] OTHER -> "begin"
  <2>1. pc \in {"done", "restore", "begin"} /\ UNCHANGED <<row, other, starts, deleted>>
    BY <1>3 DEF Builtin!FindExisting
  <2>2. pc = "restore" => deleted
    BY <1>1 DEF RowsTogether
  <2>3. ~deleted /\ pc = "done" => \A t \in Builtin!Table : row[t] = "live"
    BY <1>1 DEF RowsTogether
  <2>4. Builtin!Goto(p, pc)
    BY <1>3 DEF Builtin!FindExisting
  <2>5. n < Attempts
    BY <1>1, <1>3 DEF Builtin!FindExisting, AttemptLeft
  <2> HIDE DEF pc
  <2>6. JobGoes(p, pc, n)
    BY <1>1, <2>1, <2>4, JobMoves
  <2>7. RowsTogether'
    BY <1>1, <2>1 DEF RowsTogether
  <2> QED
    BY <1>1, <1>2, <2>1, <2>2, <2>3, <2>5, <2>6, <2>7, JobKeeps
<1>4. CASE Builtin!RestoreUser(p)
  <2>1. /\ deleted /\ UNCHANGED <<other, starts, deleted>> /\ Builtin!Goto(p, "done")
        /\ row' = [row EXCEPT !["user"] = "live"]
    BY <1>1, <1>4 DEF Builtin!RestoreUser, Builtin!Restored, NothingToRestore
  <2>2. row' \in [Builtin!Table -> Builtin!RowState] /\ RowsTogether'
    BY <1>1, <2>1 DEF RowsTogether, Builtin!RowState
  <2> QED
    BY <1>1, <1>2, <2>1, <2>2, JobMoves, JobKeeps
<1>5. CASE Builtin!ChooseUsername(p)
  <2>1. UNCHANGED <<row, other, starts, deleted>> /\ RowsTogether'
    BY <1>1, <1>5 DEF Builtin!ChooseUsername, RowsTogether
  <2>2. n < Attempts
    BY <1>1, <1>5 DEF Builtin!ChooseUsername, AttemptLeft
  <2>3. JobGoes(p, "create", n)
    BY <1>1, <1>5 DEF Builtin!ChooseUsername, JobGoes, Builtin!AbTypeOK, Builtin!EnsureRec
  <2> QED
    BY <1>1, <1>2, <2>1, <2>2, <2>3, JobKeeps
<1>6. CASE Builtin!CommitAdmin(p) /\ row' = Builtin!Created /\ Builtin!Goto(p, "done")
  <2>1. UNCHANGED <<other, starts, deleted>>
    BY <1>6 DEF Builtin!CommitAdmin
  <2>2. row' \in [Builtin!Table -> Builtin!RowState]
    BY <1>1, <1>6 DEF Builtin!Created, Builtin!RowState
  <2>3. ~deleted => \A t \in Builtin!Table : row'[t] = "live"
    BY <1>1, <1>6 DEF Builtin!Created, RowsTogether
  <2>4. RowsTogether'
    BY <2>1, <2>3 DEF RowsTogether
  <2> QED
    BY <1>1, <1>2, <1>6, <2>1, <2>2, <2>3, <2>4, JobMoves, JobKeeps
<1>7. CASE /\ Builtin!Fails(p) /\ ensure[p].pc \in {"restore", "begin", "create"}
           /\ UNCHANGED <<row, other, starts, deleted>>
  <2>1. RowsTogether'
    BY <1>1, <1>7 DEF RowsTogether
  <2>2. \/ JobGoes(p, "waiting", n + 1) /\ n + 1 < Attempts
        \/ JobGoes(p, "failed", n + 1)
    BY <1>1, <1>7, JobFails
  <2> QED
    BY <1>1, <1>2, <1>7, <2>1, <2>2, JobKeeps
<1> QED
  BY <1>3, <1>4, <1>5, <1>6, <1>7 DEF Builtin!CommitAdmin, Builtin!EnsureFails

LEMMA BootstrapSteps ==
  ASSUME BootstrapInv, [Builtin!AbNext]_(Builtin!abVars)
  PROVE  BootstrapInv'
<1>1. ASSUME NEW p \in Proc, Builtin!OnModuleInit(p) PROVE BootstrapInv'
  <2>1. /\ UNCHANGED <<row, other, deleted>> /\ starts' \in 0..MaxStarts
        /\ RowsTogether' /\ row \in [Builtin!Table -> Builtin!RowState]
    BY <1>1, BootstrapAssumption
    DEF Builtin!OnModuleInit, BootstrapInv, Builtin!AbTypeOK, RowsTogether
  <2>2. CASE ensure' = ensure
    BY <2>1, <2>2 DEF BootstrapInv, Builtin!AbTypeOK, RowsTogether, NothingToRestore,
       AttemptLeft, Builtin!BootstrapLeavesAdmin
  <2>3. CASE ensure' = [ensure EXCEPT ![p] = [Builtin!Idle EXCEPT !.pc = "waiting"]]
    <3>1. JobGoes(p, "waiting", 0) /\ ensure' = [ensure EXCEPT ![p] = ensure'[p]]
      BY <2>3, BootstrapAssumption
      DEF BootstrapInv, Builtin!AbTypeOK, JobGoes, Builtin!EnsureRec, Builtin!Pc, Builtin!Idle
    <3> QED
      BY <2>1, <3>1, JobKeeps, BootstrapAssumption
  <2> QED
    BY <1>1, <2>2, <2>3 DEF Builtin!OnModuleInit
<1>2. CASE Builtin!DeleteOpUser
  <2>1. deleted' /\ UNCHANGED <<other, ensure, starts>>
        /\ row' \in [Builtin!Table -> Builtin!RowState]
    BY <1>2 DEF Builtin!DeleteOpUser, BootstrapInv, Builtin!AbTypeOK, Builtin!RowState
  <2> QED
    BY <2>1 DEF BootstrapInv, Builtin!AbTypeOK, RowsTogether, NothingToRestore, AttemptLeft,
       Builtin!BootstrapLeavesAdmin
<1>3. CASE Builtin!CreateOther \/ UNCHANGED Builtin!abVars
  <2>1. UNCHANGED <<row, ensure, starts, deleted>> /\ other' \in BOOLEAN
    BY <1>3 DEF Builtin!CreateOther, Builtin!abVars, BootstrapInv, Builtin!AbTypeOK
  <2> QED
    BY <2>1 DEF BootstrapInv, Builtin!AbTypeOK, RowsTogether, NothingToRestore, AttemptLeft,
       Builtin!BootstrapLeavesAdmin
<1> QED
  BY <1>1, <1>2, <1>3, JobSteps DEF Builtin!AbNext

(* A finished bootstrap leaves an administrator who can log in, whatever     *)
(* other processes did meanwhile, unless somebody deleted it.                *)
THEOREM BootstrapIsSafe ==
  Builtin!AbSpec => [](Builtin!AbTypeOK /\ Builtin!BootstrapLeavesAdmin)
<1>1. BootstrapInv => Builtin!AbTypeOK /\ Builtin!BootstrapLeavesAdmin
  BY DEF BootstrapInv
<1> QED
  BY <1>1, BootstrapInit, BootstrapSteps, PTL DEF Builtin!AbSpec

-----------------------------------------------------------------------------
(* Departments.  Nothing is said once operations have overlapped; until then *)
(* only one is in progress, and what it has seen is still so.                *)
OneEdit == \A e, f \in Proc : e # f => edit[e].pc = "idle" \/ edit[f].pc = "idle"

ParentsExist == \A d \in Dept : Depts!Row(d) => parent[d] = "root" \/ Depts!Row(parent[d])
MembersPlaced ==
  \A m \in {m1} \ unchecked : memberOf[m] # None => Depts!Row(memberOf[m])
PathsHold == \A d \in Dept : Depts!Row(d) => path[d] = Depts!Ancestors(d)

(* The part of the closure table that answers for one department, and        *)
(* whether an operation is between taking it away and putting it back.       *)
Linked(d) == {c \in closure : c[2] = d}
Resyncing(d) ==
  \E e \in Proc : edit[e].dept = d /\ edit[e].pc \in {"clear", "insert", "remove"}
InOrder(d) == Linked(d) = IF Depts!Row(d) THEN path[d] \X {d} ELSE {}
ClosureHolds == \A d \in Dept : d \notin torn /\ ~Resyncing(d) => InOrder(d)

EditsADept == \A e \in Proc : edit[e].pc # "idle" => edit[e].dept \in Dept

(* What the operation of e has made sure of. *)
Seen(e) ==
  LET o == edit[e] IN
  /\ o.op = "create" /\ o.pc \in {"find", "save"} => parent[o.dept] = "none"
  /\ o.op = "create" /\ o.pc = "save" =>
       IF o.parent = "root" THEN o.path = {o.dept}
       ELSE Depts!Row(o.parent) /\ o.path = path[o.parent] \cup {o.dept}
  /\ o.op # "create" /\ o.pc = "save" =>
       Depts!Row(o.dept) /\ o.parent = parent[o.dept] /\ o.path = path[o.dept]
  /\ o.pc \in {"clear", "insert"} => Depts!Row(o.dept) /\ o.path = path[o.dept]
  /\ o.pc \in {"insert", "remove"} => Linked(o.dept) = {}
  /\ o.pc \in {"members", "unlink", "remove"} => \A d \in Dept : parent[d] # o.dept
  /\ o.pc \in {"unlink", "remove"} => \A m \in {m1} : memberOf[m] # o.dept

TreeSound ==
  /\ OneEdit /\ ParentsExist /\ MembersPlaced /\ PathsHold /\ ClosureHolds
  /\ \A e \in Proc : Seen(e)

TreeInv ==
  /\ Depts!DpTypeOK /\ EditsADept
  /\ ~raced => TreeSound

(* An operation goes on with r. *)
EditBecomes(e, r) ==
  /\ r \in Depts!EditRec
  /\ r.pc # "idle" => r.dept \in Dept
  /\ edit' = [edit EXCEPT ![e] = r]

LEMMA EditTyped ==
  ASSUME Depts!DpTypeOK, EditsADept, NEW e \in Proc, NEW r, EditBecomes(e, r)
  PROVE  /\ edit'[e] = r /\ \A f \in Proc : f # e => edit'[f] = edit[f]
         /\ edit' \in [Proc -> Depts!EditRec] /\ EditsADept'
BY DEF Depts!DpTypeOK, EditsADept, EditBecomes

LEMMA EditStops ==
  ASSUME NEW e \in Proc, Depts!Stop(e)
  PROVE  EditBecomes(e, Depts!IdleEdit) /\ Depts!IdleEdit.pc = "idle"
BY DEF Depts!Stop, EditBecomes, Depts!IdleEdit, Depts!EditRec, Depts!Root

LEMMA EditGoes ==
  ASSUME Depts!DpTypeOK, EditsADept, NEW e \in Proc, edit[e].pc # "idle",
         NEW pc \in {"find", "save", "clear", "insert", "children", "members", "unlink",
                     "remove"},
         Depts!Goto(e, pc)
  PROVE  \E r : /\ EditBecomes(e, r) /\ r.pc = pc /\ r.dept = edit[e].dept
               /\ r.op = edit[e].op /\ r.parent = edit[e].parent /\ r.path = edit[e].path
<1> DEFINE r == [edit[e] EXCEPT !.pc = pc]
<1>1. /\ EditBecomes(e, r) /\ r.pc = pc /\ r.dept = edit[e].dept
      /\ r.op = edit[e].op /\ r.parent = edit[e].parent /\ r.path = edit[e].path
  BY DEF Depts!DpTypeOK, EditsADept, EditBecomes, Depts!Goto, Depts!EditRec
<1> QED
  BY <1>1

(* An operation on its own may say what it has seen. *)
LEMMA EditKeeps ==
  ASSUME Depts!DpTypeOK, Depts!DpTypeOK', EditsADept, OneEdit,
         NEW e \in Proc, NEW r, EditBecomes(e, r),
         \A f \in Proc : f # e => edit[f].pc = "idle",
         ParentsExist', MembersPlaced', PathsHold', ClosureHolds', Seen(e)'
  PROVE  TreeInv'
<1>1. /\ edit'[e] = r /\ EditsADept' /\ \A f \in Proc : f # e => edit'[f].pc = "idle"
  BY EditTyped
<1>2. OneEdit'
  BY <1>1 DEF OneEdit
<1>3. \A f \in Proc : Seen(f)'
  BY <1>1 DEF Seen
<1> QED
  BY <1>1, <1>2, <1>3 DEF TreeInv, TreeSound

LEMMA TreeStays ==
  ASSUME UNCHANGED <<parent, path>>
  PROVE  /\ \A d : Depts!Row(d)' <=> Depts!Row(d)
         /\ \A d : Depts!Ancestors(d)' = Depts!Ancestors(d)
         /\ ParentsExist <=> ParentsExist'
         /\ PathsHold <=> PathsHold'
<1>1. \A d : Depts!Row(d)' <=> Depts!Row(d)
  BY DEF Depts!Row
<1>2. \A d : Depts!Ancestors(d)' = Depts!Ancestors(d)
  BY <1>1 DEF Depts!Ancestors, Depts!ClosedUp, Depts!Root
<1> QED
  BY <1>1, <1>2 DEF ParentsExist, PathsHold

(* No other operation is in progress beside that of e. *)
Alone(e) == \A f \in Proc : f # e => edit[f].pc = "idle"

LEMMA BusyIsAlone ==
  ASSUME OneEdit, NEW e \in Proc, edit[e].pc # "idle"
  PROVE  Alone(e)
BY DEF OneEdit, Alone

(* A step of an operation on its own that leaves the rows alone and keeps    *)
(* its resyncing to itself.                                                  *)
LEMMA EditOnly ==
  ASSUME Depts!DpTypeOK, EditsADept, TreeSound, NEW e \in Proc, NEW r, EditBecomes(e, r),
         Alone(e), UNCHANGED <<parent, path, memberOf, closure, torn, unchecked>>,
         raced' \in BOOLEAN,
         r.pc \notin {"clear", "insert", "remove"},
         edit[e].pc \notin {"clear", "insert", "remove"},
         Seen(e)'
  PROVE  TreeInv'
<1>1. Depts!DpTypeOK' /\ edit'[e] = r /\ \A f \in Proc : f # e => edit'[f] = edit[f]
  BY EditTyped DEF Depts!DpTypeOK
<1>2. ParentsExist' /\ PathsHold' /\ MembersPlaced'
  BY TreeStays DEF TreeSound, MembersPlaced
<1>3. ClosureHolds'
  <2> SUFFICES ASSUME NEW d \in Dept, d \notin torn, ~Resyncing(d)' PROVE InOrder(d)'
    BY DEF ClosureHolds
  <2>1. ~Resyncing(d)
    BY <1>1 DEF Resyncing, Alone
  <2>2. InOrder(d) /\ Linked(d)' = Linked(d)
    BY <2>1 DEF TreeSound, ClosureHolds, Linked
  <2> QED
    BY <2>2, TreeStays DEF InOrder
<1> QED
  BY <1>1, <1>2, <1>3, EditKeeps DEF TreeSound, Alone

(* Once operations have overlapped only the types are left. *)
LEMMA Overlapped ==
  ASSUME Depts!DpTypeOK, EditsADept, NEW e \in Proc, NEW r, EditBecomes(e, r),
         parent' \in [Dept -> Dept \cup {"root", "none", "deleted"}],
         path' \in [Dept -> SUBSET Dept],
         closure' \in SUBSET (Dept \X Dept),
         memberOf' \in [{m1} -> Dept \cup {None}],
         torn' \in SUBSET Dept, raced' \in BOOLEAN, unchecked' \in SUBSET {m1}
  PROVE  Depts!DpTypeOK' /\ EditsADept' /\ (raced' => TreeInv')
BY EditTyped DEF Depts!DpTypeOK, TreeInv, Depts!Root

-----------------------------------------------------------------------------
LEMMA BeginSteps ==
  ASSUME TreeInv, NEW e \in Proc, NEW o \in {"create", "update", "delete"}, NEW d \in Dept,
         NEW p \in Dept \cup {"root"}, Depts!Begin(e, o, d, p),
         o = "create" => parent[d] = "none"
  PROVE  TreeInv'
<1> DEFINE r == [pc |-> "find", op |-> o, dept |-> d, parent |-> p, path |-> {}]
<1>1. /\ Depts!DpTypeOK /\ EditsADept /\ edit[e].pc = "idle"
      /\ UNCHANGED <<parent, path, memberOf, closure, torn, unchecked>>
      /\ raced' = (raced \/ \E f \in Proc \ {e} : edit[f].pc # "idle")
  BY DEF Depts!Begin, Depts!Busy, TreeInv, Depts!dpRows
<1>2. r \in Depts!EditRec /\ r.pc = "find" /\ r.dept = d /\ r.op = o
  BY DEF Depts!EditRec, Depts!Root
<1>3. edit' = [edit EXCEPT ![e] = r]
  BY DEF Depts!Begin
<1> HIDE DEF r
<1>4. EditBecomes(e, r) /\ edit'[e] = r /\ raced' \in BOOLEAN
  BY <1>1, <1>2, <1>3, EditTyped DEF EditBecomes, Depts!DpTypeOK
<1>5. CASE raced'
  BY <1>1, <1>4, <1>5, Overlapped DEF Depts!DpTypeOK, Depts!Root
<1>6. CASE ~raced'
  <2>1. TreeSound /\ Alone(e)
    BY <1>1, <1>6 DEF TreeInv, Alone
  <2>2. Seen(e)'
    BY <1>1, <1>2, <1>4 DEF Seen
  <2> QED
    BY <1>1, <1>2, <1>4, <2>1, <2>2, EditOnly
<1> QED
  BY <1>5, <1>6

LEMMA FindSteps ==
  ASSUME TreeInv, NEW e \in Proc, Depts!FindDept(e)
  PROVE  TreeInv'
<1> DEFINE o == edit[e]
<1>1. /\ Depts!DpTypeOK /\ EditsADept /\ o.pc = "find" /\ o \in Depts!EditRec
      /\ UNCHANGED <<parent, path, memberOf, closure, torn, raced, unchecked>>
      /\ o.dept \in Dept /\ raced \in BOOLEAN
  BY DEF Depts!FindDept, TreeInv, Depts!dpRows, Depts!dpNotes, Depts!DpTypeOK, EditsADept
<1>2. PICK r : /\ EditBecomes(e, r) /\ r.pc \in {"idle", "save", "children"}
               /\ r.pc = "save" =>
                    /\ r.op = o.op /\ r.dept = o.dept
                    /\ o.op = "create" =>
                         /\ r.parent = o.parent
                         /\ IF o.parent = "root" THEN r.path = {o.dept}
                            ELSE /\ Depts!Row(o.parent)
                                 /\ r.path = path[o.parent] \cup {o.dept}
                    /\ o.op # "create" => /\ Depts!Row(o.dept) /\ r.parent = parent[o.dept]
                                          /\ r.path = path[o.dept]
  <2>1. CASE Depts!Stop(e)
    BY <2>1, EditStops
  <2>2. CASE Depts!Goto(e, "children")
    BY <1>1, <2>2, EditGoes
  <2>3. CASE /\ o.op = "create" /\ o.parent = "root"
             /\ edit' = [edit EXCEPT ![e].pc = "save", ![e].path = {o.dept}]
    <3> DEFINE r == [[o EXCEPT !.pc = "save"] EXCEPT !.path = {o.dept}]
    <3>1. /\ r \in Depts!EditRec /\ r.pc = "save" /\ r.op = o.op /\ r.dept = o.dept
          /\ r.parent = o.parent /\ r.path = {o.dept}
      BY <1>1 DEF Depts!EditRec
    <3>2. edit' = [edit EXCEPT ![e] = r]
      BY <1>1, <2>3 DEF Depts!DpTypeOK
    <3> HIDE DEF r
    <3> QED
      BY <1>1, <2>3, <3>1, <3>2 DEF EditBecomes
  <2>4. CASE /\ o.op = "create" /\ o.parent # "root" /\ Depts!Row(o.parent)
             /\ edit' = [edit EXCEPT ![e].pc = "save", ![e].path = path[o.parent] \cup {o.dept}]
    <3> DEFINE r == [[o EXCEPT !.pc = "save"] EXCEPT !.path = path[o.parent] \cup {o.dept}]
    <3>1. o.parent \in Dept /\ path[o.parent] \cup {o.dept} \in SUBSET Dept
      BY <1>1, <2>4 DEF Depts!DpTypeOK, Depts!EditRec, Depts!Root
    <3>2. /\ r \in Depts!EditRec /\ r.pc = "save" /\ r.op = o.op /\ r.dept = o.dept
          /\ r.parent = o.parent /\ r.path = path[o.parent] \cup {o.dept}
      BY <1>1, <3>1 DEF Depts!EditRec
    <3>3. edit' = [edit EXCEPT ![e] = r]
      BY <1>1, <2>4 DEF Depts!DpTypeOK
    <3> HIDE DEF r
    <3> QED
      BY <1>1, <2>4, <3>2, <3>3 DEF EditBecomes
  <2>5. CASE /\ o.op = "update" /\ Depts!Row(o.dept)
             /\ edit' = [edit EXCEPT ![e].pc = "save", ![e].path = path[o.dept],
                                     ![e].parent = parent[o.dept]]
    <3> DEFINE r == [[[o EXCEPT !.pc = "save"] EXCEPT !.path = path[o.dept]]
                        EXCEPT !.parent = parent[o.dept]]
    <3>1. parent[o.dept] \in Dept \cup {"root"} /\ path[o.dept] \in SUBSET Dept
      BY <1>1, <2>5 DEF Depts!DpTypeOK, Depts!Root, Depts!Row
    <3>2. /\ r \in Depts!EditRec /\ r.pc = "save" /\ r.op = o.op /\ r.dept = o.dept
          /\ r.parent = parent[o.dept] /\ r.path = path[o.dept]
      BY <1>1, <3>1 DEF Depts!EditRec, Depts!Root
    <3>3. edit' = [edit EXCEPT ![e] = r]
      BY <1>1, <2>5 DEF Depts!DpTypeOK
    <3> HIDE DEF r
    <3> QED
      BY <1>1, <2>5, <3>2, <3>3 DEF EditBecomes
  <2> QED
    BY <2>1, <2>2, <2>3, <2>4, <2>5 DEF Depts!FindDept, Depts!Root
<1>3. CASE raced
  BY <1>1, <1>2, <1>3, Overlapped DEF Depts!DpTypeOK, Depts!Root
<1>4. CASE ~raced
  <2>1. TreeSound /\ Alone(e) /\ Seen(e)
    BY <1>1, <1>4, BusyIsAlone DEF TreeInv, TreeSound
  <2>2. edit'[e] = r
    BY <1>1, <1>2, EditTyped
  <2>3. Seen(e)'
    BY <1>1, <1>2, <2>1, <2>2, TreeStays DEF Seen
  <2> QED
    BY <1>1, <1>2, <2>1, <2>3, EditOnly
<1> QED
  BY <1>3, <1>4

-----------------------------------------------------------------------------
(* Ancestors, while a department without children comes, goes or moves.      *)
Leaf(d) == \A y \in Dept \ {d} : Depts!Row(y) => parent[y] # d

LEMMA LeafAside ==
  ASSUME NEW d \in Dept, Leaf(d), NEW S \in SUBSET Dept,
         \A y \in Dept \ {d} : parent'[y] = parent[y]
  PROVE  /\ Depts!ClosedUp(S) => Depts!ClosedUp(S \ {d})'
         /\ Depts!ClosedUp(S)' => Depts!ClosedUp(S \ {d})
BY DEF Leaf, Depts!ClosedUp, Depts!Row, Depts!Root

LEMMA OthersStay ==
  ASSUME NEW d \in Dept, Leaf(d), \A y \in Dept \ {d} : parent'[y] = parent[y],
         NEW x \in Dept, x # d
  PROVE  Depts!Ancestors(x)' = Depts!Ancestors(x)
<1>1. ASSUME NEW a \in Depts!Ancestors(x)' PROVE a \in Depts!Ancestors(x)
  <2> SUFFICES ASSUME NEW S \in SUBSET Dept, x \in S, Depts!ClosedUp(S) PROVE a \in S
    BY <1>1 DEF Depts!Ancestors
  <2>1. S \ {d} \in SUBSET Dept /\ x \in S \ {d} /\ Depts!ClosedUp(S \ {d})'
    BY LeafAside
  <2> QED
    BY <1>1, <2>1 DEF Depts!Ancestors
<1>2. ASSUME NEW a \in Depts!Ancestors(x) PROVE a \in Depts!Ancestors(x)'
  <2> SUFFICES ASSUME NEW S \in SUBSET Dept, x \in S, Depts!ClosedUp(S)' PROVE a \in S
    BY <1>2 DEF Depts!Ancestors
  <2>1. S \ {d} \in SUBSET Dept /\ x \in S \ {d} /\ Depts!ClosedUp(S \ {d})
    BY LeafAside
  <2> QED
    BY <1>2, <2>1 DEF Depts!Ancestors
<1> QED
  BY <1>1, <1>2

LEMMA LeafNotAbove ==
  ASSUME Depts!DpTypeOK, NEW d \in Dept, Leaf(d), NEW x \in Dept, x # d
  PROVE  d \notin Depts!Ancestors(x)
<1>1. Depts!ClosedUp(Dept \ {d})
  BY DEF Depts!ClosedUp, Depts!DpTypeOK, Depts!Row, Depts!Root, Leaf
<1>2. Dept \ {d} \in SUBSET Dept /\ x \in Dept \ {d}
  OBVIOUS
<1> QED
  BY <1>1, <1>2 DEF Depts!Ancestors

LEMMA NewBelow ==
  ASSUME Depts!DpTypeOK, NEW d \in Dept, Leaf(d), parent[d] = "none",
         NEW p \in Dept \cup {"root"}, p # "root" => Depts!Row(p),
         parent' = [parent EXCEPT ![d] = p]
  PROVE  Depts!Ancestors(d)' = IF p = "root" THEN {d} ELSE Depts!Ancestors(p) \cup {d}
<1>1. parent'[d] = p /\ \A y \in Dept \ {d} : parent'[y] = parent[y]
  BY DEF Depts!DpTypeOK
<1>2. d \in Depts!Ancestors(d)'
  BY DEF Depts!Ancestors
<1>3. CASE p = "root"
  <2>1. Depts!ClosedUp({d})'
    BY <1>1, <1>3 DEF Depts!ClosedUp, Depts!Root
  <2> QED
    BY <1>2, <1>3, <2>1 DEF Depts!Ancestors
<1>4. CASE p # "root"
  <2>1. p \in Dept /\ p # d
    BY <1>4 DEF Depts!Row
  <2>2. Depts!Ancestors(p)' = Depts!Ancestors(p)
    BY <1>1, <2>1, OthersStay
  <2>3. Depts!Row(d)'
    BY <1>1, <2>1, DeptAssumption DEF Depts!Row
  <2>4. ASSUME NEW a \in Depts!Ancestors(p)' PROVE a \in Depts!Ancestors(d)'
    <3> SUFFICES ASSUME NEW S \in SUBSET Dept, d \in S, Depts!ClosedUp(S)' PROVE a \in S
      BY <2>4 DEF Depts!Ancestors
    <3>1. p \in S
      BY <1>1, <1>4, <2>3 DEF Depts!ClosedUp, Depts!Root
    <3> QED
      BY <2>4, <3>1 DEF Depts!Ancestors
  <2>5. ASSUME NEW a \in Depts!Ancestors(d)', a # d PROVE a \in Depts!Ancestors(p)'
    <3> SUFFICES ASSUME NEW S \in SUBSET Dept, p \in S, Depts!ClosedUp(S)' PROVE a \in S
      BY <2>5 DEF Depts!Ancestors
    <3>1. S \cup {d} \in SUBSET Dept /\ Depts!ClosedUp(S \cup {d})'
      BY <1>1 DEF Depts!ClosedUp
    <3> QED
      BY <2>5, <3>1 DEF Depts!Ancestors
  <2> QED
    BY <1>2, <1>4, <2>2, <2>4, <2>5
<1> QED
  BY <1>3, <1>4

LEMMA SaveSteps ==
  ASSUME TreeInv, NEW e \in Proc, Depts!SaveDept(e)
  PROVE  TreeInv'
<1> SUFFICES ASSUME NEW o, o = edit[e], NEW d, d = o.dept PROVE TreeInv'
  OBVIOUS
<1>1. /\ Depts!DpTypeOK /\ EditsADept /\ o.pc = "save" /\ o \in Depts!EditRec /\ d \in Dept
      /\ parent' = [parent EXCEPT ![d] = o.parent] /\ path' = [path EXCEPT ![d] = o.path]
      /\ Depts!Goto(e, "clear") /\ UNCHANGED <<closure, memberOf, torn, raced, unchecked>>
  BY DEF Depts!SaveDept, TreeInv, Depts!DpTypeOK, EditsADept, Depts!dpNotes
<1>2. PICK r : /\ EditBecomes(e, r) /\ r.pc = "clear" /\ r.dept = d /\ r.op = o.op
               /\ r.path = o.path
  BY <1>1, EditGoes
<1>3. /\ edit'[e] = r /\ \A f \in Proc : f # e => edit'[f] = edit[f]
      /\ parent[d] \in Dept \cup {"root", "none", "deleted"}
      /\ o.parent \in Dept \cup {"root"} /\ o.path \in SUBSET Dept
      /\ parent' \in [Dept -> Dept \cup {"root", "none", "deleted"}]
      /\ path' \in [Dept -> SUBSET Dept]
      /\ parent'[d] = o.parent /\ path'[d] = o.path
      /\ \A x \in Dept \ {d} : parent'[x] = parent[x] /\ path'[x] = path[x]
  BY <1>1, <1>2, EditTyped DEF Depts!DpTypeOK, Depts!EditRec, Depts!Root
<1>4. Depts!DpTypeOK' /\ EditsADept' /\ (raced => TreeInv')
  BY <1>1, <1>2, <1>3, Overlapped DEF Depts!DpTypeOK
<1> SUFFICES ASSUME ~raced PROVE TreeInv'
  BY <1>4
<1>5. TreeSound /\ Alone(e) /\ Seen(e)
  BY <1>1, BusyIsAlone DEF TreeInv, TreeSound
<1>6. Depts!Row(d)' /\ \A x \in Dept : Depts!Row(x) => Depts!Row(x)'
  <2>1. Depts!Row(d)'
    <3>1. o.parent \notin {"none", "deleted"}
      BY <1>3, DeptAssumption
    <3> QED
      BY <1>3, <3>1 DEF Depts!Row
  <2> QED
    BY <1>3, <2>1 DEF Depts!Row
<1>7. ParentsExist' /\ PathsHold'
  <2>1. CASE o.op = "create"
    <3>1. /\ parent[d] = "none"
          /\ IF o.parent = "root" THEN o.path = {d}
             ELSE Depts!Row(o.parent) /\ o.path = path[o.parent] \cup {d}
      BY <1>1, <1>5, <2>1 DEF Seen
    <3>2. ~Depts!Row(d) /\ Leaf(d)
      BY <1>1, <1>5, <3>1, DeptAssumption DEF Leaf, TreeSound, ParentsExist, Depts!Row
    <3>3. \A x \in Dept \ {d} : Depts!Ancestors(x)' = Depts!Ancestors(x)
      BY <1>1, <1>3, <3>2, OthersStay
    <3>4. Depts!Ancestors(d)' = IF o.parent = "root" THEN {d}
                               ELSE Depts!Ancestors(o.parent) \cup {d}
      <4>1. o.parent # "root" => Depts!Row(o.parent)
        BY <3>1
      <4> QED
        BY <1>1, <1>3, <3>1, <3>2, <4>1, NewBelow
    <3>5. path'[d] = Depts!Ancestors(d)'
      BY <1>3, <1>5, <3>1, <3>4 DEF TreeSound, PathsHold
    <3>6. \A x \in Dept \ {d} : Depts!Row(x)' => Depts!Row(x)
      BY <1>3 DEF Depts!Row
    <3>7. PathsHold'
      BY <1>3, <1>5, <3>3, <3>5, <3>6 DEF TreeSound, PathsHold
    <3>8. ParentsExist'
      <4> SUFFICES ASSUME NEW x \in Dept, Depts!Row(x)', NEW y, y = parent'[x], y # "root"
                   PROVE  Depts!Row(y)'
        BY DEF ParentsExist
      <4>1. Depts!Row(y) /\ y \in Dept
        <5>1. CASE x = d
          BY <1>3, <3>1, <5>1
        <5>2. CASE x # d
          <6>1. Depts!Row(x) /\ parent'[x] = parent[x]
            BY <1>3, <3>6, <5>2
          <6> QED
            BY <1>1, <1>5, <6>1 DEF TreeSound, ParentsExist, Depts!DpTypeOK, Depts!Row, Depts!Root
        <5> QED
          BY <5>1, <5>2
      <4> QED
        BY <1>6, <4>1
    <3> QED
      BY <3>7, <3>8
  <2>2. CASE o.op # "create"
    <3>1. o.parent = parent[d] /\ o.path = path[d]
      BY <1>1, <1>5, <2>2 DEF Seen
    <3>2. UNCHANGED <<parent, path>>
      BY <1>1, <3>1 DEF Depts!DpTypeOK
    <3> QED
      BY <1>5, <3>2, TreeStays DEF TreeSound
  <2> QED
    BY <2>1, <2>2
<1>8. MembersPlaced'
  BY <1>1, <1>5, <1>6 DEF TreeSound, MembersPlaced, Depts!DpTypeOK
<1>9. ClosureHolds'
  <2> SUFFICES ASSUME NEW x \in Dept, x \notin torn, ~Resyncing(x)' PROVE InOrder(x)'
    BY <1>1 DEF ClosureHolds
  <2>1. x # d /\ (Depts!Row(x)' <=> Depts!Row(x)) /\ path'[x] = path[x]
    BY <1>2, <1>3 DEF Resyncing, Depts!Row
  <2>2. ~Resyncing(x)
    BY <1>1, <1>3, <1>5 DEF Resyncing, Alone
  <2>3. InOrder(x) /\ Linked(x)' = Linked(x)
    BY <1>1, <1>5, <2>2 DEF TreeSound, ClosureHolds, Linked
  <2> QED
    BY <2>1, <2>3 DEF InOrder
<1>10. Seen(e)'
  BY <1>2, <1>3, <1>6 DEF Seen
<1> QED
  BY <1>1, <1>2, <1>4, <1>5, <1>7, <1>8, <1>9, <1>10, EditKeeps DEF TreeSound, Alone

-----------------------------------------------------------------------------
(* A step of an operation on its own that changes the closure, or the notes  *)
(* on it, of the department it is about, and leaves the others' in order.    *)
LEMMA RelinkKeeps ==
  ASSUME Depts!DpTypeOK, EditsADept, TreeSound, NEW e \in Proc, NEW r, EditBecomes(e, r),
         Alone(e), UNCHANGED <<parent, path, memberOf, unchecked>>,
         NEW d \in Dept, d = edit[e].dept,
         closure' \in SUBSET (Dept \X Dept), torn' \in SUBSET Dept, raced' \in BOOLEAN,
         \A x \in Dept \ {d} :
           /\ x \in torn => x \in torn'
           /\ InOrder(x) => InOrder(x)',
         \/ d \in torn'
         \/ r.dept = d /\ r.pc \in {"clear", "insert", "remove"}
         \/ InOrder(d)',
         r.pc # "idle" => r.dept = d,
         Seen(e)'
  PROVE  TreeInv'
<1>1. Depts!DpTypeOK' /\ edit'[e] = r /\ \A f \in Proc : f # e => edit'[f] = edit[f]
  BY EditTyped DEF Depts!DpTypeOK
<1>2. ParentsExist' /\ PathsHold' /\ MembersPlaced'
  BY TreeStays DEF TreeSound, MembersPlaced
<1>3. ClosureHolds'
  <2> SUFFICES ASSUME NEW x \in Dept, x \notin torn', ~Resyncing(x)' PROVE InOrder(x)'
    BY DEF ClosureHolds
  <2>1. CASE x = d
    BY <1>1, <2>1 DEF Resyncing
  <2>2. CASE x # d
    <3>1. ~Resyncing(x) /\ x \notin torn
      BY <1>1, <2>2 DEF Resyncing, Alone
    <3> QED
      BY <2>2, <3>1 DEF TreeSound, ClosureHolds
  <2> QED
    BY <2>1, <2>2
<1> QED
  BY <1>1, <1>2, <1>3, EditKeeps DEF TreeSound, Alone

LEMMA ClearSteps ==
  ASSUME TreeInv, NEW e \in Proc, Depts!ClearClosure(e)
  PROVE  TreeInv'
<1> SUFFICES ASSUME NEW d, d = edit[e].dept PROVE TreeInv'
  OBVIOUS
<1>1. /\ Depts!DpTypeOK /\ EditsADept /\ edit[e].pc = "clear" /\ d \in Dept
      /\ closure' = {c \in closure : c[2] # d} /\ closure \in SUBSET (Dept \X Dept)
      /\ Depts!Goto(e, "insert") /\ UNCHANGED <<parent, path, memberOf, torn, raced, unchecked>>
  BY DEF Depts!ClearClosure, TreeInv, Depts!DpTypeOK, EditsADept, Depts!dpNotes, Depts!dpRows
<1>2. PICK r : /\ EditBecomes(e, r) /\ r.pc = "insert" /\ r.dept = d
               /\ r.path = edit[e].path
  BY <1>1, EditGoes
<1>3. CASE raced
  BY <1>1, <1>2, <1>3, Overlapped DEF Depts!DpTypeOK, Depts!Root
<1>4. CASE ~raced
  <2>1. TreeSound /\ Alone(e) /\ Seen(e)
    BY <1>1, <1>4, BusyIsAlone DEF TreeInv, TreeSound
  <2>2. edit'[e] = r
    BY <1>1, <1>2, EditTyped
  <2>3. Linked(d)' = {} /\ \A x \in Dept \ {d} : Linked(x)' = Linked(x)
    BY <1>1 DEF Linked
  <2>6. \A x \in Dept \ {d} : InOrder(x) => InOrder(x)'
    BY <1>1, <2>3, TreeStays DEF InOrder
  <2>4. Depts!Row(d)' /\ r.path = path[d]
    BY <1>1, <1>2, <2>1, TreeStays DEF Seen
  <2>5. Seen(e)'
    BY <1>1, <1>2, <2>2, <2>3, <2>4 DEF Seen
  <2> QED
    BY <1>1, <1>2, <2>1, <2>5, <2>6, RelinkKeeps DEF Depts!DpTypeOK
<1> QED
  BY <1>3, <1>4

(* What an update, or a create, leaves of a department it synced. *)
LEMMA Relinked ==
  ASSUME Depts!DpTypeOK, NEW e \in Proc, Depts!InsertClosure(e), Seen(e),
         NEW d \in Dept, d = edit[e].dept
  PROVE  /\ Linked(d)' = path[d] \X {d} /\ Depts!Row(d)
         /\ \A x \in Dept \ {d} : Linked(x)' = Linked(x)
<1>1. /\ Linked(d) = {} /\ edit[e].path = path[d] /\ Depts!Row(d)
  BY DEF Depts!InsertClosure, Seen
<1>2. (path[d] \X {d}) \cap closure = {}
  BY <1>1 DEF Linked
<1>3. closure' = closure \cup (path[d] \X {d})
  BY <1>1, <1>2 DEF Depts!InsertClosure
<1> QED
  BY <1>1, <1>3 DEF Linked

LEMMA InsertSteps ==
  ASSUME TreeInv, NEW e \in Proc, Depts!InsertClosure(e)
  PROVE  TreeInv'
<1> SUFFICES ASSUME NEW d, d = edit[e].dept PROVE TreeInv'
  OBVIOUS
<1>1. /\ Depts!DpTypeOK /\ EditsADept /\ edit[e].pc = "insert" /\ d \in Dept
      /\ edit[e].path \in SUBSET Dept /\ closure \in SUBSET (Dept \X Dept)
      /\ torn' = torn \ {d} /\ Depts!Stop(e) /\ UNCHANGED <<parent, path, memberOf, raced, unchecked>>
  BY DEF Depts!InsertClosure, TreeInv, Depts!DpTypeOK, EditsADept, Depts!dpRows, Depts!EditRec
<1>2. closure' \in SUBSET (Dept \X Dept) /\ torn' \in SUBSET Dept
  BY <1>1 DEF Depts!InsertClosure, Depts!DpTypeOK
<1>3. PICK r : EditBecomes(e, r) /\ r.pc = "idle"
  BY <1>1, EditStops
<1>4. CASE raced
  BY <1>1, <1>2, <1>3, <1>4, Overlapped DEF Depts!DpTypeOK, Depts!Root
<1>5. CASE ~raced
  <2>1. TreeSound /\ Alone(e) /\ Seen(e)
    BY <1>1, <1>5, BusyIsAlone DEF TreeInv, TreeSound
  <2>2. Seen(e)'
    BY <1>1, <1>3, EditTyped DEF Seen
  <2>3. InOrder(d)' /\ \A x \in Dept \ {d} : InOrder(x) => InOrder(x)'
    BY <1>1, <2>1, Relinked, TreeStays DEF InOrder
  <2> QED
    BY <1>1, <1>2, <1>3, <2>1, <2>2, <2>3, RelinkKeeps DEF Depts!DpTypeOK
<1> QED
  BY <1>4, <1>5

LEMMA CountSteps ==
  ASSUME TreeInv, NEW e \in Proc, Depts!CountChildren(e) \/ Depts!CountMembers(e)
  PROVE  TreeInv'
<1> SUFFICES ASSUME NEW d, d = edit[e].dept PROVE TreeInv'
  OBVIOUS
<1>1. /\ Depts!DpTypeOK /\ EditsADept /\ edit[e].pc \in {"children", "members"} /\ d \in Dept
      /\ UNCHANGED <<parent, path, memberOf, closure, torn, raced, unchecked>>
  BY DEF Depts!CountChildren, Depts!CountMembers, TreeInv, Depts!DpTypeOK, EditsADept,
     Depts!dpRows, Depts!dpNotes
<1>2. PICK r : /\ EditBecomes(e, r) /\ r.pc \in {"idle", "members", "unlink"}
               /\ r.pc # "idle" => r.dept = d
               /\ r.pc = "members" => \A x \in Dept : parent[x] # d
               /\ r.pc = "unlink" => /\ edit[e].pc = "members"
                                     /\ \A m \in {m1} : memberOf[m] # d
  <2>1. CASE Depts!Stop(e)
    BY <2>1, EditStops
  <2>2. CASE Depts!Goto(e, "members") /\ \A x \in Dept : parent[x] # d
    BY <1>1, <2>2, EditGoes
  <2>3. CASE /\ edit[e].pc = "members" /\ Depts!Goto(e, "unlink")
             /\ \A m \in {m1} : memberOf[m] # d
    BY <1>1, <2>3, EditGoes
  <2> QED
    BY <2>1, <2>2, <2>3 DEF Depts!CountChildren, Depts!CountMembers
<1>3. CASE raced
  BY <1>1, <1>2, <1>3, Overlapped DEF Depts!DpTypeOK, Depts!Root
<1>4. CASE ~raced
  <2>1. TreeSound /\ Alone(e) /\ Seen(e)
    BY <1>1, <1>4, BusyIsAlone DEF TreeInv, TreeSound
  <2>2. edit'[e] = r
    BY <1>1, <1>2, EditTyped
  <2>3. Seen(e)'
    BY <1>1, <1>2, <2>1, <2>2 DEF Seen
  <2> QED
    BY <1>1, <1>2, <2>1, <2>3, EditOnly DEF Depts!DpTypeOK
<1> QED
  BY <1>3, <1>4

LEMMA UnlinkSteps ==
  ASSUME TreeInv, NEW e \in Proc, Depts!DeleteClosure(e)
  PROVE  TreeInv'
<1> SUFFICES ASSUME NEW d, d = edit[e].dept PROVE TreeInv'
  OBVIOUS
<1>1. /\ Depts!DpTypeOK /\ EditsADept /\ edit[e].pc = "unlink" /\ d \in Dept
      /\ closure' = {c \in closure : d \notin {c[1], c[2]}} /\ closure \in SUBSET (Dept \X Dept)
      /\ Depts!Goto(e, "remove") /\ UNCHANGED <<parent, path, memberOf, torn, raced, unchecked>>
  BY DEF Depts!DeleteClosure, TreeInv, Depts!DpTypeOK, EditsADept, Depts!dpNotes, Depts!dpRows
<1>2. PICK r : EditBecomes(e, r) /\ r.pc = "remove" /\ r.dept = d
  BY <1>1, EditGoes
<1>3. CASE raced
  BY <1>1, <1>2, <1>3, Overlapped DEF Depts!DpTypeOK, Depts!Root
<1>4. CASE ~raced
  <2>1. TreeSound /\ Alone(e) /\ Seen(e)
    BY <1>1, <1>4, BusyIsAlone DEF TreeInv, TreeSound
  <2>2. edit'[e] = r
    BY <1>1, <1>2, EditTyped
  <2>3. Leaf(d)
    BY <1>1, <2>1 DEF Seen, Leaf
  <2>4. ASSUME NEW x \in Dept \ {d}, InOrder(x) PROVE InOrder(x)'
    <3>1. Depts!Row(x) => d \notin path[x]
      BY <1>1, <2>1, <2>3, LeafNotAbove DEF TreeSound, PathsHold
    <3>2. \A c \in Linked(x) : c[1] # d /\ c[2] # d
      BY <2>4, <3>1 DEF InOrder
    <3>3. Linked(x)' = Linked(x)
      BY <1>1, <3>2 DEF Linked
    <3> QED
      BY <1>1, <2>4, <3>3, TreeStays DEF InOrder
  <2>5. Seen(e)'
    <3>1. Linked(d)' = {}
      BY <1>1 DEF Linked
    <3> QED
      BY <1>1, <1>2, <2>1, <2>2, <3>1 DEF Seen
  <2> QED
    BY <1>1, <1>2, <2>1, <2>4, <2>5, RelinkKeeps DEF Depts!DpTypeOK
<1> QED
  BY <1>3, <1>4

LEMMA RemoveSteps ==
  ASSUME TreeInv, NEW e \in Proc, Depts!RemoveDept(e)
  PROVE  TreeInv'
<1> SUFFICES ASSUME NEW d, d = edit[e].dept PROVE TreeInv'
  OBVIOUS
<1>1. /\ Depts!DpTypeOK /\ EditsADept /\ edit[e].pc = "remove" /\ d \in Dept
      /\ parent' = [parent EXCEPT ![d] = "deleted"] /\ path' = [path EXCEPT ![d] = {}]
      /\ torn' = torn \ {d} /\ Depts!Stop(e) /\ UNCHANGED <<closure, memberOf, raced, unchecked>>
  BY DEF Depts!RemoveDept, TreeInv, Depts!DpTypeOK, EditsADept
<1>2. PICK r : EditBecomes(e, r) /\ r.pc = "idle"
  BY <1>1, EditStops
<1>3. /\ edit'[e] = r /\ \A f \in Proc : f # e => edit'[f] = edit[f]
      /\ parent' \in [Dept -> Dept \cup {"root", "none", "deleted"}]
      /\ path' \in [Dept -> SUBSET Dept]
      /\ torn' \in SUBSET Dept
      /\ parent'[d] = "deleted"
      /\ \A x \in Dept \ {d} : parent'[x] = parent[x] /\ path'[x] = path[x]
  BY <1>1, <1>2, EditTyped DEF Depts!DpTypeOK, Depts!Root
<1>4. Depts!DpTypeOK' /\ EditsADept' /\ (raced => TreeInv')
  BY <1>1, <1>2, <1>3, Overlapped DEF Depts!DpTypeOK
<1> SUFFICES ASSUME ~raced PROVE TreeInv'
  BY <1>4
<1>5. TreeSound /\ Alone(e) /\ Seen(e)
  BY <1>1, BusyIsAlone DEF TreeInv, TreeSound
<1>6. /\ Leaf(d) /\ Linked(d) = {}
      /\ (\A x \in Dept : parent[x] # d) /\ (\A m \in {m1} : memberOf[m] # d)
  BY <1>1, <1>5 DEF Seen, Leaf
<1>7. /\ ~Depts!Row(d)' /\ \A x \in Dept \ {d} : Depts!Row(x)' <=> Depts!Row(x)
  BY <1>3 DEF Depts!Row
<1>8. ParentsExist'
  <2> SUFFICES ASSUME NEW x \in Dept, Depts!Row(x)', NEW y, y = parent'[x], y # "root"
               PROVE  Depts!Row(y)'
    BY DEF ParentsExist
  <2>1. x # d /\ Depts!Row(x) /\ y = parent[x]
    BY <1>3, <1>7
  <2>2. y \in Dept \ {d} /\ Depts!Row(y)
    BY <1>1, <1>5, <1>6, <2>1
    DEF TreeSound, ParentsExist, Depts!DpTypeOK, Depts!Row, Depts!Root
  <2> QED
    BY <1>7, <2>2
<1>9. PathsHold'
  <2> SUFFICES ASSUME NEW x \in Dept, Depts!Row(x)' PROVE path'[x] = Depts!Ancestors(x)'
    BY DEF PathsHold
  <2>1. x # d /\ Depts!Row(x) /\ path'[x] = path[x]
    BY <1>3, <1>7
  <2>2. Depts!Ancestors(x)' = Depts!Ancestors(x)
    BY <1>1, <1>3, <1>6, <2>1, OthersStay
  <2> QED
    BY <1>5, <2>1, <2>2 DEF TreeSound, PathsHold
<1>10. MembersPlaced'
  <2> SUFFICES ASSUME NEW m \in {m1} \ unchecked, NEW y, y = memberOf[m], y # None
               PROVE  Depts!Row(y)'
    BY <1>1 DEF MembersPlaced
  <2>1. y \in Dept \ {d} /\ Depts!Row(y)
    BY <1>1, <1>5, <1>6 DEF TreeSound, MembersPlaced, Depts!DpTypeOK
  <2> QED
    BY <1>7, <2>1
<1>11. ClosureHolds'
  <2> SUFFICES ASSUME NEW x \in Dept, x \notin torn', ~Resyncing(x)' PROVE InOrder(x)'
    BY DEF ClosureHolds
  <2>0. Linked(x)' = Linked(x)
    BY <1>1 DEF Linked
  <2>1. CASE x = d
    BY <1>6, <1>7, <2>0, <2>1 DEF InOrder
  <2>2. CASE x # d
    <3>1. ~Resyncing(x) /\ x \notin torn /\ path'[x] = path[x]
      BY <1>1, <1>3, <1>5, <2>2 DEF Resyncing, Alone
    <3> QED
      BY <1>5, <1>7, <2>0, <2>2, <3>1 DEF TreeSound, ClosureHolds, InOrder
  <2> QED
    BY <2>1, <2>2
<1>12. Seen(e)'
  BY <1>2, <1>3 DEF Seen
<1> QED
  BY <1>1, <1>2, <1>4, <1>5, <1>8, <1>9, <1>10, <1>11, <1>12, EditKeeps DEF TreeSound, Alone

LEMMA DieSteps ==
  ASSUME TreeInv, NEW e \in Proc, Depts!EditorDies(e)
  PROVE  TreeInv'
<1> SUFFICES ASSUME NEW d, d = edit[e].dept PROVE TreeInv'
  OBVIOUS
<1>1. /\ Depts!DpTypeOK /\ EditsADept /\ edit[e].pc # "idle" /\ d \in Dept
      /\ torn' = IF edit[e].pc \in {"clear", "insert", "remove"} THEN torn \cup {d} ELSE torn
      /\ Depts!Stop(e) /\ UNCHANGED <<parent, path, memberOf, closure, raced, unchecked>>
  BY DEF Depts!EditorDies, TreeInv, Depts!DpTypeOK, EditsADept, Depts!dpRows, Depts!Busy
<1>2. torn' \in SUBSET Dept
  BY <1>1 DEF Depts!DpTypeOK
<1>3. PICK r : EditBecomes(e, r) /\ r.pc = "idle"
  BY <1>1, EditStops
<1>4. CASE raced
  BY <1>1, <1>2, <1>3, <1>4, Overlapped DEF Depts!DpTypeOK, Depts!Root
<1>5. CASE ~raced
  <2>1. TreeSound /\ Alone(e)
    BY <1>1, <1>5, BusyIsAlone DEF TreeInv, TreeSound
  <2>2. Seen(e)'
    BY <1>1, <1>3, EditTyped DEF Seen
  <2>3. \A x \in Dept : Linked(x)' = Linked(x)
    BY <1>1 DEF Linked
  <2>4. d \notin torn' => ~Resyncing(d) /\ d \notin torn
    BY <1>1, <2>1 DEF Resyncing, Alone
  <2>5. \A x \in Dept : InOrder(x) => InOrder(x)'
    BY <1>1, <2>3, TreeStays DEF InOrder
  <2>6. d \in torn' \/ InOrder(d)'
    BY <1>1, <2>1, <2>4, <2>5 DEF TreeSound, ClosureHolds
  <2> QED
    BY <1>1, <1>2, <1>3, <2>1, <2>2, <2>5, <2>6, RelinkKeeps DEF Depts!DpTypeOK
<1> QED
  BY <1>4, <1>5

LEMMA AssignSteps ==
  ASSUME TreeInv, NEW m \in {m1}, NEW d \in Dept \cup {None}, Depts!AssignMember(m, d)
  PROVE  TreeInv'
<1>1. /\ Depts!DpTypeOK /\ EditsADept
      /\ memberOf' = [memberOf EXCEPT ![m] = d]
      /\ unchecked' = IF d = None \/ Depts!Row(d) THEN unchecked \ {m} ELSE unchecked \cup {m}
      /\ raced' = (raced \/ \E e \in Proc : edit[e].pc # "idle")
      /\ UNCHANGED <<parent, path, closure, edit, torn>>
  BY DEF Depts!AssignMember, Depts!Busy, Depts!dpRows, TreeInv
<1>2. Depts!DpTypeOK' /\ EditsADept'
  BY <1>1 DEF Depts!DpTypeOK, EditsADept
<1> SUFFICES ASSUME ~raced' PROVE TreeSound'
  BY <1>2 DEF TreeInv
<1>3. TreeSound /\ \A e \in Proc : edit'[e].pc = "idle"
  BY <1>1 DEF TreeInv
<1>4. OneEdit' /\ \A e \in Proc : Seen(e)'
  BY <1>3 DEF OneEdit, Seen
<1>5. ParentsExist' /\ PathsHold'
  BY <1>1, <1>3, TreeStays DEF TreeSound
<1>6. MembersPlaced'
  <2>1. memberOf'[m] = d /\ m = m1
    BY <1>1 DEF Depts!DpTypeOK
  <2>2. m \notin unchecked' => d = None \/ Depts!Row(d)
    BY <1>1
  <2> QED
    BY <1>1, <2>1, <2>2, TreeStays DEF MembersPlaced
<1>7. ClosureHolds'
  BY <1>1, <1>3, TreeStays DEF TreeSound, ClosureHolds, Resyncing, Linked, InOrder
<1> QED
  BY <1>4, <1>5, <1>6, <1>7 DEF TreeSound

LEMMA TreeRests ==
  ASSUME TreeInv, UNCHANGED Depts!dpVars
  PROVE  TreeInv'
<1>1. UNCHANGED <<parent, path, closure, memberOf, edit, torn, raced, unchecked>>
  BY DEF Depts!dpVars
<1>2. Depts!DpTypeOK' /\ EditsADept'
  BY <1>1 DEF TreeInv, Depts!DpTypeOK, EditsADept
<1> SUFFICES ASSUME ~raced PROVE TreeSound'
  BY <1>1, <1>2 DEF TreeInv
<1>3. ParentsExist' /\ PathsHold' /\ MembersPlaced'
  BY <1>1, TreeStays DEF TreeInv, TreeSound, MembersPlaced
<1>4. OneEdit' /\ ClosureHolds'
  BY <1>1, TreeStays DEF TreeInv, TreeSound, OneEdit, ClosureHolds, Resyncing, Linked, InOrder
<1>5. \A e \in Proc : Seen(e)'
  BY <1>1, TreeStays DEF TreeInv, TreeSound, Seen, Linked
<1> QED
  BY <1>3, <1>4, <1>5 DEF TreeSound

LEMMA TreeSteps ==
  ASSUME TreeInv, [Depts!DpNext]_(Depts!dpVars)
  PROVE  TreeInv'
<1>1. ASSUME NEW e \in Proc, NEW d \in Dept, Depts!UpdateDept(e, d) \/ Depts!DeleteDept(e, d)
      PROVE  TreeInv'
  BY <1>1, BeginSteps DEF Depts!UpdateDept, Depts!DeleteDept, Depts!Root
<1>2. ASSUME NEW e \in Proc, NEW p \in Dept \cup {"root"}, Depts!CreateDept(e, p)
      PROVE  TreeInv'
  <2>1. PICK d \in Depts!Unused : Depts!Begin(e, "create", d, p)
    BY <1>2 DEF Depts!CreateDept
  <2>2. d \in Dept /\ parent[d] = "none"
    BY DEF Depts!Unused
  <2> QED
    BY <2>1, <2>2, BeginSteps
<1>3. ASSUME NEW e \in Proc,
             \/ Depts!FindDept(e) \/ Depts!SaveDept(e) \/ Depts!ClearClosure(e)
             \/ Depts!InsertClosure(e) \/ Depts!CountChildren(e) \/ Depts!CountMembers(e)
             \/ Depts!DeleteClosure(e) \/ Depts!RemoveDept(e) \/ Depts!EditorDies(e)
      PROVE  TreeInv'
  BY <1>3, FindSteps, SaveSteps, ClearSteps, InsertSteps, CountSteps, UnlinkSteps, RemoveSteps,
     DieSteps
<1> QED
  BY <1>1, <1>2, <1>3, AssignSteps, TreeRests DEF Depts!DpNext, Depts!Root

LEMMA TreeInit == Depts!DpInit => TreeInv
<1> SUFFICES ASSUME Depts!DpInit PROVE TreeInv
  OBVIOUS
<1>1. Depts!IdleEdit \in Depts!EditRec /\ Depts!IdleEdit.pc = "idle"
  BY DEF Depts!IdleEdit, Depts!EditRec, Depts!Root
<1>2. \A e \in Proc : edit[e] = Depts!IdleEdit
  BY DEF Depts!DpInit
<1>3. Depts!DpTypeOK /\ EditsADept
  BY <1>1, <1>2 DEF Depts!DpInit, Depts!DpTypeOK, EditsADept
<1>4. OneEdit /\ \A e \in Proc : Seen(e)
  BY <1>1, <1>2 DEF OneEdit, Seen
<1>5. ParentsExist /\ MembersPlaced /\ PathsHold /\ ClosureHolds
  BY DEF Depts!DpInit, ParentsExist, MembersPlaced, PathsHold, ClosureHolds, InOrder, Linked,
     Depts!Row
<1> QED
  BY <1>3, <1>4, <1>5 DEF TreeInv, TreeSound

(* Only a sync that is made to its end ends an operation at its insert, and  *)
(* only a process that dies another way.                                     *)
LEMMA OnlyInsertEnds ==
  ASSUME Depts!DpTypeOK, Depts!DpNext, NEW e \in Proc, Alone(e), edit[e].pc = "insert",
         edit'[e].pc = "idle", edit[e].dept \notin torn'
  PROVE  Depts!InsertClosure(e)
<1>1. ASSUME NEW f \in Proc, NEW o, NEW d, NEW p, Depts!Begin(f, o, d, p) PROVE FALSE
  BY <1>1 DEF Depts!Begin, Depts!Busy, Depts!DpTypeOK
<1>2. ASSUME NEW f \in Proc, f # e,
             \/ Depts!FindDept(f) \/ Depts!SaveDept(f) \/ Depts!ClearClosure(f)
             \/ Depts!InsertClosure(f) \/ Depts!CountChildren(f) \/ Depts!CountMembers(f)
             \/ Depts!DeleteClosure(f) \/ Depts!RemoveDept(f) \/ Depts!EditorDies(f)
      PROVE  FALSE
  BY <1>2 DEF Alone, Depts!FindDept, Depts!SaveDept, Depts!ClearClosure, Depts!InsertClosure,
     Depts!CountChildren, Depts!CountMembers, Depts!DeleteClosure, Depts!RemoveDept,
     Depts!EditorDies, Depts!Busy
<1>3. ~(\/ Depts!FindDept(e) \/ Depts!SaveDept(e) \/ Depts!ClearClosure(e)
        \/ Depts!CountChildren(e) \/ Depts!CountMembers(e)
        \/ Depts!DeleteClosure(e) \/ Depts!RemoveDept(e))
  BY DEF Depts!FindDept, Depts!SaveDept, Depts!ClearClosure,
     Depts!CountChildren, Depts!CountMembers, Depts!DeleteClosure, Depts!RemoveDept
<1>4. ~Depts!EditorDies(e)
  BY DEF Depts!EditorDies
<1>5. ASSUME NEW m, NEW d, Depts!AssignMember(m, d) PROVE FALSE
  BY <1>5 DEF Depts!AssignMember
<1> QED
  BY <1>1, <1>2, <1>3, <1>4, <1>5
  DEF Depts!DpNext, Depts!UpdateDept, Depts!DeleteDept, Depts!CreateDept

(* What the closure table answers is what the tree says, and nothing refers  *)
(* to a department that is gone, while operations do not overlap; an update  *)
(* puts the closure of its department right.                                 *)
THEOREM DepartmentsAreSafe ==
  Depts!DpSpec => /\ [](/\ Depts!DpTypeOK /\ Depts!ScopeFollowsTreeAlone
                        /\ Depts!ReferencesExistAlone)
                  /\ Depts!UpdateRepairs
<1>1. TreeInv => Depts!ReferencesExistAlone
  BY DEF TreeInv, TreeSound, Depts!ReferencesExistAlone, ParentsExist, MembersPlaced, Depts!Root
<1>2. TreeInv => Depts!ScopeFollowsTreeAlone
  <2> SUFFICES ASSUME TreeInv, ~raced, \A e \in Proc : edit[e].pc = "idle",
                      NEW m \in {m1}, NEW s \in Dept, NEW d, d = memberOf[m],
                      d # None, d \notin torn
               PROVE  <<s, d>> \in closure <=> Depts!Row(d) /\ s \in Depts!Ancestors(d)
    BY DEF Depts!ScopeFollowsTreeAlone, Depts!Busy, Depts!Visible
  <2>1. d \in Dept /\ InOrder(d)
    BY DEF TreeInv, TreeSound, ClosureHolds, Depts!DpTypeOK, Resyncing
  <2>2. Depts!Row(d) => path[d] = Depts!Ancestors(d)
    BY <2>1 DEF TreeInv, TreeSound, PathsHold
  <2>3. <<s, d>> \in closure <=> <<s, d>> \in Linked(d)
    BY DEF Linked
  <2> QED
    BY <2>1, <2>2, <2>3 DEF InOrder
<1>3. TreeInv /\ [Depts!DpNext]_(Depts!dpVars) => [Depts!Repaired]_(Depts!dpVars)
  <2> SUFFICES ASSUME TreeInv, Depts!DpNext, NEW e \in Proc, ~raced, edit[e].pc = "insert",
                      edit'[e].pc = "idle", NEW d, d = edit[e].dept, d \notin torn'
               PROVE  {c \in closure' : c[2] = d} = path[d] \X {d}
    BY DEF Depts!Repaired
  <2>1. Depts!DpTypeOK /\ Alone(e) /\ Seen(e) /\ d \in Dept
    BY BusyIsAlone DEF TreeInv, TreeSound, EditsADept
  <2> QED
    BY <2>1, OnlyInsertEnds, Relinked DEF Linked
<1>4. TreeInv => Depts!DpTypeOK
  BY DEF TreeInv
<1> QED
  BY <1>1, <1>2, <1>3, <1>4, TreeInit, TreeSteps, PTL DEF Depts!DpSpec, Depts!UpdateRepairs

-----------------------------------------------------------------------------
(* The composition.  Each service, with the others around it, behaves as its *)
(* own specification says.                                                   *)
THEOREM RecordsRefineEach == RecordsSpec => Spec /\ Depts!DpSpec /\ Builtin!AbSpec
<1>1. RecordsInit => Init /\ Depts!DpInit /\ Builtin!AbInit
  BY DEF RecordsInit
<1>2. [RecordsNext]_allVars =>
        [Next]_vars /\ [Depts!DpNext]_deptVars /\ [Builtin!AbNext]_builtinVars
  BY DEF RecordsNext, allVars, deptVars, builtinVars
<1> QED
  BY <1>1, <1>2, PTL DEF RecordsSpec, Spec, Depts!DpSpec, Depts!dpVars, deptVars,
     Builtin!AbSpec, Builtin!abVars, builtinVars

(* BootstrapLeavesAdmin: the same of the composition, whatever configurations*)
(* and departments go through meanwhile.                                     *)
THEOREM AdminIsSafe == RecordsSpec => []BootstrapLeavesAdmin
<1>1. Builtin!AbTypeOK /\ Builtin!BootstrapLeavesAdmin => BootstrapLeavesAdmin
  BY DEF BootstrapLeavesAdmin
<1> QED
  BY <1>1, RecordsRefineEach, BootstrapIsSafe, PTL

(* DepartmentsSafe: the same of the composition, as MCRecords checks it.     *)
THEOREM TreeIsSafe == RecordsSpec => DepartmentsSafe
<1>1. Depts!DpTypeOK /\ Depts!ScopeFollowsTreeAlone /\ Depts!ReferencesExistAlone
      => (subject = "departments" => /\ Depts!DpTypeOK /\ Depts!ScopeFollowsTreeAlone
                                     /\ Depts!ReferencesExistAlone)
  OBVIOUS
<1> QED
  BY <1>1, RecordsRefineEach, DepartmentsAreSafe, PTL DEF DepartmentsSafe
=============================================================================
