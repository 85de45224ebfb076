------------------------ MODULE RuntimeConfigProofs ------------------------
(* Theorems about RuntimeConfig.                                            *)
EXTENDS RuntimeConfig, TLAPS

(* What a call holds at each of its steps: a reader about to store has the  *)
(* row it read, a writer about to save has the entity it built.             *)
Shape ==
  \A p \in Proc :
    /\ op[p].pc \in {"fill", "load", "write"} => op[p].ent # None
    /\ op[p].pc = "fill" => op[p].ent \in history

(* Every row in reach of a reader has been committed. *)
Committed ==
  /\ row # None => row \in history
  /\ cache # None => cache \in history
  /\ \A p \in Proc : op[p].served # None => op[p].served \in history

IInv == TypeOK /\ Shape /\ Committed

-----------------------------------------------------------------------------
LEMMA IdleTyped ==
  /\ Idle \in OpRec
  /\ Idle.pc = "done" /\ Idle.ent = None /\ Idle.served = None
BY NoneAssumption DEF Idle, OpRec, Pc, Expected

(* What the operation of p becomes when it goes on. *)
LEMMA HoldMoves ==
  ASSUME TypeOK, NEW p \in Proc, NEW pc \in Pc, NEW e \in Row \cup {None},
         Hold(p, pc, e)
  PROVE  /\ op' \in [Proc -> OpRec]
         /\ \A q \in Proc : q # p => op'[q] = op[q]
         /\ op'[p].pc = pc /\ op'[p].ent = e /\ op'[p].served = op[p].served
<1>1. op[p] \in OpRec
  BY DEF TypeOK
<1>2. op' = [op EXCEPT ![p] = [[op[p] EXCEPT !.pc = pc] EXCEPT !.ent = e]]
  BY DEF Hold, TypeOK
<1> DEFINE o == [[op[p] EXCEPT !.pc = pc] EXCEPT !.ent = e]
<1>3. o \in OpRec /\ o.pc = pc /\ o.ent = e /\ o.served = op[p].served
  BY <1>1 DEF OpRec
<1> HIDE DEF o
<1> QED
  BY <1>2, <1>3 DEF TypeOK, o

(* ... and when it ends. *)
LEMMA EndMoves ==
  ASSUME TypeOK, NEW p \in Proc, NEW e \in Row \cup {None}, End(p, e)
  PROVE  /\ op' \in [Proc -> OpRec]
         /\ \A q \in Proc : q # p => op'[q] = op[q]
         /\ op'[p].pc = "done" /\ op'[p].served = e
<1> DEFINE o == [[Idle EXCEPT !.floor = op[p].floor] EXCEPT !.served = e]
<1>1. op[p].floor \in Nat
  BY DEF TypeOK, OpRec
<1>2. o \in OpRec /\ o.pc = "done" /\ o.served = e
  BY <1>1, IdleTyped DEF OpRec
<1>3. op' = [op EXCEPT ![p] = IF e = None THEN Idle ELSE o]
  BY DEF End, TypeOK
<1> HIDE DEF o
<1> QED
  BY <1>2, <1>3, IdleTyped DEF TypeOK

(* A step that changes no row and stores no copy, and whose call goes on or *)
(* ends, keeps the invariant.                                               *)
LEMMA QuietStep ==
  ASSUME IInv, NEW p \in Proc, UNCHANGED <<row, history, commits>>,
         cache' \in {cache, None}, returned' \in Nat, overlapped' \in BOOLEAN,
         op' \in [Proc -> OpRec],
         \A q \in Proc : q # p => op'[q] = op[q],
         op'[p].pc \in {"fill", "load", "write"} => op'[p].ent # None,
         op'[p].pc = "fill" => op'[p].ent \in history,
         op'[p].served # None => op'[p].served \in history
  PROVE  IInv'
BY DEF IInv, TypeOK, Shape, Committed

-----------------------------------------------------------------------------
LEMMA NewRowTyped ==
  ASSUME NEW v \in Values, NEW s \in Status, NEW b \in BOOLEAN
  PROVE  NewRow(v, s, b) \in Row
BY DEF NewRow, Row

LEMMA EntityTyped ==
  ASSUME IInv
  PROVE  /\ EnsuredRow \in Row
         /\ row # None => \A v \in Values \cup {None}, s \in Status \cup {None} :
                            UpdatedRow(v, s) \in Row
<1>1. row # None => row \in Row
  BY DEF IInv, TypeOK
<1>2. NewRow(Default, "active", TRUE) \in Row
  BY ValueAssumption, NewRowTyped
<1>3. row # None => [row EXCEPT !.builtin = TRUE] \in Row
  BY <1>1 DEF Row
<1>4. ASSUME row # None, NEW v \in Values \cup {None}, NEW s \in Status \cup {None}
      PROVE  UpdatedRow(v, s) \in Row
  <2> DEFINE val == IF v = None THEN row.value ELSE v
             ver == IF v = None THEN row.version ELSE row.version + 1
             st == IF s = None THEN row.status ELSE s
  <2>1. val \in Values /\ ver \in Nat /\ st \in Status
    BY <1>1, <1>4 DEF Row
  <2>2. UpdatedRow(v, s) = [[[row EXCEPT !.value = val] EXCEPT !.version = ver] EXCEPT !.status = st]
    BY <1>1, <1>4 DEF UpdatedRow, Row
  <2> HIDE DEF val, ver, st
  <2> QED
    BY <1>1, <1>4, <2>1, <2>2 DEF Row
<1> QED
  BY <1>2, <1>3, <1>4 DEF EnsuredRow

LEMMA WrittenTyped ==
  ASSUME NEW e \in Row, NEW b \in Row, NEW c \in Row, commits \in Nat
  PROVE  Written(e, b, c) \in Row
BY DEF Written, Column, Row

(* A reader's step. *)
LEMMA ReadKeeps ==
  ASSUME IInv, NEW p \in Proc, ReadCache(p) \/ ReadRow(p) \/ WriteCache(p)
  PROVE  IInv'
<1>0. TypeOK /\ returned \in Nat /\ overlapped \in BOOLEAN /\ cache \in Row \cup {None}
  BY DEF IInv, TypeOK
<1>1. CASE ReadCache(p)
  <2>1. CASE cache # None /\ End(p, cache)
    BY <1>0, <1>1, <2>1, EndMoves, QuietStep DEF ReadCache, ghost, IInv, Committed
  <2>2. CASE Hold(p, "db", None)
    BY <1>0, <1>1, <2>2, HoldMoves, QuietStep DEF ReadCache, ghost, IInv, Committed, Pc
  <2> QED
    BY <1>1, <2>1, <2>2 DEF ReadCache
<1>2. CASE ReadRow(p)
  <2>1. CASE End(p, None)
    BY <1>0, <1>2, <2>1, EndMoves, QuietStep DEF ReadRow, ghost
  <2>2. CASE row # None /\ Hold(p, "fill", row)
    BY <1>0, <1>2, <2>2, HoldMoves, QuietStep
       DEF ReadRow, ghost, IInv, TypeOK, Committed, Pc
  <2> QED
    BY <1>2, <2>1, <2>2 DEF ReadRow
<1>3. CASE WriteCache(p)
  <2>1. op[p].ent \in Row /\ op[p].ent \in history
    BY <1>3 DEF WriteCache, At, IInv, TypeOK, Shape, OpRec
  <2>2. /\ op' \in [Proc -> OpRec]
        /\ \A q \in Proc : q # p => op'[q] = op[q]
        /\ op'[p].pc = "done" /\ op'[p].served = op[p].ent
    BY <1>0, <1>3, <2>1, EndMoves DEF WriteCache
  <2> QED
    BY <1>3, <2>1, <2>2 DEF WriteCache, ghost, IInv, TypeOK, Shape, Committed
<1> QED
  BY <1>1, <1>2, <1>3

(* A step that reads the row for a writer, or refuses it. *)
LEMMA WriterReadKeeps ==
  ASSUME IInv, NEW p \in Proc,
         \/ EnsureRead(p) \/ CreateRead(p) \/ UpdateRead(p) \/ SaveLoad(p)
         \/ DeleteRead(p) \/ DeleteClear(p) \/ ClearCache(p) \/ Fail(p)
  PROVE  IInv'
<1>0. TypeOK /\ returned \in Nat /\ overlapped \in BOOLEAN
  BY DEF IInv, TypeOK
<1>1. UNCHANGED <<row, history, commits, overlapped>>
  BY DEF EnsureRead, CreateRead, UpdateRead, SaveLoad, DeleteRead, DeleteClear,
     ClearCache, Fail, ghost
<1>2. cache' \in {cache, None}
  BY DEF EnsureRead, CreateRead, UpdateRead, SaveLoad, DeleteRead, DeleteClear,
     ClearCache, Fail
<1>3. returned' \in Nat
  <2>1. op[p].ent # None => op[p].ent.stamp \in Nat
    BY DEF IInv, TypeOK, OpRec, Row
  <2> QED
    BY <1>0, <2>1 DEF EnsureRead, CreateRead, UpdateRead, SaveLoad, DeleteRead,
       DeleteClear, ClearCache, Fail, ghost
<1>4. op[p].served # None => op[p].served \in history
  BY DEF IInv, Committed
<1>5. CASE End(p, None)
  BY <1>0, <1>1, <1>2, <1>3, <1>5, EndMoves, QuietStep
<1>6. ASSUME NEW e \in Row, Hold(p, "load", e) PROVE IInv'
  <2>1. /\ op' \in [Proc -> OpRec]
        /\ \A q \in Proc : q # p => op'[q] = op[q]
        /\ op'[p].pc = "load" /\ op'[p].ent = e /\ op'[p].served = op[p].served
    BY <1>0, <1>6, HoldMoves DEF Pc
  <2> QED
    BY <1>0, <1>1, <1>2, <1>3, <1>4, <2>1, NoneAssumption, QuietStep
<1>7. ASSUME NEW pc \in {"unset", "remove"}, Hold(p, pc, None) PROVE IInv'
  <2>1. /\ op' \in [Proc -> OpRec]
        /\ \A q \in Proc : q # p => op'[q] = op[q]
        /\ op'[p].pc = pc /\ op'[p].served = op[p].served
    BY <1>0, <1>7, HoldMoves DEF Pc
  <2> QED
    BY <1>0, <1>1, <1>2, <1>3, <1>4, <2>1, QuietStep
<1>8. CASE SaveLoad(p)
  <2> DEFINE o == [[op[p] EXCEPT !.pc = "write"] EXCEPT !.base = row]
  <2>1. op[p] \in OpRec /\ row \in Row \cup {None} /\ op[p].ent # None
    BY <1>8 DEF SaveLoad, At, IInv, TypeOK, Shape
  <2>2. o \in OpRec /\ o.pc = "write" /\ o.ent = op[p].ent /\ o.served = op[p].served
    BY <2>1 DEF OpRec, Pc
  <2>3. op' = [op EXCEPT ![p] = o]
    BY <1>8 DEF SaveLoad
  <2> HIDE DEF o
  <2>4. op' \in [Proc -> OpRec] /\ op'[p] = o /\ \A q \in Proc : q # p => op'[q] = op[q]
    BY <2>2, <2>3 DEF IInv, TypeOK
  <2> QED
    BY <1>0, <1>1, <1>2, <1>3, <1>4, <2>1, <2>2, <2>4, QuietStep
<1>9. CASE EnsureRead(p)
  BY <1>6, <1>9, EntityTyped DEF EnsureRead
<1>10. CASE CreateRead(p)
  BY <1>5, <1>6, <1>10, NewRowTyped DEF CreateRead
<1>11. CASE UpdateRead(p)
  BY <1>5, <1>6, <1>11, EntityTyped DEF UpdateRead
<1>12. CASE DeleteRead(p) \/ DeleteClear(p) \/ ClearCache(p) \/ Fail(p)
  BY <1>5, <1>7, <1>12 DEF DeleteRead, DeleteClear, ClearCache, Fail
<1> QED
  BY <1>8, <1>9, <1>10, <1>11, <1>12

(* A save that changes the row to r. *)
LEMMA CommitKeeps ==
  ASSUME IInv, NEW p \in Proc, NEW r \in Row, Commit(r), Hold(p, "clear", r),
         UNCHANGED cache
  PROVE  IInv'
<1>1. TypeOK
  BY DEF IInv
<1>2. /\ op' \in [Proc -> OpRec]
      /\ \A q \in Proc : q # p => op'[q] = op[q]
      /\ op'[p].pc = "clear" /\ op'[p].served = op[p].served
  BY <1>1, HoldMoves DEF Pc
<1>3. /\ row' = r /\ history' = history \cup {r} /\ commits' = commits + 1
      /\ returned' = returned /\ overlapped' = overlapped
  BY DEF Commit
<1>4. TypeOK'
  BY <1>1, <1>2, <1>3 DEF TypeOK
<1>5. Shape'
  BY <1>2, <1>3 DEF IInv, Shape
<1>6. Committed'
  <2>1. \A q \in Proc : op'[q].served = op[q].served
    BY <1>2
  <2> QED
    BY <1>3, <2>1 DEF IInv, Committed
<1> QED
  BY <1>4, <1>5, <1>6 DEF IInv

LEMMA SaveKeeps ==
  ASSUME IInv, NEW p \in Proc, SaveWrite(p)
  PROVE  IInv'
<1> DEFINE e == op[p].ent
           b == op[p].base
<1>0. TypeOK /\ commits \in Nat /\ returned \in Nat /\ overlapped \in BOOLEAN
  BY DEF IInv, TypeOK
<1>1. e \in Row /\ b \in Row \cup {None}
  BY DEF SaveWrite, At, IInv, TypeOK, Shape, OpRec
<1>2. op[p].served # None => op[p].served \in history
  BY DEF IInv, Committed
<1>3. CASE Commit([e EXCEPT !.stamp = commits + 1]) /\ Hold(p, "clear", row')
  <2>1. [e EXCEPT !.stamp = commits + 1] \in Row
    BY <1>0, <1>1 DEF Row
  <2>2. row' = [e EXCEPT !.stamp = commits + 1]
    BY <1>3 DEF Commit
  <2> QED
    BY <1>3, <2>1, <2>2, CommitKeeps DEF SaveWrite
<1>4. CASE End(p, None) /\ UNCHANGED <<row, ghost>>
  BY <1>0, <1>2, <1>4, EndMoves, QuietStep DEF SaveWrite, ghost
<1>5. CASE b # None /\ row # None /\ Commit(Written(e, b, row)) /\ Hold(p, "clear", row')
  <2>1. Written(e, b, row) \in Row
    BY <1>0, <1>1, <1>5, WrittenTyped DEF TypeOK
  <2>2. row' = Written(e, b, row)
    BY <1>5 DEF Commit
  <2> HIDE DEF e, b
  <2> QED
    BY <1>5, <2>1, <2>2, CommitKeeps DEF SaveWrite
<1>6. CASE Hold(p, "clear", None) /\ UNCHANGED <<row, ghost>>
  BY <1>0, <1>2, <1>6, HoldMoves, QuietStep DEF SaveWrite, ghost, Pc
<1> QED
  BY <1>3, <1>4, <1>5, <1>6 DEF SaveWrite

LEMMA RemoveKeeps ==
  ASSUME IInv, NEW p \in Proc, Remove(p)
  PROVE  IInv'
<1>1. TypeOK
  BY DEF IInv
<1>2. /\ op' \in [Proc -> OpRec]
      /\ \A q \in Proc : q # p => op'[q] = op[q]
      /\ op'[p].pc = "done" /\ op'[p].served = None
  BY <1>1, EndMoves DEF Remove
<1> QED
  BY <1>1, <1>2 DEF Remove, IInv, TypeOK, Shape, Committed

LEMMA StartKeeps ==
  ASSUME IInv, NEW p \in Proc, Call(p)
  PROVE  IInv'
<1> DEFINE Entry == {"get", "ensure", "create", "delete", "clear", "update"}
<1>1. PICK pc \in Entry, exp \in Expected : Start(p, pc, exp)
  <2>1. CASE \E pc \in {"get", "ensure", "create", "delete", "clear"} : Start(p, pc, None)
    BY <2>1 DEF Expected
  <2>2. CASE \E e \in (1..MaxCommits) \cup {None} : Start(p, "update", e)
    <3>1. (1..MaxCommits) \cup {None} \subseteq Expected
      BY BoundAssumption DEF Expected
    <3>2. PICK e \in Expected : Start(p, "update", e)
      BY <2>2, <3>1
    <3> QED
      BY <3>2
  <2> QED
    BY <2>1, <2>2 DEF Call
<1> DEFINE o == [[[[Idle EXCEPT !.pc = pc] EXCEPT !.kind = pc] EXCEPT !.exp = exp]
                    EXCEPT !.floor = returned]
<1>2. returned \in Nat /\ overlapped' \in BOOLEAN
  BY <1>1 DEF IInv, TypeOK, Start
<1>3. o \in OpRec /\ o.pc = pc /\ o.served = None
  BY <1>1, <1>2, IdleTyped DEF OpRec, Pc
<1>4. op' = [op EXCEPT ![p] = o]
  BY <1>1 DEF Start
<1> HIDE DEF o
<1>5. op' \in [Proc -> OpRec] /\ op'[p] = o /\ \A q \in Proc : q # p => op'[q] = op[q]
  BY <1>3, <1>4 DEF IInv, TypeOK
<1> QED
  BY <1>1, <1>2, <1>3, <1>5, QuietStep DEF Start, ghost

-----------------------------------------------------------------------------
(* The types, the shape of the calls and the committed copies are kept by   *)
(* every step.                                                              *)
THEOREM Inductive == Spec => []IInv
<1>1. Init => IInv
  <2>1. Init => TypeOK
    <3>1. Init => op \in [Proc -> OpRec] /\ commits \in Nat /\ returned \in Nat
      BY IdleTyped DEF Init
    <3>2. Init => overlapped \in BOOLEAN
      BY Zenon DEF Init
    <3> QED
      BY <3>1, <3>2 DEF Init, TypeOK
  <2>2. Init => Shape /\ Committed
    BY IdleTyped DEF Init, Shape, Committed
  <2> QED
    BY <2>1, <2>2 DEF IInv
<1>2. ASSUME IInv, [Next]_vars PROVE IInv'
  <2>1. ASSUME NEW p \in Proc, Step(p) PROVE IInv'
    BY <1>2, <2>1, ReadKeeps, WriterReadKeeps, SaveKeeps, RemoveKeeps DEF Step
  <2>2. ASSUME NEW p \in Proc, Call(p) \/ Fail(p) PROVE IInv'
    BY <1>2, <2>2, StartKeeps, WriterReadKeeps
  <2>3. CASE Expire \/ UNCHANGED vars
    BY <1>2, <2>3 DEF Expire, vars, ghost, IInv, TypeOK, Shape, Committed
  <2> QED
    BY <1>2, <2>1, <2>2, <2>3 DEF Next
<1> QED
  BY <1>1, <1>2, PTL DEF Spec

(* Every reachable state is well typed. *)
THEOREM TypeCorrect == Spec => []TypeOK
BY Inductive, PTL DEF IInv

(* No read, and no copy in Redis, shows a row that was not committed. *)
THEOREM OnlyCommittedServed == Spec => []ServesCommitted
<1>1. IInv => ServesCommitted
  BY DEF IInv, Shape, Committed, ServesCommitted, At
<1> QED
  BY <1>1, Inductive, PTL

-----------------------------------------------------------------------------
(* An entity read from the row as it is now has at least its version: the   *)
(* stamp of a row is the number of the change that wrote it, so an entity   *)
(* with the stamp of the row was read after that change.                    *)
StampOf(p) ==
  op[p].pc \in {"load", "write"} =>
    /\ op[p].ent.stamp <= commits
    /\ row # None /\ op[p].ent.stamp = row.stamp => op[p].ent.version >= row.version

Stamps ==
  /\ row # None => row.stamp \in 1..commits
  /\ \A p \in Proc : StampOf(p)

(* A step that leaves the rows alone, and after which p is about to save    *)
(* only what it was about to save, or an entity as good as the row.         *)
LEMMA QuietStamps ==
  ASSUME Stamps, NEW p \in Proc, UNCHANGED <<row, commits>>,
         \A q \in Proc : q # p => op'[q] = op[q],
         StampOf(p)'
  PROVE  Stamps'
BY DEF Stamps, StampOf

LEMMA HoldStamps ==
  ASSUME IInv, Stamps, NEW p \in Proc, NEW e \in Row, Hold(p, "load", e),
         UNCHANGED <<row, commits>>, e.stamp <= commits,
         row # None /\ e.stamp = row.stamp => e.version >= row.version
  PROVE  Stamps'
<1>1. /\ \A q \in Proc : q # p => op'[q] = op[q]
      /\ op'[p].pc = "load" /\ op'[p].ent = e
  BY HoldMoves DEF IInv, Pc
<1> QED
  BY <1>1, QuietStamps DEF StampOf

LEMMA EndStamps ==
  ASSUME IInv, Stamps, NEW p \in Proc, UNCHANGED <<row, commits>>,
         NEW e \in Row \cup {None}, End(p, e)
  PROVE  Stamps'
<1>1. /\ \A q \in Proc : q # p => op'[q] = op[q]
      /\ op'[p].pc = "done"
  BY EndMoves DEF IInv
<1> QED
  BY <1>1, QuietStamps DEF StampOf

LEMMA GoStamps ==
  ASSUME IInv, Stamps, NEW p \in Proc, UNCHANGED <<row, commits>>,
         NEW pc \in Pc \ {"load", "write"}, NEW e \in Row \cup {None}, Hold(p, pc, e)
  PROVE  Stamps'
<1>1. /\ \A q \in Proc : q # p => op'[q] = op[q]
      /\ op'[p].pc = pc
  BY HoldMoves DEF IInv
<1> QED
  BY <1>1, QuietStamps DEF StampOf

LEMMA WriterStamps ==
  ASSUME IInv, Stamps, NEW p \in Proc, EnsureRead(p) \/ CreateRead(p) \/ UpdateRead(p)
  PROVE  Stamps'
<1>0. /\ row \in Row \cup {None} /\ commits \in Nat
      /\ row # None => row.stamp \in 1..commits
      /\ UNCHANGED <<row, commits>>
  BY DEF IInv, TypeOK, Stamps, EnsureRead, CreateRead, UpdateRead, ghost
<1>1. ASSUME NEW v \in Values, NEW s \in Status, NEW b \in BOOLEAN, Hold(p, "load", NewRow(v, s, b))
      PROVE  Stamps'
  <2>1. NewRow(v, s, b) \in Row /\ NewRow(v, s, b).stamp = 0
    BY NewRowTyped DEF NewRow
  <2> QED
    BY <1>0, <1>1, <2>1, HoldStamps
<1>2. CASE EnsureRead(p)
  <2>1. CASE row = None
    BY <1>1, <1>2, <2>1, ValueAssumption DEF EnsureRead, EnsuredRow
  <2>2. CASE row # None
    <3>1. EnsuredRow = [row EXCEPT !.builtin = TRUE]
      BY <2>2 DEF EnsuredRow
    <3>2. /\ EnsuredRow \in Row /\ EnsuredRow.stamp = row.stamp
          /\ EnsuredRow.version = row.version /\ row.version \in Nat
      BY <1>0, <2>2, <3>1 DEF Row
    <3> QED
      BY <1>0, <1>2, <2>2, <3>2, HoldStamps DEF EnsureRead
  <2> QED
    BY <2>1, <2>2
<1>3. CASE CreateRead(p)
  BY <1>0, <1>1, <1>3, EndStamps DEF CreateRead
<1>4. CASE UpdateRead(p)
  <2>1. CASE End(p, None)
    BY <1>0, <2>1, EndStamps
  <2>2. ASSUME row # None, NEW v \in Values \cup {None}, NEW s \in Status \cup {None},
               Hold(p, "load", UpdatedRow(v, s))
        PROVE  Stamps'
    <3>1. UpdatedRow(v, s) \in Row
      BY <2>2, EntityTyped
    <3>2. /\ UpdatedRow(v, s).stamp = row.stamp /\ row.version \in Nat
          /\ UpdatedRow(v, s).version = IF v = None THEN row.version ELSE row.version + 1
      BY <1>0, <2>2 DEF UpdatedRow, Row
    <3> QED
      BY <1>0, <2>2, <3>1, <3>2, HoldStamps
  <2> QED
    BY <1>4, <2>1, <2>2 DEF UpdateRead
<1> QED
  BY <1>2, <1>3, <1>4

(* A change of the row outdates every entity in memory. *)
LEMMA CommitStamps ==
  ASSUME IInv, Stamps, NEW p \in Proc, NEW r \in Row, r.stamp = commits + 1,
         Commit(r), Hold(p, "clear", r)
  PROVE  Stamps'
<1>1. /\ \A q \in Proc : q # p => op'[q] = op[q]
      /\ op'[p].pc = "clear"
  BY HoldMoves DEF IInv, Pc
<1>2. row' = r /\ commits' = commits + 1 /\ commits \in Nat
  BY DEF Commit, IInv, TypeOK
<1>3. ASSUME NEW q \in Proc, q # p, op[q].pc \in {"load", "write"}
      PROVE  op[q].ent.stamp \in Nat /\ op[q].ent.stamp <= commits
  <2>1. op[q].ent \in Row
    BY <1>3 DEF IInv, TypeOK, OpRec, Shape
  <2> QED
    BY <1>3, <2>1 DEF Stamps, StampOf, Row
<1>4. \A q \in Proc : StampOf(q)'
  BY <1>1, <1>2, <1>3 DEF StampOf
<1>5. row'.stamp \in 1..commits'
  BY <1>2
<1> QED
  BY <1>4, <1>5 DEF Stamps

LEMMA SaveStamps ==
  ASSUME IInv, Stamps, NEW p \in Proc, SaveLoad(p) \/ SaveWrite(p)
  PROVE  Stamps'
<1> DEFINE e == op[p].ent
           b == op[p].base
<1>1. e \in Row /\ b \in Row \cup {None} /\ commits \in Nat /\ row \in Row \cup {None}
  BY DEF SaveLoad, SaveWrite, At, IInv, TypeOK, Shape, OpRec
<1>2. CASE SaveLoad(p)
  <2> DEFINE o == [[op[p] EXCEPT !.pc = "write"] EXCEPT !.base = row]
  <2>1. op[p] \in OpRec /\ op[p].pc = "load"
    BY <1>2 DEF SaveLoad, At, IInv, TypeOK
  <2>2. o.ent = op[p].ent
    BY <2>1 DEF OpRec
  <2>3. op' = [op EXCEPT ![p] = o]
    BY <1>2 DEF SaveLoad
  <2> HIDE DEF o
  <2>4. op'[p] = o /\ \A q \in Proc : q # p => op'[q] = op[q]
    BY <2>3 DEF IInv, TypeOK
  <2> QED
    BY <1>2, <2>1, <2>2, <2>4, QuietStamps DEF SaveLoad, ghost, Stamps, StampOf
<1>3. CASE Commit([e EXCEPT !.stamp = commits + 1]) /\ Hold(p, "clear", row')
  <2>1. /\ [e EXCEPT !.stamp = commits + 1] \in Row
        /\ [e EXCEPT !.stamp = commits + 1].stamp = commits + 1
    BY <1>1 DEF Row
  <2>2. row' = [e EXCEPT !.stamp = commits + 1]
    BY <1>3 DEF Commit
  <2> QED
    BY <1>3, <2>1, <2>2, CommitStamps
<1>4. CASE b # None /\ row # None /\ Commit(Written(e, b, row)) /\ Hold(p, "clear", row')
  <2>1. Written(e, b, row) \in Row /\ Written(e, b, row).stamp = commits + 1
    BY <1>1, <1>4, WrittenTyped DEF Written
  <2>2. row' = Written(e, b, row)
    BY <1>4 DEF Commit
  <2> HIDE DEF e, b
  <2> QED
    BY <1>4, <2>1, <2>2, CommitStamps
<1>5. CASE (End(p, None) \/ Hold(p, "clear", None)) /\ UNCHANGED <<row, ghost>>
  <2>1. UNCHANGED <<row, commits>> /\ "clear" \in Pc \ {"load", "write"}
    BY <1>5 DEF ghost, Pc
  <2> QED
    BY <1>5, <2>1, EndStamps, GoStamps
<1> QED
  BY <1>2, <1>3, <1>4, <1>5 DEF SaveWrite

LEMMA StepStamps ==
  ASSUME IInv, Stamps, [Next]_vars
  PROVE  Stamps'
<1>0. cache \in Row \cup {None} /\ row \in Row \cup {None} /\ commits \in Nat /\ TypeOK
  BY DEF IInv, TypeOK
<1>1. ASSUME NEW p \in Proc, SaveLoad(p) \/ SaveWrite(p) \/ EnsureRead(p)
                              \/ CreateRead(p) \/ UpdateRead(p)
      PROVE  Stamps'
  BY <1>1, SaveStamps, WriterStamps
<1>2. ASSUME NEW p \in Proc, ReadCache(p) \/ ReadRow(p) \/ DeleteRead(p)
                              \/ DeleteClear(p) \/ ClearCache(p) \/ Fail(p)
      PROVE  Stamps'
  <2>1. UNCHANGED <<row, commits>>
    BY <1>2 DEF ReadCache, ReadRow, DeleteRead, DeleteClear, ClearCache, Fail, ghost
  <2>2. {"db", "fill", "unset", "remove"} \subseteq Pc \ {"load", "write"}
    BY DEF Pc
  <2>3. \/ End(p, None) \/ End(p, cache) \/ Hold(p, "fill", row)
        \/ \E pc \in {"db", "unset", "remove"} : Hold(p, pc, None)
    BY <1>2 DEF ReadCache, ReadRow, DeleteRead, DeleteClear, ClearCache, Fail
  <2>4. CASE End(p, None) \/ End(p, cache)
    BY <1>0, <2>1, <2>4, EndStamps
  <2>5. CASE Hold(p, "fill", row) \/ \E pc \in {"db", "unset", "remove"} : Hold(p, pc, None)
    BY <1>0, <2>1, <2>2, <2>5, GoStamps
  <2> QED
    BY <2>3, <2>4, <2>5
<1>3. ASSUME NEW p \in Proc, WriteCache(p) PROVE Stamps'
  <2>1. op[p].ent \in Row \cup {None} /\ UNCHANGED <<row, commits>>
    BY <1>0, <1>3 DEF TypeOK, OpRec, WriteCache, ghost
  <2>2. /\ \A q \in Proc : q # p => op'[q] = op[q]
        /\ op'[p].pc = "done"
    BY <1>0, <1>3, <2>1, EndMoves DEF WriteCache
  <2> QED
    BY <2>1, <2>2, QuietStamps DEF StampOf
<1>4. ASSUME NEW p \in Proc, Remove(p) PROVE Stamps'
  <2>1. /\ \A q \in Proc : q # p => op'[q] = op[q]
        /\ op'[p].pc = "done"
    BY <1>0, <1>4, EndMoves DEF Remove
  <2>2. row' = None /\ commits' = commits + 1
    BY <1>4 DEF Remove
  <2>3. ASSUME NEW q \in Proc, op[q].pc \in {"load", "write"} PROVE op[q].ent.stamp \in Nat
    BY <2>3 DEF IInv, TypeOK, OpRec, Shape, Row
  <2> QED
    BY <1>0, <2>1, <2>2, <2>3 DEF Stamps, StampOf
<1>5. ASSUME NEW p \in Proc, Call(p) PROVE Stamps'
  <2>1. PICK pc \in Pc \ {"load", "write"}, exp \in Expected \cup 1..MaxCommits : Start(p, pc, exp)
    BY <1>5 DEF Call, Pc, Expected
  <2>2. /\ UNCHANGED <<row, commits>>
        /\ \A q \in Proc : q # p => op'[q] = op[q]
    BY <1>0, <2>1 DEF Start, TypeOK
  <2>3. op'[p].pc = pc
    BY <1>0, <2>1, IdleTyped DEF Start, TypeOK, OpRec
  <2> QED
    BY <2>1, <2>2, <2>3, QuietStamps DEF StampOf
<1>6. CASE Expire \/ UNCHANGED vars
  BY <1>6 DEF Expire, vars, ghost, Stamps, StampOf
<1> QED
  BY <1>1, <1>2, <1>3, <1>4, <1>5, <1>6 DEF Next, Step

(* A version falls only when a writer saves what it read before the latest  *)
(* change of the row.                                                       *)
THEOREM OnlyStaleSavesLower == Spec => VersionFallsOnlyByStaleSave
<1> DEFINE Lowers == /\ row # None /\ row' # None
                     /\ row'.version < row.version
           Stale == \E p \in Proc : At(p, "write") /\ op[p].ent.stamp # row.stamp
<1>1. Init => Stamps
  BY IdleTyped DEF Init, Stamps, StampOf
<1>2. IInv /\ Stamps /\ [Next]_vars => Stamps'
  BY StepStamps
<1>3. ASSUME IInv, Stamps, [Next]_vars, Lowers PROVE Stale
  <2>1. row \in Row /\ row.version \in Nat /\ row' # row
    BY <1>3 DEF IInv, TypeOK, Row
  <2>2. PICK p \in Proc : SaveWrite(p)
    BY <1>3, <2>1 DEF Next, Call, Step, Start, Fail, Expire, vars, ReadCache, ReadRow,
       WriteCache, EnsureRead, CreateRead, UpdateRead, SaveLoad, ClearCache, DeleteRead,
       DeleteClear, Remove
  <2>3. /\ op[p].ent \in Row /\ op[p].base \in Row \cup {None}
        /\ At(p, "write")
    BY <1>3, <2>2 DEF SaveWrite, At, IInv, TypeOK, Shape, OpRec
  <2>4. row' = Written(op[p].ent, op[p].base, row)
    BY <1>3, <2>1, <2>2 DEF SaveWrite, Commit
  <2>5. row'.version \in {op[p].ent.version, row.version}
    BY <2>4 DEF Written, Column
  <2>6. op[p].ent.version < row.version
    BY <1>3, <2>1, <2>3, <2>5 DEF Row
  <2>7. op[p].ent.stamp # row.stamp
    BY <1>3, <2>1, <2>3, <2>6 DEF Stamps, StampOf, At, Row
  <2> QED
    BY <2>3, <2>7
<1>4. IInv /\ Stamps /\ [Next]_vars => [Lowers => Stale]_vars
  BY <1>3
<1> QED
  BY <1>1, <1>2, <1>4, Inductive, PTL DEF Spec, VersionFallsOnlyByStaleSave

-----------------------------------------------------------------------------
(* While no two calls have overlapped, only one call is in progress, and    *)
(* what it has read is still so.                                            *)
OneCall == \A p, q \in Proc : p # q => op[p].pc = "done" \/ op[q].pc = "done"

(* The rows and copies there are, beside what has returned. *)
NotBehind ==
  /\ row # None => row.stamp = commits
  /\ returned <= commits
  /\ cache # None => cache.stamp >= returned

Current(p) ==
  /\ op[p].floor <= returned
  /\ op[p].served # None => op[p].served.stamp >= op[p].floor
  /\ op[p].pc = "fill" => op[p].ent = row
  /\ op[p].pc \in {"unset", "remove"} => row # None /\ ~row.builtin
  /\ op[p].pc = "remove" => cache = None
  /\ op[p].pc = "clear" /\ op[p].ent # None => op[p].ent.stamp <= commits
  /\ op[p].exp # None => op[p].pc \in {"update", "load", "write", "clear"}
  /\ op[p].pc = "update" => op[p].kind = "update"
  /\ op[p].pc \in {"load", "write"} =>
       /\ op[p].exp # None => row # None /\ row.version = op[p].exp
       /\ op[p].kind = "ensure" /\ row # None =>
            op[p].ent.value = row.value /\ op[p].ent.version = row.version

AloneInv == ~overlapped => OneCall /\ NotBehind /\ \A p \in Proc : Current(p)

LEMMA HoldKeeps ==
  ASSUME TypeOK, NEW p \in Proc, NEW pc \in Pc, NEW e \in Row \cup {None}, Hold(p, pc, e)
  PROVE  /\ op'[p].kind = op[p].kind /\ op'[p].exp = op[p].exp
         /\ op'[p].floor = op[p].floor /\ op'[p].base = op[p].base
<1> DEFINE o == [[op[p] EXCEPT !.pc = pc] EXCEPT !.ent = e]
<1>1. op[p] \in OpRec /\ op' = [op EXCEPT ![p] = o]
  BY DEF Hold, TypeOK
<1>2. /\ o.kind = op[p].kind /\ o.exp = op[p].exp
      /\ o.floor = op[p].floor /\ o.base = op[p].base
  BY <1>1 DEF OpRec
<1> HIDE DEF o
<1> QED
  BY <1>1, <1>2 DEF TypeOK

LEMMA EndResets ==
  ASSUME TypeOK, NEW p \in Proc, NEW e \in Row \cup {None}, End(p, e)
  PROVE  op'[p].exp = None /\ op'[p].floor \in {0, op[p].floor}
<1> DEFINE o == [[Idle EXCEPT !.floor = op[p].floor] EXCEPT !.served = e]
<1>1. /\ o.exp = None /\ o.floor = op[p].floor /\ Idle.exp = None /\ Idle.floor = 0
  BY DEF Idle
<1>2. op' = [op EXCEPT ![p] = IF e = None THEN Idle ELSE o]
  BY DEF End, TypeOK
<1> HIDE DEF o
<1> QED
  BY <1>1, <1>2 DEF TypeOK

(* The numbers in reach. *)
LEMMA Numbers ==
  ASSUME IInv
  PROVE  /\ TypeOK /\ commits \in Nat /\ returned \in Nat /\ overlapped \in BOOLEAN
         /\ row # None => row \in Row /\ row.stamp \in Nat /\ row.version \in Nat
         /\ cache # None => cache \in Row /\ cache.stamp \in Nat
         /\ \A p \in Proc : /\ op[p].floor \in Nat /\ op[p].pc \in Pc
                            /\ op[p].ent # None => op[p].ent \in Row /\ op[p].ent.stamp \in Nat
                            /\ op[p].served # None => op[p].served.stamp \in Nat
BY DEF IInv, TypeOK, OpRec, Row

(* The only call in progress goes on: what the calls that are done hold     *)
(* does not change.                                                         *)
LEMMA AloneGoes ==
  ASSUME IInv, ~overlapped, OneCall, \A q \in Proc : Current(q),
         NEW p \in Proc, op[p].pc # "done", \A q \in Proc : q # p => op'[q] = op[q],
         returned' \in Nat, returned' >= returned, Current(p)', NotBehind'
  PROVE  AloneInv'
<1>1. \A q \in Proc : q # p => op[q].pc = "done"
  BY DEF OneCall
<1>2. OneCall'
  BY <1>1 DEF OneCall
<1>3. ASSUME NEW q \in Proc, q # p PROVE Current(q)'
  <2>1. op[q].pc = "done" /\ op'[q] = op[q] /\ Current(q)
    BY <1>1, <1>3
  <2>2. op[q].exp = None /\ op[q].floor <= returned'
    BY <2>1, Numbers DEF Current
  <2> QED
    BY <2>1, <2>2 DEF Current
<1> QED
  BY <1>2, <1>3 DEF AloneInv

LEMMA AloneEnds ==
  ASSUME IInv, ~overlapped, OneCall, \A q \in Proc : Current(q),
         NEW p \in Proc, op[p].pc # "done", NEW e \in Row \cup {None}, End(p, e),
         returned' \in Nat, returned' >= returned, e # None => e.stamp >= op[p].floor, NotBehind'
  PROVE  AloneInv'
<1>1. /\ \A q \in Proc : q # p => op'[q] = op[q]
      /\ op'[p].pc = "done" /\ op'[p].served = e
      /\ op'[p].exp = None /\ op'[p].floor \in {0, op[p].floor}
  BY EndMoves, EndResets, Numbers
<1>2. op[p].floor \in Nat /\ op[p].floor <= returned /\ returned \in Nat
  BY Numbers DEF Current
<1>3. e # None => e.stamp \in Nat
  BY DEF Row
<1>4. Current(p)'
  BY <1>1, <1>2, <1>3 DEF Current
<1> QED
  BY <1>1, <1>4, AloneGoes

LEMMA AloneHolds ==
  ASSUME IInv, ~overlapped, OneCall, \A q \in Proc : Current(q),
         NEW p \in Proc, op[p].pc # "done", NEW pc \in Pc, NEW e \in Row \cup {None},
         Hold(p, pc, e), UNCHANGED returned, NotBehind',
         pc = "fill" => e = row',
         pc \in {"unset", "remove"} => row' # None /\ ~row'.builtin,
         pc = "remove" => cache' = None,
         pc = "clear" /\ e # None => e.stamp <= commits',
         op[p].exp # None => pc \in {"load", "write", "clear"}, pc # "update",
         pc \in {"load", "write"} =>
           /\ op[p].exp # None => row' # None /\ row'.version = op[p].exp
           /\ op[p].kind = "ensure" /\ row' # None =>
                e.value = row'.value /\ e.version = row'.version
  PROVE  AloneInv'
<1>1. /\ \A q \in Proc : q # p => op'[q] = op[q]
      /\ op'[p].pc = pc /\ op'[p].ent = e /\ op'[p].served = op[p].served
      /\ op'[p].kind = op[p].kind /\ op'[p].exp = op[p].exp /\ op'[p].floor = op[p].floor
  BY HoldMoves, HoldKeeps, Numbers
<1>2. Current(p)'
  BY <1>1 DEF Current
<1>3. returned' \in Nat /\ returned' >= returned
  BY Numbers
<1> QED
  BY <1>1, <1>2, <1>3, AloneGoes

-----------------------------------------------------------------------------
LEMMA AloneReads ==
  ASSUME IInv, ~overlapped, OneCall, NotBehind, \A q \in Proc : Current(q),
         NEW p \in Proc, ReadCache(p) \/ ReadRow(p) \/ WriteCache(p)
  PROVE  AloneInv'
<1>1. /\ UNCHANGED <<row, commits, returned>> /\ op[p].pc # "done"
      /\ returned' \in Nat /\ returned' >= returned /\ {"db", "fill"} \subseteq Pc
  BY Numbers DEF ReadCache, ReadRow, WriteCache, ghost, At, Pc
<1>2. Current(p) /\ op[p].floor \in Nat /\ returned \in Nat
  BY Numbers
<1>3. cache' # None => cache'.stamp >= returned
  BY <1>1, Numbers DEF ReadCache, ReadRow, WriteCache, NotBehind, Current, At
<1>4. NotBehind'
  BY <1>1, <1>3 DEF NotBehind
<1>5. CASE ReadCache(p)
  <2>1. CASE cache # None
    <3>1. End(p, cache) /\ cache \in Row /\ cache.stamp >= op[p].floor
      BY <1>2, <1>5, <2>1, Numbers DEF ReadCache, NotBehind, Current
    <3> QED
      BY <1>1, <1>4, <3>1, AloneEnds
  <2>2. CASE cache = None
    <3>1. Hold(p, "db", None) /\ op[p].exp = None
      BY <1>2, <1>5, <2>2 DEF ReadCache, At, Current
    <3> QED
      BY <1>1, <1>4, <3>1, AloneHolds
  <2> QED
    BY <2>1, <2>2
<1>6. CASE ReadRow(p)
  <2>1. CASE row = None
    BY <1>1, <1>4, <1>6, <2>1, AloneEnds DEF ReadRow
  <2>2. CASE row # None
    <3>1. Hold(p, "fill", row) /\ op[p].exp = None /\ row \in Row
      BY <1>2, <1>6, <2>2, Numbers DEF ReadRow, At, Current
    <3> QED
      BY <1>1, <1>4, <3>1, AloneHolds
  <2> QED
    BY <2>1, <2>2
<1>7. CASE WriteCache(p)
  <2>1. End(p, op[p].ent) /\ op[p].ent = row /\ op[p].ent # None
    BY <1>2, <1>7 DEF WriteCache, At, Current, IInv, Shape
  <2>2. row \in Row /\ row.stamp >= op[p].floor
    BY <1>2, <2>1, Numbers DEF NotBehind, Current
  <2> QED
    BY <1>1, <1>4, <2>1, <2>2, AloneEnds
<1> QED
  BY <1>5, <1>6, <1>7

LEMMA AloneWriterReads ==
  ASSUME IInv, ~overlapped, OneCall, NotBehind, \A q \in Proc : Current(q),
         NEW p \in Proc, EnsureRead(p) \/ CreateRead(p) \/ UpdateRead(p)
  PROVE  AloneInv'
<1>1. /\ UNCHANGED <<row, cache, commits, returned>> /\ op[p].pc # "done"
      /\ returned' \in Nat /\ returned' >= returned /\ "load" \in Pc
  BY Numbers DEF EnsureRead, CreateRead, UpdateRead, ghost, At, Pc
<1>2. NotBehind'
  BY <1>1 DEF NotBehind
<1>3. Current(p)
  OBVIOUS
<1>4. CASE End(p, None)
  BY <1>1, <1>2, <1>4, AloneEnds
<1>5. CASE EnsureRead(p)
  <2>1. Hold(p, "load", EnsuredRow) /\ op[p].exp = None /\ EnsuredRow \in Row
    BY <1>3, <1>5, EntityTyped DEF EnsureRead, At, Current
  <2>2. row # None => EnsuredRow.value = row.value /\ EnsuredRow.version = row.version
    BY Numbers DEF EnsuredRow, Row
  <2> QED
    BY <1>1, <1>2, <2>1, <2>2, AloneHolds
<1>6. CASE CreateRead(p) /\ row = None
  <2>1. PICK v \in Values, s \in Status, b \in BOOLEAN : Hold(p, "load", NewRow(v, s, b))
    BY <1>6 DEF CreateRead
  <2>2. NewRow(v, s, b) \in Row /\ op[p].exp = None
    BY <1>3, <1>6, NewRowTyped DEF CreateRead, At, Current
  <2> QED
    BY <1>1, <1>2, <1>6, <2>1, <2>2, AloneHolds
<1>7. CASE UpdateRead(p) /\ row # None /\ ~VersionConflict(p)
  <2>1. PICK v \in Values \cup {None}, s \in Status \cup {None} : Hold(p, "load", UpdatedRow(v, s))
    BY <1>7 DEF UpdateRead
  <2>2. UpdatedRow(v, s) \in Row /\ op[p].kind = "update"
    BY <1>3, <1>7, EntityTyped DEF UpdateRead, At, Current
  <2>3. op[p].exp # None => row.version = op[p].exp
    BY <1>7 DEF VersionConflict
  <2> QED
    BY <1>1, <1>2, <1>7, <2>1, <2>2, <2>3, AloneHolds
<1> QED
  BY <1>4, <1>5, <1>6, <1>7 DEF CreateRead, UpdateRead

LEMMA AloneSaves ==
  ASSUME IInv, ~overlapped, OneCall, NotBehind, \A q \in Proc : Current(q),
         NEW p \in Proc, SaveLoad(p) \/ SaveWrite(p)
  PROVE  AloneInv'
<1> DEFINE e == op[p].ent
           b == op[p].base
<1>1. /\ e \in Row /\ b \in Row \cup {None} /\ commits \in Nat /\ row \in Row \cup {None}
      /\ op[p] \in OpRec /\ op[p].pc \in {"load", "write"} /\ "clear" \in Pc
      /\ returned \in Nat /\ UNCHANGED <<cache, returned>> /\ returned' >= returned
  BY DEF SaveLoad, SaveWrite, Commit, ghost, At, IInv, TypeOK, Shape, OpRec, Pc
<1>2. Current(p)
  OBVIOUS
<1>3. CASE SaveLoad(p)
  <2> DEFINE o == [[op[p] EXCEPT !.pc = "write"] EXCEPT !.base = row]
  <2>1. op' = [op EXCEPT ![p] = o] /\ UNCHANGED <<row, commits>> /\ op[p].pc = "load"
    BY <1>3 DEF SaveLoad, At, ghost
  <2>2. /\ o.pc = "write" /\ o.ent = op[p].ent /\ o.served = op[p].served
        /\ o.kind = op[p].kind /\ o.exp = op[p].exp /\ o.floor = op[p].floor
    BY <1>1 DEF OpRec
  <2> HIDE DEF o
  <2>3. op'[p] = o /\ \A q \in Proc : q # p => op'[q] = op[q]
    BY <2>1 DEF IInv, TypeOK
  <2>4. Current(p)'
    BY <1>1, <1>2, <2>1, <2>2, <2>3 DEF Current
  <2>5. NotBehind'
    BY <1>1, <2>1 DEF NotBehind
  <2> QED
    BY <1>1, <2>3, <2>4, <2>5, AloneGoes
<1>4. ASSUME NEW r \in Row, r.stamp = commits + 1, Commit(r), Hold(p, "clear", row')
      PROVE  AloneInv'
  <2>1. row' = r /\ commits' = commits + 1
    BY <1>4 DEF Commit
  <2>2. NotBehind'
    BY <1>1, <1>4, <2>1 DEF NotBehind
  <2>3. r.stamp <= commits' /\ row' \in Row /\ "clear" \notin {"load", "write", "unset", "remove"}
    BY <1>1, <1>4, <2>1
  <2> QED
    BY <1>1, <1>4, <2>1, <2>2, <2>3, AloneHolds
<1>5. CASE Commit([e EXCEPT !.stamp = commits + 1]) /\ Hold(p, "clear", row')
  <2>1. /\ [e EXCEPT !.stamp = commits + 1] \in Row
        /\ [e EXCEPT !.stamp = commits + 1].stamp = commits + 1
    BY <1>1 DEF Row
  <2> QED
    BY <1>4, <1>5, <2>1
<1>6. CASE b # None /\ row # None /\ Commit(Written(e, b, row)) /\ Hold(p, "clear", row')
  <2>1. Written(e, b, row) \in Row /\ Written(e, b, row).stamp = commits + 1
    BY <1>1, <1>6, WrittenTyped DEF Written
  <2> HIDE DEF e, b
  <2> QED
    BY <1>4, <1>6, <2>1
<1>7. CASE (End(p, None) \/ Hold(p, "clear", None)) /\ UNCHANGED <<row, ghost>>
  <2>1. NotBehind' /\ op[p].pc # "done"
    BY <1>1, <1>7 DEF NotBehind, ghost
  <2>2. CASE End(p, None)
    BY <1>1, <2>1, <2>2, AloneEnds
  <2>3. CASE Hold(p, "clear", None)
    BY <1>1, <2>1, <2>3, AloneHolds
  <2> QED
    BY <1>7, <2>2, <2>3
<1> QED
  BY <1>3, <1>5, <1>6, <1>7 DEF SaveWrite

LEMMA AloneClears ==
  ASSUME IInv, ~overlapped, OneCall, NotBehind, \A q \in Proc : Current(q),
         NEW p \in Proc,
         \/ ClearCache(p) \/ DeleteRead(p) \/ DeleteClear(p) \/ Remove(p) \/ Fail(p)
  PROVE  AloneInv'
<1>1. /\ op[p].pc # "done" /\ {"unset", "remove"} \subseteq Pc /\ Current(p)
      /\ commits \in Nat /\ returned \in Nat /\ returned <= commits
      /\ op[p].ent # None => op[p].ent.stamp \in Nat
  BY Numbers DEF ClearCache, DeleteRead, DeleteClear, Remove, Fail, At, Pc, NotBehind
<1>2. CASE ClearCache(p)
  <2>1. /\ UNCHANGED <<row, commits>> /\ cache' = None /\ End(p, None)
        /\ op[p].ent # None => op[p].ent.stamp <= commits
        /\ returned' = IF op[p].ent # None /\ op[p].ent.stamp > returned
                         THEN op[p].ent.stamp ELSE returned
    BY <1>1, <1>2 DEF ClearCache, At, Current
  <2>2. returned' \in Nat /\ returned' >= returned /\ returned' <= commits
    BY <1>1, <2>1
  <2>3. NotBehind'
    BY <2>1, <2>2 DEF NotBehind
  <2> QED
    BY <1>1, <2>1, <2>2, <2>3, AloneEnds
<1>3. CASE DeleteRead(p)
  <2>1. UNCHANGED <<row, cache, commits, returned>> /\ NotBehind' /\ op[p].exp = None
    BY <1>1, <1>3 DEF DeleteRead, ghost, NotBehind, At, Current
  <2>2. CASE Deletable
    <3>1. Hold(p, "unset", None) /\ row # None /\ ~row.builtin
      BY <1>3, <2>2 DEF DeleteRead, Deletable
    <3> QED
      BY <1>1, <2>1, <3>1, AloneHolds
  <2>3. CASE ~Deletable
    <3>1. End(p, None)
      BY <1>3, <2>3 DEF DeleteRead
    <3> QED
      BY <1>1, <2>1, <3>1, AloneEnds
  <2> QED
    BY <2>2, <2>3
<1>4. CASE DeleteClear(p)
  <2>1. /\ UNCHANGED <<row, commits, returned>> /\ cache' = None /\ Hold(p, "remove", None)
        /\ row # None /\ ~row.builtin /\ op[p].exp = None
    BY <1>1, <1>4 DEF DeleteClear, ghost, At, Current
  <2>2. NotBehind'
    BY <2>1 DEF NotBehind
  <2> QED
    BY <1>1, <2>1, <2>2, AloneHolds
<1>5. CASE Remove(p)
  <2>1. /\ row' = None /\ commits' = commits + 1 /\ returned' = commits + 1 /\ cache' = None
        /\ End(p, None)
    BY <1>1, <1>5 DEF Remove, At, Current
  <2>2. NotBehind' /\ returned' \in Nat /\ returned' >= returned
    BY <1>1, <2>1 DEF NotBehind
  <2> QED
    BY <1>1, <2>1, <2>2, AloneEnds
<1>6. CASE Fail(p)
  <2>1. UNCHANGED <<row, cache, commits, returned>> /\ End(p, None)
    BY <1>6 DEF Fail, ghost
  <2>2. NotBehind' /\ returned' \in Nat /\ returned' >= returned
    BY <1>1, <2>1 DEF NotBehind
  <2> QED
    BY <1>1, <2>1, <2>2, AloneEnds
<1> QED
  BY <1>2, <1>3, <1>4, <1>5, <1>6

LEMMA AloneStarts ==
  ASSUME IInv, ~overlapped', AloneInv, NEW p \in Proc, Call(p)
  PROVE  AloneInv'
<1>1. PICK pc \in {"get", "ensure", "create", "delete", "clear", "update"},
           e \in (1..MaxCommits) \cup {None} :
        /\ Start(p, pc, e)
        /\ e # None => pc = "update"
  BY DEF Call
<1>2. ~overlapped /\ \A q \in Proc : q # p => op[q].pc = "done"
  BY <1>1, Numbers DEF Start, At
<1>3. /\ UNCHANGED <<row, cache, commits, returned>> /\ OneCall /\ NotBehind
      /\ \A q \in Proc : Current(q)
  BY <1>1, <1>2 DEF AloneInv, Start
<1> DEFINE o == [[[[Idle EXCEPT !.pc = pc] EXCEPT !.kind = pc] EXCEPT !.exp = e]
                    EXCEPT !.floor = returned]
<1>4. /\ o.pc = pc /\ o.kind = pc /\ o.exp = e /\ o.floor = returned /\ o.served = None
      /\ o.ent = None
  BY DEF Idle
<1>5. op' = [op EXCEPT ![p] = o]
  BY <1>1 DEF Start
<1> HIDE DEF o
<1>6. op'[p] = o /\ \A q \in Proc : q # p => op'[q] = op[q]
  BY <1>5 DEF IInv, TypeOK
<1>7. Current(p)'
  BY <1>1, <1>3, <1>4, <1>6, Numbers DEF Current
<1>8. \A q \in Proc : Current(q)'
  BY <1>3, <1>6, <1>7, <1>2 DEF Current
<1>9. OneCall' /\ NotBehind'
  BY <1>2, <1>3, <1>6 DEF OneCall, NotBehind
<1> QED
  BY <1>8, <1>9 DEF AloneInv

LEMMA AloneSteps ==
  ASSUME IInv, AloneInv, [Next]_vars
  PROVE  AloneInv'
<1> SUFFICES ASSUME ~overlapped' PROVE AloneInv'
  BY DEF AloneInv
<1>1. ASSUME NEW p \in Proc, Call(p) PROVE AloneInv'
  BY <1>1, AloneStarts
<1>2. ASSUME NEW p \in Proc, Step(p) \/ Fail(p) PROVE AloneInv'
  <2>1. overlapped' = overlapped
    BY <1>2 DEF Step, Fail, ReadCache, ReadRow, WriteCache, EnsureRead, CreateRead, UpdateRead,
      SaveLoad, SaveWrite, Commit, ClearCache, DeleteRead, DeleteClear, Remove, ghost
  <2>2. ~overlapped /\ OneCall /\ NotBehind /\ \A q \in Proc : Current(q)
    BY <2>1 DEF AloneInv
  <2> QED
    BY <1>2, <2>2, AloneReads, AloneWriterReads, AloneSaves, AloneClears DEF Step
<1>3. CASE Expire \/ UNCHANGED vars
  <2>1. /\ UNCHANGED <<row, op, commits, returned, overlapped>> /\ cache' \in {cache, None}
    BY <1>3 DEF Expire, vars, ghost
  <2>2. OneCall /\ NotBehind /\ \A q \in Proc : Current(q)
    BY <2>1 DEF AloneInv
  <2> QED
    BY <2>1, <2>2 DEF AloneInv, OneCall, NotBehind, Current
<1> QED
  BY <1>1, <1>2, <1>3 DEF Next

LEMMA AloneInductive == Spec => [](IInv /\ AloneInv)
<1>1. Init => AloneInv
  BY IdleTyped DEF Init, AloneInv, OneCall, NotBehind, Current, Idle
<1> QED
  BY <1>1, AloneSteps, Inductive, PTL DEF Spec

-----------------------------------------------------------------------------
(* A read sees every write that has returned before it began, as long as no *)
(* two calls have overlapped.                                               *)
THEOREM ReadsSeeWrites == Spec => []ReadsSeeReturnedWritesAlone
<1>1. IInv /\ AloneInv => ReadsSeeReturnedWritesAlone
  BY DEF AloneInv, Current, ReadsSeeReturnedWritesAlone, ReadsSeeReturnedWrites
<1> QED
  BY <1>1, AloneInductive, PTL

(* Who changes the row. *)
LEMMA RowChanges ==
  ASSUME IInv, [Next]_vars, row' # row
  PROVE  \E p \in Proc : /\ SaveWrite(p) \/ Remove(p)
                         /\ \A q \in Proc : q # p => op'[q] = op[q]
<1>1. PICK p \in Proc : SaveWrite(p) \/ Remove(p)
  BY DEF Next, Call, Step, Start, Fail, Expire, vars, ReadCache, ReadRow,
     WriteCache, EnsureRead, CreateRead, UpdateRead, SaveLoad, ClearCache, DeleteRead,
     DeleteClear
<1>2. op \in [Proc -> OpRec]
  BY DEF IInv, TypeOK
<1>3. \A q \in Proc : q # p => op'[q] = op[q]
  BY <1>1, <1>2 DEF SaveWrite, Remove, Hold, End
<1> QED
  BY <1>1, <1>3

(* What the service's comments say of its writers holds as long as no two   *)
(* calls have overlapped: a conditional update replaces the version it      *)
(* names, a built-in row is not deleted, ensure() keeps value and version.  *)
THEOREM WritersKeepPromisesAlone ==
  Spec => OptimisticLockAlone /\ BuiltinStaysAlone /\ EnsureKeepsValueAlone
<1>1. ASSUME IInv, AloneInv, ~overlapped PROVE ReplacesExpected
  BY <1>1 DEF AloneInv, Current, ReplacesExpected, At
<1>2. ASSUME IInv, AloneInv, [Next]_vars, ~overlapped PROVE KeepsBuiltin
  <2> SUFFICES ASSUME row # None, row.builtin, row' = None PROVE FALSE
    BY DEF KeepsBuiltin
  <2>1. PICK p \in Proc : SaveWrite(p) \/ Remove(p)
    BY <1>2, RowChanges
  <2>2. Current(p)
    BY <1>2 DEF AloneInv
  <2>3. CASE Remove(p)
    BY <2>2, <2>3 DEF Remove, At, Current
  <2>4. CASE SaveWrite(p)
    <3>1. op[p].ent \in Row /\ op[p].base \in Row \cup {None} /\ commits \in Nat /\ row \in Row
      BY <1>2, <2>4 DEF SaveWrite, At, IInv, TypeOK, Shape, OpRec
    <3>2. row' = Written(op[p].ent, op[p].base, row)
      BY <2>4 DEF SaveWrite, Commit
    <3>3. op[p].base # None
      BY <2>4 DEF SaveWrite, Commit
    <3> QED
      BY <3>1, <3>2, <3>3, WrittenTyped, NoneAssumption
  <2> QED
    BY <2>1, <2>3, <2>4
<1>3. ASSUME IInv, AloneInv, [Next]_vars, ~overlapped PROVE EnsureOnlyDescribes
  <2> SUFFICES ASSUME NEW p \in Proc, op[p].kind = "ensure", row # None, row' # None,
                      op'[p] # op[p], row' # row
               PROVE  row'.value = row.value /\ row'.version = row.version
    BY DEF EnsureOnlyDescribes
  <2>1. SaveWrite(p)
    BY <1>3, RowChanges DEF Remove
  <2>2. Current(p) /\ op[p].pc = "write"
    BY <1>3, <2>1 DEF AloneInv, SaveWrite, At
  <2>3. row' = Written(op[p].ent, op[p].base, row)
    BY <2>1 DEF SaveWrite, Commit
  <2>4. op[p].ent.value = row.value /\ op[p].ent.version = row.version
    BY <2>2 DEF Current
  <2> QED
    BY <2>3, <2>4 DEF Written, Column
<1>4. IInv /\ AloneInv /\ [Next]_vars =>
        /\ [overlapped \/ ReplacesExpected]_vars
        /\ [overlapped \/ KeepsBuiltin]_vars
        /\ [overlapped \/ EnsureOnlyDescribes]_vars
  BY <1>1, <1>2, <1>3
<1> QED
  BY <1>4, AloneInductive, PTL
  DEF Spec, OptimisticLockAlone, BuiltinStaysAlone, EnsureKeepsValueAlone
=============================================================================
