------------------------- MODULE LocalUploadProofs -------------------------
(* What TLAPS proves about LocalUpload, for any rows, uploads, files, calls  *)
(* and parts.  The invariant has five parts: types and places of calls, the  *)
(* files parts are assembled in, the rows, the accepted parts, and the parts *)
(* left behind.                                                              *)
EXTENDS LocalUpload, WellFoundedInduction, TLAPS

(* The bounds are numbers, and a row is not the mark of an absent one.       *)
Bounds ==
  MaxTasks \in Nat /\ MaxUploads \in Nat /\ MaxFiles \in Nat /\ None \notin TaskRow

Rows == {t \in Task : task[t] # None}

(* The state but for the calls; an upload not drawn yet has no parts.        *)
RowsOK ==
  /\ task \in [Task -> TaskRow \cup {None}] /\ uploads \in 0..MaxUploads
  /\ \A t \in Rows : task[t].upload <= uploads
PartsOK ==
  /\ dir \in [Dir -> SUBSET Part] /\ written \in SUBSET Client
  /\ accepted \in [Dir -> SUBSET Part] /\ lost \in [Dir -> SUBSET Part]
  /\ \A d \in Dir : d[2] > uploads => dir[d] = {} /\ accepted[d] = {} /\ lost[d] = {}
ObjectsOK ==
  /\ files \in 0..MaxFiles /\ data \in [1..MaxFiles -> SUBSET Part]
  /\ temp \in [UploadId -> 0..MaxFiles] /\ target \in 0..MaxFiles
  /\ mixed \in SUBSET (1..MaxFiles) /\ cut \in BOOLEAN
StateOK == RowsOK /\ PartsOK /\ ObjectsOK /\ crossed \in BOOLEAN /\ failed \in BOOLEAN

(* Where a call is says what it does, and on what.                           *)
Placing == {"check", "move", "place", "recheck"}
Merges == {"copy", "rename", "remove", "replace"}
Ending == {"list", "open", "finish"} \cup Merges
Placed(r) ==
  /\ r.pc = "idle" <=> r.op = "none"
  /\ r.pc \in Placing => r.op = "part"
  /\ r.pc \in Ending => r.op = "complete"
  /\ r.pc = "clear" => r.op \in {"complete", "abort"}
  /\ r.pc = "create" => r.op = "init"
  /\ r.pc = "save" => r.op \in {"init", "abort"} /\ r.task \in Rows
  /\ r.op = "part" => r.part \in Part
  /\ r.op \in {"part", "complete", "abort"} =>
       r.task \in Rows /\ (r.pc # "find" => r.upload \in UploadId)
  /\ r.upload <= uploads

TypedInv ==
  /\ StateOK
  /\ call \in [Client -> CallRec] /\ \A c \in Client : Placed(call[c])

(* A file that one completion alone had a hand in holds what it copied, and  *)
(* the object is such a file, or one that two had a hand in.  Once there is  *)
(* an object, it is only missing while a completion replaces it, or for good.*)
Held == target # 0 \/ cut \/ \E c \in Client : call[c].pc = "replace"
Whole(r) ==
  /\ r.pc \in Merges => r.file \in 1..files
  /\ r.pc = "copy" /\ r.file \notin mixed => Part \subseteq data[r.file] \cup r.left
  /\ r.pc \in Merges \ {"copy"} /\ r.file \notin mixed => data[r.file] = Part
  /\ r.pc = "finish" => Held

FilesApart ==
  /\ target <= files
  /\ \A u \in UploadId : temp[u] # 0 => temp[u] <= files /\ temp[u] # target
  /\ \A u, v \in UploadId : temp[u] = temp[v] /\ temp[u] # 0 => u = v
  /\ target # 0 => data[target] = Part \/ target \in mixed

WholeInv ==
  /\ FilesApart
  /\ \A c \in Client : Whole(call[c])
  /\ (\E t \in Rows : task[t].completed) => Held

(* While no two calls that write the row have run together, there is one row *)
(* and the call that is to write it knows it.                                *)
Knows(r) ==
  /\ r.pc = "create" => Rows = {}
  /\ r.pc = "save" \/ r.pc \in Ending =>
       task[r.task].upload = r.upload /\ ~task[r.task].completed
  /\ r.pc = "clear" => \A t \in Rows : task[t].upload = 0

QuietInv ==
  ~crossed =>
    /\ \A s, t \in Rows : s = t
    /\ \A c, o \in Client : c # o => ~WritesRow(c) \/ ~WritesRow(o)
    /\ \A c \in Client : Knows(call[c])

(* An accepted part that is gone is being replaced, or a call removed it;    *)
(* where no call crossed or failed, none of the current upload is, because a *)
(* temporary file goes only with the directory of a row that ended.          *)
Current(d) == Active(d[1]) /\ task[d[1]].upload = d[2]
KeptInv ==
  /\ \A d \in Dir : \A n \in accepted[d] \ dir[d] : Replacing(d, n) \/ n \in lost[d]
  /\ ~crossed /\ ~failed =>
       /\ \A c \in Client :
            call[c].pc \in {"move", "place"} /\ c \notin written => ~Current(DirOf(c))
       /\ \A d \in Dir : Current(d) => lost[d] = {}

(* A part that is there belongs to an upload, or a call is to remove it.     *)
Removes(r, d, n) ==
  \/ r.pc = "clear" /\ d[1] = r.task
  \/ r.pc = "recheck" /\ d = <<r.task, r.upload>> /\ r.part = n
Serves(d) == Current(d) \/ (crossed /\ Active(d[1]))

ClearedInv ==
  ~failed =>
    \A d \in Dir : \A n \in dir[d] : Serves(d) \/ \E c \in Client : Removes(call[c], d, n)

LocalInv == TypedInv /\ WholeInv /\ QuietInv /\ KeptInv /\ ClearedInv
-----------------------------------------------------------------------------
(* The steps of one call. *)
Moves(c, r) == r \in CallRec /\ call' = [call EXCEPT ![c] = r]

LEMMA MovesTyped ==
  ASSUME Bounds, TypedInv, NEW c \in Client, NEW r, Moves(c, r)
  PROVE  /\ call' \in [Client -> CallRec] /\ call'[c] = r
         /\ \A d \in Client : d # c => call'[d] = call[d]
BY DEF TypedInv, Moves

LEMMA CallTyped ==
  ASSUME Bounds, TypedInv, NEW c \in Client
  PROVE  call[c] \in CallRec /\ Placed(call[c])
BY DEF TypedInv

(* The numbers of a row, an upload and a file, and 0 for none. *)
LEMMA Numbers ==
  ASSUME Bounds
  PROVE  /\ 0 \in 0..MaxTasks /\ 0 \in 0..MaxUploads /\ 0 \in 0..MaxFiles
         /\ \A t \in Task : t \in 0..MaxTasks
         /\ \A u \in UploadId : u \in 0..MaxUploads
BY DEF Bounds, Task, UploadId

LEMMA NoCallTyped ==
  ASSUME Bounds
  PROVE  /\ NoCall \in CallRec /\ NoCall.pc = "idle" /\ NoCall.op = "none" /\ NoCall.upload = 0
BY Numbers DEF NoCall, CallRec, CallPc

LEMMA NoCallPlaced ==
  ASSUME Bounds, uploads \in Nat
  PROVE  Placed(NoCall) /\ Whole(NoCall) /\ Knows(NoCall)
BY NoCallTyped DEF Placed, Whole, Knows, Ending, Merges, Placing

(* The call goes on with what it has, or ends. *)
Goes(q, r, pc) ==
  /\ r.pc = pc /\ r.op = q.op /\ r.task = q.task /\ r.upload = q.upload
  /\ r.part = q.part /\ r.file = q.file /\ r.left = q.left

LEMMA StepMoves ==
  ASSUME Bounds, TypedInv, NEW c \in Client, NEW pc \in CallPc, Step(c, pc)
  PROVE  \E r : Moves(c, r) /\ Goes(call[c], r, pc)
<1> DEFINE r == [call[c] EXCEPT !.pc = pc]
<1>1. r \in CallRec /\ Goes(call[c], r, pc)
  BY CallTyped DEF CallRec, Goes
<1>2. [call EXCEPT ![c].pc = pc] = [call EXCEPT ![c] = r]
  BY DEF TypedInv
<1> HIDE DEF r
<1> QED
  BY <1>1, <1>2 DEF Step, Moves

LEMMA EndsMoves ==
  ASSUME Bounds, NEW c \in Client, Ends(c)
  PROVE  Moves(c, NoCall)
BY NoCallTyped DEF Ends, Moves

LEMMA TypedStep ==
  ASSUME Bounds, TypedInv, StateOK', NEW c \in Client, NEW r, Moves(c, r), Placed(r)',
         Rows \subseteq Rows', uploads <= uploads'
  PROVE  TypedInv'
<1>1. /\ call' \in [Client -> CallRec] /\ call'[c] = r
      /\ \A d \in Client : d # c => call'[d] = call[d]
  BY MovesTyped
<1>2. ASSUME NEW d \in Client PROVE Placed(call[d])'
  <2>1. CASE d = c
    BY <1>1, <2>1
  <2>2. CASE d # c
    <3> SUFFICES ASSUME NEW q, q = call[d] PROVE Placed(q)'
      BY <1>1, <2>2
    <3>1. Placed(q) /\ q \in CallRec /\ uploads \in Nat /\ uploads' \in Nat
      BY CallTyped DEF Bounds, TypedInv, StateOK, RowsOK
    <3>2. q.upload \in Nat
      BY <3>1 DEF Bounds, CallRec
    <3>3. q.upload <= uploads'
      BY <3>1, <3>2 DEF Placed
    <3> QED
      BY <3>1, <3>3 DEF Placed
  <2> QED
    BY <2>1, <2>2
<1> QED
  BY <1>1, <1>2 DEF TypedInv

(* A step that writes no file parts are assembled in. *)
LEMMA WholeStep ==
  ASSUME Bounds, TypedInv, WholeInv, NEW c \in Client, NEW r, Moves(c, r),
         UNCHANGED <<files, data, temp, target, mixed>>, Held => Held',
         r.pc \notin Merges, r.pc # "finish",
         \A t \in Rows' : task'[t].completed =>
           call[c].pc = "finish" \/ \E s \in Rows : task[s].completed
  PROVE  WholeInv'
<1>1. /\ call' \in [Client -> CallRec] /\ call'[c] = r
      /\ \A d \in Client : d # c => call'[d] = call[d]
  BY MovesTyped
<1>2. FilesApart'
  BY DEF FilesApart, WholeInv
<1>3. ASSUME NEW d \in Client PROVE Whole(call[d])'
  <2>1. CASE d = c
    BY <1>1, <2>1 DEF Whole, Merges
  <2>2. CASE d # c
    <3> SUFFICES ASSUME NEW s, s = call[d] PROVE Whole(s)'
      BY <1>1, <2>2
    <3>1. Whole(s)
      BY DEF WholeInv
    <3> QED
      BY <3>1 DEF Whole
  <2> QED
    BY <2>1, <2>2
<1>4. call[c].pc = "finish" \/ (\E s \in Rows : task[s].completed) => Held
  BY DEF WholeInv, Whole
<1> QED
  BY <1>2, <1>3, <1>4 DEF WholeInv

LEMMA HeldStays ==
  ASSUME Bounds, TypedInv, NEW c \in Client, NEW r, Moves(c, r),
         UNCHANGED <<target, cut>>, call[c].pc # "replace"
  PROVE  Held => Held'
<1>1. \A d \in Client : d # c => call'[d] = call[d]
  BY MovesTyped
<1> QED
  BY <1>1 DEF Held

(* A step that leaves the rows alone. *)
LEMMA QuietStep ==
  ASSUME Bounds, TypedInv, QuietInv, NEW c \in Client, NEW r, Moves(c, r),
         UNCHANGED <<task, crossed>>,
         r.op \in {"init", "complete", "abort"} => WritesRow(c),
         ~crossed => Knows(r)
  PROVE  QuietInv'
<1>1. /\ call' \in [Client -> CallRec] /\ call'[c] = r
      /\ \A d \in Client : d # c => call'[d] = call[d]
  BY MovesTyped
<1> SUFFICES ASSUME ~crossed
             PROVE  /\ \A s, t \in Rows' : s = t
                    /\ \A d, o \in Client : d # o => ~WritesRow(d)' \/ ~WritesRow(o)'
                    /\ \A d \in Client : Knows(call[d])'
  BY DEF QuietInv
<1>2. Rows' = Rows
  BY DEF Rows
<1>3. \A s, t \in Rows' : s = t
  BY <1>2 DEF QuietInv
<1>4. \A d \in Client : WritesRow(d)' => WritesRow(d)
  BY <1>1 DEF WritesRow
<1>5. ASSUME NEW d \in Client PROVE Knows(call[d])'
  <2>1. CASE d = c
    BY <1>1, <1>2, <2>1 DEF Knows
  <2>2. CASE d # c
    BY <1>1, <1>2, <2>2 DEF Knows, QuietInv
  <2> QED
    BY <2>1, <2>2
<1> QED
  BY <1>3, <1>4, <1>5 DEF QuietInv

LEMMA KeptStep ==
  ASSUME Bounds, TypedInv, KeptInv, NEW c \in Client, NEW r, Moves(c, r),
         UNCHANGED task, crossed => crossed', failed => failed',
         \A d \in Dir : \A n \in accepted'[d] \ dir'[d] :
           \/ n \in lost'[d]
           \/ r.pc = "place" /\ d = <<r.task, r.upload>> /\ r.part = n
           \/ /\ n \in accepted[d] \ dir[d] /\ n \notin lost[d]
              /\ ~(call[c].pc = "place" /\ DirOf(c) = d /\ call[c].part = n),
         ~crossed' /\ ~failed' =>
           /\ r.pc \in {"move", "place"} /\ c \notin written' => ~Current(<<r.task, r.upload>>)
           /\ \A o \in Client \ {c} : o \in written \ written' => ~Current(DirOf(o))
           /\ \A d \in Dir : Current(d) => lost'[d] \subseteq lost[d]
  PROVE  KeptInv'
<1>1. /\ call' \in [Client -> CallRec] /\ call'[c] = r
      /\ \A d \in Client : d # c => call'[d] = call[d]
  BY MovesTyped
<1>2. /\ \A d : Current(d)' <=> Current(d)
      /\ DirOf(c)' = <<r.task, r.upload>>
      /\ \A o \in Client : o # c => DirOf(o)' = DirOf(o)
  BY <1>1 DEF Current, Active, DirOf
<1>3. ASSUME NEW d \in Dir, NEW n \in accepted'[d] \ dir'[d]
      PROVE  Replacing(d, n)' \/ n \in lost'[d]
  <2>1. CASE r.pc = "place" /\ d = <<r.task, r.upload>> /\ r.part = n
    BY <1>1, <1>2, <2>1 DEF Replacing
  <2>2. CASE /\ n \in accepted[d] \ dir[d] /\ n \notin lost[d]
             /\ ~(call[c].pc = "place" /\ DirOf(c) = d /\ call[c].part = n)
    <3>1. PICK o \in Client : call[o].pc = "place" /\ DirOf(o) = d /\ call[o].part = n
      BY <2>2 DEF KeptInv, Replacing
    <3>2. o # c
      BY <2>2, <3>1
    <3> QED
      BY <1>1, <1>2, <3>1, <3>2 DEF Replacing
  <2> QED
    BY <1>3, <2>1, <2>2
<1>4. ASSUME ~crossed', ~failed'
      PROVE  /\ \A o \in Client : call'[o].pc \in {"move", "place"} /\ o \notin written'
                                    => ~Current(DirOf(o))'
             /\ \A d \in Dir : Current(d)' => lost'[d] = {}
  <2>1. /\ \A o \in Client :
             call[o].pc \in {"move", "place"} /\ o \notin written => ~Current(DirOf(o))
        /\ \A d \in Dir : Current(d) => lost[d] = {}
    BY <1>4 DEF KeptInv
  <2>2. ASSUME NEW o \in Client, call'[o].pc \in {"move", "place"}, o \notin written'
        PROVE  ~Current(DirOf(o))'
    <3>1. CASE o = c
      BY <1>1, <1>2, <1>4, <2>2, <3>1
    <3>2. CASE o # c
      <4>1. ~Current(DirOf(o))
        BY <1>1, <1>4, <2>1, <2>2, <3>2
      <4> QED
        BY <1>2, <3>2, <4>1
    <3> QED
      BY <3>1, <3>2
  <2>3. \A d \in Dir : Current(d)' => lost'[d] = {}
    BY <1>2, <1>4, <2>1
  <2> QED
    BY <2>2, <2>3
<1> QED
  BY <1>3, <1>4 DEF KeptInv

LEMMA KeptSame ==
  ASSUME Bounds, TypedInv, KeptInv, NEW c \in Client, NEW r, Moves(c, r),
         UNCHANGED <<task, dir, written, accepted, lost>>, crossed => crossed', failed => failed',
         call[c].pc # "place", r.pc \notin {"move", "place"}
  PROVE  KeptInv'
<1>1. ASSUME NEW d \in Dir, NEW n \in accepted'[d] \ dir'[d], n \notin lost'[d]
      PROVE  /\ n \in accepted[d] \ dir[d] /\ n \notin lost[d]
             /\ ~(call[c].pc = "place" /\ DirOf(c) = d /\ call[c].part = n)
  BY <1>1
<1> QED
  BY <1>1, KeptStep

LEMMA ClearedStep ==
  ASSUME Bounds, TypedInv, ClearedInv, NEW c \in Client, NEW r, Moves(c, r),
         UNCHANGED task, crossed => crossed', failed => failed',
         ~failed' => \A d \in Dir : \A n \in dir'[d] :
           \/ Removes(r, d, n)
           \/ n \in dir[d] /\ (Removes(call[c], d, n) => Serves(d))
  PROVE  ClearedInv'
<1>1. /\ call' \in [Client -> CallRec] /\ call'[c] = r
      /\ \A d \in Client : d # c => call'[d] = call[d]
  BY MovesTyped
<1>2. \A d : Serves(d) => Serves(d)'
  BY DEF Serves, Current, Active
<1> SUFFICES ASSUME ~failed', NEW d \in Dir, NEW n \in dir'[d]
             PROVE  Serves(d)' \/ \E o \in Client : Removes(call'[o], d, n)
  BY DEF ClearedInv, Removes
<1>3. CASE Removes(r, d, n)
  BY <1>1, <1>3
<1>4. CASE n \in dir[d] /\ (Removes(call[c], d, n) => Serves(d))
  <2>1. Serves(d) \/ \E o \in Client : Removes(call[o], d, n)
    BY <1>4 DEF ClearedInv
  <2> QED
    BY <1>1, <1>2, <1>4, <2>1
<1> QED
  BY <1>3, <1>4

(* A step of the call alone. *)
LEMMA OnlyCall ==
  ASSUME Bounds, LocalInv, NEW c \in Client, NEW r, Moves(c, r),
         UNCHANGED <<rows, parts, objects, crossed, failed>>,
         Placed(r), r.pc \notin Merges \cup {"finish", "move", "place"},
         call[c].pc \notin {"clear", "recheck", "place", "replace"},
         r.op \in {"init", "complete", "abort"} => WritesRow(c),
         ~crossed => Knows(r)
  PROVE  LocalInv'
<1>1. /\ TypedInv /\ WholeInv /\ QuietInv /\ KeptInv /\ ClearedInv
      /\ UNCHANGED <<task, uploads, dir, written, accepted, lost, files, data, temp, target,
                     mixed, cut>>
  BY DEF LocalInv, rows, parts, objects
<1>2. StateOK' /\ Rows' = Rows /\ uploads <= uploads'
  <2>1. Rows' = Rows
    BY <1>1 DEF Rows
  <2> QED
    BY <1>1, <2>1 DEF Bounds, TypedInv, StateOK, RowsOK, PartsOK, ObjectsOK
<1>3. TypedInv'
  <2>1. Placed(r)'
    BY <1>1, <1>2 DEF Placed
  <2> QED
    BY <1>1, <1>2, <2>1, TypedStep
<1>4. WholeInv'
  <2>1. Held => Held'
    BY <1>1, HeldStays
  <2>2. \A t \in Rows' : task'[t].completed => \E s \in Rows : task[s].completed
    BY <1>1, <1>2
  <2> QED
    BY <1>1, <2>1, <2>2, WholeStep DEF Merges
<1>5. QuietInv'
  BY <1>1, QuietStep
<1>6. KeptInv'
  BY <1>1, KeptSame
<1>7. ClearedInv'
  <2>1. \A d, n : ~Removes(call[c], d, n)
    BY DEF Removes
  <2> QED
    BY <1>1, <2>1, ClearedStep
<1> QED
  BY <1>3, <1>4, <1>5, <1>6, <1>7 DEF LocalInv

LEMMA EndStep ==
  ASSUME Bounds, LocalInv, NEW c \in Client, Ends(c),
         UNCHANGED <<rows, parts, objects, crossed, failed>>,
         call[c].pc \notin {"clear", "recheck", "place", "replace"}
  PROVE  LocalInv'
<1>1. uploads \in Nat
  BY DEF Bounds, LocalInv, TypedInv, StateOK, RowsOK
<1> QED
  BY <1>1, EndsMoves, NoCallTyped, NoCallPlaced, OnlyCall DEF Merges
-----------------------------------------------------------------------------
(* The calls. *)
LEMMA ReceiveKeeps ==
  ASSUME Bounds, LocalInv, NEW c \in Client, NEW r \in CallRec, Receive(c, r),
         r.pc = "find", r.upload = 0, r.op \in {"init", "part", "complete", "abort"},
         r.op = "part" => r.part \in Part,
         r.op # "init" => r.task \in Rows
  PROVE  LocalInv'
<1>1. /\ TypedInv /\ WholeInv /\ QuietInv /\ KeptInv /\ ClearedInv
      /\ UNCHANGED <<task, uploads, dir, written, accepted, lost, files, data, temp, target,
                     mixed, cut, failed>>
      /\ Moves(c, r) /\ call[c].pc = "idle"
      /\ crossed' <=> crossed \/ (r.op # "part" /\ \E o \in Client \ {c} : WritesRow(o))
  BY DEF LocalInv, Receive, rows, parts, objects, Moves
<1>2. crossed' \in BOOLEAN
  <2>1. \E b \in BOOLEAN : crossed' = b
    <3> DEFINE b == crossed \/ (r.op # "part" /\ \E o \in Client \ {c} : WritesRow(o))
    <3>1. b \in BOOLEAN /\ crossed' = b
      BY DEF Receive
    <3> HIDE DEF b
    <3> QED
      BY <3>1
  <2> QED
    BY <2>1
<1>3. Rows' = Rows /\ uploads \in Nat
  BY <1>1 DEF Bounds, Rows, TypedInv, StateOK, RowsOK
<1>4. StateOK' /\ uploads <= uploads'
  BY <1>1, <1>2, <1>3 DEF TypedInv, StateOK, RowsOK, PartsOK, ObjectsOK
<1>5. TypedInv'
  <2>1. Placed(r)'
    BY <1>1, <1>3 DEF Placed, Ending, Merges, Placing
  <2> QED
    BY <1>1, <1>3, <1>4, <2>1, TypedStep
<1>6. WholeInv'
  <2>1. Held => Held'
    BY <1>1, HeldStays
  <2>2. \A t \in Rows' : task'[t].completed => \E s \in Rows : task[s].completed
    BY <1>1, <1>3
  <2> QED
    BY <1>1, <2>1, <2>2, WholeStep DEF Merges
<1>7. /\ call' \in [Client -> CallRec] /\ call'[c] = r
      /\ \A d \in Client : d # c => call'[d] = call[d]
  BY <1>1, MovesTyped
<1>8. QuietInv'
  <2> SUFFICES ASSUME ~crossed'
               PROVE  /\ \A s, t \in Rows' : s = t
                      /\ \A d, o \in Client : d # o => ~WritesRow(d)' \/ ~WritesRow(o)'
                      /\ \A d \in Client : Knows(call[d])'
    BY DEF QuietInv
  <2>1. ~crossed
    BY <1>1
  <2>2. ASSUME NEW d \in Client, NEW o \in Client, d # o, WritesRow(d)', WritesRow(o)'
        PROVE  FALSE
    <3>1. CASE d # c /\ o # c
      BY <1>1, <1>7, <2>1, <2>2, <3>1 DEF QuietInv, WritesRow
    <3>2. CASE d = c \/ o = c
      BY <1>1, <1>7, <2>2, <3>2 DEF WritesRow
    <3> QED
      BY <3>1, <3>2
  <2>3. ASSUME NEW d \in Client PROVE Knows(call[d])'
    <3>1. CASE d = c
      BY <1>1, <1>7, <3>1 DEF Knows, Ending, Merges
    <3>2. CASE d # c
      BY <1>1, <1>3, <1>7, <2>1, <3>2 DEF Knows, QuietInv
    <3> QED
      BY <3>1, <3>2
  <2> QED
    BY <1>1, <1>3, <2>1, <2>2, <2>3 DEF QuietInv
<1>9. KeptInv'
  BY <1>1, KeptSame
<1>10. ClearedInv'
  <2>1. \A d, n : ~Removes(call[c], d, n)
    BY <1>1 DEF Removes
  <2> QED
    BY <1>1, <2>1, ClearedStep
<1> QED
  BY <1>5, <1>6, <1>8, <1>9, <1>10 DEF LocalInv

LEMMA ReceivesKeep ==
  ASSUME Bounds, LocalInv, NEW c \in Client,
         \/ InitMultipart(c)
         \/ \E t \in Task : \/ \E n \in Part : UploadPart(c, t, n)
                            \/ CompleteMultipart(c, t) \/ AbortMultipart(c, t)
  PROVE  LocalInv'
<1>1. CASE InitMultipart(c)
  <2> DEFINE r == [NoCall EXCEPT !.pc = "find", !.op = "init"]
  <2>1. /\ r \in CallRec /\ r.pc = "find" /\ r.upload = 0 /\ r.op = "init"
    BY Numbers DEF NoCall, CallRec, CallPc
  <2>2. Receive(c, r)
    BY <1>1 DEF InitMultipart
  <2> HIDE DEF r
  <2> QED
    BY <2>1, <2>2, ReceiveKeeps
<1>2. ASSUME NEW t \in Task, NEW n \in Part, UploadPart(c, t, n) PROVE LocalInv'
  <2> DEFINE r == [NoCall EXCEPT !.pc = "find", !.op = "part", !.task = t, !.part = n]
  <2>1. /\ r \in CallRec /\ r.pc = "find" /\ r.upload = 0 /\ r.op = "part"
        /\ r.part = n /\ r.task = t
    BY Numbers DEF NoCall, CallRec, CallPc
  <2>2. Receive(c, r) /\ t \in Rows
    BY <1>2 DEF UploadPart, Rows
  <2> HIDE DEF r
  <2> QED
    BY <2>1, <2>2, ReceiveKeeps
<1>3. ASSUME NEW t \in Task, CompleteMultipart(c, t) PROVE LocalInv'
  <2> DEFINE r == [NoCall EXCEPT !.pc = "find", !.op = "complete", !.task = t]
  <2>1. r \in CallRec /\ r.pc = "find" /\ r.upload = 0 /\ r.op = "complete" /\ r.task = t
    BY Numbers DEF NoCall, CallRec, CallPc
  <2>2. Receive(c, r) /\ t \in Rows
    BY <1>3 DEF CompleteMultipart, Rows
  <2> HIDE DEF r
  <2> QED
    BY <2>1, <2>2, ReceiveKeeps
<1>4. ASSUME NEW t \in Task, AbortMultipart(c, t) PROVE LocalInv'
  <2> DEFINE r == [NoCall EXCEPT !.pc = "find", !.op = "abort", !.task = t]
  <2>1. r \in CallRec /\ r.pc = "find" /\ r.upload = 0 /\ r.op = "abort" /\ r.task = t
    BY Numbers DEF NoCall, CallRec, CallPc
  <2>2. Receive(c, r) /\ t \in Rows
    BY <1>4 DEF AbortMultipart, Rows
  <2> HIDE DEF r
  <2> QED
    BY <2>1, <2>2, ReceiveKeeps
<1> QED
  BY <1>1, <1>2, <1>3, <1>4

(* Of numbers there is a smallest; of the rows there are one is the newest. *)
LEMMA Smallest ==
  ASSUME NEW S, S \subseteq Nat, S # {}
  PROVE  \E n \in S : \A m \in S : n <= m
<1> DEFINE Less == {p \in Nat \X Nat : p[1] < p[2]}
<1>1. IsWellFoundedOn(Less, Nat)
  BY NatLessThanWellFounded DEF OpToRel
<1>2. \A m, n \in Nat : <<m, n>> \in Less <=> m < n
  OBVIOUS
<1> HIDE DEF Less
<1>3. PICK n \in S : \A m \in S : <<m, n>> \notin Less
  BY <1>1, WFMin
<1>4. ASSUME NEW m \in S PROVE n <= m
  <2>1. m \in Nat /\ n \in Nat /\ ~(m < n)
    BY <1>2, <1>3
  <2> QED
    BY <2>1
<1> QED
  BY <1>4

LEMMA Newest ==
  ASSUME Bounds, Rows # {}
  PROVE  \E t \in Rows : \A r \in Rows : r <= t
<1> DEFINE S == {MaxTasks - t : t \in Rows}
<1>1. S \subseteq Nat /\ S # {}
  BY DEF Bounds, Rows, Task
<1>2. \A r \in Rows : MaxTasks - r \in S
  OBVIOUS
<1>3. \A n \in S : \E t \in Rows : n = MaxTasks - t
  OBVIOUS
<1> HIDE DEF S
<1>5. PICK n \in S : \A m \in S : n <= m
  BY <1>1, Smallest
<1>6. PICK t \in Rows : n = MaxTasks - t
  BY <1>3, <1>5
<1>4. ASSUME NEW r \in Rows PROVE r <= t
  <2>1. MaxTasks - t <= MaxTasks - r
    BY <1>2, <1>5, <1>6
  <2> QED
    BY <2>1 DEF Bounds, Rows, Task
<1> QED
  BY <1>4

LEMMA FindLocalKeeps ==
  ASSUME Bounds, LocalInv, NEW c \in Client, FindLocalByObject(c)
  PROVE  LocalInv'
<1> SUFFICES ASSUME NEW q, q = call[c] PROVE LocalInv'
  OBVIOUS
<1>1. /\ TypedInv /\ q \in CallRec /\ Placed(q) /\ q.pc = "find" /\ q.op = "init"
      /\ UNCHANGED <<rows, parts, objects, crossed, failed>>
  BY CallTyped DEF LocalInv, FindLocalByObject
<1> DEFINE t == CHOOSE s \in Rows : \A r \in Rows : r <= s
<1>2. Rows # {} => t \in Rows
  BY Newest
<1>3. \/ Rows = {} /\ Step(c, "create")
      \/ Rows # {} /\ Ends(c)
      \/ /\ Rows # {} /\ ~task[t].completed
         /\ call' = [call EXCEPT ![c].pc = "save", ![c].task = t, ![c].upload = task[t].upload]
  BY DEF FindLocalByObject, Rows
<1> HIDE DEF t
<1>4. CASE Rows = {} /\ Step(c, "create")
  <2>1. PICK r : Moves(c, r) /\ Goes(q, r, "create")
    BY <1>1, <1>4, StepMoves DEF CallPc
  <2>2. Placed(r) /\ Knows(r) /\ r.op = "init"
    BY <1>1, <1>4, <2>1 DEF Goes, Placed, Knows, Ending, Merges, Placing
  <2> QED
    BY <1>1, <2>1, <2>2, OnlyCall DEF Goes, WritesRow, Merges
<1>5. CASE Ends(c)
  BY <1>1, <1>5, EndStep
<1>6. CASE /\ Rows # {} /\ ~task[t].completed
           /\ call' = [call EXCEPT ![c].pc = "save", ![c].task = t, ![c].upload = task[t].upload]
  <2> SUFFICES ASSUME NEW s, s = t, NEW u, u = task[t].upload,
                      NEW r, r = [q EXCEPT !.pc = "save", !.task = s, !.upload = u]
               PROVE  LocalInv'
    OBVIOUS
  <2>1. s \in Rows /\ s \in Task /\ u \in 0..MaxUploads /\ u <= uploads
    BY <1>1, <1>2, <1>6 DEF Rows, TypedInv, StateOK, RowsOK, TaskRow
  <2>2. /\ r \in CallRec /\ r.pc = "save" /\ r.op = "init" /\ r.task = s /\ r.upload = u
    BY <1>1, <2>1, Numbers DEF CallRec, CallPc
  <2>3. Moves(c, r)
    BY <1>1, <1>6, <2>2 DEF Moves, TypedInv
  <2>4. Placed(r) /\ Knows(r)
    BY <1>6, <2>1, <2>2 DEF Placed, Knows, Ending, Merges, Placing
  <2> QED
    BY <1>1, <2>2, <2>3, <2>4, OnlyCall DEF WritesRow, Merges
<1> QED
  BY <1>3, <1>4, <1>5, <1>6

LEMMA GetActiveKeeps ==
  ASSUME Bounds, LocalInv, NEW c \in Client, GetActiveTask(c)
  PROVE  LocalInv'
<1> SUFFICES ASSUME NEW q, q = call[c], NEW t, t = q.task,
                    NEW u, u = task[t].upload,
                    NEW pc, pc = CASE q.op = "part" -> "check"
                                   [] q.op = "complete" -> "list"
                                   [] OTHER -> "save",
                    NEW r, r = [q EXCEPT !.upload = u, !.pc = pc]
             PROVE  LocalInv'
  OBVIOUS
<1>1. /\ TypedInv /\ q \in CallRec /\ Placed(q) /\ q.pc = "find" /\ q.op # "init"
      /\ UNCHANGED <<rows, parts, objects, crossed, failed>>
  BY CallTyped DEF LocalInv, GetActiveTask
<1>2. q.op \in {"part", "complete", "abort"} /\ t \in Rows
  BY <1>1 DEF Placed, CallRec
<1>3. /\ pc \in {"check", "list", "save"}
      /\ pc = "check" <=> q.op = "part"
      /\ pc = "list" <=> q.op = "complete"
  BY <1>2
<1>4. CASE Active(t) /\ call' = [call EXCEPT ![c].upload = u, ![c].pc = pc]
  <2>1. u \in UploadId /\ u <= uploads /\ ~task[t].completed
    BY <1>1, <1>2, <1>4 DEF Bounds, Active, Rows, TypedInv, StateOK, RowsOK, TaskRow, UploadId
  <2>2. r \in CallRec /\ r.pc = pc /\ r.op = q.op /\ r.task = t /\ r.upload = u /\ r.part = q.part
    BY <1>1, <1>2, <1>3, <2>1, Numbers DEF CallRec, CallPc, Rows
  <2>3. Moves(c, r)
    BY <1>1, <1>4, <2>2 DEF Moves, TypedInv
  <2>4. Placed(r)
    BY <1>1, <1>2, <1>3, <2>1, <2>2 DEF Placed, Ending, Merges, Placing
  <2>5. Knows(r)
    BY <1>3, <2>1, <2>2 DEF Knows, Ending, Merges
  <2> QED
    BY <1>1, <1>3, <2>2, <2>3, <2>4, <2>5, OnlyCall DEF WritesRow, Merges
<1>5. CASE Ends(c)
  BY <1>1, <1>5, EndStep
<1> QED
  BY <1>4, <1>5 DEF GetActiveTask

-----------------------------------------------------------------------------
(* The parts. *)
LEMMA PartOf ==
  ASSUME Bounds, TypedInv, NEW c \in Client, call[c].pc \in Placing
  PROVE  /\ DirOf(c) \in Dir /\ DirOf(c) = <<call[c].task, call[c].upload>>
         /\ DirOf(c)[1] = call[c].task /\ DirOf(c)[2] = call[c].upload
         /\ call[c].part \in Part /\ call[c].op = "part" /\ call[c].task \in Rows
         /\ ~(DirOf(c)[2] > uploads)
<1>1. call[c] \in CallRec /\ Placed(call[c]) /\ call[c].pc # "find" /\ uploads \in Nat
  BY CallTyped DEF Bounds, TypedInv, StateOK, RowsOK, Placing
<1>2. /\ call[c].op = "part" /\ call[c].part \in Part /\ call[c].task \in Rows
      /\ call[c].upload \in UploadId /\ call[c].upload <= uploads
  BY <1>1 DEF Placed
<1>3. call[c].task \in Task /\ call[c].upload \in Nat
  BY <1>2 DEF Rows, UploadId
<1> QED
  BY <1>1, <1>2, <1>3 DEF DirOf, Dir

(* What does not concern the parts in a step of a call that uploads one.     *)
LEMMA PartStep ==
  ASSUME Bounds, LocalInv, NEW c \in Client, NEW r, Moves(c, r), call[c].pc \in Placing,
         r = NoCall \/ \E pc \in Placing : Goes(call[c], r, pc),
         UNCHANGED <<rows, files, data, temp, target, mixed, crossed>>,
         PartsOK', cut' \in BOOLEAN, Held => Held', failed' \in BOOLEAN
  PROVE  TypedInv' /\ WholeInv' /\ QuietInv'
<1> SUFFICES ASSUME NEW q, q = call[c] PROVE TypedInv' /\ WholeInv' /\ QuietInv'
  OBVIOUS
<1>1. /\ TypedInv /\ WholeInv /\ QuietInv /\ Placed(q) /\ q.op = "part" /\ q.pc \in Placing
      /\ UNCHANGED <<task, uploads>> /\ uploads \in Nat
  BY CallTyped, PartOf DEF LocalInv, rows, TypedInv, StateOK, RowsOK
<1>2. Rows' = Rows /\ StateOK' /\ uploads <= uploads'
  <2>1. Rows' = Rows
    BY <1>1 DEF Rows
  <2>2. RowsOK'
    BY <1>1, <2>1 DEF TypedInv, StateOK, RowsOK
  <2>3. ObjectsOK'
    BY <1>1 DEF TypedInv, StateOK, ObjectsOK
  <2> QED
    BY <1>1, <2>1, <2>2, <2>3 DEF TypedInv, StateOK
<1>3. Placed(r) /\ Knows(r) /\ r.pc \notin Merges /\ r.pc # "finish"
      /\ r.op \notin {"init", "complete", "abort"}
  <2>1. CASE r = NoCall
    BY <1>1, <2>1, NoCallTyped, NoCallPlaced DEF Merges
  <2>2. CASE \E pc \in Placing : Goes(q, r, pc)
    BY <1>1, <2>2 DEF Goes, Placed, Knows, Placing, Ending, Merges
  <2> QED
    BY <2>1, <2>2
<1>4. TypedInv'
  <2>1. Placed(r)'
    BY <1>1, <1>2, <1>3 DEF Placed
  <2> QED
    BY <1>1, <1>2, <2>1, TypedStep
<1>5. WholeInv'
  <2>1. \A t \in Rows' : task'[t].completed => \E s \in Rows : task[s].completed
    BY <1>1, <1>2
  <2> QED
    BY <1>1, <1>3, <2>1, WholeStep
<1>6. QuietInv'
  BY <1>1, <1>3, QuietStep
<1> QED
  BY <1>4, <1>5, <1>6

(* The part file of the call is removed. *)
LEMMA DropStep ==
  ASSUME Bounds, LocalInv, NEW c \in Client, DropPart(c), call[c].pc \in Placing,
         UNCHANGED <<rows, files, data, temp, target, mixed, accepted, crossed>>,
         cut' \in BOOLEAN, Held => Held', failed' \in BOOLEAN, failed => failed',
         crossed \/ failed' \/ ~Current(DirOf(c))
  PROVE  LocalInv'
<1> SUFFICES ASSUME NEW q, q = call[c], NEW e, e = DirOf(c), NEW p, p = q.part
             PROVE  LocalInv'
  OBVIOUS
<1>1. /\ TypedInv /\ WholeInv /\ QuietInv /\ KeptInv /\ ClearedInv
      /\ Placed(q) /\ e \in Dir /\ e = <<q.task, q.upload>> /\ p \in Part /\ ~(e[2] > uploads)
      /\ dir' = [dir EXCEPT ![e] = @ \ {p}] /\ written' = written \ {c}
      /\ lost' = [lost EXCEPT ![e] = @ \cup ({p} \cap accepted[e])]
      /\ Moves(c, NoCall) /\ UNCHANGED <<task, uploads, accepted>>
  BY CallTyped, EndsMoves, PartOf DEF LocalInv, DropPart, TakePart, rows
<1>2. /\ dir' \in [Dir -> SUBSET Part] /\ lost' \in [Dir -> SUBSET Part]
      /\ dir'[e] = dir[e] \ {p} /\ lost'[e] = lost[e] \cup ({p} \cap accepted[e])
      /\ \A d \in Dir : d # e => dir'[d] = dir[d] /\ lost'[d] = lost[d]
  BY <1>1 DEF TypedInv, StateOK, PartsOK
<1>3. PartsOK'
  <2>1. \A d \in Dir : d[2] > uploads' => dir'[d] = {} /\ accepted'[d] = {} /\ lost'[d] = {}
    BY <1>1, <1>2 DEF TypedInv, StateOK, PartsOK
  <2> QED
    BY <1>1, <1>2, <2>1 DEF TypedInv, StateOK, PartsOK
<1>4. TypedInv' /\ WholeInv' /\ QuietInv'
  BY <1>1, <1>3, PartStep
<1>5. KeptInv'
  <2>1. ASSUME NEW d \in Dir, NEW n \in accepted'[d] \ dir'[d], n \notin lost'[d]
        PROVE  /\ n \in accepted[d] \ dir[d] /\ n \notin lost[d]
               /\ ~(q.pc = "place" /\ DirOf(c) = d /\ q.part = n)
    BY <1>1, <1>2, <2>1
  <2>2. ASSUME ~crossed', ~failed'
        PROVE  /\ \A o \in Client \ {c} : o \in written \ written' => ~Current(DirOf(o))
               /\ \A d \in Dir : Current(d) => lost'[d] \subseteq lost[d]
    BY <1>1, <1>2, <2>2
  <2>3. ~(NoCall.pc \in {"move", "place"} /\ c \notin written')
    BY NoCallTyped
  <2>8. \A d \in Dir : \A n \in accepted'[d] \ dir'[d] :
          \/ n \in lost'[d]
          \/ /\ n \in accepted[d] \ dir[d] /\ n \notin lost[d]
             /\ ~(call[c].pc = "place" /\ DirOf(c) = d /\ call[c].part = n)
    BY <2>1
  <2>9. UNCHANGED task /\ (crossed => crossed') /\ (failed => failed')
    BY <1>1
  <2> QED
    BY <1>1, <2>2, <2>3, <2>8, <2>9, KeptStep
<1>6. ClearedInv'
  <2>1. ASSUME NEW d \in Dir, NEW n \in dir'[d]
        PROVE  n \in dir[d] /\ ~Removes(q, d, n)
    <3>1. q.pc # "clear"
      BY DEF Placing
    <3>2. d = e => n # p
      BY <1>2, <2>1
    <3> QED
      BY <1>1, <1>2, <2>1, <3>1, <3>2 DEF Removes
  <2> QED
    BY <1>1, <2>1, ClearedStep
<1> QED
  BY <1>4, <1>5, <1>6 DEF LocalInv

LEMMA StillCurrent ==
  ASSUME Bounds, TypedInv, NEW c \in Client, call[c].pc \in Placing
  PROVE  StillActive(c) <=> Current(DirOf(c))
BY PartOf DEF StillActive, Current, Names, Active

LEMMA CheckPartKeeps ==
  ASSUME Bounds, LocalInv, NEW c \in Client, CheckPart(c)
  PROVE  LocalInv'
<1> SUFFICES ASSUME NEW q, q = call[c] PROVE LocalInv'
  OBVIOUS
<1>1. /\ TypedInv /\ KeptInv /\ ClearedInv /\ q.pc = "check" /\ q.pc \in Placing
      /\ UNCHANGED <<rows, files, data, temp, target, mixed, cut, accepted, crossed, failed>>
      /\ UNCHANGED <<task, uploads>> /\ failed \in BOOLEAN /\ cut \in BOOLEAN
  BY DEF LocalInv, CheckPart, TypedInv, StateOK, ObjectsOK, rows, objects, Placing
<1>2. CASE Step(c, "move") /\ written' = written \cup {c} /\ UNCHANGED <<dir, lost>>
  <2>1. PICK r : Moves(c, r) /\ Goes(q, r, "move")
    BY <1>1, <1>2, StepMoves DEF CallPc
  <2>2. PartsOK'
    BY <1>1, <1>2 DEF TypedInv, StateOK, PartsOK
  <2>3. Held => Held'
    BY <1>1, <2>1, HeldStays
  <2>4. TypedInv' /\ WholeInv' /\ QuietInv'
    BY <1>1, <2>1, <2>2, <2>3, PartStep DEF Placing
  <2>5. KeptInv'
    <3>1. ASSUME NEW d \in Dir, NEW n \in accepted'[d] \ dir'[d], n \notin lost'[d]
          PROVE  /\ n \in accepted[d] \ dir[d] /\ n \notin lost[d]
                 /\ ~(q.pc = "place" /\ DirOf(c) = d /\ q.part = n)
      BY <1>1, <1>2, <3>1
    <3>2. /\ ~(r.pc \in {"move", "place"} /\ c \notin written')
          /\ \A o \in Client \ {c} : ~(o \in written \ written')
          /\ \A d \in Dir : lost'[d] \subseteq lost[d]
      BY <1>2
    <3> QED
      BY <1>1, <2>1, <3>1, <3>2, KeptStep
  <2>6. ClearedInv'
    <3>1. \A d, n : ~Removes(q, d, n)
      BY <1>1 DEF Removes
    <3> QED
      BY <1>1, <1>2, <2>1, <3>1, ClearedStep
  <2> QED
    BY <2>4, <2>5, <2>6 DEF LocalInv
<1>3. CASE ~StillActive(c) /\ DropPart(c)
  <2>1. Held => Held'
    BY <1>1, <1>3, EndsMoves, HeldStays DEF DropPart
  <2>2. ~Current(DirOf(c))
    BY <1>1, <1>3, StillCurrent
  <2> QED
    BY <1>1, <1>3, <2>1, <2>2, DropStep
<1> QED
  BY <1>2, <1>3 DEF CheckPart

(* The file of a part is removed for the one that comes. *)
LEMMA TakeStep ==
  ASSUME Bounds, LocalInv, NEW c \in Client, TakePart(c), Step(c, "place"),
         call[c].pc = "move", c \in written,
         UNCHANGED <<rows, objects, written, accepted, lost, crossed, failed>>
  PROVE  LocalInv'
<1> SUFFICES ASSUME NEW q, q = call[c], NEW e, e = DirOf(c), NEW p, p = q.part
             PROVE  LocalInv'
  OBVIOUS
<1>1. /\ TypedInv /\ KeptInv /\ ClearedInv /\ q.pc = "move" /\ q.pc \in Placing
      /\ e \in Dir /\ e = <<q.task, q.upload>> /\ p \in Part
      /\ UNCHANGED <<files, data, temp, target, mixed, cut>>
      /\ UNCHANGED <<task, uploads>> /\ failed \in BOOLEAN /\ cut \in BOOLEAN
      /\ dir' = [dir EXCEPT ![e] = @ \ {p}]
  BY PartOf DEF LocalInv, TypedInv, StateOK, ObjectsOK, rows, objects, Placing, TakePart
<1>2. PICK r : Moves(c, r) /\ Goes(q, r, "place")
  BY <1>1, StepMoves DEF CallPc
<1>3. /\ dir' \in [Dir -> SUBSET Part] /\ dir'[e] = dir[e] \ {p}
      /\ \A d \in Dir : d # e => dir'[d] = dir[d]
  BY <1>1 DEF TypedInv, StateOK, PartsOK
<1>4. PartsOK'
  <2>1. \A d \in Dir : d[2] > uploads' => dir'[d] = {}
    BY <1>1, <1>3 DEF TypedInv, StateOK, PartsOK
  <2> QED
    BY <1>1, <1>3, <2>1 DEF TypedInv, StateOK, PartsOK
<1>5. TypedInv' /\ WholeInv' /\ QuietInv'
  <2>1. Held => Held'
    BY <1>1, <1>2, HeldStays
  <2> QED
    BY <1>1, <1>2, <1>4, <2>1, PartStep DEF Placing
<1>6. KeptInv'
  <2>1. ASSUME NEW d \in Dir, NEW n \in accepted'[d] \ dir'[d], n \notin lost'[d]
        PROVE  \/ r.pc = "place" /\ d = <<r.task, r.upload>> /\ r.part = n
               \/ /\ n \in accepted[d] \ dir[d] /\ n \notin lost[d]
                  /\ ~(q.pc = "place" /\ DirOf(c) = d /\ q.part = n)
    BY <1>1, <1>2, <1>3, <2>1 DEF Goes
  <2> QED
    BY <1>1, <1>2, <2>1, KeptStep
<1>7. ClearedInv'
  <2>1. \A d, n : ~Removes(q, d, n)
    BY <1>1 DEF Removes
  <2>2. \A d \in Dir : \A n \in dir'[d] : n \in dir[d]
    BY <1>3
  <2> QED
    BY <1>1, <1>2, <2>1, <2>2, ClearedStep
<1> QED
  BY <1>5, <1>6, <1>7 DEF LocalInv

(* A temporary file that is gone is that of an upload that ended. *)
LEMMA GoneStep ==
  ASSUME Bounds, LocalInv, NEW c \in Client, DropPart(c), call[c].pc \in {"move", "place"},
         c \notin written, UNCHANGED <<rows, objects, accepted, crossed, failed>>
  PROVE  LocalInv'
<1>1. /\ TypedInv /\ KeptInv /\ call[c].pc \in Placing /\ Moves(c, NoCall)
      /\ UNCHANGED <<files, data, temp, target, mixed, cut>>
      /\ failed \in BOOLEAN /\ cut \in BOOLEAN
  BY EndsMoves DEF LocalInv, TypedInv, StateOK, ObjectsOK, objects, Placing, DropPart
<1>2. Held => Held'
  BY <1>1, HeldStays
<1>3. crossed \/ failed' \/ ~Current(DirOf(c))
  BY <1>1 DEF KeptInv
<1> QED
  BY <1>1, <1>2, <1>3, DropStep

LEMMA MovePartKeeps ==
  ASSUME Bounds, LocalInv, NEW c \in Client, MovePart(c)
  PROVE  LocalInv'
<1>1. CASE c \in written /\ TakePart(c) /\ Step(c, "place") /\ UNCHANGED <<written, lost>>
  BY <1>1, TakeStep DEF MovePart
<1>2. CASE c \notin written /\ DropPart(c)
  BY <1>2, GoneStep DEF MovePart
<1> QED
  BY <1>1, <1>2 DEF MovePart

(* The part is in place, and is accepted unless the upload ended. *)
LEMMA PlaceStep ==
  ASSUME Bounds, LocalInv, NEW c \in Client, Step(c, "recheck"), call[c].pc = "place",
         written' = written \ {c},
         dir' = [dir EXCEPT ![DirOf(c)] = @ \cup {call[c].part}],
         lost' = [lost EXCEPT ![DirOf(c)] = @ \ {call[c].part}],
         UNCHANGED <<rows, objects, accepted, crossed, failed>>
  PROVE  LocalInv'
<1> SUFFICES ASSUME NEW q, q = call[c], NEW e, e = DirOf(c), NEW p, p = q.part
             PROVE  LocalInv'
  OBVIOUS
<1>1. /\ TypedInv /\ KeptInv /\ ClearedInv /\ q.pc = "place" /\ q.pc \in Placing
      /\ e \in Dir /\ e = <<q.task, q.upload>> /\ p \in Part /\ ~(e[2] > uploads)
      /\ UNCHANGED <<files, data, temp, target, mixed, cut>>
      /\ UNCHANGED <<task, uploads>> /\ failed \in BOOLEAN /\ cut \in BOOLEAN
  BY PartOf DEF LocalInv, TypedInv, StateOK, ObjectsOK, rows, objects, Placing
<1>2. PICK r : Moves(c, r) /\ Goes(q, r, "recheck")
  BY StepMoves, <1>1 DEF CallPc
<1>3. /\ dir' \in [Dir -> SUBSET Part] /\ dir'[e] = dir[e] \cup {p}
      /\ lost' \in [Dir -> SUBSET Part] /\ lost'[e] = lost[e] \ {p}
      /\ \A d \in Dir : d # e => dir'[d] = dir[d] /\ lost'[d] = lost[d]
  BY <1>1 DEF TypedInv, StateOK, PartsOK
<1>4. PartsOK'
  <2>1. \A d \in Dir : d[2] > uploads' => dir'[d] = {} /\ lost'[d] = {}
    BY <1>1, <1>3 DEF TypedInv, StateOK, PartsOK
  <2> QED
    BY <1>1, <1>3, <2>1 DEF TypedInv, StateOK, PartsOK
<1>5. TypedInv' /\ WholeInv' /\ QuietInv'
  <2>1. Held => Held'
    BY <1>1, <1>2, HeldStays
  <2> QED
    BY <1>1, <1>2, <1>4, <2>1, PartStep DEF Placing
<1>6. KeptInv'
  <2>1. ASSUME NEW d \in Dir, NEW n \in accepted'[d] \ dir'[d], n \notin lost'[d]
        PROVE  /\ n \in accepted[d] \ dir[d] /\ n \notin lost[d]
               /\ ~(q.pc = "place" /\ DirOf(c) = d /\ q.part = n)
    BY <1>1, <1>3, <2>1
  <2>2. /\ ~(r.pc \in {"move", "place"} /\ c \notin written')
        /\ \A o \in Client \ {c} : ~(o \in written \ written')
        /\ \A d \in Dir : lost'[d] \subseteq lost[d]
    BY <1>1, <1>2, <1>3 DEF Goes
  <2>8. \A d \in Dir : \A n \in accepted'[d] \ dir'[d] :
          \/ n \in lost'[d]
          \/ /\ n \in accepted[d] \ dir[d] /\ n \notin lost[d]
             /\ ~(call[c].pc = "place" /\ DirOf(c) = d /\ call[c].part = n)
    BY <2>1
  <2>9. UNCHANGED task /\ (crossed => crossed') /\ (failed => failed')
    BY <1>1
  <2> QED
    BY <1>1, <1>2, <2>2, <2>8, <2>9, KeptStep
<1>7. ClearedInv'
  <2>1. \A d, n : ~Removes(q, d, n)
    BY <1>1 DEF Removes
  <2>2. \A d \in Dir : \A n \in dir'[d] : n \in dir[d] \/ Removes(r, d, n)
    BY <1>1, <1>2, <1>3 DEF Removes, Goes
  <2> QED
    BY <1>1, <1>2, <2>1, <2>2, ClearedStep
<1> QED
  BY <1>5, <1>6, <1>7 DEF LocalInv

LEMMA PlacePartKeeps ==
  ASSUME Bounds, LocalInv, NEW c \in Client, PlacePart(c)
  PROVE  LocalInv'
<1>1. CASE /\ c \in written /\ Step(c, "recheck")
           /\ written' = written \ {c}
           /\ dir' = [dir EXCEPT ![DirOf(c)] = @ \cup {call[c].part}]
           /\ lost' = [lost EXCEPT ![DirOf(c)] = @ \ {call[c].part}]
  BY <1>1, PlaceStep DEF PlacePart
<1>2. CASE c \notin written /\ DropPart(c)
  BY <1>2, GoneStep DEF PlacePart
<1> QED
  BY <1>1, <1>2 DEF PlacePart

LEMMA RecheckPartKeeps ==
  ASSUME Bounds, LocalInv, NEW c \in Client, RecheckPart(c)
  PROVE  LocalInv'
<1> SUFFICES ASSUME NEW q, q = call[c], NEW e, e = DirOf(c), NEW p, p = q.part
             PROVE  LocalInv'
  OBVIOUS
<1>1. /\ TypedInv /\ KeptInv /\ ClearedInv /\ q.pc = "recheck" /\ q.pc \in Placing
      /\ e \in Dir /\ e = <<q.task, q.upload>> /\ p \in Part
      /\ UNCHANGED <<rows, files, data, temp, target, mixed, cut, crossed, failed>>
      /\ UNCHANGED <<task, uploads>> /\ failed \in BOOLEAN /\ cut \in BOOLEAN
      /\ Moves(c, NoCall)
  BY PartOf, EndsMoves
     DEF LocalInv, RecheckPart, TypedInv, StateOK, ObjectsOK, rows, objects, Placing, DropPart,
         AnswerPart
<1>2. Held => Held'
  BY <1>1, HeldStays
<1>3. StillActive(c) <=> Current(e)
  BY <1>1, StillCurrent
<1>4. CASE ~StillActive(c) /\ DropPart(c) /\ UNCHANGED accepted
  BY <1>1, <1>2, <1>3, <1>4, DropStep
<1>5. CASE StillActive(c) /\ AnswerPart(c)
  <2>1. /\ UNCHANGED <<dir, written, lost>>
        /\ accepted' \in [Dir -> SUBSET Part]
        /\ \A d \in Dir : /\ accepted'[d] \subseteq accepted[d] \cup dir[d]
                          /\ dir[d] = {} => accepted'[d] = accepted[d]
    BY <1>1, <1>5 DEF AnswerPart, TypedInv, StateOK, PartsOK
  <2>2. PartsOK'
    BY <1>1, <2>1 DEF TypedInv, StateOK, PartsOK
  <2>3. TypedInv' /\ WholeInv' /\ QuietInv'
    BY <1>1, <1>2, <2>2, PartStep
  <2>4. KeptInv'
    <3>1. ASSUME NEW d \in Dir, NEW n \in accepted'[d] \ dir'[d], n \notin lost'[d]
          PROVE  /\ n \in accepted[d] \ dir[d] /\ n \notin lost[d]
                 /\ ~(q.pc = "place" /\ e = d /\ p = n)
      BY <1>1, <2>1, <3>1
    <3>2. /\ ~(NoCall.pc \in {"move", "place"} /\ c \notin written')
          /\ \A o \in Client \ {c} : ~(o \in written \ written')
          /\ \A d \in Dir : lost'[d] \subseteq lost[d]
      BY <2>1, NoCallTyped
    <3> QED
      BY <1>1, <3>1, <3>2, KeptStep
  <2>5. ClearedInv'
    <3>1. ASSUME NEW d \in Dir, NEW n \in dir'[d]
          PROVE  n \in dir[d] /\ (Removes(q, d, n) => Serves(d))
      BY <1>1, <1>3, <1>5, <2>1, <3>1 DEF Removes, Serves
    <3> QED
      BY <1>1, <3>1, ClearedStep
  <2> QED
    BY <2>3, <2>4, <2>5 DEF LocalInv
<1> QED
  BY <1>4, <1>5 DEF RecheckPart

-----------------------------------------------------------------------------
(* The rows. *)
LEMMA QuietWrite ==
  ASSUME Bounds, TypedInv, QuietInv, NEW c \in Client, NEW r, Moves(c, r), WritesRow(c),
         UNCHANGED crossed,
         ~crossed => (\A s, t \in Rows' : s = t) /\ Knows(r)'
  PROVE  QuietInv'
<1>1. /\ call' \in [Client -> CallRec] /\ call'[c] = r
      /\ \A d \in Client : d # c => call'[d] = call[d]
  BY MovesTyped
<1> SUFFICES ASSUME ~crossed
             PROVE  /\ \A d, o \in Client : d # o => ~WritesRow(d)' \/ ~WritesRow(o)'
                    /\ \A d \in Client : Knows(call[d])'
  BY DEF QuietInv
<1>2. ASSUME NEW d \in Client, d # c PROVE ~WritesRow(d) /\ ~WritesRow(d)'
  BY <1>1, <1>2 DEF QuietInv, WritesRow
<1>3. ASSUME NEW d \in Client PROVE Knows(call[d])'
  <2>1. CASE d = c
    BY <1>1, <2>1
  <2>2. CASE d # c
    <3>1. Placed(call[d]) /\ call[d].op \notin {"init", "complete", "abort"}
      BY <1>2, <2>2, CallTyped DEF WritesRow
    <3>2. call[d].pc \notin {"create", "save", "clear"} \cup Ending
      BY <3>1 DEF Placed
    <3> QED
      BY <1>1, <2>2, <3>2 DEF Knows
  <2> QED
    BY <2>1, <2>2
<1> QED
  BY <1>2, <1>3

(* A row that is written is on the upload it was on, or on a new one.        *)
LEMMA KeptWrite ==
  ASSUME Bounds, TypedInv, KeptInv, NEW c \in Client, NEW r, Moves(c, r),
         UNCHANGED <<parts, crossed, failed>>, call[c].pc # "place", r.pc \notin {"move", "place"},
         ~crossed => \A d \in Dir : Current(d)' => Current(d) \/ d[2] > uploads
  PROVE  KeptInv'
<1>1. /\ call' \in [Client -> CallRec] /\ call'[c] = r
      /\ \A d \in Client : d # c => call'[d] = call[d]
      /\ UNCHANGED <<dir, written, accepted, lost>>
  BY MovesTyped DEF parts
<1>2. \A o \in Client : o # c => DirOf(o)' = DirOf(o)
  BY <1>1 DEF DirOf
<1>3. ASSUME NEW d \in Dir, NEW n \in accepted'[d] \ dir'[d]
      PROVE  Replacing(d, n)' \/ n \in lost'[d]
  <2>1. Replacing(d, n) \/ n \in lost[d]
    BY <1>1, <1>3 DEF KeptInv
  <2> QED
    BY <1>1, <1>2, <2>1 DEF Replacing
<1>4. ASSUME ~crossed', ~failed'
      PROVE  /\ \A o \in Client : call'[o].pc \in {"move", "place"} /\ o \notin written'
                                    => ~Current(DirOf(o))'
             /\ \A d \in Dir : Current(d)' => lost'[d] = {}
  <2>1. /\ \A o \in Client :
             call[o].pc \in {"move", "place"} /\ o \notin written => ~Current(DirOf(o))
        /\ \A d \in Dir : Current(d) => lost[d] = {}
        /\ \A d \in Dir : Current(d)' => Current(d) \/ d[2] > uploads
    BY <1>4 DEF KeptInv
  <2>2. ASSUME NEW o \in Client, call'[o].pc \in {"move", "place"}, o \notin written'
        PROVE  ~Current(DirOf(o))'
    <3> SUFFICES ASSUME NEW e, e = DirOf(o) PROVE ~Current(e)'
      BY <1>1, <1>2, <2>2
    <3>1. o # c /\ call[o].pc \in {"move", "place"} /\ o \notin written
      BY <1>1, <2>2
    <3>2. e \in Dir /\ ~(e[2] > uploads)
      BY <3>1, PartOf DEF Placing
    <3> QED
      BY <2>1, <3>1, <3>2
  <2>3. \A d \in Dir : Current(d)' => lost'[d] = {}
    BY <1>1, <2>1 DEF TypedInv, StateOK, PartsOK
  <2> QED
    BY <2>2, <2>3
<1> QED
  BY <1>3, <1>4 DEF KeptInv

LEMMA ClearedWrite ==
  ASSUME Bounds, TypedInv, ClearedInv, NEW c \in Client, NEW r, Moves(c, r),
         UNCHANGED <<parts, crossed, failed>>, call[c].pc \notin {"clear", "recheck"},
         \A d \in Dir : Serves(d) => Serves(d)' \/ \A n : Removes(r, d, n)
  PROVE  ClearedInv'
<1>1. /\ call' \in [Client -> CallRec] /\ call'[c] = r
      /\ \A d \in Client : d # c => call'[d] = call[d]
      /\ UNCHANGED dir
  BY MovesTyped DEF parts
<1> SUFFICES ASSUME ~failed, NEW d \in Dir, NEW n \in dir[d]
             PROVE  Serves(d)' \/ \E o \in Client : Removes(call'[o], d, n)
  BY <1>1 DEF ClearedInv, Removes
<1>2. CASE Serves(d)
  BY <1>1, <1>2
<1>3. ASSUME NEW o \in Client, Removes(call[o], d, n)
      PROVE  \E e \in Client : Removes(call'[e], d, n)
  BY <1>1, <1>3 DEF Removes
<1> QED
  BY <1>2, <1>3 DEF ClearedInv

(* What does not concern the rows in a step that writes one.                 *)
LEMMA WriteStep ==
  ASSUME Bounds, LocalInv, NEW c \in Client, NEW r, Moves(c, r),
         UNCHANGED <<parts, objects, crossed, failed>>, call[c].pc \in {"create", "save", "finish"},
         r.pc \notin Merges, r.pc # "finish", Placed(r)', RowsOK', Rows \subseteq Rows',
         uploads' \in Nat, uploads <= uploads',
         \A t \in Rows' : task'[t].completed =>
           call[c].pc = "finish" \/ \E s \in Rows : task[s].completed
  PROVE  TypedInv' /\ WholeInv'
<1>1. /\ TypedInv /\ WholeInv /\ uploads \in Nat
      /\ UNCHANGED <<dir, written, accepted, lost, files, data, temp, target, mixed, cut>>
  BY DEF LocalInv, parts, objects, TypedInv, StateOK, RowsOK
<1>2. StateOK'
  <2>1. ASSUME NEW d \in Dir, d[2] > uploads'
        PROVE  dir'[d] = {} /\ accepted'[d] = {} /\ lost'[d] = {}
    <3>1. d[2] \in Nat
      BY DEF Dir, UploadId
    <3>2. d[2] > uploads
      BY <1>1, <2>1, <3>1
    <3> QED
      BY <1>1, <3>2 DEF TypedInv, StateOK, PartsOK
  <2>2. PartsOK'
    BY <1>1, <2>1 DEF TypedInv, StateOK, PartsOK
  <2>3. ObjectsOK'
    BY <1>1 DEF TypedInv, StateOK, ObjectsOK
  <2> QED
    BY <2>2, <2>3 DEF LocalInv, TypedInv, StateOK
<1>3. Held => Held'
  BY <1>1, HeldStays
<1> QED
  BY <1>1, <1>2, <1>3, TypedStep, WholeStep

LEMMA CreateKeeps ==
  ASSUME Bounds, LocalInv, NEW c \in Client, CreateLocalUploadTask(c)
  PROVE  LocalInv'
<1> SUFFICES ASSUME NEW q, q = call[c], NEW u, u = uploads + 1 PROVE LocalInv'
  OBVIOUS
<1>1. /\ TypedInv /\ WholeInv /\ QuietInv /\ KeptInv /\ ClearedInv
      /\ q \in CallRec /\ Placed(q) /\ q.pc = "create" /\ q.op = "init"
      /\ Moves(c, NoCall) /\ WritesRow(c)
      /\ UNCHANGED <<parts, objects, crossed, failed>>
  BY CallTyped, EndsMoves DEF LocalInv, CreateLocalUploadTask, Placed, WritesRow
<1>2. PICK t \in Task : /\ task[t] = None
                        /\ task' = [task EXCEPT ![t] = [upload |-> u, completed |-> FALSE]]
  BY DEF CreateLocalUploadTask
<1>3. uploads' = u /\ u \in UploadId /\ uploads \in Nat /\ u \in Nat /\ uploads <= u /\ uploads < u
  BY <1>1 DEF CreateLocalUploadTask, TypedInv, StateOK, RowsOK, Bounds, UploadId
<1>4. /\ task'[t] = [upload |-> u, completed |-> FALSE]
      /\ [upload |-> u, completed |-> FALSE] \in TaskRow
      /\ \A s \in Task : s # t => task'[s] = task[s]
      /\ task' \in [Task -> TaskRow \cup {None}]
  BY <1>1, <1>2, <1>3, Numbers DEF TypedInv, StateOK, RowsOK, TaskRow
<1>5. Rows' = Rows \cup {t} /\ t \notin Rows
  BY <1>2, <1>4 DEF Rows, Bounds
<1>6. RowsOK'
  <2>1. \A s \in Rows' : task'[s].upload <= uploads'
    <3> SUFFICES ASSUME NEW s \in Rows' PROVE task'[s].upload <= uploads'
      OBVIOUS
    <3>1. CASE s = t
      BY <1>3, <1>4, <3>1
    <3>2. CASE s \in Rows
      <4>1. task[s] \in TaskRow /\ task[s].upload <= uploads /\ task'[s] = task[s]
        BY <1>1, <1>4, <1>5, <3>2 DEF TypedInv, StateOK, RowsOK, Rows
      <4> QED
        BY <1>3, <4>1 DEF TaskRow
    <3> QED
      BY <1>5, <3>1, <3>2
  <2>2. uploads' \in 0..MaxUploads
    BY <1>3, Numbers
  <2> QED
    BY <1>4, <2>1, <2>2 DEF RowsOK
<1>7. TypedInv' /\ WholeInv'
  <2>1. Placed(NoCall)'
    BY <1>3, NoCallTyped DEF Placed, Ending, Merges, Placing
  <2>2. \A s \in Rows' : task'[s].completed => \E r \in Rows : task[r].completed
    BY <1>4, <1>5 DEF Rows
  <2> QED
    BY <1>1, <1>3, <1>5, <1>6, <2>1, <2>2, NoCallTyped, WriteStep DEF Merges
<1>8. ~crossed => Rows = {}
  BY <1>1 DEF QuietInv, Knows
<1>9. QuietInv'
  <2>1. Knows(NoCall)'
    BY NoCallTyped DEF Knows, Ending, Merges
  <2> QED
    BY <1>1, <1>5, <1>8, <2>1, QuietWrite
<1>10. KeptInv'
  <2>1. ASSUME ~crossed, NEW d \in Dir, Current(d)' PROVE d[2] > uploads
    <3>1. d[1] = t
      BY <1>5, <1>8, <2>1 DEF Current, Active, Dir, Rows
    <3> QED
      BY <1>3, <1>4, <2>1, <3>1 DEF Current
  <2> QED
    BY <1>1, <2>1, NoCallTyped, KeptWrite
<1>11. ClearedInv'
  <2>1. ASSUME NEW d \in Dir, Serves(d) PROVE Serves(d)'
    <3>1. d[1] \in Rows
      BY <2>1 DEF Serves, Current, Active, Dir, Rows
    <3>2. task'[d[1]] = task[d[1]]
      BY <1>4, <1>5, <3>1 DEF Rows
    <3> QED
      BY <1>1, <2>1, <3>2 DEF Serves, Current, Active
  <2> QED
    BY <1>1, <2>1, ClearedWrite
<1> QED
  BY <1>7, <1>9, <1>10, <1>11 DEF LocalInv

LEMMA SaveInitKeeps ==
  ASSUME Bounds, LocalInv, NEW c \in Client, SaveInit(c)
  PROVE  LocalInv'
<1> SUFFICES ASSUME NEW q, q = call[c], NEW t, t = q.task,
                    NEW v, v = IF q.upload # 0 THEN q.upload ELSE uploads'
             PROVE  LocalInv'
  OBVIOUS
<1>1. /\ TypedInv /\ WholeInv /\ QuietInv /\ KeptInv /\ ClearedInv
      /\ q \in CallRec /\ Placed(q) /\ q.pc = "save" /\ q.op = "init" /\ t \in Rows
      /\ Moves(c, NoCall) /\ WritesRow(c)
      /\ UNCHANGED <<parts, objects, crossed, failed>>
      /\ task' = [task EXCEPT ![t] = [upload |-> v, completed |-> FALSE]]
  BY CallTyped, EndsMoves DEF LocalInv, SaveInit, Placed, WritesRow
<1>2. /\ uploads \in Nat /\ q.upload \in 0..MaxUploads /\ q.upload <= uploads
  BY <1>1 DEF Placed, TypedInv, StateOK, RowsOK, CallRec
<1>3. \/ q.upload # 0 /\ v = q.upload /\ uploads' = uploads
      \/ q.upload = 0 /\ uploads < MaxUploads /\ uploads' = uploads + 1 /\ v = uploads'
  BY DEF SaveInit
<1>4. /\ uploads' \in 0..MaxUploads /\ uploads' \in Nat /\ uploads <= uploads'
      /\ v \in 0..MaxUploads /\ v <= uploads' /\ v \in UploadId
  <2>1. uploads \in 0..MaxUploads
    BY <1>1 DEF TypedInv, StateOK, RowsOK
  <2>2. CASE q.upload # 0
    BY <1>2, <1>3, <2>1, <2>2 DEF Bounds, UploadId
  <2>3. CASE q.upload = 0
    BY <1>2, <1>3, <2>1, <2>3 DEF Bounds, UploadId
  <2> QED
    BY <2>2, <2>3
<1>5. /\ task'[t] = [upload |-> v, completed |-> FALSE]
      /\ [upload |-> v, completed |-> FALSE] \in TaskRow
      /\ \A s \in Task : s # t => task'[s] = task[s]
      /\ task' \in [Task -> TaskRow \cup {None}]
  BY <1>1, <1>4 DEF TypedInv, StateOK, RowsOK, TaskRow, Rows
<1>6. Rows' = Rows /\ Active(t)'
  <2>1. Rows' = Rows
    BY <1>1, <1>5 DEF Rows, Bounds
  <2> QED
    BY <1>1, <1>4, <1>5, <2>1 DEF Rows, Active, UploadId
<1>7. RowsOK'
  <2>1. ASSUME NEW s \in Rows PROVE task'[s].upload <= uploads'
    <3>1. CASE s = t
      BY <1>4, <1>5, <3>1
    <3>2. CASE s # t
      <4>1. task[s] \in TaskRow /\ task[s].upload <= uploads /\ task'[s] = task[s]
        BY <1>1, <1>5, <2>1, <3>2 DEF TypedInv, StateOK, RowsOK, Rows
      <4> QED
        BY <1>2, <1>4, <4>1 DEF TaskRow
    <3> QED
      BY <3>1, <3>2
  <2> QED
    BY <1>4, <1>5, <1>6, <2>1 DEF RowsOK
<1>8. TypedInv' /\ WholeInv'
  <2>1. Placed(NoCall)'
    BY <1>4, NoCallTyped DEF Placed, Ending, Merges, Placing
  <2>2. \A s \in Rows' : task'[s].completed => \E r \in Rows : task[r].completed
    BY <1>5, <1>6 DEF Rows
  <2> QED
    BY <1>1, <1>4, <1>6, <1>7, <2>1, <2>2, NoCallTyped, WriteStep DEF Merges
<1>9. ~crossed => /\ \A s \in Rows : s = t
                  /\ task[t].upload = q.upload /\ ~task[t].completed
  BY <1>1 DEF QuietInv, Knows
<1>10. QuietInv'
  <2>1. Knows(NoCall)'
    BY NoCallTyped DEF Knows, Ending, Merges
  <2> QED
    BY <1>1, <1>6, <1>9, <2>1, QuietWrite
<1>11. KeptInv'
  <2>1. ASSUME ~crossed, NEW d \in Dir, Current(d)' PROVE Current(d) \/ d[2] > uploads
    <3>1. d[1] = t /\ d[2] = v
      BY <1>5, <1>6, <1>9, <2>1 DEF Current, Active, Dir, Rows
    <3>2. CASE q.upload # 0
      BY <1>1, <1>3, <1>9, <2>1, <3>1, <3>2 DEF Current, Active, Rows
    <3>3. CASE q.upload = 0
      BY <1>2, <1>3, <3>1, <3>3
    <3> QED
      BY <3>2, <3>3
  <2> QED
    BY <1>1, <2>1, NoCallTyped, KeptWrite
<1>12. ClearedInv'
  <2>1. ASSUME NEW d \in Dir, Serves(d) PROVE Serves(d)'
    <3>1. d[1] \in Rows /\ Active(d[1]) /\ d[2] \in UploadId
      BY <2>1 DEF Serves, Current, Active, Dir, Rows
    <3>2. CASE d[1] # t
      BY <1>1, <1>5, <2>1, <3>1, <3>2 DEF Serves, Current, Active, Rows
    <3>3. CASE d[1] = t /\ crossed
      BY <1>1, <1>6, <3>3 DEF Serves
    <3>4. CASE d[1] = t /\ ~crossed
      <4>1. d[2] = q.upload /\ q.upload # 0
        BY <1>9, <2>1, <3>4 DEF Serves, Current, Active
      <4> QED
        BY <1>3, <1>5, <1>6, <3>4, <4>1 DEF Serves, Current
    <3> QED
      BY <3>2, <3>3, <3>4
  <2> QED
    BY <1>1, <2>1, ClearedWrite
<1> QED
  BY <1>8, <1>10, <1>11, <1>12 DEF LocalInv

LEMMA SaveEndedKeeps ==
  ASSUME Bounds, LocalInv, NEW c \in Client, SaveEnded(c)
  PROVE  LocalInv'
<1> SUFFICES ASSUME NEW q, q = call[c], NEW t, t = q.task,
                    NEW b, b = (q.op = "complete")
             PROVE  LocalInv'
  OBVIOUS
<1>1. /\ TypedInv /\ WholeInv /\ QuietInv /\ KeptInv /\ ClearedInv
      /\ q \in CallRec /\ Placed(q) /\ q.pc \in {"finish", "save"} /\ b \in BOOLEAN
      /\ UNCHANGED <<uploads, parts, objects, crossed, failed>>
      /\ task' = [task EXCEPT ![t] = [upload |-> 0, completed |-> b]]
  BY CallTyped DEF LocalInv, SaveEnded
<1>2. q.op \in {"complete", "abort"} /\ (q.op = "complete" => q.pc = "finish")
  BY <1>1 DEF SaveEnded, Placed, Ending
<1>3. /\ t \in Rows /\ q.upload \in UploadId /\ q.upload # 0 /\ q.upload <= uploads
      /\ uploads \in Nat /\ WritesRow(c)
  BY <1>1, <1>2 DEF Placed, UploadId, Bounds, WritesRow, TypedInv, StateOK, RowsOK
<1>4. PICK r : Moves(c, r) /\ Goes(q, r, "clear")
  BY <1>1, StepMoves DEF SaveEnded, CallPc
<1>5. /\ task'[t] = [upload |-> 0, completed |-> b]
      /\ [upload |-> 0, completed |-> b] \in TaskRow
      /\ \A s \in Task : s # t => task'[s] = task[s]
      /\ task' \in [Task -> TaskRow \cup {None}]
  BY <1>1, <1>3, Numbers DEF TypedInv, StateOK, RowsOK, TaskRow, Rows
<1>6. Rows' = Rows
  BY <1>3, <1>5 DEF Rows, Bounds
<1>7. RowsOK'
  <2>1. ASSUME NEW s \in Rows PROVE task'[s].upload <= uploads'
    <3>1. CASE s = t
      BY <1>1, <1>3, <1>5, <3>1
    <3>2. CASE s # t
      BY <1>1, <1>5, <2>1, <3>2 DEF TypedInv, StateOK, RowsOK, Rows
    <3> QED
      BY <3>1, <3>2
  <2> QED
    BY <1>1, <1>5, <1>6, <2>1 DEF TypedInv, StateOK, RowsOK
<1>8. r.pc = "clear" /\ r.op = q.op /\ r.task = t /\ r.upload = q.upload
  BY <1>4 DEF Goes
<1>9. TypedInv' /\ WholeInv'
  <2>1. Placed(r)'
    BY <1>1, <1>2, <1>3, <1>6, <1>8 DEF Placed, Ending, Merges, Placing
  <2>2. ASSUME NEW s \in Rows', task'[s].completed
        PROVE  q.pc = "finish" \/ \E e \in Rows : task[e].completed
    <3>1. CASE s = t
      <4>1. b
        BY <1>5, <2>2, <3>1
      <4> QED
        BY <1>2, <4>1
    <3>2. CASE s # t
      BY <1>5, <1>6, <2>2, <3>2 DEF Rows
    <3> QED
      BY <3>1, <3>2
  <2>3. Rows \subseteq Rows' /\ uploads' \in Nat /\ uploads <= uploads'
    BY <1>1, <1>3, <1>6
  <2>4. r.pc \notin Merges /\ r.pc # "finish" /\ q.pc \in {"create", "save", "finish"}
    BY <1>1, <1>8 DEF Merges
  <2> QED
    BY <1>1, <1>4, <1>7, <2>1, <2>2, <2>3, <2>4, WriteStep
<1>10. ~crossed => \A s \in Rows : s = t
  BY <1>1, <1>3 DEF QuietInv
<1>11. QuietInv'
  <2>1. ~crossed => Knows(r)'
    BY <1>5, <1>6, <1>8, <1>10 DEF Knows, Ending, Merges
  <2> QED
    BY <1>1, <1>3, <1>4, <1>6, <1>10, <2>1, QuietWrite
<1>12. \A d \in Dir : Current(d)' => Current(d) /\ d[1] # t
  BY <1>3, <1>5, <1>6 DEF Current, Active, Dir, Rows
<1>13. KeptInv'
  BY <1>1, <1>4, <1>8, <1>12, KeptWrite
<1>14. ClearedInv'
  <2>1. ASSUME NEW d \in Dir, Serves(d) PROVE Serves(d)' \/ \A n : Removes(r, d, n)
    <3>1. CASE d[1] = t
      BY <1>8, <3>1 DEF Removes
    <3>2. CASE d[1] # t
      <4>1. d[1] \in Task
        BY DEF Dir
      <4> QED
        BY <1>1, <1>5, <2>1, <3>2, <4>1 DEF Serves, Current, Active
    <3> QED
      BY <3>1, <3>2
  <2> QED
    BY <1>1, <1>4, <2>1, ClearedWrite
<1> QED
  BY <1>9, <1>11, <1>13, <1>14 DEF LocalInv

LEMMA ListPartsKeeps ==
  ASSUME Bounds, LocalInv, NEW c \in Client, ListParts(c)
  PROVE  LocalInv'
<1> SUFFICES ASSUME NEW q, q = call[c] PROVE LocalInv'
  OBVIOUS
<1>1. /\ TypedInv /\ q \in CallRec /\ Placed(q) /\ q.pc = "list" /\ q.op = "complete"
      /\ QuietInv /\ UNCHANGED <<rows, parts, objects, crossed, failed>>
  BY CallTyped DEF LocalInv, ListParts, Placed, Ending
<1>2. CASE Step(c, "open")
  <2>1. PICK r : Moves(c, r) /\ Goes(q, r, "open")
    BY <1>1, <1>2, StepMoves DEF CallPc
  <2>2. Placed(r) /\ r.pc = "open"
    BY <1>1, <2>1 DEF Goes, Placed, Ending, Merges, Placing
  <2>3. ~crossed => Knows(r)
    BY <1>1, <2>1 DEF Goes, Knows, QuietInv, Ending
  <2> QED
    BY <1>1, <2>1, <2>2, <2>3, OnlyCall DEF Goes, WritesRow, Merges
<1>3. CASE Ends(c)
  BY <1>1, <1>3, EndStep
<1> QED
  BY <1>2, <1>3 DEF ListParts

(* The directory of a row that ended goes, whatever is in it. *)
LEMMA RemovePartsKeeps ==
  ASSUME Bounds, LocalInv, NEW c \in Client, RemoveParts(c)
  PROVE  LocalInv'
<1> SUFFICES ASSUME NEW q, q = call[c], NEW D, D = {d \in Dir : d[1] = q.task} PROVE LocalInv'
  OBVIOUS
<1>1. /\ TypedInv /\ WholeInv /\ QuietInv /\ KeptInv /\ ClearedInv
      /\ q \in CallRec /\ Placed(q) /\ q.pc = "clear" /\ Moves(c, NoCall) /\ q.task \in Rows
      /\ dir' = [d \in Dir |-> IF d \in D THEN {} ELSE dir[d]]
      /\ lost' = [d \in Dir |-> IF d \in D THEN lost[d] \cup (accepted[d] \cap dir[d]) ELSE lost[d]]
      /\ written' = {o \in written : DirOf(o) \notin D}
      /\ UNCHANGED <<rows, objects, accepted, crossed, failed>>
      /\ UNCHANGED <<task, uploads, files, data, temp, target, mixed, cut>>
  BY CallTyped, EndsMoves DEF LocalInv, RemoveParts, Clear, Placed, rows, objects
<1>2. Rows' = Rows /\ uploads \in Nat
  BY <1>1 DEF Placed, Rows, TypedInv, StateOK, RowsOK
<1>3. /\ dir' \in [Dir -> SUBSET Part] /\ lost' \in [Dir -> SUBSET Part]
      /\ \A d \in D : d \in Dir /\ d[1] = q.task /\ dir'[d] = {}
                      /\ lost'[d] = lost[d] \cup (accepted[d] \cap dir[d])
      /\ \A d \in Dir \ D : d[1] # q.task /\ dir'[d] = dir[d] /\ lost'[d] = lost[d]
  BY <1>1 DEF TypedInv, StateOK, PartsOK
<1>4. StateOK'
  <2>1. \A d \in Dir : d[2] > uploads' => dir'[d] = {} /\ accepted'[d] = {} /\ lost'[d] = {}
    BY <1>1, <1>3 DEF TypedInv, StateOK, PartsOK
  <2>2. written' \in SUBSET Client
    BY <1>1 DEF TypedInv, StateOK, PartsOK
  <2>3. PartsOK'
    BY <1>1, <1>3, <2>1, <2>2 DEF TypedInv, StateOK, PartsOK
  <2> QED
    BY <1>1, <1>2, <2>3 DEF TypedInv, StateOK, RowsOK, ObjectsOK
<1>5. TypedInv'
  <2>1. Placed(NoCall)'
    BY <1>1, <1>2, NoCallTyped DEF Placed, Ending, Merges, Placing
  <2> QED
    BY <1>1, <1>2, <1>4, <2>1, TypedStep
<1>6. WholeInv'
  <2>1. Held => Held'
    BY <1>1, HeldStays
  <2>2. \A t \in Rows' : task'[t].completed => \E s \in Rows : task[s].completed
    BY <1>1, <1>2
  <2> QED
    BY <1>1, <2>1, <2>2, NoCallTyped, WholeStep DEF Merges
<1>7. QuietInv'
  BY <1>1, <1>2, NoCallTyped, NoCallPlaced, QuietStep
<1>8. ~crossed => \A d \in D : ~Current(d)
  <2> SUFFICES ASSUME ~crossed, NEW d \in D PROVE ~Current(d)
    OBVIOUS
  <2>1. task[q.task].upload = 0
    BY <1>1 DEF QuietInv, Knows
  <2> QED
    BY <1>3, <2>1 DEF Current, Active
<1>9. KeptInv'
  <2>1. ASSUME NEW d \in Dir, NEW n \in accepted'[d] \ dir'[d], n \notin lost'[d]
        PROVE  /\ n \in accepted[d] \ dir[d] /\ n \notin lost[d]
               /\ ~(call[c].pc = "place" /\ DirOf(c) = d /\ call[c].part = n)
    <3>1. CASE d \in D
      BY <1>1, <1>3, <2>1, <3>1
    <3>2. CASE d \notin D
      BY <1>1, <1>3, <2>1, <3>2
    <3> QED
      BY <3>1, <3>2
  <2>2. ASSUME ~crossed'
        PROVE  /\ \A o \in Client \ {c} : o \in written \ written' => ~Current(DirOf(o))
               /\ \A d \in Dir : Current(d) => lost'[d] \subseteq lost[d]
    BY <1>1, <1>3, <1>8, <2>2
  <2>3. ~(NoCall.pc \in {"move", "place"} /\ c \notin written')
    BY NoCallTyped
  <2>4. UNCHANGED task /\ (crossed => crossed') /\ (failed => failed')
    BY <1>1
  <2> QED
    BY <1>1, <2>1, <2>2, <2>3, <2>4, KeptStep
<1>10. ClearedInv'
  <2>1. ASSUME NEW d \in Dir, NEW n \in dir'[d]
        PROVE  n \in dir[d] /\ ~Removes(q, d, n)
    <3>1. d \notin D
      BY <1>3, <2>1
    <3> QED
      BY <1>1, <1>3, <2>1, <3>1 DEF Removes
  <2> QED
    BY <1>1, <2>1, ClearedStep
<1> QED
  BY <1>5, <1>6, <1>7, <1>9, <1>10 DEF LocalInv

-----------------------------------------------------------------------------
(* The files parts are assembled in. *)

(* A step of a merge, which leaves the rows and the parts alone.             *)
LEMMA MergeStep ==
  ASSUME Bounds, LocalInv, NEW c \in Client, NEW r, Moves(c, r),
         call[c].pc \in {"open"} \cup Merges, ObjectsOK',
         UNCHANGED <<rows, parts, crossed>>, failed' \in BOOLEAN, failed => failed',
         \/ r = NoCall
         \/ /\ r.pc \in Merges \cup {"finish"} /\ r.op = call[c].op
            /\ r.task = call[c].task /\ r.upload = call[c].upload,
         WholeInv'
  PROVE  LocalInv'
<1> SUFFICES ASSUME NEW q, q = call[c] PROVE LocalInv'
  OBVIOUS
<1>1. /\ TypedInv /\ WholeInv /\ QuietInv /\ KeptInv /\ ClearedInv
      /\ UNCHANGED <<task, uploads, dir, written, accepted, lost>>
      /\ q \in CallRec /\ Placed(q) /\ Rows' = Rows /\ uploads \in Nat /\ q.op = "complete"
      /\ q.pc \in Ending
  BY CallTyped
     DEF LocalInv, rows, parts, Rows, TypedInv, StateOK, RowsOK, Placed, Ending
<1>2. TypedInv'
  <2>1. StateOK'
    BY <1>1 DEF TypedInv, StateOK, RowsOK, PartsOK
  <2>2. Placed(r)'
    <3>1. CASE r = NoCall
      BY <1>1, <3>1, NoCallTyped DEF Placed, Ending, Merges, Placing
    <3>2. CASE r # NoCall
      BY <1>1, <3>2 DEF Placed, Ending, Merges, Placing
    <3> QED
      BY <3>1, <3>2
  <2> QED
    BY <1>1, <2>1, <2>2, TypedStep
<1>3. QuietInv'
  <2>1. ~crossed => Knows(r)
    <3>1. CASE r = NoCall
      BY <1>1, <3>1, NoCallPlaced
    <3>2. CASE r # NoCall
      BY <1>1, <3>2 DEF QuietInv, Knows, Ending, Merges
    <3> QED
      BY <3>1, <3>2
  <2>2. WritesRow(c)
    BY <1>1 DEF WritesRow
  <2> QED
    BY <1>1, <2>1, <2>2, QuietStep
<1>4. KeptInv'
  <2>1. q.pc # "place" /\ r.pc \notin {"move", "place"}
    BY NoCallTyped DEF Merges
  <2> QED
    BY <1>1, <2>1, KeptSame
<1>5. ClearedInv'
  <2>1. \A d, n : ~Removes(q, d, n)
    BY DEF Removes, Merges
  <2> QED
    BY <1>1, <2>1, ClearedStep
<1> QED
  BY <1>2, <1>3, <1>4, <1>5 DEF LocalInv

(* The other calls keep their files where no file loses a part, and the      *)
(* object stays, is being replaced, or is missing for good.                  *)
LEMMA OthersWhole ==
  ASSUME Bounds, TypedInv, WholeInv, ObjectsOK', NEW c \in Client, NEW r, Moves(c, r),
         files <= files', mixed \subseteq mixed', Held => Held',
         \A d \in Client \ {c} : \A f \in 1..files :
           Merging(d) /\ call[d].file = f /\ f \notin mixed' => data[f] \subseteq data'[f]
  PROVE  \A d \in Client \ {c} : Whole(call[d])'
<1>1. \A d \in Client : d # c => call'[d] = call[d]
  BY MovesTyped
<1> SUFFICES ASSUME NEW d \in Client \ {c}, NEW s, s = call[d] PROVE Whole(s)'
  BY <1>1
<1>2. /\ Whole(s) /\ files \in Nat /\ files' \in Nat /\ files' <= MaxFiles
      /\ (Merging(d) <=> s.pc \in Merges)
  BY DEF WholeInv, TypedInv, StateOK, ObjectsOK, Bounds, Merging, Merges
<1>3. ASSUME s.pc \in Merges
      PROVE  /\ s.file \in 1..files' /\ s.file \in 1..MaxFiles
             /\ s.file \notin mixed' => s.file \notin mixed /\ data[s.file] \subseteq data'[s.file]
  BY <1>2, <1>3 DEF Whole, Bounds
<1>4. \A f \in 1..MaxFiles : data'[f] \subseteq Part
  BY DEF ObjectsOK
<1> QED
  BY <1>2, <1>3, <1>4 DEF Whole, Merges

LEMMA OpenKeeps ==
  ASSUME Bounds, LocalInv, NEW c \in Client, OpenAssembling(c)
  PROVE  LocalInv'
<1> SUFFICES ASSUME NEW q, q = call[c], NEW u, u = q.upload,
                    NEW f, f = IF temp[u] # 0 THEN temp[u] ELSE files + 1,
                    NEW r, r = [q EXCEPT !.pc = "copy", !.file = f, !.left = Part]
             PROVE  LocalInv'
  OBVIOUS
<1>1. /\ TypedInv /\ WholeInv /\ q \in CallRec /\ Placed(q) /\ q.pc = "open"
      /\ f <= MaxFiles
      /\ files' = IF f > files THEN f ELSE files
      /\ data' = [data EXCEPT ![f] = {}]
      /\ temp' = [temp EXCEPT ![u] = f]
      /\ call' = [call EXCEPT ![c].pc = "copy", ![c].file = f, ![c].left = Part]
      /\ mixed' = IF \E o \in Client \ {c} : Merging(o) /\ call[o].file = f
                  THEN mixed \cup {f} ELSE mixed
      /\ UNCHANGED <<rows, parts, target, cut, crossed, failed>> /\ UNCHANGED task
      /\ failed \in BOOLEAN
  BY CallTyped DEF LocalInv, OpenAssembling, rows, TypedInv, StateOK
<1>2. /\ u \in UploadId /\ files \in 0..MaxFiles /\ files \in Nat /\ temp[u] \in 0..MaxFiles
      /\ target \in Nat /\ target <= files /\ mixed \subseteq 1..MaxFiles
  BY <1>1 DEF Placed, Ending, TypedInv, StateOK, ObjectsOK, Bounds, WholeInv, FilesApart
<1>3. /\ f \in 1..MaxFiles /\ f \in 0..MaxFiles /\ f \in Nat /\ f # 0
      /\ files' \in 0..MaxFiles /\ files' \in Nat /\ files <= files' /\ f <= files'
  BY <1>1, <1>2 DEF Bounds
<1>4. /\ data' \in [1..MaxFiles -> SUBSET Part] /\ temp' \in [UploadId -> 0..MaxFiles]
      /\ temp'[u] = f /\ data'[f] = {}
      /\ \A v \in UploadId : v # u => temp'[v] = temp[v]
      /\ \A g \in 1..MaxFiles : g # f => data'[g] = data[g]
  BY <1>1, <1>2, <1>3 DEF TypedInv, StateOK, ObjectsOK
<1>5. ObjectsOK' /\ mixed \subseteq mixed'
  <2>1. mixed' \in SUBSET (1..MaxFiles) /\ mixed \subseteq mixed'
    BY <1>1, <1>2, <1>3
  <2> QED
    BY <1>1, <1>3, <1>4, <2>1 DEF TypedInv, StateOK, ObjectsOK
<1>6. /\ r \in CallRec /\ r.pc = "copy" /\ r.op = q.op /\ r.task = q.task /\ r.upload = u
      /\ r.file = f /\ r.left = Part
  BY <1>1, <1>3 DEF CallRec, CallPc
<1>7. Moves(c, r)
  BY <1>1, <1>6 DEF Moves, TypedInv
<1>8. /\ call'[c] = r /\ \A d \in Client : d # c => call'[d] = call[d]
  BY <1>1, <1>7, MovesTyped
<1>9. FilesApart'
  <2>1. FilesApart
    BY <1>1 DEF WholeInv
  <2>2. f # target
    BY <1>2, <1>3, <2>1 DEF FilesApart
  <2>3. ASSUME NEW v \in UploadId, temp'[v] # 0
        PROVE  temp'[v] <= files' /\ temp'[v] # target
    <3>1. CASE v = u
      BY <1>3, <1>4, <2>2, <3>1
    <3>2. CASE v # u
      <4>1. temp'[v] <= files /\ temp'[v] # target /\ temp'[v] \in Nat
        BY <1>1, <1>4, <2>1, <2>3, <3>2 DEF FilesApart, TypedInv, StateOK, ObjectsOK, Bounds
      <4> QED
        BY <1>2, <1>3, <4>1
    <3> QED
      BY <3>1, <3>2
  <2>4. ASSUME NEW v \in UploadId, v # u PROVE temp'[v] # f
    <3>1. temp'[v] = temp[v] /\ temp[v] \in Nat /\ (temp[v] # 0 => temp[v] <= files)
      BY <1>1, <1>4, <2>1, <2>4 DEF FilesApart, TypedInv, StateOK, ObjectsOK, Bounds
    <3>2. CASE temp[u] # 0
      BY <1>2, <2>1, <2>4, <3>1, <3>2 DEF FilesApart
    <3>3. CASE temp[u] = 0
      BY <1>2, <1>3, <3>1, <3>3
    <3> QED
      BY <3>2, <3>3
  <2>5. ASSUME NEW v \in UploadId, NEW w \in UploadId, temp'[v] = temp'[w], temp'[v] # 0
        PROVE  v = w
    <3>1. CASE v = u \/ w = u
      BY <1>4, <2>4, <2>5, <3>1
    <3>2. CASE v # u /\ w # u
      BY <1>4, <2>1, <2>5, <3>2 DEF FilesApart
    <3> QED
      BY <3>1, <3>2
  <2>6. target # 0 => data'[target] = Part \/ target \in mixed'
    BY <1>1, <1>2, <1>4, <1>5, <2>1, <2>2 DEF FilesApart, TypedInv, StateOK, ObjectsOK, Bounds
  <2>7. target <= files'
    BY <1>2, <1>3
  <2> QED
    BY <1>1, <2>3, <2>5, <2>6, <2>7 DEF FilesApart
<1>10. Held => Held'
  BY <1>1, <1>7, HeldStays
<1>11. WholeInv'
  <2>1. Whole(r)'
    BY <1>3, <1>6 DEF Whole, Merges
  <2>2. ASSUME NEW d \in Client \ {c}, NEW g \in 1..files,
               Merging(d), call[d].file = g, g \notin mixed'
        PROVE  data[g] \subseteq data'[g]
    <3>1. g # f /\ g \in 1..MaxFiles
      BY <1>1, <1>2, <2>2 DEF Bounds
    <3> QED
      BY <1>4, <3>1
  <2>3. \A d \in Client \ {c} : Whole(call[d])'
    BY <1>1, <1>3, <1>5, <1>7, <1>10, <2>2, OthersWhole
  <2>4. \A d \in Client : Whole(call[d])'
    BY <1>8, <2>1, <2>3
  <2> QED
    BY <1>1, <1>9, <1>10, <2>4 DEF WholeInv, Rows
<1> QED
  BY <1>1, <1>5, <1>6, <1>7, <1>11, MergeStep DEF Merges

(* A merge that ends with no more than its file, or the mark of an object    *)
(* that is gone.                                                             *)
LEMMA GiveUpStep ==
  ASSUME Bounds, LocalInv, NEW c \in Client, Merging(c), Ends(c),
         temp' \in [UploadId -> 0..MaxFiles],
         \A u \in UploadId : temp'[u] # 0 => temp'[u] = temp[u],
         UNCHANGED <<rows, parts, files, data, target, mixed, crossed>>,
         cut' \in BOOLEAN, Held => Held', failed' \in BOOLEAN, failed => failed'
  PROVE  LocalInv'
<1>1. /\ TypedInv /\ WholeInv /\ Moves(c, NoCall) /\ call[c].pc \in Merges /\ UNCHANGED task
      /\ Rows' = Rows
  BY EndsMoves DEF LocalInv, Merging, Merges, rows, Rows
<1>2. ObjectsOK'
  BY <1>1 DEF TypedInv, StateOK, ObjectsOK
<1>3. /\ call'[c] = NoCall /\ \A d \in Client : d # c => call'[d] = call[d]
  BY <1>1, MovesTyped
<1>4. WholeInv'
  <2>1. FilesApart'
    BY <1>1 DEF WholeInv, FilesApart
  <2>2. Whole(NoCall)'
    BY NoCallTyped DEF Whole, Merges
  <2>3. \A d \in Client \ {c} : Whole(call[d])'
    <3>1. files <= files' /\ mixed \subseteq mixed' /\ \A f : data[f] \subseteq data'[f]
      BY <1>1 DEF TypedInv, StateOK, ObjectsOK
    <3> QED
      BY <1>1, <1>2, <3>1, OthersWhole
  <2>4. \A d \in Client : Whole(call[d])'
    BY <1>3, <2>2, <2>3
  <2> QED
    BY <1>1, <2>1, <2>4 DEF WholeInv
<1> QED
  BY <1>1, <1>2, <1>4, MergeStep

LEMMA CopyKeeps ==
  ASSUME Bounds, LocalInv, NEW c \in Client, CopyPart(c)
  PROVE  LocalInv'
<1> SUFFICES ASSUME NEW q, q = call[c], NEW u, u = q.upload,
                    NEW n, n = CHOOSE m \in q.left : \A k \in q.left : m <= k,
                    NEW pc, pc = IF q.left = {n} THEN "rename" ELSE "copy",
                    NEW left, left = q.left \ {n},
                    NEW r, r = [q EXCEPT !.left = left, !.pc = pc]
             PROVE  LocalInv'
  OBVIOUS
<1>1. /\ TypedInv /\ WholeInv /\ q \in CallRec /\ Placed(q) /\ q.pc = "copy" /\ Merging(c)
      /\ u \in UploadId /\ Rows' = Rows /\ failed \in BOOLEAN /\ cut \in BOOLEAN
      /\ UNCHANGED <<rows, parts, files, target, mixed, cut, crossed, failed>> /\ UNCHANGED task
  BY CallTyped DEF LocalInv, CopyPart, rows, Placed, Ending, Rows, TypedInv, StateOK,
                   ObjectsOK, Merges, Merging
<1>2. CASE temp' = [temp EXCEPT ![u] = 0] /\ Ends(c) /\ UNCHANGED data
  <2>1. /\ temp' \in [UploadId -> 0..MaxFiles]
        /\ \A v \in UploadId : temp'[v] # 0 => temp'[v] = temp[v]
    BY <1>1, <1>2, Numbers DEF TypedInv, StateOK, ObjectsOK
  <2>2. Held => Held'
    BY <1>1, <1>2, EndsMoves, HeldStays
  <2> QED
    BY <1>1, <1>2, <2>1, <2>2, GiveUpStep
<1>3. CASE /\ n \in dir[DirOf(c)] /\ DirOf(c) \in Dir
           /\ data' = [data EXCEPT ![q.file] = @ \cup {n}]
           /\ call' = [call EXCEPT ![c].left = left, ![c].pc = pc]
           /\ UNCHANGED temp
  <2>1. n \in Part /\ q.left \subseteq Part /\ left \subseteq Part /\ pc \in {"copy", "rename"}
    BY <1>1, <1>3 DEF TypedInv, StateOK, PartsOK, CallRec
  <2>2. /\ r \in CallRec /\ r.pc = pc /\ r.left = left /\ r.op = q.op /\ r.task = q.task
        /\ r.upload = u /\ r.file = q.file
    BY <1>1, <2>1 DEF CallRec, CallPc
  <2>3. Moves(c, r)
    <3>1. call \in [Client -> CallRec]
      BY <1>1 DEF TypedInv
    <3>2. call' = [call EXCEPT ![c] = [q EXCEPT !.left = left, !.pc = pc]]
      BY <1>3, <3>1
    <3> QED
      BY <2>2, <3>2 DEF Moves
  <2>4. /\ call'[c] = r /\ \A d \in Client : d # c => call'[d] = call[d]
    BY <1>1, <2>3, MovesTyped
  <2>5. q.file \in 1..files /\ \A g \in 1..files : g \in 1..MaxFiles
    BY <1>1 DEF WholeInv, Whole, Merges, TypedInv, StateOK, ObjectsOK, Bounds
  <2>6. /\ data' \in [1..MaxFiles -> SUBSET Part]
        /\ data'[q.file] = data[q.file] \cup {n}
        /\ \A g \in 1..MaxFiles : g # q.file => data'[g] = data[g]
        /\ \A g \in 1..MaxFiles : data[g] \subseteq data'[g] /\ data[g] \subseteq Part
    <3> SUFFICES ASSUME NEW g, g = q.file, NEW F, F = 1..MaxFiles
                 PROVE  /\ data' \in [F -> SUBSET Part]
                        /\ data'[g] = data[g] \cup {n}
                        /\ \A h \in F : h # g => data'[h] = data[h]
                        /\ \A h \in F : data[h] \subseteq data'[h] /\ data[h] \subseteq Part
      OBVIOUS
    <3>1. data \in [F -> SUBSET Part] /\ data' = [data EXCEPT ![g] = @ \cup {n}] /\ g \in F
      BY <1>1, <1>3, <2>5 DEF TypedInv, StateOK, ObjectsOK
    <3> QED
      BY <2>1, <3>1
  <2>7. ObjectsOK'
    BY <1>1, <1>3, <2>6 DEF TypedInv, StateOK, ObjectsOK
  <2>8. Held => Held'
    BY <1>1, <2>3, HeldStays
  <2>9. WholeInv'
    <3>1. FilesApart /\ Whole(q) /\ files \in Nat /\ target \in Nat
      BY <1>1 DEF WholeInv, TypedInv, StateOK, ObjectsOK, Bounds
    <3>2. FilesApart'
      <4>1. target # 0 => data'[target] = Part \/ target \in mixed'
        <5> SUFFICES ASSUME target # 0, data[target] = Part PROVE data'[target] = Part
          BY <1>1, <3>1 DEF FilesApart
        <5>1. target \in 1..files
          BY <3>1 DEF FilesApart
        <5>2. target \in 1..MaxFiles
          BY <2>5, <5>1
        <5>3. data'[target] \subseteq Part /\ data[target] \subseteq data'[target]
          BY <2>6, <5>2
        <5> QED
          BY <5>3
      <4> QED
        BY <1>1, <1>3, <3>1, <4>1 DEF FilesApart
    <3>3. Whole(r)'
      <4>1. q.file \in 1..MaxFiles /\ data[q.file] \subseteq Part
        BY <2>5, <2>6
      <4>2. q.file \notin mixed => Part \subseteq data[q.file] \cup q.left
        BY <1>1, <3>1 DEF Whole
      <4>3. q.file \notin mixed => Part \subseteq data'[q.file] \cup left
        BY <2>6, <4>2
      <4>4. q.file \notin mixed /\ pc = "rename" => data'[q.file] = Part
        BY <2>1, <2>6, <4>1, <4>2
      <4> QED
        BY <1>1, <2>1, <2>2, <2>5, <4>3, <4>4 DEF Whole, Merges
    <3>4. \A d \in Client \ {c} : Whole(call[d])'
      BY <1>1, <2>3, <2>5, <2>6, <2>7, <2>8, <3>1, OthersWhole
    <3>5. \A d \in Client : Whole(call[d])'
      BY <2>4, <3>3, <3>4
    <3> QED
      BY <1>1, <2>8, <3>2, <3>5 DEF WholeInv
  <2> QED
    BY <1>1, <2>1, <2>2, <2>3, <2>7, <2>9, MergeStep DEF Merges
<1>4. DirOf(c) \in Dir
  <2>1. q.task \in Task /\ q.upload \in UploadId
    BY <1>1 DEF Placed, Ending, Merges, Rows
  <2> QED
    BY <2>1 DEF DirOf, Dir
<1> QED
  BY <1>2, <1>3, <1>4 DEF CopyPart

LEMMA MoveAssembledKeeps ==
  ASSUME Bounds, LocalInv, NEW c \in Client, MoveAssembled(c)
  PROVE  LocalInv'
<1> SUFFICES ASSUME NEW q, q = call[c] PROVE LocalInv'
  OBVIOUS
<1>1. /\ TypedInv /\ WholeInv /\ q.pc = "rename" /\ Rows' = Rows /\ ObjectsOK'
      /\ failed \in BOOLEAN /\ UNCHANGED <<rows, parts, objects, crossed, failed>>
      /\ UNCHANGED <<task, files, data, temp, target, mixed, cut>>
  BY DEF LocalInv, MoveAssembled, rows, objects, Rows, TypedInv, StateOK, ObjectsOK
<1>2. CASE Ends(c)
  BY <1>1, <1>2, EndStep
<1>3. CASE Step(c, "remove")
  <2>1. PICK r : Moves(c, r) /\ Goes(q, r, "remove")
    BY <1>1, <1>3, StepMoves DEF CallPc
  <2>2. /\ call'[c] = r /\ \A d \in Client : d # c => call'[d] = call[d]
    BY <1>1, <2>1, MovesTyped
  <2>3. Held => Held'
    BY <1>1, <2>1, HeldStays
  <2>4. WholeInv'
    <3>1. Whole(r)'
      <4>1. Whole(q)
        BY <1>1 DEF WholeInv
      <4> QED
        BY <1>1, <2>1, <4>1 DEF Whole, Merges, Goes
    <3>2. \A d \in Client \ {c} : Whole(call[d])'
      <4>1. files <= files' /\ mixed \subseteq mixed' /\ \A f : data[f] \subseteq data'[f]
        BY <1>1 DEF TypedInv, StateOK, ObjectsOK
      <4> QED
        BY <1>1, <2>1, <2>3, <4>1, OthersWhole
    <3>3. FilesApart'
      BY <1>1 DEF WholeInv, FilesApart
    <3>4. \A d \in Client : Whole(call[d])'
      BY <2>2, <3>1, <3>2
    <3> QED
      BY <1>1, <2>3, <3>3, <3>4 DEF WholeInv
  <2> QED
    BY <1>1, <2>1, <2>4, MergeStep DEF Merges, Goes
<1> QED
  BY <1>2, <1>3 DEF MoveAssembled

(* The object is gone, and the call that removed it is to replace it.        *)
LEMMA RemoveObjectKeeps ==
  ASSUME Bounds, LocalInv, NEW c \in Client, RemoveObject(c)
  PROVE  LocalInv'
<1> SUFFICES ASSUME NEW q, q = call[c] PROVE LocalInv'
  OBVIOUS
<1>1. /\ TypedInv /\ WholeInv /\ q.pc = "remove" /\ Rows' = Rows /\ target' = 0
      /\ failed \in BOOLEAN /\ UNCHANGED <<rows, parts, crossed, failed>>
      /\ UNCHANGED <<task, files, data, temp, mixed, cut>>
  BY DEF LocalInv, RemoveObject, rows, Rows, TypedInv, StateOK
<1>2. ObjectsOK'
  BY <1>1, Numbers DEF TypedInv, StateOK, ObjectsOK
<1>3. PICK r : Moves(c, r) /\ Goes(q, r, "replace")
  BY <1>1, StepMoves DEF CallPc, RemoveObject
<1>4. /\ call'[c] = r /\ \A d \in Client : d # c => call'[d] = call[d]
  BY <1>1, <1>3, MovesTyped
<1>5. Held'
  BY <1>3, <1>4 DEF Held, Goes
<1>6. WholeInv'
  <2>1. Whole(r)'
    <3>1. Whole(q)
      BY <1>1 DEF WholeInv
    <3> QED
      BY <1>1, <1>3, <3>1 DEF Whole, Merges, Goes
  <2>2. \A d \in Client \ {c} : Whole(call[d])'
    <3>1. files <= files' /\ mixed \subseteq mixed' /\ \A f : data[f] \subseteq data'[f]
      BY <1>1 DEF TypedInv, StateOK, ObjectsOK
    <3> QED
      BY <1>1, <1>2, <1>3, <1>5, <3>1, OthersWhole
  <2>3. FilesApart'
    BY <1>1, <1>2 DEF WholeInv, FilesApart, ObjectsOK, Bounds
  <2>4. \A d \in Client : Whole(call[d])'
    BY <1>4, <2>1, <2>2
  <2> QED
    BY <1>5, <2>3, <2>4 DEF WholeInv
<1> QED
  BY <1>1, <1>2, <1>3, <1>6, MergeStep DEF Merges, Goes

LEMMA ReplaceObjectKeeps ==
  ASSUME Bounds, LocalInv, NEW c \in Client, ReplaceObject(c)
  PROVE  LocalInv'
<1> SUFFICES ASSUME NEW q, q = call[c], NEW u, u = q.upload, NEW f, f = temp[u] PROVE LocalInv'
  OBVIOUS
<1>1. /\ TypedInv /\ WholeInv /\ q.pc = "replace" /\ Merging(c) /\ Rows' = Rows
      /\ u \in UploadId /\ f \in 0..MaxFiles /\ failed \in BOOLEAN
      /\ UNCHANGED <<rows, parts, files, data, crossed, failed>> /\ UNCHANGED task
  BY CallTyped DEF LocalInv, ReplaceObject, rows, Rows, TypedInv, StateOK, ObjectsOK,
                   Placed, Ending, Merges, Merging
<1>2. CASE cut' = (target = 0) /\ Ends(c) /\ UNCHANGED <<temp, target, mixed>>
  <2>1. /\ temp' \in [UploadId -> 0..MaxFiles]
        /\ \A v \in UploadId : temp'[v] # 0 => temp'[v] = temp[v]
    BY <1>1, <1>2 DEF TypedInv, StateOK, ObjectsOK
  <2>2. Held' /\ cut' \in BOOLEAN
    BY <1>2 DEF Held
  <2> QED
    BY <1>1, <1>2, <2>1, <2>2, GiveUpStep
<1>3. CASE /\ f # 0 /\ target' = f /\ cut' = FALSE
           /\ temp' = [temp EXCEPT ![u] = 0]
           /\ mixed' = (IF f = q.file THEN mixed ELSE mixed \cup {f})
           /\ Step(c, "finish")
  <2>1. /\ temp' \in [UploadId -> 0..MaxFiles] /\ temp'[u] = 0
        /\ \A v \in UploadId : v # u => temp'[v] = temp[v]
        /\ f \in 1..MaxFiles /\ mixed \subseteq mixed'
    BY <1>1, <1>3, Numbers DEF TypedInv, StateOK, ObjectsOK, Bounds
  <2>2. ObjectsOK'
    <3>1. mixed' \in SUBSET (1..MaxFiles)
      BY <1>1, <1>3, <2>1 DEF TypedInv, StateOK, ObjectsOK
    <3> QED
      BY <1>1, <1>3, <2>1, <3>1 DEF TypedInv, StateOK, ObjectsOK
  <2>3. PICK r : Moves(c, r) /\ Goes(q, r, "finish")
    BY <1>1, <1>3, StepMoves DEF CallPc
  <2>4. /\ call'[c] = r /\ \A d \in Client : d # c => call'[d] = call[d]
    BY <1>1, <2>3, MovesTyped
  <2>5. Held'
    BY <1>3 DEF Held
  <2>6. WholeInv'
    <3>1. FilesApart /\ Whole(q)
      BY <1>1 DEF WholeInv
    <3>2. FilesApart'
      <4>1. \A v \in UploadId : temp'[v] # 0 =>
              v # u /\ temp'[v] = temp[v] /\ temp[v] # f /\ temp[v] <= files
        BY <1>1, <1>3, <2>1, <3>1 DEF FilesApart
      <4>2. f <= files' /\ (data'[f] = Part \/ f \in mixed')
        BY <1>1, <1>3, <3>1 DEF FilesApart, Whole, Merges
      <4>3. \A v, w \in UploadId : temp'[v] = temp'[w] /\ temp'[v] # 0 => v = w
        BY <3>1, <4>1 DEF FilesApart
      <4> QED
        BY <1>1, <1>3, <4>1, <4>2, <4>3 DEF FilesApart
    <3>3. Whole(r)'
      BY <2>3, <2>5 DEF Whole, Goes, Merges
    <3>4. \A d \in Client \ {c} : Whole(call[d])'
      <4>1. files <= files' /\ \A g : data[g] \subseteq data'[g]
        BY <1>1 DEF TypedInv, StateOK, ObjectsOK
      <4> QED
        BY <1>1, <2>1, <2>2, <2>3, <2>5, <4>1, OthersWhole
    <3>5. \A d \in Client : Whole(call[d])'
      BY <2>4, <3>3, <3>4
    <3> QED
      BY <2>5, <3>2, <3>5 DEF WholeInv
  <2> QED
    BY <1>1, <2>2, <2>3, <2>6, MergeStep DEF Merges, Goes
<1> QED
  BY <1>2, <1>3 DEF ReplaceObject

(* A failure, after which the service removes what the call left, and the    *)
(* death of a process: both are one of a kind.                               *)
LEMMA DieStep ==
  ASSUME Bounds, LocalInv, NEW c \in Client, Ends(c), failed' = TRUE,
         UNCHANGED <<rows, dir, files, data, temp, target, mixed, accepted, crossed>>,
         written' = written \ {c},
         lost' = IF call[c].pc # "place" THEN lost
                 ELSE [lost EXCEPT ![DirOf(c)] =
                        @ \cup ({call[c].part} \cap accepted[DirOf(c)])],
         cut' \in BOOLEAN, Held => Held'
  PROVE  LocalInv'
<1> SUFFICES ASSUME NEW q, q = call[c], NEW e, e = DirOf(c), NEW p, p = q.part
             PROVE  LocalInv'
  OBVIOUS
<1>1. /\ TypedInv /\ WholeInv /\ QuietInv /\ KeptInv /\ ClearedInv
      /\ Placed(q) /\ Moves(c, NoCall) /\ UNCHANGED <<task, uploads>>
      /\ Rows' = Rows /\ uploads \in Nat
  BY CallTyped, EndsMoves DEF LocalInv, rows, Rows, TypedInv, StateOK, RowsOK
<1>2. /\ lost' \in [Dir -> SUBSET Part]
      /\ \A d \in Dir : lost[d] \subseteq lost'[d] /\ lost'[d] \subseteq lost[d] \cup accepted[d]
      /\ q.pc = "place" /\ p \in accepted[e] => p \in lost'[e]
  <2>1. CASE q.pc # "place"
    BY <1>1, <2>1 DEF TypedInv, StateOK, PartsOK
  <2>2. CASE q.pc = "place"
    <3>1. e \in Dir /\ p \in Part
      BY <1>1, <2>2, PartOf DEF Placing
    <3>2. lost' = [lost EXCEPT ![e] = @ \cup ({p} \cap accepted[e])]
      BY <2>2
    <3> QED
      BY <1>1, <2>2, <3>1, <3>2 DEF TypedInv, StateOK, PartsOK
  <2> QED
    BY <2>1, <2>2
<1>3. StateOK'
  <2>1. \A d \in Dir : d[2] > uploads' => dir'[d] = {} /\ accepted'[d] = {} /\ lost'[d] = {}
    BY <1>1, <1>2 DEF TypedInv, StateOK, PartsOK
  <2>2. PartsOK'
    BY <1>1, <1>2, <2>1 DEF TypedInv, StateOK, PartsOK
  <2> QED
    BY <1>1, <2>2 DEF TypedInv, StateOK, RowsOK, ObjectsOK
<1>4. TypedInv'
  <2>1. Placed(NoCall)'
    BY <1>1, NoCallTyped DEF Placed, Ending, Merges, Placing
  <2> QED
    BY <1>1, <1>3, <2>1, TypedStep
<1>5. WholeInv'
  <2>1. \A t \in Rows' : task'[t].completed => \E s \in Rows : task[s].completed
    BY <1>1
  <2> QED
    BY <1>1, <2>1, NoCallTyped, WholeStep DEF Merges
<1>6. QuietInv'
  BY <1>1, NoCallTyped, NoCallPlaced, QuietStep
<1>7. KeptInv'
  <2>1. ASSUME NEW d \in Dir, NEW n \in accepted'[d] \ dir'[d], n \notin lost'[d]
        PROVE  /\ n \in accepted[d] \ dir[d] /\ n \notin lost[d]
               /\ ~(call[c].pc = "place" /\ DirOf(c) = d /\ call[c].part = n)
    BY <1>1, <1>2, <2>1
  <2>2. UNCHANGED task /\ (crossed => crossed') /\ failed'
    BY <1>1
  <2> QED
    BY <1>1, <2>1, <2>2, KeptStep
<1>8. ClearedInv'
  BY DEF ClearedInv
<1> QED
  BY <1>4, <1>5, <1>6, <1>7, <1>8 DEF LocalInv

(* Whether the object is missing for good is noted when a call goes.         *)
LEMMA Noted ==
  ASSUME Bounds, TypedInv, NEW c \in Client, NoteCut(c), Ends(c), UNCHANGED target
  PROVE  cut' \in BOOLEAN /\ (Held => Held')
<1>1. cut \in BOOLEAN /\ (cut' <=> cut \/ (call[c].pc = "replace" /\ target = 0))
  BY DEF TypedInv, StateOK, ObjectsOK, NoteCut
<1>2. cut' \in BOOLEAN
  <2> DEFINE b == cut \/ (call[c].pc = "replace" /\ target = 0)
  <2>1. b \in BOOLEAN /\ cut' = b
    BY DEF NoteCut
  <2> HIDE DEF b
  <2> QED
    BY <2>1
<1>3. CASE call[c].pc = "replace"
  <2>1. Held'
    BY <1>1, <1>3 DEF Held
  <2> QED
    BY <1>2, <2>1
<1>4. CASE call[c].pc # "replace"
  <2>1. UNCHANGED cut
    BY <1>1, <1>2, <1>4
  <2> QED
    BY <1>2, <1>4, <2>1, EndsMoves, HeldStays
<1> QED
  BY <1>3, <1>4

LEMMA FailsKeep ==
  ASSUME Bounds, LocalInv, NEW c \in Client, CallFails(c) \/ ClientDies(c)
  PROVE  LocalInv'
<1>1. failed' = TRUE /\ TypedInv /\ NoteCut(c) /\ Ends(c) /\ UNCHANGED target
  BY DEF CallFails, ClientDies, DropPart, LocalInv
<1>2. cut' \in BOOLEAN /\ (Held => Held')
  BY <1>1, Noted
<1>3. CASE CallFails(c)
  <2>1. CASE call[c].pc \in {"check", "move", "place", "recheck"} /\ DropPart(c) /\ UNCHANGED temp
    BY <1>1, <1>2, <1>3, <2>1, DropStep DEF CallFails, Placing
  <2>2. CASE /\ Merging(c) /\ Ends(c)
             /\ temp' = [temp EXCEPT ![call[c].upload] = 0]
             /\ UNCHANGED <<dir, written, lost>>
    <3>1. /\ temp' \in [UploadId -> 0..MaxFiles]
          /\ \A v \in UploadId : temp'[v] # 0 => temp'[v] = temp[v]
      BY <1>1, <2>2, Numbers DEF TypedInv, StateOK, ObjectsOK
    <3>2. UNCHANGED <<rows, parts, files, data, target, mixed, crossed>>
      BY <1>3, <2>2 DEF CallFails, parts
    <3> QED
      BY <1>1, <1>2, <2>2, <3>1, <3>2, GiveUpStep
  <2> QED
    BY <1>3, <2>1, <2>2 DEF CallFails
<1>4. CASE ClientDies(c)
  BY <1>1, <1>2, <1>4, DieStep DEF ClientDies
<1> QED
  BY <1>3, <1>4
-----------------------------------------------------------------------------
LEMMA LocalStarts ==
  ASSUME Bounds, LuInit
  PROVE  LocalInv
<1>1. Rows = {} /\ \A d \in Dir : ~Active(d[1])
  BY DEF LuInit, Rows, Active, Dir
<1>2. \A c \in Client : call[c] = NoCall /\ Placed(NoCall) /\ Whole(NoCall) /\ Knows(NoCall)
  BY NoCallTyped, NoCallPlaced DEF LuInit
<1>3. TypedInv
  <2>1. StateOK
    BY <1>1, Numbers DEF LuInit, StateOK, RowsOK, PartsOK, ObjectsOK
  <2>2. call \in [Client -> CallRec]
    BY NoCallTyped DEF LuInit
  <2> QED
    BY <1>2, <2>1, <2>2 DEF TypedInv
<1>4. WholeInv
  <2>1. FilesApart
    BY <1>1 DEF LuInit, FilesApart
  <2> QED
    BY <1>1, <1>2, <2>1 DEF WholeInv
<1>5. QuietInv
  <2>1. \A c \in Client : ~WritesRow(c)
    BY <1>2, NoCallTyped DEF WritesRow
  <2> QED
    BY <1>1, <1>2, <2>1 DEF QuietInv
<1>6. KeptInv
  BY <1>1, <1>2, NoCallTyped DEF LuInit, KeptInv, Current
<1>7. ClearedInv
  BY DEF LuInit, ClearedInv
<1> QED
  BY <1>3, <1>4, <1>5, <1>6, <1>7 DEF LocalInv

LEMMA LocalSteps ==
  ASSUME Bounds, LocalInv, [LuNext]_luVars
  PROVE  LocalInv'
<1>1. CASE UNCHANGED luVars
  <2>1. Rows' = Rows /\ \A r : Placed(r)' <=> Placed(r)
    BY <1>1 DEF luVars, Rows, Placed
  <2>2. TypedInv'
    BY <1>1, <2>1 DEF luVars, LocalInv, TypedInv, StateOK, RowsOK, PartsOK, ObjectsOK
  <2>3. WholeInv'
    BY <1>1, <2>1 DEF luVars, LocalInv, WholeInv, FilesApart, Whole, Held
  <2>4. QuietInv'
    BY <1>1, <2>1 DEF luVars, LocalInv, QuietInv, Knows, WritesRow
  <2>5. KeptInv'
    BY <1>1 DEF luVars, LocalInv, KeptInv, Replacing, Current, Active, DirOf
  <2>6. ClearedInv'
    BY <1>1 DEF luVars, LocalInv, ClearedInv, Serves, Current, Active
  <2> QED
    BY <2>2, <2>3, <2>4, <2>5, <2>6 DEF LocalInv
<1>2. ASSUME NEW c \in Client,
             \/ InitMultipart(c)
             \/ \E t \in Task : \/ \E n \in Part : UploadPart(c, t, n)
                                \/ CompleteMultipart(c, t) \/ AbortMultipart(c, t)
      PROVE  LocalInv'
  BY <1>2, ReceivesKeep
<1>3. ASSUME NEW c \in Client,
             \/ FindLocalByObject(c) \/ CreateLocalUploadTask(c) \/ SaveInit(c)
             \/ GetActiveTask(c) \/ SaveEnded(c)
      PROVE  LocalInv'
  BY <1>3, FindLocalKeeps, CreateKeeps, SaveInitKeeps, GetActiveKeeps, SaveEndedKeeps
<1>4. ASSUME NEW c \in Client,
             \/ CheckPart(c) \/ MovePart(c) \/ PlacePart(c) \/ RecheckPart(c)
             \/ ListParts(c) \/ RemoveParts(c)
      PROVE  LocalInv'
  BY <1>4, CheckPartKeeps, MovePartKeeps, PlacePartKeeps, RecheckPartKeeps, ListPartsKeeps,
     RemovePartsKeeps
<1>5. ASSUME NEW c \in Client,
             \/ OpenAssembling(c) \/ CopyPart(c) \/ MoveAssembled(c)
             \/ RemoveObject(c) \/ ReplaceObject(c) \/ CallFails(c) \/ ClientDies(c)
      PROVE  LocalInv'
  BY <1>5, OpenKeeps, CopyKeeps, MoveAssembledKeeps, RemoveObjectKeeps, ReplaceObjectKeeps,
     FailsKeep
<1> QED
  BY <1>1, <1>2, <1>3, <1>4, <1>5 DEF LuNext

(* What the invariant says of the object, the uploads, the parts and rows.   *)
LEMMA LocalImplies ==
  ASSUME Bounds, LocalInv
  PROVE  /\ LuTypeOK /\ CompletedObjectWhole /\ EndedUploadsCleared
         /\ AcceptedPartsStay /\ OneLocalTaskAlone
<1>1. TypedInv /\ WholeInv /\ QuietInv /\ KeptInv /\ ClearedInv
  BY DEF LocalInv
<1>2. LuTypeOK
  BY <1>1 DEF TypedInv, StateOK, RowsOK, PartsOK, ObjectsOK, LuTypeOK
<1>3. CompletedObjectWhole
  BY <1>1 DEF WholeInv, FilesApart, Held, CompletedObjectWhole, Rows
<1>4. EndedUploadsCleared
  <2> SUFFICES ASSUME ~failed, \A c \in Client : call[c].pc = "idle",
                      NEW t \in Task, NEW u \in UploadId, dir[<<t, u>>] # {}
               PROVE  Active(t) /\ (Names(t, u) \/ crossed)
    BY DEF EndedUploadsCleared
  <2> SUFFICES ASSUME NEW d, d = <<t, u>> PROVE Active(t) /\ (Names(t, u) \/ crossed)
    OBVIOUS
  <2>1. d \in Dir /\ d[1] = t /\ d[2] = u
    BY DEF Dir
  <2>2. PICK n : n \in dir[d]
    OBVIOUS
  <2>3. \A c \in Client : ~Removes(call[c], d, n)
    BY DEF Removes
  <2>4. Serves(d)
    BY <1>1, <2>1, <2>2, <2>3 DEF ClearedInv
  <2> QED
    BY <2>1, <2>4 DEF Serves, Current, Names, Active
<1>5. AcceptedPartsStay
  <2> SUFFICES ASSUME NEW t \in Task, NEW u \in UploadId, Active(t), Names(t, u),
                      NEW d, d = <<t, u>>, NEW n \in accepted[d] \ dir[d]
               PROVE  Replacing(d, n) \/ (n \in lost[d] /\ (crossed \/ failed))
    BY DEF AcceptedPartsStay
  <2>1. d \in Dir /\ d[1] = t /\ d[2] = u
    BY DEF Dir
  <2>2. Replacing(d, n) \/ n \in lost[d]
    BY <1>1, <2>1 DEF KeptInv
  <2>3. n \in lost[d] => crossed \/ failed
    <3>1. Current(d)
      BY <2>1 DEF Current, Names
    <3> QED
      BY <1>1, <2>1, <3>1 DEF KeptInv
  <2> QED
    BY <2>2, <2>3
<1>6. OneLocalTaskAlone
  BY <1>1 DEF QuietInv, OneLocalTaskAlone, Active, Rows
<1> QED
  BY <1>2, <1>3, <1>4, <1>5, <1>6

(* A row that is completed is written by no call while they do not cross.    *)
RowsStay == ~crossed => \A t \in Task : task[t] # None /\ task[t].completed => task'[t] = task[t]

LEMMA CompletedRowsStay ==
  ASSUME Bounds, LocalInv, [LuNext]_luVars
  PROVE  RowsStay
<1> SUFFICES ASSUME ~crossed, NEW t \in Task, task[t] # None, task[t].completed
             PROVE  task'[t] = task[t]
  BY DEF RowsStay
<1>1. TypedInv /\ QuietInv /\ t \in Rows
  BY DEF LocalInv, Rows
<1>2. ASSUME NEW c \in Client, SaveInit(c) \/ SaveEnded(c) PROVE FALSE
  <2>1. /\ Placed(call[c]) /\ Knows(call[c]) /\ call[c].pc \in {"save", "finish"}
        /\ call[c].op \in {"init", "complete", "abort"}
    BY <1>1, <1>2, CallTyped DEF QuietInv, SaveInit, SaveEnded, Placed, Ending
  <2>2. call[c].task \in Rows /\ ~task[call[c].task].completed
    BY <2>1 DEF Placed, Knows, Ending
  <2> QED
    BY <1>1, <2>2 DEF QuietInv
<1>3. ASSUME NEW c \in Client, CreateLocalUploadTask(c) PROVE FALSE
  BY <1>1, <1>3 DEF QuietInv, Knows, CreateLocalUploadTask
<1>4. UNCHANGED rows \/ \E c \in Client : SaveInit(c) \/ SaveEnded(c) \/ CreateLocalUploadTask(c)
  <2>1. ASSUME NEW c \in Client,
               \/ InitMultipart(c)
               \/ \E s \in Task : \/ \E n \in Part : UploadPart(c, s, n)
                                  \/ CompleteMultipart(c, s) \/ AbortMultipart(c, s)
        PROVE  UNCHANGED rows
    BY <2>1 DEF InitMultipart, UploadPart, CompleteMultipart, AbortMultipart, Receive
  <2>2. ASSUME NEW c \in Client,
               \/ FindLocalByObject(c) \/ GetActiveTask(c) \/ CheckPart(c) \/ MovePart(c)
               \/ PlacePart(c) \/ RecheckPart(c) \/ ListParts(c) \/ OpenAssembling(c)
               \/ CopyPart(c) \/ MoveAssembled(c) \/ RemoveObject(c) \/ ReplaceObject(c)
               \/ RemoveParts(c) \/ CallFails(c) \/ ClientDies(c)
        PROVE  UNCHANGED rows
    BY <2>2 DEF FindLocalByObject, GetActiveTask, CheckPart, MovePart, PlacePart, RecheckPart,
         ListParts, OpenAssembling, CopyPart, MoveAssembled, RemoveObject, ReplaceObject,
         RemoveParts, Clear, CallFails, ClientDies
  <2>3. UNCHANGED luVars => UNCHANGED rows
    BY DEF luVars, rows
  <2> QED
    BY <2>1, <2>2, <2>3 DEF LuNext
<1> QED
  BY <1>2, <1>3, <1>4 DEF rows

(* The object of a completed row is whole, is being replaced, was lost with  *)
(* the completion that replaced it, or is of two completions' making; the    *)
(* parts of an ended upload go; an accepted part is there or is being sent   *)
(* again, but where calls crossed or one failed; alone, one task per object: *)
(* LocalMultipartUploadService under any interleaving of calls, one of which *)
(* may fail or die.                                                          *)
THEOREM LocalIsSafe ==
  ASSUME Bounds
  PROVE  LuSpec => [](/\ LuTypeOK /\ CompletedObjectWhole /\ EndedUploadsCleared
                      /\ AcceptedPartsStay /\ OneLocalTaskAlone)
<1>1. LuInit => LocalInv
  BY LocalStarts
<1>2. LocalInv /\ [LuNext]_luVars => LocalInv'
  BY LocalSteps
<1>3. LocalInv => /\ LuTypeOK /\ CompletedObjectWhole /\ EndedUploadsCleared
                  /\ AcceptedPartsStay /\ OneLocalTaskAlone
  BY LocalImplies
<1> QED
  BY <1>1, <1>2, <1>3, PTL DEF LuSpec

(* Alone, no call writes the row of a completed task again.                  *)
THEOREM CompletedRowsAreFinal ==
  ASSUME Bounds
  PROVE  LuSpec => CompletedStaysAlone
<1>1. LuInit => LocalInv
  BY LocalStarts
<1>2. LocalInv /\ [LuNext]_luVars => LocalInv'
  BY LocalSteps
<1>3. LocalInv /\ [LuNext]_luVars => [RowsStay]_luVars
  BY CompletedRowsStay
<1>4. CompletedStaysAlone <=> [][RowsStay]_luVars
  BY PTL DEF CompletedStaysAlone, RowsStay
<1> QED
  BY <1>1, <1>2, <1>3, <1>4, PTL DEF LuSpec
=============================================================================
