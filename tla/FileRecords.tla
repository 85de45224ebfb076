---------------------------- MODULE FileRecords ----------------------------
(* FileService: rows of sys_file and their copies in the Redis hash         *)
(* file:translate:map, whose entries never expire.  An operation is a       *)
(* sequence of awaited calls of the database and of Redis; operations of    *)
(* several requests interleave, and one may fail or die between two calls.  *)
EXTENDS Naturals, FiniteSets

CONSTANTS Client, Object, None,
  MaxFiles,     \* bound: rows ever inserted
  MaxWrites     \* bound: writes, which number the versions of the rows

VARIABLES
  file,         \* sys_file, by id
  map,          \* the hash file:translate:map
  op,           \* the operation of each client
  writes,       \* how many writes there were
  suspect       \* rows whose copy a race or a failure may have spoilt

frVars == <<file, map, op, writes, suspect>>
-----------------------------------------------------------------------------
Id == 1..MaxFiles
StorageType == {"local", "oss"}
(* The version stands for the columns a write changes.                      *)
Row == [object : Object, storageType : StorageType, version : 1..MaxWrites, deleted : BOOLEAN]

Idle == [name |-> None, pc |-> "idle", ids |-> {}, found |-> {}, object |-> None,
         storageType |-> None, id |-> 0, row |-> None, overlapped |-> FALSE]

Inserted == {id \in Id : file[id] # None}
Live(id) == file[id] # None /\ ~file[id].deleted
Entry(id) == [id |-> id, row |-> file[id]]

(* uq_sys_file_oss_object_active: one row of an object that is not deleted. *)
Unique(id, r) ==
  r.storageType = "oss"
    => \A i \in Inserted \ {id} : Live(i) => file[i].storageType # "oss" \/ file[i].object # r.object

FrInit ==
  /\ file = [id \in Id |-> None]
  /\ map = [id \in Id |-> None]
  /\ op = [c \in Client |-> Idle]
  /\ writes = 0 /\ suspect = {}

At(c, name, pc) == op[c].name = name /\ op[c].pc = pc
Enter(c, o) == op[c].pc = "idle" /\ op' = [op EXCEPT ![c] = o]
Step(c, pc) == op' = [op EXCEPT ![c].pc = pc]
Finish(c) == op' = [op EXCEPT ![c] = Idle]

(* c has read the row and is to write it, or what it has read, back.        *)
Holds(c, id) == op[c].pc # "idle" /\ (op[c].id = id \/ \E e \in op[c].found : e.id = id)
Others(c, id) == {d \in Client \ {c} : Holds(d, id)}

(* The row becomes r while others hold what it was.                         *)
WriteRow(c, id, r, o) ==
  /\ writes < MaxWrites
  /\ file' = [file EXCEPT ![id] = r]
  /\ writes' = writes + 1
  /\ op' = [d \in Client |-> IF d = c THEN o ELSE [op[d] EXCEPT !.overlapped = @ \/ d \in Others(c, id)]]
  /\ suspect' = IF Others(c, id) = {} THEN suspect ELSE suspect \cup {id}

(* The copy was written by an operation that nothing overlapped.            *)
Settle(c, id) ==
  suspect' = IF op[c].overlapped \/ Others(c, id) # {} THEN suspect ELSE suspect \ {id}
-----------------------------------------------------------------------------
(* translateIds: the cached entries; the missing ones from the database;    *)
(* those that are there back to the cache.                                  *)
Translate(c, ids) ==
  /\ Enter(c, [Idle EXCEPT !.name = "translate", !.pc = "hmget", !.ids = ids])
  /\ UNCHANGED <<file, map, writes, suspect>>

Hmget(c) ==
  /\ At(c, "translate", "hmget")
  /\ LET missing == {i \in op[c].ids : map[i] = None}
     IN IF missing = {} THEN Finish(c)
        ELSE op' = [op EXCEPT ![c].ids = missing, ![c].pc = "find"]
  /\ UNCHANGED <<file, map, writes, suspect>>

FindMissing(c) ==
  /\ At(c, "translate", "find")
  /\ LET found == {Entry(id) : id \in {i \in op[c].ids : Live(i)}}
     IN IF found = {} THEN Finish(c)
        ELSE op' = [op EXCEPT ![c].found = found, ![c].pc = "hmset"]
  /\ UNCHANGED <<file, map, writes, suspect>>

Backfill(c) ==
  /\ At(c, "translate", "hmset")
  /\ map' = [id \in Id |-> IF \E e \in op[c].found : e.id = id
                           THEN (CHOOSE e \in op[c].found : e.id = id).row ELSE map[id]]
  /\ Finish(c)
  /\ UNCHANGED <<file, writes, suspect>>
-----------------------------------------------------------------------------
(* create: a row of the object, be it deleted, is taken; failing that, one  *)
(* is inserted.                                                             *)
Create(c, o, t) ==
  /\ Enter(c, [Idle EXCEPT !.name = "create", !.pc = "find", !.object = o, !.storageType = t])
  /\ UNCHANGED <<file, map, writes, suspect>>

FindOne(c) ==
  /\ At(c, "create", "find")
  /\ LET same == {i \in Inserted : file[i].object = op[c].object
                                     /\ file[i].storageType = op[c].storageType}
     IN IF same = {} THEN Step(c, "save")
        ELSE \E i \in same : op' = [op EXCEPT ![c].id = i, ![c].row = file[i], ![c].pc = "save"]
  /\ UNCHANGED <<file, map, writes, suspect>>

(* createOssUploadTask and createLocalUploadTask always insert; the caller  *)
(* has found no row of the object that is not deleted (findOssByObject,     *)
(* findLocalByObject).                                                      *)
FindByObject(o, t) == {i \in Inserted : Live(i) /\ file[i].object = o /\ file[i].storageType = t}
CreateTask(c, o, t) ==
  /\ FindByObject(o, t) = {}
  /\ Enter(c, [Idle EXCEPT !.name = "create", !.pc = "save", !.object = o, !.storageType = t])
  /\ UNCHANGED <<file, map, writes, suspect>>

(* save: of a row the caller has found and changed.                         *)
Save(c, id) ==
  /\ Live(id)
  /\ Enter(c, [Idle EXCEPT !.name = "save", !.pc = "save", !.id = id, !.row = file[id]])
  /\ UNCHANGED <<file, map, writes, suspect>>

(* repository.save writes every column in which the entity differs from the *)
(* row, deletedAt too, which is null in an entity that was read before the  *)
(* row was deleted and which create sets to null.                           *)
Saved(c) ==
  IF op[c].row = None
  THEN [object |-> op[c].object, storageType |-> op[c].storageType,
        version |-> writes + 1, deleted |-> FALSE]
  ELSE [op[c].row EXCEPT !.version = writes + 1, !.deleted = FALSE]

SaveRow(c) ==
  /\ op[c].name \in {"create", "save"} /\ op[c].pc = "save"
  /\ LET id == IF op[c].id = 0 THEN Cardinality(Inserted) + 1 ELSE op[c].id
     IN /\ id \in Id
        /\ IF Unique(id, Saved(c))
           THEN WriteRow(c, id, Saved(c), [op[c] EXCEPT !.id = id, !.row = Saved(c), !.pc = "hset"])
           ELSE Finish(c) /\ UNCHANGED <<file, writes, suspect>>
  /\ UNCHANGED map

Hset(c) ==
  /\ op[c].name \in {"create", "save"} /\ op[c].pc = "hset"
  /\ map' = [map EXCEPT ![op[c].id] = op[c].row]
  /\ Settle(c, op[c].id)
  /\ Finish(c)
  /\ UNCHANGED <<file, writes>>
-----------------------------------------------------------------------------
(* softDelete: findById, save with updatedBy when there is an identity, the *)
(* deletion, and hdel.                                                      *)
SoftDelete(c, id, identity) ==
  /\ IF Live(id)
     THEN Enter(c, [Idle EXCEPT !.name = "delete", !.pc = IF identity THEN "save" ELSE "delete",
                                !.id = id, !.row = file[id]])
     ELSE Enter(c, Idle)                          \* 404
  /\ UNCHANGED <<file, map, writes, suspect>>

SaveUpdatedBy(c) ==
  /\ At(c, "delete", "save")
  /\ IF Unique(op[c].id, Saved(c))
     THEN WriteRow(c, op[c].id, Saved(c), [op[c] EXCEPT !.pc = "delete"])
     ELSE Finish(c) /\ UNCHANGED <<file, writes, suspect>>
  /\ UNCHANGED map

DeleteRow(c) ==
  /\ At(c, "delete", "delete")
  /\ LET id == op[c].id
     IN WriteRow(c, id, [file[id] EXCEPT !.deleted = TRUE, !.version = writes + 1],
                 [op[c] EXCEPT !.pc = "hdel"])
  /\ UNCHANGED map

(* Mutant: the entry stays. *)
WithoutNothing(id) == map
Without(id) == [map EXCEPT ![id] = None]
Hdel(c) ==
  /\ At(c, "delete", "hdel")
  /\ map' = Without(op[c].id)
  /\ Settle(c, op[c].id)
  /\ Finish(c)
  /\ UNCHANGED <<file, writes>>

(* The next call of the database or of Redis fails, or the process dies:    *)
(* what was written stays.                                                  *)
Fail(c) ==
  /\ op[c].pc # "idle"
  /\ suspect' = IF op[c].pc \in {"hset", "hdel"} \/ At(c, "delete", "delete")
                THEN suspect \cup {op[c].id} ELSE suspect
  /\ Finish(c)
  /\ UNCHANGED <<file, map, writes>>

FrNext ==
  \E c \in Client :
    \/ \E ids \in SUBSET Id \ {{}} : Translate(c, ids)
    \/ \E o \in Object, t \in StorageType : Create(c, o, t) \/ CreateTask(c, o, t)
    \/ \E id \in Id : Save(c, id) \/ SoftDelete(c, id, TRUE) \/ SoftDelete(c, id, FALSE)
    \/ Hmget(c) \/ FindMissing(c) \/ Backfill(c)
    \/ FindOne(c) \/ SaveRow(c) \/ Hset(c)
    \/ SaveUpdatedBy(c) \/ DeleteRow(c) \/ Hdel(c) \/ Fail(c)

FrSpec == FrInit /\ [][FrNext]_frVars
-----------------------------------------------------------------------------
FrTypeOK ==
  /\ file \in [Id -> Row \cup {None}] /\ map \in [Id -> Row \cup {None}]
  /\ writes \in 0..MaxWrites /\ suspect \subseteq Id
  /\ \A c \in Client : op[c].id \in Id \cup {0} /\ op[c].ids \subseteq Id

(* The copy of a row is the row, and there is none of a deleted row, unless *)
(* the row is being written, or operations on it overlapped or failed: and  *)
(* then the next write of the row that nothing overlaps repairs the copy.   *)
CopyIsRow ==
  \A id \in Id \ suspect :
    (map[id] # None /\ ~\E c \in Client : Holds(c, id) /\ op[c].pc \in {"hset", "delete", "hdel"})
      => map[id] = file[id] /\ ~map[id].deleted
=============================================================================
