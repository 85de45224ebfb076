--------------------------- MODULE ReferenceData ---------------------------
(* DictionaryService and CityService: read-only data read from files at     *)
(* start-up and published in Redis twice, as the tree (dict:full:<key>,     *)
(* city:full) and as a hash from each code to its path (dict:map:<key>,     *)
(* city:map).  Groups share no key: a behaviour is about one of them, a     *)
(* dictionary or the cities.  Processes with other files may start at the   *)
(* same time, and a command of Redis may fail.                              *)
EXTENDS Naturals, Sequences, FiniteSets

CONSTANTS Process, None,
  Value,        \* the codes
  Trees,        \* what the files hold
  MaxStarts     \* bound: how often processes start

VARIABLES
  group,        \* what the behaviour is about
  full,         \* the published tree
  map,          \* the published paths, by value
  proc,         \* the processes
  spoilt,       \* the last refreshes overlapped, or broke off
  starts

rdVars == <<group, full, map, proc, spoilt, starts>>
-----------------------------------------------------------------------------
(* A tree is the sequence of its items before their children, each with its *)
(* depth; the first is no child.                                            *)
Item == [value : Value, depth : 1..2]
Tree == {t \in Seq(Item) : t # << >> => t[1].depth = 1}
Distinct(tree) == \A i, j \in DOMAIN tree : tree[i].value = tree[j].value => i = j

(* The items above item i, and itself: codePath.                            *)
Path(tree, i) ==
  IF tree[i].depth = 1 THEN <<tree[i].value>>
  ELSE LET up == {j \in 1..(i - 1) : tree[j].depth = 1}
       IN <<tree[CHOOSE j \in up : \A k \in up : k <= j].value, tree[i].value>>

(* Mutant: a code may be listed twice. *)
FlattenNothing(tree) == tree
(* validateAndFlatten: an item whose value was seen before is left out, and *)
(* its children with it.                                                    *)
Take(seen, item) ==
  IF item.depth > seen.skip THEN seen
  ELSE IF \E i \in DOMAIN seen.kept : seen.kept[i].value = item.value
  THEN [kept |-> seen.kept, skip |-> item.depth]
  ELSE [kept |-> Append(seen.kept, item), skip |-> 2]
Flatten(tree) ==
  LET seen[n \in 0..Len(tree)] ==
        IF n = 0 THEN [kept |-> << >>, skip |-> 2] ELSE Take(seen[n - 1], tree[n])
  IN seen[Len(tree)].kept

(* The tree a process publishes: of the two sources of a dictionary, each   *)
(* None when it is missing or not readable, the shard directory wins; the   *)
(* cities have one source, whose codes differ.                              *)
Load(monolith, shard) == IF shard # None THEN shard ELSE monolith
Sources ==
  IF group = "city" THEN {t \in Trees : Distinct(t)} \cup {None}
  ELSE {Load(m, s) : m, s \in Trees \cup {None}}
Published(tree) == IF group = "dict" THEN Flatten(tree) ELSE tree

(* hmset of the paths: entries of values that are no longer there stay.     *)
Put(tree) ==
  [v \in Value |->
     LET is == {i \in DOMAIN tree : tree[i].value = v}
     IN IF is = {} THEN map[v] ELSE Path(tree, CHOOSE i \in is : \A j \in is : j <= i)]

Idle == [pc |-> "down", tree |-> None, alone |-> TRUE, all |-> << >>]

RdInit ==
  /\ group \in {"dict", "city"}
  /\ full = << >>
  /\ map = [v \in Value |-> None]
  /\ proc = [p \in Process |-> Idle]
  /\ spoilt = FALSE /\ starts = 0

Between == {p \in Process : proc[p].pc = "map"}
-----------------------------------------------------------------------------
(* onModuleInit, refresh: the files are read.  Without any, a dictionary is *)
(* not published, and the refresh of the cities ends.                       *)
Start(p, source) ==
  /\ proc[p].pc \in {"down", "up"} /\ starts < MaxStarts
  /\ proc' = [proc EXCEPT ![p] =
                [Idle EXCEPT !.pc = IF source = None THEN "up" ELSE "full", !.tree = source]]
  /\ starts' = starts + 1
  /\ UNCHANGED <<group, full, map, spoilt>>

(* redisService.set of the tree; nothing excludes another process.          *)
SetFull(p) ==
  /\ proc[p].pc = "full"
  /\ full' = Published(proc[p].tree)
  /\ proc' = [q \in Process |->
                IF q = p THEN [proc[p] EXCEPT !.pc = "map", !.alone = Between = {}]
                ELSE [proc[q] EXCEPT !.alone = @ /\ q \notin Between]]
  /\ spoilt' = (spoilt \/ Between # {})
  /\ UNCHANGED <<group, map, starts>>

(* hmset of the paths; a dictionary is kept for getAll as well.             *)
SetMap(p) ==
  /\ proc[p].pc = "map"
  /\ map' = Put(Published(proc[p].tree))
  /\ spoilt' = (spoilt /\ ~proc[p].alone)
  /\ proc' = [proc EXCEPT ![p] = [Idle EXCEPT !.pc = "up",
                 !.all = IF group = "dict" THEN Published(proc[p].tree) ELSE << >>]]
  /\ UNCHANGED <<group, full, starts>>

(* A command fails, which is logged: the process runs without the group.    *)
RedisFails(p) ==
  /\ proc[p].pc \in {"full", "map"}
  /\ spoilt' = (spoilt \/ proc[p].pc = "map")
  /\ proc' = [proc EXCEPT ![p] = [Idle EXCEPT !.pc = "up"]]
  /\ UNCHANGED <<group, full, map, starts>>

Dies(p) ==
  /\ proc[p].pc # "down"
  /\ spoilt' = (spoilt \/ proc[p].pc = "map")
  /\ proc' = [proc EXCEPT ![p] = Idle]
  /\ UNCHANGED <<group, full, map, starts>>

RdNext ==
  \E p \in Process :
    \/ \E source \in Sources : Start(p, source)
    \/ SetFull(p) \/ SetMap(p) \/ RedisFails(p) \/ Dies(p)

RdSpec == RdInit /\ [][RdNext]_rdVars
-----------------------------------------------------------------------------
(* What the handlers answer: getList, getFullTree and the queries of a part *)
(* of the tree read full, translate reads map.                              *)
Translate(v) == map[v]
GetList == full

RdTypeOK ==
  /\ full \in Seq(Item)
  /\ \A v \in Value : map[v] = None \/ map[v] \in Seq(Value)
  /\ starts \in 0..MaxStarts

(* Every code that is listed is listed once and translates to its place in  *)
(* the list, unless the tree and the paths come from two refreshes because  *)
(* those overlapped or one broke off; the next refresh repairs that.        *)
ListedTranslates ==
  ~spoilt /\ Between = {} =>
    /\ Distinct(GetList)
    /\ \A i \in DOMAIN GetList : Translate(GetList[i].value) = Path(GetList, i)
=============================================================================
