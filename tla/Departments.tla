---------------------------- MODULE Departments ----------------------------
(* OpDeptSharedService: the department tree, the id path of each department *)
(* and the closure table kept from it, and what DataScopeEngine reads in    *)
(* that table.  No operation runs in a transaction: a step is a statement.  *)
EXTENDS Naturals

CONSTANTS Editor, Dept, Member, None,
  MayDie        \* a process may die, or the database fail, between statements

VARIABLES
  parent,       \* op_dept.parent_dept_id; "none" before, "deleted" after the row
  path,         \* op_dept.id_path as the set of its ids
  closure,      \* op_dept_closure: pairs of ancestor and descendant
  memberOf,     \* op_user.dept_id
  edit,         \* the operations in progress
  torn,         \* history: departments an operation died on
  raced,        \* history: two operations were in progress together
  unchecked     \* history: members whose department was absent when stored

dpVars == <<parent, path, closure, memberOf, edit, torn, raced, unchecked>>

Row(d) == parent[d] \notin {"none", "deleted"}
Root == "root"

EditRec == [pc : {"idle", "find", "save", "clear", "insert", "children",
                  "members", "unlink", "remove"},
            op : {"none", "create", "update", "delete"},
            dept : Dept \cup {None}, parent : Dept \cup {Root},
            path : SUBSET Dept]
IdleEdit == [pc |-> "idle", op |-> "none", dept |-> None, parent |-> Root, path |-> {}]

DpTypeOK ==
  /\ parent \in [Dept -> Dept \cup {Root, "none", "deleted"}]
  /\ path \in [Dept -> SUBSET Dept]
  /\ closure \in SUBSET (Dept \X Dept)
  /\ memberOf \in [Member -> Dept \cup {None}]
  /\ edit \in [Editor -> EditRec]
  /\ torn \in SUBSET Dept
  /\ raced \in BOOLEAN
  /\ unchecked \in SUBSET Member

DpInit ==
  /\ parent = [d \in Dept |-> "none"]
  /\ path = [d \in Dept |-> {}]
  /\ closure = {}
  /\ memberOf = [m \in Member |-> None]
  /\ edit = [e \in Editor |-> IdleEdit]
  /\ torn = {} /\ raced = FALSE /\ unchecked = {}

dpRows == <<parent, path>>
dpNotes == <<torn, raced, unchecked>>
Busy(e) == edit[e].pc # "idle"
Goto(e, pc) == edit' = [edit EXCEPT ![e].pc = pc]
Stop(e) == edit' = [edit EXCEPT ![e] = IdleEdit]

Begin(e, op, d, p) ==
  /\ ~Busy(e)
  /\ edit' = [edit EXCEPT ![e] = [pc |-> "find", op |-> op, dept |-> d, parent |-> p, path |-> {}]]
  /\ raced' = (raced \/ \E f \in Editor \ {e} : Busy(f))
  /\ UNCHANGED <<dpRows, closure, memberOf, torn, unchecked>>

(* A new department gets an id of its own, whichever. *)
Unused == {d \in Dept : parent[d] = "none" /\ \A f \in Editor : edit[f].dept # d}
CreateDept(e, p) == /\ Unused # {}
                    /\ Begin(e, "create", CHOOSE d \in Unused : TRUE, p)
UpdateDept(e, d) == Row(d) /\ Begin(e, "update", d, Root)
DeleteDept(e, d) == Row(d) /\ Begin(e, "delete", d, Root)

(* The parent of a new department, whose path it extends, or the department.*)
FindDept(e) ==
  /\ edit[e].pc = "find"
  /\ LET o == edit[e] IN
     CASE o.op = "create" ->
            IF o.parent = Root THEN edit' = [edit EXCEPT ![e].pc = "save", ![e].path = {o.dept}]
            ELSE IF Row(o.parent)
              THEN edit' = [edit EXCEPT ![e].pc = "save", ![e].path = path[o.parent] \cup {o.dept}]
              ELSE Stop(e)
       [] o.op = "update" ->
            IF Row(o.dept) THEN edit' = [edit EXCEPT ![e].pc = "save", ![e].path = path[o.dept],
                                                     ![e].parent = parent[o.dept]]
            ELSE Stop(e)
       [] OTHER -> IF Row(o.dept) THEN Goto(e, "children") ELSE Stop(e)
  /\ UNCHANGED <<dpRows, closure, memberOf, dpNotes>>

(* An update saves the entity found before, inserting it again if deleted.  *)
SaveDept(e) ==
  /\ edit[e].pc = "save"
  /\ parent' = [parent EXCEPT ![edit[e].dept] = edit[e].parent]
  /\ path' = [path EXCEPT ![edit[e].dept] = edit[e].path]
  /\ Goto(e, "clear")
  /\ UNCHANGED <<closure, memberOf, dpNotes>>

(* syncClosureTable: delete the rows of the descendant, then insert them;   *)
(* the primary key refuses a row that is there again.                       *)
ClearClosure(e) ==
  /\ edit[e].pc = "clear"
  /\ closure' = {c \in closure : c[2] # edit[e].dept}
  /\ Goto(e, "insert")
  /\ UNCHANGED <<dpRows, memberOf, dpNotes>>

(* Mutant: the ancestors are left out. *)
InsertSelf(e) ==
  /\ edit[e].pc = "insert"
  /\ LET new == {<<edit[e].dept, edit[e].dept>>} IN
     closure' = IF new \cap closure = {} THEN closure \cup new ELSE closure
  /\ torn' = torn \ {edit[e].dept}
  /\ Stop(e)
  /\ UNCHANGED <<dpRows, memberOf, raced, unchecked>>

InsertClosure(e) ==
  /\ edit[e].pc = "insert"
  /\ LET new == edit[e].path \X {edit[e].dept} IN
     closure' = IF new \cap closure = {} THEN closure \cup new ELSE closure
  /\ torn' = torn \ {edit[e].dept}
  /\ Stop(e)
  /\ UNCHANGED <<dpRows, memberOf, raced, unchecked>>

CountChildren(e) ==
  /\ edit[e].pc = "children"
  /\ IF \E d \in Dept : parent[d] = edit[e].dept THEN Stop(e) ELSE Goto(e, "members")
  /\ UNCHANGED <<dpRows, closure, memberOf, dpNotes>>

CountMembers(e) ==
  /\ edit[e].pc = "members"
  /\ IF \E m \in Member : memberOf[m] = edit[e].dept THEN Stop(e) ELSE Goto(e, "unlink")
  /\ UNCHANGED <<dpRows, closure, memberOf, dpNotes>>

DeleteClosure(e) ==
  /\ edit[e].pc = "unlink"
  /\ closure' = {c \in closure : edit[e].dept \notin {c[1], c[2]}}
  /\ Goto(e, "remove")
  /\ UNCHANGED <<dpRows, memberOf, dpNotes>>

RemoveDept(e) ==
  /\ edit[e].pc = "remove"
  /\ parent' = [parent EXCEPT ![edit[e].dept] = "deleted"]
  /\ path' = [path EXCEPT ![edit[e].dept] = {}]
  /\ torn' = torn \ {edit[e].dept}
  /\ Stop(e)
  /\ UNCHANGED <<closure, memberOf, raced, unchecked>>

(* createOpUser and updateOpUser store the department they are given, or    *)
(* none, and do not look whether it exists.                                 *)
AssignMember(m, d) ==
  /\ memberOf[m] # d
  /\ memberOf' = [memberOf EXCEPT ![m] = d]
  /\ unchecked' = IF d = None \/ Row(d) THEN unchecked \ {m} ELSE unchecked \cup {m}
  /\ raced' = (raced \/ \E e \in Editor : Busy(e))
  /\ UNCHANGED <<dpRows, closure, edit, torn>>

EditorDies(e) ==
  /\ MayDie
  /\ Busy(e)
  /\ torn' = IF edit[e].pc \in {"clear", "insert", "remove"} THEN torn \cup {edit[e].dept} ELSE torn
  /\ Stop(e)
  /\ UNCHANGED <<dpRows, closure, memberOf, raced, unchecked>>

DpNext ==
  \/ \E e \in Editor, d \in Dept : UpdateDept(e, d) \/ DeleteDept(e, d)
  \/ \E e \in Editor, p \in Dept \cup {Root} : CreateDept(e, p)
  \/ \E e \in Editor :
       \/ FindDept(e) \/ SaveDept(e) \/ ClearClosure(e) \/ InsertClosure(e)
       \/ CountChildren(e) \/ CountMembers(e) \/ DeleteClosure(e) \/ RemoveDept(e)
       \/ EditorDies(e)
  \/ \E m \in Member, d \in Dept \cup {None} : AssignMember(m, d)

DpSpec == DpInit /\ [][DpNext]_dpVars

-----------------------------------------------------------------------------
(* A set of departments that holds the parents of its members; the          *)
(* ancestors of a department, itself included, are in every such set around *)
(* it.                                                                      *)
ClosedUp(S) == \A x \in S : Row(x) /\ parent[x] # Root => parent[x] \in S
Ancestors(d) == {a \in Dept : \A S \in SUBSET Dept : d \in S /\ ClosedUp(S) => a \in S}

(* DataScopeEngine, DEPT_AND_CHILDREN: the row of a department is visible   *)
(* to the members of it and of the departments below it.                    *)
Visible(scope, member) == <<scope, memberOf[member]>> \in closure

(* What the closure table answers is what the tree says, once operations    *)
(* that did not overlap are over, but for departments one died on; a member *)
(* of a department that is not there is in nobody's scope.                  *)
ScopeFollowsTreeAlone ==
  ~raced /\ (\A e \in Editor : ~Busy(e)) =>
    \A m \in Member, s \in Dept :
      memberOf[m] # None /\ memberOf[m] \notin torn
        => (Visible(s, m) <=> Row(memberOf[m]) /\ s \in Ancestors(memberOf[m]))

(* The parent of a department exists and so does the department of a member,*)
(* while operations do not overlap (both are counted before the delete),    *)
(* unless it was not there when a user was given it, which nothing checks.  *)
ReferencesExistAlone ==
  ~raced => /\ \A d \in Dept : Row(d) => parent[d] = Root \/ Row(parent[d])
            /\ \A m \in Member \ unchecked : memberOf[m] # None => Row(memberOf[m])

(* An update repairs the closure of a department whatever an operation that *)
(* died had left there: its second sync is not as redundant as it says.     *)
Repaired ==
  \A e \in Editor :
    ~raced /\ edit[e].op = "update" /\ edit[e].pc = "insert" /\ edit'[e].pc = "idle"
      /\ edit[e].dept \notin torn'
    => LET d == edit[e].dept IN {c \in closure' : c[2] = d} = path[d] \X {d}
UpdateRepairs == [][Repaired]_dpVars
=============================================================================
