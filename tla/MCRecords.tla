------------------------------ MODULE MCRecords ------------------------------
(* Model checking of the services that keep records of each other: OSS      *)
(* configurations and the default among them, departments and their         *)
(* closure, the built-in administrator.  A behaviour is about one of them,  *)
(* its subject; the others stand still.  The OSS storage is the subject     *)
(* twice: with edits of the setting and without uploads, and the other way  *)
(* round with a version of the setting less.                                *)
EXTENDS OssStorage, TLC

CONSTANTS p1, p2, oss1, oss2, d1, d2, d3, m1,
  Dept, MayDie,                  \* Departments
  Attempts, MaxStarts            \* AdminBootstrap

VARIABLES
  subject,
  parent, path, closure, memberOf, edit, torn, raced, unchecked,
  row, other, ensure, starts, deleted

Depts == INSTANCE Departments WITH Editor <- Proc, Member <- {m1}
Builtin == INSTANCE AdminBootstrap

(* A department is none of the marks that stand for one.                    *)
ASSUME DeptAssumption ==
  /\ MayDie \in BOOLEAN
  /\ None \notin Dept /\ Dept \cap {"root", "none", "deleted"} = {}

(* A job is tried at least once. *)
ASSUME BootstrapAssumption == Attempts \in Nat \ {0} /\ MaxStarts \in Nat

deptVars == <<parent, path, closure, memberOf, edit, torn, raced, unchecked>>
builtinVars == <<row, other, ensure, starts, deleted>>
allVars == <<subject, vars, deptVars, builtinVars>>

RecordsInit ==
  /\ subject \in {"setting", "files", "departments", "builtin"}
  /\ Init /\ Depts!DpInit /\ Builtin!AbInit
  /\ subject # "builtin" => ~other

Uploads(p) == op[p].pc = "get"
Edits(p) == op[p].pc = "edit" \/ op[p].ver + 1 = MaxVersion

RecordsNext ==
  \/ /\ subject \in {"setting", "files"} /\ Next
     /\ IF subject = "setting" THEN \A p \in Proc : ~Uploads(p)'
        ELSE \A p \in Proc : ~Edits(p)'
     /\ UNCHANGED <<subject, deptVars, builtinVars>>
  \/ subject = "departments" /\ Depts!DpNext /\ UNCHANGED <<subject, vars, builtinVars>>
  \/ subject = "builtin" /\ Builtin!AbNext /\ UNCHANGED <<subject, vars, deptVars>>

RecordsSpec == RecordsInit /\ [][RecordsNext]_allVars

(* The scope of a department is its subtree and nothing refers to one that  *)
(* is gone, while operations do not overlap; an update repairs the closure. *)
DepartmentsSafe ==
  [](subject = "departments" =>
       Depts!DpTypeOK /\ Depts!ScopeFollowsTreeAlone /\ Depts!ReferencesExistAlone)
    /\ Depts!UpdateRepairs

BootstrapLeavesAdmin == subject = "builtin" => Builtin!AbTypeOK /\ Builtin!BootstrapLeavesAdmin

(* Operations on departments overlap, or one of them dies: what holds only  *)
(* without either is not looked at once both have happened.                 *)
OneTrouble == raced => torn = {}

MCSymmetry == Permutations(Proc) \cup Permutations(Code)
=============================================================================
