---------------------------- MODULE MCOssStorage ----------------------------
(* Model checking of OssStorage on small instances.                         *)
EXTENDS OssStorage, TLC

CONSTANTS p1, p2, oss1, oss2

MCSymmetry == Permutations(Proc) \cup Permutations(Code)
=============================================================================
