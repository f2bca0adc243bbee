------------------------------ MODULE MCModule ------------------------------
(* Constants of AufsModule for model checking: two or three mount points,  *)
(* two descriptors, two loads of the module.                               *)
EXTENDS AufsModule, TLC

MCSymmetry == Permutations(MountPoints) \cup Permutations(Files)
=============================================================================
