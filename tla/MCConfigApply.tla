---------------------------- MODULE MCConfigApply ----------------------------
(* Instances of ConfigApply for TLC: the two cores of the code and two or    *)
(* three tasks.                                                              *)
EXTENDS ConfigApply, TLC

Symmetry == Permutations(Tasks)
=============================================================================
