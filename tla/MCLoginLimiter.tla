--------------------------- MODULE MCLoginLimiter ---------------------------
(* Instances of LoginLimiter for TLC.                                        *)
EXTENDS LoginLimiter, TLC

Symmetry == Permutations(Accounts) \cup Permutations(Addresses) \cup Permutations(Requests)
=============================================================================
