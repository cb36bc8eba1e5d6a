------------------------ MODULE MCProcessScheduler ------------------------
(* TLC instances of ProcessScheduler. *)
EXTENDS ProcessScheduler, TLC

Symmetry == Permutations(Ids)
=============================================================================
