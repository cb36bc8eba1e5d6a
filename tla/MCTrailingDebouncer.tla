------------------------ MODULE MCTrailingDebouncer ------------------------
(* TLC instances of TrailingDebouncer. *)
EXTENDS TrailingDebouncer, TLC

Symmetry == Permutations(Keys) \cup Permutations(Timers)
=============================================================================
