--------------------------- MODULE MCSessionStore ---------------------------
(* TLC instances of SessionStore. *)
EXTENDS SessionStore, TLC

AllOps == StatusOps \cup SaveOps \cup CreateOps \cup {"clear", "delete", "delete message"}

Symmetry == Permutations(Callers)
=============================================================================
