------------------------- MODULE MCSessionPipeline -------------------------
(* TLC instances of SessionPipeline: messages m1 and m2 go to the session  *)
(* s1, m3 to s2.                                                           *)
EXTENDS SessionPipeline

CONSTANTS m1, m2, m3, s1, s2

MCSessionOf(m) == IF m = m3 THEN s2 ELSE s1
=============================================================================
