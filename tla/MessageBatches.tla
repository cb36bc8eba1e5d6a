--------------------------- MODULE MessageBatches ---------------------------
(***************************************************************************)
(* What the path of a user message through the worker promises, without    *)
(* queues, debouncing, runs or events: the messages of a session are       *)
(* worked on in batches, one batch at a time. A batch takes everything     *)
(* that waits, and a message is part of one batch only.                    *)
(*                                                                         *)
(* SessionPipeline is shown to implement this module.                      *)
(***************************************************************************)
CONSTANTS
  Messages,         \* the user messages that will be sent
  Sessions,         \* the sessions
  SessionOf(_)      \* the session a message belongs to

VARIABLE work       \* message -> "unsent", "waiting", "inWork" or "done"

Of(s) == {m \in Messages : SessionOf(m) = s}
In(s, w) == {m \in Of(s) : work[m] = w}

Init == work = [m \in Messages |-> "unsent"]

Send(m) ==
  /\ work[m] = "unsent"
  /\ work' = [work EXCEPT ![m] = "waiting"]

(* Everything that waits becomes the session's only batch.                 *)
Take(s) ==
  /\ In(s, "inWork") = {}
  /\ In(s, "waiting") # {}
  /\ work' = [m \in Messages |-> IF m \in In(s, "waiting") THEN "inWork" ELSE work[m]]

Finish(s) ==
  /\ In(s, "inWork") # {}
  /\ work' = [m \in Messages |-> IF m \in In(s, "inWork") THEN "done" ELSE work[m]]

Next ==
  \/ \E m \in Messages : Send(m)
  \/ \E s \in Sessions : Take(s) \/ Finish(s)

Spec == Init /\ [][Next]_work
=============================================================================
