----------------------------- MODULE Transcript -----------------------------
(***************************************************************************)
(* What a run says, shown twice: event by event while it says it, and      *)
(* later from the message that was stored when it had ended.               *)
(*                                                                         *)
(*   CLI or agent -> runner, which gives messages ids of Leros             *)
(*     -> RunJournal -> stream sink -> ProjectStreamMessage: shown         *)
(*     at the end -> archive, in which the deltas of a message are merged  *)
(*     -> chunks of the stored message -> ProjectRunEventRecord: retold    *)
(*                                                                         *)
(* Deltas come from a CLI (externalcli/runner.go), whose messages have ids *)
(* of the provider, from its stderr, or from the built-in agent            *)
(* (eino/flow.go), which begins a new message with every answer. A text is *)
(* the sequence of the numbers of its deltas. Who loses or reorders events *)
(* is modelled by EventStream.                                             *)
(***************************************************************************)
EXTENDS Naturals, SequencesExt

CONSTANTS
  Provided,  \* ids that a provider gives its messages
  Tools,     \* ids of tool calls
  MaxSaid    \* bound: events of the run, without its end

TranscriptAssumption == MaxSaid \in Nat

NoId == "no id"
Stderr == "stderr"
Ends == {"completed", "failed", "cancelled"}
Deltas == {"text", "thought"}

VARIABLES
  source,   \* "cli" or "agent"
  ids,      \* MessageIDMapper: ids[p], the message id of a provider's id, or 0
  current,  \* the message id given last, or 0
  minted,   \* message ids so far
  recorded, \* the journal's rawEvents
  shown,    \* what a browser that watches is shown
  stored,   \* the chunks of the stored message
  ended

transcriptVars == <<source, ids, current, minted, recorded, shown, stored, ended>>

Init ==
  /\ source \in {"cli", "agent"}
  /\ ids = [p \in Provided \cup {Stderr} |-> 0]
  /\ current = 0 /\ minted = 0
  /\ recorded = <<>> /\ shown = <<>> /\ stored = <<>>
  /\ ended = FALSE

Open == ~ended /\ Len(recorded) < MaxSaid
Event(kind, of, text) == [seq |-> Len(recorded) + 1, kind |-> kind, of |-> of, text |-> text]

(* MQStreamSink: on the stream a cancelled run is one that has failed, and *)
(* a failed call one that has finished.                                    *)
Streamed(e) ==
  [e EXCEPT !.kind = CASE @ = "cancelled" -> "failed"
                       [] @ \in {"tool completed", "tool failed"} -> "tool finished"
                       [] @ = "result" -> "message completed"
                       [] OTHER -> @]

(* ProjectStreamMessage: the answer has no event of its own for the        *)
(* browser.                                                                *)
Projected(e) == IF Streamed(e).kind = "message completed" THEN <<>> ELSE <<Streamed(e)>>

(* RunJournal.Append: every event but the completion of the run is kept.   *)
Journal(e) ==
  /\ recorded' = IF e.kind = "completed" THEN recorded ELSE Append(recorded, e)
  /\ shown' = shown \o Projected(e)

-----------------------------------------------------------------------------
(* MessageIDMapper *)
ForProvider(p) ==
  IF ids[p] # 0
  THEN current' = ids[p] /\ UNCHANGED <<ids, minted>>
  ELSE /\ minted' = minted + 1
       /\ ids' = [ids EXCEPT ![p] = minted + 1]
       /\ current' = minted + 1

CurrentOrNew ==
  /\ UNCHANGED ids
  /\ IF current # 0 THEN UNCHANGED <<current, minted>>
     ELSE minted' = minted + 1 /\ current' = minted + 1

(* normalizeRuntimeEvent: a delta with an id, of stdout or of stderr,      *)
(* whose scanner has an id of its own, or a line that is not JSON and      *)
(* belongs to whatever message spoke last.                                 *)
CliDelta(kind, p) ==
  /\ source = "cli" /\ Open
  /\ p \in {Stderr, NoId} => kind = "text"
  /\ IF p = NoId THEN CurrentOrNew ELSE ForProvider(p)
  /\ Journal(Event(kind, current', <<Len(recorded) + 1>>))
  /\ UNCHANGED <<source, stored, ended>>

(* StreamWithUsage: every answer of the model is a new message.            *)
StartNew ==
  /\ source = "agent" /\ Open /\ minted < MaxSaid
  /\ minted' = minted + 1 /\ current' = minted + 1
  /\ UNCHANGED <<source, ids, recorded, shown, stored, ended>>

AgentDelta(kind) ==
  /\ source = "agent" /\ Open /\ current # 0
  /\ Journal(Event(kind, current, <<Len(recorded) + 1>>))
  /\ UNCHANGED <<source, ids, current, minted, stored, ended>>

(* The lifecycle says that the run has started, unless its preparation has *)
(* failed.                                                                 *)
SayStarted ==
  /\ Open /\ recorded = <<>>
  /\ Journal(Event("started", 0, <<>>))
  /\ UNCHANGED <<source, ids, current, minted, stored, ended>>

ToolEvent(kind, t) ==
  /\ Open
  /\ Journal(Event(kind, t, <<>>))
  /\ UNCHANGED <<source, ids, current, minted, stored, ended>>

SayResult ==
  /\ Open
  /\ Journal(Event("result", 0, <<>>))
  /\ UNCHANGED <<source, ids, current, minted, stored, ended>>

-----------------------------------------------------------------------------
(* Mutant: the deltas of a message are merged whatever their kind. *)
SameOfAnyKind(r, e) == e.kind \in Deltas /\ r.kind \in Deltas /\ r.of = e.of

(* mergeKey *)
Same(r, e) == e.kind \in Deltas /\ r.kind = e.kind /\ r.of = e.of

(* eventRecord *)
RecordOf(e) == [seq |-> e.seq, last |-> e.seq, kind |-> e.kind, of |-> e.of, text |-> e.text]

TakeIn(r, e) == [r EXCEPT !.last = e.seq, !.text = @ \o e.text]

(* archiveEventsLocked: the first delta of a message takes in the others.  *)
(* The sort by seq at its end finds the records in order (HistoryIsWhole). *)
Archived(rs, e) ==
  LET at == {i \in DOMAIN rs : Same(rs[i], e)} IN
  IF e.kind \in {"completed", "result"} THEN rs
  ELSE IF at = {} THEN Append(rs, RecordOf(e))
  ELSE [i \in DOMAIN rs |-> IF i \in at THEN TakeIn(rs[i], e) ELSE rs[i]]

Archive(es) ==
  LET archived[n \in 0..Len(es)] ==
        IF n = 0 THEN <<>> ELSE Archived(archived[n - 1], es[n])
  IN archived[Len(es)]

(* emitTerminalRunEvent: the archive is taken before the end is recorded.  *)
(* session_completed.go makes chunks of it.                                *)
End(kind) ==
  /\ ~ended
  /\ ended' = TRUE
  /\ stored' = Archive(recorded)
  /\ Journal(Event(kind, 0, <<>>))
  /\ UNCHANGED <<source, ids, current, minted>>

(* ProjectRunEventRecord, of each chunk in its turn. *)
Retold == UNION {ToSet(Projected(r)) : r \in ToSet(stored)}

-----------------------------------------------------------------------------
Next ==
  \/ \E kind \in Deltas : AgentDelta(kind) \/ \E p \in Provided \cup {Stderr, NoId} : CliDelta(kind, p)
  \/ StartNew \/ SayStarted \/ SayResult
  \/ \E t \in Tools, kind \in {"tool started", "tool completed", "tool failed"} : ToolEvent(kind, t)
  \/ \E kind \in Ends : End(kind)

Spec == Init /\ [][Next]_transcriptVars

-----------------------------------------------------------------------------
TypeOK ==
  /\ current \in 0..minted
  /\ \A p \in DOMAIN ids : ids[p] \in 0..minted
  /\ ended <=> shown # <<>> /\ Last(shown).kind \in Ends

InOrder(es) == \A i, j \in DOMAIN es : i < j => es[i].seq < es[j].seq
Increases(text) == \A i, j \in DOMAIN text : i < j => text[i] < text[j]
Parts(es, kind, m) == {e \in es : e.kind = kind /\ e.of = m}
Calls(es) == {<<e.seq, e.kind, e.of>> : e \in {c \in es : c.kind \notin Deltas}}

(* What is told again of a message is one text, of all the deltas shown    *)
(* and in their order, at the place where the message began.               *)
ToldOnce(said, again) ==
  IF said = {} THEN again = {}
  ELSE \E r \in again :
         /\ again = {r}
         /\ Increases(r.text) /\ ToSet(r.text) = UNION {ToSet(e.text) : e \in said}
         /\ r.seq = Head(r.text) /\ r.last = Last(r.text)

(* The stored message tells the run again as it was shown: of every        *)
(* message the same text and the same thoughts, each once and the thoughts *)
(* apart from the text, at the place where the message began, and the same *)
(* tool calls in the same order; only the end is told by the message       *)
(* itself. And no two messages of the provider are made one.               *)
HistoryIsWhole ==
  ended =>
    /\ InOrder(shown) /\ InOrder(stored)
    /\ \A m \in 1..minted, kind \in Deltas :
         ToldOnce(Parts(ToSet(shown), kind, m), Parts(Retold, kind, m))
    /\ Calls(Retold) = Calls(ToSet(Front(shown)))
    /\ \A p, q \in DOMAIN ids : ids[p] # 0 /\ ids[p] = ids[q] => p = q
=============================================================================
