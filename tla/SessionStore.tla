---------------------------- MODULE SessionStore ----------------------------
(***************************************************************************)
(* service/session_service.go over infra/db: what requests, the title      *)
(* handler and the completion handler do to the row of one session and to  *)
(* its messages. A call reads the row, decides, and writes with later      *)
(* statements; nothing locks the row in between. A write is either an      *)
(* UPDATE of one column or Save, which writes back every column of the row *)
(* as it was read.                                                         *)
(*                                                                         *)
(* The session exists; its id can never be created again, since the unique *)
(* index also covers deleted rows. How a message is worked on is modelled  *)
(* by SessionPipeline.                                                     *)
(***************************************************************************)
EXTENDS Naturals, Sequences, FiniteSets

CONSTANTS
  Callers,     \* goroutines that call the service
  Ops,         \* the operations they call
  MaxMessages, \* bound: messages ever created
  MaxCalls     \* bound: calls

StatusOps == {"activate", "pause", "end", "resume"}
SaveOps == {"update", "amend", "title"}
CreateOps == {"add", "reply"}

StoreAssumption ==
  /\ Ops \subseteq StatusOps \cup SaveOps \cup CreateOps \cup {"clear", "delete", "delete message"}
  /\ MaxMessages \in Nat /\ MaxCalls \in Nat /\ IsFiniteSet(Callers)

AutoTitleLimit == 3 \* messages after which the title is left alone

VARIABLES
  row,      \* the session: status, title, whether it was set by hand, ...
  messages, \* the messages in the order they were created
  call,     \* what each caller is doing, with the row it has read
  calls,    \* calls made so far
  overlap,  \* history: a call that saves the row was open beside another one
  missed,   \* history: messages stored by an AddMessage that failed to count them
  unsaved   \* history: messages deleted by a clear that has not saved the row

history == <<missed, unsaved>>
vars == <<row, messages, call, calls, overlap, missed, unsaved>>

NewRow == [status |-> "active", title |-> "none", manual |-> FALSE,
           count |-> 0, last |-> FALSE, deleted |-> FALSE]

Idle == [op |-> "idle", at |-> "start", copy |-> NewRow, next |-> 0, seen |-> {}]

Init ==
  /\ row = NewRow
  /\ messages = <<>>
  /\ call = [p \in Callers |-> Idle]
  /\ calls = 0
  /\ overlap = FALSE
  /\ missed = 0
  /\ unsaved = {}

Ids == DOMAIN messages
Live == {m \in Ids : messages[m].live}

At(p, op, at) == call[p].op = op /\ call[p].at = at

Busy == {p \in Callers : call[p].op # "idle"}
Savers == SaveOps \cup {"clear"}

Return(p) == call' = [call EXCEPT ![p] = Idle]

Goto(p, at) == call' = [call EXCEPT ![p].at = at]

-----------------------------------------------------------------------------
(* Reading the row.                                                        *)

(* GetSessionBySessionID does not find a deleted session. *)
Finds == ~row.deleted

(* Mutant: an ended session can be activated, a manual title replaced. *)
AllowsAlways(op) == op = "resume" => row.status = "paused"

(* The checks made on the row that was read; a call that fails them returns. *)
Allows(op) ==
  /\ op = "activate" => row.status # "ended"
  /\ op = "pause" => row.status \notin {"ended", "expired"}
  /\ op = "end" => row.status # "ended"
  /\ op = "resume" => row.status = "paused"
  /\ op = "title" => ~row.manual /\ row.count < AutoTitleLimit

Read(p, op) ==
  /\ call[p].op = "idle"
  /\ calls < MaxCalls
  /\ Finds /\ Allows(op)
  /\ calls' = calls + 1
  /\ call' = [call EXCEPT ![p] = [Idle EXCEPT !.op = op, !.copy = row]]
  /\ overlap' = (overlap \/ \E q \in Busy : {op, call[q].op} \cap Savers # {})
  /\ UNCHANGED <<row, messages, history>>

-----------------------------------------------------------------------------
(* Writing it.                                                             *)
Target(op) ==
  CASE op = "pause" -> "paused" [] op = "end" -> "ended" [] OTHER -> "active"

(* An UPDATE that leaves deleted rows alone. *)
UpdateRow(new) == row' = IF row.deleted THEN row ELSE new

(* ActivateSession, PauseSession, EndSession, ResumeSession. *)
SetStatus(p) ==
  /\ call[p].op \in StatusOps
  /\ UpdateRow([row EXCEPT !.status = Target(call[p].op)])
  /\ Return(p)
  /\ UNCHANGED <<messages, calls, overlap, history>>

(* UpdateSession: a title sets the flag too; a change of metadata or expiry *)
(* ("amend") saves the row as it was read. Save of a row that has been     *)
(* deleted meanwhile inserts it again.                                     *)
SaveUpdate(p) ==
  /\ call[p].op \in {"update", "amend"}
  /\ row' = IF call[p].op = "amend" THEN call[p].copy
            ELSE [call[p].copy EXCEPT !.title = "manual", !.manual = TRUE]
  /\ Return(p)
  /\ UNCHANGED <<messages, calls, overlap, history>>

(* renameSession, after the model has answered: with a title, with KEEP, or *)
(* not at all, in which case the latest message may serve.                 *)
SaveTitle(p) ==
  /\ call[p].op = "title"
  /\ row' \in {row, [call[p].copy EXCEPT !.title = "auto"]}
  /\ Return(p)
  /\ UNCHANGED <<messages, calls, overlap, history>>

DeleteRow(p) ==
  /\ call[p].op = "delete"
  /\ row' = [row EXCEPT !.deleted = TRUE]
  /\ Return(p)
  /\ UNCHANGED <<messages, calls, overlap, history>>

(* ClearSessionMessages: the messages go, then the row is saved. *)
ClearMessages(p) ==
  /\ At(p, "clear", "start")
  /\ messages' = [m \in Ids |-> [messages[m] EXCEPT !.live = FALSE, !.cleared = TRUE]]
  /\ unsaved' = unsaved \cup {m \in Ids : ~messages[m].cleared}
  /\ Goto(p, "save")
  /\ UNCHANGED <<row, calls, overlap, missed>>

SaveCleared(p) ==
  /\ At(p, "clear", "save")
  /\ row' = [call[p].copy EXCEPT !.count = 0, !.last = FALSE]
  /\ missed' = 0 /\ unsaved' = {}
  /\ Return(p)
  /\ UNCHANGED <<messages, calls, overlap>>

-----------------------------------------------------------------------------
(* AddMessage ("add"), CompleteSessionMessage and FailedSessionMessage     *)
(* ("reply").                                                              *)

(* Mutant: numbers by counting. *)
NextByCount == Cardinality(Live) + 1

(* GetNextSequence: one more than the largest number of a live message. *)
NextSequence ==
  CHOOSE k \in 1..MaxMessages + 1 :
    /\ \A m \in Live : messages[m].seq < k
    /\ k = 1 \/ \E m \in Live : messages[m].seq = k - 1

TakeNumber(p) ==
  /\ call[p].op \in CreateOps /\ call[p].at = "start"
  /\ call' = [call EXCEPT ![p].at = "create", ![p].next = NextSequence, ![p].seen = Live]
  /\ UNCHANGED <<row, messages, calls, overlap, history>>

(* buildMessage *)
NewMessage(p) ==
  [seq |-> call[p].next, live |-> TRUE, cleared |-> FALSE,
   user |-> call[p].op = "add", seen |-> call[p].seen]

CreateMessage(p) ==
  /\ call[p].op \in CreateOps /\ call[p].at = "create"
  /\ Len(messages) < MaxMessages
  /\ messages' = Append(messages, NewMessage(p))
  /\ Goto(p, "touch")
  /\ UNCHANGED <<row, calls, overlap, history>>

(* Mutant: the count is written from the row that was read. *)
CountFromCopy(p) ==
  /\ At(p, "add", "touch")
  /\ UpdateRow([row EXCEPT !.count = call[p].copy.count + 1])
  /\ Goto(p, "stamp")
  /\ UNCHANGED <<messages, calls, overlap, history>>

(* Computed in the database. A reply does not count. *)
IncrementMessageCount(p) ==
  /\ At(p, "add", "touch")
  /\ UpdateRow([row EXCEPT !.count = @ + 1])
  /\ Goto(p, "stamp")
  /\ UNCHANGED <<messages, calls, overlap, history>>

UpdateLastMessageAt(p) ==
  /\ At(p, "add", "stamp") \/ At(p, "reply", "touch")
  /\ UpdateRow([row EXCEPT !.last = TRUE])
  /\ Return(p)
  /\ UNCHANGED <<messages, calls, overlap, history>>

(* The next statement of a call fails, the request is cancelled before it, *)
(* or the server dies: what the statements before it have written stays,   *)
(* and nothing takes it back. (A statement that was executed and reported  *)
(* as failed is the step of that statement and then this one.)             *)
StatementFails(p) ==
  /\ call[p].op # "idle"
  /\ missed' = IF At(p, "add", "touch") THEN missed + 1 ELSE missed
  /\ Return(p)
  /\ UNCHANGED <<row, messages, calls, overlap, unsaved>>

(* DeleteMessage finds the message and deletes it; the count stays. *)
DeleteMessage(m) ==
  /\ "delete message" \in Ops
  /\ calls < MaxCalls
  /\ m \in Live
  /\ calls' = calls + 1
  /\ messages' = [messages EXCEPT ![m].live = FALSE]
  /\ UNCHANGED <<row, call, overlap, history>>

-----------------------------------------------------------------------------
(* The requests, and the handlers of events, as their steps.               *)
Reads(p, ops) == \E op \in ops \cap Ops : Read(p, op)

SetsStatus(p) == Reads(p, StatusOps) \/ SetStatus(p)

UpdateSession(p) == Reads(p, {"update", "amend"}) \/ SaveUpdate(p)

RenameSession(p) == Reads(p, {"title"}) \/ SaveTitle(p)

DeleteSession(p) == Reads(p, {"delete"}) \/ DeleteRow(p)

ClearSessionMessages(p) == Reads(p, {"clear"}) \/ ClearMessages(p) \/ SaveCleared(p)

(* AddMessage and StoreReply share the steps that create the message and   *)
(* the last one.                                                           *)
CreateNumbered(p) == TakeNumber(p) \/ CreateMessage(p) \/ UpdateLastMessageAt(p)

AddMessage(p) == Reads(p, {"add"}) \/ IncrementMessageCount(p)

StoreReply(p) == Reads(p, {"reply"})

Call(p) ==
  \/ SetsStatus(p) \/ UpdateSession(p) \/ RenameSession(p) \/ DeleteSession(p)
  \/ ClearSessionMessages(p) \/ CreateNumbered(p) \/ AddMessage(p) \/ StoreReply(p)
  \/ StatementFails(p)

Next == (\E p \in Callers : Call(p)) \/ (\E m \in Ids : DeleteMessage(m))

Spec == Init /\ [][Next]_vars

-----------------------------------------------------------------------------
Statuses == {"active", "paused", "ended"}
Rows == [status : Statuses, title : {"none", "auto", "manual"}, manual : BOOLEAN,
         count : 0..MaxCalls, last : BOOLEAN, deleted : BOOLEAN]

TypeOK ==
  /\ row \in Rows
  /\ \A p \in Callers : call[p].copy \in Rows /\ call[p].next \in 0..MaxMessages + 1
  /\ \A m \in Ids : messages[m].seq \in 1..MaxMessages + 1
  /\ row.title = "manual" => row.manual

(* A title the user has set is never replaced by a generated one ...       *)
ManualTitleStays == [][row.manual => row'.title = "manual"]_vars

(* ... unless by a call that had read the row before the user set it. And  *)
(* a session that has ended stays ended, unless a call that had read the   *)
(* row before writes its own status, or the old one. A session that was    *)
(* deleted comes back only with a call that saves the whole row it has     *)
(* read: the messages and replies that still arrive do not bring it back.  *)
OnlyStaleCallsUndo ==
  [][/\ row.manual /\ row'.title # "manual" => \E p \in Busy : ~call[p].copy.manual
     /\ row.status = "ended" /\ row'.status # "ended"
          => \E p \in Busy : call[p].copy.status # "ended"
     /\ row.deleted /\ ~row'.deleted
          => \E p \in Busy : call[p].op \in SaveOps \cup {"clear"} /\ call'[p] # call[p]]_vars

(* A message sorts after every message that was there when its number was  *)
(* taken, whoever else was adding and deleting at the time.                *)
SeenSortsBefore ==
  \A m \in Live : \A n \in messages[m].seen \cap Live : messages[n].seq < messages[m].seq

(* Between calls the session counts the user's messages since it was last  *)
(* cleared, however many are added, answered, deleted and cleared at once, *)
(* and whatever fails: it falls short by the messages whose AddMessage     *)
(* stored them and failed before it counted them, one each; and it counts  *)
(* on over messages that a clear has deleted when that clear failed before *)
(* it saved the row. Only a row saved beside another call upsets it.       *)
CountMatches ==
  ~overlap /\ ~row.deleted /\ Busy = {} =>
    row.count + missed =
      Cardinality({m \in Ids : messages[m].user /\ (~messages[m].cleared \/ m \in unsaved)})
=============================================================================
