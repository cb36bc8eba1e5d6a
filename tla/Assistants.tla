----------------------------- MODULE Assistants -----------------------------
(***************************************************************************)
(* service/digital_assistant_service.go over infra/db: the assistants of   *)
(* the organisations. Create looks for the code among the rows that are    *)
(* not deleted, of every organisation, and inserts a row later; the index  *)
(* on the code is not unique. Update and UpdateStatus read the row and     *)
(* write it back whole with Save, which inserts it again when it has been  *)
(* deleted meanwhile. A new assistant is a draft, so Create never starts a *)
(* worker, and no other operation does.                                    *)
(***************************************************************************)
EXTENDS Naturals, Sequences

CONSTANTS
  Callers,  \* requests at a time
  Orgs,     \* organisations
  Codes,    \* codes of assistants
  MaxRows,  \* bound: assistants ever created
  MaxCalls  \* bound: requests

AssistantAssumption == MaxRows \in Nat /\ MaxCalls \in Nat

VARIABLES
  assistants, \* the rows in the order they were created
  call,       \* what each caller is doing, with the row it has read
  calls       \* requests so far

vars == <<assistants, call, calls>>

Ids == DOMAIN assistants
Live == {i \in Ids : ~assistants[i].deleted}

NewRow(o, k) == [org |-> o, code |-> k, status |-> "draft", text |-> 0, deleted |-> FALSE]
NoRow == NewRow("none", "none")

(* row: what the call inserts or has read; seen: the rows that were there. *)
Idle == [op |-> "idle", id |-> 0, row |-> NoRow, seen |-> {}]

Init ==
  /\ assistants = <<>>
  /\ call = [p \in Callers |-> Idle]
  /\ calls = 0

Busy == {p \in Callers : call[p].op # "idle"}

CodeExists(k) == \E i \in Live : assistants[i].code = k

Begins(p) == call[p].op = "idle" /\ calls < MaxCalls /\ calls' = calls + 1

(* CreateDigitalAssistant; the caller is told when the code is taken. *)
CheckCode(p, o, k) ==
  /\ Begins(p)
  /\ ~CodeExists(k)
  /\ call' = [call EXCEPT ![p] = [op |-> "create", id |-> 0, row |-> NewRow(o, k), seen |-> Live]]
  /\ UNCHANGED assistants

Insert(p) ==
  /\ call[p].op = "create"
  /\ Len(assistants) < MaxRows
  /\ assistants' = Append(assistants, call[p].row)
  /\ call' = [call EXCEPT ![p] = Idle]
  /\ UNCHANGED calls

(* The row is found, unless it is deleted, and must be the organisation's. *)
Find(p, op, o, i) ==
  /\ Begins(p)
  /\ i \in Live /\ assistants[i].org = o
  /\ call' = [call EXCEPT ![p] = [op |-> op, id |-> i, row |-> assistants[i], seen |-> Live]]
  /\ UNCHANGED assistants

(* UpdateDigitalAssistant: a new name, description, avatar or prompt. *)
SaveText(p) ==
  /\ call[p].op = "update"
  /\ assistants' = [assistants EXCEPT ![call[p].id] = [call[p].row EXCEPT !.text = 1 - @]]
  /\ call' = [call EXCEPT ![p] = Idle]
  /\ UNCHANGED calls

(* UpdateDigitalAssistantStatus takes any status. *)
SaveStatus(p) ==
  /\ call[p].op = "status"
  /\ \E s \in {"active", "inactive"} :
       assistants' = [assistants EXCEPT ![call[p].id] = [call[p].row EXCEPT !.status = s]]
  /\ call' = [call EXCEPT ![p] = Idle]
  /\ UNCHANGED calls

DeleteRow(p) ==
  /\ call[p].op = "delete"
  /\ assistants' = [assistants EXCEPT ![call[p].id].deleted = TRUE]
  /\ call' = [call EXCEPT ![p] = Idle]
  /\ UNCHANGED calls

(* The handlers: a request with a body that binds becomes one call of the  *)
(* service, in the organisation of whoever sent it.                        *)
CreateDigitalAssistant(p, o) == (\E k \in Codes : CheckCode(p, o, k)) \/ Insert(p)
UpdateDigitalAssistant(p, o) == (\E i \in Ids : Find(p, "update", o, i)) \/ SaveText(p)
UpdateDigitalAssistantStatus(p, o) == (\E i \in Ids : Find(p, "status", o, i)) \/ SaveStatus(p)
DeleteDigitalAssistant(p, o) == (\E i \in Ids : Find(p, "delete", o, i)) \/ DeleteRow(p)

Next ==
  \E p \in Callers, o \in Orgs :
    \/ CreateDigitalAssistant(p, o) \/ DeleteDigitalAssistant(p, o)
    \/ UpdateDigitalAssistant(p, o) \/ UpdateDigitalAssistantStatus(p, o)

Spec == Init /\ [][Next]_vars

-----------------------------------------------------------------------------
Rows == [org : Orgs, code : Codes, status : {"draft", "active", "inactive"},
         text : {0, 1}, deleted : BOOLEAN]

TypeOK ==
  /\ assistants \in Seq(Rows) /\ Len(assistants) <= MaxRows
  /\ \A p \in Busy : call[p].row \in Rows /\ call[p].id \in 0..Len(assistants)

(* Two assistants get one code only when the one that was there appeared   *)
(* after the call that creates the other had looked. An assistant comes    *)
(* back after it was deleted, and a status or a text goes back to what it  *)
(* was, only by a call that had read the row before the change.            *)
OnlyStaleCallsUndo ==
  [][/\ \A i \in Live, j \in Ids' \ Ids :
          assistants'[j].code = assistants[i].code =>
            \E p \in Busy : call[p].op = "create" /\ i \notin call[p].seen
     /\ \A i \in Ids :
          /\ i \notin Live /\ i \in Live' =>
               \E p \in Busy : call[p].id = i /\ ~call[p].row.deleted
          /\ assistants'[i].status # assistants[i].status
             /\ assistants'[i].text # assistants[i].text =>
               \E p \in Busy : call[p].id = i
                               /\ \/ call[p].row.status # assistants[i].status
                                  \/ call[p].row.text # assistants[i].text]_vars
=============================================================================
