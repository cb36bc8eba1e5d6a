--------------------------- MODULE ModelRegistry ---------------------------
(***************************************************************************)
(* The language models of the organisations: rows that requests create,    *)
(* update and delete in transactions (service/llm_model_service.go), that  *)
(* runs look up (lifecycle/model.go), and that every start of the server   *)
(* and of a worker seeds (infra/db/database.go, InitDevData).              *)
(*                                                                         *)
(* Transactions are READ COMMITTED: a statement sees what was committed    *)
(* when it began, waits for rows another transaction has written, and then *)
(* tests its WHERE again on what became of them. Two unique indexes guard  *)
(* the table: one default per organisation among the rows that are not     *)
(* deleted, one code per organisation among all rows.                      *)
(***************************************************************************)
EXTENDS FiniteSets, Integers, Sequences

CONSTANTS
  Requesters, \* HTTP requests that can be under way at once
  Starters,   \* servers and workers that can be starting at once
  Orgs,       \* organisations; SeedOrg is the one that is seeded
  SeedOrg,
  MaxModels,  \* bound: rows ever created
  MaxCalls,   \* bound: requests
  MaxStarts   \* bound: starts

ModelAssumption ==
  /\ SeedOrg \in Orgs
  /\ MaxModels \in Nat /\ MaxCalls \in Nat /\ MaxStarts \in Nat

Models == 1..MaxModels
NoModel == 0

VARIABLES
  rows,    \* committed rows
  made,    \* row ids given out
  call,    \* call[c]: what a request is doing, with its copy of the row
  writes,  \* writes[c]: rows its transaction has written
  calls,   \* requests so far
  start,   \* start[s]: "down", "count", "create", "up" or "failed", the table,
           \* and whether a statement of this start on the table has failed
  seeded,  \* accounts that InitDevData has created
  starts,  \* starts so far
  crowded, \* history: two starts have overlapped
  unseeded \* history: the seeded model has been deleted

modelVars == <<rows, made, call, writes, calls, start, seeded, starts, crowded, unseeded>>

Unset == "unset"
NoRow == [org |-> SeedOrg, default |-> FALSE, active |-> FALSE, deleted |-> TRUE,
          there |-> FALSE, seed |-> FALSE]

(* What the handlers let through: a wish for the default and a status, or  *)
(* neither. The other columns do not matter here.                          *)
CreateLLMModelRequests ==
  [op : {"create"}, org : Orgs, id : {NoModel}, default : {"yes", Unset}, status : {"active", "inactive"}]

UpdateLLMModelRequests ==
  [op : {"update"}, org : Orgs, id : Models, default : {"yes", "no", Unset},
   status : {"active", "inactive", Unset}]

DeleteLLMModelRequests ==
  [op : {"delete"}, org : Orgs, id : Models, default : {Unset}, status : {Unset}]

Requests == CreateLLMModelRequests \cup UpdateLLMModelRequests \cup DeleteLLMModelRequests

Idle == [at |-> "idle", copy |-> NoRow, found |-> {},
         request |-> [op |-> "none", org |-> SeedOrg, id |-> NoModel, default |-> Unset, status |-> Unset]]

Down == [at |-> "down", table |-> 1, erred |-> FALSE]

(* Organisation, user and their association are three tables that are      *)
(* counted and filled in the same way, one after the other: one here.      *)
SeedTables == <<"account", "model">>

Init ==
  /\ rows = [m \in Models |-> NoRow]
  /\ made = 0
  /\ call = [c \in Requesters |-> Idle]
  /\ writes = [c \in Requesters |-> <<>>]
  /\ calls = 0
  /\ start = [s \in Starters |-> Down]
  /\ seeded = 0
  /\ starts = 0
  /\ crowded = FALSE
  /\ unseeded = FALSE

-----------------------------------------------------------------------------
Live(r) == r.there /\ ~r.deleted

DefaultsOf(o) == {m \in Models : Live(rows[m]) /\ rows[m].org = o /\ rows[m].default}

(* GetDefaultLLMModel: the default must be active, too.                    *)
DefaultModel(o) ==
  LET found == {m \in DefaultsOf(o) : rows[m].active} IN
  IF found = {} THEN NoModel ELSE CHOOSE m \in found : TRUE

(* EnsureModelConfig: the model a run of the organisation works with, when *)
(* the request names model id, or none (NoModel). NoModel is an error.     *)
ModelForRun(o, id) ==
  IF id = NoModel THEN DefaultModel(o)
  ELSE IF Live(rows[id]) /\ rows[id].org = o /\ rows[id].active THEN id ELSE NoModel

Written(c) == DOMAIN writes[c]
LockedFor(c, m) == \E d \in Requesters \ {c} : m \in Written(d)

(* The unique index on the default: what a row of organisation o with id m *)
(* meets when it is written as default by c.                               *)
DefaultConflicts(c, o, m) ==
  \E n \in Models \ (Written(c) \cup {m}) : Live(rows[n]) /\ rows[n].org = o /\ rows[n].default

(* The same for rows that transactions of others have written.             *)
DefaultUndecided(others, o, m) ==
  \E d \in others : \E n \in Written(d) \ {m} :
    writes[d][n].org = o /\ (writes[d][n].default \/ rows[n].default)

Request(c) == call[c].request
GoTo(c, place) == call' = [call EXCEPT ![c].at = place]
Write(c, W) ==
  writes' = [writes EXCEPT ![c] = [m \in Written(c) \cup DOMAIN W |->
                                     IF m \in DOMAIN W THEN W[m] ELSE writes[c][m]]]

Rollback(c) ==
  /\ call' = [call EXCEPT ![c] = Idle]
  /\ writes' = [writes EXCEPT ![c] = <<>>]

startVars == <<start, seeded, starts, crowded>>

-----------------------------------------------------------------------------
(* CreateLLMModel and UpdateLLMModel begin their transaction.              *)
Begin(c, r) ==
  /\ call[c].at = "idle" /\ calls < MaxCalls
  /\ r.op = "create" => made < MaxModels
  /\ call' = [call EXCEPT ![c] =
       [at |-> IF r.op # "create" THEN "read" ELSE IF r.default = "yes" THEN "find" ELSE "count",
        found |-> {}, request |-> r,
        copy |-> [org |-> r.org, default |-> r.default = "yes",
                  active |-> r.status = "active", deleted |-> FALSE, there |-> TRUE,
                  seed |-> FALSE]]]
  /\ calls' = calls + 1
  /\ UNCHANGED <<rows, made, writes, unseeded, startVars>>

(* orgHasLLMModels: the first model becomes the default.                   *)
CountModels(c) ==
  LET first == \A m \in Models : Live(rows[m]) => rows[m].org # Request(c).org IN
  /\ call[c].at = "count"
  /\ call' = [call EXCEPT ![c].copy.default = first,
                          ![c].at = IF first THEN "find" ELSE "insert"]
  /\ UNCHANGED <<rows, made, writes, calls, unseeded, startVars>>

Patched(row, r) ==
  [row EXCEPT !.default = IF r.default = Unset THEN @ ELSE r.default = "yes",
              !.active = IF r.status = Unset THEN @ ELSE r.status = "active"]

(* The row is read and changed in memory; no such row, or one of another   *)
(* organisation, ends the call.                                            *)
ReadModel(c) ==
  LET r == Request(c) IN
  /\ call[c].at = "read"
  /\ IF ~Live(rows[r.id]) \/ rows[r.id].org # r.org
     THEN Rollback(c)
     ELSE /\ call' = [call EXCEPT ![c].copy = Patched(rows[r.id], r),
                                  ![c].at = IF r.op = "delete" THEN "delete"
                                            ELSE IF r.default = "yes" THEN "find" ELSE "save"]
          /\ UNCHANGED writes
  /\ UNCHANGED <<rows, made, calls, unseeded, startVars>>

(* clearOrgDefaultLLMModels finds the defaults of the organisation ...     *)
FindDefaults(c) ==
  /\ call[c].at = "find"
  /\ call' = [call EXCEPT ![c].found = DefaultsOf(Request(c).org) \ {Request(c).id},
                          ![c].at = "clear"]
  /\ UNCHANGED <<rows, made, writes, calls, unseeded, startVars>>

(* Mutant: the defaults are cleared outside of the transaction. *)
ClearCommitted(c) ==
  LET found == {m \in call[c].found : Live(rows[m]) /\ rows[m].default} IN
  /\ call[c].at = "clear"
  /\ \A m \in call[c].found : ~LockedFor(c, m)
  /\ rows' = [m \in Models |-> IF m \in found THEN [rows[m] EXCEPT !.default = FALSE] ELSE rows[m]]
  /\ GoTo(c, IF Request(c).op = "create" THEN "insert" ELSE "save")
  /\ UNCHANGED <<made, writes, calls, unseeded, startVars>>

(* ... and takes the flag away, once no other transaction has them.        *)
ClearDefaults(c) ==
  LET found == {m \in call[c].found : Live(rows[m]) /\ rows[m].default} IN
  /\ call[c].at = "clear"
  /\ \A m \in call[c].found : ~LockedFor(c, m)
  /\ Write(c, [m \in found |-> [rows[m] EXCEPT !.default = FALSE]])
  /\ GoTo(c, IF Request(c).op = "create" THEN "insert" ELSE "save")
  /\ UNCHANGED <<rows, made, calls, unseeded, startVars>>

(* The row is inserted, or the index on the default refuses it.            *)
InsertModel(c) ==
  LET row == call[c].copy IN
  /\ call[c].at = "insert" /\ made < MaxModels
  /\ row.default => ~DefaultUndecided(Requesters \ {c}, row.org, NoModel)
  /\ made' = made + 1
  /\ IF row.default /\ DefaultConflicts(c, row.org, NoModel)
     THEN Rollback(c)
     ELSE Write(c, [m \in {made + 1} |-> row]) /\ GoTo(c, "commit")
  /\ UNCHANGED <<rows, calls, unseeded, startVars>>

(* Save writes every column as it was read. It finds no row when it has    *)
(* been deleted meanwhile; gorm then inserts it, and the conflict with the *)
(* deleted row makes that an update: the row is there again.               *)
SaveModel(c) ==
  LET r == Request(c)
      row == call[c].copy IN
  /\ call[c].at = "save"
  /\ ~LockedFor(c, r.id)
  /\ row.default => ~DefaultUndecided(Requesters \ {c}, row.org, r.id)
  /\ IF row.default /\ DefaultConflicts(c, row.org, r.id)
     THEN Rollback(c)
     ELSE Write(c, [m \in {r.id} |-> row]) /\ GoTo(c, "commit")
  /\ UNCHANGED <<rows, made, calls, unseeded, startVars>>

(* A deleted row keeps its columns; no other model becomes the default.    *)
DeleteModel(c) ==
  LET id == Request(c).id IN
  /\ call[c].at = "delete"
  /\ ~LockedFor(c, id)
  /\ Write(c, [m \in {id} |-> [rows[id] EXCEPT !.deleted = TRUE]])
  /\ GoTo(c, "commit")
  /\ UNCHANGED <<rows, made, calls, unseeded, startVars>>

After(c) == [m \in Models |-> IF m \in Written(c) THEN writes[c][m] ELSE rows[m]]

Commit(c) ==
  /\ call[c].at = "commit"
  /\ rows' = After(c)
  /\ unseeded' = (unseeded \/ \E m \in Models : After(c)[m].seed /\ After(c)[m].deleted)
  /\ Rollback(c)
  /\ UNCHANGED <<made, calls, startVars>>

(* A statement or the commit fails, the context ends, or two transactions  *)
(* wait for each other and the database gives one up.                      *)
Fail(c) ==
  /\ call[c].at # "idle"
  /\ Rollback(c)
  /\ UNCHANGED <<rows, made, calls, unseeded, startVars>>

-----------------------------------------------------------------------------
requestVars == <<call, writes, calls, unseeded>>

Table(s) == SeedTables[start[s].table]

(* InitDB: the server and each worker do the same when they start.         *)
StartUp(s) ==
  /\ start[s].at \in {"down", "failed"} /\ starts < MaxStarts
  /\ starts' = starts + 1
  /\ start' = [start EXCEPT ![s] = [at |-> "count", table |-> 1, erred |-> FALSE]]
  /\ crowded' = (crowded \/ \E u \in Starters \ {s} : start[u].at \in {"count", "create"})
  /\ UNCHANGED <<rows, made, seeded, requestVars>>

NextTable(s) ==
  start' = [start EXCEPT ![s] =
              IF @.table = Len(SeedTables) THEN [at |-> "up", table |-> @.table, erred |-> FALSE]
              ELSE [at |-> "count", table |-> @.table + 1, erred |-> FALSE]]

(* A statement of the start fails, and the start goes to the place.        *)
Errs(s, place) == start' = [start EXCEPT ![s] = [@ EXCEPT !.at = place, !.erred = TRUE]]

Empty(t) == IF t = "model" THEN \A m \in Models : ~Live(rows[m]) ELSE seeded = 0

(* A table is counted, without the rows that are deleted. Without a key in *)
(* its configuration the process seeds no model.                           *)
SeedCounts(s) ==
  /\ start[s].at = "count"
  /\ IF Empty(Table(s))
     THEN start' = [start EXCEPT ![s].at = "create"] \/ (Table(s) = "model" /\ NextTable(s))
     ELSE NextTable(s)
  /\ UNCHANGED <<rows, made, seeded, starts, crowded, requestVars>>

(* The error of a count is not looked at: the table seems to be empty.     *)
SeedMiscounts(s) ==
  /\ start[s].at = "count"
  /\ Errs(s, "create")
  /\ UNCHANGED <<rows, made, seeded, starts, crowded, requestVars>>

(* Any other error ends the start: before the first count, of the          *)
(* connection or a migration, and later of a find or a create.             *)
SeedFails(s) ==
  /\ start[s].at = "create" \/ (start[s].at = "count" /\ start[s].table = 1)
  /\ Errs(s, "failed")
  /\ UNCHANGED <<rows, made, seeded, starts, crowded, requestVars>>

(* What seemed to be empty is filled, and the answer may be lost. The tag  *)
(* unique_index of the first tables is none that the mapper knows: nothing *)
(* keeps a row single.                                                     *)
SeedCreates(s) ==
  /\ start[s].at = "create" /\ Table(s) # "model"
  /\ seeded' = seeded + 1
  /\ NextTable(s) \/ Errs(s, "failed")
  /\ UNCHANGED <<rows, made, starts, crowded, requestVars>>

(* The model has a fixed code, and a deleted row keeps its code. An error  *)
(* ends the start.                                                         *)
SeedCreatesModel(s) ==
  LET taken == \E m \in Models : rows[m].seed
      default == DefaultsOf(SeedOrg) # {} IN
  /\ start[s].at = "create" /\ Table(s) = "model"
  /\ ~DefaultUndecided(Requesters, SeedOrg, NoModel)
  /\ IF taken \/ default
     THEN start' = [start EXCEPT ![s].at = "failed"] /\ UNCHANGED <<rows, made>>
     ELSE /\ made < MaxModels /\ made' = made + 1
          /\ rows' = [rows EXCEPT ![made + 1] =
               [org |-> SeedOrg, default |-> TRUE, active |-> TRUE, deleted |-> FALSE,
                there |-> TRUE, seed |-> TRUE]]
          /\ NextTable(s) \/ Errs(s, "failed")
  /\ UNCHANGED <<seeded, starts, crowded, requestVars>>

Stops(s) ==
  /\ start[s].at \in {"count", "create", "up"}
  /\ start' = [start EXCEPT ![s] = Down]
  /\ UNCHANGED <<rows, made, seeded, starts, crowded, requestVars>>

-----------------------------------------------------------------------------
Serve(c) ==
  \/ CountModels(c) \/ ReadModel(c) \/ FindDefaults(c) \/ ClearDefaults(c)
  \/ InsertModel(c) \/ SaveModel(c) \/ DeleteModel(c) \/ Commit(c) \/ Fail(c)

Seed(s) ==
  SeedCounts(s) \/ SeedMiscounts(s) \/ SeedFails(s) \/ SeedCreates(s) \/ SeedCreatesModel(s)

Next ==
  \/ \E c \in Requesters : Serve(c) \/ (\E r \in Requests : Begin(c, r))
  \/ \E s \in Starters : StartUp(s) \/ Seed(s) \/ Stops(s)

Spec == Init /\ [][Next]_modelVars

-----------------------------------------------------------------------------
TypeOK ==
  /\ \A m \in Models : rows[m].there => m <= made
  /\ made \in 0..MaxModels
  /\ \A c \in Requesters : Written(c) \subseteq 1..made
  /\ \A s \in Starters : start[s].table \in DOMAIN SeedTables

(* Knowingly: the request of c asked for it, or its copy of the row is     *)
(* older than the row.                                                     *)
TakesDefault(c, o) ==
  LET r == Request(c) IN
  /\ call[c].at = "commit" /\ r.org = o
  /\ \/ r.op = "delete" \/ r.default = "no" \/ ~call[c].copy.active
     \/ r.op = "update" /\ call[c].copy # Patched(rows[r.id], r)

(* Runs of o that name no model had one, and have none any more.           *)
LosesModel(o) == ModelForRun(o, NoModel) # NoModel /\ ModelForRun(o, NoModel)' = NoModel

(* An organisation never has two defaults, and the model that its runs     *)
(* fall back to is gone only when a request asked for that, or saved an    *)
(* old copy of the row: no change of the default that fails half way, and  *)
(* no two changes at once, leave an organisation without one.              *)
DefaultLeavesKnowingly ==
  [][\A o \in Orgs :
       /\ Cardinality(DefaultsOf(o)') <= 1
       /\ LosesModel(o) => \E c \in Requesters : TakesDefault(c, o)]_modelVars

(* A start creates the default accounts a second time only when starts     *)
(* overlapped, or it could not count them. It fails only when starts did   *)
(* overlap, when a statement of it failed, when the seeded model has been  *)
(* deleted, or when requests made another model the default meanwhile.     *)
StartsAreExplained ==
  [][/\ seeded > 0 /\ seeded' > seeded =>
          crowded \/ \E s \in Starters : start[s].at = "create" /\ start[s].erred
     /\ \A s \in Starters : start[s].at # "failed" /\ start'[s].at = "failed" =>
          \/ crowded
          \/ start'[s].erred
          \/ unseeded
          \/ \E m \in DefaultsOf(SeedOrg) : ~rows[m].seed]_modelVars

(* Runs of an organisation have a model to fall back to: the default is    *)
(* neither lost nor kept from being seeded but for those reasons.          *)
DefaultsAreExplained == DefaultLeavesKnowingly /\ StartsAreExplained

(* "Only when the data is empty" (database.go:110, in Chinese): a start    *)
(* that finds no model, and that no failed statement, no other start and   *)
(* no new default meets, creates one and succeeds.                         *)
StartSucceeds ==
  [][\A s \in Starters :
       start[s].at # "failed" /\ start'[s].at = "failed" =>
         \/ crowded
         \/ start'[s].erred
         \/ \E m \in DefaultsOf(SeedOrg) : ~rows[m].seed]_modelVars
=============================================================================
