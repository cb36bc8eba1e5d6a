----------------------------- MODULE PartsProofs -----------------------------
(***************************************************************************)
(* Proofs about the components of MCParts, for any callers, containers,    *)
(* browsers, models, events and bounds, taken where MCParts instantiates   *)
(* them. AgentsProofs says what follows for MCAgents.                      *)
(***************************************************************************)
EXTENDS MCParts, FiniteSetTheorems, SequenceTheorems, WellFoundedInduction, TLAPS

-----------------------------------------------------------------------------
(* ModelRegistry: an organisation is without a default model only for      *)
(* known reasons.                                                          *)

ModelRow ==
  [org : Orgs, default : BOOLEAN, active : BOOLEAN, deleted : BOOLEAN, there : BOOLEAN, seed : BOOLEAN]
CallPlaces == {"idle", "read", "count", "find", "clear", "insert", "save", "delete", "commit"}
ModelCall ==
  [at : CallPlaces, copy : ModelRow, found : SUBSET Models!Models, request : Models!Requests \cup {Models!Idle.request}]

ModelTypes ==
  /\ rows \in [Models!Models -> ModelRow]
  /\ made \in 0..MaxModels
  /\ call \in [Actors -> ModelCall]
  /\ writes = [c \in Actors |-> writes[c]]
  /\ \A c \in Actors : Models!Written(c) \subseteq 1..made /\ \A m \in Models!Written(c) : writes[c][m] \in ModelRow
  /\ start \in [Others -> [at : {"down", "count", "create", "up", "failed"}, table : 1..2, erred : BOOLEAN]]
  /\ seeded \in Nat /\ crowded \in BOOLEAN /\ unseeded \in BOOLEAN
  /\ \A m \in Models!Models : rows[m].there => m <= made

(* A row has one transaction that has written it.                          *)
RowsLocked == \A c, d \in Actors : c # d => Models!Written(c) \cap Models!Written(d) = {}

(* What a request knows of its row, and a transaction of those it has      *)
(* written: they are of its organisation and no others come to be seeded.  *)
Mine(c, m) == rows[m].there /\ rows[m].org = Models!Request(c).org

Reading(c) ==
  /\ call[c].at # "idle" =>
       Models!Request(c) \in Models!Requests /\ call[c].copy.org = Models!Request(c).org
                            /\ call[c].copy.there /\ ~call[c].copy.deleted
  /\ call[c].at \in {"count", "insert"} => Models!Request(c).op = "create"
  /\ call[c].at \in {"read", "save", "delete"} => Models!Request(c).op # "create"
  /\ call[c].at = "save" => Models!Request(c).op = "update"
  /\ call[c].at = "delete" => Models!Request(c).op = "delete"
  /\ call[c].at \in {"find", "clear"} =>
       Models!Request(c).op \in {"create", "update"} /\ call[c].copy.default
       /\ Models!Request(c).default # "no"
         /\ (Models!Request(c).op = "update" => Models!Request(c).default = "yes")
  /\ call[c].at \in {"save", "commit"} /\ Models!Request(c).op = "update" /\ Models!Request(c).default = "yes" => call[c].copy.default
  /\ call[c].at \notin {"idle", "read"} /\ Models!Request(c).op # "create" =>
       Mine(c, Models!Request(c).id) /\ call[c].copy.seed = rows[Models!Request(c).id].seed
  /\ Models!Request(c).op = "create" => ~call[c].copy.seed
  /\ call[c].at = "clear" => \A m \in call[c].found : Mine(c, m)

Writing(c) ==
  /\ Models!Written(c) # {} => call[c].at \in {"insert", "save", "commit"}
  /\ \A m \in Models!Written(c) :
       /\ writes[c][m].there /\ writes[c][m].org = Models!Request(c).org
       /\ writes[c][m].seed = rows[m].seed
       /\ rows[m].there => rows[m].org = Models!Request(c).org
  /\ call[c].at \in {"insert", "save"} => \A m \in Models!Written(c) : ~writes[c][m].default
  /\ call[c].at = "insert" /\ ~call[c].copy.default => Models!Written(c) = {}
  /\ call[c].at = "save" /\ Models!Request(c).default # "yes" => Models!Written(c) = {}

(* What a transaction has written when it commits.                         *)
CommitsWhole(c) ==
  call[c].at = "commit" =>
    /\ Models!Request(c).op = "create" =>
         \E n \in Models!Written(c) : writes[c][n] = call[c].copy /\ ~rows[n].there
                                      /\ (call[c].copy.default \/ Models!Written(c) = {n})
    /\ Models!Request(c).op = "update" =>
         /\ Models!Request(c).id \in Models!Written(c) /\ writes[c][Models!Request(c).id] = call[c].copy
         /\ Models!Request(c).default = "yes" \/ Models!Written(c) = {Models!Request(c).id}

(* A transaction that has written a default has written one, meets no      *)
(* other in the table and none of another transaction.                     *)
DefaultIn(r, o) == Models!Live(r) /\ r.org = o /\ r.default

OneDefault(c) ==
  \A o \in Orgs : \A m \in Models!Written(c) : DefaultIn(writes[c][m], o) =>
    /\ \A n \in Models!Written(c) : DefaultIn(writes[c][n], o) => n = m
    /\ \A n \in Models!Models \ Models!Written(c) : ~DefaultIn(rows[n], o)
    /\ \A d \in Actors \ {c} : \A n \in Models!Written(d) : ~DefaultIn(writes[d][n], o)

DefaultsUnique == \A o \in Orgs : \A m, n \in Models!DefaultsOf(o) : m = n

(* Starts: a seeded row is gone knowingly, and what a start has counted is *)
(* still so unless another is under way, or the count failed.              *)
SeedsKnown == \A m \in Models!Models : rows[m].seed => rows[m].there /\ (rows[m].deleted => unseeded)
UnderWay(s) == start[s].at \in {"count", "create"}
StartsKnown ==
  /\ \A s, u \in Others : s # u /\ UnderWay(s) /\ UnderWay(u) => crowded
  /\ \A s \in Others : start[s].at = "create" /\ ~start[s].erred =>
       /\ start[s].table = 1 => seeded = 0 \/ crowded
       /\ start[s].table = 2 => crowded \/ unseeded \/ \A m \in Models!Models : ~rows[m].seed

ModelsIInv ==
  /\ ModelTypes /\ RowsLocked /\ DefaultsUnique /\ SeedsKnown /\ StartsKnown
  /\ \A c \in Actors : Reading(c) /\ Writing(c) /\ CommitsWhole(c) /\ OneDefault(c)
-----------------------------------------------------------------------------
LEMMA NothingWritten == DOMAIN <<>> = {}
OBVIOUS

LEMMA IdleTyped == ASSUME Models!ModelAssumption
PROVE  Models!Idle \in ModelCall /\ Models!Idle.at = "idle"
<1>1. Models!NoRow \in ModelRow
  BY DEF Models!NoRow, ModelRow, Models!ModelAssumption
<1>2. Models!Idle = [at |-> "idle", copy |-> Models!NoRow, found |-> {}, request |-> Models!Idle.request]
  BY DEF Models!Idle
<1>3. Models!Idle.request \in Models!Requests \cup {Models!Idle.request} /\ "idle" \in CallPlaces
      /\ {} \in SUBSET Models!Models
  BY DEF CallPlaces
<1> QED
  BY <1>1, <1>2, <1>3 DEF ModelCall

LEMMA RowTyped == ASSUME ModelTypes, NEW m \in Models!Models PROVE rows[m] \in ModelRow
BY DEF ModelTypes

LEMMA ModelCallTyped ==
  ASSUME ModelTypes, NEW c \in Actors
  PROVE  /\ call[c] \in ModelCall
         /\ call[c].at \in CallPlaces /\ call[c].copy \in ModelRow
         /\ call[c].found \in SUBSET Models!Models
         /\ Models!Request(c) \in Models!Requests \cup {Models!Idle.request}
<1>1. call[c] \in ModelCall
  BY DEF ModelTypes
<1> QED
  BY <1>1 DEF ModelCall, Models!Request

LEMMA RequestTyped ==
  ASSUME NEW r \in Models!Requests
  PROVE  /\ r.op \in {"create", "update", "delete"} /\ r.org \in Orgs
         /\ r.default \in {"yes", "no", Models!Unset}
         /\ r.status \in {"active", "inactive", Models!Unset}
         /\ r.op # "create" => r.id \in Models!Models
         /\ r.op = "create" => r.id = Models!NoModel /\ r.default # "no"
         /\ r.op = "delete" => r.default = Models!Unset
BY
   DEF Models!Requests, Models!CreateLLMModelRequests, Models!UpdateLLMModelRequests,
       Models!DeleteLLMModelRequests, Models!Unset

LEMMA WrittenTyped ==
  ASSUME Models!ModelAssumption, ModelTypes, NEW c \in Actors, NEW m \in Models!Written(c)
  PROVE  m \in 1..made /\ m \in Models!Models /\ writes[c][m] \in ModelRow
<1>1. m \in 1..made /\ writes[c][m] \in ModelRow /\ made \in 0..MaxModels
  BY DEF ModelTypes
<1> QED
  BY <1>1 DEF Models!Models, Models!ModelAssumption

(* At the start there is no row, no call and no start.                     *)
LEMMA ModelsInitHolds == ASSUME Models!ModelAssumption, Models!Init PROVE ModelsIInv
<1>1. /\ \A m \in Models!Models : rows[m] = Models!NoRow
      /\ \A c \in Actors : call[c] = Models!Idle /\ writes[c] = <<>> /\ Models!Written(c) = {}
      /\ \A s \in Others : start[s] = Models!Down /\ start[s].at = "down"
  BY NothingWritten DEF Models!Init, Models!Written, Models!Down
<1>2. Models!NoRow \in ModelRow /\ Models!NoRow.there = FALSE /\ Models!NoRow.seed = FALSE
      /\ Models!NoRow.default = FALSE
  BY DEF Models!NoRow, ModelRow, Models!ModelAssumption
<1>3. Models!Idle \in ModelCall /\ Models!Idle.at = "idle"
  BY IdleTyped
<1>4. ModelTypes
  <2>1. rows \in [Models!Models -> ModelRow] /\ made \in 0..MaxModels /\ call \in [Actors -> ModelCall]
    BY <1>2, <1>3 DEF Models!Init, Models!ModelAssumption
  <2>2. writes = [c \in Actors |-> writes[c]]
    BY DEF Models!Init
  <2>3. start \in [Others -> [at : {"down", "count", "create", "up", "failed"}, table : 1..2, erred : BOOLEAN]]
    BY DEF Models!Init, Models!Down
  <2>4. seeded \in Nat /\ crowded \in BOOLEAN /\ unseeded \in BOOLEAN
    BY DEF Models!Init
  <2> QED
    BY <1>1, <1>2, <2>1, <2>2, <2>3, <2>4 DEF ModelTypes
<1>5. RowsLocked
  BY <1>1 DEF RowsLocked
<1>6. DefaultsUnique /\ SeedsKnown
  BY <1>1, <1>2 DEF DefaultsUnique, SeedsKnown, Models!DefaultsOf
<1>7. StartsKnown
  BY <1>1 DEF Models!Init, StartsKnown, UnderWay
<1>8. ASSUME NEW c \in Actors PROVE Reading(c) /\ Writing(c) /\ CommitsWhole(c) /\ OneDefault(c)
  <2>1. call[c].at = "idle" /\ Models!Written(c) = {}
    BY <1>1, <1>3
  <2>2. Models!Idle.request.op = "none" /\ ~Models!Idle.copy.seed
    BY DEF Models!Idle, Models!NoRow
  <2> QED
    BY <2>1, <2>2, <1>1 DEF Reading, Writing, CommitsWhole, OneDefault, Models!Request
<1> QED
  BY <1>4, <1>5, <1>6, <1>7, <1>8 DEF ModelsIInv

-----------------------------------------------------------------------------
(* What a step of one request leaves alone, and how its call, its written  *)
(* rows and the table may change.                                          *)
CallsKeep(c) == \A d \in Actors \ {c} : call'[d] = call[d]
WritesKeep(c) ==
  /\ writes' = [d \in Actors |-> writes'[d]]
  /\ \A d \in Actors \ {c} : writes'[d] = writes[d]

RowsFor(d) ==
  /\ \A m \in Models!Models : rows[m].there =>
       rows'[m].there /\ rows'[m].org = rows[m].org /\ rows'[m].seed = rows[m].seed
  /\ \A m \in Models!Written(d) : rows'[m] = rows[m]

LEMMA RequestGoesTo ==
  ASSUME ModelTypes, NEW c \in Actors, NEW place \in CallPlaces, Models!GoTo(c, place)
  PROVE  /\ call' \in [Actors -> ModelCall] /\ CallsKeep(c)
         /\ call'[c].at = place /\ call'[c].copy = call[c].copy
         /\ call'[c].found = call[c].found /\ call'[c].request = call[c].request
<1>1. call \in [Actors -> ModelCall] /\ call' = [call EXCEPT ![c].at = place]
  BY DEF ModelTypes, Models!GoTo
<1>2. call'[c] = [call[c] EXCEPT !.at = place] /\ \A d \in Actors \ {c} : call'[d] = call[d]
  BY <1>1
<1>3. call'[c] \in ModelCall
  BY <1>1, <1>2 DEF ModelCall
<1>4. call' \in [Actors -> ModelCall]
  BY <1>1, <1>3
<1> QED
  BY <1>1, <1>2, <1>4 DEF CallsKeep, ModelCall

LEMMA RollbackShape ==
  ASSUME Models!ModelAssumption, ModelTypes, NEW c \in Actors, Models!Rollback(c)
  PROVE  /\ call' \in [Actors -> ModelCall] /\ CallsKeep(c) /\ call'[c] = Models!Idle
         /\ WritesKeep(c) /\ Models!Written(c)' = {}
<1>1. call \in [Actors -> ModelCall] /\ call' = [call EXCEPT ![c] = Models!Idle]
      /\ Models!Idle \in ModelCall
  BY IdleTyped DEF ModelTypes, Models!Rollback
<1>2. writes = [d \in Actors |-> writes[d]] /\ writes' = [writes EXCEPT ![c] = <<>>]
  BY DEF ModelTypes, Models!Rollback
<1>3. call' \in [Actors -> ModelCall] /\ CallsKeep(c) /\ call'[c] = Models!Idle
  BY <1>1 DEF CallsKeep
<1>4. writes' = [d \in Actors |-> writes'[d]] /\ writes'[c] = <<>>
      /\ \A d \in Actors \ {c} : writes'[d] = writes[d]
  BY <1>2
<1>5. Models!Written(c)' = {}
  BY <1>4, NothingWritten DEF Models!Written
<1> QED
  BY <1>3, <1>4, <1>5 DEF WritesKeep

LEMMA WriteShape ==
  ASSUME ModelTypes, NEW c \in Actors, NEW W, Models!Write(c, W)
  PROVE  /\ WritesKeep(c)
         /\ Models!Written(c)' = Models!Written(c) \cup DOMAIN W
         /\ \A m \in DOMAIN W : writes'[c][m] = W[m]
         /\ \A m \in Models!Written(c) \ DOMAIN W : writes'[c][m] = writes[c][m]
<1> DEFINE new == [m \in Models!Written(c) \cup DOMAIN W |-> IF m \in DOMAIN W THEN W[m] ELSE writes[c][m]]
<1>1. writes = [d \in Actors |-> writes[d]] /\ writes' = [writes EXCEPT ![c] = new]
  BY DEF ModelTypes, Models!Write
<1>2. DOMAIN new = Models!Written(c) \cup DOMAIN W
  OBVIOUS
<1>3. \A m \in Models!Written(c) \cup DOMAIN W : new[m] = IF m \in DOMAIN W THEN W[m] ELSE writes[c][m]
  OBVIOUS
<1> HIDE DEF new
<1>4. writes' = [d \in Actors |-> writes'[d]] /\ writes'[c] = new
      /\ \A d \in Actors \ {c} : writes'[d] = writes[d]
  BY <1>1
<1>5. WritesKeep(c)
  BY <1>4 DEF WritesKeep
<1>6. Models!Written(c)' = Models!Written(c) \cup DOMAIN W
  BY <1>2, <1>4 DEF Models!Written
<1>7. /\ \A m \in DOMAIN W : writes'[c][m] = W[m]
      /\ \A m \in Models!Written(c) \ DOMAIN W : writes'[c][m] = writes[c][m]
  BY <1>3, <1>4
<1> QED
  BY <1>5, <1>6, <1>7

(* A call that does not move keeps what it knows as long as no row that is *)
(* there moves to another organisation, and nobody else writes its rows.   *)
LEMMA StandsBeside ==
  ASSUME Models!ModelAssumption, ModelTypes, NEW d \in Actors, call'[d] = call[d],
         writes'[d] = writes[d], RowsFor(d),
         Reading(d), Writing(d), CommitsWhole(d)
  PROVE  Reading(d)' /\ Writing(d)' /\ CommitsWhole(d)'
<1>1. Models!Request(d)' = Models!Request(d) /\ Models!Written(d)' = Models!Written(d)
  BY DEF Models!Request, Models!Written
<1>2. \A m \in Models!Models : Mine(d, m) => Mine(d, m)' /\ rows'[m].seed = rows[m].seed
  BY <1>1 DEF Mine, RowsFor
<1>3. call[d].at # "idle" => Models!Request(d) \in Models!Requests
  BY DEF Reading
<1>4. call[d].at # "idle" /\ Models!Request(d).op # "create" => Models!Request(d).id \in Models!Models
  BY <1>3, RequestTyped
<1>5. call[d].found \in SUBSET Models!Models
  BY ModelCallTyped
<1>6. Reading(d)'
  BY <1>1, <1>2, <1>4, <1>5 DEF Reading
<1>7. Writing(d)'
  BY <1>1 DEF Writing, RowsFor
<1>8. CommitsWhole(d)'
  BY <1>1 DEF CommitsWhole, RowsFor
<1> QED
  BY <1>6, <1>7, <1>8

(* The types after a step of one request.                                  *)
LEMMA ModelTypesStand ==
  ASSUME Models!ModelAssumption, ModelTypes, NEW c \in Actors, call' \in [Actors -> ModelCall],
         WritesKeep(c),
         rows' \in [Models!Models -> ModelRow], made' \in 0..MaxModels, made <= made', UNCHANGED Models!startVars, unseeded' \in BOOLEAN,
         Models!Written(c)' \subseteq 1..made', \A m \in Models!Written(c)' : writes'[c][m] \in ModelRow,
         \A m \in Models!Models : rows'[m].there => m <= made'
  PROVE  ModelTypes'
<1>1. made \in 0..MaxModels
  BY DEF ModelTypes
<1>2. ASSUME NEW d \in Actors
      PROVE  Models!Written(d)' \subseteq 1..made' /\ \A m \in Models!Written(d)' : writes'[d][m] \in ModelRow
  <2>1. CASE d = c
    BY <2>1
  <2>2. CASE d # c
    <3>1. writes'[d] = writes[d] /\ Models!Written(d)' = Models!Written(d)
      BY <2>2 DEF WritesKeep, Models!Written
    <3>2. Models!Written(d) \subseteq 1..made /\ \A m \in Models!Written(d) : writes[d][m] \in ModelRow
      BY DEF ModelTypes
    <3>3. 1..made \subseteq 1..made'
      BY <1>1
    <3> QED
      BY <3>1, <3>2, <3>3
  <2> QED
    BY <2>1, <2>2
<1>3. writes' = [d \in Actors |-> writes'[d]]
  BY DEF WritesKeep
<1>4. /\ start' \in [Others -> [at : {"down", "count", "create", "up", "failed"}, table : 1..2,
                                 erred : BOOLEAN]]
      /\ seeded' \in Nat /\ crowded' \in BOOLEAN
  BY DEF ModelTypes, Models!startVars
<1> QED
  BY <1>2, <1>3, <1>4 DEF ModelTypes

-----------------------------------------------------------------------------
LEMMA RowsForSame == ASSUME NEW d \in Actors, UNCHANGED rows, ModelTypes, Models!ModelAssumption
PROVE  RowsFor(d)
<1>1. Models!Written(d) \subseteq Models!Models
  BY WrittenTyped
<1> QED
  BY <1>1 DEF RowsFor

(* What is left to show of a step of one request that commits nothing.     *)
LEMMA BesideOthers ==
  ASSUME Models!ModelAssumption, ModelsIInv, NEW c \in Actors, CallsKeep(c), WritesKeep(c),
         UNCHANGED <<rows, Models!startVars, unseeded>>, ModelTypes', RowsLocked',
         Reading(c)', Writing(c)', CommitsWhole(c)', \A d \in Actors : OneDefault(d)'
  PROVE  ModelsIInv'
<1>1. ASSUME NEW d \in Actors PROVE Reading(d)' /\ Writing(d)' /\ CommitsWhole(d)'
  <2>1. CASE d = c
    BY <2>1
  <2>2. CASE d # c
    <3>1. call'[d] = call[d] /\ writes'[d] = writes[d]
      BY <2>2 DEF CallsKeep, WritesKeep
    <3>2. RowsFor(d)
      BY RowsForSame DEF ModelsIInv
    <3> QED
      BY <3>1, <3>2, StandsBeside DEF ModelsIInv
  <2> QED
    BY <2>1, <2>2
<1>2. DefaultsUnique'
  BY DEF ModelsIInv, DefaultsUnique, Models!DefaultsOf, Models!Live
<1>3. SeedsKnown'
  BY DEF ModelsIInv, SeedsKnown
<1>4. StartsKnown'
  BY DEF ModelsIInv, StartsKnown, UnderWay, Models!startVars
<1> QED
  BY <1>1, <1>2, <1>3, <1>4 DEF ModelsIInv

(* ... that writes nothing,                                                *)
LEMMA NoWriteSteps ==
  ASSUME Models!ModelAssumption, ModelsIInv, NEW c \in Actors, call' \in [Actors -> ModelCall],
         CallsKeep(c),
         UNCHANGED <<rows, made, writes, Models!startVars, unseeded>>,
         Reading(c)', Writing(c)', CommitsWhole(c)'
  PROVE  ModelsIInv'
<1>1. WritesKeep(c)
  BY DEF ModelsIInv, ModelTypes, WritesKeep
<1>2. \A d \in Actors : Models!Written(d)' = Models!Written(d)
  BY DEF Models!Written
<1>3. ModelTypes'
  BY DEF ModelsIInv, ModelTypes, Models!Written, Models!startVars
<1>4. RowsLocked'
  BY <1>2 DEF ModelsIInv, RowsLocked
<1>5. ASSUME NEW d \in Actors PROVE OneDefault(d)'
  <2>1. OneDefault(d)
    BY DEF ModelsIInv
  <2> QED
    BY <2>1, <1>2 DEF OneDefault
<1> QED
  BY <1>1, <1>3, <1>4, <1>5, BesideOthers

(* ... and that gives up what it has written.                              *)
LEMMA RollbackSteps ==
  ASSUME Models!ModelAssumption, ModelsIInv, NEW c \in Actors, Models!Rollback(c),
         made' \in 0..MaxModels, made <= made', UNCHANGED <<rows, Models!startVars, unseeded>>
  PROVE  ModelsIInv'
<1>1. /\ call' \in [Actors -> ModelCall] /\ CallsKeep(c) /\ call'[c] = Models!Idle
      /\ WritesKeep(c) /\ Models!Written(c)' = {}
  BY RollbackShape DEF ModelsIInv
<1>2. \A d \in Actors \ {c} : Models!Written(d)' = Models!Written(d) /\ writes'[d] = writes[d]
  BY <1>1 DEF WritesKeep, Models!Written
<1>3. ModelTypes'
  <2>1. rows' \in [Models!Models -> ModelRow] /\ unseeded' \in BOOLEAN /\ made \in 0..MaxModels
    BY DEF ModelsIInv, ModelTypes
  <2>2. \A m \in Models!Models : rows'[m].there => m <= made'
    <3>1. \A m \in Models!Models : rows[m].there => m <= made
      BY DEF ModelsIInv, ModelTypes
    <3> QED
      BY <2>1, <3>1 DEF Models!Models
  <2>3. UNCHANGED Models!startVars
    OBVIOUS
  <2> QED
    BY <1>1, <2>1, <2>2, <2>3, ModelTypesStand DEF ModelsIInv
<1>4. RowsLocked'
  BY <1>1, <1>2 DEF ModelsIInv, RowsLocked
<1>5. ASSUME NEW d \in Actors PROVE OneDefault(d)'
  <2>1. OneDefault(d)
    BY DEF ModelsIInv
  <2>2. CASE d = c
    BY <2>2, <1>1 DEF OneDefault
  <2>3. CASE d # c
    <3>1. Models!Written(d)' = Models!Written(d) /\ writes'[d] = writes[d] /\ rows' = rows
      BY <2>3, <1>2
    <3>2. \A e \in Actors \ {d} : \A n \in Models!Written(e)' : n \in Models!Written(e) /\ writes'[e] = writes[e]
      BY <1>1, <1>2
    <3> QED
      BY <2>1, <3>1, <3>2 DEF OneDefault
  <2> QED
    BY <2>2, <2>3
<1>6. Reading(c)' /\ Writing(c)' /\ CommitsWhole(c)'
  <2>1. call'[c].at = "idle" /\ Models!Request(c)' = Models!Idle.request
    BY <1>1, IdleTyped DEF Models!Request
  <2>2. Models!Idle.request.op = "none"
    BY DEF Models!Idle
  <2> QED
    BY <1>1, <2>1, <2>2 DEF Reading, Writing, CommitsWhole
<1> QED
  BY <1>1, <1>3, <1>4, <1>5, <1>6, BesideOthers

-----------------------------------------------------------------------------
LEMMA IdleHasWritten ==
  ASSUME ModelsIInv, NEW c \in Actors, call[c].at \notin {"insert", "save", "commit"}
  PROVE  Models!Written(c) = {}
BY DEF ModelsIInv, Writing

LEMMA CopyMoves ==
  ASSUME ModelTypes, NEW c \in Actors, NEW copied, NEW place,
         call' = [call EXCEPT ![c].copy = copied, ![c].at = place]
  PROVE  call' = [call EXCEPT ![c] = [at |-> place, copy |-> copied, found |-> call[c].found,
                                      request |-> call[c].request]]
<1> DEFINE one == [call EXCEPT ![c].copy = copied]
<1>1. call \in [Actors -> ModelCall] /\ call[c] \in ModelCall
  BY DEF ModelTypes
<1>2. call' = [one EXCEPT ![c].at = place]
  BY Zenon
<1>3. one = [call EXCEPT ![c] = [call[c] EXCEPT !.copy = copied]]
  BY Zenon
<1>4. [call[c] EXCEPT !.copy = copied] = [at |-> call[c].at, copy |-> copied, found |-> call[c].found, request |-> call[c].request]
  BY <1>1 DEF ModelCall
<1> HIDE DEF one
<1> QED
  BY <1>1, <1>2, <1>3, <1>4

LEMMA RequestBeginKeeps ==
  ASSUME Models!ModelAssumption, ModelsIInv, NEW c \in Actors, NEW r \in Models!Requests,
         Models!Begin(c, r)
PROVE  ModelsIInv'
<1> DEFINE place == IF r.op # "create" THEN "read" ELSE IF r.default = "yes" THEN "find" ELSE "count"
           copied == [org |-> r.org, default |-> r.default = "yes", active |-> r.status = "active",
                      deleted |-> FALSE, there |-> TRUE, seed |-> FALSE]
           begun == [at |-> place, found |-> {}, request |-> r, copy |-> copied]
<1>1. /\ call[c].at = "idle" /\ call' = [call EXCEPT ![c] = begun]
      /\ UNCHANGED <<rows, made, writes, Models!startVars, unseeded>>
  BY DEF Models!Begin
<1>2. call \in [Actors -> ModelCall]
  BY DEF ModelsIInv, ModelTypes
<1>3. /\ r.op \in {"create", "update", "delete"} /\ r.org \in Orgs
      /\ r.op = "create" => r.default # "no"
  BY RequestTyped
<1>4. copied \in ModelRow /\ copied.org = r.org /\ copied.there /\ ~copied.deleted /\ ~copied.seed
      /\ (copied.default <=> r.default = "yes")
  BY <1>3 DEF ModelRow
<1>5. /\ place \in {"read", "find", "count"}
      /\ place = "read" => r.op # "create"
      /\ place = "find" => r.op = "create" /\ r.default = "yes"
      /\ place = "count" => r.op = "create"
  OBVIOUS
<1> HIDE DEF place, copied
<1>6. begun \in ModelCall
  BY <1>4, <1>5 DEF ModelCall, CallPlaces
<1>7. call' \in [Actors -> ModelCall] /\ call'[c] = begun /\ CallsKeep(c)
  BY <1>1, <1>2, <1>6 DEF CallsKeep
<1>8. call'[c].at = place /\ call'[c].copy = copied /\ Models!Request(c)' = r
  BY <1>7 DEF Models!Request
<1>9. Models!Written(c)' = {}
  BY <1>1, IdleHasWritten DEF Models!Written
<1>10. Reading(c)'
  BY <1>3, <1>4, <1>5, <1>8 DEF Reading
<1>11. Writing(c)' /\ CommitsWhole(c)'
  BY <1>5, <1>8, <1>9 DEF Writing, CommitsWhole
<1> QED
  BY <1>1, <1>7, <1>10, <1>11, NoWriteSteps

LEMMA CountModelsKeeps ==
  ASSUME Models!ModelAssumption, ModelsIInv, NEW c \in Actors, Models!CountModels(c)
PROVE  ModelsIInv'
<1> DEFINE first == \A m \in Models!Models : Models!Live(rows[m]) => rows[m].org # Models!Request(c).org
           place == IF first THEN "find" ELSE "insert"
           copied == [call[c].copy EXCEPT !.default = first]
<1>1. /\ call[c].at = "count" /\ call' = [call EXCEPT ![c].copy.default = first, ![c].at = place]
      /\ UNCHANGED <<rows, made, writes, Models!startVars, unseeded>>
  BY DEF Models!CountModels
<1>2. call \in [Actors -> ModelCall] /\ call[c] \in ModelCall /\ call[c].copy \in ModelRow
  BY ModelCallTyped DEF ModelsIInv, ModelTypes
<1>3. first \in BOOLEAN /\ place \in {"find", "insert"} /\ (place = "find" => first)
  OBVIOUS
<1> HIDE DEF first, place
<1>4. copied \in ModelRow /\ copied.default = first
      /\ copied.org = call[c].copy.org /\ copied.there = call[c].copy.there
      /\ copied.deleted = call[c].copy.deleted /\ copied.seed = call[c].copy.seed
  BY <1>2, <1>3 DEF ModelRow
<1>5. call' = [call EXCEPT ![c] = [at |-> place, copy |-> copied, found |-> call[c].found, request |-> call[c].request]]
  <2>1. call' = [call EXCEPT ![c].copy = copied, ![c].at = place]
    BY <1>1, Zenon
  <2> QED
    BY <2>1, CopyMoves DEF ModelsIInv
<1> HIDE DEF copied
<1>6. call' \in [Actors -> ModelCall] /\ CallsKeep(c) /\ call'[c].at = place /\ call'[c].copy = copied
      /\ Models!Request(c)' = Models!Request(c)
  BY <1>2, <1>3, <1>4, <1>5 DEF ModelCall, CallsKeep, Models!Request, CallPlaces
<1>7. Models!Written(c)' = {}
  BY <1>1, IdleHasWritten DEF Models!Written
<1>8. Reading(c) /\ Models!Request(c) \in Models!Requests /\ Models!Request(c).op = "create"
  BY <1>1 DEF ModelsIInv, Reading
<1>9. Models!Request(c).default # "no"
  BY <1>8, RequestTyped
<1>10. Reading(c)'
  BY <1>1, <1>3, <1>4, <1>6, <1>8, <1>9 DEF Reading
<1>11. Writing(c)' /\ CommitsWhole(c)'
  BY <1>3, <1>6, <1>7 DEF Writing, CommitsWhole
<1> QED
  BY <1>1, <1>6, <1>10, <1>11, NoWriteSteps

LEMMA PatchedRow ==
  ASSUME NEW row \in ModelRow, NEW r \in Models!Requests
  PROVE  /\ Models!Patched(row, r) \in ModelRow
         /\ Models!Patched(row, r).org = row.org /\ Models!Patched(row, r).there = row.there
         /\ Models!Patched(row, r).deleted = row.deleted /\ Models!Patched(row, r).seed = row.seed
         /\ Models!Patched(row, r).default = (IF r.default = Models!Unset THEN row.default ELSE r.default = "yes")
         /\ Models!Patched(row, r).active = (IF r.status = Models!Unset THEN row.active ELSE r.status = "active")
<1> DEFINE d == IF r.default = Models!Unset THEN row.default ELSE r.default = "yes"
           a == IF r.status = Models!Unset THEN row.active ELSE r.status = "active"
<1>1. d \in BOOLEAN /\ a \in BOOLEAN
  BY DEF ModelRow
<1>2. Models!Patched(row, r) = [row EXCEPT !.default = d, !.active = a]
  BY DEF Models!Patched
<1> HIDE DEF d, a
<1>3. /\ Models!Patched(row, r) \in ModelRow
      /\ Models!Patched(row, r).org = row.org /\ Models!Patched(row, r).there = row.there
      /\ Models!Patched(row, r).deleted = row.deleted /\ Models!Patched(row, r).seed = row.seed
      /\ Models!Patched(row, r).default = d /\ Models!Patched(row, r).active = a
  BY <1>1, <1>2 DEF ModelRow
<1> QED
  BY <1>3 DEF d, a

LEMMA ReadModelKeeps == ASSUME Models!ModelAssumption, ModelsIInv, NEW c \in Actors, Models!ReadModel(c)
PROVE  ModelsIInv'
<1>1. call[c].at = "read" /\ UNCHANGED <<rows, made, Models!startVars, unseeded>>
      /\ made \in 0..MaxModels
  BY DEF Models!ReadModel, ModelsIInv, ModelTypes
<1>2. CASE ~Models!Live(rows[Models!Request(c).id]) \/ rows[Models!Request(c).id].org # Models!Request(c).org
  <2>1. Models!Rollback(c)
    BY <1>2 DEF Models!ReadModel
  <2> QED
    BY <1>1, <2>1, RollbackSteps
<1>3. CASE Models!Live(rows[Models!Request(c).id]) /\ rows[Models!Request(c).id].org = Models!Request(c).org
  <2> DEFINE r == Models!Request(c)
             copied == Models!Patched(rows[r.id], r)
             place == IF r.op = "delete" THEN "delete" ELSE IF r.default = "yes" THEN "find" ELSE "save"
  <2>1. call' = [call EXCEPT ![c].copy = copied, ![c].at = place] /\ UNCHANGED writes
    BY <1>3 DEF Models!ReadModel
  <2>2. r \in Models!Requests /\ r.op # "create"
    BY <1>1 DEF ModelsIInv, Reading
  <2>3. r.op \in {"update", "delete"} /\ r.id \in Models!Models
    BY <2>2, RequestTyped
  <2>4. rows[r.id] \in ModelRow /\ Mine(c, r.id) /\ ~rows[r.id].deleted
    BY <1>3, <2>3, RowTyped DEF ModelsIInv, Mine, Models!Live
  <2>5. /\ copied \in ModelRow /\ copied.org = r.org /\ copied.there /\ ~copied.deleted
        /\ copied.seed = rows[r.id].seed
        /\ r.default = "yes" => copied.default
    <3>1. "yes" # Models!Unset
      BY DEF Models!Unset
    <3>2. copied \in ModelRow /\ copied.org = rows[r.id].org /\ copied.there = rows[r.id].there
          /\ copied.deleted = rows[r.id].deleted /\ copied.seed = rows[r.id].seed
          /\ (copied.default = (IF r.default = Models!Unset THEN rows[r.id].default ELSE r.default = "yes"))
      BY <2>2, <2>4, PatchedRow
    <3>3. rows[r.id].there /\ rows[r.id].org = r.org /\ ~rows[r.id].deleted
      BY <2>4 DEF Mine
    <3> HIDE DEF copied
    <3> QED
      BY <3>1, <3>2, <3>3
  <2>6. /\ place \in {"delete", "find", "save"}
        /\ place = "delete" <=> r.op = "delete"
        /\ place = "find" => r.op = "update" /\ r.default = "yes"
        /\ place = "save" => r.op = "update" /\ r.default # "yes"
    BY <2>3
  <2>7. call \in [Actors -> ModelCall] /\ call[c] \in ModelCall
    BY DEF ModelsIInv, ModelTypes
  <2> HIDE DEF copied, place
  <2>8. call' = [call EXCEPT ![c] = [at |-> place, copy |-> copied, found |-> call[c].found, request |-> call[c].request]]
    BY <2>1, CopyMoves DEF ModelsIInv
  <2>9. call' \in [Actors -> ModelCall] /\ CallsKeep(c) /\ call'[c].at = place
        /\ call'[c].copy = copied /\ Models!Request(c)' = r
    BY <2>5, <2>6, <2>7, <2>8 DEF ModelCall, CallsKeep, Models!Request, CallPlaces
  <2>10. Mine(c, r.id)' /\ rows'[r.id].seed = rows[r.id].seed
    BY <1>1, <2>4, <2>9 DEF Mine
  <2>11. Models!Written(c)' = {}
    BY <1>1, <2>1, IdleHasWritten DEF Models!Written
  <2>12. Reading(c)'
    BY <2>2, <2>3, <2>5, <2>6, <2>9, <2>10 DEF Reading
  <2>13. Writing(c)' /\ CommitsWhole(c)'
    BY <2>6, <2>9, <2>11 DEF Writing, CommitsWhole
  <2> QED
    BY <1>1, <2>1, <2>9, <2>12, <2>13, NoWriteSteps
<1> QED
  BY <1>2, <1>3

LEMMA FindDefaultsKeeps ==
  ASSUME Models!ModelAssumption, ModelsIInv, NEW c \in Actors, Models!FindDefaults(c)
PROVE  ModelsIInv'
<1> DEFINE hits == Models!DefaultsOf(Models!Request(c).org) \ {Models!Request(c).id}
<1>1. /\ call[c].at = "find" /\ call' = [call EXCEPT ![c].found = hits, ![c].at = "clear"]
      /\ UNCHANGED <<rows, made, writes, Models!startVars, unseeded>>
  BY DEF Models!FindDefaults
<1>2. call \in [Actors -> ModelCall] /\ call[c] \in ModelCall
  BY DEF ModelsIInv, ModelTypes
<1>3. hits \in SUBSET Models!Models /\ \A m \in hits : Mine(c, m)
  BY DEF Models!DefaultsOf, Mine, Models!Live
<1> HIDE DEF hits
<1>4. call' = [call EXCEPT ![c] = [at |-> "clear", copy |-> call[c].copy, found |-> hits, request |-> call[c].request]]
  BY <1>1, <1>2 DEF ModelCall
<1>5. /\ call' \in [Actors -> ModelCall] /\ CallsKeep(c) /\ call'[c].at = "clear"
      /\ call'[c].copy = call[c].copy
      /\ call'[c].found = hits /\ Models!Request(c)' = Models!Request(c)
  BY <1>2, <1>3, <1>4 DEF ModelCall, CallsKeep, Models!Request, CallPlaces
<1>6. Models!Written(c)' = {}
  BY <1>1, IdleHasWritten DEF Models!Written
<1>7. \A m \in Models!Models : Mine(c, m)' <=> Mine(c, m)
  BY <1>1, <1>5 DEF Mine
<1>8. Reading(c) /\ Models!Request(c) \in Models!Requests
  BY <1>1 DEF ModelsIInv, Reading
<1>9. Models!Request(c).op # "create" => Models!Request(c).id \in Models!Models
  BY <1>8, RequestTyped
<1>10. Reading(c)'
  BY <1>1, <1>3, <1>5, <1>7, <1>8, <1>9 DEF Reading
<1>11. Writing(c)' /\ CommitsWhole(c)'
  BY <1>5, <1>6 DEF Writing, CommitsWhole
<1> QED
  BY <1>1, <1>5, <1>10, <1>11, NoWriteSteps

LEMMA RequestFailKeeps == ASSUME Models!ModelAssumption, ModelsIInv, NEW c \in Actors, Models!Fail(c)
PROVE  ModelsIInv'
<1>1. Models!Rollback(c) /\ UNCHANGED <<rows, made, Models!startVars, unseeded>>
  BY DEF Models!Fail
<1>2. made' \in 0..MaxModels /\ made <= made'
  BY <1>1 DEF ModelsIInv, ModelTypes
<1> QED
  BY <1>1, <1>2, RollbackSteps

-----------------------------------------------------------------------------
LEMMA UnlockedOnly ==
  ASSUME ModelsIInv, NEW c \in Actors, WritesKeep(c),
         \A m \in Models!Written(c)' \ Models!Written(c) : ~Models!LockedFor(c, m)
  PROVE  RowsLocked'
<1>1. \A d \in Actors \ {c} : Models!Written(d)' = Models!Written(d)
  BY DEF WritesKeep, Models!Written
<1>2. ASSUME NEW d \in Actors \ {c}, NEW m \in Models!Written(c)', m \in Models!Written(d) PROVE FALSE
  <2>1. m \notin Models!Written(c)
    BY <1>2 DEF ModelsIInv, RowsLocked
  <2> QED
    BY <1>2, <2>1 DEF Models!LockedFor
<1>3. ASSUME NEW d \in Actors, NEW e \in Actors, d # e
      PROVE  Models!Written(d)' \cap Models!Written(e)' = {}
  <2>1. CASE d = c
    BY <1>1, <1>2, <1>3, <2>1
  <2>2. CASE e = c
    BY <1>1, <1>2, <1>3, <2>2
  <2>3. CASE d # c /\ e # c
    BY <1>1, <1>3, <2>3 DEF ModelsIInv, RowsLocked
  <2> QED
    BY <2>1, <2>2, <2>3
<1> QED
  BY <1>3 DEF RowsLocked

(* No default that c has written meets one that d has written.             *)
DefaultsApart(c, d) ==
  \A o \in Orgs : \A n \in Models!Written(c) : DefaultIn(writes[c][n], o) =>
    \A m \in Models!Written(d) : ~DefaultIn(writes[d][m], o)

LEMMA OneDefaultBeside ==
  ASSUME ModelsIInv, NEW c \in Actors, NEW d \in Actors \ {c}, WritesKeep(c), UNCHANGED rows,
         DefaultsApart(c, d)'
  PROVE  OneDefault(d)'
<1>1. OneDefault(d)
  BY DEF ModelsIInv
<1>2. Models!Written(d)' = Models!Written(d) /\ writes'[d] = writes[d]
  BY DEF WritesKeep, Models!Written
<1>3. \A e \in Actors \ {c} : Models!Written(e)' = Models!Written(e) /\ writes'[e] = writes[e]
  BY DEF WritesKeep, Models!Written
<1>4. ASSUME NEW o \in Orgs, NEW m \in Models!Written(d), DefaultIn(writes[d][m], o)
      PROVE  /\ \A n \in Models!Written(d) : DefaultIn(writes[d][n], o) => n = m
             /\ \A n \in Models!Models \ Models!Written(d) : ~DefaultIn(rows[n], o)
             /\ \A e \in Actors \ {d} : \A n \in Models!Written(e)' : ~DefaultIn(writes'[e][n], o)
  <2>1. /\ \A n \in Models!Written(d) : DefaultIn(writes[d][n], o) => n = m
        /\ \A n \in Models!Models \ Models!Written(d) : ~DefaultIn(rows[n], o)
        /\ \A e \in Actors \ {d} : \A n \in Models!Written(e) : ~DefaultIn(writes[e][n], o)
    BY <1>1, <1>4 DEF OneDefault
  <2>2. \A n \in Models!Written(c)' : ~DefaultIn(writes'[c][n], o)
    BY <1>2, <1>4 DEF DefaultsApart
  <2> QED
    BY <1>3, <2>1, <2>2
<1> QED
  BY <1>2, <1>4 DEF OneDefault

(* What is left to show of a step in which a transaction writes rows.      *)
LEMMA WriteSteps ==
  ASSUME Models!ModelAssumption, ModelsIInv, NEW c \in Actors, NEW place \in CallPlaces,
         Models!GoTo(c, place), NEW W, Models!Write(c, W),
         made' \in 0..MaxModels, made <= made', UNCHANGED <<rows, Models!startVars, unseeded>>,
         DOMAIN W \subseteq 1..made', \A m \in DOMAIN W : W[m] \in ModelRow /\ ~Models!LockedFor(c, m),
         Reading(c)', Writing(c)', CommitsWhole(c)', OneDefault(c)',
         \A d \in Actors \ {c} : DefaultsApart(c, d)'
  PROVE  ModelsIInv'
<1>1. /\ WritesKeep(c)
      /\ Models!Written(c)' = Models!Written(c) \cup DOMAIN W
      /\ \A m \in DOMAIN W : writes'[c][m] = W[m]
      /\ \A m \in Models!Written(c) \ DOMAIN W : writes'[c][m] = writes[c][m]
  BY WriteShape DEF ModelsIInv
<1>2. call' \in [Actors -> ModelCall] /\ CallsKeep(c)
  BY RequestGoesTo DEF ModelsIInv
<1>3. ModelTypes'
  <2>1. rows' \in [Models!Models -> ModelRow] /\ unseeded' \in BOOLEAN /\ made \in 0..MaxModels
    BY DEF ModelsIInv, ModelTypes
  <2>2. \A m \in Models!Models : rows'[m].there => m <= made'
    <3>1. \A m \in Models!Models : rows[m].there => m <= made
      BY DEF ModelsIInv, ModelTypes
    <3> QED
      BY <2>1, <3>1 DEF Models!Models
  <2>3. UNCHANGED Models!startVars
    OBVIOUS
  <2>4. Models!Written(c) \subseteq 1..made /\ \A m \in Models!Written(c) : writes[c][m] \in ModelRow
    BY DEF ModelsIInv, ModelTypes
  <2>5. 1..made \subseteq 1..made'
    BY <2>1
  <2>6. Models!Written(c)' \subseteq 1..made'
    BY <1>1, <2>4, <2>5
  <2>7. \A m \in Models!Written(c)' : writes'[c][m] \in ModelRow
    BY <1>1, <2>4
  <2> QED
    BY <1>1, <1>2, <2>1, <2>2, <2>3, <2>6, <2>7, ModelTypesStand DEF ModelsIInv
<1>4. RowsLocked'
  <2>1. \A m \in Models!Written(c)' \ Models!Written(c) : ~Models!LockedFor(c, m)
    BY <1>1
  <2> QED
    BY <1>1, <2>1, UnlockedOnly
<1>5. ASSUME NEW d \in Actors PROVE OneDefault(d)'
  <2>1. CASE d = c
    BY <2>1
  <2>2. CASE d # c
    BY <1>1, <2>2, OneDefaultBeside
  <2> QED
    BY <2>1, <2>2
<1> QED
  BY <1>1, <1>2, <1>3, <1>4, <1>5, BesideOthers

-----------------------------------------------------------------------------
LEMMA ClearDefaultsKeeps ==
  ASSUME Models!ModelAssumption, ModelsIInv, NEW c \in Actors, Models!ClearDefaults(c)
PROVE  ModelsIInv'
<1> DEFINE cleared == {m \in call[c].found : Models!Live(rows[m]) /\ rows[m].default}
           W == [m \in cleared |-> [rows[m] EXCEPT !.default = FALSE]]
           place == IF Models!Request(c).op = "create" THEN "insert" ELSE "save"
<1>1. /\ call[c].at = "clear" /\ \A m \in call[c].found : ~Models!LockedFor(c, m)
      /\ Models!Write(c, W) /\ Models!GoTo(c, place)
      /\ UNCHANGED <<rows, made, Models!startVars, unseeded>>
  BY DEF Models!ClearDefaults
<1>2. ModelTypes /\ Reading(c) /\ made \in 0..MaxModels
  BY DEF ModelsIInv, ModelTypes
<1>3. cleared \subseteq Models!Models /\ cleared \subseteq call[c].found
  BY <1>2, ModelCallTyped
<1>4. DOMAIN W = cleared
  OBVIOUS
<1>5. ASSUME NEW m \in cleared
      PROVE  /\ m \in 1..made /\ ~Models!LockedFor(c, m)
             /\ rows[m].there /\ rows[m].org = Models!Request(c).org
             /\ W[m] \in ModelRow /\ W[m].there /\ W[m].org = Models!Request(c).org
             /\ W[m].seed = rows[m].seed
             /\ W[m].default = FALSE
  <2>1. m \in Models!Models /\ rows[m] \in ModelRow /\ Mine(c, m) /\ ~Models!LockedFor(c, m)
    BY <1>1, <1>2, <1>3, RowTyped DEF Reading
  <2>2. W[m] = [rows[m] EXCEPT !.default = FALSE]
    OBVIOUS
  <2>3. m \in 1..made
    BY <1>2, <2>1 DEF ModelTypes, Mine, Models!Models
  <2>4. rows[m].there /\ rows[m].org = Models!Request(c).org
    BY <2>1 DEF Mine
  <2>5. W[m] \in ModelRow /\ W[m].there = rows[m].there /\ W[m].org = rows[m].org
        /\ W[m].seed = rows[m].seed
        /\ W[m].default = FALSE
    BY <2>1, <2>2 DEF ModelRow
  <2> QED
    BY <2>1, <2>3, <2>4, <2>5
<1>6. place \in {"insert", "save"} /\ (place = "insert" <=> Models!Request(c).op = "create")
  OBVIOUS
<1>7. Models!Request(c) \in Models!Requests /\ Models!Request(c).op \in {"create", "update"}
      /\ call[c].copy.default
      /\ (Models!Request(c).op = "update" => Models!Request(c).default = "yes")
  BY <1>1, <1>2 DEF Reading
<1>8. Models!Written(c) = {}
  BY <1>1, IdleHasWritten
<1> HIDE DEF W, cleared, place
<1>9. /\ call'[c].at = place /\ call'[c].copy = call[c].copy
      /\ call'[c].found = call[c].found /\ Models!Request(c)' = Models!Request(c)
  <2>1. place \in CallPlaces
    BY <1>6 DEF CallPlaces
  <2> QED
    BY <1>1, <1>2, <2>1, RequestGoesTo DEF Models!Request
<1>10. Models!Written(c)' = cleared /\ \A m \in cleared : writes'[c][m] = W[m]
  <2>1. Models!Written(c)' = Models!Written(c) \cup DOMAIN W /\ \A m \in DOMAIN W : writes'[c][m] = W[m]
    BY <1>1, <1>2, WriteShape
  <2> QED
    BY <1>4, <1>8, <2>1
<1>11. Reading(c)'
  <2>1. Models!Request(c).op # "create" => Models!Request(c).id \in Models!Models
    BY <1>7, RequestTyped
  <2>2. \A m \in Models!Models : Mine(c, m)' <=> Mine(c, m)
    BY <1>1, <1>9 DEF Mine
  <2> QED
    BY <1>1, <1>2, <1>6, <1>7, <1>9, <2>1, <2>2 DEF Reading
<1>12. Writing(c)'
  BY <1>1, <1>5, <1>6, <1>7, <1>9, <1>10 DEF Writing
<1>13. CommitsWhole(c)'
  BY <1>6, <1>9 DEF CommitsWhole
<1>14. \A o \in Orgs : \A m \in Models!Written(c)' : ~DefaultIn(writes'[c][m], o)
  BY <1>5, <1>10 DEF DefaultIn
<1>15. OneDefault(c)' /\ \A d \in Actors \ {c} : DefaultsApart(c, d)'
  BY <1>14 DEF OneDefault, DefaultsApart
<1>16. place \in CallPlaces /\ made' \in 0..MaxModels /\ made <= made' /\ DOMAIN W \subseteq 1..made'
       /\ UNCHANGED <<rows, Models!startVars, unseeded>>
  <2>1. place \in CallPlaces
    BY <1>6 DEF CallPlaces
  <2>2. DOMAIN W \subseteq 1..made
    BY <1>4, <1>5
  <2>3. made' = made /\ UNCHANGED <<rows, Models!startVars, unseeded>>
    BY <1>1
  <2> QED
    BY <1>2, <2>1, <2>2, <2>3
<1>17. \A m \in DOMAIN W : W[m] \in ModelRow /\ ~Models!LockedFor(c, m)
  BY <1>4, <1>5
<1> QED
  BY <1>1, <1>11, <1>12, <1>13, <1>15, <1>16, <1>17, WriteSteps

(* A row that is written as default, alone in its transaction, where the   *)
(* index finds no other and no transaction has one in hand.                *)
LEMMA NewDefaultIsOne ==
  ASSUME Models!ModelAssumption, ModelsIInv, NEW c \in Actors, NEW id \in Models!Models,
         NEW row \in ModelRow,
         NEW skip, skip = id \/ skip = Models!NoModel, \A d \in Actors \ {c} : skip \notin Models!Written(d), WritesKeep(c), UNCHANGED rows,
         row.default =>
           ~Models!DefaultUndecided(Actors \ {c}, row.org, skip)
           /\ ~Models!DefaultConflicts(c, row.org, skip),
         Models!Written(c)' = Models!Written(c) \cup {id}, writes'[c][id] = row,
         \A m \in Models!Written(c) \ {id} : writes'[c][m] = writes[c][m] /\ ~writes[c][m].default
  PROVE  OneDefault(c)' /\ \A d \in Actors \ {c} : DefaultsApart(c, d)'
<1>1. \A o \in Orgs : \A m \in Models!Written(c)' : DefaultIn(writes'[c][m], o) =>
        m = id /\ row.default /\ row.org = o
  BY DEF DefaultIn
<1>2. \A d \in Actors \ {c} : Models!Written(d)' = Models!Written(d) /\ writes'[d] = writes[d]
  BY DEF WritesKeep, Models!Written
<1>3. ASSUME NEW o \in Orgs, row.default, row.org = o
      PROVE  /\ \A n \in Models!Models \ Models!Written(c)' : ~DefaultIn(rows[n], o)
             /\ \A d \in Actors \ {c} : \A n \in Models!Written(d) : ~DefaultIn(writes[d][n], o)
  <2>1. \A n \in Models!Models \ (Models!Written(c) \cup {skip}) : ~DefaultIn(rows[n], o)
    BY <1>3 DEF Models!DefaultConflicts, DefaultIn
  <2>2. skip \in Models!Models => skip \in Models!Written(c)'
    BY DEF Models!NoModel, Models!Models
  <2>3. \A n \in Models!Models \ Models!Written(c)' : ~DefaultIn(rows[n], o)
    BY <2>1, <2>2
  <2>4. \A d \in Actors \ {c} : \A n \in Models!Written(d) \ {skip} : ~DefaultIn(writes[d][n], o)
    BY <1>3 DEF Models!DefaultUndecided, DefaultIn
  <2> QED
    BY <2>3, <2>4
<1>4. OneDefault(c)'
  <2>1. ASSUME NEW o \in Orgs, NEW m \in Models!Written(c)', DefaultIn(writes'[c][m], o)
        PROVE  /\ \A n \in Models!Written(c)' : DefaultIn(writes'[c][n], o) => n = m
               /\ \A n \in Models!Models \ Models!Written(c)' : ~DefaultIn(rows'[n], o)
               /\ \A d \in Actors \ {c} : \A n \in Models!Written(d)' : ~DefaultIn(writes'[d][n], o)
    BY <1>1, <1>2, <1>3, <2>1
  <2> QED
    BY <2>1 DEF OneDefault
<1>5. ASSUME NEW d \in Actors \ {c} PROVE DefaultsApart(c, d)'
  BY <1>1, <1>2, <1>3 DEF DefaultsApart
<1> QED
  BY <1>4, <1>5

LEMMA FreshRow ==
  ASSUME Models!ModelAssumption, ModelsIInv, NEW m \in Models!Models, m > made
  PROVE  ~rows[m].there /\ ~rows[m].seed /\ \A d \in Actors : m \notin Models!Written(d)
<1>1. made \in 0..MaxModels /\ (rows[m].there => m <= made) /\ rows[m] \in ModelRow
  BY RowTyped DEF ModelsIInv, ModelTypes
<1>2. ~rows[m].there
  BY <1>1 DEF Models!Models
<1>3. ~rows[m].seed
  BY <1>2 DEF ModelsIInv, SeedsKnown
<1>4. ASSUME NEW d \in Actors PROVE m \notin Models!Written(d)
  <2>1. Models!Written(d) \subseteq 1..made
    BY DEF ModelsIInv, ModelTypes
  <2> QED
    BY <1>1, <2>1 DEF Models!Models
<1> QED
  BY <1>2, <1>3, <1>4

LEMMA InsertModelKeeps ==
  ASSUME Models!ModelAssumption, ModelsIInv, NEW c \in Actors, Models!InsertModel(c)
PROVE  ModelsIInv'
<1> DEFINE row == call[c].copy
           id == made + 1
<1>1. /\ call[c].at = "insert" /\ made < MaxModels /\ made' = id
      /\ row.default => ~Models!DefaultUndecided(Actors \ {c}, row.org, Models!NoModel)
      /\ UNCHANGED <<rows, Models!startVars, unseeded>>
  BY DEF Models!InsertModel
<1>2. ModelTypes /\ Reading(c) /\ Writing(c) /\ made \in 0..MaxModels /\ MaxModels \in Nat
  BY DEF ModelsIInv, ModelTypes, Models!ModelAssumption
<1>3. made' \in 0..MaxModels /\ made <= made' /\ id \in Models!Models /\ id > made /\ id \in 1..made'
  BY <1>1, <1>2 DEF Models!Models
<1>4. CASE row.default /\ Models!DefaultConflicts(c, row.org, Models!NoModel)
  <2>1. Models!Rollback(c)
    BY <1>4 DEF Models!InsertModel
  <2> QED
    BY <1>1, <1>3, <2>1, RollbackSteps
<1>5. CASE ~(row.default /\ Models!DefaultConflicts(c, row.org, Models!NoModel))
  <2> DEFINE W == [m \in {id} |-> row]
  <2>1. Models!Write(c, W) /\ Models!GoTo(c, "commit")
    BY <1>5 DEF Models!InsertModel
  <2>2. DOMAIN W = {id} /\ W[id] = row
    OBVIOUS
  <2>3. row \in ModelRow /\ row.there /\ row.org = Models!Request(c).org /\ ~row.seed
        /\ Models!Request(c).op = "create"
    BY <1>1, <1>2, ModelCallTyped DEF Reading
  <2>4. ~rows[id].there /\ ~rows[id].seed /\ (\A d \in Actors : id \notin Models!Written(d))
    BY <1>3, FreshRow
  <2>5. \A m \in Models!Written(c) : ~writes[c][m].default
    BY <1>1, <1>2 DEF Writing
  <2>6. ~row.default => Models!Written(c) = {}
    BY <1>1, <1>2 DEF Writing
  <2>7. rows[id] \in ModelRow
    BY <1>2, <1>3, RowTyped
  <2> HIDE DEF W, row, id
  <2>8. /\ WritesKeep(c) /\ Models!Written(c)' = Models!Written(c) \cup {id} /\ writes'[c][id] = row
        /\ \A m \in Models!Written(c) \ {id} : writes'[c][m] = writes[c][m]
    BY <1>2, <2>1, <2>2, WriteShape
  <2>9. call'[c].at = "commit" /\ call'[c].copy = row /\ Models!Request(c)' = Models!Request(c)
    BY <1>2, <2>1, RequestGoesTo DEF Models!Request, CallPlaces, row
  <2>10. \A d \in Actors \ {c} : Models!NoModel \notin Models!Written(d)
    BY <1>2, WrittenTyped DEF Models!Models, Models!NoModel
  <2>11. OneDefault(c)' /\ \A d \in Actors \ {c} : DefaultsApart(c, d)'
    <3>1. row.default =>
            ~Models!DefaultUndecided(Actors \ {c}, row.org, Models!NoModel)
            /\ ~Models!DefaultConflicts(c, row.org, Models!NoModel)
      BY <1>1, <1>5 DEF row
    <3>2. \A m \in Models!Written(c) \ {id} : writes'[c][m] = writes[c][m] /\ ~writes[c][m].default
      BY <2>5, <2>8
    <3>3. rows' = rows
      BY <1>1
    <3> QED
      BY <1>3, <2>3, <2>8, <2>10, <3>1, <3>2, <3>3, NewDefaultIsOne
  <2>12. Reading(c)'
    <3>1. call[c].at # "idle" /\ ~row.deleted /\ Models!Request(c) \in Models!Requests
      BY <1>1, <1>2 DEF Reading, row
    <3> QED
      BY <2>3, <2>9, <3>1 DEF Reading
  <2>13. Writing(c)'
    <3>1. \A m \in Models!Written(c) :
            /\ writes[c][m].there /\ writes[c][m].org = Models!Request(c).org
            /\ writes[c][m].seed = rows[m].seed
            /\ rows[m].there => rows[m].org = Models!Request(c).org
      BY <1>2 DEF Writing
    <3>2. rows' = rows /\ rows[id].seed = row.seed
      BY <1>1, <2>3, <2>4, <2>7 DEF ModelRow
    <3>3. ASSUME NEW m \in Models!Written(c)'
          PROVE  /\ writes'[c][m].there /\ writes'[c][m].org = Models!Request(c).org /\ writes'[c][m].seed = rows[m].seed
                 /\ rows[m].there => rows[m].org = Models!Request(c).org
      <4>1. CASE m = id
        BY <2>3, <2>4, <2>8, <3>2, <4>1
      <4>2. CASE m # id
        BY <2>8, <3>1, <3>3, <4>2
      <4> QED
        BY <4>1, <4>2
    <3> QED
      BY <2>9, <3>2, <3>3 DEF Writing
  <2>14. CommitsWhole(c)'
    <3>1. rows' = rows /\ id \in Models!Written(c)' /\ (row.default \/ Models!Written(c)' = {id})
      BY <1>1, <2>6, <2>8
    <3> QED
      BY <2>3, <2>4, <2>8, <2>9, <3>1 DEF CommitsWhole
  <2>15. "commit" \in CallPlaces /\ DOMAIN W \subseteq 1..made'
    BY <1>3, <2>2 DEF CallPlaces, id
  <2>16. \A m \in DOMAIN W : W[m] \in ModelRow /\ ~Models!LockedFor(c, m)
    BY <2>2, <2>3, <2>4 DEF Models!LockedFor
  <2> QED
    BY <1>1, <1>3, <2>1, <2>11, <2>12, <2>13, <2>14, <2>15, <2>16, WriteSteps
<1> QED
  BY <1>4, <1>5

LEMMA SaveModelKeeps == ASSUME Models!ModelAssumption, ModelsIInv, NEW c \in Actors, Models!SaveModel(c)
PROVE  ModelsIInv'
<1> DEFINE row == call[c].copy
           id == Models!Request(c).id
<1>1. /\ call[c].at = "save" /\ ~Models!LockedFor(c, id)
      /\ row.default => ~Models!DefaultUndecided(Actors \ {c}, row.org, id)
      /\ UNCHANGED <<rows, made, Models!startVars, unseeded>>
  BY DEF Models!SaveModel
<1>2. ModelTypes /\ Reading(c) /\ Writing(c) /\ made \in 0..MaxModels
  BY DEF ModelsIInv, ModelTypes
<1>3. Models!Request(c) \in Models!Requests /\ Models!Request(c).op = "update" /\ id \in Models!Models
  BY <1>1, <1>2, RequestTyped DEF Reading
<1>4. Mine(c, id) /\ row.seed = rows[id].seed /\ (Models!Request(c).default = "yes" => row.default)
  BY <1>1, <1>2, <1>3 DEF Reading
<1>5. CASE row.default /\ Models!DefaultConflicts(c, row.org, id)
  <2>1. Models!Rollback(c)
    BY <1>5 DEF Models!SaveModel
  <2>2. made' \in 0..MaxModels /\ made <= made'
    BY <1>1, <1>2
  <2> QED
    BY <1>1, <2>1, <2>2, RollbackSteps
<1>6. CASE ~(row.default /\ Models!DefaultConflicts(c, row.org, id))
  <2> DEFINE W == [m \in {id} |-> row]
  <2>1. Models!Write(c, W) /\ Models!GoTo(c, "commit")
    BY <1>6 DEF Models!SaveModel
  <2>2. DOMAIN W = {id} /\ W[id] = row
    OBVIOUS
  <2>3. row \in ModelRow /\ row.there /\ row.org = Models!Request(c).org
    BY <1>1, <1>2, ModelCallTyped DEF Reading
  <2>4. id \in 1..made' /\ rows[id].org = Models!Request(c).org
    <3>1. rows[id].there /\ rows[id].org = Models!Request(c).org
      BY <1>4 DEF Mine
    <3>2. id <= made
      BY <1>2, <1>3, <3>1 DEF ModelTypes
    <3> QED
      BY <1>1, <1>2, <1>3, <3>1, <3>2 DEF Models!Models
  <2>5. \A m \in Models!Written(c) : ~writes[c][m].default
    BY <1>1, <1>2 DEF Writing
  <2>6. Models!Request(c).default = "yes" \/ Models!Written(c) = {}
    BY <1>1, <1>2 DEF Writing
  <2>7. \A d \in Actors \ {c} : id \notin Models!Written(d)
    BY <1>1 DEF Models!LockedFor
  <2> HIDE DEF W, row, id
  <2>8. /\ WritesKeep(c) /\ Models!Written(c)' = Models!Written(c) \cup {id} /\ writes'[c][id] = row
        /\ \A m \in Models!Written(c) \ {id} : writes'[c][m] = writes[c][m]
    BY <1>2, <2>1, <2>2, WriteShape
  <2>9. call'[c].at = "commit" /\ call'[c].copy = row /\ Models!Request(c)' = Models!Request(c)
    BY <1>2, <2>1, RequestGoesTo DEF Models!Request, CallPlaces, row
  <2>10. rows' = rows
    BY <1>1
  <2>11. OneDefault(c)' /\ \A d \in Actors \ {c} : DefaultsApart(c, d)'
    <3>1. row.default =>
            ~Models!DefaultUndecided(Actors \ {c}, row.org, id)
            /\ ~Models!DefaultConflicts(c, row.org, id)
      BY <1>1, <1>6 DEF row, id
    <3>2. \A m \in Models!Written(c) \ {id} : writes'[c][m] = writes[c][m] /\ ~writes[c][m].default
      BY <2>5, <2>8
    <3> QED
      BY <1>3, <2>3, <2>7, <2>8, <2>10, <3>1, <3>2, NewDefaultIsOne
  <2>12. Reading(c)'
    <3>1. call[c].at # "idle" /\ ~row.deleted /\ Models!Request(c) \in Models!Requests
      BY <1>1, <1>2 DEF Reading, row
    <3>2. Mine(c, id)'
      <4>1. id' = id
        BY <2>9 DEF id
      <4> QED
        BY <1>4, <2>9, <2>10, <4>1 DEF Mine
    <3>3. rows'[id].seed = row.seed
      BY <1>4, <2>10
    <3> QED
      BY <1>3, <1>4, <2>3, <2>9, <3>1, <3>2, <3>3 DEF Reading, id
  <2>13. Writing(c)'
    <3>1. \A m \in Models!Written(c) :
            /\ writes[c][m].there /\ writes[c][m].org = Models!Request(c).org
            /\ writes[c][m].seed = rows[m].seed
            /\ rows[m].there => rows[m].org = Models!Request(c).org
      BY <1>2 DEF Writing
    <3>2. rows[id].seed = row.seed
      BY <1>4
    <3>3. ASSUME NEW m \in Models!Written(c)'
          PROVE  /\ writes'[c][m].there /\ writes'[c][m].org = Models!Request(c).org /\ writes'[c][m].seed = rows[m].seed
                 /\ rows[m].there => rows[m].org = Models!Request(c).org
      <4>1. CASE m = id
        BY <2>3, <2>4, <2>8, <3>2, <4>1
      <4>2. CASE m # id
        BY <2>8, <3>1, <3>3, <4>2
      <4> QED
        BY <4>1, <4>2
    <3> QED
      BY <2>9, <2>10, <3>3 DEF Writing
  <2>14. CommitsWhole(c)'
    <3>1. id \in Models!Written(c)' /\ (Models!Request(c).default = "yes" \/ Models!Written(c)' = {id})
      BY <2>6, <2>8
    <3> QED
      BY <1>3, <2>8, <2>9, <3>1 DEF CommitsWhole, id
  <2>15. "commit" \in CallPlaces /\ DOMAIN W \subseteq 1..made' /\ made' \in 0..MaxModels
         /\ made <= made'
    <3>1. made' = made
      BY <1>1
    <3> QED
      BY <1>2, <2>2, <2>4, <3>1 DEF CallPlaces
  <2>16. \A m \in DOMAIN W : W[m] \in ModelRow /\ ~Models!LockedFor(c, m)
    BY <1>1, <2>2, <2>3 DEF id
  <2>17. UNCHANGED <<rows, Models!startVars, unseeded>>
    BY <1>1
  <2> QED
    BY <2>1, <2>11, <2>12, <2>13, <2>14, <2>15, <2>16, <2>17, WriteSteps
<1> QED
  BY <1>5, <1>6

LEMMA DeleteModelKeeps ==
  ASSUME Models!ModelAssumption, ModelsIInv, NEW c \in Actors, Models!DeleteModel(c)
PROVE  ModelsIInv'
<1> DEFINE id == Models!Request(c).id
           row == [rows[id] EXCEPT !.deleted = TRUE]
           W == [m \in {id} |-> [rows[id] EXCEPT !.deleted = TRUE]]
<1>1. /\ call[c].at = "delete" /\ ~Models!LockedFor(c, id) /\ Models!Write(c, W)
      /\ Models!GoTo(c, "commit")
      /\ UNCHANGED <<rows, made, Models!startVars, unseeded>>
  BY DEF Models!DeleteModel
<1>2. ModelTypes /\ Reading(c) /\ made \in 0..MaxModels
  BY DEF ModelsIInv, ModelTypes
<1>3. Models!Request(c) \in Models!Requests /\ Models!Request(c).op = "delete" /\ id \in Models!Models
  BY <1>1, <1>2, RequestTyped DEF Reading
<1>4. Mine(c, id) /\ call[c].copy.seed = rows[id].seed
  BY <1>1, <1>2, <1>3 DEF Reading
<1>5. DOMAIN W = {id} /\ W[id] = row
  OBVIOUS
<1>6. rows[id].there /\ rows[id].org = Models!Request(c).org /\ rows[id] \in ModelRow
  BY <1>2, <1>3, <1>4, RowTyped DEF Mine
<1>7. row \in ModelRow /\ row.there /\ row.org = Models!Request(c).org /\ row.seed = rows[id].seed
      /\ row.deleted
  BY <1>6 DEF ModelRow
<1>8. id \in 1..made
  BY <1>2, <1>3, <1>6 DEF ModelTypes, Models!Models
<1>9. Models!Written(c) = {}
  BY <1>1, IdleHasWritten
<1> HIDE DEF W, row, id
<1>10. /\ WritesKeep(c) /\ Models!Written(c)' = {id} /\ writes'[c][id] = row
  <2>1. Models!Written(c)' = Models!Written(c) \cup DOMAIN W
        /\ (\A m \in DOMAIN W : writes'[c][m] = W[m]) /\ WritesKeep(c)
    BY <1>1, <1>2, WriteShape
  <2> QED
    BY <1>5, <1>9, <2>1
<1>11. call'[c].at = "commit" /\ call'[c].copy = call[c].copy /\ Models!Request(c)' = Models!Request(c)
  BY <1>1, <1>2, RequestGoesTo DEF Models!Request, CallPlaces
<1>12. rows' = rows /\ made' = made
  BY <1>1
<1>13. Reading(c)'
  <2>1. id' = id
    BY <1>11 DEF id
  <2>2. Mine(c, id)' /\ call'[c].copy.seed = rows'[id].seed
    BY <1>4, <1>11, <1>12, <2>1 DEF Mine
  <2> QED
    BY <1>1, <1>2, <1>3, <1>11, <2>1, <2>2 DEF Reading, id
<1>14. Writing(c)'
  BY <1>6, <1>7, <1>10, <1>11, <1>12 DEF Writing
<1>15. CommitsWhole(c)'
  BY <1>3, <1>11 DEF CommitsWhole
<1>16. \A o \in Orgs : \A m \in Models!Written(c)' : ~DefaultIn(writes'[c][m], o)
  BY <1>7, <1>10 DEF DefaultIn, Models!Live
<1>17. OneDefault(c)' /\ \A d \in Actors \ {c} : DefaultsApart(c, d)'
  BY <1>16 DEF OneDefault, DefaultsApart
<1>18. "commit" \in CallPlaces /\ DOMAIN W \subseteq 1..made' /\ made' \in 0..MaxModels /\ made <= made'
  BY <1>2, <1>5, <1>8, <1>12 DEF CallPlaces
<1>19. \A m \in DOMAIN W : W[m] \in ModelRow /\ ~Models!LockedFor(c, m)
  BY <1>1, <1>5, <1>7
<1>20. UNCHANGED <<rows, Models!startVars, unseeded>>
  BY <1>1
<1> QED
  BY <1>1, <1>13, <1>14, <1>15, <1>17, <1>18, <1>19, <1>20, WriteSteps

-----------------------------------------------------------------------------
(* What becomes of a row when the transaction of c is committed.           *)
LEMMA CommittedRow ==
  ASSUME Models!ModelAssumption, ModelsIInv, NEW c \in Actors, Models!Commit(c), NEW m \in Models!Models
  PROVE  /\ m \in Models!Written(c) => rows'[m] = writes[c][m]
         /\ m \notin Models!Written(c) => rows'[m] = rows[m]
BY DEF Models!Commit, Models!After

LEMMA CommitShape ==
  ASSUME Models!ModelAssumption, ModelsIInv, NEW c \in Actors, Models!Commit(c)
  PROVE  /\ call' \in [Actors -> ModelCall] /\ CallsKeep(c) /\ call'[c] = Models!Idle
         /\ WritesKeep(c) /\ Models!Written(c)' = {}
         /\ rows' \in [Models!Models -> ModelRow] /\ UNCHANGED <<made, Models!startVars>>
         /\ unseeded' \in BOOLEAN
         /\ \A m \in Models!Models : rows[m].there => rows'[m].there /\ rows'[m].org = rows[m].org
         /\ \A m \in Models!Models : rows'[m].seed = rows[m].seed
         /\ \A m \in Models!Models : rows'[m].there => m <= made
<1>1. ModelTypes /\ Writing(c) /\ Models!Rollback(c)
  BY DEF ModelsIInv, Models!Commit
<1>2. ASSUME NEW m \in Models!Models
      PROVE  /\ rows'[m] \in ModelRow
             /\ rows[m].there => rows'[m].there /\ rows'[m].org = rows[m].org
             /\ rows'[m].seed = rows[m].seed
             /\ rows'[m].there => m <= made
  <2>1. CASE m \in Models!Written(c)
    <3>1. rows'[m] = writes[c][m]
      BY <2>1, CommittedRow
    <3>2. writes[c][m] \in ModelRow /\ m \in 1..made
      BY <1>1, <2>1, WrittenTyped
    <3>3. /\ writes[c][m].there /\ writes[c][m].org = Models!Request(c).org
          /\ writes[c][m].seed = rows[m].seed
          /\ rows[m].there => rows[m].org = Models!Request(c).org
      BY <1>1, <2>1 DEF Writing
    <3> QED
      BY <3>1, <3>2, <3>3
  <2>2. CASE m \notin Models!Written(c)
    <3>1. rows'[m] = rows[m] /\ rows[m] \in ModelRow /\ (rows[m].there => m <= made)
      BY <1>1, <2>2, CommittedRow, RowTyped DEF ModelTypes
    <3> QED
      BY <3>1
  <2> QED
    BY <2>1, <2>2
<1>3. rows' \in [Models!Models -> ModelRow]
  <2>1. rows' = [m \in Models!Models |-> rows'[m]]
    BY DEF Models!Commit, Models!After
  <2> QED
    BY <1>2, <2>1
<1>4. UNCHANGED <<made, Models!startVars>> /\ unseeded' \in BOOLEAN
  BY <1>1 DEF Models!Commit, ModelTypes
<1>5. /\ call' \in [Actors -> ModelCall] /\ CallsKeep(c) /\ call'[c] = Models!Idle
      /\ WritesKeep(c) /\ Models!Written(c)' = {}
  BY <1>1, RollbackShape
<1> QED
  BY <1>2, <1>3, <1>4, <1>5

LEMMA CommitUnique == ASSUME Models!ModelAssumption, ModelsIInv, NEW c \in Actors, Models!Commit(c)
PROVE  DefaultsUnique'
<1>1. ASSUME NEW o \in Orgs, NEW m \in Models!Models, NEW n \in Models!Models, DefaultIn(rows'[m], o),
             DefaultIn(rows'[n], o)
      PROVE  m = n
  <2>1. \A k \in Models!Models : (k \in Models!Written(c) => rows'[k] = writes[c][k]) /\ (k \notin Models!Written(c) => rows'[k] = rows[k])
    BY CommittedRow
  <2>2. OneDefault(c)
    BY DEF ModelsIInv
  <2>3. ASSUME NEW k \in Models!Models, NEW l \in Models!Models, k \in Models!Written(c),
               DefaultIn(rows'[k], o), DefaultIn(rows'[l], o)
        PROVE  k = l
    BY <2>1, <2>2, <2>3 DEF OneDefault
  <2>4. CASE m \in Models!Written(c)
    BY <1>1, <2>3, <2>4
  <2>5. CASE n \in Models!Written(c)
    BY <1>1, <2>3, <2>5
  <2>6. CASE m \notin Models!Written(c) /\ n \notin Models!Written(c)
    <3>1. DefaultIn(rows[m], o) /\ DefaultIn(rows[n], o)
      BY <1>1, <2>1, <2>6
    <3>2. m \in Models!DefaultsOf(o) /\ n \in Models!DefaultsOf(o)
      BY <3>1 DEF Models!DefaultsOf, DefaultIn
    <3> QED
      BY <3>2 DEF ModelsIInv, DefaultsUnique
  <2> QED
    BY <2>4, <2>5, <2>6
<1> QED
  BY <1>1 DEF DefaultsUnique, Models!DefaultsOf, DefaultIn

LEMMA CommitKeeps == ASSUME Models!ModelAssumption, ModelsIInv, NEW c \in Actors, Models!Commit(c)
PROVE  ModelsIInv'
<1>1. /\ call' \in [Actors -> ModelCall] /\ CallsKeep(c) /\ call'[c] = Models!Idle
      /\ WritesKeep(c) /\ Models!Written(c)' = {}
      /\ rows' \in [Models!Models -> ModelRow] /\ UNCHANGED <<made, Models!startVars>>
      /\ unseeded' \in BOOLEAN
      /\ \A m \in Models!Models : rows[m].there => rows'[m].there /\ rows'[m].org = rows[m].org
      /\ \A m \in Models!Models : rows'[m].seed = rows[m].seed
      /\ \A m \in Models!Models : rows'[m].there => m <= made
  BY CommitShape
<1>2. ModelTypes /\ made \in 0..MaxModels
  BY DEF ModelsIInv, ModelTypes
<1>3. \A d \in Actors \ {c} : Models!Written(d)' = Models!Written(d) /\ writes'[d] = writes[d] /\ call'[d] = call[d]
  BY <1>1 DEF CallsKeep, WritesKeep, Models!Written
<1>4. ModelTypes'
  <2>1. made' \in 0..MaxModels /\ made <= made' /\ \A m \in Models!Models : rows'[m].there => m <= made'
    BY <1>1, <1>2
  <2>2. Models!Written(c)' \subseteq 1..made'
        /\ \A m \in Models!Written(c)' : writes'[c][m] \in ModelRow
    BY <1>1
  <2>3. UNCHANGED Models!startVars
    BY <1>1
  <2> QED
    BY <1>1, <1>2, <2>1, <2>2, <2>3, ModelTypesStand
<1>5. RowsLocked'
  BY <1>1, <1>3 DEF ModelsIInv, RowsLocked
<1>6. ASSUME NEW d \in Actors \ {c}, NEW m \in Models!Written(d)
      PROVE  m \in Models!Models /\ m \notin Models!Written(c) /\ rows'[m] = rows[m]
  <2>1. m \in Models!Models
    BY <1>2, WrittenTyped
  <2>2. m \notin Models!Written(c)
    BY DEF ModelsIInv, RowsLocked
  <2> QED
    BY <2>1, <2>2, CommittedRow
<1>7. ASSUME NEW d \in Actors PROVE Reading(d)' /\ Writing(d)' /\ CommitsWhole(d)'
  <2>1. CASE d = c
    <3>1. call'[c].at = "idle" /\ Models!Request(c)' = Models!Idle.request
      BY <1>1, IdleTyped DEF Models!Request
    <3>2. Models!Idle.request.op = "none"
      BY DEF Models!Idle
    <3> QED
      BY <1>1, <2>1, <3>1, <3>2 DEF Reading, Writing, CommitsWhole
  <2>2. CASE d # c
    <3>1. RowsFor(d)
      BY <1>1, <1>6, <2>2 DEF RowsFor
    <3> QED
      BY <1>2, <1>3, <2>2, <3>1, StandsBeside DEF ModelsIInv
  <2> QED
    BY <2>1, <2>2
<1>8. ASSUME NEW d \in Actors PROVE OneDefault(d)'
  <2>1. CASE d = c
    BY <1>1, <2>1 DEF OneDefault
  <2>2. CASE d # c
    <3>1. Models!Written(d)' = Models!Written(d) /\ writes'[d] = writes[d] /\ OneDefault(d)
      BY <1>3, <2>2 DEF ModelsIInv
    <3>2. ASSUME NEW o \in Orgs, NEW m \in Models!Written(d), DefaultIn(writes[d][m], o)
          PROVE  /\ \A n \in Models!Written(d) : DefaultIn(writes[d][n], o) => n = m
                 /\ \A n \in Models!Models \ Models!Written(d) : ~DefaultIn(rows'[n], o)
                 /\ \A e \in Actors \ {d} : \A n \in Models!Written(e)' : ~DefaultIn(writes'[e][n], o)
      <4>1. /\ \A n \in Models!Written(d) : DefaultIn(writes[d][n], o) => n = m
            /\ \A n \in Models!Models \ Models!Written(d) : ~DefaultIn(rows[n], o)
            /\ \A e \in Actors \ {d} : \A n \in Models!Written(e) : ~DefaultIn(writes[e][n], o)
        BY <3>1, <3>2 DEF OneDefault
      <4>2. \A n \in Models!Models \ Models!Written(d) : ~DefaultIn(rows'[n], o)
        <5>1. \A n \in Models!Written(c) : ~DefaultIn(writes[c][n], o)
          BY <2>2, <4>1
        <5>2. \A n \in Models!Models : (n \in Models!Written(c) => rows'[n] = writes[c][n]) /\ (n \notin Models!Written(c) => rows'[n] = rows[n])
          BY CommittedRow
        <5> QED
          BY <4>1, <5>1, <5>2
      <4> QED
        BY <1>1, <1>3, <4>1, <4>2
    <3> QED
      BY <3>1, <3>2 DEF OneDefault
  <2> QED
    BY <2>1, <2>2
<1>9. DefaultsUnique'
  BY CommitUnique
<1>10. SeedsKnown'
  <2>1. unseeded' = (unseeded \/ \E m \in Models!Models : rows'[m].seed /\ rows'[m].deleted)
    BY DEF Models!Commit
  <2>2. \A m \in Models!Models : rows[m].seed => rows[m].there
    BY DEF ModelsIInv, SeedsKnown
  <2> QED
    BY <1>1, <2>1, <2>2 DEF SeedsKnown
<1>11. StartsKnown'
  <2>1. unseeded => unseeded'
    BY DEF Models!Commit
  <2>2. start' = start /\ seeded' = seeded /\ crowded' = crowded
    BY <1>1 DEF Models!startVars
  <2> QED
    BY <1>1, <2>1, <2>2 DEF ModelsIInv, StartsKnown, UnderWay
<1> QED
  BY <1>4, <1>5, <1>7, <1>8, <1>9, <1>10, <1>11 DEF ModelsIInv

-----------------------------------------------------------------------------
StartStates == [at : {"down", "count", "create", "up", "failed"}, table : 1..2, erred : BOOLEAN]
StartsKeep(s) == \A u \in Others \ {s} : start'[u] = start[u]

(* What is left to show of a step of a start that writes no model.         *)
LEMMA StartSteps ==
  ASSUME Models!ModelAssumption, ModelsIInv, UNCHANGED <<rows, made, Models!requestVars>>, start' \in [Others -> StartStates],
         seeded' \in Nat, crowded' \in BOOLEAN, StartsKnown'
  PROVE  ModelsIInv'
<1>1. call' = call /\ writes' = writes /\ unseeded' = unseeded /\ rows' = rows /\ made' = made
  BY DEF Models!requestVars
<1>2. \A d \in Actors : Models!Written(d)' = Models!Written(d)
  BY <1>1 DEF Models!Written
<1>3. ModelTypes'
  BY <1>1, <1>2 DEF ModelsIInv, ModelTypes, StartStates
<1>4. RowsLocked'
  BY <1>2 DEF ModelsIInv, RowsLocked
<1>5. DefaultsUnique' /\ SeedsKnown'
  BY <1>1 DEF ModelsIInv, DefaultsUnique, SeedsKnown, Models!DefaultsOf, Models!Live
<1>6. ASSUME NEW d \in Actors PROVE Reading(d)' /\ Writing(d)' /\ CommitsWhole(d)'
  <2>1. RowsFor(d)
    BY <1>1, RowsForSame DEF ModelsIInv
  <2> QED
    BY <1>1, <2>1, StandsBeside DEF ModelsIInv
<1>7. ASSUME NEW d \in Actors PROVE OneDefault(d)'
  <2>1. OneDefault(d)
    BY DEF ModelsIInv
  <2> QED
    BY <1>1, <1>2, <2>1 DEF OneDefault
<1> QED
  BY <1>3, <1>4, <1>5, <1>6, <1>7 DEF ModelsIInv

LEMMA StartTyped == ASSUME ModelsIInv, NEW s \in Others
PROVE  start[s] \in StartStates /\ start \in [Others -> StartStates]
BY DEF ModelsIInv, ModelTypes, StartStates

LEMMA StartMoves ==
  ASSUME ModelsIInv, NEW s \in Others, NEW at \in {"down", "count", "create", "up", "failed"},
         start' = [start EXCEPT ![s].at = at]
  PROVE  /\ start' \in [Others -> StartStates] /\ StartsKeep(s)
         /\ start'[s].at = at /\ start'[s].table = start[s].table /\ start'[s].erred = start[s].erred
<1>1. start \in [Others -> StartStates] /\ start[s] \in StartStates
  BY StartTyped
<1>2. start'[s] = [start[s] EXCEPT !.at = at] /\ \A u \in Others \ {s} : start'[u] = start[u]
  BY <1>1
<1>3. start'[s] \in StartStates /\ start'[s].at = at /\ start'[s].table = start[s].table
      /\ start'[s].erred = start[s].erred
  BY <1>1, <1>2 DEF StartStates
<1> QED
  BY <1>1, <1>2, <1>3 DEF StartsKeep

(* A start that a failed statement sends somewhere.                        *)
LEMMA StartErrs ==
  ASSUME ModelsIInv, NEW s \in Others, NEW at \in {"create", "failed"}, Models!Errs(s, at)
  PROVE  /\ start' \in [Others -> StartStates] /\ StartsKeep(s)
         /\ start'[s].at = at /\ start'[s].erred
<1>1. start \in [Others -> StartStates] /\ start[s] \in StartStates
  BY StartTyped
<1>2. start'[s] = [start[s] EXCEPT !.at = at, !.erred = TRUE]
      /\ start' = [start EXCEPT ![s] = [start[s] EXCEPT !.at = at, !.erred = TRUE]]
  BY <1>1 DEF Models!Errs
<1>3. [start[s] EXCEPT !.at = at, !.erred = TRUE] \in StartStates /\ start'[s].at = at /\ start'[s].erred
  BY <1>1, <1>2 DEF StartStates
<1> QED
  BY <1>1, <1>2, <1>3 DEF StartsKeep

(* The first table is followed by the second, and that one by the end.     *)
LEMMA TablesFollow ==
  ASSUME ModelsIInv, NEW s \in Others, Models!NextTable(s)
  PROVE  /\ start' \in [Others -> StartStates] /\ StartsKeep(s)
         /\ start'[s].at \in {"up", "count"} /\ start'[s].table = 2
<1> DEFINE new == IF start[s].table = 2 THEN [at |-> "up", table |-> start[s].table, erred |-> FALSE]
                  ELSE [at |-> "count", table |-> start[s].table + 1, erred |-> FALSE]
<1>1. start \in [Others -> StartStates] /\ start[s] \in StartStates
  BY StartTyped
<1>2. start' = [start EXCEPT ![s] = new]
  <2>1. Len(Models!SeedTables) = 2
    BY DEF Models!SeedTables
  <2> QED
    BY <2>1 DEF Models!NextTable
<1>3. new \in StartStates /\ new.at \in {"up", "count"} /\ new.table = 2
  <2>1. CASE start[s].table = 2
    BY <1>1, <2>1 DEF StartStates
  <2>2. CASE start[s].table # 2
    <3>1. start[s].table = 1
      BY <1>1, <2>2 DEF StartStates
    <3> QED
      BY <2>2, <3>1 DEF StartStates
  <2> QED
    BY <2>1, <2>2
<1> HIDE DEF new
<1> QED
  BY <1>1, <1>2, <1>3 DEF StartsKeep

LEMMA TableOf ==
  ASSUME ModelsIInv, NEW s \in Others
  PROVE  /\ Models!Table(s) = "model" <=> start[s].table = 2
         /\ start[s].table \in {1, 2}
<1>1. start[s].table \in {1, 2}
  BY StartTyped DEF StartStates
<1>2. CASE start[s].table = 1
  BY <1>2 DEF Models!Table, Models!SeedTables
<1>3. CASE start[s].table = 2
  BY <1>3 DEF Models!Table, Models!SeedTables
<1> QED
  BY <1>1, <1>2, <1>3

LEMMA StartUpKeeps == ASSUME Models!ModelAssumption, ModelsIInv, NEW s \in Others, Models!StartUp(s)
PROVE  ModelsIInv'
<1>1. /\ start' = [start EXCEPT ![s] = [at |-> "count", table |-> 1, erred |-> FALSE]]
      /\ crowded' = (crowded \/ \E u \in Others \ {s} : start[u].at \in {"count", "create"})
      /\ UNCHANGED <<rows, made, seeded, Models!requestVars>>
  BY DEF Models!StartUp
<1>2. start' \in [Others -> StartStates] /\ StartsKeep(s) /\ start'[s] = [at |-> "count", table |-> 1, erred |-> FALSE]
  BY <1>1, StartTyped DEF StartsKeep, StartStates
<1>3. seeded' \in Nat /\ crowded' \in BOOLEAN
  BY <1>1 DEF ModelsIInv, ModelTypes
<1>4. StartsKnown'
  <2>1. StartsKnown /\ (crowded => crowded')
    BY <1>1 DEF ModelsIInv
  <2>2. \A u \in Others \ {s} : UnderWay(u) => crowded'
    BY <1>1 DEF UnderWay
  <2>3. \A u \in Others \ {s} : start'[u] = start[u]
    BY <1>2 DEF StartsKeep
  <2>4. start'[s].at = "count" /\ rows' = rows /\ unseeded' = unseeded /\ seeded' = seeded
    BY <1>1, <1>2 DEF Models!requestVars
  <2>5. \A u, v \in Others : u # v /\ UnderWay(u)' /\ UnderWay(v)' => crowded'
    <3>1. ASSUME NEW u \in Others, NEW v \in Others, u # v, UnderWay(u)', UnderWay(v)' PROVE crowded'
      <4>1. CASE u = s
        BY <2>2, <2>3, <3>1, <4>1 DEF UnderWay
      <4>2. CASE v = s
        BY <2>2, <2>3, <3>1, <4>2 DEF UnderWay
      <4>3. CASE u # s /\ v # s
        BY <2>1, <2>3, <3>1, <4>3 DEF UnderWay, StartsKnown
      <4> QED
        BY <4>1, <4>2, <4>3
    <3> QED
      BY <3>1
  <2>6. \A u \in Others : start'[u].at = "create" /\ ~start'[u].erred =>
          /\ start'[u].table = 1 => seeded' = 0 \/ crowded'
          /\ start'[u].table = 2 => crowded' \/ unseeded' \/ \A m \in Models!Models : ~rows'[m].seed
    <3>1. ASSUME NEW u \in Others, start'[u].at = "create" PROVE u # s /\ start'[u] = start[u]
      BY <2>3, <2>4, <3>1
    <3> QED
      BY <2>1, <2>4, <3>1 DEF StartsKnown
  <2> QED
    BY <2>1, <2>4, <2>5, <2>6 DEF StartsKnown
<1> QED
  BY <1>1, <1>2, <1>3, <1>4, StartSteps

(* A start that goes on where it was under way is beside no other, and     *)
(* what the others have counted stands.                                    *)
LEMMA StartsStand ==
  ASSUME ModelsIInv, NEW s \in Others, StartsKeep(s), UnderWay(s)' => UnderWay(s), crowded' = crowded,
         unseeded' = unseeded,
         start'[s].at = "create" /\ ~start'[s].erred =>
           /\ start'[s].table = 1 => seeded' = 0 \/ crowded
           /\ start'[s].table = 2 => crowded \/ unseeded \/ \A m \in Models!Models : ~rows'[m].seed,
         UNCHANGED <<rows, seeded>> \/ UnderWay(s)
  PROVE  StartsKnown'
<1>1. StartsKnown
  BY DEF ModelsIInv
<1>2. \A u \in Others \ {s} : start'[u] = start[u]
  BY DEF StartsKeep
<1>3. \A u \in Others : UnderWay(u)' => UnderWay(u)
  BY <1>2 DEF UnderWay
<1>4. \A u, v \in Others : u # v /\ UnderWay(u)' /\ UnderWay(v)' => crowded'
  BY <1>1, <1>3 DEF StartsKnown
<1>5. ASSUME NEW u \in Others, start'[u].at = "create", ~start'[u].erred
      PROVE  /\ start'[u].table = 1 => seeded' = 0 \/ crowded
             /\ start'[u].table = 2 => crowded \/ unseeded \/ \A m \in Models!Models : ~rows'[m].seed
  <2>1. CASE u = s
    BY <1>5, <2>1
  <2>2. CASE u # s /\ UnderWay(s)
    <3>1. UnderWay(u)
      BY <1>2, <1>5, <2>2 DEF UnderWay
    <3> QED
      BY <1>1, <2>2, <3>1 DEF StartsKnown
  <2>3. CASE u # s /\ UNCHANGED <<rows, seeded>>
    BY <1>1, <1>2, <1>5, <2>3 DEF StartsKnown
  <2> QED
    BY <2>1, <2>2, <2>3
<1> QED
  BY <1>1, <1>4, <1>5 DEF StartsKnown

LEMMA StopsKeeps == ASSUME Models!ModelAssumption, ModelsIInv, NEW s \in Others, Models!Stops(s)
PROVE  ModelsIInv'
<1>1. start' = [start EXCEPT ![s] = Models!Down]
      /\ UNCHANGED <<rows, made, seeded, starts, crowded, Models!requestVars>>
  BY DEF Models!Stops
<1>2. start' \in [Others -> StartStates] /\ StartsKeep(s) /\ start'[s].at = "down"
  BY <1>1, StartTyped DEF StartsKeep, StartStates, Models!Down
<1>3. ~UnderWay(s)' /\ crowded' = crowded /\ unseeded' = unseeded /\ UNCHANGED <<rows, seeded>>
  BY <1>1, <1>2 DEF UnderWay, Models!requestVars
<1>4. StartsKnown'
  BY <1>2, <1>3, StartsStand DEF ModelsIInv, StartsKnown
<1>5. seeded' \in Nat /\ crowded' \in BOOLEAN
  BY <1>1 DEF ModelsIInv, ModelTypes
<1> QED
  BY <1>1, <1>2, <1>4, <1>5, StartSteps

LEMMA SeedCountsKeeps ==
  ASSUME Models!ModelAssumption, ModelsIInv, NEW s \in Others, Models!SeedCounts(s)
PROVE  ModelsIInv'
<1>1. start[s].at = "count" /\ UNCHANGED <<rows, made, seeded, starts, crowded, Models!requestVars>>
  BY DEF Models!SeedCounts
<1>2. UnderWay(s) /\ crowded' = crowded /\ unseeded' = unseeded /\ rows' = rows /\ seeded' = seeded
  BY <1>1 DEF UnderWay, Models!requestVars
<1>3. seeded' \in Nat /\ crowded' \in BOOLEAN /\ StartsKnown
  BY <1>1 DEF ModelsIInv, ModelTypes
<1>4. CASE Models!Empty(Models!Table(s))
  <2>1. SUFFICES ASSUME start' = [start EXCEPT ![s].at = "create"] PROVE ModelsIInv'
    <3>1. CASE Models!NextTable(s)
      <4>1. start' \in [Others -> StartStates] /\ StartsKeep(s) /\ start'[s].at \in {"up", "count"}
        BY <3>1, TablesFollow
      <4>2. StartsKnown'
        BY <1>2, <1>3, <4>1, StartsStand DEF StartsKnown
      <4> QED
        BY <1>1, <1>3, <4>1, <4>2, StartSteps
    <3> QED
      BY <1>4, <2>1, <3>1 DEF Models!SeedCounts
  <2>2. start' \in [Others -> StartStates] /\ StartsKeep(s) /\ start'[s].at = "create"
        /\ start'[s].table = start[s].table
    BY <2>1, StartMoves
  <2>3. start[s].table = 1 => seeded' = 0
    <3>1. start[s].table = 1 => Models!Table(s) # "model"
      BY TableOf
    <3> QED
      BY <1>2, <1>4, <3>1 DEF Models!Empty
  <2>4. start[s].table = 2 => unseeded \/ \A m \in Models!Models : ~rows'[m].seed
    <3>1. SUFFICES ASSUME start[s].table = 2, NEW m \in Models!Models, rows[m].seed PROVE unseeded
      BY <1>2
    <3>2. ~Models!Live(rows[m])
      BY <1>4, <3>1, TableOf DEF Models!Empty
    <3>3. rows[m].there /\ (rows[m].deleted => unseeded)
      BY <3>1 DEF ModelsIInv, SeedsKnown
    <3> QED
      BY <3>2, <3>3 DEF Models!Live
  <2>5. StartsKnown'
    BY <1>2, <1>3, <2>2, <2>3, <2>4, StartsStand DEF StartsKnown
  <2> QED
    BY <1>1, <1>3, <2>2, <2>5, StartSteps
<1>5. CASE ~Models!Empty(Models!Table(s))
  <2>1. Models!NextTable(s)
    BY <1>5 DEF Models!SeedCounts
  <2>2. start' \in [Others -> StartStates] /\ StartsKeep(s) /\ start'[s].at \in {"up", "count"}
    BY <2>1, TablesFollow
  <2>3. StartsKnown'
    BY <1>2, <1>3, <2>2, StartsStand DEF StartsKnown
  <2> QED
    BY <1>1, <1>3, <2>2, <2>3, StartSteps
<1> QED
  BY <1>4, <1>5

(* A start that has erred has counted nothing that would have to stand.    *)
LEMMA ErringKeeps ==
  ASSUME Models!ModelAssumption, ModelsIInv, NEW s \in Others, UnderWay(s),
         NEW at \in {"create", "failed"}, Models!Errs(s, at),
         UNCHANGED <<rows, made, crowded, Models!requestVars>>, seeded' \in Nat
  PROVE  ModelsIInv'
<1>1. start' \in [Others -> StartStates] /\ StartsKeep(s) /\ start'[s].erred
  BY StartErrs
<1>2. crowded' = crowded /\ unseeded' = unseeded /\ crowded' \in BOOLEAN
  BY DEF Models!requestVars, ModelsIInv, ModelTypes
<1>3. StartsKnown'
  BY <1>1, <1>2, StartsStand
<1> QED
  BY <1>1, <1>2, <1>3, StartSteps

LEMMA SeedMiscountsKeeps ==
  ASSUME Models!ModelAssumption, ModelsIInv, NEW s \in Others, Models!SeedMiscounts(s)
PROVE  ModelsIInv'
<1>1. UnderWay(s) /\ Models!Errs(s, "create") /\ seeded' \in Nat
      /\ UNCHANGED <<rows, made, crowded, Models!requestVars>>
  BY DEF Models!SeedMiscounts, UnderWay, ModelsIInv, ModelTypes
<1> QED
  BY <1>1, ErringKeeps

LEMMA SeedFailsKeeps ==
  ASSUME Models!ModelAssumption, ModelsIInv, NEW s \in Others, Models!SeedFails(s)
PROVE  ModelsIInv'
<1>1. UnderWay(s) /\ Models!Errs(s, "failed") /\ seeded' \in Nat
      /\ UNCHANGED <<rows, made, crowded, Models!requestVars>>
  BY DEF Models!SeedFails, UnderWay, ModelsIInv, ModelTypes
<1> QED
  BY <1>1, ErringKeeps

LEMMA SeedCreatesKeeps ==
  ASSUME Models!ModelAssumption, ModelsIInv, NEW s \in Others, Models!SeedCreates(s)
PROVE  ModelsIInv'
<1>1. /\ start[s].at = "create" /\ Models!Table(s) # "model" /\ seeded' = seeded + 1
      /\ Models!NextTable(s) \/ Models!Errs(s, "failed")
      /\ UNCHANGED <<rows, made, starts, crowded, Models!requestVars>>
  BY DEF Models!SeedCreates
<1>2. UnderWay(s) /\ crowded' = crowded /\ unseeded' = unseeded
  BY <1>1 DEF UnderWay, Models!requestVars
<1>3. seeded' \in Nat /\ crowded' \in BOOLEAN
  BY <1>1 DEF ModelsIInv, ModelTypes
<1>4. CASE Models!NextTable(s)
  <2>1. start' \in [Others -> StartStates] /\ StartsKeep(s) /\ start'[s].at \in {"up", "count"}
    BY <1>4, TablesFollow
  <2>2. StartsKnown'
    BY <1>2, <2>1, StartsStand
  <2> QED
    BY <1>1, <1>3, <2>1, <2>2, StartSteps
<1>5. CASE Models!Errs(s, "failed")
  BY <1>1, <1>2, <1>3, <1>5, ErringKeeps
<1> QED
  BY <1>1, <1>4, <1>5

(* The seeded model is the only default, in the table and in what the      *)
(* transactions have written.                                              *)
LEMMA SeedCreatesModelKeeps ==
  ASSUME Models!ModelAssumption, ModelsIInv, NEW s \in Others, Models!SeedCreatesModel(s)
PROVE  ModelsIInv'
<1> DEFINE taken == \E m \in Models!Models : rows[m].seed
           found == Models!DefaultsOf(SeedOrg) # {}
<1>1. /\ start[s].at = "create" /\ Models!Table(s) = "model"
      /\ ~Models!DefaultUndecided(Actors, SeedOrg, Models!NoModel)
      /\ UNCHANGED <<seeded, starts, crowded, Models!requestVars>>
  BY DEF Models!SeedCreatesModel
<1>2. UnderWay(s) /\ crowded' = crowded /\ unseeded' = unseeded /\ seeded' = seeded /\ call' = call
      /\ writes' = writes
  BY <1>1 DEF UnderWay, Models!requestVars
<1>3. StartsKnown /\ ModelTypes /\ seeded \in Nat /\ crowded \in BOOLEAN /\ unseeded \in BOOLEAN
      /\ made \in 0..MaxModels
      /\ rows \in [Models!Models -> ModelRow]
  BY DEF ModelsIInv, ModelTypes
<1>4. CASE taken \/ found
  <2>1. start' = [start EXCEPT ![s].at = "failed"] /\ UNCHANGED <<rows, made>>
    BY <1>4 DEF Models!SeedCreatesModel
  <2>2. start' \in [Others -> StartStates] /\ StartsKeep(s) /\ start'[s].at = "failed"
    BY <2>1, StartMoves
  <2>3. StartsKnown'
    BY <1>2, <1>3, <2>2, StartsStand DEF StartsKnown
  <2>4. seeded' \in Nat /\ crowded' \in BOOLEAN
    BY <1>2, <1>3
  <2> QED
    BY <1>1, <2>1, <2>2, <2>3, <2>4, StartSteps
<1>5. CASE ~(taken \/ found)
  <2> DEFINE id == made + 1
             row == [org |-> SeedOrg, default |-> TRUE, active |-> TRUE, deleted |-> FALSE, there |-> TRUE, seed |-> TRUE]
  <2>1. made < MaxModels /\ made' = id /\ rows' = [rows EXCEPT ![id] = row]
        /\ (Models!NextTable(s) \/ Models!Errs(s, "failed"))
    BY <1>5 DEF Models!SeedCreatesModel
  <2>2. id \in Models!Models /\ id > made /\ made' \in 0..MaxModels /\ made <= made'
        /\ MaxModels \in Nat
    BY <1>3, <2>1 DEF Models!Models, Models!ModelAssumption
  <2>3. ~rows[id].there /\ ~rows[id].seed /\ \A d \in Actors : id \notin Models!Written(d)
    BY <2>2, FreshRow
  <2>4. row \in ModelRow /\ row.org = SeedOrg /\ row.there /\ ~row.deleted /\ row.seed
    BY DEF ModelRow, Models!ModelAssumption
  <2> HIDE DEF row, id
  <2>5. rows' \in [Models!Models -> ModelRow] /\ rows'[id] = row
        /\ \A m \in Models!Models \ {id} : rows'[m] = rows[m]
    BY <1>3, <2>1, <2>2, <2>4
  <2>6. start' \in [Others -> StartStates] /\ StartsKeep(s) /\ start'[s].at \in {"up", "count", "failed"}
    BY <2>1, TablesFollow, StartErrs
  <2>7. StartsKnown'
    BY <1>2, <1>3, <2>6, StartsStand DEF StartsKnown
  <2>8. \A d \in Actors : Models!Written(d)' = Models!Written(d)
    BY <1>2 DEF Models!Written
  <2>9. ModelTypes'
    <3>1. \A m \in Models!Models : rows'[m].there => m <= made'
      <4>1. \A m \in Models!Models : rows[m].there => m <= made
        BY <1>3 DEF ModelTypes
      <4>2. ASSUME NEW m \in Models!Models, rows'[m].there PROVE m <= made'
        <5>1. CASE m = id
          BY <2>1, <2>2, <5>1 DEF Models!Models
        <5>2. CASE m # id
          BY <1>3, <2>2, <2>5, <4>1, <4>2, <5>2 DEF Models!Models
        <5> QED
          BY <5>1, <5>2
      <4> QED
        BY <4>2
    <3>2. \A d \in Actors : Models!Written(d)' \subseteq 1..made' /\ \A m \in Models!Written(d)' : writes'[d][m] \in ModelRow
      <4>1. \A d \in Actors : Models!Written(d) \subseteq 1..made /\ \A m \in Models!Written(d) : writes[d][m] \in ModelRow
        BY <1>3 DEF ModelTypes
      <4>2. 1..made \subseteq 1..made'
        BY <1>3, <2>2
      <4> QED
        BY <1>2, <2>8, <4>1, <4>2
    <3>3. call' \in [Actors -> ModelCall] /\ writes' = [c \in Actors |-> writes'[c]]
          /\ seeded' \in Nat /\ crowded' \in BOOLEAN /\ unseeded' \in BOOLEAN
      BY <1>2, <1>3 DEF ModelTypes
    <3> QED
      BY <2>2, <2>5, <2>6, <3>1, <3>2, <3>3 DEF ModelTypes, StartStates
  <2>10. RowsLocked'
    BY <2>8 DEF ModelsIInv, RowsLocked
  <2>11. DefaultsUnique'
    <3>1. ASSUME NEW o \in Orgs, NEW m \in Models!Models, NEW n \in Models!Models,
                 DefaultIn(rows'[m], o), DefaultIn(rows'[n], o)
          PROVE  m = n
      <4>1. ASSUME NEW k \in Models!Models \ {id}, DefaultIn(rows'[k], o)
            PROVE  o # SeedOrg /\ k \in Models!DefaultsOf(o)
        BY <1>5, <2>5, <4>1 DEF Models!DefaultsOf, DefaultIn
      <4>2. DefaultIn(rows'[id], o) => o = SeedOrg
        BY <2>4, <2>5 DEF DefaultIn
      <4>3. CASE m = id \/ n = id
        BY <3>1, <4>1, <4>2, <4>3
      <4>4. CASE m # id /\ n # id
        <5>1. m \in Models!DefaultsOf(o) /\ n \in Models!DefaultsOf(o)
          BY <3>1, <4>1, <4>4
        <5> QED
          BY <5>1 DEF ModelsIInv, DefaultsUnique
      <4> QED
        BY <4>3, <4>4
    <3> QED
      BY <3>1 DEF DefaultsUnique, Models!DefaultsOf, DefaultIn
  <2>12. SeedsKnown'
    <3>1. \A m \in Models!Models : rows[m].seed => rows[m].there /\ (rows[m].deleted => unseeded)
      BY DEF ModelsIInv, SeedsKnown
    <3> QED
      BY <1>2, <2>4, <2>5, <3>1 DEF SeedsKnown
  <2>13. ASSUME NEW d \in Actors PROVE Reading(d)' /\ Writing(d)' /\ CommitsWhole(d)'
    <3>1. RowsFor(d)
      <4>1. Models!Written(d) \subseteq Models!Models /\ id \notin Models!Written(d)
        BY <1>3, <2>3, WrittenTyped
      <4> QED
        BY <2>3, <2>5, <4>1 DEF RowsFor
    <3> QED
      BY <1>2, <1>3, <3>1, StandsBeside DEF ModelsIInv
  <2>14. ASSUME NEW d \in Actors PROVE OneDefault(d)'
    <3>1. OneDefault(d)
      BY DEF ModelsIInv
    <3>2. \A n \in Models!Written(d) : writes[d][n].org = SeedOrg => ~writes[d][n].default
      <4>1. Models!NoModel \notin Models!Written(d)
        BY <1>3, WrittenTyped DEF Models!Models, Models!NoModel
      <4> QED
        BY <1>1, <4>1 DEF Models!DefaultUndecided
    <3>3. \A o \in Orgs : \A m \in Models!Written(d) : DefaultIn(writes[d][m], o) =>
            ~DefaultIn(rows'[id], o)
      BY <2>4, <2>5, <3>2 DEF DefaultIn
    <3>4. ASSUME NEW o \in Orgs, NEW m \in Models!Written(d), DefaultIn(writes[d][m], o)
          PROVE  \A n \in Models!Models \ Models!Written(d) : ~DefaultIn(rows'[n], o)
      <4>1. \A n \in Models!Models \ Models!Written(d) : ~DefaultIn(rows[n], o)
        BY <3>1, <3>4 DEF OneDefault
      <4>2. ~DefaultIn(rows'[id], o)
        BY <3>3, <3>4
      <4> QED
        BY <2>5, <4>1, <4>2
    <3> QED
      BY <1>2, <2>8, <3>1, <3>4 DEF OneDefault
  <2> QED
    BY <2>7, <2>9, <2>10, <2>11, <2>12, <2>13, <2>14 DEF ModelsIInv
<1> QED
  BY <1>4, <1>5

-----------------------------------------------------------------------------
LEMMA ModelsStepKeeps == ASSUME Models!ModelAssumption, ModelsIInv, [Models!Next]_(Models!modelVars)
PROVE  ModelsIInv'
<1>1. CASE UNCHANGED Models!modelVars
  <2>1. \A d \in Actors : Models!Written(d)' = Models!Written(d)
    BY <1>1 DEF Models!modelVars, Models!Written
  <2>2. \A d \in Actors : Models!Request(d)' = Models!Request(d)
    BY <1>1 DEF Models!modelVars, Models!Request
  <2>3. ModelTypes' /\ RowsLocked'
    BY <1>1, <2>1 DEF Models!modelVars, ModelsIInv, ModelTypes, RowsLocked
  <2>4. StartsKnown' /\ SeedsKnown' /\ DefaultsUnique'
    BY <1>1
       DEF Models!modelVars, ModelsIInv, StartsKnown, SeedsKnown, DefaultsUnique, UnderWay,
           Models!DefaultsOf
  <2>5. ASSUME NEW d \in Actors PROVE Reading(d)' /\ Writing(d)' /\ CommitsWhole(d)' /\ OneDefault(d)'
    <3>1. Reading(d) /\ Writing(d) /\ CommitsWhole(d) /\ OneDefault(d)
      BY DEF ModelsIInv
    <3>2. RowsFor(d) /\ call'[d] = call[d] /\ writes'[d] = writes[d]
      BY <1>1, RowsForSame DEF Models!modelVars, ModelsIInv
    <3>3. OneDefault(d)'
      BY <1>1, <2>1, <3>1 DEF Models!modelVars, OneDefault
    <3> QED
      BY <3>1, <3>2, <3>3, StandsBeside DEF ModelsIInv
  <2> QED
    BY <2>3, <2>4, <2>5 DEF ModelsIInv
<1>2. ASSUME NEW c \in Actors, Models!Serve(c) PROVE ModelsIInv'
  BY <1>2, CountModelsKeeps, ReadModelKeeps, FindDefaultsKeeps, ClearDefaultsKeeps, InsertModelKeeps,
     SaveModelKeeps, DeleteModelKeeps, CommitKeeps, RequestFailKeeps DEF Models!Serve
<1>3. ASSUME NEW c \in Actors, NEW r \in Models!Requests, Models!Begin(c, r) PROVE ModelsIInv'
  BY <1>3, RequestBeginKeeps
<1>4. ASSUME NEW s \in Others, Models!StartUp(s) \/ Models!Seed(s) \/ Models!Stops(s) PROVE ModelsIInv'
  BY <1>4, StartUpKeeps, SeedCountsKeeps, SeedMiscountsKeeps, SeedFailsKeeps,
     SeedCreatesKeeps, SeedCreatesModelKeeps, StopsKeeps
     DEF Models!Seed
<1> QED
  BY <1>1, <1>2, <1>3, <1>4 DEF Models!Next

(* The rows, the calls and the starts are of their types, and no row has a *)
(* number that was not given out (TypeOK).                                 *)
THEOREM ModelTypeCorrect == ASSUME Models!ModelAssumption PROVE Models!Spec => []Models!TypeOK
<1>1. Models!Init => ModelsIInv
  BY ModelsInitHolds
<1>2. ModelsIInv /\ [Models!Next]_(Models!modelVars) => ModelsIInv'
  BY ModelsStepKeeps
<1>3. ModelsIInv => Models!TypeOK
  BY DEF ModelsIInv, ModelTypes, Models!TypeOK, Models!SeedTables
<1> QED
  BY <1>1, <1>2, <1>3, PTL DEF Models!Spec

-----------------------------------------------------------------------------
LEMMA ChosenModel ==
  ASSUME Models!ModelAssumption, NEW S \in SUBSET Models!Models
  PROVE  (IF S = {} THEN Models!NoModel ELSE CHOOSE m \in S : TRUE) = Models!NoModel <=> S = {}
<1>1. CASE S = {}
  BY <1>1
<1>2. CASE S # {}
  <2>1. (CHOOSE m \in S : TRUE) \in S
    BY <1>2
  <2>2. Models!NoModel \notin Models!Models
    BY DEF Models!NoModel, Models!Models
  <2> QED
    BY <1>2, <2>1, <2>2
<1> QED
  BY <1>1, <1>2

(* A run of o that names no model has one exactly when o has a default     *)
(* that is active.                                                         *)
Serves(r, o) == DefaultIn(r, o) /\ r.active
Served(o) == \E m \in Models!Models : Serves(rows[m], o)

LEMMA RunIsServed ==
  ASSUME Models!ModelAssumption, NEW o \in Orgs
  PROVE  /\ Models!ModelForRun(o, Models!NoModel) # Models!NoModel => Served(o)
         /\ Models!ModelForRun(o, Models!NoModel)' = Models!NoModel => ~Served(o)'
<1> DEFINE found == {m \in Models!DefaultsOf(o) : rows[m].active}
           foundAfter == {m \in Models!DefaultsOf(o)' : rows'[m].active}
<1>1. found \in SUBSET Models!Models /\ foundAfter \in SUBSET Models!Models
  BY DEF Models!DefaultsOf
<1>2. /\ Models!ModelForRun(o, Models!NoModel) = (IF found = {} THEN Models!NoModel ELSE CHOOSE m \in found : TRUE)
      /\ Models!ModelForRun(o, Models!NoModel)' = (IF foundAfter = {} THEN Models!NoModel ELSE CHOOSE m \in foundAfter : TRUE)
  BY DEF Models!ModelForRun, Models!DefaultModel
<1>3. /\ Served(o) <=> found # {}
      /\ Served(o)' <=> foundAfter # {}
  BY DEF Served, Serves, Models!DefaultsOf, DefaultIn
<1> HIDE DEF found, foundAfter
<1>4. /\ (IF found = {} THEN Models!NoModel ELSE CHOOSE m \in found : TRUE) = Models!NoModel <=> found = {}
      /\ (IF foundAfter = {} THEN Models!NoModel ELSE CHOOSE m \in foundAfter : TRUE) = Models!NoModel <=> foundAfter = {}
  BY <1>1, ChosenModel
<1> QED
  BY <1>2, <1>3, <1>4

(* The rows change only when a transaction is committed and when a start   *)
(* creates the model, which takes no row.                                  *)
LEMMA RowsStay ==
  ASSUME Models!ModelAssumption, ModelsIInv, Models!Next, ~\E c \in Actors : Models!Commit(c)
  PROVE  \A m \in Models!Models : rows[m].there => rows'[m] = rows[m]
<1>1. ASSUME NEW c \in Actors, Models!Serve(c) PROVE rows' = rows
  BY <1>1
     DEF Models!Serve, Models!CountModels, Models!ReadModel, Models!FindDefaults, Models!ClearDefaults,
         Models!InsertModel, Models!SaveModel, Models!DeleteModel, Models!Fail
<1>2. ASSUME NEW c \in Actors, NEW r \in Models!Requests, Models!Begin(c, r) PROVE rows' = rows
  BY <1>2 DEF Models!Begin
<1>3. ASSUME NEW s \in Others,
             \/ Models!StartUp(s) \/ Models!SeedCounts(s) \/ Models!SeedMiscounts(s)
             \/ Models!SeedFails(s) \/ Models!SeedCreates(s) \/ Models!Stops(s)
      PROVE  rows' = rows
  BY <1>3
     DEF Models!StartUp, Models!SeedCounts, Models!SeedMiscounts, Models!SeedFails,
         Models!SeedCreates, Models!Stops
<1>4. ASSUME NEW s \in Others, Models!SeedCreatesModel(s), NEW m \in Models!Models, rows[m].there
      PROVE  rows'[m] = rows[m]
  <2>1. CASE rows' = rows
    BY <2>1
  <2>2. CASE rows' # rows
    <3> DEFINE row == [org |-> SeedOrg, default |-> TRUE, active |-> TRUE, deleted |-> FALSE, there |-> TRUE, seed |-> TRUE]
    <3>1. rows' = [rows EXCEPT ![made + 1] = row] /\ made < MaxModels
      BY <1>4, <2>2 DEF Models!SeedCreatesModel
    <3>2. rows \in [Models!Models -> ModelRow] /\ made \in Nat /\ m <= made /\ m \in Int
      BY <1>4 DEF ModelsIInv, ModelTypes, Models!Models
    <3>3. m # made + 1
      BY <3>2
    <3> HIDE DEF row
    <3> QED
      BY <3>1, <3>2, <3>3
  <2> QED
    BY <2>1, <2>2
<1> QED
  BY <1>1, <1>2, <1>3, <1>4 DEF Models!Next, Models!Seed

(* A transaction that leaves its organisation without an active default.   *)
LEMMA CommitTakes ==
  ASSUME Models!ModelAssumption, ModelsIInv, NEW c \in Actors, Models!Commit(c), NEW o \in Orgs,
         Served(o), ~Served(o)'
  PROVE  Models!TakesDefault(c, o)
<1> DEFINE r == Models!Request(c)
           copied == call[c].copy
<1>1. ModelTypes /\ Reading(c) /\ Writing(c) /\ CommitsWhole(c) /\ call[c].at = "commit"
  BY DEF ModelsIInv, Models!Commit
<1>2. PICK m \in Models!Models : Serves(rows[m], o)
  BY DEF Served
<1>3. \A n \in Models!Models : ~Serves(rows'[n], o)
  BY DEF Served
<1>4. \A n \in Models!Models : (n \in Models!Written(c) => rows'[n] = writes[c][n]) /\ (n \notin Models!Written(c) => rows'[n] = rows[n])
  BY CommittedRow
<1>5. m \in Models!Written(c)
  BY <1>2, <1>3, <1>4
<1>6. rows[m].there /\ rows[m].org = o /\ rows[m].default
  BY <1>2 DEF Serves, DefaultIn, Models!Live
<1>7. r.org = o
  BY <1>1, <1>5, <1>6 DEF Writing
<1>8. r \in Models!Requests /\ copied.org = o /\ copied.there /\ ~copied.deleted
  BY <1>1, <1>7 DEF Reading
<1>9. \A n \in Models!Written(c) : n \in Models!Models
  BY <1>1, WrittenTyped
<1>10. ASSUME NEW n \in Models!Written(c), writes[c][n] = copied, copied.default, copied.active
       PROVE  FALSE
  <2>1. rows'[n] = copied
    BY <1>4, <1>9, <1>10
  <2>2. Serves(rows'[n], o)
    BY <1>8, <1>10, <2>1 DEF Serves, DefaultIn, Models!Live
  <2> QED
    BY <1>3, <1>9, <2>2
<1>11. CASE r.op = "delete"
  BY <1>1, <1>7, <1>11 DEF Models!TakesDefault
<1>12. CASE r.op = "create"
  <2>1. PICK n \in Models!Written(c) : writes[c][n] = copied /\ ~rows[n].there /\ (copied.default \/ Models!Written(c) = {n})
    BY <1>1, <1>12 DEF CommitsWhole
  <2>2. copied.default
    BY <1>5, <1>6, <2>1
  <2>3. ~copied.active
    BY <1>10, <2>1, <2>2
  <2> QED
    BY <1>1, <1>7, <2>3 DEF Models!TakesDefault
<1>13. CASE r.op = "update"
  <2>1. r.id \in Models!Written(c) /\ writes[c][r.id] = copied
        /\ (r.default = "yes" \/ Models!Written(c) = {r.id})
    BY <1>1, <1>13 DEF CommitsWhole
  <2>2. CASE r.default = "yes"
    <3>1. copied.default
      BY <1>1, <1>13, <2>2 DEF Reading
    <3>2. ~copied.active
      BY <1>10, <2>1, <3>1
    <3> QED
      BY <1>1, <1>7, <3>2 DEF Models!TakesDefault
  <2>3. CASE r.default = "no"
    BY <1>1, <1>7, <2>3 DEF Models!TakesDefault
  <2>4. CASE r.default = Models!Unset
    <3>1. m = r.id
      BY <1>5, <2>1, <2>4 DEF Models!Unset
    <3>2. copied = Models!Patched(rows[r.id], r) => copied.default
      <4>1. rows[r.id] \in ModelRow
        BY <1>1, <1>9, <2>1, RowTyped
      <4>2. Models!Patched(rows[r.id], r).default = rows[r.id].default
        BY <1>8, <2>4, <4>1, PatchedRow
      <4> QED
        BY <1>6, <3>1, <4>2
    <3>3. copied # Models!Patched(rows[r.id], r) \/ ~copied.active
      BY <1>10, <2>1, <3>2
    <3> QED
      BY <1>1, <1>7, <1>13, <3>3 DEF Models!TakesDefault
  <2> QED
    BY <1>8, <2>2, <2>3, <2>4, RequestTyped
<1> QED
  BY <1>8, <1>11, <1>12, <1>13, RequestTyped

LEMMA SameCardinality == ASSUME NEW S PROVE Models!Cardinality(S) = Cardinality(S)
BY DEF Models!Cardinality, Cardinality

LEMMA OneOrNone == ASSUME NEW S, \A x, y \in S : x = y PROVE Models!Cardinality(S) <= 1
<1>1. CASE S = {}
  BY <1>1, FS_EmptySet, SameCardinality
<1>2. CASE S # {}
  <2>1. PICK x : x \in S
    BY <1>2
  <2>2. S = {x}
    BY <2>1
  <2> QED
    BY <2>2, FS_Singleton, SameCardinality
<1> QED
  BY <1>1, <1>2

LEMMA DefaultSteps ==
  ASSUME Models!ModelAssumption, ModelsIInv, ModelsIInv', Models!Next, NEW o \in Orgs
  PROVE  /\ Models!Cardinality(Models!DefaultsOf(o)') <= 1
         /\ Models!LosesModel(o) => \E c \in Actors : Models!TakesDefault(c, o)
<1>1. Models!Cardinality(Models!DefaultsOf(o)') <= 1
  <2>1. \A m, n \in Models!DefaultsOf(o)' : m = n
    BY DEF ModelsIInv, DefaultsUnique
  <2> QED
    BY <2>1, OneOrNone
<1>2. ASSUME Served(o), ~Served(o)' PROVE \E c \in Actors : Models!TakesDefault(c, o)
  <2>1. CASE \E c \in Actors : Models!Commit(c)
    <3>1. PICK c \in Actors : Models!Commit(c)
      BY <2>1
    <3> QED
      BY <1>2, <3>1, CommitTakes
  <2>2. CASE ~\E c \in Actors : Models!Commit(c)
    <3>1. PICK m \in Models!Models : Serves(rows[m], o)
      BY <1>2 DEF Served
    <3>2. rows[m].there
      BY <3>1 DEF Serves, DefaultIn, Models!Live
    <3>3. rows'[m] = rows[m]
      BY <2>2, <3>2, RowsStay
    <3> QED
      BY <1>2, <3>1, <3>3 DEF Served
  <2> QED
    BY <2>1, <2>2
<1>3. Models!LosesModel(o) => Served(o) /\ ~Served(o)'
  BY RunIsServed DEF Models!LosesModel
<1> QED
  BY <1>1, <1>2, <1>3

(* A start whose statements do not fail fails only on the model, and       *)
(* another one is under way or the model that is there was not there when  *)
(* the table was counted.                                                  *)
LEMMA StartFails ==
  ASSUME Models!ModelAssumption, ModelsIInv, Models!Next, NEW s \in Others, start[s].at # "failed",
         start'[s].at = "failed"
  PROVE  crowded \/ start'[s].erred \/ unseeded \/ \E m \in Models!DefaultsOf(SeedOrg) : ~rows[m].seed
<1>1. ASSUME NEW c \in Actors, Models!Serve(c) PROVE FALSE
  BY <1>1
     DEF Models!Serve, Models!CountModels, Models!ReadModel, Models!FindDefaults, Models!ClearDefaults,
         Models!InsertModel, Models!SaveModel, Models!DeleteModel,
              Models!Commit, Models!Fail, Models!startVars
<1>2. ASSUME NEW c \in Actors, NEW r \in Models!Requests, Models!Begin(c, r) PROVE FALSE
  BY <1>2 DEF Models!Begin, Models!startVars
<1>3. ASSUME NEW u \in Others, Models!StartUp(u) PROVE FALSE
  <2>1. start' = [start EXCEPT ![u] = [at |-> "count", table |-> 1, erred |-> FALSE]]
    BY <1>3 DEF Models!StartUp
  <2>2. start'[u].at = "count" /\ \A v \in Others \ {u} : start'[v] = start[v]
    BY <2>1, StartTyped
  <2> QED
    BY <2>2
<1>4. ASSUME NEW u \in Others, Models!NextTable(u) PROVE FALSE
  <2>1. start'[u].at \in {"up", "count"} /\ \A v \in Others \ {u} : start'[v] = start[v]
    BY <1>4, TablesFollow DEF StartsKeep
  <2> QED
    BY <2>1
<1>5. ASSUME NEW u \in Others, start' = [start EXCEPT ![u].at = "create"] \/ Models!Stops(u)
      PROVE  FALSE
  <2>1. start'[u].at \in {"create", "down"} /\ \A v \in Others \ {u} : start'[v] = start[v]
    BY <1>5, StartMoves, StartTyped DEF StartsKeep, Models!Stops, Models!Down
  <2> QED
    BY <2>1
<1>6. ASSUME NEW u \in Others, NEW at \in {"create", "failed"}, Models!Errs(u, at)
      PROVE  start'[s].erred
  <2>1. start'[u].erred /\ \A v \in Others \ {u} : start'[v] = start[v]
    BY <1>6, StartErrs DEF StartsKeep
  <2> QED
    BY <2>1
<1>7. ASSUME NEW u \in Others,
             \/ Models!Stops(u) \/ Models!SeedCounts(u) \/ Models!SeedMiscounts(u)
             \/ Models!SeedFails(u) \/ Models!SeedCreates(u)
      PROVE  start'[s].erred
  BY <1>4, <1>5, <1>6, <1>7
     DEF Models!SeedCounts, Models!SeedMiscounts, Models!SeedFails, Models!SeedCreates
<1>8. ASSUME NEW u \in Others, Models!SeedCreatesModel(u)
      PROVE  crowded \/ start'[s].erred \/ unseeded \/ \E m \in Models!DefaultsOf(SeedOrg) : ~rows[m].seed
  <2>1. CASE (\E m \in Models!Models : rows[m].seed) \/ Models!DefaultsOf(SeedOrg) # {}
    <3>1. start[u].at = "create" /\ start[u].table = 2 /\ start' = [start EXCEPT ![u].at = "failed"]
      BY <1>8, <2>1, TableOf DEF Models!SeedCreatesModel
    <3>2. start'[u].erred = start[u].erred /\ \A v \in Others \ {u} : start'[v] = start[v]
      BY <3>1, StartMoves DEF StartsKeep
    <3>3. s = u
      BY <3>2
    <3>4. start[u].erred \/ crowded \/ unseeded \/ \A m \in Models!Models : ~rows[m].seed
      BY <3>1 DEF ModelsIInv, StartsKnown
    <3> QED
      BY <2>1, <3>2, <3>3, <3>4 DEF Models!DefaultsOf
  <2>2. CASE ~((\E m \in Models!Models : rows[m].seed) \/ Models!DefaultsOf(SeedOrg) # {})
    <3>1. Models!NextTable(u) \/ Models!Errs(u, "failed")
      BY <1>8, <2>2 DEF Models!SeedCreatesModel
    <3> QED
      BY <1>4, <1>6, <3>1
  <2> QED
    BY <2>1, <2>2
<1> QED
  BY <1>1, <1>2, <1>3, <1>5, <1>7, <1>8 DEF Models!Next, Models!Seed

(* Accounts are created a second time only by a start that could not count *)
(* them, or beside another one.                                            *)
LEMMA SecondAccounts ==
  ASSUME Models!ModelAssumption, ModelsIInv, Models!Next, seeded > 0, seeded' > seeded
  PROVE  crowded \/ \E s \in Others : start[s].at = "create" /\ start[s].erred
<1>1. seeded \in Nat
  BY DEF ModelsIInv, ModelTypes
<1>2. CASE seeded' = seeded
  BY <1>1, <1>2
<1>3. CASE \E s \in Others : Models!SeedCreates(s)
  <2>1. PICK s \in Others : Models!SeedCreates(s)
    BY <1>3
  <2>2. start[s].at = "create" /\ start[s].table = 1
    BY <2>1, TableOf DEF Models!SeedCreates
  <2>3. start[s].erred \/ seeded = 0 \/ crowded
    BY <2>2 DEF ModelsIInv, StartsKnown
  <2> QED
    BY <1>1, <2>2, <2>3
<1>4. ASSUME NEW c \in Actors, Models!Serve(c) PROVE seeded' = seeded
  BY <1>4
     DEF Models!Serve, Models!CountModels, Models!ReadModel, Models!FindDefaults, Models!ClearDefaults,
         Models!InsertModel, Models!SaveModel, Models!DeleteModel,
              Models!Commit, Models!Fail, Models!startVars
<1>5. ASSUME NEW c \in Actors, NEW r \in Models!Requests, Models!Begin(c, r) PROVE seeded' = seeded
  BY <1>5 DEF Models!Begin, Models!startVars
<1>6. ASSUME NEW s \in Others,
             \/ Models!StartUp(s) \/ Models!SeedCounts(s) \/ Models!SeedMiscounts(s)
             \/ Models!SeedFails(s) \/ Models!SeedCreatesModel(s) \/ Models!Stops(s)
      PROVE  seeded' = seeded
  BY <1>6
     DEF Models!StartUp, Models!SeedCounts, Models!SeedMiscounts, Models!SeedFails,
         Models!SeedCreatesModel, Models!Stops
<1> QED
  BY <1>2, <1>3, <1>4, <1>5, <1>6 DEF Models!Next, Models!Seed

LEMMA ExplainedSteps ==
  ASSUME Models!ModelAssumption, ModelsIInv, ModelsIInv', Models!Next
  PROVE  /\ \A o \in Orgs :
              /\ Models!Cardinality(Models!DefaultsOf(o)') <= 1
              /\ Models!LosesModel(o) => \E c \in Actors : Models!TakesDefault(c, o)
         /\ seeded > 0 /\ seeded' > seeded =>
              crowded \/ \E s \in Others : start[s].at = "create" /\ start[s].erred
         /\ \A s \in Others : start[s].at # "failed" /\ start'[s].at = "failed" =>
              \/ crowded
              \/ start'[s].erred
              \/ unseeded
              \/ \E m \in Models!DefaultsOf(SeedOrg) : ~rows[m].seed
BY DefaultSteps, StartFails, SecondAccounts

(* An organisation has one default at most, and the active one that its    *)
(* runs fall back to is gone only knowingly; a start fails, or creates     *)
(* the accounts a second time, only for a reason (DefaultsAreExplained).   *)
LEMMA DefaultsHaveCauses == ASSUME Models!ModelAssumption
PROVE  Models!Spec => Models!DefaultsAreExplained
<1>1. Models!Init => ModelsIInv
  BY ModelsInitHolds
<1>2. ModelsIInv /\ [Models!Next]_(Models!modelVars) => ModelsIInv'
  BY ModelsStepKeeps
<1>3. ModelsIInv /\ ModelsIInv' /\ [Models!Next]_(Models!modelVars) =>
        [\A o \in Orgs :
           /\ Models!Cardinality(Models!DefaultsOf(o)') <= 1
           /\ Models!LosesModel(o) => \E c \in Actors : Models!TakesDefault(c, o)]_(Models!modelVars)
  BY ExplainedSteps
<1>4. ModelsIInv /\ ModelsIInv' /\ [Models!Next]_(Models!modelVars) =>
        [/\ seeded > 0 /\ seeded' > seeded =>
              crowded \/ \E s \in Others : start[s].at = "create" /\ start[s].erred
         /\ \A s \in Others : start[s].at # "failed" /\ start'[s].at = "failed" =>
              \/ crowded
              \/ start'[s].erred
              \/ unseeded
              \/ \E m \in Models!DefaultsOf(SeedOrg) : ~rows[m].seed]_(Models!modelVars)
  BY ExplainedSteps
<1> QED
  BY <1>1, <1>2, <1>3, <1>4, PTL
     DEF Models!Spec, Models!DefaultsAreExplained, Models!DefaultLeavesKnowingly,
         Models!StartsAreExplained

-----------------------------------------------------------------------------
(* DockerScheduler: a container that runs outside the table has one of the *)
(* known reasons.                                                          *)

TableSized ==
  /\ created \in Nat /\ created <= MaxContainers
  /\ dockerTable = [w \in Others |-> dockerTable[w]]
  /\ \A w \in Others : dockerTable[w] \in Nat /\ dockerTable[w] <= created

ContainersBoxed ==
  /\ container = [n \in Docker!Containers |-> container[n]]
  /\ monitor = [n \in Docker!Containers |-> monitor[n]]
  /\ disowned = [n \in Docker!Containers |-> disowned[n]]

DockerCalled ==
  /\ mu \in Actors \cup {Docker!Nobody}
  /\ dockerCall = [c \in Actors |-> dockerCall[c]]
  /\ \A c \in Actors : /\ dockerCall[c].at \in {"idle", "start", "register", "stop", "remove"}
                       /\ dockerCall[c].n \in Nat /\ dockerCall[c].n <= created

DockerShape == TableSized /\ ContainersBoxed /\ DockerCalled

(* A call that is under way holds the lock: there is one at most.          *)
OneCall == \A c \in Actors : dockerCall[c].at # "idle" <=> mu = c

(* Containers are made in turn, each for a worker, and watched afterwards. *)
MadeInTurn ==
  \A n \in Docker!Containers :
    /\ container[n].state = "none" <=> n > created
    /\ n <= created => container[n].worker \in Others
    /\ n > created => monitor[n] = "off" /\ disowned[n] = "no"

(* A name goes to a new container when every older one of it is gone.      *)
NamesAreUnique ==
  \A n, m \in Docker!Containers :
    n < m /\ m <= created /\ container[n].worker = container[m].worker => container[n].state = "gone"

TableIsTrue ==
  \A w \in Others : dockerTable[w] # Docker!None =>
    container[dockerTable[w]].worker = w /\ monitor[dockerTable[w]] \in {"watching", "removing"}

(* What a call under way knows is still so.                                *)
CallsAreTrue ==
  \A c \in Actors :
    /\ dockerCall[c].at # "idle" => dockerCall[c].worker \in Others /\ dockerCall[c].n # Docker!None
    /\ dockerCall[c].at \in {"start", "register"} =>
         container[dockerCall[c].n].worker = dockerCall[c].worker /\ dockerCall[c].n = created
    /\ dockerCall[c].at \in {"stop", "remove"} => dockerTable[dockerCall[c].worker] = dockerCall[c].n

Registering(n) == \E c \in Actors : dockerCall[c].at = "register" /\ dockerCall[c].n = n

RunningIsListed ==
  \A n \in Docker!Containers : container[n].state = "running" =>
    \/ dockerTable[container[n].worker] = n
    \/ disowned[n] # "no"
    \/ Registering(n)

TakenForGone ==
  \A n \in Docker!Containers : disowned[n] = "taken for an older one" =>
    \E m \in 1..(n - 1) : container[m].worker = container[n].worker /\ container[m].state = "gone"

DockerInvs == OneCall /\ MadeInTurn /\ NamesAreUnique /\ TableIsTrue /\ CallsAreTrue /\ RunningIsListed
              /\ TakenForGone

DockerIInv == DockerShape /\ DockerInvs

-----------------------------------------------------------------------------
LEMMA ContainerNumbers ==
  ASSUME Docker!DockerAssumption, DockerIInv
  PROVE  /\ created \in Nat /\ created <= MaxContainers /\ MaxContainers \in Nat
         /\ \A n \in Docker!Containers : n \in Nat /\ 0 < n
         /\ \A n \in Nat : 0 < n /\ n <= MaxContainers => n \in Docker!Containers
         /\ \A w \in Others : dockerTable[w] # Docker!None =>
              dockerTable[w] \in Docker!Containers /\ dockerTable[w] <= created
BY DEF Docker!DockerAssumption, DockerIInv, DockerShape, TableSized, Docker!Containers, Docker!None

LEMMA DockerInitHolds == ASSUME Docker!DockerAssumption PROVE Docker!Init => DockerIInv
<1> SUFFICES ASSUME Docker!Init PROVE DockerIInv
  OBVIOUS
<1>1. /\ created = 0 /\ mu = Docker!Nobody
      /\ \A n \in Docker!Containers : container[n] = [worker |-> Docker!NoWorker, state |-> "none"]
      /\ \A n \in Docker!Containers : monitor[n] = "off" /\ disowned[n] = "no"
      /\ \A w \in Others : dockerTable[w] = Docker!None
      /\ \A c \in Actors : dockerCall[c].at = "idle" /\ dockerCall[c].n = Docker!None
  BY DEF Docker!Init, Docker!Idle
<1>2. TableSized
  BY <1>1 DEF Docker!Init, TableSized, Docker!DockerAssumption, Docker!None
<1>3. ContainersBoxed
  BY DEF Docker!Init, ContainersBoxed
<1>4. DockerCalled
  BY <1>1 DEF Docker!Init, DockerCalled, Docker!None
<1>5. OneCall
  BY <1>1 DEF OneCall, Docker!DockerAssumption
<1>6. \A n \in Docker!Containers : n > 0 /\ container[n].state = "none"
  BY <1>1 DEF Docker!Containers, Docker!DockerAssumption
<1>7. MadeInTurn /\ NamesAreUnique
  <2>1. \A n \in Docker!Containers : ~(n <= created) /\ n > created
    BY <1>1, <1>6 DEF Docker!Containers, Docker!DockerAssumption
  <2> QED
    BY <1>1, <1>6, <2>1 DEF MadeInTurn, NamesAreUnique
<1>8. TableIsTrue /\ CallsAreTrue /\ RunningIsListed /\ TakenForGone
  BY <1>1, <1>6 DEF TableIsTrue, CallsAreTrue, RunningIsListed, TakenForGone
<1> QED
  BY <1>2, <1>3, <1>4, <1>5, <1>7, <1>8 DEF DockerIInv, DockerInvs, DockerShape

(* The call under way is the only one. *)
LEMMA DockerAlone ==
  ASSUME DockerIInv, NEW c \in Actors, dockerCall[c].at # "idle"
  PROVE  /\ mu = c
         /\ \A d \in Actors \ {c} : dockerCall[d].at = "idle"
  BY DEF DockerIInv, DockerInvs, OneCall

LEMMA NobodyCalls ==
  ASSUME Docker!DockerAssumption, DockerIInv, mu = Docker!Nobody
  PROVE  \A d \in Actors : dockerCall[d].at = "idle"
  BY DEF DockerIInv, DockerInvs, OneCall, Docker!DockerAssumption

-----------------------------------------------------------------------------
(* What a call under way knows of its container.                           *)
LEMMA CallKnows ==
  ASSUME Docker!DockerAssumption, DockerIInv, NEW c \in Actors, dockerCall[c].at # "idle"
  PROVE  /\ dockerCall[c].n \in Docker!Containers /\ dockerCall[c].n <= created /\ dockerCall[c].n # Docker!None
         /\ dockerCall[c].worker \in Others
         /\ container[dockerCall[c].n].worker = dockerCall[c].worker
         /\ container[dockerCall[c].n].state # "none"
<1>1. /\ dockerCall[c].n # Docker!None /\ dockerCall[c].n \in Nat /\ dockerCall[c].n <= created
      /\ dockerCall[c].worker \in Others
  BY DEF DockerIInv, DockerInvs, DockerShape, DockerCalled, CallsAreTrue
<1>2. dockerCall[c].n \in Docker!Containers
  BY <1>1, ContainerNumbers DEF Docker!None
<1>3. container[dockerCall[c].n].worker = dockerCall[c].worker
  <2>1. CASE dockerCall[c].at \in {"start", "register"}
    BY <2>1 DEF DockerIInv, DockerInvs, CallsAreTrue
  <2>2. CASE dockerCall[c].at \in {"stop", "remove"}
    <3>1. dockerTable[dockerCall[c].worker] = dockerCall[c].n
      BY <2>2 DEF DockerIInv, DockerInvs, CallsAreTrue
    <3> QED
      BY <3>1, <1>1 DEF DockerIInv, DockerInvs, TableIsTrue
  <2> QED
    BY <2>1, <2>2 DEF DockerIInv, DockerShape, DockerCalled
<1>4. ~(dockerCall[c].n > created)
  BY <1>1, ContainerNumbers
<1>5. container[dockerCall[c].n].state # "none"
  BY <1>2, <1>4 DEF DockerIInv, DockerInvs, MadeInTurn
<1> QED
  BY <1>1, <1>2, <1>3, <1>5

(* Steps that make no container and revive none.                           *)
NothingMade ==
  /\ created' = created
  /\ \A n \in Docker!Containers :
       /\ container'[n].worker = container[n].worker
       /\ container[n].state = "gone" => container'[n].state = "gone"
       /\ container'[n].state = "none" <=> container[n].state = "none"
       /\ n > created => monitor'[n] = monitor[n] /\ disowned'[n] = disowned[n]

LEMMA NamesKeep ==
  ASSUME Docker!DockerAssumption, DockerIInv, NothingMade
  PROVE  MadeInTurn' /\ NamesAreUnique'
<1>1. MadeInTurn'
  BY DEF DockerIInv, DockerInvs, MadeInTurn, NothingMade
<1>2. NamesAreUnique'
  BY DEF DockerIInv, DockerInvs, NamesAreUnique, NothingMade
<1> QED
  BY <1>1, <1>2

LEMMA Older ==
  ASSUME Docker!DockerAssumption, NEW n \in Docker!Containers, NEW m \in 1..(n - 1)
  PROVE  m \in Docker!Containers
<1>1. n \in Int /\ n <= MaxContainers /\ MaxContainers \in Int
  BY DEF Docker!Containers, Docker!DockerAssumption
<1> QED
  BY <1>1 DEF Docker!Containers

LEMMA StillGone ==
  ASSUME Docker!DockerAssumption, DockerIInv, NothingMade,
         NEW n \in Docker!Containers, disowned[n] = "taken for an older one"
  PROVE  \E m \in 1..(n - 1) : container'[m].worker = container'[n].worker /\ container'[m].state = "gone"
<1>1. PICK m \in 1..(n - 1) : container[m].worker = container[n].worker /\ container[m].state = "gone"
  BY DEF DockerIInv, DockerInvs, TakenForGone
<1>2. m \in Docker!Containers
  BY <1>1, Older
<1> QED
  BY <1>1, <1>2 DEF NothingMade

(* A call that goes on or returns, while nothing else calls.               *)
DockerCallMoves(c) ==
  \A d \in Actors \ {c} : dockerCall[d].at = "idle" /\ dockerCall'[d] = dockerCall[d]

LEMMA ReturnKeeps ==
  ASSUME Docker!DockerAssumption, DockerIInv, NEW c \in Actors, dockerCall[c].at # "idle",
         Docker!Return(c),
         created' = created
  PROVE  /\ DockerCalled' /\ OneCall' /\ CallsAreTrue'
         /\ mu' = Docker!Nobody /\ \A n \in Docker!Containers : ~Registering(n)'
<1>1. dockerCall'[c] = Docker!Idle /\ Docker!Idle.at = "idle" /\ Docker!Idle.n = Docker!None
  BY DEF Docker!Return, DockerIInv, DockerShape, DockerCalled, Docker!Idle
<1>2. DockerCallMoves(c)
  BY DockerAlone DEF Docker!Return, DockerCallMoves, DockerIInv, DockerShape, DockerCalled
<1>3. \A d \in Actors : dockerCall'[d].at = "idle"
  BY <1>1, <1>2 DEF DockerCallMoves
<1>4. DockerCalled'
  <2>1. dockerCall' = [d \in Actors |-> dockerCall'[d]]
    BY DEF Docker!Return, DockerIInv, DockerShape, DockerCalled
  <2>2. \A d \in Actors : dockerCall'[d].n \in Nat /\ dockerCall'[d].n <= created
    BY <1>1, <1>2, ContainerNumbers
       DEF DockerIInv, DockerShape, DockerCalled, DockerCallMoves, Docker!None
  <2> QED
    BY <2>1, <2>2, <1>3 DEF DockerCalled, Docker!Return
<1>5. mu' = Docker!Nobody /\ Docker!Nobody \notin Actors
  BY DEF Docker!Return, Docker!DockerAssumption
<1>6. OneCall' /\ CallsAreTrue'
  BY <1>3, <1>5 DEF OneCall, CallsAreTrue
<1> QED
  BY <1>3, <1>4, <1>5, <1>6 DEF Registering

LEMMA DockerGoToKeeps ==
  ASSUME Docker!DockerAssumption, DockerIInv, NEW c \in Actors, dockerCall[c].at # "idle",
         NEW place \in {"start", "register", "stop", "remove"}, Docker!GoTo(c, place),
         created' = created, mu' = mu
  PROVE  /\ DockerCalled' /\ OneCall' /\ DockerCallMoves(c)
         /\ dockerCall'[c] = [at |-> place, worker |-> dockerCall[c].worker, n |-> dockerCall[c].n]
<1>1. dockerCall'[c] = [at |-> place, worker |-> dockerCall[c].worker, n |-> dockerCall[c].n]
  BY DEF Docker!GoTo, DockerIInv, DockerShape, DockerCalled
<1>2. DockerCallMoves(c)
  BY DockerAlone DEF Docker!GoTo, DockerCallMoves, DockerIInv, DockerShape, DockerCalled
<1>3. DockerCalled'
  <2>1. dockerCall' = [d \in Actors |-> dockerCall'[d]]
    BY DEF Docker!GoTo, DockerIInv, DockerShape, DockerCalled
  <2>2. \A d \in Actors : /\ dockerCall'[d].at \in {"idle", "start", "register", "stop", "remove"}
                          /\ dockerCall'[d].n \in Nat /\ dockerCall'[d].n <= created
    BY <1>1, <1>2 DEF DockerIInv, DockerShape, DockerCalled, DockerCallMoves
  <2> QED
    BY <2>1, <2>2 DEF DockerCalled, DockerIInv, DockerShape
<1>4. OneCall'
  BY <1>1, <1>2, DockerAlone DEF OneCall, DockerCallMoves
<1> QED
  BY <1>1, <1>2, <1>3, <1>4

LEMMA BecomesKeeps ==
  ASSUME DockerIInv, NEW k \in Docker!Containers, NEW state, Docker!Becomes(k, state),
         container[k].state # "none", state # "none", container[k].state = "gone" => state = "gone",
         UNCHANGED <<created, monitor>>,
         disowned' = [n \in Docker!Containers |-> disowned'[n]],
         \A n \in Docker!Containers : n > created => disowned'[n] = disowned[n]
  PROVE  /\ NothingMade /\ ContainersBoxed'
         /\ container'[k] = [worker |-> container[k].worker, state |-> state]
         /\ \A n \in Docker!Containers \ {k} : container'[n] = container[n]
<1>1. /\ container'[k] = [worker |-> container[k].worker, state |-> state]
      /\ \A n \in Docker!Containers \ {k} : container'[n] = container[n]
  BY DEF Docker!Becomes, DockerIInv, DockerShape, ContainersBoxed
<1>2. NothingMade
  BY <1>1 DEF NothingMade
<1>3. ContainersBoxed'
  BY DEF ContainersBoxed, Docker!Becomes, DockerIInv, DockerShape
<1> QED
  BY <1>1, <1>2, <1>3

-----------------------------------------------------------------------------
LEMMA StartCreatesKeeps ==
  ASSUME Docker!DockerAssumption, DockerIInv, NEW c \in Actors, NEW w \in Others, ~Docker!NameTaken(w),
         created < MaxContainers, mu = Docker!Nobody,
         created' = created + 1,
         container' = [container EXCEPT ![created + 1] = [worker |-> w, state |-> "created"]],
         \/ /\ mu' = c
            /\ dockerCall' = [dockerCall EXCEPT ![c] = [at |-> "start", worker |-> w, n |-> created + 1]]
         \/ UNCHANGED <<mu, dockerCall>>,
         UNCHANGED <<dockerTable, monitor, disowned>>
  PROVE  DockerIInv'
<1> DEFINE k == created + 1
<1>1. /\ k \in Docker!Containers /\ k \in Nat /\ k # Docker!None /\ k > created
      /\ \A n \in Docker!Containers \ {k} : container'[n] = container[n]
      /\ container'[k] = [worker |-> w, state |-> "created"]
  <2>1. k \in Docker!Containers /\ k \in Nat /\ k # Docker!None /\ k > created
    BY ContainerNumbers DEF Docker!None
  <2> QED
    BY <2>1 DEF DockerIInv, DockerShape, ContainersBoxed
<1>2. /\ DockerCallMoves(c)
      /\ \/ mu' = c /\ dockerCall'[c] = [at |-> "start", worker |-> w, n |-> k]
         \/ mu' = mu /\ dockerCall'[c] = dockerCall[c] /\ dockerCall[c].at = "idle"
  BY NobodyCalls DEF DockerIInv, DockerShape, DockerCalled, DockerCallMoves
<1>3. container[k].state = "none" /\ disowned[k] = "no" /\ monitor[k] = "off"
  BY <1>1 DEF DockerIInv, DockerInvs, MadeInTurn
<1>4. TableSized'
  BY ContainerNumbers DEF DockerIInv, DockerShape, TableSized
<1>5. ContainersBoxed'
  BY DEF DockerIInv, DockerShape, ContainersBoxed
<1>6. DockerCalled'
  <2>1. dockerCall' = [d \in Actors |-> dockerCall'[d]]
    BY DEF DockerIInv, DockerShape, DockerCalled
  <2>2. \A d \in Actors : /\ dockerCall'[d].at \in {"idle", "start", "register", "stop", "remove"}
                          /\ dockerCall'[d].n \in Nat /\ dockerCall'[d].n <= created'
    BY <1>1, <1>2, ContainerNumbers DEF DockerIInv, DockerShape, DockerCalled, DockerCallMoves
  <2> QED
    BY <1>2, <2>1, <2>2 DEF DockerCalled, DockerIInv, DockerShape
<1>7. OneCall'
  BY <1>2 DEF OneCall, DockerCallMoves, Docker!DockerAssumption
<1>8. MadeInTurn'
  <2> SUFFICES ASSUME NEW n \in Docker!Containers
               PROVE  /\ container'[n].state = "none" <=> n > k
                      /\ n <= k => container'[n].worker \in Others
                      /\ n > k => monitor[n] = "off" /\ disowned[n] = "no"
    BY DEF MadeInTurn
  <2>1. CASE n = k
    BY <2>1, <1>1
  <2>2. CASE n # k
    <3>1. n <= k <=> n <= created
      BY <2>2, ContainerNumbers
    <3>2. n > k <=> n > created
      BY <2>2, ContainerNumbers
    <3> QED
      BY <2>2, <3>1, <3>2, <1>1 DEF DockerIInv, DockerInvs, MadeInTurn
  <2> QED
    BY <2>1, <2>2
<1>9. NamesAreUnique'
  <2> SUFFICES ASSUME NEW n \in Docker!Containers, NEW m \in Docker!Containers, n < m, m <= k,
                      container'[n].worker = container'[m].worker
               PROVE  container'[n].state = "gone"
    BY DEF NamesAreUnique
  <2>1. n # k /\ ~(n > created)
    BY ContainerNumbers
  <2>2. CASE m = k
    <3>1. container[n].worker = w /\ container[n].state # "none"
      BY <2>1, <2>2, <1>1 DEF DockerIInv, DockerInvs, MadeInTurn
    <3> QED
      BY <3>1, <2>1, <1>1 DEF Docker!NameTaken
  <2>3. CASE m # k
    <3>1. m <= created
      BY <2>3, ContainerNumbers
    <3> QED
      BY <2>1, <2>3, <3>1, <1>1 DEF DockerIInv, DockerInvs, NamesAreUnique
  <2> QED
    BY <2>2, <2>3
<1>10. TableIsTrue'
  <2>1. \A v \in Others : dockerTable[v] # Docker!None => dockerTable[v] \in Docker!Containers \ {k}
    BY <1>1, ContainerNumbers
  <2> QED
    BY <2>1, <1>1 DEF DockerIInv, DockerInvs, TableIsTrue
<1>11. CallsAreTrue'
  BY <1>1, <1>2 DEF CallsAreTrue, DockerCallMoves
<1>12. RunningIsListed'
  <2>1. \A n \in Docker!Containers : ~Registering(n)
    BY NobodyCalls DEF Registering
  <2> QED
    BY <2>1, <1>1 DEF DockerIInv, DockerInvs, RunningIsListed
<1>13. TakenForGone'
  <2> SUFFICES ASSUME NEW n \in Docker!Containers, disowned[n] = "taken for an older one"
               PROVE  \E m \in 1..(n - 1) : /\ container'[m].worker = container'[n].worker
                                            /\ container'[m].state = "gone"
    BY DEF TakenForGone
  <2>1. PICK m \in 1..(n - 1) : container[m].worker = container[n].worker /\ container[m].state = "gone"
    BY DEF DockerIInv, DockerInvs, TakenForGone
  <2>2. m \in Docker!Containers
    BY <2>1, Older
  <2>3. m # k /\ n # k
    BY <2>1, <1>3
  <2> QED
    BY <2>1, <2>2, <2>3, <1>1
<1> QED
  BY <1>4, <1>5, <1>6, <1>7, <1>8, <1>9, <1>10, <1>11, <1>12, <1>13
     DEF DockerIInv, DockerInvs, DockerShape

(* A container that docker starts, by a call that goes on or is told that  *)
(* it has failed.                                                          *)
StartGoesOn(c) == Docker!GoTo(c, "register") /\ UNCHANGED <<mu, disowned>>
StartIsTold(c) ==
  Docker!Return(c) /\ disowned' = [disowned EXCEPT ![dockerCall[c].n] = "start failed"]

LEMMA StartRunsKeeps ==
  ASSUME Docker!DockerAssumption, DockerIInv, NEW c \in Actors, dockerCall[c].at = "start",
         container[dockerCall[c].n].state = "created", Docker!Becomes(dockerCall[c].n, "running"),
         UNCHANGED <<created, dockerTable, monitor>>,
         StartGoesOn(c) \/ StartIsTold(c)
  PROVE  DockerIInv'
<1> DEFINE k == dockerCall[c].n
<1>0. created' = created /\ dockerTable' = dockerTable /\ monitor' = monitor
  OBVIOUS
<1>1. /\ k \in Docker!Containers /\ k # Docker!None /\ k <= created
      /\ container[k].worker = dockerCall[c].worker /\ dockerCall[c].worker \in Others /\ k = created
  BY CallKnows DEF DockerIInv, DockerInvs, CallsAreTrue
<1>2. TableSized'
  BY DEF DockerIInv, DockerShape, TableSized
<1>3. /\ disowned' = [n \in Docker!Containers |-> disowned'[n]]
      /\ \A n \in Docker!Containers \ {k} : disowned'[n] = disowned[n]
      /\ disowned'[k] \in {disowned[k], "start failed"}
  BY <1>1 DEF DockerIInv, DockerShape, ContainersBoxed, StartGoesOn, StartIsTold
<1>4. \A n \in Docker!Containers : n > created => disowned'[n] = disowned[n]
  <2>1. created \in Nat /\ ~(created > created)
    BY ContainerNumbers
  <2> QED
    BY <1>1, <1>3, <2>1
<1>5. /\ NothingMade /\ ContainersBoxed'
      /\ container'[k] = [worker |-> container[k].worker, state |-> "running"]
      /\ \A n \in Docker!Containers \ {k} : container'[n] = container[n]
  BY <1>1, <1>3, <1>4, BecomesKeeps
<1>6. MadeInTurn' /\ NamesAreUnique'
  BY <1>5, NamesKeep
<1>7. TableIsTrue'
  <2>1. \A w \in Others : dockerTable[w] # Docker!None => dockerTable[w] \in Docker!Containers
    BY ContainerNumbers
  <2> QED
    BY <2>1, <1>0, <1>5 DEF DockerIInv, DockerInvs, TableIsTrue, NothingMade
<1>8. TakenForGone'
  <2>1. \A n \in Docker!Containers : disowned'[n] = "taken for an older one" =>
          disowned[n] = "taken for an older one"
    BY <1>3
  <2> QED
    BY <2>1, <1>5, StillGone DEF TakenForGone
<1>9. \A n \in Docker!Containers \ {k} : container'[n].state = "running" =>
        dockerTable[container'[n].worker] = n \/ disowned'[n] # "no"
  <2>1. \A n \in Docker!Containers : ~Registering(n)
    BY DockerAlone DEF Registering
  <2> QED
    BY <2>1, <1>3, <1>5 DEF DockerIInv, DockerInvs, RunningIsListed
<1>10. CASE StartGoesOn(c)
  <2>1. /\ DockerCalled' /\ OneCall' /\ DockerCallMoves(c)
        /\ dockerCall'[c] = [at |-> "register", worker |-> dockerCall[c].worker, n |-> k]
    BY <1>1, <1>10, DockerGoToKeeps DEF StartGoesOn
  <2>2. CallsAreTrue'
    <3>1. container'[k].worker = dockerCall[c].worker /\ k = created'
      BY <1>0, <1>1, <1>5
    <3> HIDE DEF k
    <3> QED
      BY <1>1, <2>1, <3>1 DEF CallsAreTrue, DockerCallMoves
  <2>3. RunningIsListed'
    <3>1. \E d \in Actors : dockerCall'[d].at = "register" /\ dockerCall'[d].n = k
      BY <2>1
    <3> HIDE DEF k
    <3>2. ASSUME NEW n \in Docker!Containers, container'[n].state = "running"
          PROVE  \/ dockerTable'[container'[n].worker] = n
                 \/ disowned'[n] # "no"
                 \/ \E d \in Actors : dockerCall'[d].at = "register" /\ dockerCall'[d].n = n
      <4>1. CASE n = k
        BY <3>1, <4>1
      <4>2. CASE n # k
        BY <1>0, <1>9, <3>2, <4>2
      <4> QED
        BY <4>1, <4>2
    <3> QED
      BY <3>2 DEF RunningIsListed, Registering
  <2> QED
    BY <1>2, <1>5, <1>6, <1>7, <1>8, <2>1, <2>2, <2>3 DEF DockerIInv, DockerInvs, DockerShape
<1>11. CASE StartIsTold(c)
  <2>1. /\ DockerCalled' /\ OneCall' /\ CallsAreTrue'
    BY <1>11, ReturnKeeps DEF StartIsTold
  <2>2. disowned'[k] = "start failed"
    BY <1>1, <1>11 DEF DockerIInv, DockerShape, ContainersBoxed, StartIsTold
  <2>3. RunningIsListed'
    BY <1>0, <1>9, <2>2 DEF RunningIsListed
  <2> QED
    BY <1>2, <1>5, <1>6, <1>7, <1>8, <2>1, <2>3 DEF DockerIInv, DockerInvs, DockerShape
<1> QED
  BY <1>10, <1>11

LEMMA StartStartsKeeps ==
  ASSUME Docker!DockerAssumption, DockerIInv, NEW c \in Actors, Docker!StartStarts(c)
  PROVE  DockerIInv'
<1>1. dockerCall[c].at = "start" /\ UNCHANGED <<created, dockerTable, monitor>>
  BY DEF Docker!StartStarts
<1>2. CASE UNCHANGED <<container, disowned>> /\ Docker!Return(c)
  <2>1. /\ DockerCalled' /\ OneCall' /\ CallsAreTrue'
    BY <1>1, <1>2, ReturnKeeps
  <2>2. TableSized' /\ ContainersBoxed' /\ MadeInTurn'
    BY <1>1, <1>2 DEF DockerIInv, DockerInvs, DockerShape, TableSized, ContainersBoxed, MadeInTurn
  <2>3. NamesAreUnique' /\ TableIsTrue' /\ TakenForGone'
    BY <1>1, <1>2 DEF DockerIInv, DockerInvs, NamesAreUnique, TableIsTrue, TakenForGone
  <2>4. RunningIsListed'
    <3>1. \A n \in Docker!Containers : ~Registering(n)
      BY <1>1, DockerAlone DEF Registering
    <3> QED
      BY <3>1, <1>1, <1>2 DEF DockerIInv, DockerInvs, RunningIsListed
  <2> QED
    BY <2>1, <2>2, <2>3, <2>4 DEF DockerIInv, DockerInvs, DockerShape
<1> QED
  BY <1>1, <1>2, StartRunsKeeps DEF Docker!StartStarts, StartGoesOn, StartIsTold

LEMMA StartRegistersKeeps ==
  ASSUME Docker!DockerAssumption, DockerIInv, NEW c \in Actors, Docker!StartRegisters(c)
  PROVE  DockerIInv'
<1> DEFINE k == dockerCall[c].n
           w == dockerCall[c].worker
<1>1. /\ k \in Docker!Containers /\ k <= created /\ k # Docker!None /\ w \in Others
      /\ dockerCall[c].at = "register"
      /\ container[k].worker = w /\ k = created
  BY CallKnows DEF Docker!StartRegisters, DockerIInv, DockerInvs, CallsAreTrue
<1>2. /\ dockerTable'[w] = k
      /\ \A v \in Others \ {w} : dockerTable'[v] = dockerTable[v]
  BY <1>1 DEF Docker!StartRegisters, DockerIInv, DockerShape, TableSized
<1>3. /\ DockerCalled' /\ OneCall' /\ CallsAreTrue'
      /\ created' = created
  BY <1>1, ReturnKeeps DEF Docker!StartRegisters
<1>4. TableSized'
  <2>1. dockerTable' = [v \in Others |-> dockerTable'[v]]
    BY DEF DockerIInv, DockerShape, TableSized, Docker!StartRegisters
  <2>2. \A v \in Others : dockerTable'[v] \in Nat /\ dockerTable'[v] <= created
    BY <1>1, <1>2, ContainerNumbers DEF DockerIInv, DockerShape, TableSized
  <2> QED
    BY <2>1, <2>2, <1>3, ContainerNumbers DEF TableSized
<1>5. ContainersBoxed'
  BY DEF DockerIInv, DockerShape, ContainersBoxed, Docker!StartRegisters
<1>6. MadeInTurn' /\ NamesAreUnique'
  <2>1. \A n \in Docker!Containers : n > created => monitor'[n] = monitor[n]
    <3>1. \A n \in Docker!Containers \ {k} : monitor'[n] = monitor[n]
      BY DEF DockerIInv, DockerShape, ContainersBoxed, Docker!StartRegisters
    <3>2. ~(k > created)
      BY <1>1, ContainerNumbers
    <3> QED
      BY <3>1, <3>2
  <2> QED
    BY <2>1, NamesKeep DEF NothingMade, Docker!StartRegisters
<1>7. TableIsTrue'
  <2>1. monitor'[k] = "watching" /\ \A n \in Docker!Containers \ {k} : monitor'[n] = monitor[n]
    BY <1>1 DEF DockerIInv, DockerShape, ContainersBoxed, Docker!StartRegisters
  <2>2. \A v \in Others : dockerTable[v] # Docker!None => dockerTable[v] \in Docker!Containers
    BY ContainerNumbers
  <2> QED
    BY <1>1, <1>2, <2>1, <2>2 DEF DockerIInv, DockerInvs, TableIsTrue, Docker!StartRegisters
<1>8. RunningIsListed'
  <2> SUFFICES ASSUME NEW n \in Docker!Containers, container[n].state = "running"
               PROVE  dockerTable'[container[n].worker] = n \/ disowned[n] # "no"
    BY DEF RunningIsListed, Docker!StartRegisters
  <2>1. CASE n = k
    BY <2>1, <1>1, <1>2
  <2>2. CASE n # k
    <3>1. ~Registering(n)
      BY <2>2, <1>1, DockerAlone DEF Registering
    <3>2. CASE dockerTable[container[n].worker] = n
      <4>1. n # Docker!None /\ container[n].worker \in Others
        <5>1. ~(n > created) /\ n # Docker!None
          BY ContainerNumbers DEF DockerIInv, DockerInvs, MadeInTurn, Docker!None
        <5> QED
          BY <5>1, ContainerNumbers DEF DockerIInv, DockerInvs, MadeInTurn
      <4>2. container[n].worker # w
        <5>1. n < k
          <6>1. ~(n > created)
            BY DEF DockerIInv, DockerInvs, MadeInTurn
          <6>2. n \in Nat /\ created \in Nat
            BY ContainerNumbers
          <6> QED
            BY <2>2, <1>1, <6>1, <6>2
        <5>2. container[n].worker = w => container[n].state = "gone"
          BY <1>1, <5>1 DEF DockerIInv, DockerInvs, NamesAreUnique
        <5> QED
          BY <5>2
      <4> QED
        BY <3>2, <4>1, <4>2, <1>2
    <3> QED
      BY <3>1, <3>2 DEF DockerIInv, DockerInvs, RunningIsListed
  <2> QED
    BY <2>1, <2>2
<1>9. TakenForGone'
  BY DEF DockerIInv, DockerInvs, TakenForGone, Docker!StartRegisters
<1> QED
  BY <1>3, <1>4, <1>5, <1>6, <1>7, <1>8, <1>9 DEF DockerIInv, DockerInvs, DockerShape

-----------------------------------------------------------------------------
LEMMA StopBeginsKeeps ==
  ASSUME Docker!DockerAssumption, DockerIInv, NEW c \in Actors, NEW w \in Others,
         Docker!StopBegins(c, w)
  PROVE  DockerIInv'
<1>1. /\ mu = Docker!Nobody
      /\ UNCHANGED <<container, created, dockerTable, monitor, disowned>>
  BY DEF Docker!StopBegins
<1>2. TableSized' /\ ContainersBoxed' /\ MadeInTurn' /\ NamesAreUnique' /\ TableIsTrue' /\ TakenForGone'
  BY <1>1
     DEF DockerIInv, DockerInvs, DockerShape, TableSized, ContainersBoxed, MadeInTurn, NamesAreUnique,
         TableIsTrue, TakenForGone
<1>3. RunningIsListed'
  <2>1. \A n \in Docker!Containers : ~Registering(n)
    BY <1>1, NobodyCalls DEF Registering
  <2> QED
    BY <1>1, <2>1 DEF DockerIInv, DockerInvs, RunningIsListed
<1>4. DockerCalled' /\ OneCall' /\ CallsAreTrue'
  <2>1. CASE UNCHANGED <<mu, dockerCall>>
    BY <1>1, <2>1 DEF DockerIInv, DockerInvs, DockerShape, DockerCalled, OneCall, CallsAreTrue
  <2>2. CASE /\ dockerTable[w] # Docker!None /\ mu' = c
             /\ dockerCall' = [dockerCall EXCEPT ![c] = [at |-> "stop", worker |-> w, n |-> dockerTable[w]]]
    <3>1. /\ DockerCallMoves(c)
          /\ dockerCall'[c] = [at |-> "stop", worker |-> w, n |-> dockerTable[w]]
      BY <1>1, <2>2, NobodyCalls DEF DockerIInv, DockerShape, DockerCalled, DockerCallMoves
    <3>2. dockerCall' = [d \in Actors |-> dockerCall'[d]]
      BY <2>2 DEF DockerIInv, DockerShape, DockerCalled
    <3>3. \A d \in Actors : /\ dockerCall'[d].at \in {"idle", "start", "register", "stop", "remove"}
                            /\ dockerCall'[d].n \in Nat /\ dockerCall'[d].n <= created
      BY <3>1 DEF DockerIInv, DockerShape, TableSized, DockerCalled, DockerCallMoves
    <3>4. DockerCalled'
      BY <1>1, <2>2, <3>2, <3>3 DEF DockerCalled
    <3>5. OneCall' /\ CallsAreTrue'
      BY <1>1, <2>2, <3>1 DEF OneCall, CallsAreTrue, DockerCallMoves
    <3> QED
      BY <3>4, <3>5
  <2> QED
    BY <2>1, <2>2 DEF Docker!StopBegins
<1> QED
  BY <1>2, <1>3, <1>4 DEF DockerIInv, DockerInvs, DockerShape

LEMMA StopStopsKeeps ==
  ASSUME Docker!DockerAssumption, DockerIInv, NEW c \in Actors, Docker!StopStops(c)
  PROVE  DockerIInv'
<1> DEFINE k == dockerCall[c].n
<1>0. UNCHANGED <<created, dockerTable, monitor, disowned>>
  BY DEF Docker!StopStops
<1>1. /\ k \in Docker!Containers /\ dockerCall[c].at = "stop" /\ k # Docker!None
      /\ dockerCall[c].worker \in Others
      /\ container[k].state # "none"
      /\ dockerTable[dockerCall[c].worker] = k
  BY CallKnows DEF Docker!StopStops, DockerIInv, DockerInvs, CallsAreTrue
<1>2. /\ DockerCalled' /\ OneCall' /\ DockerCallMoves(c)
      /\ dockerCall'[c] = [at |-> "remove", worker |-> dockerCall[c].worker, n |-> k]
  BY <1>1, DockerGoToKeeps DEF Docker!StopStops
<1>3. CallsAreTrue'
  BY <1>1, <1>2 DEF CallsAreTrue, DockerCallMoves, Docker!StopStops
<1>4. TableSized'
  BY DEF DockerIInv, DockerShape, TableSized, Docker!StopStops
<1>5. \A n \in Docker!Containers : ~Registering(n)
  BY <1>1, DockerAlone DEF Registering
<1>6. CASE container[k].state = "running" /\ Docker!Becomes(k, "exited")
  <2>1. /\ NothingMade /\ ContainersBoxed'
        /\ container'[k] = [worker |-> container[k].worker, state |-> "exited"]
        /\ \A n \in Docker!Containers \ {k} : container'[n] = container[n]
    BY <1>1, <1>6, BecomesKeeps DEF Docker!StopStops, DockerIInv, DockerShape, ContainersBoxed
  <2>2. MadeInTurn' /\ NamesAreUnique'
    BY <2>1, NamesKeep
  <2>3. TableIsTrue'
    <3>1. \A w \in Others : dockerTable[w] # Docker!None => dockerTable[w] \in Docker!Containers
      BY ContainerNumbers
    <3> QED
      BY <3>1, <1>0, <2>1 DEF DockerIInv, DockerInvs, TableIsTrue
  <2>4. RunningIsListed'
    BY <1>5, <2>1 DEF DockerIInv, DockerInvs, RunningIsListed, Docker!StopStops
  <2>5. TakenForGone'
    BY <2>1, StillGone DEF TakenForGone, Docker!StopStops
  <2> QED
    BY <1>2, <1>3, <1>4, <2>1, <2>2, <2>3, <2>4, <2>5 DEF DockerIInv, DockerInvs, DockerShape
<1>7. CASE UNCHANGED container
  <2>1. ContainersBoxed' /\ MadeInTurn' /\ NamesAreUnique' /\ TableIsTrue' /\ TakenForGone'
    BY <1>0, <1>7
       DEF DockerIInv, DockerInvs, DockerShape, ContainersBoxed, MadeInTurn, NamesAreUnique,
           TableIsTrue, TakenForGone
  <2>2. RunningIsListed'
    BY <1>5, <1>7 DEF DockerIInv, DockerInvs, RunningIsListed, Docker!StopStops
  <2> QED
    BY <1>2, <1>3, <1>4, <2>1, <2>2 DEF DockerIInv, DockerInvs, DockerShape
<1> QED
  BY <1>6, <1>7 DEF Docker!StopStops

(* Stop takes the instance out of the table whether or not its container   *)
(* could be removed; a container that still runs is then marked.           *)
LEMMA StopRemovesKeeps ==
  ASSUME Docker!DockerAssumption, DockerIInv, NEW c \in Actors, Docker!StopRemoves(c)
  PROVE  DockerIInv'
<1> DEFINE k == dockerCall[c].n
           w == dockerCall[c].worker
<1>0. created' = created /\ monitor' = monitor
  BY DEF Docker!StopRemoves
<1>1. /\ k \in Docker!Containers /\ dockerCall[c].at = "remove" /\ k # Docker!None /\ w \in Others
      /\ container[k].worker = w /\ container[k].state # "none"
      /\ dockerTable[w] = k
      /\ \A n \in Docker!Containers : ~Registering(n)
  BY CallKnows, DockerAlone DEF Docker!StopRemoves, DockerIInv, DockerInvs, CallsAreTrue, Registering
<1>2. /\ dockerTable'[w] = Docker!None
      /\ \A v \in Others \ {w} : dockerTable'[v] = dockerTable[v]
  BY <1>1 DEF Docker!StopRemoves, DockerIInv, DockerShape, TableSized
<1>3. /\ DockerCalled' /\ OneCall' /\ CallsAreTrue'
  BY <1>1, ReturnKeeps DEF Docker!StopRemoves
<1>4. TableSized'
  <2>1. dockerTable' = [v \in Others |-> dockerTable'[v]]
    BY DEF DockerIInv, DockerShape, TableSized, Docker!StopRemoves
  <2>2. \A v \in Others : dockerTable'[v] \in Nat /\ dockerTable'[v] <= created
    BY <1>2, ContainerNumbers DEF DockerIInv, DockerShape, TableSized, Docker!None
  <2> QED
    BY <2>1, <2>2, ContainerNumbers DEF TableSized, Docker!StopRemoves
<1>5. \A v \in Others \ {w} : dockerTable[v] # Docker!None => dockerTable[v] \in Docker!Containers \ {k}
  BY <1>1, ContainerNumbers DEF DockerIInv, DockerInvs, TableIsTrue
<1>6. \A n \in Docker!Containers \ {k} : container[n].state = "running" =>
        dockerTable'[container[n].worker] = n \/ disowned[n] # "no"
  <2> SUFFICES ASSUME NEW n \in Docker!Containers \ {k}, container[n].state = "running",
                      dockerTable[container[n].worker] = n
               PROVE  dockerTable'[container[n].worker] = n
    BY <1>1 DEF DockerIInv, DockerInvs, RunningIsListed
  <2>1. ~(n > created)
    BY DEF DockerIInv, DockerInvs, MadeInTurn
  <2>2. container[n].worker \in Others
    BY <2>1, ContainerNumbers DEF DockerIInv, DockerInvs, MadeInTurn
  <2> QED
    BY <2>2, <1>1, <1>2
<1>7. CASE Docker!Becomes(k, "gone") /\ UNCHANGED disowned
  <2>1. /\ NothingMade /\ ContainersBoxed'
        /\ container'[k] = [worker |-> container[k].worker, state |-> "gone"]
        /\ \A n \in Docker!Containers \ {k} : container'[n] = container[n]
    BY <1>1, <1>7, BecomesKeeps DEF Docker!StopRemoves, DockerIInv, DockerShape, ContainersBoxed
  <2>2. MadeInTurn' /\ NamesAreUnique'
    BY <2>1, NamesKeep
  <2>3. TableIsTrue'
    BY <1>0, <1>2, <1>5, <2>1 DEF DockerIInv, DockerInvs, TableIsTrue
  <2>4. RunningIsListed'
    BY <1>6, <1>7, <2>1 DEF RunningIsListed
  <2>5. TakenForGone'
    BY <1>7, <2>1, StillGone DEF TakenForGone
  <2> QED
    BY <1>3, <1>4, <2>1, <2>2, <2>3, <2>4, <2>5 DEF DockerIInv, DockerInvs, DockerShape
<1>8. CASE /\ UNCHANGED container
           /\ \/ container[k].state # "running" /\ UNCHANGED disowned
              \/ disowned' = [disowned EXCEPT ![k] = "not stopped"]
  <2>1. /\ \A n \in Docker!Containers \ {k} : disowned'[n] = disowned[n]
        /\ container[k].state = "running" => disowned'[k] = "not stopped"
        /\ disowned'[k] # disowned[k] => disowned'[k] = "not stopped"
    BY <1>1, <1>8 DEF DockerIInv, DockerShape, ContainersBoxed
  <2>2. ContainersBoxed'
    BY <1>8 DEF DockerIInv, DockerShape, ContainersBoxed, Docker!StopRemoves
  <2>3. MadeInTurn' /\ NamesAreUnique'
    <3>1. ~(k > created)
      BY <1>1 DEF DockerIInv, DockerInvs, MadeInTurn
    <3> QED
      BY <1>8, <2>1, <3>1, NamesKeep DEF NothingMade, Docker!StopRemoves
  <2>4. TableIsTrue'
    BY <1>0, <1>2, <1>8 DEF DockerIInv, DockerInvs, TableIsTrue
  <2>5. RunningIsListed'
    BY <1>6, <1>8, <2>1 DEF RunningIsListed
  <2>6. TakenForGone'
    BY <1>8, <2>1 DEF DockerIInv, DockerInvs, TakenForGone
  <2> QED
    BY <1>3, <1>4, <2>2, <2>3, <2>4, <2>5, <2>6 DEF DockerIInv, DockerInvs, DockerShape
<1> QED
  BY <1>7, <1>8 DEF Docker!StopRemoves

-----------------------------------------------------------------------------
LEMMA InspectKeeps ==
  ASSUME Docker!DockerAssumption, DockerIInv, NEW k \in Docker!Containers, Docker!Inspect(k)
  PROVE  DockerIInv'
<1>1. /\ UNCHANGED <<container, created, dockerTable, mu, dockerCall, disowned>>
      /\ monitor[k] # "off" /\ monitor'[k] = "removing" /\ \A n \in Docker!Containers \ {k} : monitor'[n] = monitor[n]
  BY DEF Docker!Inspect, DockerIInv, DockerShape, ContainersBoxed
<1>2. TableSized' /\ DockerCalled' /\ OneCall' /\ TableIsTrue' /\ CallsAreTrue' /\ TakenForGone'
  <2>1. \A w \in Others : dockerTable[w] # Docker!None => dockerTable[w] \in Docker!Containers
    BY ContainerNumbers
  <2> QED
    BY <1>1, <2>1
       DEF DockerIInv, DockerInvs, DockerShape, TableSized, DockerCalled, OneCall, TableIsTrue,
           CallsAreTrue, TakenForGone
<1>3. RunningIsListed'
  BY <1>1 DEF DockerIInv, DockerInvs, RunningIsListed, Registering
<1>4. ContainersBoxed'
  BY DEF DockerIInv, DockerShape, ContainersBoxed, Docker!Inspect
<1>5. MadeInTurn' /\ NamesAreUnique'
  <2>1. ~(k > created)
    BY <1>1 DEF DockerIInv, DockerInvs, MadeInTurn
  <2> QED
    BY <1>1, <2>1, NamesKeep DEF NothingMade
<1> QED
  BY <1>2, <1>3, <1>4, <1>5 DEF DockerIInv, DockerInvs, DockerShape

(* The watcher of k drops the entry of its worker. When that is a newer    *)
(* instance m, the name of k was free again, so k is gone.                 *)
LEMMA RemoveKeeps ==
  ASSUME Docker!DockerAssumption, DockerIInv, NEW k \in Docker!Containers, Docker!Remove(k)
  PROVE  DockerIInv'
<1> DEFINE w == container[k].worker
           m == dockerTable[w]
<1>1. /\ k <= created /\ w \in Others /\ mu = Docker!Nobody
      /\ \A n \in Docker!Containers : ~Registering(n)
  <2>1. ~(k > created)
    BY DEF Docker!Remove, DockerIInv, DockerInvs, MadeInTurn
  <2>2. k <= created
    BY <2>1, ContainerNumbers
  <2> QED
    BY <2>2, NobodyCalls DEF Docker!Remove, DockerIInv, DockerInvs, MadeInTurn, Registering
<1>2. /\ dockerTable'[w] = Docker!None
      /\ \A v \in Others \ {w} : dockerTable'[v] = dockerTable[v]
      /\ UNCHANGED <<container, created, mu, dockerCall>>
  BY <1>1 DEF Docker!Remove, DockerIInv, DockerShape, TableSized
<1>3. m # Docker!None => m \in Docker!Containers /\ m <= created /\ container[m].worker = w
  BY <1>1, ContainerNumbers DEF DockerIInv, DockerInvs, TableIsTrue
<1>4. /\ disowned' = [n \in Docker!Containers |-> disowned'[n]]
      /\ \A n \in Docker!Containers :
           \/ disowned'[n] = disowned[n] /\ (n # m \/ container[n].state # "running")
           \/ disowned'[n] = "not inspected" /\ n = m
           \/ disowned'[n] = "taken for an older one" /\ n = m /\ n # k /\ container[n].state = "running"
  <2>1. CASE (m = Docker!None \/ container[m].state # "running") /\ disowned' = disowned
    <3>1. \A n \in Docker!Containers : n # Docker!None
      BY ContainerNumbers DEF Docker!None
    <3> QED
      BY <2>1, <3>1 DEF DockerIInv, DockerShape, ContainersBoxed
  <2>2. CASE /\ m # Docker!None /\ container[m].state = "running"
             /\ disowned' = [disowned EXCEPT ![m] = IF m = k THEN "not inspected"
                                                             ELSE "taken for an older one"]
    BY <2>2, <1>3 DEF DockerIInv, DockerShape, ContainersBoxed
  <2> QED
    BY <2>1, <2>2 DEF Docker!Remove
<1>5. TableSized'
  <2>1. dockerTable' = [v \in Others |-> dockerTable'[v]]
    BY DEF DockerIInv, DockerShape, TableSized, Docker!Remove
  <2>2. \A v \in Others : dockerTable'[v] \in Nat /\ dockerTable'[v] <= created
    BY <1>2, ContainerNumbers DEF DockerIInv, DockerShape, TableSized, Docker!None
  <2> QED
    BY <2>1, <2>2, <1>2, ContainerNumbers DEF TableSized
<1>6. ContainersBoxed'
  BY <1>2, <1>4 DEF DockerIInv, DockerShape, ContainersBoxed, Docker!Remove
<1>7. DockerCalled' /\ OneCall'
  BY <1>2 DEF DockerIInv, DockerInvs, DockerShape, DockerCalled, OneCall
<1>8. TableIsTrue'
  <2>1. \A v \in Others \ {w} : dockerTable[v] # Docker!None => dockerTable[v] \in Docker!Containers \ {k}
    BY ContainerNumbers DEF DockerIInv, DockerInvs, TableIsTrue
  <2>2. \A n \in Docker!Containers \ {k} : monitor'[n] = monitor[n]
    BY DEF Docker!Remove, DockerIInv, DockerShape, ContainersBoxed
  <2> QED
    BY <1>2, <2>1, <2>2 DEF DockerIInv, DockerInvs, TableIsTrue
<1>9. CallsAreTrue'
  BY <1>1, <1>2, NobodyCalls DEF CallsAreTrue
<1>10. MadeInTurn' /\ NamesAreUnique'
  <2>1. \A n \in Docker!Containers : n > created =>
          monitor'[n] = monitor[n] /\ disowned'[n] = disowned[n]
    <3> SUFFICES ASSUME NEW n \in Docker!Containers, n > created
                 PROVE  monitor'[n] = monitor[n] /\ disowned'[n] = disowned[n]
      OBVIOUS
    <3>1. n # k
      BY <1>1, ContainerNumbers
    <3>2. n # m
      BY <1>1, ContainerNumbers DEF DockerIInv, DockerShape, TableSized
    <3> QED
      BY <3>1, <3>2, <1>4 DEF Docker!Remove, DockerIInv, DockerShape, ContainersBoxed
  <2> QED
    BY <1>2, <2>1, NamesKeep DEF NothingMade
<1>11. RunningIsListed'
  <2> SUFFICES ASSUME NEW n \in Docker!Containers, container[n].state = "running"
               PROVE  dockerTable'[container[n].worker] = n \/ disowned'[n] # "no"
    BY <1>2 DEF RunningIsListed
  <2>1. CASE n = m
    BY <2>1, <1>4
  <2>2. CASE n # m
    <3>1. ~(n > created)
      BY DEF DockerIInv, DockerInvs, MadeInTurn
    <3>2. container[n].worker \in Others
      BY <3>1, ContainerNumbers DEF DockerIInv, DockerInvs, MadeInTurn
    <3>3. dockerTable[container[n].worker] = n \/ disowned[n] # "no"
      BY <1>1 DEF DockerIInv, DockerInvs, RunningIsListed
    <3>4. disowned'[n] = disowned[n]
      BY <2>2, <1>4
    <3> QED
      BY <2>2, <3>2, <3>3, <3>4, <1>2
  <2> QED
    BY <2>1, <2>2
<1>12. TakenForGone'
  <2>1. ASSUME NEW n \in Docker!Containers, n = m, n # k, container[n].state = "running"
        PROVE  \E o \in 1..(n - 1) : container[o].worker = container[n].worker
                                     /\ container[o].state = "gone"
    <3>1. m # Docker!None
      <4>1. n # Docker!None
        BY DEF Docker!Containers, Docker!DockerAssumption, Docker!None
      <4> QED
        BY <2>1, <4>1
    <3>2. n <= created /\ container[n].worker = w
      BY <2>1, <3>1, <1>3
    <3>3. n \in Int /\ k \in Int /\ created \in Int
      BY ContainerNumbers
    <3>4. k < n
      <4>1. ~(n < k)
        <5>1. n < k => container[n].state = "gone"
          BY <3>2, <1>1 DEF DockerIInv, DockerInvs, NamesAreUnique
        <5> QED
          BY <5>1, <2>1
      <4>2. n # k
        BY <2>1
      <4> QED
        BY <4>1, <4>2, <3>3
    <3>5. container[k].state = "gone"
      BY <3>2, <3>4 DEF DockerIInv, DockerInvs, NamesAreUnique
    <3>6. k \in 1..(n - 1)
      BY <3>4 DEF Docker!Containers, Docker!DockerAssumption
    <3> QED
      BY <3>2, <3>5, <3>6
  <2> QED
    BY <2>1, <1>2, <1>4 DEF DockerIInv, DockerInvs, TakenForGone
<1> QED
  BY <1>5, <1>6, <1>7, <1>8, <1>9, <1>10, <1>11, <1>12 DEF DockerIInv, DockerInvs, DockerShape

(* A container that ends or is removed, whatever calls are under way.      *)
LEMMA EndsKeeps ==
  ASSUME Docker!DockerAssumption, DockerIInv, NEW k \in Docker!Containers, NEW state \in {"exited", "gone"},
         Docker!Becomes(k, state), container[k].state # "none", container[k].state # "gone",
         UNCHANGED <<created, dockerTable, monitor, mu, dockerCall, disowned>>
  PROVE  DockerIInv'
<1>1. /\ NothingMade /\ ContainersBoxed'
      /\ container'[k] = [worker |-> container[k].worker, state |-> state]
      /\ \A n \in Docker!Containers \ {k} : container'[n] = container[n]
  BY BecomesKeeps DEF DockerIInv, DockerShape, ContainersBoxed
<1>2. TableSized' /\ DockerCalled' /\ OneCall'
  BY DEF DockerIInv, DockerInvs, DockerShape, TableSized, DockerCalled, OneCall
<1>3. MadeInTurn' /\ NamesAreUnique'
  BY <1>1, NamesKeep
<1>4. TableIsTrue'
  <2>1. \A w \in Others : dockerTable[w] # Docker!None => dockerTable[w] \in Docker!Containers
    BY ContainerNumbers
  <2> QED
    BY <2>1, <1>1 DEF DockerIInv, DockerInvs, TableIsTrue
<1>5. CallsAreTrue'
  <2>1. \A c \in Actors : dockerCall[c].at \in {"start", "register"} =>
          dockerCall[c].n \in Docker!Containers
    BY CallKnows
  <2> QED
    BY <2>1, <1>1 DEF DockerIInv, DockerInvs, CallsAreTrue
<1>6. RunningIsListed'
  BY <1>1 DEF DockerIInv, DockerInvs, RunningIsListed, Registering
<1>7. TakenForGone'
  BY <1>1, StillGone DEF TakenForGone
<1> QED
  BY <1>1, <1>2, <1>3, <1>4, <1>5, <1>6, <1>7 DEF DockerIInv, DockerInvs, DockerShape

(* A restart forgets what it knew, and disowns what runs.                  *)
LEMMA RestartKeeps == ASSUME Docker!DockerAssumption, DockerIInv, Docker!Restart PROVE DockerIInv'
<1>1. /\ \A w \in Others : dockerTable'[w] = Docker!None
      /\ \A c \in Actors : dockerCall'[c].at = "idle" /\ dockerCall'[c].n = Docker!None
      /\ mu' = Docker!Nobody /\ Docker!Nobody \notin Actors
      /\ container' = container /\ created' = created
  BY DEF Docker!Restart, Docker!Idle, Docker!DockerAssumption
<1>2. \A n \in Docker!Containers :
        /\ monitor[n] = "off" => monitor'[n] = "off"
        /\ container[n].state = "running" => disowned'[n] # "no"
        /\ container[n].state # "running" => disowned'[n] = disowned[n]
        /\ disowned'[n] = "taken for an older one" => disowned[n] = "taken for an older one"
  BY DEF Docker!Restart
<1>3. TableSized' /\ ContainersBoxed'
  <2>1. dockerTable' = [w \in Others |-> dockerTable'[w]]
    BY DEF Docker!Restart
  <2>2. monitor' = [n \in Docker!Containers |-> monitor'[n]] /\ disowned' = [n \in Docker!Containers |-> disowned'[n]]
    BY DEF Docker!Restart
  <2>3. created' \in 0..MaxContainers
    BY <1>1 DEF DockerIInv, DockerShape, TableSized
  <2>4. \A w \in Others : dockerTable'[w] \in Nat /\ dockerTable'[w] <= created'
    BY <1>1, <2>3 DEF Docker!None
  <2>5. TableSized'
    BY <2>1, <2>3, <2>4 DEF TableSized
  <2>6. ContainersBoxed'
    BY <1>1, <2>2 DEF DockerIInv, DockerShape, ContainersBoxed
  <2> QED
    BY <2>5, <2>6
<1>4. DockerCalled'
  <2>1. dockerCall' = [c \in Actors |-> dockerCall'[c]]
    BY DEF Docker!Restart
  <2>2. created' \in Nat
    BY <1>1, ContainerNumbers
  <2> QED
    BY <1>1, <2>1, <2>2 DEF DockerCalled, Docker!None
<1>5. OneCall' /\ TableIsTrue' /\ CallsAreTrue'
  BY <1>1 DEF OneCall, TableIsTrue, CallsAreTrue
<1>6. MadeInTurn' /\ NamesAreUnique'
  BY <1>1, <1>2 DEF DockerIInv, DockerInvs, MadeInTurn, NamesAreUnique
<1>7. RunningIsListed' /\ TakenForGone'
  BY <1>1, <1>2 DEF DockerIInv, DockerInvs, RunningIsListed, TakenForGone
<1> QED
  BY <1>3, <1>4, <1>5, <1>6, <1>7 DEF DockerIInv, DockerInvs, DockerShape

-----------------------------------------------------------------------------
LEMMA DockerStepKeeps == ASSUME Docker!DockerAssumption
PROVE  DockerIInv /\ [Docker!Next]_(Docker!dockerVars) => DockerIInv'
<1> SUFFICES ASSUME DockerIInv, [Docker!Next]_(Docker!dockerVars) PROVE DockerIInv'
  OBVIOUS
<1>1. ASSUME UNCHANGED <<container, created, dockerTable, monitor, mu, dockerCall, disowned>>
      PROVE  DockerIInv'
  <2>1. DockerShape' /\ OneCall' /\ MadeInTurn' /\ NamesAreUnique'
    BY <1>1
       DEF DockerIInv, DockerInvs, DockerShape, TableSized, ContainersBoxed, DockerCalled, OneCall,
           MadeInTurn, NamesAreUnique
  <2>2. TableIsTrue' /\ CallsAreTrue' /\ TakenForGone'
    BY <1>1 DEF DockerIInv, DockerInvs, TableIsTrue, CallsAreTrue, TakenForGone
  <2>3. RunningIsListed'
    BY <1>1 DEF DockerIInv, DockerInvs, RunningIsListed, Registering
  <2> QED
    BY <2>1, <2>2, <2>3 DEF DockerIInv, DockerInvs
<1>2. ASSUME NEW c \in Actors, NEW w \in Others, Docker!StartCreates(c, w) PROVE DockerIInv'
  BY <1>1, <1>2, StartCreatesKeeps DEF Docker!StartCreates
<1>3. ASSUME NEW c \in Actors, Docker!Proceed(c) PROVE DockerIInv'
  BY <1>3, StartStartsKeeps, StartRegistersKeeps, StopStopsKeeps, StopRemovesKeeps DEF Docker!Proceed
<1>4. CASE UNCHANGED Docker!dockerVars
  BY <1>1, <1>4 DEF Docker!dockerVars
<1> QED
  <2>1. ASSUME NEW n \in Docker!Containers, Docker!Exit(n) \/ Docker!Removed(n) PROVE DockerIInv'
    BY <2>1, EndsKeeps DEF Docker!Exit, Docker!Removed
  <2> QED
    BY <1>2, <1>3, <1>4, <2>1, StopBeginsKeeps, InspectKeeps, RemoveKeeps, RestartKeeps DEF Docker!Next

(* Docker's table points to containers that were made, and at most one     *)
(* call at a time changes it.                                              *)
THEOREM DockerTypeCorrect == ASSUME Docker!DockerAssumption PROVE Docker!Spec => []Docker!TypeOK
<1>1. DockerIInv => Docker!TypeOK
  <2> SUFFICES ASSUME DockerIInv PROVE Docker!TypeOK
    OBVIOUS
  <2>1. dockerTable \in [Others -> 0..created]
    BY ContainerNumbers DEF DockerIInv, DockerShape, TableSized
  <2> QED
    BY <2>1 DEF Docker!TypeOK, DockerIInv, DockerInvs, DockerShape, DockerCalled, OneCall, MadeInTurn
<1> QED
  BY <1>1, DockerInitHolds, DockerStepKeeps, PTL DEF Docker!Spec

(* A container that runs and that the scheduler does not know was lost for *)
(* one of five reasons: docker did not stop it, did not answer, or started *)
(* it and said that it had not, the server was started again, or the       *)
(* watcher of an older container of the worker came late.                  *)
LEMMA UnlistedHasCause == ASSUME Docker!DockerAssumption
PROVE  Docker!Spec => []Docker!UnlistedIsExplained
<1>1. DockerIInv => Docker!UnlistedIsExplained
  <2> SUFFICES ASSUME DockerIInv PROVE Docker!UnlistedIsExplained
    OBVIOUS
  <2>1. \A n \in Docker!Containers : Docker!Unlisted(n) => disowned[n] # "no"
    BY NobodyCalls DEF Docker!Unlisted, DockerIInv, DockerInvs, RunningIsListed, Registering
  <2> QED
    BY <2>1 DEF Docker!UnlistedIsExplained, DockerIInv, DockerInvs, TakenForGone, TableIsTrue
<1> QED
  BY <1>1, DockerInitHolds, DockerStepKeeps, PTL DEF Docker!Spec

-----------------------------------------------------------------------------
(* ClientHub: the queue of a browser is closed once, by who takes it out   *)
(* of the table.                                                           *)

HubShape ==
  /\ handler = [k \in Actors |-> handler[k]]
  /\ reader = [k \in Actors |-> reader[k]]
  /\ writer = [k \in Actors |-> writer[k]]
  /\ closed = [k \in Actors |-> closed[k]]
  /\ droppers = [k \in Actors |-> droppers[k]]
  /\ hubTable \subseteq Actors /\ loop.left \subseteq hubTable
  /\ loop.at \in {"select", "welcome", "broadcast"}
  /\ loop.at = "welcome" => loop.k \in hubTable
  /\ loop.at = "select" => loop.left = {}

Queued == queue \in [Actors -> 0..QueueSize]

(* A connection is in the table from its registration until its queue is   *)
(* closed, and its readPump goes on using the queue only while it is; all  *)
(* this is undone when run finds the queue full.                           *)
Connected(k) ==
  /\ handler[k] \in {"idle", "registering", "registered"} => reader[k] = "off"
  /\ writer[k] = "off" <=> reader[k] = "off"
  /\ droppers[k] > 0 => k \in overflowed
  /\ k \in hubTable => handler[k] \notin {"idle", "registering"}
  /\ k \notin overflowed =>
       \/ k \in hubTable /\ ~closed[k]
       \/ k \notin hubTable /\ ~closed[k] /\ handler[k] \in {"idle", "registering"}
       \/ k \notin hubTable /\ closed[k] /\ reader[k] \in {"closing", "over"}

PanicIsExplained == panic # Hub!Nobody => panic \in overflowed

HubIInv == HubShape /\ Queued /\ (\A k \in Actors : Connected(k)) /\ PanicIsExplained

-----------------------------------------------------------------------------
LEMMA HubInitHolds == ASSUME Hub!HubAssumption PROVE Hub!Init => HubIInv
<1> SUFFICES ASSUME Hub!Init PROVE HubIInv
  OBVIOUS
<1>1. HubShape
  BY DEF Hub!Init, HubShape, Hub!Select
<1>2. Queued
  BY DEF Hub!Init, Queued, Hub!HubAssumption
<1>3. ASSUME NEW k \in Actors PROVE Connected(k)
  <2>1. /\ handler[k] = "idle" /\ reader[k] = "off" /\ writer[k] = "off"
        /\ ~closed[k] /\ droppers[k] = 0 /\ k \notin hubTable
    BY DEF Hub!Init
  <2> QED
    BY <2>1 DEF Connected
<1>4. PanicIsExplained
  BY DEF Hub!Init, PanicIsExplained
<1> QED
  BY <1>1, <1>2, <1>3, <1>4 DEF HubIInv

(* What an action leaves alone of a connection.                            *)
HubSame(k) ==
  /\ handler'[k] = handler[k] /\ reader'[k] = reader[k] /\ writer'[k] = writer[k]
  /\ closed'[k] = closed[k] /\ droppers'[k] = droppers[k]
  /\ k \in hubTable' <=> k \in hubTable

LEMMA HubSameKeeps ==
  ASSUME NEW k \in Actors, Connected(k), HubSame(k), overflowed \subseteq overflowed'
  PROVE  Connected(k)'
  BY DEF Connected, HubSame

LEMMA OfferKeeps ==
  ASSUME Hub!HubAssumption, HubIInv, NEW k \in Actors, Hub!Offer(k), closed[k] => k \in overflowed,
         overflowed \subseteq overflowed'
  PROVE  Queued' /\ PanicIsExplained'
<1>1. Queued'
  BY DEF HubIInv, Queued, Hub!Offer, Hub!Full, Hub!HubAssumption
<1>2. PanicIsExplained'
  BY DEF HubIInv, PanicIsExplained, Hub!Offer
<1> QED
  BY <1>1, <1>2

(* A connection whose readPump runs is in the table, with its queue open.  *)
LEMMA ReaderIsConnected ==
  ASSUME HubIInv, NEW k \in Actors, reader[k] \in {"reading", "leaving"}, k \notin overflowed
  PROVE  k \in hubTable /\ ~closed[k]
  BY DEF HubIInv, Connected

-----------------------------------------------------------------------------
(* The handler and the pumps.                                              *)
LEMMA AcceptKeeps ==
  ASSUME Hub!HubAssumption, HubIInv, NEW k \in Actors, NEW n \in Names, Hub!Accept(k, n)
  PROVE  HubIInv'
<1>1. HubShape' /\ Queued' /\ PanicIsExplained'
  BY DEF HubIInv, HubShape, Queued, PanicIsExplained, Hub!Accept
<1>2. Connected(k)'
  BY DEF HubIInv, HubShape, Connected, Hub!Accept
<1>3. \A j \in Actors \ {k} : HubSame(j)
  BY DEF HubIInv, HubShape, HubSame, Hub!Accept
<1>4. \A j \in Actors \ {k} : Connected(j)'
  BY <1>3, HubSameKeeps DEF HubIInv, Hub!Accept
<1> QED
  BY <1>1, <1>2, <1>4 DEF HubIInv

LEMMA StartPumpsKeeps ==
  ASSUME Hub!HubAssumption, HubIInv, NEW k \in Actors, Hub!StartPumps(k)
  PROVE  HubIInv'
<1>1. HubShape' /\ Queued' /\ PanicIsExplained'
  BY DEF HubIInv, HubShape, Queued, PanicIsExplained, Hub!StartPumps
<1>2. Connected(k)'
  BY DEF HubIInv, HubShape, Connected, Hub!StartPumps
<1>3. \A j \in Actors \ {k} : HubSame(j)
  BY DEF HubIInv, HubShape, HubSame, Hub!StartPumps
<1>4. \A j \in Actors \ {k} : Connected(j)'
  BY <1>3, HubSameKeeps DEF HubIInv, Hub!StartPumps
<1> QED
  BY <1>1, <1>2, <1>4 DEF HubIInv

LEMMA HandlerReturnsKeeps ==
  ASSUME Hub!HubAssumption, HubIInv, NEW k \in Actors, Hub!HandlerReturns(k)
  PROVE  HubIInv'
<1>1. HubShape' /\ Queued' /\ PanicIsExplained'
  BY DEF HubIInv, HubShape, Queued, PanicIsExplained, Hub!HandlerReturns
<1>2. Connected(k)'
  BY DEF HubIInv, HubShape, Connected, Hub!HandlerReturns
<1>3. \A j \in Actors \ {k} : HubSame(j)
  BY DEF HubIInv, HubShape, HubSame, Hub!HandlerReturns
<1>4. \A j \in Actors \ {k} : Connected(j)'
  BY <1>3, HubSameKeeps DEF HubIInv, Hub!HandlerReturns
<1> QED
  BY <1>1, <1>2, <1>4 DEF HubIInv

LEMMA ReadFailsKeeps ==
  ASSUME Hub!HubAssumption, HubIInv, NEW k \in Actors, Hub!ReadFails(k)
  PROVE  HubIInv'
<1>1. HubShape' /\ Queued' /\ PanicIsExplained'
  BY DEF HubIInv, HubShape, Queued, PanicIsExplained, Hub!ReadFails
<1>2. Connected(k)'
  BY DEF HubIInv, HubShape, Connected, Hub!ReadFails
<1>3. \A j \in Actors \ {k} : HubSame(j)
  BY DEF HubIInv, HubShape, HubSame, Hub!ReadFails
<1>4. \A j \in Actors \ {k} : Connected(j)'
  BY <1>3, HubSameKeeps DEF HubIInv, Hub!ReadFails
<1> QED
  BY <1>1, <1>2, <1>4 DEF HubIInv

LEMMA ReaderClosesKeeps ==
  ASSUME Hub!HubAssumption, HubIInv, NEW k \in Actors, Hub!ReaderCloses(k)
  PROVE  HubIInv'
<1>1. HubShape' /\ Queued' /\ PanicIsExplained'
  BY DEF HubIInv, HubShape, Queued, PanicIsExplained, Hub!ReaderCloses
<1>2. Connected(k)'
  BY DEF HubIInv, HubShape, Connected, Hub!ReaderCloses
<1>3. \A j \in Actors \ {k} : HubSame(j)
  BY DEF HubIInv, HubShape, HubSame, Hub!ReaderCloses
<1>4. \A j \in Actors \ {k} : Connected(j)'
  BY <1>3, HubSameKeeps DEF HubIInv, Hub!ReaderCloses
<1> QED
  BY <1>1, <1>2, <1>4 DEF HubIInv

LEMMA WriterEndsKeeps ==
  ASSUME Hub!HubAssumption, HubIInv, NEW k \in Actors, Hub!WriterEnds(k)
  PROVE  HubIInv'
<1>1. HubShape' /\ Queued' /\ PanicIsExplained'
  BY DEF HubIInv, HubShape, Queued, PanicIsExplained, Hub!WriterEnds
<1>2. Connected(k)'
  BY DEF HubIInv, HubShape, Connected, Hub!WriterEnds
<1>3. \A j \in Actors \ {k} : HubSame(j)
  BY DEF HubIInv, HubShape, HubSame, Hub!WriterEnds
<1>4. \A j \in Actors \ {k} : Connected(j)'
  BY <1>3, HubSameKeeps DEF HubIInv, Hub!WriterEnds
<1> QED
  BY <1>1, <1>2, <1>4 DEF HubIInv

LEMMA RegisterKeeps ==
  ASSUME Hub!HubAssumption, HubIInv, NEW k \in Actors, Hub!Register(k)
  PROVE  HubIInv'
<1>1. HubShape' /\ Queued' /\ PanicIsExplained'
  BY DEF HubIInv, HubShape, Queued, PanicIsExplained, Hub!Register
<1>2. Connected(k)'
  BY DEF HubIInv, HubShape, Connected, Hub!Register
<1>3. \A j \in Actors \ {k} : HubSame(j)
  BY DEF HubIInv, HubShape, HubSame, Hub!Register
<1>4. \A j \in Actors \ {k} : Connected(j)'
  BY <1>3, HubSameKeeps DEF HubIInv, Hub!Register
<1> QED
  BY <1>1, <1>2, <1>4 DEF HubIInv

LEMMA BrowserLeavesKeeps ==
  ASSUME Hub!HubAssumption, HubIInv, NEW k \in Actors, Hub!BrowserLeaves(k)
  PROVE  HubIInv'
<1>1. HubShape' /\ Queued' /\ PanicIsExplained'
  BY DEF HubIInv, HubShape, Queued, PanicIsExplained, Hub!BrowserLeaves
<1>2. \A j \in Actors : Connected(j)'
  BY DEF HubIInv, Connected, Hub!BrowserLeaves
<1> QED
  BY <1>1, <1>2 DEF HubIInv

LEMMA HubWriteKeeps ==
  ASSUME Hub!HubAssumption, HubIInv, NEW k \in Actors, Hub!Write(k)
  PROVE  HubIInv'
<1>1. Queued'
  BY DEF HubIInv, Queued, Hub!Write, Hub!HubAssumption
<1>2. HubShape' /\ PanicIsExplained'
  BY DEF HubIInv, HubShape, PanicIsExplained, Hub!Write
<1>3. \A j \in Actors : Connected(j)'
  BY DEF HubIInv, Connected, Hub!Write
<1> QED
  BY <1>1, <1>2, <1>3 DEF HubIInv

LEMMA ReadAnsweredKeeps ==
  ASSUME Hub!HubAssumption, HubIInv, NEW k \in Actors, Hub!ReadAnswered(k)
  PROVE  HubIInv'
<1>1. Queued' /\ PanicIsExplained'
  BY ReaderIsConnected, OfferKeeps DEF Hub!ReadAnswered
<1>2. HubShape'
  BY DEF HubIInv, HubShape, Hub!ReadAnswered
<1>3. \A j \in Actors : Connected(j)'
  BY DEF HubIInv, Connected, Hub!ReadAnswered
<1> QED
  BY <1>1, <1>2, <1>3 DEF HubIInv

-----------------------------------------------------------------------------
(* run and the callers of the Messenger.                                   *)
LEMMA WelcomeKeeps ==
  ASSUME Hub!HubAssumption, HubIInv, Hub!Welcome
  PROVE  HubIInv'
<1> DEFINE k == loop.k
<1>1. k \in hubTable /\ k \in Actors
  BY DEF HubIInv, HubShape, Hub!Welcome
<1>2. /\ loop' = Hub!Select
      /\ \A j \in Actors \ {k} : closed'[j] = closed[j]
      /\ closed' = [j \in Actors |-> closed'[j]]
      /\ overflowed \subseteq overflowed'
      /\ k \in overflowed' \/ closed' = closed
  BY <1>1 DEF HubIInv, HubShape, Hub!Welcome
<1>3. Queued'
  BY <1>1 DEF HubIInv, Queued, Hub!Welcome, Hub!Full, Hub!HubAssumption
<1>4. HubShape'
  BY <1>2 DEF HubIInv, HubShape, Hub!Welcome, Hub!Select
<1>5. PanicIsExplained'
  BY <1>2 DEF HubIInv, PanicIsExplained, Hub!Welcome
<1>6. \A j \in Actors : Connected(j)'
  BY <1>1, <1>2 DEF HubIInv, Connected, Hub!Welcome
<1> QED
  BY <1>3, <1>4, <1>5, <1>6 DEF HubIInv

(* Dropping a connection that has overflowed, or whose readPump leaves.    *)
LEMMA DropKeeps ==
  ASSUME HubIInv, NEW k \in Actors, Hub!Drop(k), overflowed' = overflowed,
         k \in overflowed \/ reader[k] = "leaving"
  PROVE  /\ PanicIsExplained'
         /\ closed' = [j \in Actors |-> closed'[j]]
         /\ hubTable' = hubTable \ {k}
         /\ \A j \in Actors \ {k} : closed'[j] = closed[j]
         /\ k \notin overflowed => closed'[k]
<1>1. k \notin overflowed => k \in hubTable /\ ~closed[k]
  BY ReaderIsConnected
<1>2. PanicIsExplained'
  BY <1>1 DEF HubIInv, PanicIsExplained, Hub!Drop
<1>3. /\ closed' = [j \in Actors |-> closed'[j]]
      /\ hubTable' = hubTable \ {k}
      /\ \A j \in Actors \ {k} : closed'[j] = closed[j]
  BY DEF HubIInv, HubShape, Hub!Drop
<1>4. k \notin overflowed => closed'[k]
  BY <1>1 DEF HubIInv, HubShape, Hub!Drop
<1> QED
  BY <1>2, <1>3, <1>4

LEMMA UnregisterKeeps ==
  ASSUME Hub!HubAssumption, HubIInv, NEW k \in Actors, Hub!Unregister(k)
  PROVE  HubIInv'
<1>1. /\ PanicIsExplained'
      /\ closed' = [j \in Actors |-> closed'[j]]
      /\ hubTable' = hubTable \ {k}
      /\ \A j \in Actors \ {k} : closed'[j] = closed[j]
      /\ k \notin overflowed => closed'[k]
  BY DropKeeps DEF Hub!Unregister, HubIInv, Connected
<1>2. HubShape' /\ Queued'
  <2>1. loop.at = "select" /\ UNCHANGED <<queue, loop>>
    BY DEF Hub!Unregister
  <2> QED
    BY <1>1, <2>1 DEF HubIInv, HubShape, Queued, Hub!Unregister
<1>3. Connected(k)'
  BY <1>1 DEF HubIInv, HubShape, Connected, Hub!Unregister
<1>4. \A j \in Actors \ {k} : HubSame(j)
  BY <1>1 DEF HubIInv, HubShape, HubSame, Hub!Unregister
<1>5. \A j \in Actors \ {k} : Connected(j)'
  BY <1>4, HubSameKeeps DEF HubIInv, Hub!Unregister
<1> QED
  BY <1>1, <1>2, <1>3, <1>5 DEF HubIInv

LEMMA UnregisterFullKeeps ==
  ASSUME Hub!HubAssumption, HubIInv, NEW k \in Actors, Hub!UnregisterFull(k)
  PROVE  HubIInv'
<1>1. /\ PanicIsExplained'
      /\ closed' = [j \in Actors |-> closed'[j]]
      /\ hubTable' = hubTable \ {k}
      /\ \A j \in Actors \ {k} : closed'[j] = closed[j]
      /\ k \notin overflowed => closed'[k]
  BY DropKeeps DEF Hub!UnregisterFull, HubIInv, Connected
<1>2. HubShape' /\ Queued'
  <2>1. loop.at = "select" /\ UNCHANGED <<queue, loop>>
    BY DEF Hub!UnregisterFull
  <2> QED
    BY <1>1, <2>1 DEF HubIInv, HubShape, Queued, Hub!UnregisterFull
<1>3. Connected(k)'
  BY <1>1 DEF HubIInv, HubShape, Connected, Hub!UnregisterFull
<1>4. \A j \in Actors \ {k} : HubSame(j)
  BY <1>1 DEF HubIInv, HubShape, HubSame, Hub!UnregisterFull
<1>5. \A j \in Actors \ {k} : Connected(j)'
  BY <1>4, HubSameKeeps DEF HubIInv, Hub!UnregisterFull
<1> QED
  BY <1>1, <1>2, <1>3, <1>5 DEF HubIInv

LEMMA BroadcastKeeps ==
  ASSUME Hub!HubAssumption, HubIInv, Hub!Broadcast
  PROVE  HubIInv'
<1>1. HubShape' /\ Queued' /\ PanicIsExplained'
  BY DEF HubIInv, HubShape, Queued, PanicIsExplained, Hub!Broadcast
<1>2. \A j \in Actors : Connected(j)'
  BY DEF HubIInv, Connected, Hub!Broadcast
<1> QED
  BY <1>1, <1>2 DEF HubIInv

LEMMA BroadcastToKeeps ==
  ASSUME Hub!HubAssumption, HubIInv, NEW k \in Actors, Hub!BroadcastTo(k)
  PROVE  HubIInv'
<1>1. closed[k] => k \in overflowed
  BY DEF HubIInv, HubShape, Connected, Hub!BroadcastTo
<1>2. Queued' /\ PanicIsExplained'
  BY <1>1, OfferKeeps DEF Hub!BroadcastTo
<1>3. HubShape'
  BY DEF HubIInv, HubShape, Hub!BroadcastTo
<1>4. Connected(k)'
  BY DEF HubIInv, HubShape, Connected, Hub!BroadcastTo
<1>5. \A j \in Actors \ {k} : HubSame(j)
  BY DEF HubIInv, HubShape, HubSame, Hub!BroadcastTo
<1>6. \A j \in Actors \ {k} : Connected(j)'
  BY <1>5, HubSameKeeps DEF HubIInv, Hub!BroadcastTo
<1> QED
  BY <1>2, <1>3, <1>4, <1>6 DEF HubIInv

LEMMA BroadcastEndsKeeps ==
  ASSUME Hub!HubAssumption, HubIInv, Hub!BroadcastEnds
  PROVE  HubIInv'
<1>1. HubShape' /\ Queued' /\ PanicIsExplained'
  BY DEF HubIInv, HubShape, Queued, PanicIsExplained, Hub!BroadcastEnds, Hub!Select
<1>2. \A j \in Actors : Connected(j)'
  BY DEF HubIInv, Connected, Hub!BroadcastEnds
<1> QED
  BY <1>1, <1>2 DEF HubIInv

LEMMA SendToClientKeeps ==
  ASSUME Hub!HubAssumption, HubIInv, NEW n \in Names, Hub!SendToClient(n)
  PROVE  HubIInv'
<1>1. Queued' /\ PanicIsExplained'
  <2>1. CASE UNCHANGED <<queue, panic>>
    BY <2>1 DEF HubIInv, Queued, PanicIsExplained, Hub!SendToClient
  <2>2. ASSUME NEW k \in hubTable, Hub!Offer(k) PROVE Queued' /\ PanicIsExplained'
    <3>1. k \in Actors /\ (closed[k] => k \in overflowed)
      BY <2>2 DEF HubIInv, HubShape, Connected
    <3> QED
      BY <2>2, <3>1, OfferKeeps DEF Hub!SendToClient
  <2> QED
    BY <2>1, <2>2 DEF Hub!SendToClient
<1>2. HubShape'
  BY DEF HubIInv, HubShape, Hub!SendToClient
<1>3. \A j \in Actors : Connected(j)'
  BY DEF HubIInv, Connected, Hub!SendToClient
<1> QED
  BY <1>1, <1>2, <1>3 DEF HubIInv

-----------------------------------------------------------------------------
LEMMA HubStepKeeps == ASSUME Hub!HubAssumption PROVE HubIInv /\ [Hub!Next]_(Hub!hubVars) => HubIInv'
<1> SUFFICES ASSUME HubIInv, [Hub!Next]_(Hub!hubVars) PROVE HubIInv'
  OBVIOUS
<1>1. ASSUME UNCHANGED Hub!hubVars PROVE HubIInv'
  BY <1>1 DEF Hub!hubVars, HubIInv, HubShape, Queued, Connected, PanicIsExplained
<1>2. ASSUME NEW k \in Actors, Hub!Goroutine(k) PROVE HubIInv'
  BY <1>2, StartPumpsKeeps, HandlerReturnsKeeps, ReadFailsKeeps, ReaderClosesKeeps, WriterEndsKeeps,
     RegisterKeeps, UnregisterKeeps, UnregisterFullKeeps DEF Hub!Goroutine
<1>3. ASSUME Hub!Loop PROVE HubIInv'
  BY <1>3, WelcomeKeeps, BroadcastEndsKeeps, BroadcastToKeeps DEF Hub!Loop
<1>4. ASSUME Hub!Input PROVE HubIInv'
  BY <1>4, AcceptKeeps, BrowserLeavesKeeps, ReadAnsweredKeeps, HubWriteKeeps, BroadcastKeeps,
     SendToClientKeeps DEF Hub!Input
<1> QED
  BY <1>1, <1>2, <1>3, <1>4 DEF Hub!Next, Hub!Runs

(* The table holds registered connections, no queue outgrows its buffer,   *)
(* and what run still has to broadcast to is in the table.                 *)
THEOREM HubTypeCorrect == ASSUME Hub!HubAssumption PROVE Hub!Spec => []Hub!TypeOK
<1>1. HubIInv => Hub!TypeOK
  BY DEF HubIInv, HubShape, Queued, Connected, Hub!TypeOK
<1> QED
  BY <1>1, HubInitHolds, HubStepKeeps, PTL DEF Hub!Spec

(* run, the pumps and the callers of the Messenger meet a closed queue     *)
(* only after the queue of that connection was full for run.               *)
LEMMA HubPanicHasReason == ASSUME Hub!HubAssumption PROVE Hub!Spec => []Hub!PanicNeedsOverflow
<1>1. HubIInv => Hub!PanicNeedsOverflow
  BY DEF HubIInv, Connected, PanicIsExplained, Hub!PanicNeedsOverflow
<1> QED
  BY <1>1, HubInitHolds, HubStepKeeps, PTL DEF Hub!Spec

-----------------------------------------------------------------------------
(* AgentRun: what is said of a run when it ends is all of it, and final.   *)

AnyTool == Registered \cup Defaults \cup Agent!LearningTools \cup UNION Requested

AgentKinds == {"started", "delta", "tool started", "tool completed", "tool failed", "result",
               "none", "completed", "failed"}

AgentEventType == [kind : AgentKinds, of : Nat]
ItemType == [n : Nat, end : {"whole", "broken", "error"}]
CallType == [tool : AnyTool, at : {"asked", "running", "ended"}]
AgentType ==
  [at : {"off", "thinking", "tools", "over"}, steps : Nat, tries : Nat,
   limit : {0, MaxStep, LearnSteps}, silent : BOOLEAN]
FlowType == [at : {"off", "reading", "failed", "done"}, last : Nat, usage : Nat]

LifecycleTypes ==
  /\ stage \in {"idle", "running", "result", "archive", "terminal", "reported", "learning", "over",
               "panicked"}
  /\ status \in {"none", "completed", "failed"}
  /\ exposed \subseteq AnyTool
  /\ stage \in {"running", "learning"} => exposed \subseteq Registered
  /\ agentJournal \in Seq(AgentEventType)
  /\ agentArchive \in [events : SUBSET Nat, message : Nat, usage : Nat]
  /\ endsAt \in 0..Len(agentJournal)

LoopTypes ==
  /\ agent \in AgentType
  /\ agent.steps <= agent.limit
  /\ output \in Seq(ItemType)
  /\ said \in Nat
  /\ toolCall \in Seq(CallType)
  /\ flow \in FlowType
  /\ retried \in BOOLEAN

AgentTypes == LifecycleTypes /\ LoopTypes

(* The stages of the lifecycle, the loop and the agent go together.        *)
AgentStages ==
  /\ stage = "idle" => agent = Agent!Off /\ flow = Agent!NotReading /\ output = <<>> /\ said = 0
                       /\ toolCall = <<>> /\ agentJournal = <<>> /\ endsAt = 0 /\ status = "none"
  /\ agent.silent => stage \in {"learning", "over", "panicked"}
  /\ stage = "learning" => agent.silent /\ agent.at # "off" /\ status = "completed"
  /\ endsAt # 0 => stage \in {"reported", "learning", "over", "panicked"}
  /\ stage = "panicked" => status = "failed" /\ agent.at # "off"
  /\ stage = "running" => agent.at # "off"
  /\ stage = "result" => status = "completed"
  /\ stage \notin {"idle", "running"} => status # "none"
  /\ stage \in {"idle", "running"} => status = "none"
  /\ agent.at # "off" /\ ~agent.silent /\ stage # "running" => flow.at \in {"done", "failed"}
  /\ agent.at = "off" => flow.at = "off" /\ status # "completed" /\ output = <<>>

(* The agent goes on only when its calls have ended, and the loop comes to *)
(* an end before it only when an answer broke off that was asked for again *)
(* or the loop panicked.                                                   *)
CallsEnd == agent.at # "tools" => \A i \in DOMAIN toolCall : toolCall[i].at = "ended"

BreaksAreKnown ==
  /\ \A k \in DOMAIN output : output[k].end # "whole" => agent.at = "over" \/ retried
  /\ flow.at = "failed" => agent.at = "over" \/ retried \/ stage = "panicked"

DoneIsOver ==
  ~agent.silent /\ (flow.at = "done" \/ status = "completed") =>
    flow.at = "done" /\ agent.at = "over" /\ output = <<>>

(* Answers that have not been read, and how many have been.                *)
Unread == IF output # <<>> /\ output[Len(output)].end = "error" THEN Len(output) - 1 ELSE Len(output)
Heard == said - Unread

DeltasAt == {i \in DOMAIN agentJournal : agentJournal[i].kind = "delta"}

AnswersInOrder ==
  /\ \A k \in DOMAIN output :
       IF output[k].end = "error" THEN k = Len(output) /\ agent.at = "over" ELSE output[k].n = Heard + k
  /\ {agentJournal[i].of : i \in DeltasAt} = 1..Heard
  /\ \A i, j \in DeltasAt : i < j => agentJournal[i].of < agentJournal[j].of
  /\ Heard \in Nat
  /\ flow.at \in {"reading", "done"} => flow.last = Heard /\ flow.usage = Heard

(* What is recorded of a tool call.                                        *)
StartsOf(i) ==
  {j \in DOMAIN agentJournal : agentJournal[j].kind = "tool started" /\ agentJournal[j].of = i}
EndsOf(i) ==
  {j \in DOMAIN agentJournal : agentJournal[j].kind \in {"tool completed", "tool failed"} /\ agentJournal[j].of = i}

Unrecorded(i) == StartsOf(i) = {} /\ EndsOf(i) = {}
Started(i) == EndsOf(i) = {} /\ \E j \in DOMAIN agentJournal : StartsOf(i) = {j}
Recorded(i) == \E j, k \in DOMAIN agentJournal : StartsOf(i) = {j} /\ EndsOf(i) = {k} /\ j < k

CallIsRecorded(i) ==
  /\ i \notin DOMAIN toolCall \/ toolCall[i].at = "asked" => Unrecorded(i)
  /\ i \in DOMAIN toolCall /\ toolCall[i].at = "running" => Started(i)
  /\ i \in DOMAIN toolCall /\ toolCall[i].at = "ended" => Unrecorded(i) \/ Recorded(i)

CallsAreRecorded == \A i \in Nat : CallIsRecorded(i)

Story == ~agent.silent => AnswersInOrder /\ CallsAreRecorded

ArchiveHasAll ==
  stage \in {"terminal", "reported"} /\ status = "completed" =>
    /\ agentArchive.message = said /\ agentArchive.usage = said
    /\ agentArchive.events \subseteq DOMAIN agentJournal
    /\ \A i \in DOMAIN agentJournal :
         agentJournal[i].kind \in {"delta", "tool started", "tool completed", "tool failed"} =>
           i \in agentArchive.events

(* The first terminal event is of the kind of the run's end.               *)
EndIsMarked ==
  endsAt # 0 =>
    /\ agent.silent => agentJournal[endsAt].kind = "completed"
    /\ ~agent.silent => agentJournal[endsAt].kind = status

LastIsEnd == EndIsMarked /\ Agent!NothingAfterTheEnd

AgentIInv ==
  /\ AgentTypes /\ AgentStages /\ CallsEnd /\ BreaksAreKnown /\ DoneIsOver /\ Story
  /\ ArchiveHasAll /\ LastIsEnd

-----------------------------------------------------------------------------
LEMMA AgentInitHolds == ASSUME Agent!AgentAssumption PROVE Agent!Init => AgentIInv
<1> SUFFICES ASSUME Agent!Init PROVE AgentIInv
  OBVIOUS
<1>1. <<>> \in Seq(AgentEventType) /\ <<>> \in Seq(ItemType) /\ <<>> \in Seq(CallType) /\ Len(<<>>) = 0
      /\ DOMAIN <<>> = {}
  OBVIOUS
<1>2. LifecycleTypes
  <2>1. agentArchive \in [events : SUBSET Nat, message : Nat, usage : Nat]
    BY DEF Agent!Init, Agent!Empty
  <2>2. endsAt \in 0..Len(agentJournal)
    BY <1>1 DEF Agent!Init
  <2> QED
    BY <1>1, <2>1, <2>2 DEF Agent!Init, LifecycleTypes
<1>3. LoopTypes
  <2>1. Agent!Off \in AgentType /\ Agent!Off.steps <= Agent!Off.limit
    BY DEF Agent!Off, AgentType
  <2>2. Agent!NotReading \in FlowType
    BY DEF Agent!NotReading, FlowType
  <2> QED
    BY <1>1, <2>1, <2>2 DEF Agent!Init, LoopTypes
<1>4. AgentStages /\ CallsEnd /\ BreaksAreKnown /\ DoneIsOver /\ ArchiveHasAll
      /\ LastIsEnd
  BY
     DEF Agent!Init, AgentStages, CallsEnd, BreaksAreKnown, DoneIsOver, ArchiveHasAll,
         LastIsEnd, EndIsMarked, Agent!NothingAfterTheEnd, Agent!Off, Agent!NotReading
<1>5. Story
  <2>1. Unread = 0 /\ said = 0
    BY <1>1 DEF Agent!Init, Unread
  <2>2. Heard = 0
    BY <2>1 DEF Heard
  <2>3. DeltasAt = {} /\ 1..0 = {}
    BY DEF Agent!Init, DeltasAt
  <2>4. AnswersInOrder
    BY <1>1, <2>2, <2>3 DEF Agent!Init, AnswersInOrder, Agent!NotReading
  <2>5. CallsAreRecorded
    BY DEF Agent!Init, CallsAreRecorded, CallIsRecorded, Unrecorded, StartsOf, EndsOf
  <2> QED
    BY <2>4, <2>5 DEF Story
<1> QED
  BY <1>2, <1>3, <1>4, <1>5 DEF AgentIInv, AgentTypes

LEMMA JournalLength == ASSUME AgentTypes PROVE Len(agentJournal) \in Nat
<1>1. agentJournal \in Seq(AgentEventType)
  BY DEF AgentTypes, LifecycleTypes
<1> QED
  BY <1>1

(* An event is the last of the journal when it is recorded.                *)
JournalGrown(m, kind, of) ==
  /\ m \in Nat /\ m \notin DOMAIN agentJournal /\ DOMAIN agentJournal' = DOMAIN agentJournal \cup {m}
  /\ \A i \in DOMAIN agentJournal : i \in Nat /\ i < m /\ agentJournal'[i] = agentJournal[i]
  /\ agentJournal'[m].kind = kind /\ agentJournal'[m].of = of
  /\ agentJournal' \in Seq(AgentEventType) /\ Len(agentJournal') = m /\ Len(agentJournal) <= m

LEMMA JournalGrows == ASSUME AgentTypes, NEW kind \in AgentKinds, NEW of \in Nat, Agent!Record(kind, of)
  PROVE JournalGrown(Len(agentJournal) + 1, kind, of)
<1> DEFINE e == [kind |-> kind, of |-> of]
           m == Len(agentJournal) + 1
<1>1. agentJournal \in Seq(AgentEventType) /\ e \in AgentEventType
      /\ agentJournal' = Append(agentJournal, e)
  BY DEF AgentTypes, LifecycleTypes, Agent!Record, Agent!Event, AgentEventType
<1>2. e.kind = kind /\ e.of = of
  OBVIOUS
<1> HIDE DEF e
<1>3. agentJournal' \in Seq(AgentEventType) /\ Len(agentJournal') = m /\ Len(agentJournal) \in Nat
      /\ agentJournal'[m] = e /\ \A i \in 1..Len(agentJournal) : agentJournal'[i] = agentJournal[i]
  BY <1>1
<1>4. DOMAIN agentJournal = 1..Len(agentJournal) /\ DOMAIN agentJournal' = 1..m
  BY <1>1, <1>3
<1>5. m \in Nat /\ m \notin 1..Len(agentJournal) /\ 1..m = 1..Len(agentJournal) \cup {m}
      /\ Len(agentJournal) <= m /\ \A i \in 1..Len(agentJournal) : i \in Nat /\ i < m
  BY <1>3
<1> HIDE DEF m
<1>6. JournalGrown(m, kind, of)
  BY <1>2, <1>3, <1>4, <1>5 DEF JournalGrown
<1> QED
  BY <1>6 DEF m

(* Deltas and the events of calls, where other events are recorded.        *)
LEMMA DeltasStay == ASSUME NEW m, NEW kind, NEW of, JournalGrown(m, kind, of), kind # "delta"
  PROVE DeltasAt' = DeltasAt /\ \A i \in DeltasAt : agentJournal'[i] = agentJournal[i]
BY DEF JournalGrown, DeltasAt

LEMMA CallsStay ==
  ASSUME NEW m, NEW kind, NEW of, JournalGrown(m, kind, of),
         kind \notin {"tool started", "tool completed", "tool failed"}, NEW i
  PROVE  StartsOf(i)' = StartsOf(i) /\ EndsOf(i)' = EndsOf(i)
<1>1. /\ DOMAIN agentJournal' = DOMAIN agentJournal \cup {m} /\ agentJournal'[m].kind = kind
      /\ \A j \in DOMAIN agentJournal : agentJournal'[j] = agentJournal[j]
  BY DEF JournalGrown
<1>2. StartsOf(i)' = StartsOf(i)
  BY <1>1 DEF StartsOf
<1>3. EndsOf(i)' = EndsOf(i)
  BY <1>1 DEF EndsOf
<1> QED
  BY <1>2, <1>3

LEMMA StartAdded == ASSUME NEW m, NEW of, JournalGrown(m, "tool started", of), NEW i
  PROVE /\ EndsOf(i)' = EndsOf(i)
        /\ i # of => StartsOf(i)' = StartsOf(i)
        /\ i = of => StartsOf(i)' = StartsOf(i) \cup {m}
<1>1. /\ DOMAIN agentJournal' = DOMAIN agentJournal \cup {m}
      /\ agentJournal'[m].kind = "tool started" /\ agentJournal'[m].of = of
      /\ \A j \in DOMAIN agentJournal : agentJournal'[j] = agentJournal[j]
  BY DEF JournalGrown
<1>2. EndsOf(i)' = EndsOf(i)
  BY <1>1 DEF EndsOf
<1>3. i # of => StartsOf(i)' = StartsOf(i)
  BY <1>1 DEF StartsOf
<1>4. i = of => StartsOf(i)' = StartsOf(i) \cup {m}
  BY <1>1 DEF StartsOf
<1> QED
  BY <1>2, <1>3, <1>4

LEMMA EndAdded ==
  ASSUME NEW m, NEW of, NEW kind \in {"tool completed", "tool failed"}, JournalGrown(m, kind, of), NEW i
  PROVE /\ StartsOf(i)' = StartsOf(i)
        /\ i # of => EndsOf(i)' = EndsOf(i)
        /\ i = of => EndsOf(i)' = EndsOf(i) \cup {m}
<1>1. /\ DOMAIN agentJournal' = DOMAIN agentJournal \cup {m}
      /\ agentJournal'[m].kind = kind /\ agentJournal'[m].of = of
      /\ \A j \in DOMAIN agentJournal : agentJournal'[j] = agentJournal[j]
  BY DEF JournalGrown
<1>2. StartsOf(i)' = StartsOf(i)
  BY <1>1 DEF StartsOf
<1>3. i # of => EndsOf(i)' = EndsOf(i)
  BY <1>1 DEF EndsOf
<1>4. i = of => EndsOf(i)' = EndsOf(i) \cup {m}
  BY <1>1 DEF EndsOf
<1> QED
  BY <1>2, <1>3, <1>4

-----------------------------------------------------------------------------
(* What is recorded of the calls stays true while neither they nor their   *)
(* events change.                                                          *)
SameCall(i) ==
  /\ StartsOf(i)' = StartsOf(i) /\ EndsOf(i)' = EndsOf(i)
  /\ DOMAIN agentJournal \subseteq DOMAIN agentJournal'

LEMMA SameCallKeeps == ASSUME NEW i, SameCall(i)
  PROVE (Unrecorded(i) => Unrecorded(i)') /\ (Started(i) => Started(i)') /\ (Recorded(i) => Recorded(i)')
<1>1. Unrecorded(i) => Unrecorded(i)'
  BY DEF Unrecorded, SameCall
<1>2. Started(i) => Started(i)'
  BY DEF Started, SameCall
<1>3. Recorded(i) => Recorded(i)'
  BY DEF Recorded, SameCall
<1> QED
  BY <1>1, <1>2, <1>3

LEMMA CallsUntouched == ASSUME CallsAreRecorded, toolCall' = toolCall, \A i \in Nat : SameCall(i)
  PROVE  CallsAreRecorded'
<1> SUFFICES ASSUME NEW i \in Nat PROVE CallIsRecorded(i)'
  BY DEF CallsAreRecorded
<1>1. CallIsRecorded(i) /\ SameCall(i)
  BY DEF CallsAreRecorded
<1>2. (Unrecorded(i) => Unrecorded(i)') /\ (Started(i) => Started(i)') /\ (Recorded(i) => Recorded(i)')
  BY <1>1, SameCallKeeps
<1> QED
  BY <1>1, <1>2 DEF CallIsRecorded

(* While the loop reads and when it is done it has counted what was heard. *)
LoopKnows == flow'.at \in {"reading", "done"} => flow'.last = Heard /\ flow'.usage = Heard

LEMMA AnswersUntouched ==
  ASSUME AnswersInOrder, UNCHANGED <<output, said>>, DeltasAt' = DeltasAt,
         \A i \in DeltasAt : agentJournal'[i] = agentJournal[i],
         agent.at = "over" => agent'.at = "over", LoopKnows
  PROVE  AnswersInOrder'
<1>1. Unread' = Unread
  BY DEF Unread
<1>2. Heard' = Heard
  BY <1>1 DEF Heard
<1>3. {agentJournal'[i].of : i \in DeltasAt'} = {agentJournal[i].of : i \in DeltasAt}
  OBVIOUS
<1> QED
  BY <1>2, <1>3 DEF AnswersInOrder, LoopKnows

-----------------------------------------------------------------------------
(* A step that leaves the journal and the answers alone.                   *)
Quiet ==
  /\ UNCHANGED <<output, said, agentJournal, toolCall>>
  /\ agent.at = "over" => agent'.at = "over"
  /\ flow'.at \in {"reading", "done"} =>
       flow.at \in {"reading", "done"} /\ flow'.last = flow.last /\ flow'.usage = flow.usage

LEMMA QuietStory == ASSUME Story, Quiet, ~agent'.silent => ~agent.silent PROVE Story'
<1> SUFFICES ASSUME AnswersInOrder, CallsAreRecorded PROVE AnswersInOrder' /\ CallsAreRecorded'
  BY DEF Story
<1>1. AnswersInOrder'
  BY AnswersUntouched DEF Quiet, DeltasAt, LoopKnows, AnswersInOrder
<1>2. \A i \in Nat : SameCall(i)
  BY DEF Quiet, SameCall, StartsOf, EndsOf
<1>3. CallsAreRecorded'
  BY <1>2, CallsUntouched DEF Quiet
<1> QED
  BY <1>1, <1>3

(* A step that records an event of the lifecycle.                          *)
LEMMA LifecycleStory ==
  ASSUME Story, NEW m, NEW kind, NEW of, JournalGrown(m, kind, of),
         kind \notin {"delta", "tool started", "tool completed", "tool failed"},
         UNCHANGED <<output, said, toolCall>>, agent.at = "over" => agent'.at = "over",
         AnswersInOrder => LoopKnows,
         ~agent'.silent => ~agent.silent
  PROVE  Story'
<1> SUFFICES ASSUME AnswersInOrder, CallsAreRecorded PROVE AnswersInOrder' /\ CallsAreRecorded'
  BY DEF Story
<1>1. AnswersInOrder'
  BY DeltasStay, AnswersUntouched
<1>2. \A i \in Nat : SameCall(i)
  BY CallsStay DEF SameCall, JournalGrown
<1>3. CallsAreRecorded'
  BY <1>2, CallsUntouched
<1> QED
  BY <1>1, <1>3

-----------------------------------------------------------------------------
(* What is known when the agent, its calls or the loop go on after the end *)
(* of the run.                                                             *)
LEMMA LateIsRetried ==
  ASSUME AgentIInv, endsAt # 0, ~agent.silent, agent.at \in {"thinking", "tools"} \/ flow.at = "reading"
  PROVE  (retried \/ stage = "panicked") /\ status = "failed"
<1>1. stage \in {"reported", "learning", "over", "panicked"} /\ agent.at # "off"
  BY DEF AgentIInv, AgentStages
<1>2. flow.at \in {"done", "failed"} /\ status \in {"completed", "failed"}
  BY <1>1 DEF AgentIInv, AgentStages, AgentTypes, LifecycleTypes
<1>3. agent.at # "over"
  BY <1>2
<1> QED
  BY <1>2, <1>3 DEF AgentIInv, DoneIsOver, BreaksAreKnown

LEMMA CallHasAgent == ASSUME AgentIInv, NEW i \in DOMAIN toolCall, toolCall[i].at # "ended"
  PROVE  /\ agent.at = "tools" /\ i \in Nat
         /\ stage \in {"terminal", "reported"} => status # "completed"
<1>1. agent.at = "tools"
  BY DEF AgentIInv, CallsEnd
<1>2. i \in Nat
  BY DEF AgentIInv, AgentTypes, LoopTypes
<1>3. stage \in {"terminal", "reported"} => ~agent.silent
  BY DEF AgentIInv, AgentStages
<1> QED
  BY <1>1, <1>2, <1>3 DEF AgentIInv, DoneIsOver

(* The fields of the agent and the loop after a step.                      *)
AgentIs(at, steps, tries) ==
  /\ agent' \in AgentType
  /\ agent'.at = at /\ agent'.steps = steps /\ agent'.tries = tries
  /\ agent'.limit = agent.limit /\ agent'.silent = agent.silent

FlowIs(at, last, usage) ==
  /\ flow' \in FlowType
  /\ flow'.at = at /\ flow'.last = last /\ flow'.usage = usage

LEMMA AgentTurns ==
  ASSUME agent \in AgentType, NEW a \in {"thinking", "tools", "over"}, agent' = [agent EXCEPT !.at = a]
  PROVE  AgentIs(a, agent.steps, agent.tries)
BY DEF AgentIs, AgentType

LEMMA FlowTurns ==
  ASSUME flow \in FlowType, NEW a \in {"failed", "done"}, flow' = [flow EXCEPT !.at = a]
  PROVE  FlowIs(a, flow.last, flow.usage)
BY DEF FlowIs, FlowType

-----------------------------------------------------------------------------
(* The lifecycle.                                                          *)
LEMMA BoundIsAny == ASSUME NEW allowed \in Requested PROVE Agent!Bound(allowed) \subseteq AnyTool
BY DEF Agent!Bound, Agent!MergeToolNames, Agent!Available, AnyTool

LEMMA BeginKeeps ==
  ASSUME Agent!AgentAssumption, AgentIInv, NEW allowed \in Requested, NEW remember \in BOOLEAN,
         Agent!Begin(allowed, remember)
  PROVE  AgentIInv'
<1> DEFINE m == Len(agentJournal) + 1
<1>1. JournalGrown(m, "started", 0) /\ endsAt = 0 /\ m # 0
  <2>1. JournalGrown(m, "started", 0)
    BY JournalGrows DEF Agent!Begin, AgentIInv, AgentKinds
  <2>2. endsAt = 0
    BY DEF Agent!Begin, AgentIInv, AgentStages
  <2>3. Len(agentJournal) \in Nat
    BY DEF AgentIInv, AgentTypes, LifecycleTypes
  <2> QED
    BY <2>1, <2>2, <2>3
<1> HIDE DEF m
<1>2. /\ agent = Agent!Off /\ flow = Agent!NotReading /\ output = <<>> /\ said = 0 /\ toolCall = <<>>
      /\ status = "none"
      /\ UNCHANGED <<output, said, toolCall, agentArchive, endsAt, retried>>
      /\ exposed' = Agent!Bound(allowed)
  BY DEF Agent!Begin, AgentIInv, AgentStages, Agent!recordVars
<1>3. /\ Agent!Off.at = "off" /\ ~Agent!Off.silent /\ Agent!NotReading.at = "off"
      /\ Agent!NotReading.last = 0 /\ Agent!NotReading.usage = 0
      /\ DOMAIN toolCall = {} /\ DOMAIN output = {}
  BY <1>2 DEF Agent!Off, Agent!NotReading
<1>4. \/ /\ stage' = "running" /\ status' = "none" /\ Agent!Bound(allowed) \subseteq Registered
         /\ agent' \in AgentType /\ agent'.at = "thinking" /\ ~agent'.silent
         /\ agent'.steps <= agent'.limit
         /\ flow' \in FlowType /\ flow'.at = "reading" /\ flow'.last = 0 /\ flow'.usage = 0
      \/ stage' = "archive" /\ status' = "failed" /\ agent' = agent /\ flow' = flow
  <2>1. CASE Agent!Bound(allowed) \subseteq Registered
    <3>1. /\ agent' = [at |-> "thinking", steps |-> 0, tries |-> 0, limit |-> MaxStep, silent |-> FALSE]
          /\ flow' = [Agent!NotReading EXCEPT !.at = "reading"] /\ MaxStep \in Nat
      BY <2>1 DEF Agent!Begin, Agent!Starting, Agent!AgentAssumption
    <3>2. agent' \in AgentType /\ agent'.at = "thinking" /\ ~agent'.silent
          /\ agent'.steps <= agent'.limit
      BY <3>1 DEF AgentType
    <3>3. flow' \in FlowType /\ flow'.at = "reading" /\ flow'.last = 0 /\ flow'.usage = 0
      BY <3>1 DEF FlowType, Agent!NotReading
    <3> QED
      BY <1>2, <2>1, <3>2, <3>3 DEF Agent!Begin
  <2>2. CASE ~(Agent!Bound(allowed) \subseteq Registered)
    BY <2>2 DEF Agent!Begin
  <2> QED
    BY <2>1, <2>2
<1>5. LifecycleTypes'
  <2>1. endsAt' \in 0..Len(agentJournal')
    BY <1>1, <1>2 DEF JournalGrown
  <2> QED
    BY <1>1, <1>2, <1>4, <2>1, BoundIsAny DEF LifecycleTypes, AgentIInv, AgentTypes, JournalGrown
<1>6. LoopTypes'
  BY <1>2, <1>4 DEF LoopTypes, AgentIInv, AgentTypes
<1>7. AgentStages'
  BY <1>1, <1>2, <1>3, <1>4 DEF AgentStages
<1>8. CallsEnd' /\ BreaksAreKnown' /\ DoneIsOver' /\ ArchiveHasAll' /\ LastIsEnd'
  BY <1>1, <1>2, <1>3, <1>4
     DEF CallsEnd, BreaksAreKnown, DoneIsOver, ArchiveHasAll, LastIsEnd, EndIsMarked, Agent!NothingAfterTheEnd
<1>9. Story'
  <2>1. Len(<<>>) = 0 /\ 0 - 0 = 0
    OBVIOUS
  <2>2. Unread = 0
    BY <1>2, <2>1 DEF Unread
  <2>3. Heard = 0
    BY <1>2, <2>1, <2>2 DEF Heard
  <2>4. LoopKnows
    BY <1>2, <1>3, <1>4, <2>3 DEF LoopKnows
  <2>5. Story /\ ~agent.silent /\ agent.at # "over"
    BY <1>2, <1>3 DEF AgentIInv
  <2> QED
    BY <1>1, <1>2, <2>4, <2>5, LifecycleStory
<1> QED
  BY <1>5, <1>6, <1>7, <1>8, <1>9 DEF AgentIInv, AgentTypes

(* The stages of a run that ends, without an event.                        *)
LEMMA ReturnsKeeps == ASSUME Agent!AgentAssumption, AgentIInv, Agent!Returns PROVE AgentIInv'
<1>1. /\ UNCHANGED <<exposed, agent, output, said, toolCall, flow, agentJournal, agentArchive, endsAt, retried>>
      /\ stage = "running" /\ flow.at \in {"done", "failed"}
      /\ \/ stage' = "result" /\ status' = "completed" /\ flow.at = "done"
         \/ stage' = "archive" /\ status' = "failed" /\ flow.at = "failed"
  BY DEF Agent!Returns, Agent!recordVars
<1>2. status = "none" /\ ~agent.silent /\ agent.at # "off" /\ endsAt = 0
  BY <1>1 DEF AgentIInv, AgentStages
<1>3. AgentTypes'
  BY <1>1 DEF AgentIInv, AgentTypes, LifecycleTypes, LoopTypes
<1>4. AgentStages'
  BY <1>1, <1>2 DEF AgentIInv, AgentStages
<1>5. CallsEnd' /\ BreaksAreKnown' /\ DoneIsOver' /\ ArchiveHasAll' /\ LastIsEnd'
  BY <1>1, <1>2
     DEF AgentIInv, CallsEnd, BreaksAreKnown, DoneIsOver, ArchiveHasAll, LastIsEnd, EndIsMarked, Agent!NothingAfterTheEnd
<1>6. Story'
  BY <1>1, QuietStory DEF AgentIInv, Quiet
<1> QED
  BY <1>3, <1>4, <1>5, <1>6 DEF AgentIInv

LEMMA EmitResultKeeps == ASSUME Agent!AgentAssumption, AgentIInv, Agent!EmitResult PROVE AgentIInv'
<1> DEFINE m == Len(agentJournal) + 1
<1>1. /\ UNCHANGED <<status, exposed, agent, output, said, toolCall, flow, agentArchive, endsAt, retried>>
      /\ stage = "result" /\ stage' = "archive"
  BY DEF Agent!EmitResult, Agent!recordVars
<1>2. JournalGrown(m, "result", flow.last)
  BY JournalGrows DEF Agent!EmitResult, AgentIInv, AgentTypes, LoopTypes, FlowType, AgentKinds
<1> HIDE DEF m
<1>3. status = "completed" /\ ~agent.silent /\ endsAt = 0
  BY <1>1 DEF AgentIInv, AgentStages
<1>4. LifecycleTypes'
  <2>1. endsAt' \in 0..Len(agentJournal')
    BY <1>1, <1>2, <1>3 DEF JournalGrown
  <2> QED
    BY <1>1, <1>2, <2>1 DEF AgentIInv, AgentTypes, LifecycleTypes, JournalGrown
<1>5. LoopTypes'
  BY <1>1 DEF AgentIInv, AgentTypes, LoopTypes
<1>6. AgentStages'
  BY <1>1, <1>3 DEF AgentIInv, AgentStages
<1>7. CallsEnd' /\ BreaksAreKnown' /\ DoneIsOver' /\ ArchiveHasAll' /\ LastIsEnd'
  BY <1>1, <1>3
     DEF AgentIInv, CallsEnd, BreaksAreKnown, DoneIsOver, ArchiveHasAll, LastIsEnd, EndIsMarked, Agent!NothingAfterTheEnd
<1>8. Story'
  BY <1>1, <1>2, LifecycleStory DEF AgentIInv, LoopKnows, AnswersInOrder
<1> QED
  BY <1>4, <1>5, <1>6, <1>7, <1>8 DEF AgentIInv, AgentTypes

LEMMA TakeArchiveKeeps == ASSUME Agent!AgentAssumption, AgentIInv, Agent!TakeArchive PROVE AgentIInv'
<1>1. /\ UNCHANGED <<status, exposed, agent, output, said, toolCall, flow, agentJournal, endsAt, retried>>
      /\ stage = "archive" /\ stage' = "terminal"
      /\ agentArchive' = [events |-> {i \in DOMAIN agentJournal : agentJournal[i].kind # "result"},
                          message |-> flow.last, usage |-> flow.usage]
  BY DEF Agent!TakeArchive
<1>2. /\ agentArchive'.events = {i \in DOMAIN agentJournal : agentJournal[i].kind # "result"}
      /\ agentArchive'.message = flow.last /\ agentArchive'.usage = flow.usage
  BY <1>1
<1>3. AgentTypes'
  <2>1. DOMAIN agentJournal \subseteq Nat
    BY DEF AgentIInv, AgentTypes, LifecycleTypes
  <2>2. flow.last \in Nat /\ flow.usage \in Nat
    BY DEF AgentIInv, AgentTypes, LoopTypes, FlowType
  <2>3. agentArchive' \in [events : SUBSET Nat, message : Nat, usage : Nat]
    BY <1>1, <2>1, <2>2
  <2> QED
    BY <1>1, <2>3 DEF AgentIInv, AgentTypes, LifecycleTypes, LoopTypes
<1>4. endsAt = 0 /\ ~agent.silent
  BY <1>1 DEF AgentIInv, AgentStages
<1>5. AgentStages'
  BY <1>1, <1>4 DEF AgentIInv, AgentStages
<1>6. CallsEnd' /\ BreaksAreKnown' /\ DoneIsOver' /\ LastIsEnd'
  BY <1>1, <1>4 DEF AgentIInv, CallsEnd, BreaksAreKnown, DoneIsOver, LastIsEnd, EndIsMarked, Agent!NothingAfterTheEnd
<1>7. Story'
  BY <1>1, QuietStory DEF AgentIInv, Quiet
<1>8. ASSUME status = "completed" PROVE flow.last = said /\ flow.usage = said
  <2>1. flow.at = "done" /\ output = <<>>
    BY <1>4, <1>8 DEF AgentIInv, DoneIsOver
  <2>2. said \in Nat /\ Len(<<>>) = 0
    BY DEF AgentIInv, AgentTypes, LoopTypes
  <2>3. Unread = 0
    BY <2>1, <2>2 DEF Unread
  <2>4. Heard = said
    BY <2>2, <2>3 DEF Heard
  <2> QED
    BY <1>4, <2>1, <2>4 DEF AgentIInv, Story, AnswersInOrder
<1>9. ArchiveHasAll'
  BY <1>1, <1>2, <1>8 DEF ArchiveHasAll
<1> QED
  BY <1>3, <1>5, <1>6, <1>7, <1>9 DEF AgentIInv

LEMMA EmitTerminalKeeps == ASSUME Agent!AgentAssumption, AgentIInv, Agent!EmitTerminal PROVE AgentIInv'
<1> DEFINE m == Len(agentJournal) + 1
<1>1. /\ UNCHANGED <<status, exposed, agent, output, said, toolCall, flow, agentArchive, retried>>
      /\ stage = "terminal" /\ stage' = "reported" /\ endsAt' = m
  BY DEF Agent!EmitTerminal
<1>2. JournalGrown(m, status, 0) /\ status \in {"completed", "failed"}
  <2>1. status \in {"completed", "failed"}
    BY <1>1 DEF AgentIInv, AgentStages, AgentTypes, LifecycleTypes
  <2> QED
    BY <2>1, JournalGrows DEF Agent!EmitTerminal, AgentIInv, AgentKinds
<1> HIDE DEF m
<1>3. ~agent.silent /\ Len(agentJournal') = m /\ m \in Nat
  BY <1>1, <1>2 DEF AgentIInv, AgentStages, JournalGrown
<1>4. LifecycleTypes'
  <2>1. endsAt' \in 0..Len(agentJournal')
    BY <1>1, <1>3
  <2> QED
    BY <1>1, <1>2, <2>1 DEF AgentIInv, AgentTypes, LifecycleTypes, JournalGrown
<1>5. LoopTypes'
  BY <1>1 DEF AgentIInv, AgentTypes, LoopTypes
<1>6. AgentStages'
  BY <1>1, <1>3 DEF AgentIInv, AgentStages
<1>7. CallsEnd' /\ BreaksAreKnown' /\ DoneIsOver'
  BY <1>1 DEF AgentIInv, CallsEnd, BreaksAreKnown, DoneIsOver
<1>8. LastIsEnd'
  <2>1. agentJournal'[m].kind = status /\ DOMAIN agentJournal' = 1..m
    BY <1>2, <1>3 DEF JournalGrown
  <2>2. \A i \in 1..m : ~(i > m)
    BY <1>3
  <2> QED
    BY <1>1, <1>3, <2>1, <2>2 DEF LastIsEnd, EndIsMarked, Agent!NothingAfterTheEnd
<1>9. Story'
  BY <1>1, <1>2, LifecycleStory DEF AgentIInv, LoopKnows, AnswersInOrder
<1>10. ArchiveHasAll'
  BY <1>1, <1>2 DEF AgentIInv, ArchiveHasAll, JournalGrown
<1> QED
  BY <1>4, <1>5, <1>6, <1>7, <1>8, <1>9, <1>10 DEF AgentIInv, AgentTypes

LEMMA LearnKeeps == ASSUME Agent!AgentAssumption, AgentIInv, Agent!Learn PROVE AgentIInv'
<1>1. /\ UNCHANGED <<status, said, toolCall, agentJournal, agentArchive, endsAt, retried>>
      /\ stage = "reported" /\ stage' = "learning" /\ output' = <<>> /\ status = "completed"
      /\ exposed' = Agent!Bound(Agent!Available(Agent!LearningTools))
      /\ agent' = [at |-> "thinking", steps |-> 0, tries |-> 0, limit |-> LearnSteps, silent |-> TRUE]
      /\ flow' = [Agent!NotReading EXCEPT !.at = "reading"]
  BY DEF Agent!Learn, Agent!recordVars, Agent!LearningIsDue, Agent!Starting
<1>2. agent' \in AgentType /\ agent'.at = "thinking" /\ agent'.silent /\ agent'.steps <= agent'.limit
  <2>1. LearnSteps \in Nat
    BY DEF Agent!AgentAssumption
  <2> QED
    BY <1>1, <2>1 DEF AgentType
<1>3. flow' \in FlowType /\ flow'.at = "reading"
  BY <1>1 DEF FlowType, Agent!NotReading
<1>4. /\ ~agent.silent /\ agent.at = "over" /\ endsAt \in Nat
      /\ \A i \in DOMAIN toolCall : toolCall[i].at = "ended"
  BY <1>1 DEF AgentIInv, AgentStages, DoneIsOver, CallsEnd, AgentTypes, LifecycleTypes
<1>5. <<>> \in Seq(ItemType) /\ DOMAIN <<>> = {}
  OBVIOUS
<1>6. exposed' \subseteq Registered /\ exposed' \subseteq AnyTool
  BY <1>1 DEF Agent!Bound, Agent!MergeToolNames, Agent!Available, AnyTool
<1>7. AgentTypes'
  BY <1>1, <1>2, <1>3, <1>5, <1>6 DEF AgentIInv, AgentTypes, LifecycleTypes, LoopTypes
<1>8. AgentStages'
  BY <1>1, <1>2, <1>3, <1>4 DEF AgentIInv, AgentStages
<1>9. CallsEnd' /\ BreaksAreKnown' /\ DoneIsOver' /\ Story' /\ ArchiveHasAll'
      /\ LastIsEnd'
  BY <1>1, <1>2, <1>3, <1>4, <1>5
     DEF AgentIInv, CallsEnd, BreaksAreKnown, DoneIsOver, Story, ArchiveHasAll, LastIsEnd, EndIsMarked, Agent!NothingAfterTheEnd
<1> QED
  BY <1>7, <1>8, <1>9 DEF AgentIInv

LEMMA FinishKeeps == ASSUME Agent!AgentAssumption, AgentIInv, Agent!Finish PROVE AgentIInv'
<1>1. /\ UNCHANGED <<status, exposed, agent, output, said, toolCall, flow, agentJournal, agentArchive, endsAt, retried>>
      /\ stage \in {"reported", "learning"} /\ stage' = "over"
  BY DEF Agent!Finish, Agent!recordVars
<1>2. AgentTypes'
  BY <1>1 DEF AgentIInv, AgentTypes, LifecycleTypes, LoopTypes
<1>3. AgentStages'
  BY <1>1 DEF AgentIInv, AgentStages
<1>4. CallsEnd' /\ BreaksAreKnown' /\ DoneIsOver' /\ ArchiveHasAll' /\ LastIsEnd'
  BY <1>1 DEF AgentIInv, CallsEnd, BreaksAreKnown, DoneIsOver, ArchiveHasAll, LastIsEnd, EndIsMarked, Agent!NothingAfterTheEnd
<1>5. Story'
  BY <1>1, QuietStory DEF AgentIInv, Quiet
<1> QED
  BY <1>2, <1>3, <1>4, <1>5 DEF AgentIInv

LEMMA PanicsKeeps == ASSUME Agent!AgentAssumption, AgentIInv, Agent!Panics PROVE AgentIInv'
<1> DEFINE m == Len(agentJournal) + 1
<1>1. /\ UNCHANGED <<exposed, agent, output, said, toolCall, agentArchive, retried>>
      /\ stage \in {"running", "learning"} /\ stage' = "panicked" /\ status' = "failed"
      /\ flow' = [flow EXCEPT !.at = "failed"]
      /\ stage = "running" => endsAt' = m
      /\ stage = "learning" => endsAt' = endsAt
  BY DEF Agent!Panics
<1>2. JournalGrown(m, "failed", 0)
  BY JournalGrows DEF Agent!Panics, AgentIInv, AgentKinds
<1>a. m = Len(agentJournal) + 1
  OBVIOUS
<1> HIDE DEF m
<1>3. /\ Len(agentJournal') = m /\ m \in Nat /\ Len(agentJournal) \in Nat /\ m # 0
      /\ DOMAIN agentJournal = 1..Len(agentJournal) /\ DOMAIN agentJournal' = 1..m
      /\ agentJournal' \in Seq(AgentEventType) /\ endsAt \in 0..Len(agentJournal)
      /\ endsAt' \in 0..m
  <2>1. agentJournal \in Seq(AgentEventType) /\ endsAt \in 0..Len(agentJournal) /\ Len(agentJournal) \in Nat
    BY JournalLength DEF AgentIInv, AgentTypes, LifecycleTypes
  <2>2. agentJournal' \in Seq(AgentEventType) /\ Len(agentJournal') = m /\ m \in Nat /\ m # 0
    BY <1>2, <1>a, <2>1 DEF JournalGrown
  <2>3. DOMAIN agentJournal = 1..Len(agentJournal) /\ DOMAIN agentJournal' = 1..m
    BY <2>1, <2>2
  <2>4. endsAt' \in 0..m
    BY <1>1, <1>a, <2>1, <2>2
  <2> QED
    BY <2>1, <2>2, <2>3, <2>4
<1>4. FlowIs("failed", flow.last, flow.usage)
  BY <1>1, FlowTurns DEF AgentIInv, AgentTypes, LoopTypes
<1>5. LifecycleTypes'
  BY <1>1, <1>3 DEF AgentIInv, AgentTypes, LifecycleTypes
<1>6. LoopTypes'
  BY <1>1, <1>4 DEF AgentIInv, AgentTypes, LoopTypes, FlowIs
<1>7. agent.at # "off" /\ (stage = "learning" => agent.silent) /\ (stage = "running" => ~agent.silent)
  BY <1>1 DEF AgentIInv, AgentStages
<1>8. AgentStages'
  BY <1>1, <1>4, <1>7 DEF AgentStages, FlowIs
<1>9. CallsEnd' /\ BreaksAreKnown' /\ DoneIsOver' /\ ArchiveHasAll'
  BY <1>1, <1>4 DEF AgentIInv, CallsEnd, BreaksAreKnown, DoneIsOver, ArchiveHasAll, FlowIs
<1>10. LastIsEnd'
  <2>1. agentJournal'[m].kind = "failed"
    BY <1>2 DEF JournalGrown
  <2>2. CASE stage = "running"
    <3>1. \A i \in 1..m : ~(i > m)
      BY <1>3
    <3>2. endsAt' = m /\ ~agent.silent /\ agent' = agent /\ status' = "failed"
      BY <1>1, <1>7, <2>2
    <3> QED
      BY <1>3, <2>1, <3>1, <3>2 DEF LastIsEnd, EndIsMarked, Agent!NothingAfterTheEnd
  <2>3. CASE stage = "learning"
    <3>1. endsAt' = endsAt /\ agent.silent /\ agent' = agent /\ stage # "panicked" /\ stage' = "panicked"
      BY <1>1, <1>7, <2>3
    <3>2. endsAt # 0 => endsAt \in DOMAIN agentJournal /\ agentJournal[endsAt].kind = "completed"
      BY <1>3, <3>1 DEF AgentIInv, LastIsEnd, EndIsMarked
    <3>3. endsAt # 0 => agentJournal'[endsAt].kind = "completed"
      BY <1>2, <3>2 DEF JournalGrown
    <3>4. ASSUME endsAt # 0, NEW i \in DOMAIN agentJournal', i > endsAt
          PROVE i = endsAt + 1 /\ agentJournal'[i].kind = "failed"
      <4>1. \A j \in DOMAIN agentJournal : ~(j > endsAt)
        BY <3>1, <3>2, <3>4 DEF AgentIInv, LastIsEnd, Agent!NothingAfterTheEnd
      <4>2. endsAt = Len(agentJournal)
        <5>1. Len(agentJournal) \in DOMAIN agentJournal
          BY <1>3, <3>4
        <5>2. endsAt \in 0..Len(agentJournal)
          BY <1>3
        <5>3. PICK l \in Nat : l = Len(agentJournal)
          BY <1>3
        <5>4. PICK e \in 0..l : e = endsAt
          BY <5>2, <5>3
        <5>5. ~(l > e)
          BY <4>1, <5>1, <5>3, <5>4
        <5>6. e = l
          BY <5>5
        <5> QED
          BY <5>3, <5>4, <5>6
      <4>3. i = m
        BY <1>3, <1>a, <3>4, <4>2
      <4> QED
        BY <1>a, <2>1, <4>2, <4>3
    <3> QED
      BY <3>1, <3>3, <3>4 DEF LastIsEnd, EndIsMarked, Agent!NothingAfterTheEnd
  <2> QED
    BY <1>1, <2>2, <2>3
<1>11. Story'
  BY <1>1, <1>2, <1>4, LifecycleStory DEF AgentIInv, LoopKnows, FlowIs
<1> QED
  BY <1>5, <1>6, <1>8, <1>9, <1>10, <1>11 DEF AgentIInv, AgentTypes

-----------------------------------------------------------------------------
(* The end of the loop, and the agent's retry and return from its tools.   *)
LEMMA ReadsNoMoreKeeps == ASSUME Agent!AgentAssumption, AgentIInv, Agent!ReadsNoMore PROVE AgentIInv'
<1>1. /\ UNCHANGED <<stage, status, exposed, agent, output, said, toolCall, agentJournal, agentArchive, endsAt, retried>>
      /\ flow.at = "reading" /\ output = <<>> /\ agent.at = "over"
  BY DEF Agent!ReadsNoMore, Agent!runVars, Agent!recordVars
<1>2. FlowIs("done", flow.last, flow.usage) \/ FlowIs("failed", flow.last, flow.usage)
  BY FlowTurns DEF Agent!ReadsNoMore, AgentIInv, AgentTypes, LoopTypes
<1>3. AgentTypes'
  BY <1>1, <1>2 DEF AgentIInv, AgentTypes, LifecycleTypes, LoopTypes, FlowIs
<1>4. AgentStages'
  BY <1>1, <1>2 DEF AgentIInv, AgentStages, FlowIs, Agent!NotReading
<1>5. ~agent.silent => status # "completed"
  BY <1>1 DEF AgentIInv, DoneIsOver
<1>6. CallsEnd' /\ BreaksAreKnown' /\ DoneIsOver' /\ ArchiveHasAll' /\ LastIsEnd'
  BY <1>1, <1>2, <1>5
     DEF AgentIInv, CallsEnd, BreaksAreKnown, DoneIsOver, ArchiveHasAll, LastIsEnd, EndIsMarked, Agent!NothingAfterTheEnd,
         FlowIs
<1>7. Story'
  BY <1>1, <1>2, QuietStory DEF AgentIInv, Quiet, FlowIs
<1> QED
  BY <1>3, <1>4, <1>6, <1>7 DEF AgentIInv

LEMMA ToolsEndKeeps == ASSUME Agent!AgentAssumption, AgentIInv, Agent!ToolsEnd PROVE AgentIInv'
<1>1. /\ UNCHANGED <<stage, status, exposed, output, said, toolCall, flow, agentJournal, agentArchive, endsAt, retried>>
      /\ agent.at = "tools" /\ \A i \in DOMAIN toolCall : toolCall[i].at = "ended"
  BY DEF Agent!ToolsEnd, Agent!runVars, Agent!recordVars
<1>2. AgentIs("thinking", agent.steps, agent.tries)
  BY AgentTurns DEF Agent!ToolsEnd, AgentIInv, AgentTypes, LoopTypes
<1>3. AgentTypes'
  BY <1>1, <1>2 DEF AgentIInv, AgentTypes, LifecycleTypes, LoopTypes, AgentIs
<1>4. AgentStages'
  BY <1>1, <1>2 DEF AgentIInv, AgentStages, AgentIs, Agent!Off
<1>5. CallsEnd' /\ BreaksAreKnown' /\ DoneIsOver' /\ ArchiveHasAll' /\ LastIsEnd'
  BY <1>1, <1>2
     DEF AgentIInv, CallsEnd, BreaksAreKnown, DoneIsOver, ArchiveHasAll, LastIsEnd, EndIsMarked, Agent!NothingAfterTheEnd,
         AgentIs
<1>6. Story'
  BY <1>1, <1>2, QuietStory DEF AgentIInv, Quiet, AgentIs, Story, AnswersInOrder
<1> QED
  BY <1>3, <1>4, <1>5, <1>6 DEF AgentIInv

(* An answer on its way to the loop.                                       *)
Said(end) ==
  /\ output \in Seq(ItemType) /\ output' \in Seq(ItemType) /\ Len(output) \in Nat
  /\ DOMAIN output = 1..Len(output) /\ Len(output') = Len(output) + 1
  /\ DOMAIN output' = 1..(Len(output) + 1) /\ output' # <<>>
  /\ \A k \in 1..Len(output) : output'[k] = output[k]
  /\ output'[Len(output) + 1].end = end

LEMMA ItemAdded ==
  ASSUME output \in Seq(ItemType), NEW n \in Nat, NEW end \in {"whole", "broken", "error"},
         output' = Append(output, [n |-> n, end |-> end])
  PROVE  Said(end) /\ output'[Len(output) + 1].n = n
<1> DEFINE x == [n |-> n, end |-> end]
<1>1. x \in ItemType /\ x.n = n /\ x.end = end
  BY DEF ItemType
<1> HIDE DEF x
<1>2. output' = Append(output, x)
  BY DEF x
<1>3. output' \in Seq(ItemType) /\ Len(output') = Len(output) + 1 /\ Len(output) \in Nat
      /\ output'[Len(output) + 1] = x /\ \A k \in 1..Len(output) : output'[k] = output[k]
  BY <1>1, <1>2
<1>4. DOMAIN output = 1..Len(output) /\ DOMAIN output' = 1..(Len(output) + 1) /\ output' # <<>>
  BY <1>1, <1>3
<1> QED
  BY <1>1, <1>3, <1>4 DEF Said

(* No error waits while the agent thinks.                                  *)
LEMMA NoErrorWaits ==
  ASSUME AnswersInOrder, agent.at # "over", output \in Seq(ItemType)
  PROVE  (\A k \in DOMAIN output : output[k].end # "error") /\ Unread = Len(output)
<1>1. \A k \in DOMAIN output : output[k].end # "error"
  BY DEF AnswersInOrder
<1>2. output # <<>> => Len(output) \in DOMAIN output
  OBVIOUS
<1> QED
  BY <1>1, <1>2 DEF Unread

LEMMA SayKeepsOrder ==
  ASSUME AgentTypes, AnswersInOrder, agent.at # "over", NEW end \in {"whole", "broken"}, Agent!Say(end),
         UNCHANGED <<agentJournal, flow>>
  PROVE  AnswersInOrder' /\ Said(end) /\ said' \in Nat
<1>1. output \in Seq(ItemType) /\ said \in Nat /\ said' = said + 1
      /\ output' = Append(output, [n |-> said + 1, end |-> end])
  BY DEF AgentTypes, LoopTypes, Agent!Say
<1>2. Said(end) /\ output'[Len(output) + 1].n = said + 1
  <2>1. said + 1 \in Nat
    BY <1>1
  <2> QED
    BY <1>1, <2>1, ItemAdded
<1>3. (\A k \in DOMAIN output : output[k].end # "error") /\ Unread = Len(output)
  BY <1>1, NoErrorWaits
<1>4. PICK l \in Nat : l = Len(output)
  BY <1>1
<1>5. PICK h \in Nat : h = Heard /\ h = said - l /\ said = h + l
  <2>1. PICK h \in Nat, s \in Nat : h = Heard /\ s = said
    BY <1>1 DEF AnswersInOrder
  <2>2. h = s - l
    BY <1>3, <1>4, <2>1 DEF Heard
  <2> QED
    BY <2>1, <2>2
<1>6. Unread' = l + 1
  <2>1. Len(output') = l + 1 /\ output'[l + 1].end = end /\ output' # <<>> /\ end # "error"
    BY <1>2, <1>4 DEF Said
  <2> QED
    BY <2>1 DEF Unread
<1>7. Heard' = h
  <2>1. said' = h + l + 1 /\ (h + l + 1) - (l + 1) = h
    BY <1>1, <1>5
  <2> QED
    BY <1>6, <2>1 DEF Heard
<1>8. ASSUME NEW k \in DOMAIN output' PROVE output'[k].end # "error" /\ output'[k].n = h + k
  <2>1. CASE k \in DOMAIN output
    <3>1. output'[k] = output[k]
      BY <1>2, <2>1 DEF Said
    <3> QED
      BY <1>3, <1>5, <2>1, <3>1 DEF AnswersInOrder
  <2>2. CASE k \notin DOMAIN output
    <3>1. k = l + 1
      BY <1>2, <1>4, <2>2 DEF Said
    <3> QED
      BY <1>2, <1>4, <1>5, <3>1 DEF Said
  <2> QED
    BY <2>1, <2>2
<1>9. DeltasAt' = DeltasAt
  BY DEF DeltasAt
<1>10. AnswersInOrder'
  BY <1>5, <1>7, <1>8, <1>9 DEF AnswersInOrder
<1> QED
  BY <1>1, <1>2, <1>10

LEMMA CallsWithoutJournal == ASSUME CallsAreRecorded, UNCHANGED <<agentJournal, toolCall>>
PROVE  CallsAreRecorded'
<1>1. \A i \in Nat : SameCall(i)
  BY DEF SameCall, StartsOf, EndsOf
<1> QED
  BY <1>1, CallsUntouched

(* Something is said, or the agent fails.                                  *)
LEMMA BreaksStay ==
  ASSUME BreaksAreKnown, NEW end \in {"whole", "broken", "error"}, Said(end), flow' = flow,
         stage' = stage, agent.at = "thinking", agent'.at \in {"thinking", "tools", "over"},
         end # "whole" => agent'.at = "over" \/ retried', retried => retried'
  PROVE  BreaksAreKnown'
<1>1. ASSUME NEW k \in DOMAIN output', output'[k].end # "whole" PROVE agent'.at = "over" \/ retried'
  <2>1. CASE k \in 1..Len(output)
    BY <2>1, <1>1 DEF Said, BreaksAreKnown
  <2>2. CASE k \notin 1..Len(output)
    <3>1. k = Len(output) + 1
      BY <2>2 DEF Said
    <3> QED
      BY <3>1, <1>1 DEF Said
  <2> QED
    BY <2>1, <2>2
<1> QED
  BY <1>1 DEF BreaksAreKnown

LEMMA ThinkingIsEarly ==
  ASSUME AgentIInv, agent.at = "thinking"
  PROVE  /\ ~agent.silent => flow.at # "done" /\ status # "completed"
         /\ stage \in {"terminal", "reported"} => status # "completed"
         /\ stage # "idle" /\ agent.at # "off"
<1>1. stage # "idle"
  BY DEF AgentIInv, AgentStages, Agent!Off
<1>2. ~agent.silent => flow.at # "done" /\ status # "completed"
  BY DEF AgentIInv, DoneIsOver
<1>3. stage \in {"terminal", "reported"} => ~agent.silent
  BY DEF AgentIInv, AgentStages
<1> QED
  BY <1>1, <1>2, <1>3

LEMMA TryAgainKeeps == ASSUME Agent!AgentAssumption, AgentIInv, Agent!TryAgain PROVE AgentIInv'
<1>1. /\ UNCHANGED <<stage, status, exposed, toolCall, flow, agentJournal, agentArchive, endsAt>>
      /\ agent.at = "thinking"
      /\ UNCHANGED <<said, output, retried>> \/ (Agent!Say("broken") /\ retried')
  BY DEF Agent!TryAgain, Agent!runVars, Agent!recordVars
<1>2. AgentIs("thinking", agent.steps, agent.tries + 1)
  <2>1. agent \in AgentType /\ agent' = [agent EXCEPT !.tries = @ + 1]
    BY DEF Agent!TryAgain, AgentIInv, AgentTypes, LoopTypes
  <2> QED
    BY <1>1, <2>1 DEF AgentIs, AgentType
<1>3. /\ ~agent.silent => flow.at # "done" /\ status # "completed"
      /\ stage \in {"terminal", "reported"} => status # "completed"
      /\ stage # "idle" /\ agent.at # "off"
  BY <1>1, ThinkingIsEarly
<1>4. CASE UNCHANGED <<said, output, retried>>
  <2>1. AgentTypes'
    BY <1>1, <1>2, <1>4 DEF AgentIInv, AgentTypes, LifecycleTypes, LoopTypes, AgentIs
  <2>2. AgentStages'
    BY <1>1, <1>2, <1>3, <1>4 DEF AgentIInv, AgentStages, AgentIs
  <2>3. CallsEnd' /\ BreaksAreKnown' /\ DoneIsOver' /\ ArchiveHasAll' /\ LastIsEnd'
    BY <1>1, <1>2, <1>3, <1>4
       DEF AgentIInv, CallsEnd, BreaksAreKnown, DoneIsOver, ArchiveHasAll, LastIsEnd, EndIsMarked, Agent!NothingAfterTheEnd,
           AgentIs
  <2>4. Story'
    BY <1>1, <1>2, <1>4, QuietStory DEF AgentIInv, Quiet, AgentIs
  <2> QED
    BY <2>1, <2>2, <2>3, <2>4 DEF AgentIInv
<1>5. CASE Agent!Say("broken") /\ retried'
  <2>1. Said("broken") /\ said' \in Nat
    <3>1. output \in Seq(ItemType) /\ said + 1 \in Nat
      BY DEF AgentIInv, AgentTypes, LoopTypes
    <3> QED
      BY <1>5, <3>1, ItemAdded DEF Agent!Say
  <2>2. AgentTypes'
    BY <1>1, <1>2, <1>5, <2>1
       DEF AgentIInv, AgentTypes, LifecycleTypes, LoopTypes, AgentIs, Said, Agent!TryAgain
  <2>3. AgentStages'
    BY <1>1, <1>2, <1>3, <1>5 DEF AgentIInv, AgentStages, AgentIs
  <2>4. BreaksAreKnown'
    BY <1>1, <1>2, <1>5, <2>1, BreaksStay DEF AgentIInv, AgentIs
  <2>5. CallsEnd' /\ DoneIsOver' /\ ArchiveHasAll' /\ LastIsEnd'
    BY <1>1, <1>2, <1>3, <1>5
       DEF AgentIInv, CallsEnd, DoneIsOver, ArchiveHasAll, LastIsEnd, EndIsMarked, Agent!NothingAfterTheEnd, AgentIs
  <2>6. Story'
    BY <1>1, <1>2, <1>5, SayKeepsOrder, CallsWithoutJournal DEF AgentIInv, Story, AgentIs
  <2> QED
    BY <2>2, <2>3, <2>4, <2>5, <2>6 DEF AgentIInv
<1> QED
  BY <1>1, <1>4, <1>5

LEMMA GiveUpKeeps == ASSUME Agent!AgentAssumption, AgentIInv, Agent!GiveUp PROVE AgentIInv'
<1>1. /\ UNCHANGED <<stage, status, exposed, toolCall, flow, agentJournal, agentArchive, endsAt, retried>>
      /\ agent.at = "thinking"
      /\ (output' = Append(output, [n |-> 0, end |-> "error"]) /\ said' = said) \/ Agent!Say("broken")
  BY DEF Agent!GiveUp, Agent!runVars, Agent!recordVars
<1>2. AgentIs("over", agent.steps, agent.tries)
  BY AgentTurns DEF Agent!GiveUp, AgentIInv, AgentTypes, LoopTypes
<1>3. /\ ~agent.silent => flow.at # "done" /\ status # "completed"
      /\ stage \in {"terminal", "reported"} => status # "completed"
      /\ stage # "idle" /\ agent.at # "off"
  BY <1>1, ThinkingIsEarly
<1>4. output \in Seq(ItemType) /\ said \in Nat /\ said + 1 \in Nat
  BY DEF AgentIInv, AgentTypes, LoopTypes
<1>5. (Said("error") \/ Said("broken")) /\ said' \in Nat
  BY <1>1, <1>4, ItemAdded DEF Agent!Say
<1>6. AgentTypes'
  BY <1>1, <1>2, <1>5 DEF AgentIInv, AgentTypes, LifecycleTypes, LoopTypes, AgentIs, Said
<1>7. AgentStages'
  BY <1>1, <1>2, <1>3 DEF AgentIInv, AgentStages, AgentIs
<1>8. BreaksAreKnown'
  BY <1>1, <1>2, <1>5, BreaksStay DEF AgentIInv, AgentIs
<1>9. CallsEnd' /\ DoneIsOver' /\ ArchiveHasAll' /\ LastIsEnd'
  BY <1>1, <1>2, <1>3
     DEF AgentIInv, CallsEnd, DoneIsOver, ArchiveHasAll, LastIsEnd, EndIsMarked, Agent!NothingAfterTheEnd, AgentIs
<1>10. ASSUME AnswersInOrder, output' = Append(output, [n |-> 0, end |-> "error"]), said' = said
       PROVE  AnswersInOrder'
  <2>1. Said("error")
    BY <1>4, <1>10, ItemAdded
  <2>2. (\A k \in DOMAIN output : output[k].end # "error") /\ Unread = Len(output)
    BY <1>1, <1>4, <1>10, NoErrorWaits
  <2>3. PICK l \in Nat : l = Len(output)
    BY <2>1 DEF Said
  <2>4. Len(output') = l + 1 /\ output'[l + 1].end = "error" /\ output' # <<>> /\ (l + 1) - 1 = l
    BY <2>1, <2>3 DEF Said
  <2>5. Unread' = Unread
    BY <2>2, <2>3, <2>4 DEF Unread
  <2>6. Heard' = Heard
    BY <1>10, <2>5 DEF Heard
  <2>7. ASSUME NEW k \in DOMAIN output'
        PROVE IF output'[k].end = "error" THEN k = Len(output') ELSE output'[k].n = Heard + k
    <3>1. CASE k \in DOMAIN output
      <4>1. output'[k] = output[k]
        BY <3>1, <2>1 DEF Said
      <4> QED
        BY <1>10, <2>2, <3>1, <4>1 DEF AnswersInOrder
    <3>2. CASE k \notin DOMAIN output
      <4>1. k = l + 1
        BY <2>1, <2>3, <3>2 DEF Said
      <4> QED
        BY <2>4, <4>1
    <3> QED
      BY <3>1, <3>2
  <2>8. DeltasAt' = DeltasAt
    BY <1>1 DEF DeltasAt
  <2> QED
    BY <1>1, <1>2, <1>10, <2>6, <2>7, <2>8 DEF AnswersInOrder, AgentIs
<1>11. Story'
  <2> SUFFICES ASSUME AnswersInOrder, CallsAreRecorded PROVE AnswersInOrder' /\ CallsAreRecorded'
    BY <1>2 DEF AgentIInv, Story, AgentIs
  <2>1. AnswersInOrder'
    BY <1>1, <1>10, SayKeepsOrder DEF AgentIInv
  <2> QED
    BY <1>1, <2>1, CallsWithoutJournal
<1> QED
  BY <1>6, <1>7, <1>8, <1>9, <1>11 DEF AgentIInv

-----------------------------------------------------------------------------
(* Calls that are asked for come after the others.                         *)
Asked(count) ==
  /\ count \in Nat /\ toolCall' \in Seq(CallType)
  /\ DOMAIN toolCall = 1..Len(toolCall) /\ Len(toolCall) \in Nat
  /\ DOMAIN toolCall' = 1..(Len(toolCall) + count)
  /\ \A i \in DOMAIN toolCall : i \in DOMAIN toolCall' /\ toolCall'[i] = toolCall[i]
  /\ \A i \in DOMAIN toolCall' : i \notin DOMAIN toolCall => toolCall'[i].at = "asked"

LEMMA CallsAdded ==
  ASSUME toolCall \in Seq(CallType), NEW tools \in Seq(AnyTool),
         toolCall' = toolCall \o [i \in DOMAIN tools |-> [tool |-> tools[i], at |-> "asked"]]
  PROVE  Asked(Len(tools))
<1> DEFINE new == [i \in DOMAIN tools |-> [tool |-> tools[i], at |-> "asked"]]
<1>1. DOMAIN tools = 1..Len(tools) /\ Len(tools) \in Nat
      /\ \A i \in 1..Len(tools) : tools[i] \in AnyTool
  OBVIOUS
<1>2. \A i \in 1..Len(tools) : new[i] \in CallType /\ new[i].at = "asked"
  BY <1>1 DEF CallType
<1>3. DOMAIN new = 1..Len(tools)
  BY <1>1
<1>4. new \in [1..Len(tools) -> CallType]
  BY <1>2, <1>3
<1> HIDE DEF new
<1>5. new \in Seq(CallType) /\ Len(new) = Len(tools)
  BY <1>1, <1>3, <1>4
<1>6. /\ toolCall \o new \in Seq(CallType) /\ Len(toolCall \o new) = Len(toolCall) + Len(new)
      /\ \A i \in 1..Len(toolCall) + Len(new) :
           (toolCall \o new)[i] = IF i <= Len(toolCall) THEN toolCall[i] ELSE new[i - Len(toolCall)]
  BY <1>5, ConcatProperties
<1>7. toolCall' = toolCall \o new
  BY DEF new
<1>8. PICK l \in Nat, n \in Nat : l = Len(toolCall) /\ n = Len(tools)
  <2>1. Len(toolCall) \in Nat
    OBVIOUS
  <2>2. Len(tools) \in Nat
    BY <1>1
  <2> QED
    BY <2>1, <2>2
<1>9. DOMAIN toolCall = 1..l /\ DOMAIN toolCall' = 1..(l + n) /\ toolCall' \in Seq(CallType)
  BY <1>5, <1>6, <1>7, <1>8
<1>10. ASSUME NEW i \in 1..l PROVE i \in 1..(l + n) /\ toolCall'[i] = toolCall[i]
  BY <1>5, <1>6, <1>7, <1>8
<1>11. ASSUME NEW i \in 1..(l + n), i \notin 1..l PROVE toolCall'[i].at = "asked"
  <2>1. i - l \in 1..n /\ ~(i <= l)
    BY <1>11
  <2>2. \A j \in 1..(l + n) : toolCall'[j] = IF j <= l THEN toolCall[j] ELSE new[j - l]
    BY <1>5, <1>6, <1>7, <1>8
  <2>3. toolCall'[i] = new[i - l]
    BY <2>1, <2>2
  <2> QED
    BY <1>2, <1>8, <2>1, <2>3
<1> QED
  BY <1>8, <1>9, <1>10, <1>11 DEF Asked

LEMMA AnswerKeeps ==
  ASSUME Agent!AgentAssumption, AgentIInv, NEW tools \in Seq(exposed), Agent!Answer(tools)
PROVE  AgentIInv'
<1>1. /\ UNCHANGED <<stage, status, exposed, flow, agentJournal, agentArchive, endsAt, retried>>
      /\ agent.at = "thinking" /\ agent.steps < agent.limit /\ Agent!Say("whole")
      /\ toolCall' = toolCall \o [i \in DOMAIN tools |-> [tool |-> tools[i], at |-> "asked"]]
      /\ agent' = [agent EXCEPT !.at = IF tools = <<>> THEN "over" ELSE "tools",
                                !.steps = @ + 1, !.tries = 0]
  BY DEF Agent!Answer, Agent!runVars, Agent!recordVars
<1>2. /\ agent \in AgentType /\ agent.steps \in Nat /\ agent.limit \in Nat
      /\ output \in Seq(ItemType) /\ said \in Nat /\ said + 1 \in Nat
      /\ toolCall \in Seq(CallType) /\ exposed \subseteq AnyTool
  BY DEF AgentIInv, AgentTypes, LoopTypes, LifecycleTypes, AgentType, Agent!AgentAssumption
<1>3. PICK a \in {"over", "tools"} : a = (IF tools = <<>> THEN "over" ELSE "tools")
  OBVIOUS
<1>4. AgentIs(a, agent.steps + 1, 0) /\ agent.steps + 1 <= agent.limit
  <2>1. agent' = [agent EXCEPT !.at = a, !.steps = @ + 1, !.tries = 0]
    BY <1>1, <1>3
  <2> DEFINE one == [agent EXCEPT !.at = a]
             two == [one EXCEPT !.steps = agent.steps + 1]
  <2>2. agent.steps + 1 \in Nat /\ agent.steps + 1 <= agent.limit
    BY <1>1, <1>2
  <2>3. /\ one \in AgentType /\ one.at = a /\ one.steps = agent.steps
        /\ one.limit = agent.limit /\ one.silent = agent.silent
    BY <1>2 DEF AgentType
  <2> HIDE DEF one
  <2>4. /\ two \in AgentType /\ two.at = a /\ two.steps = agent.steps + 1
        /\ two.limit = agent.limit /\ two.silent = agent.silent
    BY <2>2, <2>3 DEF AgentType
  <2>5. agent' = [two EXCEPT !.tries = 0]
    BY <2>1, Zenon DEF one
  <2> HIDE DEF two
  <2>6. AgentIs(a, agent.steps + 1, 0)
    BY <2>4, <2>5 DEF AgentIs, AgentType
  <2> QED
    BY <2>2, <2>6
<1>5. Asked(Len(tools)) /\ (tools = <<>> => Len(tools) = 0)
  <2>1. tools \in Seq(AnyTool)
    BY <1>2
  <2>2. toolCall' = toolCall \o [i \in DOMAIN tools |-> [tool |-> tools[i], at |-> "asked"]]
    BY <1>1
  <2>3. Asked(Len(tools))
    BY <1>2, <2>1, <2>2, CallsAdded
  <2> QED
    BY <2>3
<1>6. /\ ~agent.silent => flow.at # "done" /\ status # "completed"
      /\ stage \in {"terminal", "reported"} => status # "completed"
      /\ stage # "idle" /\ agent.at # "off"
  BY <1>1, ThinkingIsEarly
<1>7. Said("whole") /\ said' \in Nat
  BY <1>1, <1>2, ItemAdded DEF Agent!Say
<1>8. AgentTypes'
  <2>1. agent'.steps <= agent'.limit
    BY <1>4 DEF AgentIs
  <2> QED
    BY <1>1, <1>4, <1>5, <1>7, <2>1
       DEF AgentIInv, AgentTypes, LifecycleTypes, LoopTypes, AgentIs, Said, Asked
<1>9. AgentStages'
  BY <1>1, <1>4, <1>6 DEF AgentIInv, AgentStages, AgentIs
<1>10. CallsEnd'
  <2> SUFFICES ASSUME agent'.at # "tools" PROVE \A i \in DOMAIN toolCall' : toolCall'[i].at = "ended"
    BY DEF CallsEnd
  <2>1. Len(tools) = 0
    BY <1>3, <1>4, <1>5 DEF AgentIs
  <2>2. DOMAIN toolCall' = DOMAIN toolCall
    BY <1>5, <2>1 DEF Asked
  <2> QED
    BY <1>1, <1>5, <2>2 DEF Asked, AgentIInv, CallsEnd
<1>11. BreaksAreKnown'
  BY <1>1, <1>4, <1>7, BreaksStay DEF AgentIInv, AgentIs
<1>12. DoneIsOver' /\ ArchiveHasAll' /\ LastIsEnd'
  BY <1>1, <1>4, <1>6 DEF AgentIInv, DoneIsOver, ArchiveHasAll, LastIsEnd, EndIsMarked, Agent!NothingAfterTheEnd, AgentIs
<1>13. Story'
  <2> SUFFICES ASSUME AnswersInOrder, CallsAreRecorded PROVE AnswersInOrder' /\ CallsAreRecorded'
    BY <1>4 DEF AgentIInv, Story, AgentIs
  <2>1. AnswersInOrder'
    BY <1>1, SayKeepsOrder DEF AgentIInv
  <2>2. ASSUME NEW i \in Nat PROVE CallIsRecorded(i)'
    <3>1. CallIsRecorded(i) /\ SameCall(i)
      BY <1>1 DEF CallsAreRecorded, SameCall, StartsOf, EndsOf
    <3>2. (Unrecorded(i) => Unrecorded(i)') /\ (Started(i) => Started(i)') /\ (Recorded(i) => Recorded(i)')
      BY <3>1, SameCallKeeps
    <3>3. CASE i \in DOMAIN toolCall
      <4>1. toolCall'[i] = toolCall[i] /\ i \in DOMAIN toolCall'
        BY <1>5, <3>3 DEF Asked
      <4> QED
        BY <3>1, <3>2, <3>3, <4>1 DEF CallIsRecorded
    <3>4. CASE i \notin DOMAIN toolCall
      <4>1. i \notin DOMAIN toolCall' \/ toolCall'[i].at = "asked"
        BY <1>5, <3>4 DEF Asked
      <4>2. Unrecorded(i)'
        BY <3>1, <3>2, <3>4 DEF CallIsRecorded
      <4> QED
        BY <4>1, <4>2 DEF CallIsRecorded
    <3> QED
      BY <3>3, <3>4
  <2> QED
    BY <2>1, <2>2 DEF CallsAreRecorded
<1> QED
  BY <1>8, <1>9, <1>10, <1>11, <1>12, <1>13 DEF AgentIInv

-----------------------------------------------------------------------------
(* The calls of tools.                                                     *)
CallMoves(i, at) ==
  /\ DOMAIN toolCall' = DOMAIN toolCall /\ toolCall' \in Seq(CallType)
  /\ toolCall'[i].at = at
  /\ \A j \in DOMAIN toolCall : j # i => toolCall'[j] = toolCall[j]

LEMMA CallChanges ==
  ASSUME toolCall \in Seq(CallType), NEW i \in DOMAIN toolCall, NEW a \in {"running", "ended"},
         toolCall' = [toolCall EXCEPT ![i].at = a]
  PROVE  CallMoves(i, a)
<1> DEFINE c == [toolCall[i] EXCEPT !.at = a]
<1>1. toolCall[i] \in CallType
  OBVIOUS
<1>2. c \in CallType /\ c.at = a
  BY <1>1 DEF CallType
<1>3. toolCall' = [toolCall EXCEPT ![i] = c]
  OBVIOUS
<1> HIDE DEF c
<1> QED
  BY <1>2, <1>3 DEF CallMoves

(* What a tool's goroutine leaves alone, and what it keeps.                *)
ToolOnly ==
  UNCHANGED <<stage, status, exposed, agent, output, said, flow, agentArchive, endsAt, retried>>

CallGrows(i) ==
  /\ ~agent.silent
  /\ \E kind \in {"tool started", "tool completed", "tool failed"} : \E m \in Nat : JournalGrown(m, kind, i)

(* A place that is not 0 is the place of an element.                       *)
LEMMA PlaceInDomain ==
  ASSUME NEW S, NEW s \in Seq(S), NEW e \in 0..Len(s), e # 0 PROVE e \in DOMAIN s
OBVIOUS

LEMMA ToolKeeps ==
  ASSUME AgentIInv, ToolOnly, NEW i \in DOMAIN toolCall, toolCall[i].at # "ended",
         NEW a \in {"running", "ended"}, CallMoves(i, a),
         agentJournal' = agentJournal \/ CallGrows(i)
  PROVE  AgentTypes' /\ AgentStages' /\ CallsEnd' /\ BreaksAreKnown' /\ DoneIsOver' /\ ArchiveHasAll' /\ LastIsEnd'
         /\ (AnswersInOrder => AnswersInOrder')
<1>1. /\ agent.at = "tools" /\ i \in Nat /\ stage # "idle"
      /\ ~(stage \in {"terminal", "reported"} /\ status = "completed")
      /\ endsAt # 0 /\ ~agent.silent => (retried \/ stage = "panicked") /\ status = "failed"
  <2>1. agent.at = "tools" /\ i \in Nat /\ ~(stage \in {"terminal", "reported"} /\ status = "completed")
    BY CallHasAgent
  <2>2. stage # "idle"
    <3>1. (stage = "idle" => agent = Agent!Off) /\ Agent!Off.at = "off"
      BY DEF AgentIInv, AgentStages, Agent!Off
    <3> QED
      BY <2>1, <3>1
  <2>3. endsAt # 0 /\ ~agent.silent => (retried \/ stage = "panicked") /\ status = "failed"
    BY <2>1, LateIsRetried
  <2> QED
    BY <2>1, <2>2, <2>3
<1>2. /\ agentJournal' \in Seq(AgentEventType) /\ Len(agentJournal) <= Len(agentJournal')
      /\ Len(agentJournal) \in Nat /\ Len(agentJournal') \in Nat
      /\ DeltasAt' = DeltasAt /\ \A j \in DeltasAt : agentJournal'[j] = agentJournal[j]
  <2>1. CASE agentJournal' = agentJournal
    BY <2>1 DEF AgentIInv, AgentTypes, LifecycleTypes, DeltasAt
  <2>2. CASE agentJournal' # agentJournal
    <3>1. PICK kind \in {"tool started", "tool completed", "tool failed"}, m \in Nat : JournalGrown(m, kind, i)
      BY <2>2 DEF CallGrows
    <3>2. agentJournal' \in Seq(AgentEventType) /\ Len(agentJournal) <= Len(agentJournal')
      BY <3>1 DEF JournalGrown
    <3>3. Len(agentJournal) \in Nat /\ Len(agentJournal') \in Nat
      <4>1. Len(agentJournal) \in Nat
        BY JournalLength DEF AgentIInv
      <4>2. Len(agentJournal') \in Nat
        BY <3>1 DEF JournalGrown
      <4> QED
        BY <4>1, <4>2
    <3> QED
      BY <3>1, <3>2, <3>3, DeltasStay
  <2> QED
    BY <2>1, <2>2
<1>3. AgentTypes'
  <2>1. endsAt' = endsAt /\ endsAt \in 0..Len(agentJournal)
    BY DEF AgentIInv, AgentTypes, LifecycleTypes, ToolOnly
  <2>2. PICK l \in Nat, n \in Nat : l = Len(agentJournal) /\ n = Len(agentJournal') /\ l <= n
    BY <1>2
  <2>3. PICK e \in 0..l : endsAt' = e
    BY <2>1, <2>2
  <2>4. e \in 0..n
    BY <2>2
  <2>5. endsAt' \in 0..Len(agentJournal')
    BY <2>2, <2>3, <2>4
  <2> QED
    BY <1>2, <2>5 DEF AgentIInv, AgentTypes, LifecycleTypes, LoopTypes, ToolOnly, CallMoves
<1>4. AgentStages'
  BY <1>1 DEF AgentIInv, AgentStages, ToolOnly
<1>5. CallsEnd' /\ BreaksAreKnown' /\ DoneIsOver' /\ ArchiveHasAll'
  BY <1>1 DEF AgentIInv, CallsEnd, BreaksAreKnown, DoneIsOver, ArchiveHasAll, ToolOnly
<1>6. LastIsEnd'
  <2>1. CASE agentJournal' = agentJournal
    BY <2>1 DEF AgentIInv, LastIsEnd, EndIsMarked, Agent!NothingAfterTheEnd, ToolOnly
  <2>2. CASE agentJournal' # agentJournal
    <3>1. PICK kind \in {"tool started", "tool completed", "tool failed"}, m \in Nat : JournalGrown(m, kind, i)
      BY <2>2 DEF CallGrows
    <3>2. ~agent.silent
      BY <2>2 DEF CallGrows
    <3>3. agentJournal \in Seq(AgentEventType)
      BY DEF AgentIInv, AgentTypes, LifecycleTypes
    <3>4. endsAt # 0 => endsAt \in DOMAIN agentJournal
      <4>1. endsAt \in 0..Len(agentJournal)
        BY DEF AgentIInv, AgentTypes, LifecycleTypes
      <4> QED
        BY <3>3, <4>1, PlaceInDomain
    <3>5. endsAt # 0 => agentJournal'[endsAt] = agentJournal[endsAt] /\ agentJournal[endsAt].kind = "failed"
      BY <1>1, <3>1, <3>2, <3>4 DEF JournalGrown, AgentIInv, LastIsEnd, EndIsMarked
    <3>6. EndIsMarked'
      BY <1>1, <3>2, <3>5 DEF EndIsMarked, ToolOnly
    <3>7. ASSUME endsAt # 0, NEW j \in DOMAIN agentJournal', j > endsAt
          PROVE agentJournal'[j].kind \in {"tool started", "tool completed", "tool failed"}
      <4>1. CASE j = m
        BY <3>1, <4>1 DEF JournalGrown
      <4>2. CASE j # m
        <5>1. j \in DOMAIN agentJournal /\ agentJournal'[j] = agentJournal[j]
          BY <3>1, <3>7, <4>2 DEF JournalGrown
        <5> QED
          BY <3>5, <3>7, <5>1 DEF AgentIInv, LastIsEnd, Agent!NothingAfterTheEnd
      <4> QED
        BY <4>1, <4>2
    <3>8. Agent!NothingAfterTheEnd'
      BY <1>1, <3>2, <3>5, <3>7 DEF Agent!NothingAfterTheEnd, ToolOnly
    <3> QED
      BY <3>6, <3>8 DEF LastIsEnd
  <2> QED
    BY <2>1, <2>2
<1>7. ASSUME AnswersInOrder PROVE AnswersInOrder'
  <2>1. LoopKnows
    BY <1>7 DEF AnswersInOrder, LoopKnows, ToolOnly
  <2> QED
    BY <1>2, <1>7, <2>1, AnswersUntouched DEF ToolOnly
<1> QED
  BY <1>3, <1>4, <1>5, <1>6, <1>7

(* Another call is as it was.                                              *)
LEMMA OtherCallKeeps ==
  ASSUME CallsAreRecorded, NEW i, NEW a, CallMoves(i, a), NEW j \in Nat, j # i, SameCall(j)
  PROVE  CallIsRecorded(j)'
<1>1. CallIsRecorded(j)
  BY DEF CallsAreRecorded
<1>2. (Unrecorded(j) => Unrecorded(j)') /\ (Started(j) => Started(j)') /\ (Recorded(j) => Recorded(j)')
  BY SameCallKeeps
<1>3. DOMAIN toolCall' = DOMAIN toolCall /\ (j \in DOMAIN toolCall => toolCall'[j] = toolCall[j])
  BY DEF CallMoves
<1> QED
  BY <1>1, <1>2, <1>3 DEF CallIsRecorded

LEMMA ToolRefusedKeeps ==
  ASSUME Agent!AgentAssumption, AgentIInv, NEW i \in DOMAIN toolCall, Agent!ToolRefused(i)
PROVE  AgentIInv'
<1>1. ToolOnly /\ toolCall[i].at = "asked" /\ agentJournal' = agentJournal
  BY DEF Agent!ToolRefused, ToolOnly, Agent!runVars, Agent!recordVars
<1>2. CallMoves(i, "ended")
  BY CallChanges DEF Agent!ToolRefused, AgentIInv, AgentTypes, LoopTypes
<1>3. AgentTypes' /\ AgentStages' /\ CallsEnd' /\ BreaksAreKnown' /\ DoneIsOver' /\ ArchiveHasAll'
      /\ LastIsEnd'
      /\ (AnswersInOrder => AnswersInOrder')
  BY <1>1, <1>2, ToolKeeps
<1>4. ASSUME CallsAreRecorded, NEW j \in Nat PROVE CallIsRecorded(j)'
  <2>1. SameCall(j)
    BY <1>1 DEF SameCall, StartsOf, EndsOf
  <2>2. CASE j = i
    <3>1. Unrecorded(j)
      BY <1>1, <1>4, <2>2 DEF CallsAreRecorded, CallIsRecorded
    <3>2. Unrecorded(j)'
      BY <2>1, <3>1, SameCallKeeps
    <3> QED
      BY <1>2, <2>2, <3>2 DEF CallIsRecorded, CallMoves
  <2>3. CASE j # i
    BY <1>2, <1>4, <2>1, <2>3, OtherCallKeeps
  <2> QED
    BY <2>2, <2>3
<1>5. Story'
  BY <1>1, <1>3, <1>4 DEF AgentIInv, Story, ToolOnly, CallsAreRecorded
<1> QED
  BY <1>3, <1>5 DEF AgentIInv

LEMMA ToolStartsKeeps ==
  ASSUME Agent!AgentAssumption, AgentIInv, NEW i \in DOMAIN toolCall, Agent!ToolStarts(i)
PROVE  AgentIInv'
<1>1. ToolOnly /\ toolCall[i].at = "asked"
  BY DEF Agent!ToolStarts, ToolOnly, Agent!runVars, Agent!recordVars
<1>2. CallMoves(i, "running") /\ i \in Nat
  BY CallChanges, CallHasAgent, <1>1 DEF Agent!ToolStarts, AgentIInv, AgentTypes, LoopTypes
<1>3. /\ agent.silent => agentJournal' = agentJournal
      /\ ~agent.silent => JournalGrown(Len(agentJournal) + 1, "tool started", i)
  BY <1>2, JournalGrows DEF Agent!ToolStarts, Agent!Emit, AgentIInv, AgentKinds
<1>4. AgentTypes' /\ AgentStages' /\ CallsEnd' /\ BreaksAreKnown' /\ DoneIsOver' /\ ArchiveHasAll'
      /\ LastIsEnd'
      /\ (AnswersInOrder => AnswersInOrder')
  <2>1. agentJournal' = agentJournal \/ CallGrows(i)
    BY <1>3 DEF CallGrows, JournalGrown
  <2> QED
    BY <1>1, <1>2, <2>1, ToolKeeps
<1>5. ASSUME CallsAreRecorded, ~agent.silent, NEW j \in Nat PROVE CallIsRecorded(j)'
  <2> DEFINE m == Len(agentJournal) + 1
  <2>1. JournalGrown(m, "tool started", i)
    BY <1>3, <1>5
  <2> HIDE DEF m
  <2>2. CASE j = i
    <3>1. Unrecorded(i)
      BY <1>1, <1>2, <1>5 DEF CallsAreRecorded, CallIsRecorded
    <3>2. EndsOf(i)' = EndsOf(i) /\ StartsOf(i)' = StartsOf(i) \cup {m}
      BY <2>1, StartAdded
    <3>3. EndsOf(i)' = {} /\ StartsOf(i)' = {m} /\ m \in DOMAIN agentJournal'
      BY <2>1, <3>1, <3>2 DEF Unrecorded, JournalGrown
    <3>4. Started(i)'
      BY <3>3 DEF Started
    <3> QED
      BY <1>2, <2>2, <3>4 DEF CallIsRecorded, CallMoves
  <2>3. CASE j # i
    <3>1. SameCall(j)
      BY <2>1, <2>3, StartAdded DEF SameCall, JournalGrown
    <3> QED
      BY <1>2, <1>5, <2>3, <3>1, OtherCallKeeps
  <2> QED
    BY <2>2, <2>3
<1>6. Story'
  BY <1>1, <1>4, <1>5 DEF AgentIInv, Story, ToolOnly, CallsAreRecorded
<1> QED
  BY <1>4, <1>6 DEF AgentIInv

LEMMA ToolEndsKeeps ==
  ASSUME Agent!AgentAssumption, AgentIInv, NEW i \in DOMAIN toolCall, Agent!ToolEnds(i)
PROVE  AgentIInv'
<1>1. ToolOnly /\ toolCall[i].at = "running"
  BY DEF Agent!ToolEnds, ToolOnly, Agent!runVars, Agent!recordVars
<1>2. CallMoves(i, "ended") /\ i \in Nat
  BY CallChanges, CallHasAgent, <1>1 DEF Agent!ToolEnds, AgentIInv, AgentTypes, LoopTypes
<1>3. PICK kind \in {"tool completed", "tool failed"} :
        /\ agent.silent => agentJournal' = agentJournal
        /\ ~agent.silent => JournalGrown(Len(agentJournal) + 1, kind, i)
  BY <1>2, JournalGrows DEF Agent!ToolEnds, Agent!Emit, AgentIInv, AgentKinds
<1>4. AgentTypes' /\ AgentStages' /\ CallsEnd' /\ BreaksAreKnown' /\ DoneIsOver' /\ ArchiveHasAll'
      /\ LastIsEnd'
      /\ (AnswersInOrder => AnswersInOrder')
  <2>1. agentJournal' = agentJournal \/ CallGrows(i)
    BY <1>3 DEF CallGrows, JournalGrown
  <2> QED
    BY <1>1, <1>2, <2>1, ToolKeeps
<1>5. ASSUME CallsAreRecorded, ~agent.silent, NEW j \in Nat PROVE CallIsRecorded(j)'
  <2> DEFINE m == Len(agentJournal) + 1
  <2>1. JournalGrown(m, kind, i)
    BY <1>3, <1>5
  <2> HIDE DEF m
  <2>2. CASE j = i
    <3>1. Started(i)
      BY <1>1, <1>2, <1>5 DEF CallsAreRecorded, CallIsRecorded
    <3>2. PICK k \in DOMAIN agentJournal : StartsOf(i) = {k} /\ EndsOf(i) = {}
      BY <3>1 DEF Started
    <3>3. StartsOf(i)' = StartsOf(i) /\ EndsOf(i)' = EndsOf(i) \cup {m}
      BY <2>1, EndAdded
    <3>4. StartsOf(i)' = {k} /\ EndsOf(i)' = {m} /\ k < m /\ k \in DOMAIN agentJournal'
          /\ m \in DOMAIN agentJournal'
      BY <2>1, <3>2, <3>3 DEF JournalGrown
    <3>5. Recorded(i)'
      BY <3>4 DEF Recorded
    <3> QED
      BY <1>2, <2>2, <3>5 DEF CallIsRecorded, CallMoves
  <2>3. CASE j # i
    <3>1. SameCall(j)
      BY <2>1, <2>3, EndAdded DEF SameCall, JournalGrown
    <3> QED
      BY <1>2, <1>5, <2>3, <3>1, OtherCallKeeps
  <2> QED
    BY <2>2, <2>3
<1>6. Story'
  BY <1>1, <1>4, <1>5 DEF AgentIInv, Story, ToolOnly, CallsAreRecorded
<1> QED
  BY <1>4, <1>6 DEF AgentIInv

-----------------------------------------------------------------------------
(* The loop reads an answer.                                               *)
TakenFrom(s, t) ==
  /\ s \in Seq(ItemType) /\ t \in Seq(ItemType) /\ Len(s) \in Nat \ {0} /\ Len(t) = Len(s) - 1
  /\ DOMAIN s = 1..Len(s) /\ DOMAIN t = 1..(Len(s) - 1)
  /\ \A k \in 1..(Len(s) - 1) : t[k] = s[k + 1]

LEMMA TailTaken == ASSUME NEW s \in Seq(ItemType), s # <<>>
  PROVE TakenFrom(s, Tail(s)) /\ Head(s) = s[1] /\ s[1] \in ItemType
<1>1. Tail(s) \in Seq(ItemType) /\ Len(Tail(s)) = Len(s) - 1 /\ Len(s) \in Nat \ {0} /\ Head(s) = s[1]
      /\ \A k \in 1..(Len(s) - 1) : Tail(s)[k] = s[k + 1]
  OBVIOUS
<1>2. DOMAIN s = 1..Len(s) /\ DOMAIN Tail(s) = 1..(Len(s) - 1)
  BY <1>1
<1>3. s[1] \in ItemType
  BY <1>1, <1>2
<1> QED
  BY <1>1, <1>2, <1>3 DEF TakenFrom

(* What is heard is the next answer, and what is left follows it.          *)
LEMMA HeardNext ==
  ASSUME AgentTypes, AnswersInOrder, output # <<>>, TakenFrom(output, output'), said' = said
  PROVE  /\ output[1].end = "error" => output' = <<>> /\ Heard' = Heard
         /\ output[1].end # "error" => output[1].n = Heard + 1 /\ Heard' = Heard + 1
         /\ \A k \in DOMAIN output' :
              IF output'[k].end = "error" THEN k = Len(output') /\ agent.at = "over"
              ELSE output[1].end # "error" /\ output'[k].n = Heard + 1 + k
<1>1. PICK l \in Nat : l = Len(output) /\ l # 0
  BY DEF TakenFrom
<1>2. /\ DOMAIN output = 1..l /\ DOMAIN output' = 1..(l - 1) /\ Len(output') = l - 1
      /\ \A k \in 1..(l - 1) : output'[k] = output[k + 1]
      /\ output \in Seq(ItemType) /\ output' \in Seq(ItemType)
  BY <1>1 DEF TakenFrom
<1>3. PICK s \in Nat, h \in Nat : s = said /\ h = Heard
  BY DEF AgentTypes, LoopTypes, AnswersInOrder
<1>4. \A k \in 1..l : IF output[k].end = "error" THEN k = l /\ agent.at = "over" ELSE output[k].n = h + k
  BY <1>1, <1>2, <1>3 DEF AnswersInOrder
<1>5. Unread = IF output[l].end = "error" THEN l - 1 ELSE l
  BY <1>1 DEF Unread
<1>6. output' = <<>> <=> l = 1
  <2>1. l = 1 => Len(output') = 0
    BY <1>2
  <2>2. output' = <<>> => Len(output') = 0 /\ l - 1 = 0
    BY <1>2
  <2> QED
    BY <1>1, <1>2, <2>1, <2>2, EmptySeq
<1>7. CASE l = 1
  <2>1. output' = <<>> /\ Len(<<>>) = 0 /\ DOMAIN output' = {}
    BY <1>2, <1>6, <1>7
  <2>2. Unread' = 0
    BY <2>1 DEF Unread
  <2>3. Heard' = s
    BY <1>3, <2>2 DEF Heard
  <2>4. CASE output[1].end = "error"
    <3>1. Unread = 0
      BY <1>5, <1>7, <2>4
    <3>2. Heard = s
      BY <1>3, <3>1 DEF Heard
    <3> QED
      BY <2>1, <2>3, <2>4, <3>2
  <2>5. CASE output[1].end # "error"
    <3>1. Unread = 1
      BY <1>5, <1>7, <2>5
    <3>2. h = s - 1 /\ output[1].n = h + 1
      BY <1>3, <1>4, <1>7, <2>5, <3>1 DEF Heard
    <3>3. s = h + 1
      BY <3>2
    <3> QED
      BY <1>3, <2>1, <2>3, <2>5, <3>2, <3>3
  <2> QED
    BY <2>4, <2>5
<1>8. CASE l # 1
  <2>1. output[1].end # "error" /\ output[1].n = h + 1
    BY <1>1, <1>4, <1>8
  <2>2. output' # <<>> /\ output'[Len(output')] = output[l]
    <3>1. l - 1 \in 1..(l - 1) /\ (l - 1) + 1 = l
      BY <1>1, <1>8
    <3> QED
      BY <1>2, <1>6, <1>8, <3>1
  <2>3. Unread' = IF output[l].end = "error" THEN (l - 1) - 1 ELSE l - 1
    BY <1>2, <2>2 DEF Unread
  <2>4. Unread \in Nat \ {0} /\ Unread' = Unread - 1
    BY <1>1, <1>5, <1>8, <2>3
  <2>5. PICK u \in Nat : u = Unread /\ Unread' = u - 1
    BY <2>4
  <2>6. Heard' = s - (u - 1) /\ h = s - u
    BY <1>3, <2>5 DEF Heard
  <2>7. Heard' = h + 1
    BY <2>6
  <2>8. ASSUME NEW k \in 1..(l - 1)
        PROVE IF output'[k].end = "error" THEN k = l - 1 /\ agent.at = "over" ELSE output'[k].n = h + 1 + k
    <3>1. k + 1 \in 1..l /\ (k + 1 = l => k = l - 1) /\ h + (k + 1) = h + 1 + k
      BY <1>1
    <3>2. output'[k] = output[k + 1]
      BY <1>2
    <3> QED
      BY <1>4, <3>1, <3>2
  <2> QED
    BY <1>2, <1>3, <2>1, <2>7, <2>8
<1> QED
  BY <1>7, <1>8

LEMMA DeltaAdded == ASSUME NEW m, NEW of, JournalGrown(m, "delta", of)
  PROVE DeltasAt' = DeltasAt \cup {m} /\ m \notin DeltasAt
        /\ \A i \in DeltasAt : i \in Nat /\ i < m /\ agentJournal'[i] = agentJournal[i]
BY DEF JournalGrown, DeltasAt

LEMMA ReadKeepsOrder ==
  ASSUME AgentTypes, AnswersInOrder, ~agent.silent, agent'.at = agent.at, Agent!Read
  PROVE  AnswersInOrder'
<1>1. output \in Seq(ItemType) /\ flow \in FlowType /\ flow.last = Heard /\ flow.usage = Heard
  BY DEF AgentTypes, LoopTypes, Agent!Read, AnswersInOrder
<1>2. TakenFrom(output, output') /\ Head(output) = output[1] /\ output[1] \in ItemType /\ output # <<>>
      /\ said' = said
  BY <1>1, TailTaken DEF Agent!Read
<1>3. PICK h \in Nat : h = Heard
  BY DEF AnswersInOrder
<1>4. /\ output[1].end = "error" => output' = <<>> /\ Heard' = h
      /\ output[1].end # "error" => output[1].n = h + 1 /\ Heard' = h + 1
      /\ \A k \in DOMAIN output' :
           IF output'[k].end = "error" THEN k = Len(output') /\ agent.at = "over"
           ELSE output[1].end # "error" /\ output'[k].n = h + 1 + k
  BY <1>2, <1>3, HeardNext
<1>5. CASE output[1].end = "error"
  <2>1. agentJournal' = agentJournal /\ flow' = [flow EXCEPT !.at = "failed"]
    BY <1>2, <1>5 DEF Agent!Read
  <2>2. flow'.at = "failed" /\ DeltasAt' = DeltasAt /\ DOMAIN output' = {}
    BY <1>1, <1>4, <1>5, <2>1 DEF FlowType, DeltasAt
  <2> QED
    BY <1>3, <1>4, <1>5, <2>1, <2>2 DEF AnswersInOrder
<1>6. CASE output[1].end # "error"
  <2> DEFINE m == Len(agentJournal) + 1
  <2>1. JournalGrown(m, "delta", h + 1)
    <3>1. Agent!Record("delta", h + 1) /\ h + 1 \in Nat
      BY <1>2, <1>4, <1>6 DEF Agent!Read, Agent!Emit
    <3> QED
      BY <3>1, JournalGrows DEF AgentKinds
  <2> HIDE DEF m
  <2>2. /\ DeltasAt' = DeltasAt \cup {m} /\ m \notin DeltasAt
        /\ \A i \in DeltasAt : i \in Nat /\ i < m /\ agentJournal'[i] = agentJournal[i]
        /\ agentJournal'[m].of = h + 1 /\ m \in Nat
    BY <2>1, DeltaAdded DEF JournalGrown
  <2>3. {agentJournal'[i].of : i \in DeltasAt'} = 1..(h + 1)
    <3>1. {agentJournal'[i].of : i \in DeltasAt'} = {agentJournal[i].of : i \in DeltasAt} \cup {h + 1}
      BY <2>2
    <3>2. {agentJournal[i].of : i \in DeltasAt} = 1..h /\ 1..(h + 1) = 1..h \cup {h + 1}
      BY <1>3 DEF AnswersInOrder
    <3> QED
      BY <3>1, <3>2
  <2>4. ASSUME NEW i \in DeltasAt', NEW j \in DeltasAt', i < j
        PROVE  agentJournal'[i].of < agentJournal'[j].of
    <3>1. \A d \in DeltasAt : agentJournal[d].of \in 1..h
      BY <1>3 DEF AnswersInOrder
    <3>2. CASE j = m
      <4>1. i \in DeltasAt
        BY <2>2, <2>4, <3>2
      <4>2. agentJournal'[i].of \in 1..h /\ agentJournal'[j].of = h + 1
        BY <2>2, <3>1, <3>2, <4>1
      <4> QED
        BY <4>2
    <3>3. CASE j # m
      <4>1. j \in DeltasAt /\ i \in DeltasAt
        BY <2>2, <2>4, <3>3
      <4> QED
        BY <2>2, <2>4, <4>1 DEF AnswersInOrder
    <3> QED
      BY <3>2, <3>3
  <2>5. flow'.at \in {"reading", "done"} => flow'.last = h + 1 /\ flow'.usage = h + 1
    <3>1. CASE output[1].end = "whole"
      <4>1. flow' = [flow EXCEPT !.last = h + 1, !.usage = @ + 1]
        BY <1>2, <1>4, <1>6, <3>1 DEF Agent!Read
      <4> QED
        BY <1>1, <1>3, <4>1 DEF FlowType
    <3>2. CASE output[1].end # "whole"
      <4>1. flow' = [flow EXCEPT !.at = "failed"]
        BY <1>2, <3>2 DEF Agent!Read
      <4> QED
        BY <1>1, <4>1 DEF FlowType
    <3> QED
      BY <3>1, <3>2
  <2>6. \A k \in DOMAIN output' :
          IF output'[k].end = "error" THEN k = Len(output') /\ agent'.at = "over" ELSE output'[k].n = Heard' + k
    BY <1>4, <1>6
  <2> QED
    BY <1>4, <1>6, <2>3, <2>4, <2>5, <2>6 DEF AnswersInOrder
<1> QED
  BY <1>5, <1>6

LEMMA ReadKeeps == ASSUME Agent!AgentAssumption, AgentIInv, Agent!Read PROVE AgentIInv'
<1>1. /\ UNCHANGED <<stage, status, exposed, agent, said, toolCall, agentArchive, endsAt, retried>>
      /\ flow.at = "reading" /\ output # <<>>
  BY DEF Agent!Read, Agent!runVars, Agent!recordVars
<1>2. TakenFrom(output, output') /\ Head(output) = output[1] /\ output[1] \in ItemType
  BY <1>1, TailTaken DEF Agent!Read, AgentIInv, AgentTypes, LoopTypes
<1>3. flow' \in FlowType /\ (flow'.at = "reading" \/ (flow'.at = "failed" /\ output[1].end # "whole"))
  <2>1. flow \in FlowType /\ output[1].n \in Nat
    BY <1>2 DEF AgentIInv, AgentTypes, LoopTypes, ItemType
  <2>2. CASE output[1].end = "whole"
    <3>1. flow' = [flow EXCEPT !.last = output[1].n, !.usage = @ + 1]
      BY <1>2, <2>2 DEF Agent!Read
    <3> DEFINE one == [flow EXCEPT !.last = output[1].n]
    <3>2. one \in FlowType /\ one.at = "reading" /\ one.usage = flow.usage /\ flow.usage + 1 \in Nat
      BY <1>1, <2>1 DEF FlowType
    <3>3. flow' = [one EXCEPT !.usage = flow.usage + 1]
      BY <3>1, Zenon
    <3> HIDE DEF one
    <3> QED
      BY <3>2, <3>3 DEF FlowType
  <2>3. CASE output[1].end # "whole"
    <3>1. flow' = [flow EXCEPT !.at = "failed"]
      BY <1>2, <2>3 DEF Agent!Read
    <3> QED
      BY <2>1, <2>3, <3>1 DEF FlowType
  <2> QED
    BY <2>2, <2>3
<1>4. /\ stage # "idle" /\ agent.at # "off" /\ (~agent.silent => stage = "running")
      /\ ~agent.silent => status # "completed" /\ endsAt = 0
      /\ ~(stage \in {"terminal", "reported"} /\ status = "completed")
  <2>1. (stage = "idle" => flow = Agent!NotReading) /\ Agent!NotReading.at = "off"
    BY DEF AgentIInv, AgentStages, Agent!NotReading
  <2>2. stage # "idle" /\ agent.at # "off" /\ (~agent.silent => stage = "running")
    BY <1>1, <2>1 DEF AgentIInv, AgentStages
  <2> QED
    BY <1>1, <2>2 DEF AgentIInv, AgentStages
<1>5. /\ agent.silent => agentJournal' = agentJournal
      /\ agentJournal' = agentJournal \/ JournalGrown(Len(agentJournal) + 1, "delta", output[1].n)
  <2>1. output[1].n \in Nat
    BY <1>2 DEF ItemType
  <2> QED
    BY <1>2, <2>1, JournalGrows DEF Agent!Read, Agent!Emit, AgentIInv, AgentKinds
<1>6. agentJournal' \in Seq(AgentEventType) /\ endsAt' \in 0..Len(agentJournal')
  <2>1. CASE agentJournal' = agentJournal
    BY <1>1, <2>1 DEF AgentIInv, AgentTypes, LifecycleTypes
  <2>2. CASE agentJournal' # agentJournal
    <3>1. ~agent.silent /\ endsAt' = 0
      BY <1>1, <1>4, <1>5, <2>2
    <3>2. agentJournal' \in Seq(AgentEventType) /\ Len(agentJournal') \in Nat
      BY <1>5, <2>2 DEF JournalGrown
    <3> QED
      BY <3>1, <3>2
  <2> QED
    BY <2>1, <2>2
<1>7. AgentTypes'
  BY <1>1, <1>2, <1>3, <1>6 DEF AgentIInv, AgentTypes, LifecycleTypes, LoopTypes, TakenFrom
<1>8. AgentStages'
  BY <1>1, <1>3, <1>4 DEF AgentIInv, AgentStages
<1>9. CallsEnd' /\ DoneIsOver' /\ ArchiveHasAll'
  BY <1>1, <1>3, <1>4 DEF AgentIInv, CallsEnd, DoneIsOver, ArchiveHasAll
<1>10. BreaksAreKnown'
  <2>1. ASSUME NEW k \in DOMAIN output', output'[k].end # "whole" PROVE agent.at = "over" \/ retried
    <3>1. k + 1 \in DOMAIN output /\ output'[k] = output[k + 1]
      BY <1>2 DEF TakenFrom
    <3> QED
      BY <2>1, <3>1 DEF AgentIInv, BreaksAreKnown
  <2>2. output[1].end # "whole" => agent.at = "over" \/ retried
    BY <1>2 DEF TakenFrom, AgentIInv, BreaksAreKnown
  <2> QED
    BY <1>1, <1>3, <2>1, <2>2 DEF BreaksAreKnown
<1>11. LastIsEnd'
  BY <1>1, <1>4, <1>5 DEF AgentIInv, LastIsEnd, EndIsMarked, Agent!NothingAfterTheEnd
<1>12. Story'
  <2> SUFFICES ASSUME ~agent.silent, AnswersInOrder, CallsAreRecorded
      PROVE  AnswersInOrder' /\ CallsAreRecorded'
    BY <1>1 DEF AgentIInv, Story
  <2>1. AnswersInOrder'
    BY <1>1, ReadKeepsOrder DEF AgentIInv
  <2>2. \A i \in Nat : SameCall(i)
    <3>1. CASE agentJournal' = agentJournal
      BY <3>1 DEF SameCall, StartsOf, EndsOf
    <3>2. CASE agentJournal' # agentJournal
      BY <1>5, <3>2, CallsStay DEF SameCall, JournalGrown
    <3> QED
      BY <3>1, <3>2
  <2>3. CallsAreRecorded'
    BY <1>1, <2>2, CallsUntouched
  <2> QED
    BY <2>1, <2>3
<1> QED
  BY <1>7, <1>8, <1>9, <1>10, <1>11, <1>12 DEF AgentIInv

-----------------------------------------------------------------------------
LEMMA AgentRestKeeps == ASSUME AgentIInv, UNCHANGED Agent!agentVars PROVE AgentIInv'
<1>1. UNCHANGED <<stage, status, exposed, agent, output, said, toolCall, flow, agentJournal,
agentArchive, endsAt, retried>>
  BY DEF Agent!agentVars
<1>2. AgentTypes' /\ AgentStages'
  BY <1>1 DEF AgentIInv, AgentTypes, LifecycleTypes, LoopTypes, AgentStages
<1>3. CallsEnd' /\ BreaksAreKnown' /\ DoneIsOver' /\ ArchiveHasAll' /\ LastIsEnd'
  BY <1>1 DEF AgentIInv, CallsEnd, BreaksAreKnown, DoneIsOver, ArchiveHasAll, LastIsEnd, EndIsMarked, Agent!NothingAfterTheEnd
<1>4. Story'
  BY <1>1, QuietStory DEF AgentIInv, Quiet
<1> QED
  BY <1>2, <1>3, <1>4 DEF AgentIInv

LEMMA AgentStepKeeps == ASSUME Agent!AgentAssumption, AgentIInv, [Agent!Next]_(Agent!agentVars)
PROVE  AgentIInv'
<1>1. CASE \E allowed \in Requested, remember \in BOOLEAN : Agent!Begin(allowed, remember)
  BY <1>1, BeginKeeps
<1>2. ASSUME NEW n \in 0..2, NEW tools \in [1..n -> exposed], Agent!Answer(tools) PROVE AgentIInv'
  <2>1. tools \in Seq(exposed)
    OBVIOUS
  <2> QED
    BY <1>2, <2>1, AnswerKeeps
<1>3. CASE Agent!TryAgain
  BY <1>3, TryAgainKeeps
<1>4. CASE Agent!GiveUp
  BY <1>4, GiveUpKeeps
<1>5. CASE Agent!ToolsEnd
  BY <1>5, ToolsEndKeeps
<1>6. CASE Agent!Read
  BY <1>6, ReadKeeps
<1>7. CASE Agent!ReadsNoMore
  BY <1>7, ReadsNoMoreKeeps
<1>8. CASE Agent!Lifecycle
  BY <1>8, ReturnsKeeps, EmitResultKeeps, TakeArchiveKeeps, EmitTerminalKeeps, LearnKeeps, FinishKeeps,
     PanicsKeeps
     DEF Agent!Lifecycle
<1>9. ASSUME NEW i \in DOMAIN toolCall, Agent!Tool(i) PROVE AgentIInv'
  BY <1>9, ToolRefusedKeeps, ToolStartsKeeps, ToolEndsKeeps DEF Agent!Tool
<1>10. CASE UNCHANGED Agent!agentVars
  BY <1>10, AgentRestKeeps
<1> QED
  BY <1>1, <1>2, <1>3, <1>4, <1>5, <1>6, <1>7, <1>8, <1>9, <1>10 DEF Agent!Next

LEMMA AgentInvariance == ASSUME Agent!AgentAssumption PROVE Agent!Spec => []AgentIInv
BY AgentInitHolds, AgentStepKeeps, PTL DEF Agent!Spec

-----------------------------------------------------------------------------
(* The agent's steps stay within its limit, a run has tools of the         *)
(* registry only, and its last event is one of the journal.                *)
THEOREM AgentTypeCorrect == ASSUME Agent!AgentAssumption PROVE Agent!Spec => []Agent!TypeOK
<1>1. AgentIInv => Agent!TypeOK
  <2> SUFFICES ASSUME AgentIInv PROVE Agent!TypeOK
    OBVIOUS
  <2>1. agent.steps \in Nat /\ agent.limit \in {0, MaxStep, LearnSteps} /\ agent.steps <= agent.limit
    BY DEF AgentIInv, AgentTypes, LoopTypes, AgentType
  <2>2. agent.limit \in Nat
    BY <2>1 DEF Agent!AgentAssumption
  <2>3. agent.steps \in 0..agent.limit
    BY <2>1, <2>2
  <2> QED
    BY <2>1, <2>3 DEF Agent!TypeOK, AgentIInv, AgentTypes, LifecycleTypes
<1> QED
  BY <1>1, AgentInvariance, PTL

LEMMA CompletedIsWhole == ASSUME AgentIInv PROVE Agent!ArchiveIsWhole
<1> DEFINE deltas == {i \in agentArchive.events : agentJournal[i].kind = "delta"}
<1> SUFFICES ASSUME stage = "reported", status = "completed" PROVE Agent!ArchiveIsWhole
  BY DEF Agent!ArchiveIsWhole
<1>1. ~agent.silent /\ agent.at = "over" /\ output = <<>> /\ AnswersInOrder /\ CallsAreRecorded
  BY DEF AgentIInv, AgentStages, DoneIsOver, Story
<1>2. /\ agentArchive.message = said /\ agentArchive.usage = said
      /\ agentArchive.events \subseteq DOMAIN agentJournal
      /\ \A i \in DOMAIN agentJournal :
           agentJournal[i].kind \in {"delta", "tool started", "tool completed", "tool failed"} =>
             i \in agentArchive.events
  BY DEF AgentIInv, ArchiveHasAll
<1>3. Heard = said
  <2>1. said \in Nat /\ Len(<<>>) = 0
    BY DEF AgentIInv, AgentTypes, LoopTypes
  <2>2. Unread = 0
    BY <1>1, <2>1 DEF Unread
  <2> QED
    BY <2>1, <2>2 DEF Heard
<1>4. deltas = DeltasAt
  BY <1>2 DEF DeltasAt
<1>5. /\ {agentJournal[i].of : i \in deltas} = 1..said
      /\ \A i, j \in deltas : i < j => agentJournal[i].of < agentJournal[j].of
  <2> HIDE DEF deltas
  <2> QED
    BY <1>1, <1>3, <1>4 DEF AnswersInOrder
<1>6. ASSUME NEW i \in DOMAIN toolCall
      PROVE /\ toolCall[i].at = "ended"
            /\ Agent!At({"tool started"}, i) = StartsOf(i)
            /\ Agent!At({"tool completed", "tool failed"}, i) = EndsOf(i)
            /\ Unrecorded(i) \/ Recorded(i)
  <2>1. toolCall[i].at = "ended" /\ i \in Nat
    BY <1>1 DEF AgentIInv, CallsEnd, AgentTypes, LoopTypes
  <2>2. Agent!At({"tool started"}, i) = StartsOf(i)
    BY <1>2 DEF Agent!At, StartsOf
  <2>3. Agent!At({"tool completed", "tool failed"}, i) = EndsOf(i)
    BY <1>2 DEF Agent!At, EndsOf
  <2> QED
    BY <1>1, <2>1, <2>2, <2>3 DEF CallsAreRecorded, CallIsRecorded
<1>7. ASSUME NEW i \in DOMAIN toolCall
      PROVE LET begins == Agent!At({"tool started"}, i)
                finishes == Agent!At({"tool completed", "tool failed"}, i) IN
            /\ toolCall[i].at = "ended"
            /\ begins = {} => finishes = {}
            /\ begins # {} => \E j, k \in agentArchive.events : begins = {j} /\ finishes = {k} /\ j < k
  <2>1. CASE Unrecorded(i)
    BY <1>6, <2>1 DEF Unrecorded
  <2>2. CASE Recorded(i)
    <3>1. PICK j, k \in DOMAIN agentJournal : StartsOf(i) = {j} /\ EndsOf(i) = {k} /\ j < k
      BY <2>2 DEF Recorded
    <3>2. j \in Agent!At({"tool started"}, i) /\ k \in Agent!At({"tool completed", "tool failed"}, i)
      BY <1>6, <3>1
    <3>3. j \in agentArchive.events /\ k \in agentArchive.events
      BY <3>2 DEF Agent!At
    <3> QED
      BY <1>6, <3>1, <3>3
  <2> QED
    BY <1>6, <2>1, <2>2
<1> QED
  BY <1>2, <1>5, <1>7 DEF Agent!ArchiveIsWhole

(* A run that is reported as completed carries every answer and every tool *)
(* call once and in order. Only tool calls of an agent that outlives a     *)
(* reported failure, and a panic of the learning run, are recorded after   *)
(* the end of a run.                                                       *)
LEMMA AgentEndsAreFinal == ASSUME Agent!AgentAssumption PROVE Agent!Spec => []Agent!EndIsFinal
<1>1. AgentIInv => Agent!EndIsFinal
  BY CompletedIsWhole DEF Agent!EndIsFinal, AgentIInv, LastIsEnd
<1> QED
  BY <1>1, AgentInvariance, PTL

-----------------------------------------------------------------------------
(* Transcript: the message ids of a run and its end.                       *)

ToldKinds ==
  Told!Ends \cup Told!Deltas \cup {"started", "result", "tool started", "tool completed", "tool failed"}
StreamKinds ==
  Told!Ends \cup Told!Deltas \cup {"started", "message completed", "tool started", "tool finished"}
ToldEvent(kinds) == [seq : Nat, kind : kinds, of : Nat \cup Tools, text : Seq(Nat)]

(* What is said in the middle of a run, and what ends it.                  *)
EndsWithEnd(es) == es # <<>> /\ Told!Last(es).kind \in Told!Ends
NoEndYet(es) == \A i \in 1..Len(es) : es[i].kind \notin Told!Ends

IdsTyped ==
  /\ minted \in Nat /\ current \in 0..minted
  /\ ids \in [Provided \cup {Told!Stderr} -> 0..minted]

ToldIInv ==
  /\ IdsTyped
  /\ ended \in BOOLEAN
  /\ recorded \in Seq(ToldEvent(ToldKinds)) /\ shown \in Seq(ToldEvent(StreamKinds))
  /\ ended => EndsWithEnd(shown)
  /\ ~ended => NoEndYet(shown)

(* An event is shown as an end exactly when it is one.                     *)
LEMMA StreamedKind ==
  ASSUME NEW e \in ToldEvent(ToldKinds)
  PROVE  /\ Told!Streamed(e) \in ToldEvent(StreamKinds)
         /\ Told!Streamed(e).kind \in Told!Ends <=> e.kind \in Told!Ends
<1> DEFINE to == CASE e.kind = "cancelled" -> "failed"
                   [] e.kind \in {"tool completed", "tool failed"} -> "tool finished"
                   [] e.kind = "result" -> "message completed"
                   [] OTHER -> e.kind
<1>1. e.kind \in ToldKinds
  BY DEF ToldEvent
<1>2. Told!Streamed(e) = [e EXCEPT !.kind = to]
  BY DEF Told!Streamed
<1>3. to \in StreamKinds /\ (to \in Told!Ends <=> e.kind \in Told!Ends)
  BY <1>1 DEF ToldKinds, StreamKinds, Told!Ends, Told!Deltas
<1> HIDE DEF to
<1>4. Told!Streamed(e) \in ToldEvent(StreamKinds) /\ Told!Streamed(e).kind = to
  BY <1>2, <1>3 DEF ToldEvent
<1> QED
  BY <1>3, <1>4

LEMMA ToldEventTyped ==
  ASSUME ToldIInv, NEW kind \in ToldKinds, NEW of \in Nat \cup Tools, NEW text \in Seq(Nat)
  PROVE  Told!Event(kind, of, text) \in ToldEvent(ToldKinds) /\ Told!Event(kind, of, text).kind = kind
<1>1. Len(recorded) \in Nat
  BY DEF ToldIInv
<1> QED
  BY <1>1 DEF Told!Event, ToldEvent

LEMMA JournalShows ==
  ASSUME ToldIInv, NEW e \in ToldEvent(ToldKinds), ~ended, Told!Journal(e)
  PROVE  /\ recorded' \in Seq(ToldEvent(ToldKinds)) /\ shown' \in Seq(ToldEvent(StreamKinds))
         /\ e.kind \in Told!Ends => EndsWithEnd(shown')
         /\ e.kind \notin Told!Ends => NoEndYet(shown')
<1> DEFINE s == Told!Streamed(e)
<1>1. s \in ToldEvent(StreamKinds) /\ (s.kind \in Told!Ends <=> e.kind \in Told!Ends)
  BY StreamedKind
<1>2. recorded \in Seq(ToldEvent(ToldKinds)) /\ shown \in Seq(ToldEvent(StreamKinds)) /\ NoEndYet(shown)
  BY DEF ToldIInv
<1>3. recorded' \in Seq(ToldEvent(ToldKinds))
  <2>1. recorded' = recorded \/ recorded' = Append(recorded, e)
    BY DEF Told!Journal
  <2> QED
    BY <1>2, <2>1
<1>4. shown' = shown \o (IF s.kind = "message completed" THEN <<>> ELSE <<s>>)
  BY DEF Told!Journal, Told!Projected
<1> HIDE DEF s
<1>5. CASE s.kind = "message completed"
  <2>1. shown' = shown \o <<>>
    BY <1>4, <1>5
  <2>2. shown' = shown
    BY <1>2, <2>1, ConcatEmptySeq
  <2>3. "message completed" \notin Told!Ends
    BY DEF Told!Ends
  <2> QED
    BY <1>1, <1>2, <1>3, <1>5, <2>2, <2>3
<1>6. CASE s.kind # "message completed"
  <2>1. shown' = shown \o <<s>>
    BY <1>4, <1>6
  <2>2. shown' = Append(shown, s)
    BY <1>1, <1>2, <2>1
  <2>3. /\ shown' \in Seq(ToldEvent(StreamKinds)) /\ Len(shown') = Len(shown) + 1
        /\ shown'[Len(shown) + 1] = s /\ \A i \in 1..Len(shown) : shown'[i] = shown[i]
    BY <1>1, <1>2, <2>2
  <2>4. PICK k \in Nat : k = Len(shown)
    BY <1>2
  <2>5. e.kind \in Told!Ends => EndsWithEnd(shown')
    <3>1. shown' # <<>> /\ Told!Last(shown') = s
      BY <2>3, <2>4 DEF Told!Last
    <3> QED
      BY <1>1, <3>1 DEF EndsWithEnd
  <2>6. e.kind \notin Told!Ends => NoEndYet(shown')
    <3>1. \A i \in 1..(k + 1) : i = k + 1 \/ i \in 1..k
      OBVIOUS
    <3>2. \A i \in 1..k : shown[i].kind \notin Told!Ends
      BY <1>2, <2>4 DEF NoEndYet
    <3> QED
      BY <1>1, <2>3, <2>4, <3>1, <3>2 DEF NoEndYet
  <2> QED
    BY <1>3, <2>3, <2>5, <2>6
<1> QED
  BY <1>5, <1>6

LEMMA ToldInitHolds == Told!Init => ToldIInv
<1> SUFFICES ASSUME Told!Init PROVE ToldIInv
  OBVIOUS
<1>1. <<>> \in Seq(ToldEvent(ToldKinds)) /\ <<>> \in Seq(ToldEvent(StreamKinds))
  OBVIOUS
<1>2. NoEndYet(<<>>)
  BY DEF NoEndYet
<1>3. IdsTyped
  BY DEF Told!Init, IdsTyped
<1> QED
  BY <1>1, <1>2, <1>3 DEF Told!Init, ToldIInv

LEMMA GivenId == ASSUME IdsTyped, NEW p \in Provided \cup {Told!Stderr}, Told!ForProvider(p)
PROVE  IdsTyped'
<1>1. CASE ids[p] # 0
  BY <1>1 DEF IdsTyped, Told!ForProvider
<1>2. CASE ids[p] = 0
  <2>1. minted' = minted + 1 /\ current' = minted + 1 /\ ids' = [ids EXCEPT ![p] = minted + 1]
    BY <1>2 DEF Told!ForProvider
  <2>2. minted \in Nat /\ ids \in [Provided \cup {Told!Stderr} -> 0..minted]
    BY DEF IdsTyped
  <2>3. PICK n \in Nat : n = minted
    BY <2>2
  <2>4. 0..n \subseteq 0..(n + 1) /\ n + 1 \in 0..(n + 1) /\ n + 1 \in Nat
    OBVIOUS
  <2>5. ids' \in [Provided \cup {Told!Stderr} -> 0..(n + 1)]
    BY <2>1, <2>2, <2>3, <2>4
  <2> QED
    BY <2>1, <2>3, <2>4, <2>5 DEF IdsTyped
<1> QED
  BY <1>1, <1>2

LEMMA CurrentId == ASSUME IdsTyped, Told!CurrentOrNew PROVE IdsTyped'
<1>1. CASE current # 0
  BY <1>1 DEF IdsTyped, Told!CurrentOrNew
<1>2. CASE current = 0
  <2>1. minted' = minted + 1 /\ current' = minted + 1 /\ ids' = ids
    BY <1>2 DEF Told!CurrentOrNew
  <2>2. PICK n \in Nat : n = minted
    BY DEF IdsTyped
  <2>3. 0..n \subseteq 0..(n + 1) /\ n + 1 \in 0..(n + 1) /\ n + 1 \in Nat
    OBVIOUS
  <2>4. ids' \in [Provided \cup {Told!Stderr} -> 0..(n + 1)]
    BY <2>1, <2>2, <2>3 DEF IdsTyped
  <2> QED
    BY <2>1, <2>2, <2>3, <2>4 DEF IdsTyped
<1> QED
  BY <1>1, <1>2

LEMMA ToldStepKeeps == ToldIInv /\ [Told!Next]_(Told!transcriptVars) => ToldIInv'
<1> SUFFICES ASSUME ToldIInv, [Told!Next]_(Told!transcriptVars) PROVE ToldIInv'
  OBVIOUS
<1>1. ASSUME NEW kind \in ToldKinds, NEW of \in Nat \cup Tools, NEW text \in Seq(Nat),
             Told!Journal(Told!Event(kind, of, text)),
             ~ended, IdsTyped', ended' \in BOOLEAN, ended' <=> kind \in Told!Ends
      PROVE  ToldIInv'
  <2>1. Told!Event(kind, of, text) \in ToldEvent(ToldKinds) /\ Told!Event(kind, of, text).kind = kind
    BY ToldEventTyped
  <2>2. /\ recorded' \in Seq(ToldEvent(ToldKinds)) /\ shown' \in Seq(ToldEvent(StreamKinds))
        /\ kind \in Told!Ends => EndsWithEnd(shown')
        /\ kind \notin Told!Ends => NoEndYet(shown')
    BY <1>1, <2>1, JournalShows
  <2> QED
    BY <1>1, <2>2 DEF ToldIInv, EndsWithEnd, NoEndYet
<1>2. IdsTyped /\ ended \in BOOLEAN
  BY DEF ToldIInv
<1>3. UNCHANGED <<ids, minted, current>> => IdsTyped'
  BY <1>2 DEF IdsTyped
<1>4. Len(recorded) + 1 \in Nat /\ <<Len(recorded) + 1>> \in Seq(Nat) /\ <<>> \in Seq(Nat)
  <2>1. Len(recorded) \in Nat
    BY DEF ToldIInv
  <2> QED
    BY <2>1
<1>5. ASSUME NEW kind \in Told!Deltas, NEW p \in Provided \cup {Told!Stderr, Told!NoId},
             Told!CliDelta(kind, p)
      PROVE  ToldIInv'
  <2>1. ~ended /\ ended' = ended /\ Told!Journal(Told!Event(kind, current', <<Len(recorded) + 1>>))
    BY <1>5 DEF Told!CliDelta, Told!Open
  <2>2. kind \in ToldKinds /\ kind \notin Told!Ends
    BY DEF ToldKinds, Told!Deltas, Told!Ends
  <2>3. IdsTyped'
    BY <1>2, <1>5, GivenId, CurrentId DEF Told!CliDelta
  <2>4. current' \in Nat \cup Tools
    BY <2>3 DEF IdsTyped
  <2> QED
    BY <1>1, <1>2, <1>4, <2>1, <2>2, <2>3, <2>4
<1>6. ASSUME NEW kind \in ToldKinds \ Told!Ends, NEW of \in Nat \cup Tools, NEW text \in Seq(Nat),
             Told!Journal(Told!Event(kind, of, text)),
             Told!Open, UNCHANGED <<ids, minted, current, ended>>
      PROVE  ToldIInv'
  BY <1>1, <1>2, <1>3, <1>6 DEF Told!Open
<1>7. ASSUME Told!SayStarted \/ Told!SayResult PROVE ToldIInv'
  <2>1. "started" \in ToldKinds \ Told!Ends /\ "result" \in ToldKinds \ Told!Ends
        /\ 0 \in Nat \cup Tools
    BY DEF ToldKinds, Told!Ends
  <2>2. Told!Open /\ UNCHANGED <<ids, minted, current, ended>>
    BY <1>7 DEF Told!SayStarted, Told!SayResult
  <2>3. Told!Journal(Told!Event("started", 0, <<>>)) \/ Told!Journal(Told!Event("result", 0, <<>>))
    BY <1>7 DEF Told!SayStarted, Told!SayResult
  <2> QED
    BY <1>4, <1>6, <2>1, <2>2, <2>3
<1>8. ASSUME NEW kind \in Told!Deltas, Told!AgentDelta(kind) PROVE ToldIInv'
  <2>1. kind \in ToldKinds \ Told!Ends
    BY DEF ToldKinds, Told!Ends, Told!Deltas
  <2>2. current \in Nat \cup Tools
    BY <1>2 DEF IdsTyped
  <2> QED
    BY <1>4, <1>6, <1>8, <2>1, <2>2 DEF Told!AgentDelta
<1>9. ASSUME NEW t \in Tools, NEW kind \in {"tool started", "tool completed", "tool failed"},
             Told!ToolEvent(kind, t)
      PROVE  ToldIInv'
  <2>1. kind \in ToldKinds \ Told!Ends
    BY DEF ToldKinds, Told!Ends
  <2> QED
    BY <1>4, <1>6, <1>9, <2>1 DEF Told!ToolEvent
<1>10. ASSUME Told!StartNew PROVE ToldIInv'
  <2>1. minted' = minted + 1 /\ current' = minted + 1 /\ UNCHANGED <<ids, recorded, shown, ended>>
    BY <1>10 DEF Told!StartNew
  <2>2. PICK n \in Nat : n = minted
    BY <1>2 DEF IdsTyped
  <2>3. 0..n \subseteq 0..(n + 1) /\ n + 1 \in 0..(n + 1) /\ n + 1 \in Nat
    OBVIOUS
  <2>4. ids' \in [Provided \cup {Told!Stderr} -> 0..(n + 1)]
    BY <1>2, <2>1, <2>2, <2>3 DEF IdsTyped
  <2>5. IdsTyped'
    BY <2>1, <2>2, <2>3, <2>4 DEF IdsTyped
  <2> QED
    BY <2>1, <2>5 DEF ToldIInv, EndsWithEnd, NoEndYet
<1>11. ASSUME NEW kind \in Told!Ends, Told!End(kind) PROVE ToldIInv'
  <2>1. kind \in ToldKinds /\ 0 \in Nat \cup Tools
    BY DEF ToldKinds
  <2>2. ended' = TRUE /\ ~ended /\ Told!Journal(Told!Event(kind, 0, <<>>))
        /\ UNCHANGED <<ids, minted, current>>
    BY <1>11 DEF Told!End
  <2> QED
    BY <1>1, <1>3, <1>4, <2>1, <2>2
<1>12. ASSUME UNCHANGED Told!transcriptVars PROVE ToldIInv'
  BY <1>12 DEF Told!transcriptVars, ToldIInv, IdsTyped, EndsWithEnd, NoEndYet
<1> QED
  BY <1>5, <1>7, <1>8, <1>9, <1>10, <1>11, <1>12 DEF Told!Next

(* The ids given are message ids, and what is shown ends with the end of   *)
(* the run exactly when the run has ended (TypeOK).                        *)
THEOREM TranscriptTypeCorrect == Told!Spec => []Told!TypeOK
<1>1. ToldIInv => Told!TypeOK
  <2> SUFFICES ASSUME ToldIInv PROVE Told!TypeOK
    OBVIOUS
  <2>1. DOMAIN ids = Provided \cup {Told!Stderr} /\ \A p \in DOMAIN ids : ids[p] \in 0..minted
    BY DEF ToldIInv, IdsTyped
  <2>2. ASSUME ~ended, EndsWithEnd(shown) PROVE FALSE
    <3>1. PICK k \in Nat : k = Len(shown)
      BY DEF ToldIInv
    <3>2. shown \in Seq(ToldEvent(StreamKinds)) /\ shown # <<>> /\ Told!Last(shown) = shown[k]
      BY <2>2, <3>1 DEF ToldIInv, EndsWithEnd, Told!Last
    <3>3. k # 0
      BY <3>1, <3>2, EmptySeq
    <3> QED
      BY <2>2, <3>1, <3>2, <3>3 DEF ToldIInv, EndsWithEnd, NoEndYet
  <2>3. ended <=> EndsWithEnd(shown)
    BY <2>2 DEF ToldIInv
  <2> QED
    BY <2>1, <2>3 DEF Told!TypeOK, ToldIInv, IdsTyped, EndsWithEnd
<1> QED
  BY <1>1, ToldInitHolds, ToldStepKeeps, PTL DEF Told!Spec

-----------------------------------------------------------------------------
(* Transcript: the archive of a journal, and what is told again of it.     *)

(* The least number principle, for a set.                                  *)
LessThan == {ss \in Nat \X Nat : ss[1] < ss[2]}

LEMMA LeastOf == ASSUME NEW T \in SUBSET Nat, T # {} PROVE \E k \in T : \A j \in T : k <= j
<1>1. OpToRel(<, Nat) = LessThan
  BY DEF OpToRel, LessThan
<1>2. IsWellFoundedOn(LessThan, Nat)
  BY <1>1, NatLessThanWellFounded
<1>3. PICK k \in T : \A y \in T : ~(<<y, k>> \in LessThan)
  BY <1>2, WFMin
<1>4. \A x, y \in Nat : y < x => <<y, x>> \in LessThan
  BY DEF LessThan
<1>5. ASSUME NEW j \in T PROVE k <= j
  <2>1. k \in Nat /\ j \in Nat /\ (k <= j \/ j < k)
    OBVIOUS
  <2>2. ~(j < k)
    BY <1>3, <1>4, <2>1
  <2> QED
    BY <2>1, <2>2
<1> QED
  BY <1>5

(* The archive is merged event by event: f[k] is that of the first k.      *)
Growing(es, n, f) ==
  f = [k \in 0..n |-> IF k = 0 THEN <<>> ELSE Told!Archived(f[k - 1], es[k])]

LEMMA ArchiveGrows == ASSUME NEW es, NEW n \in Nat PROVE \E f : Growing(es, n, f)
<1> DEFINE T == {k \in Nat : ~\E f : Growing(es, k, f)}
<1> SUFFICES ASSUME T # {} PROVE FALSE
  OBVIOUS
<1>1. PICK m \in T : \A j \in T : m <= j
  BY LeastOf
<1>2. m \in Nat /\ ~\E f : Growing(es, m, f)
  OBVIOUS
<1>3. CASE m = 0
  <2> DEFINE g == [k \in 0..0 |-> <<>>]
  <2>1. g = [k \in 0..0 |-> IF k = 0 THEN <<>> ELSE Told!Archived(g[k - 1], es[k])]
    OBVIOUS
  <2>2. Growing(es, 0, g)
    BY <2>1 DEF Growing
  <2> QED
    BY <1>2, <1>3, <2>2
<1>4. CASE m # 0
  <2>1. m - 1 \in Nat /\ m - 1 < m /\ ~(m <= m - 1)
    BY <1>2, <1>4
  <2>2. m - 1 \notin T
    BY <1>1, <2>1
  <2>3. PICK g : Growing(es, m - 1, g)
    BY <2>1, <2>2
  <2> DEFINE h == [k \in 0..m |-> IF k = m THEN Told!Archived(g[m - 1], es[m]) ELSE g[k]]
  <2>4. g = [k \in 0..(m - 1) |-> IF k = 0 THEN <<>> ELSE Told!Archived(g[k - 1], es[k])]
    BY <2>3 DEF Growing
  <2>5. ASSUME NEW k \in 0..m
        PROVE  h[k] = IF k = 0 THEN <<>> ELSE Told!Archived(h[k - 1], es[k])
    <3>1. k \in Nat /\ k <= m
      BY <1>2
    <3>2. CASE k = m
      <4>1. h[k] = Told!Archived(g[m - 1], es[m])
        BY <3>2
      <4>2. m - 1 \in 0..m /\ m - 1 # m
        BY <1>2, <2>1
      <4>3. h[m - 1] = g[m - 1]
        BY <4>2
      <4> QED
        BY <1>4, <3>2, <4>1, <4>3
    <3>3. CASE k # m
      <4>1. k \in 0..(m - 1)
        BY <1>2, <3>1, <3>3
      <4>2. h[k] = g[k]
        BY <3>3
      <4>3. g[k] = IF k = 0 THEN <<>> ELSE Told!Archived(g[k - 1], es[k])
        BY <2>4, <4>1
      <4>4. k # 0 => h[k - 1] = g[k - 1]
        <5>1. k # 0 => k - 1 \in 0..m /\ k - 1 # m
          BY <1>2, <4>1
        <5> QED
          BY <5>1
      <4> QED
        BY <4>2, <4>3, <4>4
    <3> QED
      BY <3>2, <3>3
  <2>6. h = [k \in 0..m |-> h[k]]
    OBVIOUS
  <2> HIDE DEF h
  <2>7. h = [k \in 0..m |-> IF k = 0 THEN <<>> ELSE Told!Archived(h[k - 1], es[k])]
    BY <2>5, <2>6
  <2> QED
    BY <1>2, <2>7 DEF Growing
<1> QED
  BY <1>3, <1>4

LEMMA ArchiveIsGrown ==
  ASSUME NEW es, Len(es) \in Nat
  PROVE  \E f : Growing(es, Len(es), f) /\ Told!Archive(es) = f[Len(es)]
<1> DEFINE a == CHOOSE f : f = [k \in 0..Len(es) |-> IF k = 0 THEN <<>> ELSE Told!Archived(f[k - 1], es[k])]
<1>1. \E f : f = [k \in 0..Len(es) |-> IF k = 0 THEN <<>> ELSE Told!Archived(f[k - 1], es[k])]
  BY ArchiveGrows DEF Growing
<1>2. a = [k \in 0..Len(es) |-> IF k = 0 THEN <<>> ELSE Told!Archived(a[k - 1], es[k])]
  BY <1>1
<1>3. Told!Archive(es) = a[Len(es)]
  BY DEF Told!Archive
<1> QED
  BY <1>2, <1>3 DEF Growing

-----------------------------------------------------------------------------
(* A journal in its order, and what its archive is after n events.         *)
Chunk == [seq : Nat, last : Nat, kind : ToldKinds, of : Nat \cup Tools, text : Seq(Nat)]

InJournal(es) ==
  /\ es \in Seq(ToldEvent(ToldKinds))
  /\ \A k \in 1..Len(es) :
       /\ es[k].seq = k /\ es[k].kind \notin Told!Ends
       /\ es[k].kind \in Told!Deltas => es[k].text = <<k>>

(* The deltas that a chunk has taken in.                                   *)
TakenIn(es, n, r) == {k \in 1..n : Told!Same(r, es[k])}

IsChunk(es, n, r) ==
  /\ r \in Chunk
  /\ r.seq \in 1..n /\ r.kind = es[r.seq].kind /\ r.of = es[r.seq].of /\ r.kind # "result"
  /\ r.kind \in Told!Deltas =>
       /\ Len(r.text) > 0 /\ Told!Increases(r.text)
       /\ \A x \in Nat : x \in TakenIn(es, n, r) <=> \E i \in 1..Len(r.text) : r.text[i] = x
       /\ r.seq = r.text[1] /\ r.last = r.text[Len(r.text)]

Covers(r, e) == IF e.kind \in Told!Deltas THEN Told!Same(r, e) ELSE r.seq = e.seq

Merged(es, n, rs) ==
  /\ rs \in Seq(Chunk)
  /\ \A i \in 1..Len(rs) : IsChunk(es, n, rs[i])
  /\ \A i, j \in 1..Len(rs) : i < j => rs[i].seq < rs[j].seq
  /\ \A k \in 1..n : es[k].kind # "result" => \E i \in 1..Len(rs) : Covers(rs[i], es[k])
  /\ \A i, j \in 1..Len(rs) : Told!Same(rs[i], rs[j]) => i = j

LEMMA NothingMerged == ASSUME NEW es PROVE Merged(es, 0, <<>>)
<1>1. <<>> \in Seq(Chunk) /\ Len(<<>>) = 0
  OBVIOUS
<1>2. 1..0 = {}
  OBVIOUS
<1> QED
  BY <1>1, <1>2 DEF Merged

(* An event that is not of a chunk leaves it what it is.                   *)
LEMMA ChunkStays ==
  ASSUME NEW es, NEW n \in Nat, NEW r, IsChunk(es, n, r), ~Told!Same(r, es[n + 1])
  PROVE  IsChunk(es, n + 1, r)
<1>1. 1..n \subseteq 1..(n + 1) /\ \A k \in 1..(n + 1) : k = n + 1 \/ k \in 1..n
  OBVIOUS
<1>2. TakenIn(es, n + 1, r) = TakenIn(es, n, r)
  BY <1>1 DEF TakenIn
<1> QED
  BY <1>1, <1>2 DEF IsChunk

(* A new chunk at the end.                                                 *)
LEMMA ChunkIsAdded ==
  ASSUME NEW es, NEW n \in Nat, NEW rs, Merged(es, n, rs), NEW r \in Chunk,
         \A i \in 1..Len(rs) : ~Told!Same(rs[i], es[n + 1]),
         IsChunk(es, n + 1, r), r.seq = n + 1,
         Covers(r, es[n + 1]), r.kind = es[n + 1].kind, r.of = es[n + 1].of
  PROVE  Merged(es, n + 1, Append(rs, r))
<1>1. rs \in Seq(Chunk)
  BY DEF Merged
<1>2. PICK l \in Nat : l = Len(rs)
  BY <1>1
<1> DEFINE t == Append(rs, r)
<1>3. /\ t \in Seq(Chunk) /\ Len(t) = l + 1 /\ t[l + 1] = r
      /\ \A i \in 1..l : t[i] = rs[i]
  BY <1>1, <1>2
<1> HIDE DEF t
<1>4. \A i \in 1..(l + 1) : i = l + 1 \/ i \in 1..l
  OBVIOUS
<1>5. 1..l \subseteq 1..(l + 1) /\ l + 1 \in 1..(l + 1)
  OBVIOUS
<1>6. \A i \in 1..l : IsChunk(es, n, rs[i]) /\ ~Told!Same(rs[i], es[n + 1])
  BY <1>2 DEF Merged
<1>7. \A i \in 1..(l + 1) : IsChunk(es, n + 1, t[i])
  BY <1>3, <1>4, <1>6, ChunkStays
<1>8. \A i \in 1..l : t[i].seq \in 1..n
  BY <1>3, <1>6 DEF IsChunk
<1>9. ASSUME NEW i \in 1..(l + 1), NEW j \in 1..(l + 1), i < j PROVE t[i].seq < t[j].seq
  <2>1. i \in 1..l
    BY <1>2, <1>4, <1>9
  <2>2. CASE j = l + 1
    <3>1. PICK x \in 1..n : x = t[i].seq
      BY <1>8, <2>1
    <3>2. x < n + 1
      OBVIOUS
    <3> QED
      BY <1>3, <2>2, <3>1, <3>2
  <2>3. CASE j \in 1..l
    BY <1>2, <1>3, <1>9, <2>1, <2>3 DEF Merged
  <2> QED
    BY <1>4, <2>2, <2>3
<1>10. ASSUME NEW k \in 1..(n + 1), es[k].kind # "result"
       PROVE  \E i \in 1..(l + 1) : Covers(t[i], es[k])
  <2>1. CASE k = n + 1
    BY <1>3, <1>5, <2>1
  <2>2. CASE k \in 1..n
    <3>1. PICK i \in 1..l : Covers(rs[i], es[k])
      BY <1>2, <1>10, <2>2 DEF Merged
    <3> QED
      BY <1>3, <1>5, <3>1
  <2> QED
    BY <2>1, <2>2
<1>11. ASSUME NEW i \in 1..(l + 1), NEW j \in 1..(l + 1), Told!Same(t[i], t[j]) PROVE i = j
  <2>1. CASE i \in 1..l /\ j \in 1..l
    BY <1>2, <1>3, <1>11, <2>1 DEF Merged
  <2>2. CASE i \in 1..l /\ j = l + 1
    <3>1. Told!Same(rs[i], es[n + 1])
      BY <1>3, <1>11, <2>2 DEF Told!Same
    <3> QED
      BY <1>6, <2>2, <3>1
  <2>3. CASE i = l + 1 /\ j \in 1..l
    <3>1. Told!Same(rs[j], es[n + 1])
      BY <1>3, <1>11, <2>3 DEF Told!Same
    <3> QED
      BY <1>6, <2>3, <3>1
  <2> QED
    BY <1>4, <2>1, <2>2, <2>3
<1>12. Merged(es, n + 1, t)
  BY <1>3, <1>7, <1>9, <1>10, <1>11 DEF Merged
<1> QED
  BY <1>12 DEF t

(* The deltas of a message go into its first chunk.                        *)
LEMMA ChunkTakesIn ==
  ASSUME NEW es, NEW n \in Nat, NEW r, IsChunk(es, n, r), Told!Same(r, es[n + 1]),
         es[n + 1].seq = n + 1, es[n + 1].text = <<n + 1>>
  PROVE  /\ IsChunk(es, n + 1, Told!TakeIn(r, es[n + 1]))
         /\ Told!TakeIn(r, es[n + 1]).seq = r.seq /\ Told!TakeIn(r, es[n + 1]).kind = r.kind
         /\ Told!TakeIn(r, es[n + 1]).of = r.of
<1> DEFINE s == Told!TakeIn(r, es[n + 1])
           text == Append(r.text, n + 1)
<1>1. /\ r \in Chunk /\ r.kind \in Told!Deltas /\ r.text \in Seq(Nat)
      /\ Len(r.text) > 0 /\ Told!Increases(r.text) /\ r.seq = r.text[1]
      /\ \A x \in Nat : x \in TakenIn(es, n, r) <=> \E i \in 1..Len(r.text) : r.text[i] = x
  <2>1. r.kind \in Told!Deltas
    BY DEF Told!Same
  <2>2. r \in Chunk
    BY DEF IsChunk
  <2>3. r.text \in Seq(Nat)
    BY <2>2 DEF Chunk
  <2> QED
    BY <2>1, <2>2, <2>3 DEF IsChunk
<1>2. PICK l \in Nat : l = Len(r.text)
  BY <1>1
<1>3. text = r.text \o <<n + 1>>
  BY <1>1
<1>4. /\ text \in Seq(Nat) /\ Len(text) = l + 1 /\ text[l + 1] = n + 1
      /\ \A i \in 1..l : text[i] = r.text[i]
  BY <1>1, <1>2
<1>5. /\ s \in Chunk /\ s.seq = r.seq /\ s.kind = r.kind /\ s.of = r.of
      /\ s.text = text /\ s.last = n + 1
  <2>1. n + 1 \in Nat
    OBVIOUS
  <2>2. r = [seq |-> r.seq, last |-> r.last, kind |-> r.kind, of |-> r.of, text |-> r.text]
    BY <1>1 DEF Chunk
  <2>3. s = [r EXCEPT !.last = n + 1, !.text = r.text \o <<n + 1>>]
    BY DEF Told!TakeIn
  <2> HIDE DEF s, text
  <2>4. s = [seq |-> r.seq, last |-> n + 1, kind |-> r.kind, of |-> r.of, text |-> text]
    BY <1>3, <2>2, <2>3
  <2> QED
    BY <1>1, <1>4, <2>1, <2>4 DEF Chunk
<1> HIDE DEF s, text
<1>6. /\ \A i \in 1..(l + 1) : i = l + 1 \/ i \in 1..l
      /\ 1..l \subseteq 1..(l + 1) /\ l + 1 \in 1..(l + 1) /\ l + 1 > 0
      /\ 1..n \subseteq 1..(n + 1) /\ n + 1 \in 1..(n + 1)
      /\ \A k \in 1..(n + 1) : k = n + 1 \/ k \in 1..n
  OBVIOUS
<1>7. 1 \in 1..l
  BY <1>1, <1>2
<1>8. \A i \in 1..l : r.text[i] \in 1..n
  <2> SUFFICES ASSUME NEW i \in 1..l PROVE r.text[i] \in 1..n
    OBVIOUS
  <2>1. r.text[i] \in Nat
    BY <1>1, <1>2
  <2>2. r.text[i] \in TakenIn(es, n, r)
    BY <1>1, <1>2, <2>1
  <2> QED
    BY <2>2 DEF TakenIn
<1>9. Told!Increases(text)
  <2>1. DOMAIN text = 1..(l + 1) /\ DOMAIN r.text = 1..l
    BY <1>1, <1>2, <1>4
  <2>2. ASSUME NEW i \in 1..(l + 1), NEW j \in 1..(l + 1), i < j PROVE text[i] < text[j]
    <3>1. i \in 1..l
      BY <1>2, <1>6, <2>2
    <3>2. CASE j = l + 1
      <4>1. PICK x \in 1..n : x = text[i]
        BY <1>4, <1>8, <3>1
      <4>2. x < n + 1
        OBVIOUS
      <4> QED
        BY <1>4, <3>2, <4>1, <4>2
    <3>3. CASE j \in 1..l
      BY <1>1, <1>4, <2>1, <2>2, <3>1, <3>3 DEF Told!Increases
    <3> QED
      BY <1>6, <3>2, <3>3
  <2> QED
    BY <2>1, <2>2 DEF Told!Increases
<1>10. \A k \in 1..(n + 1) : k \in TakenIn(es, n + 1, s) <=> k = n + 1 \/ k \in TakenIn(es, n, r)
  <2>1. \A k \in 1..(n + 1) : Told!Same(s, es[k]) <=> Told!Same(r, es[k])
    BY <1>5 DEF Told!Same
  <2> QED
    BY <1>6, <2>1 DEF TakenIn
<1>11. ASSUME NEW x \in Nat
       PROVE  x \in TakenIn(es, n + 1, s) <=> \E i \in 1..(l + 1) : text[i] = x
  <2>1. x \in TakenIn(es, n + 1, s) <=> x = n + 1 \/ x \in TakenIn(es, n, r)
    <3>1. TakenIn(es, n + 1, s) \subseteq 1..(n + 1) /\ TakenIn(es, n, r) \subseteq 1..n
      BY DEF TakenIn
    <3> QED
      BY <1>6, <1>10, <3>1
  <2>2. x \in TakenIn(es, n, r) <=> \E i \in 1..l : text[i] = x
    BY <1>1, <1>2, <1>4
  <2> QED
    BY <1>4, <1>6, <2>1, <2>2
<1>12. s.seq \in 1..(n + 1) /\ s.kind = es[s.seq].kind /\ s.of = es[s.seq].of /\ s.kind # "result"
  BY <1>5, <1>6 DEF IsChunk
<1>13. s.seq = text[1]
  BY <1>1, <1>4, <1>5, <1>7
<1>14. IsChunk(es, n + 1, s)
  <2>1. Len(s.text) > 0 /\ Told!Increases(s.text) /\ s.last = s.text[Len(s.text)]
    BY <1>4, <1>5, <1>6, <1>9
  <2>2. \A x \in Nat : x \in TakenIn(es, n + 1, s) <=> \E i \in 1..Len(s.text) : s.text[i] = x
    BY <1>4, <1>5, <1>11
  <2> QED
    BY <1>5, <1>12, <1>13, <2>1, <2>2 DEF IsChunk
<1> QED
  BY <1>5, <1>14 DEF s

LEMMA ChunkIsExtended ==
  ASSUME NEW es, NEW n \in Nat, InJournal(es), n + 1 \in 1..Len(es), NEW rs, Merged(es, n, rs),
         NEW at \in 1..Len(rs), Told!Same(rs[at], es[n + 1]), NEW ts,
         ts = [i \in 1..Len(rs) |->
                IF Told!Same(rs[i], es[n + 1]) THEN Told!TakeIn(rs[i], es[n + 1]) ELSE rs[i]]
  PROVE  Merged(es, n + 1, ts)
<1>1. PICK l \in Nat : l = Len(rs)
  <2>1. rs \in Seq(Chunk)
    BY DEF Merged
  <2> QED
    BY <2>1
<1>2. \A i \in 1..l : IsChunk(es, n, rs[i]) /\ rs[i] \in Chunk
  BY <1>1 DEF Merged, IsChunk
<1>3. \A i \in 1..l : /\ IsChunk(es, n + 1, ts[i])
                      /\ ts[i].seq = rs[i].seq /\ ts[i].kind = rs[i].kind /\ ts[i].of = rs[i].of
  <2> SUFFICES ASSUME NEW i \in 1..l
               PROVE  /\ IsChunk(es, n + 1, ts[i])
                      /\ ts[i].seq = rs[i].seq /\ ts[i].kind = rs[i].kind /\ ts[i].of = rs[i].of
    OBVIOUS
  <2>1. CASE Told!Same(rs[i], es[n + 1])
    <3>1. ts[i] = Told!TakeIn(rs[i], es[n + 1])
      BY <1>1, <2>1
    <3>2. es[n + 1].seq = n + 1 /\ es[n + 1].text = <<n + 1>>
      BY <2>1 DEF InJournal, Told!Same
    <3> QED
      <4>1. IsChunk(es, n, rs[i])
        BY <1>2
      <4>2. /\ IsChunk(es, n + 1, Told!TakeIn(rs[i], es[n + 1]))
            /\ Told!TakeIn(rs[i], es[n + 1]).seq = rs[i].seq
            /\ Told!TakeIn(rs[i], es[n + 1]).kind = rs[i].kind
            /\ Told!TakeIn(rs[i], es[n + 1]).of = rs[i].of
        BY <2>1, <3>2, <4>1, ChunkTakesIn
      <4> QED
        BY <3>1, <4>2
  <2>2. CASE ~Told!Same(rs[i], es[n + 1])
    <3>1. ts[i] = rs[i]
      BY <1>1, <2>2
    <3> QED
      BY <1>2, <2>2, <3>1, ChunkStays
  <2> QED
    BY <2>1, <2>2
<1>4. ts \in Seq(Chunk) /\ Len(ts) = l
  <2>1. \A i \in 1..l : ts[i] \in Chunk
    BY <1>3 DEF IsChunk
  <2>2. ts \in [1..l -> Chunk]
    BY <1>1, <2>1
  <2>3. ts \in Seq(Chunk)
    BY <2>2, SeqDef
  <2>4. DOMAIN ts = 1..l
    BY <2>2
  <2> QED
    BY <2>3, <2>4, LenProperties
<1>5. \A i, j \in 1..l : i < j => ts[i].seq < ts[j].seq
  BY <1>1, <1>3 DEF Merged
<1>6. ASSUME NEW k \in 1..(n + 1), es[k].kind # "result"
      PROVE  \E i \in 1..l : Covers(ts[i], es[k])
  <2>1. es[n + 1].kind \in Told!Deltas
    BY DEF Told!Same
  <2>2. PICK i \in 1..l : Covers(rs[i], es[k])
    <3>1. CASE k = n + 1
      BY <1>1, <2>1, <3>1 DEF Covers
    <3>2. CASE k # n + 1
      <4>1. k \in 1..n
        BY <3>2
      <4> QED
        BY <1>1, <1>6, <4>1 DEF Merged
    <3> QED
      BY <3>1, <3>2
  <2>3. Covers(ts[i], es[k])
    BY <1>3, <2>2 DEF Covers, Told!Same
  <2> QED
    BY <2>3
<1>7. \A i, j \in 1..l : Told!Same(ts[i], ts[j]) => i = j
  <2>1. \A i, j \in 1..l : Told!Same(ts[i], ts[j]) => Told!Same(rs[i], rs[j])
    BY <1>3 DEF Told!Same
  <2> QED
    BY <1>1, <2>1 DEF Merged
<1> QED
  BY <1>3, <1>4, <1>5, <1>6, <1>7 DEF Merged

LEMMA MergedByOne ==
  ASSUME NEW es, InJournal(es), NEW n \in Nat, n + 1 \in 1..Len(es), NEW rs, Merged(es, n, rs)
  PROVE  Merged(es, n + 1, Told!Archived(rs, es[n + 1]))
<1> DEFINE e == es[n + 1]
           at == {i \in DOMAIN rs : Told!Same(rs[i], e)}
<1>1. /\ e \in ToldEvent(ToldKinds) /\ e.seq = n + 1 /\ e.kind \notin Told!Ends
      /\ e.kind \in Told!Deltas => e.text = <<n + 1>>
  BY DEF InJournal
<1>2. rs \in Seq(Chunk) /\ DOMAIN rs = 1..Len(rs)
  BY DEF Merged
<1>3. e.kind # "completed" /\ ~("result" \in Told!Deltas) /\ ~("completed" \in Told!Deltas)
  BY <1>1 DEF Told!Ends, Told!Deltas
<1>4. CASE e.kind = "result"
  <2>1. Told!Archived(rs, e) = rs
    BY <1>4 DEF Told!Archived
  <2>2. \A i \in 1..Len(rs) : ~Told!Same(rs[i], e)
    BY <1>3, <1>4 DEF Told!Same
  <2>3. \A i \in 1..Len(rs) : IsChunk(es, n + 1, rs[i])
    BY <2>2, ChunkStays DEF Merged
  <2>4. \A k \in 1..(n + 1) : es[k].kind # "result" => k \in 1..n
    BY <1>4
  <2>5. \A k \in 1..(n + 1) : es[k].kind # "result" => \E i \in 1..Len(rs) : Covers(rs[i], es[k])
    BY <2>4 DEF Merged
  <2>6. Merged(es, n + 1, rs)
    BY <2>3, <2>5 DEF Merged
  <2> QED
    BY <2>1, <2>6
<1>5. CASE e.kind # "result" /\ at = {}
  <2>1. Told!Archived(rs, e) = Append(rs, Told!RecordOf(e))
    BY <1>3, <1>5 DEF Told!Archived
  <2> DEFINE r == Told!RecordOf(e)
  <2>2. /\ r \in Chunk /\ r.seq = n + 1 /\ r.last = n + 1 /\ r.kind = e.kind /\ r.of = e.of
        /\ r.text = e.text
    BY <1>1 DEF Told!RecordOf, Chunk, ToldEvent
  <2>3. \A i \in 1..Len(rs) : ~Told!Same(rs[i], e)
    BY <1>2, <1>5
  <2>4. Covers(r, e)
    BY <1>1, <2>2 DEF Covers, Told!Same
  <2>5. ASSUME r.kind \in Told!Deltas
        PROVE  /\ Len(r.text) > 0 /\ Told!Increases(r.text)
               /\ \A x \in Nat : x \in TakenIn(es, n + 1, r) <=> \E i \in 1..Len(r.text) : r.text[i] = x
               /\ r.seq = r.text[1] /\ r.last = r.text[Len(r.text)]
    <3>1. r.text = <<n + 1>>
      BY <1>1, <2>2, <2>5
    <3>2. Len(r.text) = 1 /\ r.text[1] = n + 1 /\ DOMAIN r.text = 1..1
      BY <3>1
    <3>3. \A i \in 1..1 : i = 1
      OBVIOUS
    <3>4. Told!Increases(r.text)
      BY <3>2 DEF Told!Increases
    <3>5. ASSUME NEW k \in 1..(n + 1) PROVE k \in TakenIn(es, n + 1, r) <=> k = n + 1
      <4>1. Told!Same(r, es[n + 1])
        BY <2>2, <2>5 DEF Told!Same
      <4>2. ASSUME k \in 1..n, Told!Same(r, es[k]) PROVE FALSE
        <5>1. es[k].kind = e.kind /\ es[k].of = e.of /\ es[k].kind \in Told!Deltas
          BY <2>2, <4>2 DEF Told!Same
        <5>2. PICK i \in 1..Len(rs) : Covers(rs[i], es[k])
          BY <1>5, <4>2, <5>1 DEF Merged
        <5>3. Told!Same(rs[i], e)
          BY <5>1, <5>2 DEF Covers, Told!Same
        <5> QED
          BY <2>3, <5>3
      <4>3. k = n + 1 \/ k \in 1..n
        OBVIOUS
      <4>4. n + 1 \in 1..(n + 1)
        OBVIOUS
      <4>5. n + 1 \notin 1..n
        OBVIOUS
      <4> QED
        BY <4>1, <4>2, <4>3, <4>4, <4>5 DEF TakenIn
    <3>6. TakenIn(es, n + 1, r) \subseteq 1..(n + 1) /\ n + 1 \in 1..(n + 1)
      BY DEF TakenIn
    <3>7. \A x \in Nat : x \in TakenIn(es, n + 1, r) <=> x = n + 1
      BY <3>5, <3>6
    <3>8. \A x \in Nat : x = n + 1 <=> \E i \in 1..Len(r.text) : r.text[i] = x
      BY <3>2, <3>3
    <3> QED
      BY <2>2, <3>2, <3>4, <3>7, <3>8
  <2>6. n + 1 \in 1..(n + 1)
    OBVIOUS
  <2> HIDE DEF r
  <2>7. IsChunk(es, n + 1, r)
    BY <1>5, <2>2, <2>5, <2>6 DEF IsChunk
  <2>8. Merged(es, n + 1, Append(rs, r))
    BY <2>2, <2>3, <2>4, <2>7, ChunkIsAdded
  <2> QED
    BY <2>1, <2>8 DEF r
<1>6. CASE e.kind # "result" /\ at # {}
  <2>1. PICK i \in 1..Len(rs) : Told!Same(rs[i], e)
    BY <1>2, <1>6
  <2> DEFINE ts == [k \in 1..Len(rs) |-> IF Told!Same(rs[k], e) THEN Told!TakeIn(rs[k], e) ELSE rs[k]]
  <2>3. Told!Archived(rs, e) = [k \in DOMAIN rs |-> IF k \in at THEN Told!TakeIn(rs[k], e) ELSE rs[k]]
    BY <1>3, <1>6 DEF Told!Archived
  <2>4. \A k \in 1..Len(rs) : k \in at <=> Told!Same(rs[k], e)
    BY <1>2
  <2>5. Told!Archived(rs, e) = ts
    BY <1>2, <2>3, <2>4
  <2>6. Merged(es, n + 1, ts)
    BY <2>1, ChunkIsExtended
  <2> QED
    BY <2>5, <2>6
<1> QED
  BY <1>4, <1>5, <1>6

(* The archive of a journal: every event in the one chunk for it.          *)
LEMMA ArchiveIsMerged ==
  ASSUME NEW es, InJournal(es)
  PROVE  Merged(es, Len(es), Told!Archive(es))
<1>1. PICK l \in Nat : l = Len(es)
  BY DEF InJournal
<1>2. PICK f : Growing(es, l, f) /\ Told!Archive(es) = f[l]
  BY <1>1, ArchiveIsGrown
<1> DEFINE T == {n \in Nat : n <= l /\ ~Merged(es, n, f[n])}
<1>3. ASSUME T # {} PROVE FALSE
  <2>1. PICK m \in T : \A j \in T : m <= j
    BY <1>3, LeastOf
  <2>2. m \in Nat /\ m <= l /\ ~Merged(es, m, f[m])
    OBVIOUS
  <2>3. CASE m = 0
    <3>1. 0 \in 0..l
      OBVIOUS
    <3>2. f[0] = <<>>
      BY <1>2, <3>1 DEF Growing
    <3> QED
      BY <2>2, <2>3, <3>2, NothingMerged
  <2>4. CASE m # 0
    <3>1. PICK n \in Nat : m = n + 1
      <4>1. m - 1 \in Nat /\ m = (m - 1) + 1
        BY <2>2, <2>4
      <4> QED
        BY <4>1
    <3>2. n < m /\ n <= l /\ ~(m <= n) /\ n + 1 \in 0..l /\ n + 1 \in 1..l /\ (n + 1) - 1 = n /\ n + 1 # 0
      BY <2>2, <3>1
    <3>3. Merged(es, n, f[n])
      BY <2>1, <3>2
    <3>4. f[n + 1] = Told!Archived(f[n], es[n + 1])
      BY <1>2, <3>2 DEF Growing
    <3>5. Merged(es, n + 1, f[n + 1])
      BY <1>1, <3>2, <3>3, <3>4, MergedByOne
    <3> QED
      BY <2>2, <3>1, <3>5
  <2> QED
    BY <2>3, <2>4
<1>4. Merged(es, l, f[l])
  <2>1. l \notin T
    BY <1>3
  <2> QED
    BY <2>1
<1> QED
  BY <1>1, <1>2, <1>4

-----------------------------------------------------------------------------
(* What a browser is shown of an event, and of a chunk.                    *)
Public(kind) ==
  CASE kind = "cancelled" -> "failed"
    [] kind \in {"tool completed", "tool failed"} -> "tool finished"
    [] kind = "result" -> "message completed"
    [] OTHER -> kind

LEMMA PublicKinds ==
  ASSUME NEW kind \in ToldKinds
  PROVE  /\ Public(kind) = "message completed" <=> kind = "result"
         /\ Public(kind) \in Told!Deltas <=> kind \in Told!Deltas
         /\ kind \in Told!Deltas => Public(kind) = kind
BY DEF ToldKinds, Public, Told!Ends, Told!Deltas

LEMMA StreamedEvent ==
  ASSUME NEW e \in ToldEvent(ToldKinds)
  PROVE  /\ Told!Streamed(e).seq = e.seq /\ Told!Streamed(e).of = e.of
         /\ Told!Streamed(e).text = e.text /\ Told!Streamed(e).kind = Public(e.kind)
<1>1. Told!Streamed(e) = [e EXCEPT !.kind = Public(e.kind)]
  BY DEF Told!Streamed, Public
<1>2. e = [seq |-> e.seq, kind |-> e.kind, of |-> e.of, text |-> e.text]
  BY DEF ToldEvent
<1>3. Told!Streamed(e) = [seq |-> e.seq, kind |-> Public(e.kind), of |-> e.of, text |-> e.text]
  BY <1>1, <1>2
<1> QED
  BY <1>3

LEMMA StreamedChunk ==
  ASSUME NEW r \in Chunk
  PROVE  /\ Told!Streamed(r).seq = r.seq /\ Told!Streamed(r).last = r.last
         /\ Told!Streamed(r).of = r.of /\ Told!Streamed(r).text = r.text
         /\ Told!Streamed(r).kind = Public(r.kind)
<1>1. Told!Streamed(r) = [r EXCEPT !.kind = Public(r.kind)]
  BY DEF Told!Streamed, Public
<1>2. r = [seq |-> r.seq, last |-> r.last, kind |-> r.kind, of |-> r.of, text |-> r.text]
  BY DEF Chunk
<1>3. Told!Streamed(r) =
        [seq |-> r.seq, last |-> r.last, kind |-> Public(r.kind), of |-> r.of, text |-> r.text]
  BY <1>1, <1>2
<1> QED
  BY <1>3

(* All of a journal is shown, and nothing else.                            *)
Shows(es, ss) ==
  /\ \A i \in 1..Len(ss) : \E k \in 1..Len(es) : es[k].kind # "result" /\ ss[i] = Told!Streamed(es[k])
  /\ \A k \in 1..Len(es) : es[k].kind # "result" => \E i \in 1..Len(ss) : ss[i] = Told!Streamed(es[k])
  /\ \A i, j \in 1..Len(ss) : i < j => ss[i].seq < ss[j].seq

LEMMA ShowsInJournal ==
  ASSUME NEW es, InJournal(es), NEW ss, Shows(es, ss)
  PROVE  \A i \in 1..Len(ss) : ss[i].seq \in 1..Len(es)
<1> SUFFICES ASSUME NEW i \in 1..Len(ss) PROVE ss[i].seq \in 1..Len(es)
  OBVIOUS
<1>1. PICK k \in 1..Len(es) : ss[i] = Told!Streamed(es[k])
  BY DEF Shows
<1>2. es[k] \in ToldEvent(ToldKinds) /\ es[k].seq = k
  BY DEF InJournal
<1> QED
  BY <1>1, <1>2, StreamedEvent

LEMMA JournalGoesOn ==
  ASSUME NEW es, InJournal(es), NEW e \in ToldEvent(ToldKinds), e.seq = Len(es) + 1,
         e.kind \notin Told!Ends, e.kind \in Told!Deltas => e.text = <<Len(es) + 1>>
  PROVE  InJournal(Append(es, e))
<1>1. es \in Seq(ToldEvent(ToldKinds))
  BY DEF InJournal
<1>2. PICK n \in Nat : n = Len(es)
  BY <1>1
<1>3. /\ Append(es, e) \in Seq(ToldEvent(ToldKinds)) /\ Len(Append(es, e)) = n + 1
      /\ Append(es, e)[n + 1] = e /\ \A k \in 1..n : Append(es, e)[k] = es[k]
  BY <1>1, <1>2
<1>4. \A k \in 1..(n + 1) : k = n + 1 \/ k \in 1..n
  OBVIOUS
<1> QED
  BY <1>2, <1>3, <1>4 DEF InJournal

LEMMA ShowGoesOn ==
  ASSUME NEW es, InJournal(es), NEW ss \in Seq(ToldEvent(StreamKinds)), Shows(es, ss),
         NEW e \in ToldEvent(ToldKinds), e.seq = Len(es) + 1
  PROVE  Shows(Append(es, e), ss \o Told!Projected(e))
<1>1. es \in Seq(ToldEvent(ToldKinds))
  BY DEF InJournal
<1>2. PICK n \in Nat : n = Len(es)
  BY <1>1
<1> DEFINE es2 == Append(es, e)
<1>3. Len(es2) = n + 1 /\ es2[n + 1] = e /\ \A k \in 1..n : es2[k] = es[k]
  BY <1>1, <1>2
<1>4. /\ \A k \in 1..(n + 1) : k = n + 1 \/ k \in 1..n
      /\ 1..n \subseteq 1..(n + 1) /\ n + 1 \in 1..(n + 1)
  OBVIOUS
<1> HIDE DEF es2
<1>5. e.kind \in ToldKinds
  BY DEF ToldEvent
<1>6. Told!Streamed(e).kind = "message completed" <=> e.kind = "result"
  BY <1>5, StreamedEvent, PublicKinds
<1>7. CASE e.kind = "result"
  <2>1. ss \o Told!Projected(e) = ss
    BY <1>6, <1>7, ConcatEmptySeq DEF Told!Projected
  <2>2. Shows(es2, ss)
    <3>1. ASSUME NEW i \in 1..Len(ss)
          PROVE  \E k \in 1..(n + 1) : es2[k].kind # "result" /\ ss[i] = Told!Streamed(es2[k])
      <4>1. PICK k \in 1..n : es[k].kind # "result" /\ ss[i] = Told!Streamed(es[k])
        BY <1>2 DEF Shows
      <4> QED
        BY <1>3, <1>4, <4>1
    <3>2. ASSUME NEW k \in 1..(n + 1), es2[k].kind # "result"
          PROVE  \E i \in 1..Len(ss) : ss[i] = Told!Streamed(es2[k])
      <4>1. k \in 1..n
        BY <1>3, <1>4, <1>7, <3>2
      <4>2. es2[k] = es[k]
        BY <1>3, <4>1
      <4> QED
        BY <1>2, <3>2, <4>1, <4>2 DEF Shows
    <3> QED
      BY <1>3, <3>1, <3>2 DEF Shows
  <2> QED
    BY <2>1, <2>2 DEF es2
<1>8. CASE e.kind # "result"
  <2> DEFINE s == Told!Streamed(e)
  <2>1. s \in ToldEvent(StreamKinds) /\ s.seq = n + 1
    BY <1>2, StreamedKind, StreamedEvent
  <2>2. Told!Projected(e) = <<s>>
    BY <1>6, <1>8 DEF Told!Projected
  <2> HIDE DEF s
  <2> DEFINE ss2 == Append(ss, s)
  <2>3. ss \o Told!Projected(e) = ss2
    BY <2>1, <2>2
  <2>4. PICK l \in Nat : l = Len(ss)
    OBVIOUS
  <2>5. Len(ss2) = l + 1 /\ ss2[l + 1] = s /\ \A i \in 1..l : ss2[i] = ss[i]
    BY <2>1, <2>4
  <2> HIDE DEF ss2
  <2>6. /\ \A i \in 1..(l + 1) : i = l + 1 \/ i \in 1..l
        /\ 1..l \subseteq 1..(l + 1) /\ l + 1 \in 1..(l + 1)
    OBVIOUS
  <2>7. ASSUME NEW i \in 1..(l + 1)
        PROVE  \E k \in 1..(n + 1) : es2[k].kind # "result" /\ ss2[i] = Told!Streamed(es2[k])
    <3>1. CASE i = l + 1
      BY <1>3, <1>4, <1>8, <2>5, <3>1 DEF s
    <3>2. CASE i \in 1..l
      <4>1. PICK k \in 1..n : es[k].kind # "result" /\ ss[i] = Told!Streamed(es[k])
        BY <1>2, <2>4, <3>2 DEF Shows
      <4> QED
        BY <1>3, <1>4, <2>5, <3>2, <4>1
    <3> QED
      BY <2>6, <3>1, <3>2
  <2>8. ASSUME NEW k \in 1..(n + 1), es2[k].kind # "result"
        PROVE  \E i \in 1..(l + 1) : ss2[i] = Told!Streamed(es2[k])
    <3>1. CASE k = n + 1
      BY <1>3, <2>5, <2>6, <3>1 DEF s
    <3>2. CASE k \in 1..n
      <4>1. PICK i \in 1..l : ss[i] = Told!Streamed(es[k])
        BY <1>2, <1>3, <2>4, <2>8, <3>2 DEF Shows
      <4> QED
        BY <1>3, <2>5, <2>6, <3>2, <4>1
    <3> QED
      BY <1>4, <3>1, <3>2
  <2>9. ASSUME NEW i \in 1..(l + 1), NEW j \in 1..(l + 1), i < j PROVE ss2[i].seq < ss2[j].seq
    <3>1. i \in 1..l
      BY <2>4, <2>6, <2>9
    <3>2. CASE j = l + 1
      <4>1. PICK x \in 1..n : x = ss2[i].seq
        BY <1>2, <2>4, <2>5, <3>1, ShowsInJournal
      <4>2. x < n + 1
        OBVIOUS
      <4> QED
        BY <2>1, <2>5, <3>2, <4>1, <4>2
    <3>3. CASE j \in 1..l
      BY <2>4, <2>5, <2>9, <3>1, <3>3 DEF Shows
    <3> QED
      BY <2>6, <3>2, <3>3
  <2>10. Shows(es2, ss2)
    BY <1>3, <2>5, <2>7, <2>8, <2>9 DEF Shows
  <2> QED
    BY <2>3, <2>10 DEF es2
<1> QED
  BY <1>7, <1>8

-----------------------------------------------------------------------------
(* The stored message and the last event of the run.                       *)
Again(rs) == UNION {Told!ToSet(Told!Projected(r)) : r \in Told!ToSet(rs)}

WholeStory(ss, rs) ==
  /\ Told!InOrder(ss) /\ Told!InOrder(rs)
  /\ \A m \in 1..minted, kind \in Told!Deltas :
       Told!ToldOnce(Told!Parts(Told!ToSet(ss), kind, m), Told!Parts(Again(rs), kind, m))
  /\ Told!Calls(Again(rs)) = Told!Calls(Told!ToSet(Told!Front(ss)))

LEMMA MergedIsTyped ==
  ASSUME NEW es, NEW rs, Merged(es, Len(es), rs)
  PROVE  /\ rs \in Seq(Chunk)
         /\ \A i \in 1..Len(rs) :
              /\ rs[i] \in Chunk /\ rs[i].kind \in ToldKinds /\ rs[i].kind # "result"
              /\ rs[i].seq \in 1..Len(es)
              /\ rs[i].kind = es[rs[i].seq].kind /\ rs[i].of = es[rs[i].seq].of
<1>1. rs \in Seq(Chunk)
  BY DEF Merged
<1>2. \A i \in 1..Len(rs) : IsChunk(es, Len(es), rs[i])
  BY DEF Merged
<1>3. \A r \in Chunk : r.kind \in ToldKinds
  BY DEF Chunk
<1> QED
  BY <1>1, <1>2, <1>3 DEF IsChunk

LEMMA AgainIsStreamed ==
  ASSUME NEW es, NEW rs, Merged(es, Len(es), rs)
  PROVE  \A y : y \in Again(rs) <=> \E i \in 1..Len(rs) : y = Told!Streamed(rs[i])
<1>1. /\ rs \in Seq(Chunk)
      /\ \A i \in 1..Len(rs) :
           rs[i] \in Chunk /\ rs[i].kind \in ToldKinds /\ rs[i].kind # "result"
  BY MergedIsTyped
<1>2. ASSUME NEW i \in 1..Len(rs) PROVE Told!ToSet(Told!Projected(rs[i])) = {Told!Streamed(rs[i])}
  <2>1. Told!Streamed(rs[i]).kind # "message completed"
    <3>1. Told!Streamed(rs[i]).kind = Public(rs[i].kind)
      BY <1>1, StreamedChunk
    <3>2. Public(rs[i].kind) = "message completed" <=> rs[i].kind = "result"
      BY <1>1, PublicKinds
    <3> QED
      BY <1>1, <3>1, <3>2
  <2>2. Told!Projected(rs[i]) = <<Told!Streamed(rs[i])>>
    BY <2>1 DEF Told!Projected
  <2> HIDE DEF Told!Projected
  <2> QED
    BY <2>2 DEF Told!ToSet
<1>3. DOMAIN rs = 1..Len(rs)
  BY <1>1
<1>4. \A r : r \in Told!ToSet(rs) <=> \E i \in 1..Len(rs) : r = rs[i]
  BY <1>3 DEF Told!ToSet
<1>5. ASSUME NEW i \in 1..Len(rs) PROVE Told!Streamed(rs[i]) \in Again(rs)
  <2>1. rs[i] \in Told!ToSet(rs) /\ Told!Streamed(rs[i]) \in Told!ToSet(Told!Projected(rs[i]))
    BY <1>2, <1>4
  <2> QED
    BY <2>1 DEF Again
<1>6. ASSUME NEW y \in Again(rs) PROVE \E i \in 1..Len(rs) : y = Told!Streamed(rs[i])
  <2>1. PICK r \in Told!ToSet(rs) : y \in Told!ToSet(Told!Projected(r))
    BY DEF Again
  <2>2. PICK i \in 1..Len(rs) : r = rs[i]
    BY <1>4
  <2> QED
    BY <1>2, <2>1, <2>2
<1> QED
  BY <1>5, <1>6

(* What is said of a message is in one chunk.                              *)
LEMMA MessageIsToldOnce ==
  ASSUME NEW es, InJournal(es), NEW rs, Merged(es, Len(es), rs), NEW m, NEW kind \in Told!Deltas,
         NEW before, \A y : y \in before <=> \E k \in 1..Len(es) :
                       es[k].kind = kind /\ es[k].of = m /\ y = Told!Streamed(es[k])
  PROVE  Told!ToldOnce(before, Told!Parts(Again(rs), kind, m))
<1> DEFINE K == {k \in 1..Len(es) : es[k].kind = kind /\ es[k].of = m}
           again == Told!Parts(Again(rs), kind, m)
<1>1. /\ es \in Seq(ToldEvent(ToldKinds))
      /\ \A k \in 1..Len(es) : es[k] \in ToldEvent(ToldKinds) /\ es[k].seq = k
      /\ \A k \in 1..Len(es) : es[k].kind \in Told!Deltas => es[k].text = <<k>>
  BY DEF InJournal
<1>2. \A i \in 1..Len(rs) :
        /\ rs[i] \in Chunk /\ rs[i].kind \in ToldKinds
        /\ rs[i].seq \in 1..Len(es)
        /\ rs[i].kind = es[rs[i].seq].kind /\ rs[i].of = es[rs[i].seq].of
  BY MergedIsTyped
<1>3. \A i \in 1..Len(rs) : Told!Streamed(rs[i]).kind = kind <=> rs[i].kind = kind
  <2> SUFFICES ASSUME NEW i \in 1..Len(rs)
               PROVE  Told!Streamed(rs[i]).kind = kind <=> rs[i].kind = kind
    OBVIOUS
  <2>1. Told!Streamed(rs[i]).kind = Public(rs[i].kind)
    BY <1>2, StreamedChunk
  <2>2. /\ Public(rs[i].kind) \in Told!Deltas <=> rs[i].kind \in Told!Deltas
        /\ rs[i].kind \in Told!Deltas => Public(rs[i].kind) = rs[i].kind
    BY <1>2, PublicKinds
  <2> QED
    BY <2>1, <2>2
<1>4. \A i \in 1..Len(rs) : /\ Told!Streamed(rs[i]).of = rs[i].of /\ Told!Streamed(rs[i]).seq = rs[i].seq
                            /\ Told!Streamed(rs[i]).text = rs[i].text
                            /\ Told!Streamed(rs[i]).last = rs[i].last
  BY <1>2, StreamedChunk
<1>5. \A y : y \in again <=>
        \E i \in 1..Len(rs) : y = Told!Streamed(rs[i]) /\ rs[i].kind = kind /\ rs[i].of = m
  BY <1>3, <1>4, AgainIsStreamed DEF Told!Parts
<1>6. before = {} <=> K = {}
  OBVIOUS
<1>7. CASE K = {}
  <2>1. again = {}
    <3>1. ASSUME NEW y \in again PROVE FALSE
      <4>1. PICK i \in 1..Len(rs) : rs[i].kind = kind /\ rs[i].of = m
        BY <1>5
      <4>2. rs[i].seq \in K
        BY <1>2, <4>1
      <4> QED
        BY <1>7, <4>2
    <3> QED
      BY <3>1
  <2> QED
    BY <1>6, <1>7, <2>1 DEF Told!ToldOnce
<1>8. CASE K # {}
  <2>1. PICK k \in 1..Len(es) : es[k].kind = kind /\ es[k].of = m
    BY <1>8
  <2>2. kind # "result"
    BY DEF Told!Deltas
  <2>3. PICK i \in 1..Len(rs) : Covers(rs[i], es[k])
    BY <2>1, <2>2 DEF Merged
  <2>4. rs[i].kind = kind /\ rs[i].of = m
    BY <2>1, <2>3 DEF Covers, Told!Same
  <2> DEFINE r == Told!Streamed(rs[i])
  <2>5. \A j \in 1..Len(rs) : rs[j].kind = kind /\ rs[j].of = m => j = i
    <3>1. \A j \in 1..Len(rs) : rs[j].kind = kind /\ rs[j].of = m => Told!Same(rs[j], rs[i])
      BY <2>4 DEF Told!Same
    <3> QED
      BY <3>1 DEF Merged
  <2>6. again = {r} /\ r \in again
    BY <1>5, <2>4, <2>5
  <2>7. IsChunk(es, Len(es), rs[i])
    BY DEF Merged
  <2>8. /\ Len(rs[i].text) > 0 /\ Told!Increases(rs[i].text)
        /\ \A x \in Nat : x \in TakenIn(es, Len(es), rs[i])
                            <=> \E j \in 1..Len(rs[i].text) : rs[i].text[j] = x
        /\ rs[i].seq = rs[i].text[1] /\ rs[i].last = rs[i].text[Len(rs[i].text)]
    BY <2>4, <2>7 DEF IsChunk
  <2>9. rs[i].text \in Seq(Nat)
    BY <1>2 DEF Chunk
  <2>10. TakenIn(es, Len(es), rs[i]) = K
    BY <2>4 DEF TakenIn, Told!Same
  <2>11. Told!ToSet(rs[i].text) = K
    <3>1. DOMAIN rs[i].text = 1..Len(rs[i].text)
      BY <2>9
    <3>2. \A j \in 1..Len(rs[i].text) : rs[i].text[j] \in Nat
      BY <2>9
    <3>3. Len(es) \in Nat
      BY <1>1
    <3>4. \A x \in K : x \in Nat
      BY <3>3
    <3>5. \A x : x \in Told!ToSet(rs[i].text) <=> \E j \in 1..Len(rs[i].text) : rs[i].text[j] = x
      BY <3>1 DEF Told!ToSet
    <3> HIDE DEF K
    <3> QED
      BY <2>8, <2>10, <3>2, <3>4, <3>5
  <2>12. UNION {Told!ToSet(e.text) : e \in before} = K
    <3>1. ASSUME NEW x \in 1..Len(es), es[x].kind = kind, es[x].of = m
          PROVE  Told!ToSet(Told!Streamed(es[x]).text) = {x}
      <4>1. Told!Streamed(es[x]).text = <<x>>
        BY <1>1, <3>1, StreamedEvent
      <4> QED
        BY <4>1 DEF Told!ToSet
    <3>2. ASSUME NEW x \in K PROVE x \in UNION {Told!ToSet(e.text) : e \in before}
      <4>1. Told!Streamed(es[x]) \in before
        OBVIOUS
      <4>2. x \in Told!ToSet(Told!Streamed(es[x]).text)
        BY <3>1
      <4> QED
        BY <4>1, <4>2
    <3>3. ASSUME NEW e \in before, NEW x \in Told!ToSet(e.text) PROVE x \in K
      <4>1. PICK w \in 1..Len(es) : es[w].kind = kind /\ es[w].of = m /\ e = Told!Streamed(es[w])
        OBVIOUS
      <4>2. x = w
        BY <3>1, <4>1
      <4> QED
        BY <4>1, <4>2
    <3> QED
      BY <3>2, <3>3
  <2>13. Told!Increases(r.text) /\ Told!ToSet(r.text) = UNION {Told!ToSet(e.text) : e \in before}
    BY <1>4, <2>8, <2>11, <2>12
  <2>14. r.seq = Head(r.text) /\ r.last = Told!Last(r.text)
    <3>1. Head(rs[i].text) = rs[i].text[1] /\ Told!Last(rs[i].text) = rs[i].text[Len(rs[i].text)]
      BY <2>8, <2>9 DEF Told!Last
    <3> QED
      BY <1>4, <2>8, <3>1
  <2> HIDE DEF r
  <2>15. before # {}
    BY <1>6, <1>8
  <2> QED
    BY <2>6, <2>13, <2>14, <2>15 DEF Told!ToldOnce
<1> QED
  BY <1>7, <1>8

(* What was said of tool calls is told again as it was shown.              *)
LEMMA CallsAreToldAgain ==
  ASSUME NEW es, InJournal(es), NEW rs, Merged(es, Len(es), rs),
         NEW before, \A y : y \in before <=> \E k \in 1..Len(es) :
                              es[k].kind # "result" /\ y = Told!Streamed(es[k])
  PROVE  Told!Calls(Again(rs)) = Told!Calls(before)
<1> DEFINE tale(e) == <<e.seq, e.kind, e.of>>
<1>1. \A k \in 1..Len(es) :
        /\ es[k] \in ToldEvent(ToldKinds) /\ es[k].kind \in ToldKinds /\ es[k].seq = k
        /\ Told!Streamed(es[k]).seq = k /\ Told!Streamed(es[k]).of = es[k].of
        /\ Told!Streamed(es[k]).kind = Public(es[k].kind)
        /\ Public(es[k].kind) \in Told!Deltas <=> es[k].kind \in Told!Deltas
  <2>1. \A k \in 1..Len(es) : es[k] \in ToldEvent(ToldKinds) /\ es[k].seq = k
    BY DEF InJournal
  <2>2. \A k \in 1..Len(es) : es[k].kind \in ToldKinds
    BY <2>1 DEF ToldEvent
  <2>3. \A k \in 1..Len(es) : Public(es[k].kind) \in Told!Deltas <=> es[k].kind \in Told!Deltas
    BY <2>2, PublicKinds
  <2> QED
    BY <2>1, <2>2, <2>3, StreamedEvent
<1>2. \A i \in 1..Len(rs) :
        /\ rs[i].kind # "result" /\ rs[i].seq \in 1..Len(es)
        /\ rs[i].kind = es[rs[i].seq].kind /\ rs[i].of = es[rs[i].seq].of
        /\ Told!Streamed(rs[i]).seq = rs[i].seq /\ Told!Streamed(rs[i]).of = rs[i].of
        /\ Told!Streamed(rs[i]).kind = Public(rs[i].kind)
  BY MergedIsTyped, StreamedChunk
<1>3. ASSUME NEW y \in Again(rs), y.kind \notin Told!Deltas
      PROVE  \E e \in before : e.kind \notin Told!Deltas /\ tale(e) = tale(y)
  <2>1. PICK i \in 1..Len(rs) : y = Told!Streamed(rs[i])
    BY AgainIsStreamed
  <2>2. PICK k \in 1..Len(es) : k = rs[i].seq
    BY <1>2
  <2>3. Told!Streamed(es[k]) \in before
    BY <1>2, <2>2
  <2>4. /\ Told!Streamed(es[k]).seq = y.seq /\ Told!Streamed(es[k]).kind = y.kind
        /\ Told!Streamed(es[k]).of = y.of
    BY <1>1, <1>2, <2>1, <2>2
  <2> QED
    BY <1>3, <2>3, <2>4
<1>4. ASSUME NEW e \in before, e.kind \notin Told!Deltas
      PROVE  \E y \in Again(rs) : y.kind \notin Told!Deltas /\ tale(y) = tale(e)
  <2>1. PICK k \in 1..Len(es) : es[k].kind # "result" /\ e = Told!Streamed(es[k])
    OBVIOUS
  <2>2. es[k].kind \notin Told!Deltas
    BY <1>1, <1>4, <2>1
  <2>3. PICK i \in 1..Len(rs) : Covers(rs[i], es[k])
    BY <2>1 DEF Merged
  <2>4. rs[i].seq = k
    BY <1>1, <2>2, <2>3 DEF Covers
  <2>5. Told!Streamed(rs[i]) \in Again(rs)
    BY AgainIsStreamed
  <2>6. /\ Told!Streamed(rs[i]).seq = e.seq /\ Told!Streamed(rs[i]).kind = e.kind
        /\ Told!Streamed(rs[i]).of = e.of
    BY <1>1, <1>2, <2>1, <2>4
  <2> QED
    BY <1>4, <2>5, <2>6
<1>5. Told!Calls(Again(rs)) = {tale(e) : e \in {c \in Again(rs) : c.kind \notin Told!Deltas}}
  BY DEF Told!Calls
<1>6. Told!Calls(before) = {tale(e) : e \in {c \in before : c.kind \notin Told!Deltas}}
  BY DEF Told!Calls
<1> HIDE DEF tale
<1> QED
  BY <1>3, <1>4, <1>5, <1>6

(* The archive of a run that ends tells it as it was shown.                *)
LEMMA EndTellsAll ==
  ASSUME NEW es, InJournal(es), NEW ss \in Seq(ToldEvent(StreamKinds)), Shows(es, ss),
         NEW e \in ToldEvent(StreamKinds), e.seq = Len(es) + 1, e.kind \notin Told!Deltas
  PROVE  WholeStory(Append(ss, e), Told!Archive(es))
<1> DEFINE rs == Told!Archive(es)
           t == Append(ss, e)
<1>1. Merged(es, Len(es), rs)
  BY ArchiveIsMerged
<1> HIDE DEF rs
<1>2. PICK n \in Nat : n = Len(es)
  BY DEF InJournal
<1>3. PICK l \in Nat : l = Len(ss)
  OBVIOUS
<1>4. /\ Len(t) = l + 1 /\ t[l + 1] = e /\ \A i \in 1..l : t[i] = ss[i]
      /\ t \in Seq(ToldEvent(StreamKinds)) /\ DOMAIN t = 1..(l + 1)
  BY <1>3
<1> HIDE DEF t
<1>5. /\ \A i \in 1..(l + 1) : i = l + 1 \/ i \in 1..l
      /\ 1..l \subseteq 1..(l + 1) /\ l + 1 \in 1..(l + 1)
  OBVIOUS
<1>6. Told!InOrder(t)
  <2>1. ASSUME NEW i \in 1..(l + 1), NEW j \in 1..(l + 1), i < j PROVE t[i].seq < t[j].seq
    <3>1. i \in 1..l
      BY <1>3, <1>5, <2>1
    <3>2. CASE j = l + 1
      <4>1. PICK x \in 1..n : x = t[i].seq
        BY <1>2, <1>3, <1>4, <3>1, ShowsInJournal
      <4>2. x < n + 1
        OBVIOUS
      <4> QED
        BY <1>2, <1>4, <3>2, <4>1, <4>2
    <3>3. CASE j \in 1..l
      BY <1>3, <1>4, <2>1, <3>1, <3>3 DEF Shows
    <3> QED
      BY <1>5, <3>2, <3>3
  <2> QED
    BY <1>4, <2>1 DEF Told!InOrder
<1>7. Told!InOrder(rs)
  <2>1. rs \in Seq(Chunk) /\ \A i, j \in 1..Len(rs) : i < j => rs[i].seq < rs[j].seq
    BY <1>1 DEF Merged
  <2>2. DOMAIN rs = 1..Len(rs)
    BY <2>1
  <2> QED
    BY <2>1, <2>2 DEF Told!InOrder
<1>8. \A y : y \in Told!ToSet(ss) <=> \E k \in 1..n : es[k].kind # "result" /\ y = Told!Streamed(es[k])
  <2>1. DOMAIN ss = 1..l
    BY <1>3
  <2>2. \A y : y \in Told!ToSet(ss) <=> \E i \in 1..l : y = ss[i]
    BY <2>1 DEF Told!ToSet
  <2>3. /\ \A i \in 1..l : \E k \in 1..n : es[k].kind # "result" /\ ss[i] = Told!Streamed(es[k])
        /\ \A k \in 1..n : es[k].kind # "result" => \E i \in 1..l : ss[i] = Told!Streamed(es[k])
    BY <1>2, <1>3 DEF Shows
  <2>4. ASSUME NEW y \in Told!ToSet(ss)
        PROVE  \E k \in 1..n : es[k].kind # "result" /\ y = Told!Streamed(es[k])
    <3>1. PICK i \in 1..l : y = ss[i]
      BY <2>2
    <3>2. PICK k \in 1..n : es[k].kind # "result" /\ ss[i] = Told!Streamed(es[k])
      BY <2>3
    <3> QED
      BY <3>1, <3>2
  <2>5. ASSUME NEW k \in 1..n, es[k].kind # "result" PROVE Told!Streamed(es[k]) \in Told!ToSet(ss)
    <3>1. PICK i \in 1..l : ss[i] = Told!Streamed(es[k])
      BY <2>3, <2>5
    <3> QED
      BY <2>2, <3>1
  <2> QED
    BY <2>4, <2>5
<1>9. \A y : y \in Told!ToSet(t) <=> y = e \/ y \in Told!ToSet(ss)
  <2>1. DOMAIN ss = 1..l
    BY <1>3
  <2>2. \A y : y \in Told!ToSet(ss) <=> \E i \in 1..l : y = ss[i]
    BY <2>1 DEF Told!ToSet
  <2>3. \A y : y \in Told!ToSet(t) <=> \E i \in 1..(l + 1) : y = t[i]
    BY <1>4 DEF Told!ToSet
  <2>4. e \in Told!ToSet(t)
    BY <1>4, <1>5, <2>3
  <2>5. ASSUME NEW y \in Told!ToSet(ss) PROVE y \in Told!ToSet(t)
    <3>1. PICK i \in 1..l : y = ss[i]
      BY <2>2
    <3>2. t[i] = y /\ i \in 1..(l + 1)
      BY <1>4, <1>5, <3>1
    <3> QED
      BY <2>3, <3>2
  <2>6. ASSUME NEW y \in Told!ToSet(t), y # e PROVE y \in Told!ToSet(ss)
    <3>1. PICK i \in 1..(l + 1) : y = t[i]
      BY <2>3
    <3>2. i \in 1..l
      BY <1>4, <1>5, <2>6, <3>1
    <3>3. ss[i] = y
      BY <1>4, <3>1, <3>2
    <3> QED
      BY <2>2, <3>2, <3>3
  <2> QED
    BY <2>4, <2>5, <2>6
<1>10. ASSUME NEW m, NEW kind \in Told!Deltas
       PROVE  Told!ToldOnce(Told!Parts(Told!ToSet(t), kind, m), Told!Parts(Again(rs), kind, m))
  <2> DEFINE before == Told!Parts(Told!ToSet(t), kind, m)
  <2>1. \A k \in 1..n :
          /\ Told!Streamed(es[k]).kind = kind <=> es[k].kind = kind
          /\ Told!Streamed(es[k]).of = es[k].of
    <3> SUFFICES ASSUME NEW k \in 1..n
                 PROVE  /\ Told!Streamed(es[k]).kind = kind <=> es[k].kind = kind
                        /\ Told!Streamed(es[k]).of = es[k].of
      OBVIOUS
    <3>1. es[k] \in ToldEvent(ToldKinds)
      BY <1>2 DEF InJournal
    <3>2. es[k].kind \in ToldKinds
      BY <3>1 DEF ToldEvent
    <3>3. /\ Public(es[k].kind) \in Told!Deltas <=> es[k].kind \in Told!Deltas
          /\ es[k].kind \in Told!Deltas => Public(es[k].kind) = es[k].kind
      BY <3>2, PublicKinds
    <3>4. Told!Streamed(es[k]).kind = Public(es[k].kind) /\ Told!Streamed(es[k]).of = es[k].of
      BY <3>1, StreamedEvent
    <3> QED
      BY <3>3, <3>4
  <2>2. kind # "result" /\ e.kind # kind
    BY DEF Told!Deltas
  <2>3. \A y : y \in before <=> y \in Told!ToSet(t) /\ y.kind = kind /\ y.of = m
    BY DEF Told!Parts
  <2>4. \A y : y \in before <=>
          \E k \in 1..n : es[k].kind = kind /\ es[k].of = m /\ y = Told!Streamed(es[k])
    <3> HIDE DEF before
    <3>1. ASSUME NEW y \in before
          PROVE  \E k \in 1..n : es[k].kind = kind /\ es[k].of = m /\ y = Told!Streamed(es[k])
      <4>1. y.kind = kind /\ y.of = m /\ y \in Told!ToSet(t)
        BY <2>3
      <4>2. y \in Told!ToSet(ss)
        BY <1>9, <2>2, <4>1
      <4>3. PICK k \in 1..n : y = Told!Streamed(es[k])
        BY <1>8, <4>2
      <4> QED
        BY <2>1, <4>1, <4>3
    <3>2. ASSUME NEW k \in 1..n, es[k].kind = kind, es[k].of = m
          PROVE  Told!Streamed(es[k]) \in before
      <4>1. Told!Streamed(es[k]) \in Told!ToSet(t)
        BY <1>8, <1>9, <2>2, <3>2
      <4> QED
        BY <2>1, <2>3, <3>2, <4>1
    <3> QED
      BY <3>1, <3>2
  <2> HIDE DEF before
  <2>5. Told!ToldOnce(before, Told!Parts(Again(rs), kind, m))
    BY <1>1, <1>2, <2>4, MessageIsToldOnce
  <2> QED
    BY <2>5 DEF before
<1>11. Told!Calls(Again(rs)) = Told!Calls(Told!ToSet(Told!Front(t)))
  <2>1. Told!Front(t) = SubSeq(t, 1, l)
    <3>1. Told!Front(t) = SubSeq(t, 1, Len(t) - 1)
      BY DEF Told!Front
    <3>2. (l + 1) - 1 = l
      OBVIOUS
    <3> QED
      BY <1>4, <3>1, <3>2
  <2>2. Told!Front(t) = ss
    <3>1. t = Append(ss, e)
      BY DEF t
    <3> QED
      BY <1>3, <2>1, <3>1
  <2>3. Told!Calls(Again(rs)) = Told!Calls(Told!ToSet(ss))
    BY <1>1, <1>2, <1>8, CallsAreToldAgain
  <2> QED
    BY <2>2, <2>3
<1>12. WholeStory(t, rs)
  BY <1>6, <1>7, <1>10, <1>11 DEF WholeStory
<1> QED
  BY <1>12 DEF t, rs

-----------------------------------------------------------------------------
(* Transcript: while the run goes on its journal is in order and shown;    *)
(* ids of different messages differ.                                       *)
IdsDiffer == \A p, q \in DOMAIN ids : ids[p] # 0 /\ ids[p] = ids[q] => p = q

StoryInv ==
  /\ IdsDiffer
  /\ ~ended => InJournal(recorded) /\ Shows(recorded, shown)
  /\ ended => WholeStory(shown, stored)

LEMMA StoryInitHolds == Told!Init => StoryInv
<1> SUFFICES ASSUME Told!Init PROVE StoryInv
  OBVIOUS
<1>1. <<>> \in Seq(ToldEvent(ToldKinds)) /\ Len(<<>>) = 0 /\ 1..0 = {}
  OBVIOUS
<1>2. InJournal(<<>>) /\ Shows(<<>>, <<>>)
  BY <1>1 DEF InJournal, Shows
<1>3. \A p \in DOMAIN ids : ids[p] = 0
  BY DEF Told!Init
<1>4. recorded = <<>> /\ shown = <<>> /\ ended = FALSE
  BY DEF Told!Init
<1> QED
  BY <1>2, <1>3, <1>4 DEF StoryInv, IdsDiffer

LEMMA GivenIdIsNew ==
  ASSUME IdsTyped, IdsDiffer, NEW p \in Provided \cup {Told!Stderr}, Told!ForProvider(p)
  PROVE  IdsDiffer'
<1>1. CASE ids[p] # 0
  BY <1>1 DEF IdsDiffer, Told!ForProvider
<1>2. CASE ids[p] = 0
  <2>1. PICK n \in Nat : n = minted
    BY DEF IdsTyped
  <2>2. PICK new \in Nat : new = n + 1 /\ new \notin 0..n
    OBVIOUS
  <2>3. ids' = [ids EXCEPT ![p] = new]
    BY <1>2, <2>1, <2>2 DEF Told!ForProvider
  <2>4. \A q \in DOMAIN ids : ids[q] \in 0..n
    BY <2>1 DEF IdsTyped
  <2>5. DOMAIN ids' = DOMAIN ids /\ \A q \in DOMAIN ids : ids'[q] = IF q = p THEN new ELSE ids[q]
    BY <2>3
  <2>6. ASSUME NEW q \in DOMAIN ids, NEW o \in DOMAIN ids, ids'[q] # 0, ids'[q] = ids'[o] PROVE q = o
    BY <2>2, <2>4, <2>5, <2>6 DEF IdsDiffer
  <2> QED
    BY <2>5, <2>6 DEF IdsDiffer
<1> QED
  BY <1>1, <1>2

(* An event that does not end the run.                                     *)
LEMMA StoryGoesOn ==
  ASSUME ToldIInv, StoryInv, ~ended, ~ended', IdsDiffer',
         NEW kind \in ToldKinds \ Told!Ends, NEW of \in Nat \cup Tools, NEW text \in Seq(Nat),
         kind \in Told!Deltas => text = <<Len(recorded) + 1>>,
         Told!Journal(Told!Event(kind, of, text))
  PROVE  StoryInv'
<1> DEFINE e == Told!Event(kind, of, text)
<1>1. e \in ToldEvent(ToldKinds) /\ e.kind = kind /\ e.seq = Len(recorded) + 1 /\ e.text = text
  BY ToldEventTyped DEF Told!Event
<1> HIDE DEF e
<1>2. Told!Journal(e)
  BY DEF e
<1>3. kind # "completed"
  BY DEF Told!Ends
<1>4. recorded' = Append(recorded, e) /\ shown' = shown \o Told!Projected(e)
  BY <1>1, <1>2, <1>3 DEF Told!Journal
<1>5. InJournal(recorded) /\ Shows(recorded, shown) /\ shown \in Seq(ToldEvent(StreamKinds))
  BY DEF StoryInv, ToldIInv
<1>6. InJournal(Append(recorded, e))
  BY <1>1, <1>5, JournalGoesOn
<1>7. Shows(Append(recorded, e), shown \o Told!Projected(e))
  BY <1>1, <1>5, ShowGoesOn
<1>8. InJournal(recorded') /\ Shows(recorded', shown')
  BY <1>4, <1>6, <1>7
<1> QED
  BY <1>8 DEF StoryInv

LEMMA StoryEnds ==
  ASSUME ToldIInv, StoryInv, NEW kind \in Told!Ends, Told!End(kind)
  PROVE  StoryInv'
<1> DEFINE e == Told!Event(kind, 0, <<>>)
           s == Told!Streamed(e)
<1>1. /\ ~ended /\ ended' /\ stored' = Told!Archive(recorded) /\ ids' = ids /\ minted' = minted
      /\ Told!Journal(e)
  BY DEF Told!End
<1>2. InJournal(recorded) /\ Shows(recorded, shown) /\ IdsDiffer
  BY <1>1 DEF StoryInv
<1>3. shown \in Seq(ToldEvent(StreamKinds))
  BY DEF ToldIInv
<1>4. e \in ToldEvent(ToldKinds) /\ e.kind = kind /\ e.seq = Len(recorded) + 1
  <2>1. kind \in ToldKinds /\ 0 \in Nat \cup Tools
    BY DEF ToldKinds
  <2>2. <<>> \in Seq(Nat)
    OBVIOUS
  <2> QED
    BY <2>1, <2>2, ToldEventTyped DEF Told!Event
<1> HIDE DEF e
<1>5. s \in ToldEvent(StreamKinds) /\ s.kind \in Told!Ends /\ s.seq = Len(recorded) + 1
  BY <1>4, StreamedKind, StreamedEvent
<1>6. s.kind # "message completed" /\ s.kind \notin Told!Deltas
  BY <1>5 DEF Told!Ends, Told!Deltas
<1>7. Told!Projected(e) = <<s>>
  BY <1>6 DEF Told!Projected
<1>8. shown' = shown \o <<s>>
  BY <1>1, <1>7 DEF Told!Journal
<1> HIDE DEF s
<1>9. shown' = Append(shown, s)
  BY <1>3, <1>5, <1>8
<1>10. WholeStory(Append(shown, s), Told!Archive(recorded))
  BY <1>2, <1>3, <1>5, <1>6, EndTellsAll
<1>11. WholeStory(shown, stored)'
  BY <1>1, <1>9, <1>10 DEF WholeStory
<1>12. IdsDiffer'
  BY <1>1, <1>2 DEF IdsDiffer
<1> QED
  BY <1>1, <1>11, <1>12 DEF StoryInv

LEMMA StoryStepKeeps ==
  ToldIInv /\ StoryInv /\ [Told!Next]_(Told!transcriptVars) => StoryInv'
<1> SUFFICES ASSUME ToldIInv, StoryInv, [Told!Next]_(Told!transcriptVars) PROVE StoryInv'
  OBVIOUS
<1>1. IdsTyped /\ IdsDiffer /\ ended \in BOOLEAN
  BY DEF ToldIInv, StoryInv
<1>2. ids' = ids => IdsDiffer'
  BY <1>1 DEF IdsDiffer
<1>3. <<Len(recorded) + 1>> \in Seq(Nat) /\ <<>> \in Seq(Nat)
  <2>1. Len(recorded) + 1 \in Nat
    BY DEF ToldIInv
  <2> QED
    BY <2>1
<1>4. ASSUME NEW kind \in Told!Deltas, NEW p \in Provided \cup {Told!Stderr, Told!NoId},
             Told!CliDelta(kind, p)
      PROVE  StoryInv'
  <2>1. ~ended /\ ended' = ended /\ Told!Journal(Told!Event(kind, current', <<Len(recorded) + 1>>))
    BY <1>4 DEF Told!CliDelta, Told!Open
  <2>2. kind \in ToldKinds \ Told!Ends
    BY DEF ToldKinds, Told!Deltas, Told!Ends
  <2>3. CASE p = Told!NoId
    <3>1. Told!CurrentOrNew
      BY <1>4, <2>3 DEF Told!CliDelta
    <3>2. IdsTyped' /\ ids' = ids
      BY <1>1, <3>1, CurrentId DEF Told!CurrentOrNew
    <3>3. current' \in Nat \cup Tools
      BY <3>2 DEF IdsTyped
    <3> QED
      BY <1>2, <1>3, <2>1, <2>2, <3>2, <3>3, StoryGoesOn
  <2>4. CASE p # Told!NoId
    <3>1. Told!ForProvider(p) /\ p \in Provided \cup {Told!Stderr}
      BY <1>4, <2>4 DEF Told!CliDelta
    <3>2. IdsTyped' /\ IdsDiffer'
      BY <1>1, <3>1, GivenId, GivenIdIsNew
    <3>3. current' \in Nat \cup Tools
      BY <3>2 DEF IdsTyped
    <3> QED
      BY <1>3, <2>1, <2>2, <3>2, <3>3, StoryGoesOn
  <2> QED
    BY <2>3, <2>4
<1>5. ASSUME NEW kind \in Told!Deltas, Told!AgentDelta(kind) PROVE StoryInv'
  <2>1. kind \in ToldKinds \ Told!Ends
    BY DEF ToldKinds, Told!Ends, Told!Deltas
  <2>2. current \in Nat \cup Tools
    BY <1>1 DEF IdsTyped
  <2>3. /\ ~ended /\ ended' = ended /\ ids' = ids
        /\ Told!Journal(Told!Event(kind, current, <<Len(recorded) + 1>>))
    BY <1>5 DEF Told!AgentDelta, Told!Open
  <2> QED
    BY <1>2, <1>3, <2>1, <2>2, <2>3, StoryGoesOn
<1>6. ASSUME NEW kind \in ToldKinds \ (Told!Ends \cup Told!Deltas), NEW of \in Nat \cup Tools,
             Told!Open, UNCHANGED <<ids, ended>>, Told!Journal(Told!Event(kind, of, <<>>))
      PROVE  StoryInv'
  <2>1. ~ended /\ ~ended' /\ IdsDiffer'
    BY <1>2, <1>6 DEF Told!Open
  <2>2. kind \in ToldKinds \ Told!Ends /\ ~(kind \in Told!Deltas)
    OBVIOUS
  <2> QED
    BY <1>3, <1>6, <2>1, <2>2, StoryGoesOn
<1>7. ASSUME Told!SayStarted \/ Told!SayResult PROVE StoryInv'
  <2>1. /\ "started" \in ToldKinds \ (Told!Ends \cup Told!Deltas)
        /\ "result" \in ToldKinds \ (Told!Ends \cup Told!Deltas)
        /\ 0 \in Nat \cup Tools
    BY DEF ToldKinds, Told!Ends, Told!Deltas
  <2>2. Told!Open /\ UNCHANGED <<ids, ended>>
    BY <1>7 DEF Told!SayStarted, Told!SayResult
  <2>3. Told!Journal(Told!Event("started", 0, <<>>)) \/ Told!Journal(Told!Event("result", 0, <<>>))
    BY <1>7 DEF Told!SayStarted, Told!SayResult
  <2> QED
    BY <1>6, <2>1, <2>2, <2>3
<1>8. ASSUME NEW t \in Tools, NEW kind \in {"tool started", "tool completed", "tool failed"},
             Told!ToolEvent(kind, t)
      PROVE  StoryInv'
  <2>1. kind \in ToldKinds \ (Told!Ends \cup Told!Deltas)
    BY DEF ToldKinds, Told!Ends, Told!Deltas
  <2> QED
    BY <1>6, <1>8, <2>1 DEF Told!ToolEvent
<1>9. ASSUME Told!StartNew PROVE StoryInv'
  <2>1. ~ended /\ UNCHANGED <<ids, recorded, shown, stored, ended>>
    BY <1>9 DEF Told!StartNew, Told!Open
  <2> QED
    BY <1>2, <2>1 DEF StoryInv, InJournal, Shows
<1>10. ASSUME NEW kind \in Told!Ends, Told!End(kind) PROVE StoryInv'
  BY <1>10, StoryEnds
<1>11. ASSUME UNCHANGED Told!transcriptVars PROVE StoryInv'
  <2>1. UNCHANGED <<ids, minted, recorded, shown, stored, ended>>
    BY <1>11 DEF Told!transcriptVars
  <2>2. WholeStory(shown, stored) => WholeStory(shown, stored)'
    BY <2>1 DEF WholeStory
  <2> QED
    BY <1>2, <2>1, <2>2 DEF StoryInv, InJournal, Shows
<1> QED
  BY <1>4, <1>5, <1>7, <1>8, <1>9, <1>10, <1>11 DEF Told!Next

(* The stored message tells the run again as it was shown, whatever the    *)
(* run said and in whatever order: every message with all its text in one  *)
(* piece, where it began, its thoughts apart, and the same tool calls.     *)
THEOREM HistoryTellsAll == Told!Spec => []Told!HistoryIsWhole
<1>1. StoryInv => Told!HistoryIsWhole
  BY DEF StoryInv, IdsDiffer, WholeStory, Again, Told!HistoryIsWhole, Told!Retold
<1> QED
  BY <1>1, ToldInitHolds, ToldStepKeeps, StoryInitHolds, StoryStepKeeps, PTL DEF Told!Spec
=============================================================================
