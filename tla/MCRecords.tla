---------------------------- MODULE MCRecords ----------------------------
(***************************************************************************)
(* TLC instance of the components that several callers share as records:   *)
(* the session rows, the skill files, the memory files, the table of       *)
(* connected workers, the table of worker processes, the accounts that     *)
(* users have connected, the assistants and the streams of the broker.     *)
(* They have no state in common here, so each behaviour moves one of them  *)
(* and the state spaces add up. Safety only. The session store is taken    *)
(* with the theorems about it, for RecordsProofs.                          *)
(***************************************************************************)
EXTENDS SequencesExt

CONSTANTS
  Callers,  \* goroutines that call the services
  Workers,  \* worker ids
  Pieces, tea, rain, bad,         \* texts, three of them by name
  Blocked, Needles, Contents, Limit, \* what the memory tool may be asked, and its limits
  Externals, Flows,               \* GitHub accounts and OAuth states
  Skills, Builtin, BuiltinDir, Documents, Fragments, Patches, \* the skills, what is
  SkillsDirMade, Installed,       \* written to them and what is there at first
  Orgs, Codes,                    \* organisations and codes of assistants
  OldSubjects,                    \* of streams of earlier versions
  MaxSessionMessages, MaxSessionCalls,                    \* bounds, named as in the
  MaxConns, MaxWorkerMessages, MaxListings, MaxCommands, QueueSize, \* components
  MaxStarts, MaxStops, MaxChecks, MaxChanges, MaxRestarts, MaxResolves, MaxAssistants, MaxRequests, MaxBrokerFaults,
  MaxSkillCalls, MaxCrashes,
  MaxWithCLI  \* bound: calls and crashes of a worker that copies skills to a CLI

VARIABLES
  row, sessionMessages, sessionCall, sessionCalls, overlap, missed, unsaved,
  hasCLI, rootMade, dirs, disk, external, step, skillRequest, content, timer,
  reload, catalog, worker, skillCalls, crashes, misled, touched, silent,
  overlapped, cut,
  workers, registryOwner, made, link, stale, queue, closed, deadline, reader,
  writer, checker, registryMessages, listing, command, registryCalls, panicked,
  instances, workerOf, schedulerProcess, asked, monitor, holder, checked,
  started, schedulerCalls, checks,
  file, lock, at, memoryCall, next, temps, changes,
  authOwner, pending, credentials, defaults, callback, people, answered,
  authRequest, restarts, resolves,
  assistants, assistantCall, assistantCalls,
  streams, brokerProcess, faults,
  part  \* the component that moves

(* The subjects of today with ids and wildcards in other places, cut short *)
(* or made longer, with or without a > at the end.                         *)
Shapes ==
  {<<"org", a, b, c, d>> : a \in {"*", "1"}, b \in {"worker", "*"}, c \in {"*", "1"}, d \in {"task", "*"}}
  \cup {<<"org", a, b, c, d, "*">> : a \in {"*", "1"}, b \in {"session", "*"}, c \in {"*", "1"},
                                     d \in {"message", "*"}}
OlderSubjects ==
  UNION {{SubSeq(s, 1, n), Append(SubSeq(s, 1, n - 1), ">"), Append(s, ">")} : s \in Shapes, n \in 1..5}

Document(n, t) == [name |-> n, loads |-> TRUE, text |-> t]
NoFiles == [f \in {"SKILL.md", "references/notes.md"} |-> [name |-> "no name", loads |-> FALSE, text |-> <<>>]]
OneBuiltin == [d \in {"a"} |-> [NoFiles EXCEPT !["SKILL.md"] = Document("a", <<"x">>),
                                              !["references/notes.md"] = Document("no name", <<"x">>)]]
SomeDocuments == {Document("a", <<"x">>), Document("b", <<"y", "y">>), [Document("b", <<"y">>) EXCEPT !.loads = FALSE]}
SomePatches == {[old |-> "x", new |-> "", all |-> FALSE], [old |-> "y", new |-> "x", all |-> FALSE],
                [old |-> "y", new |-> "x", all |-> TRUE]}
OneInstalled == [a |-> NoFiles, b |-> [NoFiles EXCEPT !["SKILL.md"] = Document("b", <<"y", "y">>)]]

SomeNeedles == {{tea}, {tea, rain}}
SomeContents == {<<tea>>, <<rain, tea>>, <<bad>>}
SmallFiles == [user |-> 1, memory |-> 3]

Symmetry == Permutations(Callers) \cup Permutations(Workers)

Session == INSTANCE SessionStoreProofs WITH
  Ops <- {"activate", "pause", "end", "resume", "update", "amend", "title", "add", "reply",
          "clear", "delete", "delete message"},
  MaxMessages <- MaxSessionMessages,
  MaxCalls <- MaxSessionCalls,
  messages <- sessionMessages, call <- sessionCall, calls <- sessionCalls

Skill == INSTANCE SkillLibrary WITH
  Calls <- Callers,
  MaxCalls <- MaxSkillCalls,
  request <- skillRequest, calls <- skillCalls

Registry == INSTANCE WorkerRegistry WITH
  MaxMessages <- MaxWorkerMessages,
  Heartbeats <- TRUE,
  WelcomeMayFail <- TRUE,
  owner <- registryOwner, messages <- registryMessages, calls <- registryCalls

Scheduler == INSTANCE ProcessScheduler WITH
  Ids <- Workers,
  MaxCalls <- MaxStops,
  process <- schedulerProcess, calls <- schedulerCalls

Memory == INSTANCE MemoryStore WITH
  call <- memoryCall

Auth == INSTANCE Authorizations WITH
  Users <- Callers,
  Callbacks <- Workers,
  owner <- authOwner, request <- authRequest

Assistant == INSTANCE Assistants WITH
  MaxRows <- MaxAssistants,
  MaxCalls <- MaxRequests,
  call <- assistantCall, calls <- assistantCalls

Broker == INSTANCE Streams WITH
  Starters <- Callers,
  MaxFaults <- MaxBrokerFaults,
  process <- brokerProcess

ASSUME RecordsAssumption ==
  /\ Session!StoreAssumption
  /\ Skill!LibraryAssumption
  /\ Registry!RegistryAssumption
  /\ Scheduler!SchedulerAssumption
  /\ Memory!MemoryAssumption
  /\ Auth!AuthorizationAssumption
  /\ Assistant!AssistantAssumption
  /\ Broker!StreamsAssumption

sessionVars ==
  <<row, sessionMessages, sessionCall, sessionCalls, overlap, missed, unsaved>>
skillVars ==
  <<hasCLI, rootMade, dirs, disk, external, step, skillRequest, content,
    timer, reload, catalog, worker, skillCalls, crashes, misled, touched,
    silent, overlapped, cut>>
registryVars ==
  <<workers, registryOwner, made, link, stale, queue, closed, deadline,
    reader, writer, checker, registryMessages, listing, command,
    registryCalls, panicked>>
schedulerVars ==
  <<instances, workerOf, schedulerProcess, asked, monitor, holder, checked,
    started, schedulerCalls, checks>>
memoryVars ==
  <<file, lock, at, memoryCall, next, temps, changes>>
authVars ==
  <<authOwner, pending, credentials, defaults, callback, people, answered,
    authRequest, restarts, resolves>>
assistantVars ==
  <<assistants, assistantCall, assistantCalls>>
brokerVars ==
  <<streams, brokerProcess, faults>>
vars == <<sessionVars, skillVars, registryVars, schedulerVars, memoryVars, authVars, assistantVars, brokerVars, part>>

Init ==
  /\ Session!Init
  /\ Skill!Init
  /\ Registry!Init
  /\ Scheduler!Init
  /\ Memory!Init
  /\ Auth!Init
  /\ Assistant!Init
  /\ Broker!Init
  /\ part \in {"Session", "Skill", "Registry", "Scheduler", "Memory", "Auth", "Assistant", "Broker"}
  /\ part # "Skill" => hasCLI
  /\ part # "Broker" => streams = <<>>

SessionMoves(A) == part = "Session" /\ UNCHANGED <<skillVars, registryVars, schedulerVars, memoryVars, authVars, assistantVars, brokerVars, part>> /\ A
SkillMoves(A) ==
  /\ part = "Skill" /\ UNCHANGED <<sessionVars, registryVars, schedulerVars, memoryVars, authVars, assistantVars, brokerVars, part>>
  /\ A
  /\ hasCLI => skillCalls' + crashes' <= MaxWithCLI
RegistryMoves(A) == part = "Registry" /\ UNCHANGED <<sessionVars, skillVars, schedulerVars, memoryVars, authVars, assistantVars, brokerVars, part>> /\ A
SchedulerMoves(A) == part = "Scheduler" /\ UNCHANGED <<sessionVars, skillVars, registryVars, memoryVars, authVars, assistantVars, brokerVars, part>> /\ A
MemoryMoves(A) == part = "Memory" /\ UNCHANGED <<sessionVars, skillVars, registryVars, schedulerVars, authVars, assistantVars, brokerVars, part>> /\ A
AuthMoves(A) == part = "Auth" /\ UNCHANGED <<sessionVars, skillVars, registryVars, schedulerVars, memoryVars, assistantVars, brokerVars, part>> /\ A
AssistantMoves(A) == part = "Assistant" /\ UNCHANGED <<sessionVars, skillVars, registryVars, schedulerVars, memoryVars, authVars, brokerVars, part>> /\ A
BrokerMoves(A) == part = "Broker" /\ UNCHANGED <<sessionVars, skillVars, registryVars, schedulerVars, memoryVars, authVars, assistantVars, part>> /\ A

Next ==
  \/ SessionMoves(Session!Next)
  \/ SkillMoves(Skill!Next)
  \/ RegistryMoves(Registry!Next)
  \/ SchedulerMoves(Scheduler!Next)
  \/ MemoryMoves(Memory!Next)
  \/ AuthMoves(Auth!Next)
  \/ AssistantMoves(Assistant!Next)
  \/ BrokerMoves(Broker!Next)

Spec == Init /\ [][Next]_vars

-----------------------------------------------------------------------------
(* The component that moves keeps its types; the others are as they began. *)
TypeOK ==
  /\ part = "Session" => Session!TypeOK
  /\ part = "Registry" => Registry!TypeOK
  /\ part = "Scheduler" => Scheduler!TypeOK
  /\ part = "Memory" => Memory!TypeOK
  /\ part = "Auth" => Auth!TypeOK
  /\ part = "Assistant" => Assistant!TypeOK

(* SessionStore: a session at rest counts the messages of the user.        *)
CountMatches == Session!CountMatches

(* SessionStore: a message sorts after those that were there before it.    *)
SeenSortsBefore == Session!SeenSortsBefore

(* SessionStore, Assistants: what a call has written is undone by stale    *)
(* calls only.                                                             *)
OnlyStaleCallsUndo == Session!OnlyStaleCallsUndo /\ Assistant!OnlyStaleCallsUndo

(* SkillLibrary: the documents are whole but for those whose copy was cut  *)
(* short, and a stale catalog has one of the known reasons.                *)
CatalogHolds == Skill!CatalogHolds

(* SkillLibrary: text leaves a skill only knowingly.                       *)
TextLeavesKnowingly == Skill!TextLeavesKnowingly

(* Streams: the streams of the broker stand once a process has started,    *)
(* and a start fails only for known reasons.                               *)
StreamsStand == Broker!StreamsStand

(* WorkerRegistry: a working connection stays in the table, and what is in *)
(* the table can be sent to.                                               *)
WorkersStayReachable == Registry!WorkersStayReachable

(* Authorizations: who was told to be authorized stays so.                 *)
AuthorizationsHold == Auth!AuthorizationsHold

(* ProcessScheduler: a running process can be listed and stopped.          *)
SoleIsManaged == Scheduler!SoleIsManaged

(* MemoryStore: no change is lost or written in part.                      *)
NoLostUpdate == Memory!NoLostUpdate
=============================================================================
