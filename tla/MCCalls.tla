---------------------------- MODULE MCCalls ----------------------------
(***************************************************************************)
(* TLC instance of the components whose goroutines wait for locks, for     *)
(* each other or for processes: the table of connected workers, the        *)
(* process scheduler, the memory files, the browsers, the events on their  *)
(* way to one, the runs of a CLI, and the subscriptions of the processes.  *)
(* They have no state in common here, so each behaviour moves one of them  *)
(* and the state spaces add up. Liveness.                                  *)
(***************************************************************************)
EXTENDS SequencesExt

CONSTANTS
  Workers,  \* worker ids of the process scheduler
  Connecting,  \* worker ids that connect
  Callers,  \* tool calls
  Clients,  \* browsers
  Lanes, Viewers,  \* tool calls of a run and browsers that watch it
  Pieces, tea, rain, bad  \* texts, three of them by name

VARIABLES
  workers, owner, made, link, stale, registryQueue, registryClosed, deadline,
  registryReader, registryWriter, checker, messages, listing, command,
  registryCalls, panicked,
  instances, workerOf, schedulerProcess, asked, monitor, holder, checked,
  started, schedulerCalls, checks,
  file, lock, at, call, next, temps, changes,
  socket, name, handler, hubReader, hubWriter, hubQueue, hubClosed, table,
  loop, droppers, reads, sends, panic, overflowed,
  phase, number, journal, archive, busy, outbox, stream, conn, got, leaves,
  lost, missed, again,
  binding, home, runs, run, outputProcess, pipes, scanner, parse, waiter,
  events, cancelled, losses, saves, copy, left, excused, cut,
  filter, bound, state, stored, published, faults,
  part  \* the component that moves

Registry == INSTANCE WorkerRegistry WITH
  Workers <- Connecting,
  MaxConns <- 2,
  MaxMessages <- 1,
  MaxListings <- 1,
  MaxCommands <- 1,
  Heartbeats <- TRUE,
  QueueSize <- 1,
  WelcomeMayFail <- FALSE,
  queue <- registryQueue, closed <- registryClosed, reader <- registryReader,
  writer <- registryWriter, calls <- registryCalls

Scheduler == INSTANCE ProcessScheduler WITH
  Ids <- Workers,
  MaxStarts <- 2,
  MaxCalls <- 2,
  MaxChecks <- 1,
  process <- schedulerProcess, calls <- schedulerCalls

Memory == INSTANCE MemoryStore WITH
  Blocked <- {bad},
  Needles <- {{tea}, {tea, rain}},
  Contents <- {<<tea>>, <<rain, tea>>, <<bad>>},
  Limit <- [user |-> 1, memory |-> 3],
  MaxChanges <- 2

Hub == INSTANCE ClientHub WITH
  Names <- {"n"},
  QueueSize <- 1,
  MaxMessages <- 0,
  MaxSends <- 1,
  reader <- hubReader, writer <- hubWriter, queue <- hubQueue,
  closed <- hubClosed

Events == INSTANCE EventStream WITH
  MaxRuns <- 2,
  MaxEvents <- 3,
  MaxLeaves <- 1,
  MaxRepeats <- 0,
  Room <- 1,
  MayLose <- TRUE

Output == INSTANCE CliRun WITH
  Providers <- {"claude", "codex"},
  Falls <- {"claude"},
  MaxRuns <- 1,
  MaxLines <- 2,
  MaxLosses <- 0,
  MaxSaves <- 0,
  process <- outputProcess

Bus == INSTANCE Subscriptions WITH
  Workers <- Connecting,
  Servers <- Callers,
  MaxMessages <- 1,
  MaxFaults <- 2

ASSUME CallsAssumption ==
  /\ Registry!RegistryAssumption
  /\ Scheduler!SchedulerAssumption
  /\ Memory!MemoryAssumption
  /\ Hub!HubAssumption
  /\ Events!EventStreamAssumption
  /\ Output!CliAssumption
  /\ Bus!SubscriptionAssumption

registryVars ==
  <<workers, owner, made, link, stale, registryQueue, registryClosed,
    deadline, registryReader, registryWriter, checker, messages, listing,
    command, registryCalls, panicked>>
schedulerVars ==
  <<instances, workerOf, schedulerProcess, asked, monitor, holder, checked,
    started, schedulerCalls, checks>>
memoryVars ==
  <<file, lock, at, call, next, temps, changes>>
hubVars ==
  <<socket, name, handler, hubReader, hubWriter, hubQueue, hubClosed, table,
    loop, droppers, reads, sends, panic, overflowed>>
eventsVars ==
  <<phase, number, journal, archive, busy, outbox, stream, conn, got, leaves,
    lost, missed, again>>
outputVars ==
  <<binding, home, runs, run, outputProcess, pipes, scanner, parse, waiter,
    events, cancelled, losses, saves, copy, left, excused, cut>>
busVars ==
  <<filter, bound, state, stored, published, faults>>
vars == <<registryVars, schedulerVars, memoryVars, hubVars, eventsVars, outputVars, busVars, part>>

Init ==
  /\ Registry!Init
  /\ Scheduler!Init
  /\ Memory!Init
  /\ Hub!Init
  /\ Events!Init
  /\ Output!Init
  /\ Bus!Init
  /\ part \in {"Registry", "Scheduler", "Memory", "Hub", "Events", "Output", "Bus"}

(* Bound: the table of workers sees a second connection or a command, not  *)
(* both.                                                                   *)
RegistryMoves(A) ==
  /\ part = "Registry" /\ UNCHANGED <<schedulerVars, memoryVars, hubVars, eventsVars, outputVars, busVars, part>>
  /\ A
  /\ made' + registryCalls'.shutdown <= 2
SchedulerMoves(A) == part = "Scheduler" /\ UNCHANGED <<registryVars, memoryVars, hubVars, eventsVars, outputVars, busVars, part>> /\ A
MemoryMoves(A) == part = "Memory" /\ UNCHANGED <<registryVars, schedulerVars, hubVars, eventsVars, outputVars, busVars, part>> /\ A
HubMoves(A) == part = "Hub" /\ UNCHANGED <<registryVars, schedulerVars, memoryVars, eventsVars, outputVars, busVars, part>> /\ A
EventsMoves(A) == part = "Events" /\ UNCHANGED <<registryVars, schedulerVars, memoryVars, hubVars, outputVars, busVars, part>> /\ A
OutputMoves(A) == part = "Output" /\ UNCHANGED <<registryVars, schedulerVars, memoryVars, hubVars, eventsVars, busVars, part>> /\ A
BusMoves(A) == part = "Bus" /\ UNCHANGED <<registryVars, schedulerVars, memoryVars, hubVars, eventsVars, outputVars, part>> /\ A

Next ==
  \/ RegistryMoves(Registry!Next)
  \/ SchedulerMoves(Scheduler!Next)
  \/ MemoryMoves(Memory!Next)
  \/ HubMoves(Hub!Next)
  \/ EventsMoves(Events!Next)
  \/ OutputMoves(Output!Next)
  \/ BusMoves(Bus!Next)

Fairness ==
  /\ \A c \in Registry!Conns :
       /\ WF_registryVars(part = "Registry" /\ Registry!Runs(Registry!GoStale(c)))
       /\ WF_registryVars(part = "Registry" /\ Registry!Runs(Registry!Reader(c)))
       /\ WF_registryVars(part = "Registry" /\ Registry!Runs(Registry!Writer(c)))
       /\ WF_registryVars(part = "Registry" /\ Registry!Runs(Registry!Checker(c)))
       /\ WF_registryVars(part = "Registry" /\ Registry!Runs(Registry!ListVisit(c)))
  /\ WF_registryVars(part = "Registry" /\ Registry!Runs(Registry!ListEnd))
  /\ \A n \in Scheduler!Instances :
       /\ WF_schedulerVars(part = "Scheduler" /\ Scheduler!Goroutine(n))
       /\ WF_schedulerVars(part = "Scheduler" /\ Scheduler!ExitWhenAsked(n))
  /\ WF_schedulerVars(part = "Scheduler" /\ Scheduler!ListEnds)
  /\ WF_schedulerVars(part = "Scheduler" /\ Scheduler!HealthEnds)
  /\ \A c \in Callers : WF_memoryVars(part = "Memory" /\ Memory!Proceed(c))
  /\ \A k \in Clients : WF_hubVars(part = "Hub" /\ Hub!Runs(Hub!Goroutine(k)))
  /\ WF_hubVars(part = "Hub" /\ Hub!Runs(Hub!Loop))
  /\ WF_eventsVars(part = "Events" /\ Events!MainStep)
  /\ \A e \in Events!Emitters : WF_eventsVars(part = "Events" /\ Events!Publish(e))
  /\ \A l \in Lanes : WF_eventsVars(part = "Events" /\ Events!EndTool(l))
  /\ \A v \in Viewers :
       /\ WF_eventsVars(part = "Events" /\ Events!Deliver(v))
       /\ WF_eventsVars(part = "Events" /\ Events!Send(v))
  /\ WF_outputVars(part = "Output" /\ (Output!Reading \/ Output!Finish))
  /\ WF_outputVars(part = "Output" /\ Output!Killed)
  /\ \A p \in Callers \cup Connecting : WF_busVars(part = "Bus" /\ Bus!Goroutine(p))

Spec == Init /\ [][Next]_vars /\ Fairness

-----------------------------------------------------------------------------
(* WorkerRegistry: gone workers leave the table and listings end, unless   *)
(* the known lock or panic stops everything.                               *)
NothingHaltsUnlessLocked == Registry!NothingHaltsUnlessLocked

(* ProcessScheduler: calls end and ended processes leave the table, unless *)
(* the known cycle of locks stops them.                                    *)
NothingWaitsUnlessCycle == Scheduler!NothingWaitsUnlessCycle

(* MemoryStore: every call returns.                                        *)
CallsReturn == Memory!CallsReturn

(* ClientHub: a connection that is accepted leaves the table again.        *)
ConnectionsEnd == Hub!ConnectionsEnd

(* EventStream: a browser that watches is sent the end of the run.         *)
EndIsShown == Events!EndIsShown

(* CliRun: a run ends once its process has, or the worker is to stop.      *)
RunsEnd == Output!RunsEnd

(* Subscriptions: ended runs are handled while a server is up.             *)
EndedRunsAreHandled == Bus!EndedRunsAreHandled
=============================================================================
