---------------------------- MODULE MCAgents ----------------------------
(***************************************************************************)
(* TLC instance of what a worker and the server around it run: the parts   *)
(* of MCParts, the events on their way to a browser, and runs of a CLI,    *)
(* once with its output in detail and once over several runs. They have no *)
(* state in common here, so each behaviour moves one of them and the state *)
(* spaces add up. Safety only. The events and the CLIs are taken with the  *)
(* theorems about them, for AgentsProofs.                                  *)
(***************************************************************************)
EXTENDS MCParts

CONSTANTS
  Viewers, \* browsers that watch a run
  Providers, Falls, \* CLIs, and those whose last text may stand in for a result
  MaxModelActs,   \* bound: requests and starts in one behaviour
  MaxEventRuns, MaxEvents, MaxLeaves, MaxRepeats, Room, MayLose, \* bounds, as in the component
  MaxLines,       \* of the one run with its output in detail
  MaxRuns, MaxLosses, MaxSaves \* of the several runs of CLIs

VARIABLES
  phase, number, eventsJournal, eventsArchive, busy, outbox, stream, conn,
  got, leaves, lost, missed, again,
  outputBinding, outputHome, outputRuns, outputRun, outputProcess,
  outputPipes, outputScanner, outputParse, outputWaiter, outputEvents,
  outputCancelled, outputLosses, outputSaves, outputCopy, outputLeft,
  outputExcused, outputCut,
  bindingBinding, bindingHome, bindingRuns, bindingRun, bindingProcess,
  bindingPipes, bindingScanner, bindingParse, bindingWaiter, bindingEvents,
  bindingCancelled, bindingLosses, bindingSaves, bindingCopy, bindingLeft,
  bindingExcused, bindingCut,
  part  \* the component that moves

SomeRequests == {{}, {"missing"}}

Symmetry == Permutations(Actors) \cup Permutations(Others)

Events == INSTANCE EventStreamProofs WITH
  MaxRuns <- MaxEventRuns,
  journal <- eventsJournal, archive <- eventsArchive

(* One run of a CLI, with several lines of output.                         *)
Output == INSTANCE CliRunProofs WITH
  MaxRuns <- 1,
  MaxLosses <- 0,
  MaxSaves <- 0,
  binding <- outputBinding, home <- outputHome, runs <- outputRuns,
  run <- outputRun, process <- outputProcess, pipes <- outputPipes,
  scanner <- outputScanner, parse <- outputParse, waiter <- outputWaiter,
  events <- outputEvents, cancelled <- outputCancelled,
  losses <- outputLosses, saves <- outputSaves, copy <- outputCopy,
  left <- outputLeft, excused <- outputExcused, cut <- outputCut

(* Several runs, which resume each other.                                  *)
Binding == INSTANCE CliRunProofs WITH
  Providers <- Others,
  Falls <- {},
  MaxLines <- 1,
  binding <- bindingBinding, home <- bindingHome, runs <- bindingRuns,
  run <- bindingRun, process <- bindingProcess, pipes <- bindingPipes,
  scanner <- bindingScanner, parse <- bindingParse, waiter <- bindingWaiter,
  events <- bindingEvents, cancelled <- bindingCancelled,
  losses <- bindingLosses, saves <- bindingSaves, copy <- bindingCopy,
  left <- bindingLeft, excused <- bindingExcused, cut <- bindingCut

ASSUME AgentsAssumption ==
  /\ Models!ModelAssumption
  /\ Docker!DockerAssumption
  /\ Hub!HubAssumption
  /\ Events!EventStreamAssumption
  /\ Agent!AgentAssumption
  /\ Output!CliAssumption
  /\ Binding!CliAssumption
  /\ Told!TranscriptAssumption

eventsVars ==
  <<phase, number, eventsJournal, eventsArchive, busy, outbox, stream, conn,
    got, leaves, lost, missed, again>>
outputVars ==
  <<outputBinding, outputHome, outputRuns, outputRun, outputProcess,
    outputPipes, outputScanner, outputParse, outputWaiter, outputEvents,
    outputCancelled, outputLosses, outputSaves, outputCopy, outputLeft,
    outputExcused, outputCut>>
bindingVars ==
  <<bindingBinding, bindingHome, bindingRuns, bindingRun, bindingProcess,
    bindingPipes, bindingScanner, bindingParse, bindingWaiter, bindingEvents,
    bindingCancelled, bindingLosses, bindingSaves, bindingCopy, bindingLeft,
    bindingExcused, bindingCut>>
vars == <<modelsVars, dockerVars, hubVars, eventsVars, agentVars, outputVars, bindingVars, toldVars, part>>

Init ==
  /\ Models!Init
  /\ Docker!Init
  /\ Hub!Init
  /\ Events!Init
  /\ Agent!Init
  /\ Output!Init
  /\ Binding!Init
  /\ Told!Init
  /\ part \in {"Models", "Docker", "Hub", "Events", "Agent", "Output", "Binding", "Told"}
  /\ part # "Told" => source = "cli"

ModelsMoves(A) ==
  /\ part = "Models" /\ UNCHANGED <<dockerVars, hubVars, eventsVars, agentVars, outputVars, bindingVars, toldVars, part>>
  /\ A
  /\ calls' + starts' <= MaxModelActs
DockerMoves(A) == part = "Docker" /\ UNCHANGED <<modelsVars, hubVars, eventsVars, agentVars, outputVars, bindingVars, toldVars, part>> /\ A
HubMoves(A) == part = "Hub" /\ UNCHANGED <<modelsVars, dockerVars, eventsVars, agentVars, outputVars, bindingVars, toldVars, part>> /\ A
EventsMoves(A) == part = "Events" /\ UNCHANGED <<modelsVars, dockerVars, hubVars, agentVars, outputVars, bindingVars, toldVars, part>> /\ A
AgentMoves(A) == part = "Agent" /\ UNCHANGED <<modelsVars, dockerVars, hubVars, eventsVars, outputVars, bindingVars, toldVars, part>> /\ A
OutputMoves(A) == part = "Output" /\ UNCHANGED <<modelsVars, dockerVars, hubVars, eventsVars, agentVars, bindingVars, toldVars, part>> /\ A
BindingMoves(A) == part = "Binding" /\ UNCHANGED <<modelsVars, dockerVars, hubVars, eventsVars, agentVars, outputVars, toldVars, part>> /\ A
ToldMoves(A) == part = "Told" /\ UNCHANGED <<modelsVars, dockerVars, hubVars, eventsVars, agentVars, outputVars, bindingVars, part>> /\ A

Next ==
  \/ ModelsMoves(Models!Next)
  \/ DockerMoves(Docker!Next)
  \/ HubMoves(Hub!Next)
  \/ EventsMoves(Events!Next)
  \/ AgentMoves(Agent!Next)
  \/ OutputMoves(Output!Next)
  \/ BindingMoves(Binding!Next)
  \/ ToldMoves(Told!Next)

Spec == Init /\ [][Next]_vars

-----------------------------------------------------------------------------
(* The component that moves keeps its types; the others are as they began. *)
TypeOK ==
  /\ part = "Models" => Models!TypeOK
  /\ part = "Docker" => Docker!TypeOK
  /\ part = "Hub" => Hub!TypeOK
  /\ part = "Events" => Events!TypeOK
  /\ part = "Agent" => Agent!TypeOK
  /\ part = "Output" => Output!TypeOK
  /\ part = "Binding" => Binding!TypeOK
  /\ part = "Told" => Told!TypeOK

(* ModelRegistry: an organisation is without a default model only for      *)
(* known reasons.                                                          *)
DefaultsAreExplained == Models!DefaultsAreExplained

(* DockerScheduler: a running container that is not in the table has one   *)
(* of the known reasons.                                                   *)
UnlistedIsExplained == Docker!UnlistedIsExplained

(* ClientHub: the server meets a closed queue only after an overflow.      *)
PanicNeedsOverflow == Hub!PanicNeedsOverflow

(* EventStream: nothing of a run follows its completion but the failure of *)
(* a panic.                                                                *)
CompletedClosesRun == Events!CompletedClosesRun

(* EventStream: a missed or repeated event has one of the known reasons.   *)
DeliveriesAreExplained == Events!DeliveriesAreExplained

(* AgentRun: what is said of a run when it ends is all of it, and final.   *)
EndIsFinal == Agent!EndIsFinal

(* Transcript: the stored message tells the run as it was shown.           *)
HistoryIsWhole == Told!HistoryIsWhole

(* CliRun: a run is reported as completed only after the process has       *)
(* succeeded.                                                              *)
CompletedIsSuccess == Output!CompletedIsSuccess /\ Binding!CompletedIsSuccess

(* CliRun: a run resumes the last session of its CLI.                      *)
ResumesLastSession == Binding!ResumesLastSession
=============================================================================
