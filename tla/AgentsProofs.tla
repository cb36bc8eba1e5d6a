------------------------------ MODULE AgentsProofs ------------------------------
(***************************************************************************)
(* What the proofs about its parts say of MCAgents, for any value of its   *)
(* constants: those of PartsProofs, and those of EventStreamProofs and     *)
(* CliRunProofs, which MCAgents instantiates.                              *)
(***************************************************************************)
EXTENDS MCAgents, PartsProofs

-----------------------------------------------------------------------------
(* Each part moves by its own steps, and stands while another one moves.   *)
LEMMA ModelsSteps == [Next]_vars => [Models!Next]_(Models!modelVars)
<1>1. CASE UNCHANGED vars
  BY <1>1 DEF vars, modelsVars, Models!modelVars
<1>2. CASE Next
  BY <1>2
     DEF Next, ModelsMoves, DockerMoves, HubMoves, EventsMoves, AgentMoves, OutputMoves,
         BindingMoves, ToldMoves, modelsVars, Models!modelVars
<1> QED
  BY <1>1, <1>2

LEMMA DockerSteps == [Next]_vars => [Docker!Next]_(Docker!dockerVars)
<1>1. CASE UNCHANGED vars
  BY <1>1 DEF vars, dockerVars, Docker!dockerVars
<1>2. CASE Next
  BY <1>2
     DEF Next, ModelsMoves, DockerMoves, HubMoves, EventsMoves, AgentMoves, OutputMoves,
         BindingMoves, ToldMoves, dockerVars, Docker!dockerVars
<1> QED
  BY <1>1, <1>2

LEMMA HubSteps == [Next]_vars => [Hub!Next]_(Hub!hubVars)
<1>1. CASE UNCHANGED vars
  BY <1>1 DEF vars, hubVars, Hub!hubVars
<1>2. CASE Next
  BY <1>2
     DEF Next, ModelsMoves, DockerMoves, HubMoves, EventsMoves, AgentMoves, OutputMoves,
         BindingMoves, ToldMoves, hubVars, Hub!hubVars
<1> QED
  BY <1>1, <1>2

LEMMA EventsSteps == [Next]_vars => [Events!Next]_(Events!vars)
<1>1. CASE UNCHANGED vars
  BY <1>1 DEF vars, eventsVars, Events!vars, Events!lifecycle, Events!viewing
<1>2. CASE Next
  BY <1>2
     DEF Next, ModelsMoves, DockerMoves, HubMoves, EventsMoves, AgentMoves, OutputMoves,
         BindingMoves, ToldMoves, eventsVars, Events!vars, Events!lifecycle, Events!viewing
<1> QED
  BY <1>1, <1>2

LEMMA AgentSteps == [Next]_vars => [Agent!Next]_(Agent!agentVars)
<1>1. CASE UNCHANGED vars
  BY <1>1 DEF vars, agentVars, Agent!agentVars
<1>2. CASE Next
  BY <1>2
     DEF Next, ModelsMoves, DockerMoves, HubMoves, EventsMoves, AgentMoves, OutputMoves,
         BindingMoves, ToldMoves, agentVars, Agent!agentVars
<1> QED
  BY <1>1, <1>2

LEMMA OutputSteps == [Next]_vars => [Output!Next]_(Output!cliVars)
<1>1. CASE UNCHANGED vars
  BY <1>1 DEF vars, outputVars, Output!cliVars
<1>2. CASE Next
  BY <1>2
     DEF Next, ModelsMoves, DockerMoves, HubMoves, EventsMoves, AgentMoves, OutputMoves,
         BindingMoves, ToldMoves, outputVars, Output!cliVars
<1> QED
  BY <1>1, <1>2

LEMMA BindingSteps == [Next]_vars => [Binding!Next]_(Binding!cliVars)
<1>1. CASE UNCHANGED vars
  BY <1>1 DEF vars, bindingVars, Binding!cliVars
<1>2. CASE Next
  BY <1>2
     DEF Next, ModelsMoves, DockerMoves, HubMoves, EventsMoves, AgentMoves, OutputMoves,
         BindingMoves, ToldMoves, bindingVars, Binding!cliVars
<1> QED
  BY <1>1, <1>2

LEMMA ToldSteps == [Next]_vars => [Told!Next]_(Told!transcriptVars)
<1>1. CASE UNCHANGED vars
  BY <1>1 DEF vars, toldVars, Told!transcriptVars
<1>2. CASE Next
  BY <1>2
     DEF Next, ModelsMoves, DockerMoves, HubMoves, EventsMoves, AgentMoves, OutputMoves,
         BindingMoves, ToldMoves, toldVars, Told!transcriptVars
<1> QED
  BY <1>1, <1>2

(* Each part that moves keeps its types (TypeOK).                          *)
THEOREM AgentsTypeCorrect == Spec => []TypeOK
<1>1. Init => /\ Models!Init /\ Docker!Init /\ Hub!Init /\ Events!Init
              /\ Agent!Init /\ Output!Init /\ Binding!Init /\ Told!Init
  BY DEF Init
<1>2. Spec => Models!Spec /\ Docker!Spec /\ Hub!Spec /\ Agent!Spec
  BY <1>1, ModelsSteps, DockerSteps, HubSteps, AgentSteps, PTL
     DEF Spec, Models!Spec, Docker!Spec, Hub!Spec, Agent!Spec
<1>3. Spec => Events!SafeSpec /\ Output!Spec /\ Binding!Spec /\ Told!Spec
  BY <1>1, EventsSteps, OutputSteps, BindingSteps, ToldSteps, PTL
     DEF Spec, Events!SafeSpec, Output!Spec, Binding!Spec, Told!Spec
<1>4. /\ Models!ModelAssumption /\ Docker!DockerAssumption /\ Hub!HubAssumption
      /\ Events!EventStreamAssumption /\ Agent!AgentAssumption
      /\ Output!CliAssumption /\ Binding!CliAssumption
  BY AgentsAssumption DEF AgentsAssumption
<1>5. Models!Spec => []Models!TypeOK
  BY <1>4, ModelTypeCorrect
<1>6. Docker!Spec => []Docker!TypeOK
  BY <1>4, DockerTypeCorrect
<1>7. Hub!Spec => []Hub!TypeOK
  BY <1>4, HubTypeCorrect
<1>8. Events!SafeSpec => []Events!TypeOK
  BY <1>4, Events!TypesOfTheStream
<1>9. Agent!Spec => []Agent!TypeOK
  BY <1>4, AgentTypeCorrect
<1>10. Output!Spec => []Output!TypeOK
  BY <1>4, Output!CliTypeCorrect
<1>11. Binding!Spec => []Binding!TypeOK
  BY <1>4, Binding!CliTypeCorrect
<1>12. Told!Spec => []Told!TypeOK
  BY TranscriptTypeCorrect
<1>13. Models!TypeOK /\ Docker!TypeOK /\ Hub!TypeOK /\ Events!TypeOK /\ Agent!TypeOK
         /\ Output!TypeOK /\ Binding!TypeOK /\ Told!TypeOK => TypeOK
  BY DEF TypeOK
<1> QED
  BY <1>2, <1>3, <1>5, <1>6, <1>7, <1>8, <1>9, <1>10, <1>11, <1>12, <1>13, PTL

(* An organisation has one default model at most, and the active one that  *)
(* its runs fall back to is gone only knowingly; a start of a server fails *)
(* or creates the accounts twice only for a reason.                        *)
THEOREM DefaultsHaveReasons == Spec => DefaultsAreExplained
<1>1. Init => Models!Init
  BY DEF Init
<1>2. Spec => Models!Spec
  BY <1>1, ModelsSteps, PTL DEF Spec, Models!Spec
<1>3. Models!Spec => Models!DefaultsAreExplained
  BY AgentsAssumption, DefaultsHaveCauses DEF AgentsAssumption
<1> QED
  BY <1>2, <1>3, PTL DEF DefaultsAreExplained

(* ModelRegistry.StartSucceeds fails in the code (database.go:110); it     *)
(* holds until the model that was seeded is deleted: a start whose         *)
(* statements work and that meets no other start and no new default then   *)
(* comes up.                                                               *)
THEOREM StartsSucceedWhileSeeded == Spec /\ []~unseeded => Models!StartSucceeds
<1> DEFINE Explained ==
             /\ seeded > 0 /\ seeded' > seeded =>
                  crowded \/ \E s \in Others : start[s].at = "create" /\ start[s].erred
             /\ \A s \in Others : start[s].at # "failed" /\ start'[s].at = "failed" =>
                  \/ crowded
                  \/ start'[s].erred
                  \/ unseeded
                  \/ \E m \in Models!DefaultsOf(SeedOrg) : ~rows[m].seed
           Succeeds ==
             \A s \in Others :
               start[s].at # "failed" /\ start'[s].at = "failed" =>
                 \/ crowded
                 \/ start'[s].erred
                 \/ \E m \in Models!DefaultsOf(SeedOrg) : ~rows[m].seed
<1>1. Spec => Models!StartsAreExplained
  BY DefaultsHaveReasons DEF DefaultsAreExplained, Models!DefaultsAreExplained
<1>2. [Explained]_(Models!modelVars) /\ ~unseeded => [Succeeds]_(Models!modelVars)
  OBVIOUS
<1> QED
  BY <1>1, <1>2, PTL DEF Models!StartsAreExplained, Models!StartSucceeds

(* A container that runs and that the scheduler does not know was lost for *)
(* one of five reasons: docker did not stop it, did not answer, or started *)
(* it and said that it had not, the server was started again, or the       *)
(* watcher of an older container of the worker came late; and what the     *)
(* scheduler knows is watched.                                             *)
THEOREM UnlistedHasReason == Spec => []UnlistedIsExplained
<1>1. Init => Docker!Init
  BY DEF Init
<1>2. Spec => Docker!Spec
  BY <1>1, DockerSteps, PTL DEF Spec, Docker!Spec
<1>3. Docker!Spec => []Docker!UnlistedIsExplained
  BY AgentsAssumption, UnlistedHasCause DEF AgentsAssumption
<1> QED
  BY <1>2, <1>3, PTL DEF UnlistedIsExplained

(* The server of the browsers meets a closed queue only after the queue of *)
(* a browser had no room for a broadcast.                                  *)
THEOREM PanicHasReason == Spec => []PanicNeedsOverflow
<1>1. Init => Hub!Init
  BY DEF Init
<1>2. Spec => Hub!Spec
  BY <1>1, HubSteps, PTL DEF Spec, Hub!Spec
<1>3. Hub!Spec => []Hub!PanicNeedsOverflow
  BY AgentsAssumption, HubPanicHasReason DEF AgentsAssumption
<1> QED
  BY <1>2, <1>3, PTL DEF PanicNeedsOverflow

(* The completed event of a run has an archive of all its earlier events,  *)
(* and nothing of the run is numbered after it or published behind it but  *)
(* the failure that a panic in the learning run reports.                   *)
THEOREM CompletionClosesRun == Spec => []CompletedClosesRun
<1>1. Init => Events!Init
  BY DEF Init
<1>2. Spec => Events!SafeSpec
  BY <1>1, EventsSteps, PTL DEF Spec, Events!SafeSpec
<1>3. Events!SafeSpec => []Events!CompletedClosesRun
  BY AgentsAssumption, Events!CompletionClosesRun DEF AgentsAssumption
<1> QED
  BY <1>2, <1>3, PTL DEF CompletedClosesRun

(* A browser misses an event, or is sent one twice, only for the reasons   *)
(* that the numbers of the events, the full channels and the redelivery of *)
(* NATS give.                                                              *)
THEOREM DeliveriesHaveReasons == Spec => []DeliveriesAreExplained
<1>1. Init => Events!Init
  BY DEF Init
<1>2. Spec => Events!SafeSpec
  BY <1>1, EventsSteps, PTL DEF Spec, Events!SafeSpec
<1>3. Events!SafeSpec => []Events!DeliveriesAreExplained
  BY AgentsAssumption, Events!DeliveriesHaveReasons DEF AgentsAssumption
<1> QED
  BY <1>2, <1>3, PTL DEF DeliveriesAreExplained

(* A run of the built-in agent that is reported as completed carries all   *)
(* its answers and tool calls once and in order, and nothing is recorded   *)
(* after that but the failure of a panic; after the end of a failed run,   *)
(* only what an agent does that was left running.                          *)
THEOREM RunEndsAreFinal == Spec => []EndIsFinal
<1>1. Init => Agent!Init
  BY DEF Init
<1>2. Spec => Agent!Spec
  BY <1>1, AgentSteps, PTL DEF Spec, Agent!Spec
<1>3. Agent!Spec => []Agent!EndIsFinal
  BY AgentsAssumption, AgentEndsAreFinal DEF AgentsAssumption
<1> QED
  BY <1>2, <1>3, PTL DEF EndIsFinal

(* A CLI run is reported as completed only when its process exited with 0, *)
(* and with what it printed as its result, but for what was cut off.       *)
THEOREM CompletedRunsSucceeded == Spec => []CompletedIsSuccess
<1>1. Init => Output!Init /\ Binding!Init
  BY DEF Init
<1>2. Spec => Output!Spec /\ Binding!Spec
  BY <1>1, OutputSteps, BindingSteps, PTL DEF Spec, Output!Spec, Binding!Spec
<1>3. Output!Spec => []Output!CompletedIsSuccess
  BY AgentsAssumption, Output!SuccessIsReal DEF AgentsAssumption
<1>4. Binding!Spec => []Binding!CompletedIsSuccess
  BY AgentsAssumption, Binding!SuccessIsReal DEF AgentsAssumption
<1> QED
  BY <1>2, <1>3, <1>4, PTL DEF CompletedIsSuccess

(* A CLI run resumes the last session of its CLI, unless the row could not *)
(* be read or written, or was written from an older copy.                  *)
THEOREM LastSessionsAreResumed == Spec => []ResumesLastSession
<1>1. Init => Binding!Init
  BY DEF Init
<1>2. Spec => Binding!Spec
  BY <1>1, BindingSteps, PTL DEF Spec, Binding!Spec
<1>3. Binding!Spec => []Binding!ResumesLastSession
  BY AgentsAssumption, Binding!LastSessionIsResumed DEF AgentsAssumption
<1> QED
  BY <1>2, <1>3, PTL DEF ResumesLastSession

(* The stored message of a run tells it again as it was shown.             *)
THEOREM HistoriesAreWhole == Spec => []HistoryIsWhole
<1>1. Init => Told!Init
  BY DEF Init
<1>2. Spec => Told!Spec
  BY <1>1, ToldSteps, PTL DEF Spec, Told!Spec
<1>3. Told!Spec => []Told!HistoryIsWhole
  BY HistoryTellsAll
<1> QED
  BY <1>2, <1>3, PTL DEF HistoryIsWhole
=============================================================================
