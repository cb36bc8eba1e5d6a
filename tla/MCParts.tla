------------------------------ MODULE MCParts ------------------------------
(***************************************************************************)
(* The components of MCAgents but for the events on their way to a browser *)
(* and the runs of a CLI: the models, the containers of workers, the       *)
(* browsers, a run of the built-in agent, and what is told of a run. They  *)
(* are on their own for their proofs, which are in PartsProofs.            *)
(***************************************************************************)
EXTENDS SequencesExt

CONSTANTS
  Actors,  \* callers, requests, browsers
  Others,  \* worker ids of containers, starting servers, CLIs
  Lanes,   \* tool calls of a run
  Names,   \* client ids of browsers
  Registered, Defaults, Requested, \* tools of the agent, and what runs ask for
  Orgs, SeedOrg,                   \* organisations
  Provided, Tools,                 \* ids and tools that a run tells of
  MaxModels, MaxModelCalls, MaxStarts,      \* bounds, named as in the
  MaxContainers, MaxDockerCalls, MaxFaults, \* components
  QueueSize, MaxMessages, MaxSends,
  MaxStep, LearnSteps, MaxRetries, ManyCalls, ManySkillCalls, MaxAgentCalls,
  MaxSaid

VARIABLES
  rows, made, call, writes, calls, start, seeded, starts, crowded, unseeded,
  container, created, dockerTable, monitor, mu, dockerCall, dockerCalls,
  faults, disowned,
  socket, name, handler, reader, writer, queue, closed, hubTable, loop,
  droppers, reads, sends, panic, overflowed,
  stage, status, cue, exposed, agent, output, said, toolCall, flow,
  agentJournal, agentArchive, endsAt, retried,
  source, ids, current, minted, recorded, shown, stored, ended

Models == INSTANCE ModelRegistry WITH
  Requesters <- Actors,
  Starters <- Others,
  MaxCalls <- MaxModelCalls

Docker == INSTANCE DockerScheduler WITH
  Callers <- Actors,
  Ids <- Others,
  MaxCalls <- MaxDockerCalls,
  table <- dockerTable

Hub == INSTANCE ClientHub WITH
  Clients <- Actors,
  table <- hubTable

Agent == INSTANCE AgentRun WITH
  MaxCalls <- MaxAgentCalls,
  journal <- agentJournal, archive <- agentArchive

Told == INSTANCE Transcript

modelsVars ==
  <<rows, made, call, writes, calls, start, seeded, starts, crowded, unseeded>>
dockerVars ==
  <<container, created, dockerTable, monitor, mu, dockerCall, dockerCalls,
    faults, disowned>>
hubVars ==
  <<socket, name, handler, reader, writer, queue, closed, hubTable, loop,
    droppers, reads, sends, panic, overflowed>>
agentVars ==
  <<stage, status, cue, exposed, agent, output, said, toolCall, flow,
    agentJournal, agentArchive, endsAt, retried>>
toldVars ==
  <<source, ids, current, minted, recorded, shown, stored, ended>>
=============================================================================
