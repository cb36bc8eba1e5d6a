------------------------------- MODULE AgentRun -------------------------------
(***************************************************************************)
(* A run of the built-in agent: the lifecycle around it                    *)
(* (lifecycle/runner.go, learning.go), the loop that reads what the agent  *)
(* says (eino/flow.go), the agent itself, which the framework runs on a    *)
(* goroutine of its own with its tool calls side by side                   *)
(* (eino/tool_adapter.go), and the journal they all write                  *)
(* (lifecycle/run_journal.go).                                             *)
(*                                                                         *)
(* The framework is modelled from how it is set up and read: it asks the   *)
(* model again when a call hits a rate limit, even in the middle of an     *)
(* answer that has been handed on already, which then ends in an error.    *)
(***************************************************************************)
EXTENDS Integers, FiniteSets, Sequences

CONSTANTS
  Registered, \* tools of the registry, the default tools among them
  Defaults,   \* tools of every run
  Requested,  \* sets of tools that tasks ask for
  MaxStep,    \* answers of the model in a run; 12 unless the task says otherwise
  LearnSteps, \* the same in a learning run; 3 in the code
  MaxRetries, \* calls of the model that are repeated; 5 in the code
  ManyCalls, ManySkillCalls, \* calls that call for learning; 5, and 3 with a skill
  MaxCalls    \* bound: tool calls

AgentAssumption ==
  /\ MaxStep \in Nat \ {0} /\ LearnSteps \in Nat \ {0} /\ MaxRetries \in Nat
  /\ ManyCalls \in Nat /\ ManySkillCalls \in Nat /\ MaxCalls \in Nat

LearningTools == {"memory", "skill_manage"}

VARIABLES
  stage,    \* of the lifecycle: "idle", "running", "result", "archive", "terminal",
            \* "reported", "learning", "over", "panicked"
  status,   \* what the run comes to: "none", "completed", "failed"
  cue,      \* the input asks to remember something
  exposed,  \* tools the agent has
  agent,    \* the agent's goroutine: [at, steps, tries, limit, silent]
  output,   \* its answers that have not been read: their number, and how they end
  said,     \* answers so far
  toolCall, \* toolCall[i]: [tool, at], "asked", "running" or "ended"
  flow,     \* the reading loop: [at, last, usage]
  journal,  \* recorded events: [kind, of]
  archive,  \* what the terminal event carries: numbers of events, message, usage
  endsAt,   \* place of the first terminal event in the journal, or 0
  retried   \* history: an answer broke off and was asked for again

agentVars == <<stage, status, cue, exposed, agent, output, said, toolCall, flow, journal, archive, endsAt,
               retried>>

Off == [at |-> "off", steps |-> 0, tries |-> 0, limit |-> 0, silent |-> FALSE]
NotReading == [at |-> "off", last |-> 0, usage |-> 0]
Empty == [events |-> {}, message |-> 0, usage |-> 0]

Init ==
  /\ stage = "idle" /\ status = "none" /\ cue = FALSE /\ exposed = {}
  /\ agent = Off /\ output = <<>> /\ said = 0 /\ toolCall = <<>>
  /\ flow = NotReading
  /\ journal = <<>> /\ archive = Empty /\ endsAt = 0 /\ retried = FALSE

-----------------------------------------------------------------------------
Event(kind, of) == [kind |-> kind, of |-> of]

(* RunJournal.Append: an event gets the next number. The agent and the     *)
(* loop of a learning run have a sink that does nothing.                   *)
Record(kind, of) == journal' = Append(journal, Event(kind, of))
Emit(kind, of) == IF agent.silent THEN UNCHANGED journal ELSE Record(kind, of)

(* The statistics of the journal, kept while events are recorded.          *)
Calls == {i \in DOMAIN journal : journal[i].kind = "tool started"}
Failures == {i \in DOMAIN journal : journal[i].kind = "tool failed"}
NamesCalled == {toolCall[journal[i].of].tool : i \in Calls}

(* shouldRunLearningCheck                                                  *)
LearningIsDue ==
  /\ status = "completed"
  /\ NamesCalled \cap LearningTools = {}
  /\ \/ cue
     \/ Failures # {}
     \/ Cardinality(Calls) >= ManyCalls
     \/ "skill_use" \in NamesCalled /\ Cardinality(Calls) >= ManySkillCalls

runVars == <<stage, status, cue, exposed>>
recordVars == <<archive, endsAt>>

Available(names) == names \cap Registered

(* mergeToolNames: what a request allows is added to the default tools, it *)
(* takes none away.                                                        *)
MergeToolNames(allowed) == Available(Defaults) \cup allowed

(* No tool at all means every tool. A name that is not registered is an    *)
(* error.                                                                  *)
Bound(allowed) ==
  IF MergeToolNames(allowed) = {} THEN Registered ELSE MergeToolNames(allowed)

Starting(limit, silent) ==
  /\ agent' = [at |-> "thinking", steps |-> 0, tries |-> 0, limit |-> limit, silent |-> silent]
  /\ flow' = [NotReading EXCEPT !.at = "reading"]

(* Runner.Run, with a context and a model.                                 *)
Begin(allowed, remember) ==
  /\ stage = "idle"
  /\ cue' = remember
  /\ exposed' = Bound(allowed)
  /\ Record("started", 0)
  /\ IF Bound(allowed) \subseteq Registered
     THEN stage' = "running" /\ Starting(MaxStep, FALSE) /\ UNCHANGED status
     ELSE stage' = "archive" /\ status' = "failed" /\ UNCHANGED <<agent, flow>>
  /\ UNCHANGED <<output, said, toolCall, recordVars, retried>>

-----------------------------------------------------------------------------
Say(end) == said' = said + 1 /\ output' = Append(output, [n |-> said + 1, end |-> end])

(* The model answers, and asks for tools or for none: then it is done. A   *)
(* tool that does not exist is answered by the framework, without a call.  *)
Answer(tools) ==
  /\ agent.at = "thinking" /\ agent.steps < agent.limit
  /\ Len(toolCall) + Len(tools) <= MaxCalls
  /\ Say("whole")
  /\ toolCall' = toolCall \o [i \in DOMAIN tools |-> [tool |-> tools[i], at |-> "asked"]]
  /\ agent' = [agent EXCEPT !.at = IF tools = <<>> THEN "over" ELSE "tools",
                            !.steps = @ + 1, !.tries = 0]
  /\ UNCHANGED <<runVars, flow, journal, recordVars, retried>>

(* The rate limit: the model is asked again, whether or not a part of the  *)
(* answer has been handed on.                                              *)
TryAgain ==
  /\ agent.at = "thinking" /\ agent.steps < agent.limit /\ agent.tries < MaxRetries
  /\ agent' = [agent EXCEPT !.tries = @ + 1]
  /\ \/ UNCHANGED <<said, output, retried>>
     \/ Say("broken") /\ retried' = TRUE
  /\ UNCHANGED <<runVars, toolCall, flow, journal, recordVars>>

(* Another error, the end of the context, or the limit of the steps.       *)
GiveUp ==
  /\ agent.at = "thinking"
  /\ agent' = [agent EXCEPT !.at = "over"]
  /\ \/ output' = Append(output, [n |-> 0, end |-> "error"]) /\ UNCHANGED said
     \/ agent.steps < agent.limit /\ Say("broken")
  /\ UNCHANGED <<runVars, toolCall, flow, journal, recordVars, retried>>

(* invokableTool.InvokableRun: arguments that are not JSON are answered    *)
(* before anything is recorded.                                            *)
ToolRefused(i) ==
  /\ toolCall[i].at = "asked"
  /\ toolCall' = [toolCall EXCEPT ![i].at = "ended"]
  /\ UNCHANGED <<runVars, agent, output, said, flow, journal, recordVars, retried>>

ToolStarts(i) ==
  /\ toolCall[i].at = "asked"
  /\ toolCall' = [toolCall EXCEPT ![i].at = "running"]
  /\ Emit("tool started", i)
  /\ UNCHANGED <<runVars, agent, output, said, flow, recordVars, retried>>

(* Mutant: a tool that fails is not recorded. *)
ToolEndsSilently(i) ==
  /\ toolCall[i].at = "running"
  /\ toolCall' = [toolCall EXCEPT ![i].at = "ended"]
  /\ \/ Emit("tool completed", i)
     \/ UNCHANGED journal
  /\ UNCHANGED <<runVars, agent, output, said, flow, recordVars, retried>>

(* An error of the tool is text for the model.                             *)
ToolEnds(i) ==
  /\ toolCall[i].at = "running"
  /\ toolCall' = [toolCall EXCEPT ![i].at = "ended"]
  /\ \E kind \in {"tool completed", "tool failed"} : Emit(kind, i)
  /\ UNCHANGED <<runVars, agent, output, said, flow, recordVars, retried>>

ToolsEnd ==
  /\ agent.at = "tools" /\ \A i \in DOMAIN toolCall : toolCall[i].at = "ended"
  /\ agent' = [agent EXCEPT !.at = "thinking"]
  /\ UNCHANGED <<runVars, output, said, toolCall, flow, journal, recordVars, retried>>

-----------------------------------------------------------------------------
(* StreamWithUsage and GenerateWithUsage: an answer is passed on and its   *)
(* tokens are counted; one that breaks off, or an error, ends the loop.    *)
Read ==
  LET item == Head(output) IN
  /\ flow.at = "reading" /\ output # <<>>
  /\ output' = Tail(output)
  /\ IF item.end = "whole"
     THEN flow' = [flow EXCEPT !.last = item.n, !.usage = @ + 1]
     ELSE flow' = [flow EXCEPT !.at = "failed"]
  /\ IF item.end = "error" THEN UNCHANGED journal ELSE Emit("delta", item.n)
  /\ UNCHANGED <<runVars, agent, said, toolCall, recordVars, retried>>

(* The iterator is closed when the agent is over.                          *)
ReadsNoMore ==
  /\ flow.at = "reading" /\ output = <<>> /\ agent.at = "over"
  /\ flow' = [flow EXCEPT !.at = IF flow.last = 0 THEN "failed" ELSE "done"]
  /\ UNCHANGED <<runVars, agent, output, said, toolCall, journal, recordVars, retried>>

-----------------------------------------------------------------------------
(* The delegate has returned. A success is recorded with its message ...   *)
Returns ==
  /\ stage = "running" /\ flow.at \in {"done", "failed"}
  /\ stage' = IF flow.at = "done" THEN "result" ELSE "archive"
  /\ status' = IF flow.at = "done" THEN "completed" ELSE "failed"
  /\ UNCHANGED <<cue, exposed, agent, output, said, toolCall, flow, journal, recordVars, retried>>

EmitResult ==
  /\ stage = "result" /\ stage' = "archive"
  /\ Record("result", flow.last)
  /\ UNCHANGED <<status, cue, exposed, agent, output, said, toolCall, flow, recordVars, retried>>

(* ... its events are copied, each with its number ...                     *)
TakeArchive ==
  /\ stage = "archive" /\ stage' = "terminal"
  /\ archive' = [events |-> {i \in DOMAIN journal : journal[i].kind # "result"},
                 message |-> flow.last, usage |-> flow.usage]
  /\ UNCHANGED <<status, cue, exposed, agent, output, said, toolCall, flow, journal, endsAt, retried>>

(* ... and carried by the last event of the run.                           *)
EmitTerminal ==
  /\ stage = "terminal" /\ stage' = "reported"
  /\ Record(status, 0)
  /\ endsAt' = Len(journal) + 1
  /\ UNCHANGED <<status, cue, exposed, agent, output, said, toolCall, flow, archive, retried>>

(* AfterRunLearning: a second run, with nobody to watch it and, Bound      *)
(* being what it is, with all the default tools.                           *)
Learn ==
  /\ stage = "reported" /\ LearningIsDue
  /\ Available(LearningTools) # {}
  /\ stage' = "learning"
  /\ exposed' = Bound(Available(LearningTools))
  /\ Starting(LearnSteps, TRUE)
  /\ output' = <<>>
  /\ UNCHANGED <<status, cue, said, toolCall, journal, recordVars, retried>>

Finish ==
  /\ \/ stage = "reported" /\ ~(LearningIsDue /\ Available(LearningTools) # {})
     \/ stage = "learning" /\ flow.at \in {"done", "failed"}
  /\ stage' = "over"
  /\ UNCHANGED <<status, cue, exposed, agent, output, said, toolCall, flow, journal, recordVars, retried>>

(* The loop panics, in the run or in the learning run. Run recovers and    *)
(* reports a failure; the agent's goroutine goes on.                       *)
Panics ==
  /\ stage \in {"running", "learning"}
  /\ stage' = "panicked" /\ status' = "failed"
  /\ flow' = [flow EXCEPT !.at = "failed"]
  /\ Record("failed", 0)
  /\ endsAt' = IF stage = "running" THEN Len(journal) + 1 ELSE endsAt
  /\ UNCHANGED <<cue, exposed, agent, output, said, toolCall, archive, retried>>

-----------------------------------------------------------------------------
Tool(i) == ToolRefused(i) \/ ToolStarts(i) \/ ToolEnds(i)
Lifecycle == Returns \/ EmitResult \/ TakeArchive \/ EmitTerminal \/ Learn \/ Finish \/ Panics

Next ==
  \/ \E allowed \in Requested, remember \in BOOLEAN : Begin(allowed, remember)
  \/ \E n \in 0..2 : \E tools \in [1..n -> exposed] : Answer(tools)
  \/ TryAgain \/ GiveUp \/ ToolsEnd \/ Read \/ ReadsNoMore \/ Lifecycle
  \/ \E i \in DOMAIN toolCall : Tool(i)

Spec == Init /\ [][Next]_agentVars

-----------------------------------------------------------------------------
TypeOK ==
  /\ agent.steps \in 0..agent.limit /\ agent.limit \in {0, MaxStep, LearnSteps}
  /\ exposed \subseteq Registered \/ stage \notin {"running", "learning"}
  /\ endsAt \in 0..Len(journal)

At(kinds, of) == {i \in archive.events : journal[i].kind \in kinds /\ journal[i].of = of}

(* A run that is reported as completed carries all that happened in it:    *)
(* every answer once and in the order they were given, the tokens of each  *)
(* counted once, the message of the last, and of every tool call that was  *)
(* recorded the start and the end, although the answers and the calls are  *)
(* recorded by goroutines of their own.                                    *)
ArchiveIsWhole ==
  stage = "reported" /\ status = "completed" =>
    LET deltas == {i \in archive.events : journal[i].kind = "delta"} IN
    /\ {journal[i].of : i \in deltas} = 1..said
    /\ \A i, j \in deltas : i < j => journal[i].of < journal[j].of
    /\ archive.usage = said /\ archive.message = said
    /\ \A i \in DOMAIN toolCall :
         LET starts == At({"tool started"}, i)
             ends == At({"tool completed", "tool failed"}, i) IN
         /\ toolCall[i].at = "ended"
         /\ starts = {} => ends = {}
         /\ starts # {} => \E j, k \in archive.events : starts = {j} /\ ends = {k} /\ j < k

(* Nothing is recorded after the end of a run, with two exceptions. The    *)
(* loop reports a failure while the agent goes on when an answer broke off *)
(* that the framework asked for again, and when the loop panics: then tool *)
(* calls follow, but no answer and no second end. And after a run that     *)
(* completed, a panic in the learning run records one failure.             *)
NothingAfterTheEnd ==
  endsAt # 0 =>
    \A i \in DOMAIN journal : i > endsAt =>
      IF journal[endsAt].kind = "failed"
      THEN /\ retried \/ stage = "panicked"
           /\ journal[i].kind \in {"tool started", "tool completed", "tool failed"}
      ELSE stage = "panicked" /\ i = endsAt + 1 /\ journal[i].kind = "failed"

(* What is said of a run when it ends is all of it, and final.             *)
EndIsFinal == ArchiveIsWhole /\ NothingAfterTheEnd
=============================================================================
