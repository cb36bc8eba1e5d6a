------------------------ MODULE SessionPipelineProofs ------------------------
(***************************************************************************)
(* Proofs about the message pipeline for every set of messages, sessions   *)
(* and faults and every queue limit: type correctness, that a message is   *)
(* the input of at most one run, and that a reply reporting success        *)
(* answers a run that had input. The second part is about a pipeline whose *)
(* worker and database do not fail, the third counts what the faults do to *)
(* the answers.                                                            *)
(***************************************************************************)
EXTENDS SessionPipeline, FiniteSetTheorems, TLAPS

USE PipelineAssumption

-----------------------------------------------------------------------------
(* The inductive invariant.                                                *)

Calls == 1..MaxCalls

(* The debouncer's variables are typed by LatestWins's own steps.          *)
DebouncerType ==
  /\ calls \in [Sessions -> 0..MaxCalls]
  /\ mailbox \in [Sessions -> Calls \cup {NoValue}]
  /\ inHand \in [Sessions -> SUBSET Calls]

(* A run that exists is named by a call that was made.                     *)
RunIsNamed == \A s \in Sessions : run[s].stage # "none" => run[s].call \in Calls

(* A message that was claimed is never pending again.                      *)
ClaimedIsWorked ==
  \A r \in Runs : \A m \in inputs[r] : status[m] \in {"processing", "completed"}

(* A message that was not sent has no row yet.                             *)
UnsentIsAbsent == \A m \in Messages : request[m] = "unsent" => status[m] = "absent"

(* A run past its claim that may still report success has input.           *)
Working == {"agent", "emit", "learn", "complete"}

RunHasInput ==
  \A s \in Sessions : run[s].stage \in Working => inputs[RunOf(s)] # {}

(* What a run holds as claimed is its input.                               *)
ClaimedIsInput ==
  \A s \in Sessions : run[s].stage # "none" => run[s].claimed \subseteq inputs[RunOf(s)]

(* A run that reports out of its deferred calls reports a failure.         *)
ReportsFailure ==
  \A s \in Sessions : run[s].stage \in {"unwind", "report"} => run[s].outcome = "failed"

RunInv ==
  /\ run \in [Sessions -> RunState]
  /\ RunIsNamed /\ RunHasInput /\ ClaimedIsInput /\ ReportsFailure

MessageInv ==
  /\ status \in [Messages -> {"absent", "pending", "processing", "completed"}]
  /\ inputs \in [Runs -> SUBSET Messages]
  /\ UnsentIsAbsent /\ ClaimedIsWorked /\ ClaimedOnce

EventInv ==
  /\ terminal \in [Sessions -> Seq(Event)]
  /\ replies \in [Sessions -> Seq(Event)]
  /\ AnswersInput

QueueInv ==
  /\ request \in [Messages -> {"unsent", "stored", "accepted", "parked", "refused"}]
  /\ allocated \subseteq Sessions
  /\ tasks \in Seq(Sessions) /\ Len(tasks) <= QueueLimit

IInv == QueueInv /\ DebouncerType /\ RunInv /\ MessageInv /\ EventInv

NewerType == newer \in [Messages -> Nat]

LEMMA IInvIsTyped == IInv /\ NewerType => TypeOK
  BY DEF IInv, QueueInv, RunInv, MessageInv, EventInv, NewerType, TypeOK

-----------------------------------------------------------------------------
(* Shapes.                                                                 *)

LEMMA RunShape ==
  ASSUME IInv, NEW s \in Sessions
  PROVE  /\ run[s] \in RunState
         /\ run[s].stage \in Stages /\ run[s].call \in 0..MaxCalls
         /\ run[s].outcome \in Outcomes
         /\ run[s].history \in SUBSET Messages /\ run[s].claimed \in SUBSET Messages
  BY DEF IInv, RunInv, RunState

LEMMA FreshShape ==
  ASSUME NEW g \in Stages, NEW n \in 0..MaxCalls
  PROVE  /\ FreshRun(g, n) \in RunState
         /\ FreshRun(g, n).stage = g /\ FreshRun(g, n).call = n
         /\ FreshRun(g, n).claimed = {}
  BY DEF FreshRun, RunState, Outcomes

LEMMA NoRunShape == NoRun \in RunState /\ NoRun.stage = "none"
  BY FreshShape, PipelineAssumption DEF NoRun, Stages

-----------------------------------------------------------------------------
(* Sequences: what queues hold after a step.                               *)

LEMMA AppendRange ==
  ASSUME NEW S, NEW q \in Seq(S), NEW x \in S
  PROVE  /\ Append(q, x) \in Seq(S)
         /\ Range(Append(q, x)) = Range(q) \cup {x}
  <1> DEFINE a == Append(q, x)
  <1>1. /\ a \in Seq(S) /\ Len(a) = Len(q) + 1 /\ Len(q) \in Nat
        /\ \A i \in 1..Len(q) : a[i] = q[i]
        /\ a[Len(q) + 1] = x
    OBVIOUS
  <1> HIDE DEF a
  <1>2. DOMAIN a = 1..(Len(q) + 1) /\ DOMAIN q = 1..Len(q)
    BY <1>1
  <1>3. Range(a) \subseteq Range(q) \cup {x}
    BY <1>1, <1>2 DEF Range
  <1>4. Range(q) \cup {x} \subseteq Range(a)
    BY <1>1, <1>2 DEF Range
  <1> QED BY <1>1, <1>3, <1>4 DEF a

LEMMA TailRange ==
  ASSUME NEW S, NEW q \in Seq(S), q # <<>>
  PROVE  /\ Head(q) \in S /\ Head(q) \in Range(q)
         /\ Tail(q) \in Seq(S) /\ Range(Tail(q)) \subseteq Range(q)
         /\ Len(Tail(q)) = Len(q) - 1
  BY DEF Range

(* A redelivered element goes to the end of its queue.                     *)
LEMMA RotateRange ==
  ASSUME NEW S, NEW q \in Seq(S), q # <<>>
  PROVE  /\ Append(Tail(q), Head(q)) \in Seq(S)
         /\ Range(Append(Tail(q), Head(q))) \subseteq Range(q)
  <1> DEFINE p == Tail(q)
             x == Head(q)
  <1>1. p \in Seq(S) /\ x \in S /\ Range(p) \subseteq Range(q) /\ x \in Range(q)
    BY TailRange
  <1> HIDE DEF p, x
  <1>2. Append(p, x) \in Seq(S) /\ Range(Append(p, x)) = Range(p) \cup {x}
    BY <1>1, AppendRange
  <1> QED BY <1>1, <1>2 DEF p, x

(* A full queue that drops its head before it takes another element.       *)
LEMMA EnqueueShape ==
  ASSUME IInv, NEW s \in Sessions
  PROVE  Enqueue(s) \in Seq(Sessions) /\ Len(Enqueue(s)) <= QueueLimit
  <1>1. tasks \in Seq(Sessions) /\ Len(tasks) \in Nat /\ Len(tasks) <= QueueLimit
    BY DEF IInv, QueueInv
  <1>2. CASE Len(tasks) = QueueLimit
    <2>1. tasks # <<>>
      BY <1>2
    <2> QED BY <1>1, <1>2, <2>1, TailRange DEF Enqueue
  <1>3. CASE Len(tasks) # QueueLimit
    BY <1>1, <1>3 DEF Enqueue
  <1> QED BY <1>2, <1>3

-----------------------------------------------------------------------------
(* How a step keeps each part of the invariant.                            *)

(* One run moves on, and what it has become is still named, still has      *)
(* input if it works, and still reports only failures when it unwinds.     *)
LEMMA RunMoves ==
  ASSUME IInv, NEW s \in Sessions, NEW r \in RunState,
         run' = [run EXCEPT ![s] = r], UNCHANGED inputs,
         r.stage # "none" => r.call \in Calls /\ r.claimed \subseteq inputs[<<s, r.call>>],
         r.stage \in Working => inputs[<<s, r.call>>] # {},
         r.stage \in {"unwind", "report"} => r.outcome = "failed"
  PROVE  RunInv'
  <1> USE DEF IInv, RunInv
  <1>1. run' \in [Sessions -> RunState]
    OBVIOUS
  <1>2. ASSUME NEW t \in Sessions
        PROVE  run'[t] = IF t = s THEN r ELSE run[t]
    OBVIOUS
  <1>3. RunIsNamed'
    BY <1>2 DEF RunIsNamed
  <1>4. RunHasInput'
    BY <1>2 DEF RunHasInput, RunOf
  <1>5. ClaimedIsInput'
    BY <1>2 DEF ClaimedIsInput, RunOf
  <1>6. ReportsFailure'
    BY <1>2 DEF ReportsFailure
  <1> QED BY <1>1, <1>3, <1>4, <1>5, <1>6

(* Nothing the invariant says of the runs changes.                         *)
LEMMA RunStays ==
  ASSUME IInv, UNCHANGED <<run, inputs>>
  PROVE  RunInv'
  BY DEF IInv, RunInv, RunIsNamed, RunHasInput, ClaimedIsInput, RunOf, ReportsFailure

LEMMA MessagesStay ==
  ASSUME IInv, UNCHANGED <<status, inputs>>,
         \A m \in Messages : request'[m] = "unsent" => request[m] = "unsent"
  PROVE  MessageInv'
  BY DEF IInv, MessageInv, UnsentIsAbsent, ClaimedIsWorked, ClaimedOnce

LEMMA EventsStay ==
  ASSUME IInv, UNCHANGED <<terminal, replies, inputs>>
  PROVE  EventInv'
  BY DEF IInv, EventInv, AnswersInput

(* A terminal event of a run that has input, or that failed.               *)
LEMMA TerminalSent ==
  ASSUME IInv, NEW s \in Sessions, SendTerminal(s), UNCHANGED <<replies, inputs>>,
         run[s].call \in Calls,
         run[s].outcome = "completed" => inputs[RunOf(s)] # {}
  PROVE  EventInv'
  <1> DEFINE e == [run |-> <<s, run[s].call>>, outcome |-> run[s].outcome]
  <1>1. terminal \in [Sessions -> Seq(Event)] /\ replies \in [Sessions -> Seq(Event)] /\ AnswersInput
    BY DEF IInv, EventInv
  <1>2. CASE UNCHANGED terminal
    BY <1>2, EventsStay
  <1>3. CASE terminal' = [terminal EXCEPT ![s] = Append(@, e)]
    <2>1. e \in Event
      BY RunShape DEF Event, Runs, Calls, IInv
    <2>2. Append(terminal[s], e) \in Seq(Event)
          /\ Range(Append(terminal[s], e)) = Range(terminal[s]) \cup {e}
      <3>1. terminal[s] \in Seq(Event)
        BY <1>1
      <3> HIDE DEF e
      <3> QED BY <3>1, <2>1, AppendRange
    <2>3. terminal' \in [Sessions -> Seq(Event)]
      BY <1>1, <1>3, <2>2
    <2>4. e.outcome = "completed" => inputs[e.run] # {}
      BY DEF RunOf
    <2>5. ASSUME NEW t \in Sessions
          PROVE  Range(terminal'[t]) \subseteq Range(terminal[t]) \cup {e}
      BY <1>1, <1>3, <2>2
    <2> HIDE DEF e
    <2>6. AnswersInput'
      BY <1>1, <2>4, <2>5 DEF AnswersInput
    <2> QED BY <1>1, <2>3, <2>6 DEF EventInv
  <1> QED BY <1>2, <1>3 DEF SendTerminal

LEMMA QueuesStay ==
  ASSUME IInv, UNCHANGED <<request, allocated, tasks>>
  PROVE  QueueInv'
  BY DEF IInv, QueueInv

LEMMA DebouncerStays ==
  ASSUME IInv, UNCHANGED debouncer
  PROVE  DebouncerType'
  BY DEF IInv, DebouncerType, debouncer

(* The steps of LatestWins the pipeline takes.                             *)
LEMMA DebouncerSteps ==
  ASSUME IInv, NEW s \in Sessions, D!Put(s) \/ D!Serve(s) \/ D!Complete(s)
  PROVE  DebouncerType'
  <1>1. DebouncerType
    BY DEF IInv
  <1>2. CASE D!Put(s)
    <2>1. calls[s] + 1 \in Calls
      BY <1>1, <1>2 DEF D!Put, DebouncerType, Calls
    <2> QED BY <1>1, <1>2, <2>1 DEF D!Put, DebouncerType, Calls
  <1>3. CASE D!Serve(s)
    BY <1>1, <1>3 DEF D!Serve, DebouncerType
  <1>4. CASE D!Complete(s)
    BY <1>1, <1>4 DEF D!Complete, DebouncerType
  <1> QED BY <1>2, <1>3, <1>4

-----------------------------------------------------------------------------
(* The initial states.                                                     *)

LEMMA InitHolds == Init => IInv
  <1> SUFFICES ASSUME Init PROVE IInv
    OBVIOUS
  <1> USE DEF Init
  <1>1. QueueInv
    BY DEF QueueInv
  <1>2. DebouncerType
    BY DEF D!Init, DebouncerType
  <1>3. RunInv
    BY NoRunShape DEF RunInv, RunIsNamed, RunHasInput, ClaimedIsInput, ReportsFailure, Working
  <1>4. MessageInv
    BY DEF MessageInv, UnsentIsAbsent, ClaimedIsWorked, ClaimedOnce
  <1>5. EventInv
    BY DEF EventInv, AnswersInput, Range
  <1> QED BY <1>1, <1>2, <1>3, <1>4, <1>5 DEF IInv

-----------------------------------------------------------------------------
(* The steps of the server.                                                *)

LEMMA ServerStep ==
  ASSUME IInv, NEW m \in Messages, Server(m)
  PROVE  IInv'
  <1>1. RunInv' /\ EventInv' /\ DebouncerType'
    <2>1. UNCHANGED <<run, inputs, terminal, replies, debouncer>>
      BY DEF Server, StoreMessage, PublishTask, SkipTask, PublishTaskFails, broker
    <2> QED BY <2>1, RunStays, EventsStay, DebouncerStays
  <1>2. CASE StoreMessage(m)
    <2>1. QueueInv'
      BY <1>2 DEF StoreMessage, broker, IInv, QueueInv
    <2>2. MessageInv'
      <3>1. status[m] = "absent" /\ status' = [status EXCEPT ![m] = "pending"]
        BY <1>2 DEF StoreMessage, IInv, MessageInv, UnsentIsAbsent
      <3>2. UnsentIsAbsent'
        BY <1>2 DEF StoreMessage, IInv, QueueInv, MessageInv, UnsentIsAbsent
      <3>3. ClaimedIsWorked' /\ ClaimedOnce'
        BY <1>2, <3>1 DEF StoreMessage, IInv, MessageInv, ClaimedIsWorked, ClaimedOnce
      <3> QED BY <1>2, <3>1, <3>2, <3>3 DEF StoreMessage, IInv, MessageInv
    <2> QED BY <1>1, <2>1, <2>2 DEF IInv
  <1>3. CASE PublishTask(m)
    <2>1. SessionOf(m) \in Sessions
      BY DEF PipelineAssumption
    <2>2. QueueInv'
      BY <1>3, <2>1, EnqueueShape DEF PublishTask, IInv, QueueInv
    <2>3. MessageInv'
      BY <1>3, MessagesStay DEF PublishTask, IInv, QueueInv
    <2> QED BY <1>1, <2>2, <2>3 DEF IInv
  <1>4. CASE SkipTask(m) \/ PublishTaskFails(m)
    <2>1. SessionOf(m) \in Sessions
      BY DEF PipelineAssumption
    <2>2. QueueInv'
      BY <1>4, <2>1 DEF SkipTask, PublishTaskFails, broker, IInv, QueueInv
    <2>3. MessageInv'
      BY <1>4, MessagesStay DEF SkipTask, PublishTaskFails, IInv, QueueInv
    <2> QED BY <1>1, <2>2, <2>3 DEF IInv
  <1> QED BY <1>2, <1>3, <1>4 DEF Server

-----------------------------------------------------------------------------
(* The steps of a run.                                                     *)

LEMMA LoadStep ==
  ASSUME IInv, NEW s \in Sessions, LoadHistory(s)
  PROVE  RunInv'
  <1> DEFINE r == [run[s] EXCEPT !.stage = "claim",
                                 !.history = {m \in Recent(s) : status[m] \in Settled}]
  <1>1. run[s] \in RunState /\ run[s].stage = "load" /\ run[s].call \in Calls
    BY DEF LoadHistory, AtStage, IInv, RunInv, RunIsNamed
  <1>2. run[s].claimed \subseteq inputs[<<s, run[s].call>>]
    BY <1>1 DEF IInv, RunInv, ClaimedIsInput, RunOf
  <1>3. r \in RunState /\ r.stage = "claim" /\ r.call = run[s].call /\ r.claimed = run[s].claimed
    BY <1>1 DEF RunState, Stages, Of, Recent
  <1>4. run' = [run EXCEPT ![s] = r] /\ UNCHANGED inputs
    BY <1>1 DEF LoadHistory, IInv, RunInv
  <1> HIDE DEF r
  <1> QED BY <1>1, <1>2, <1>3, <1>4, RunMoves DEF Working

LEMMA FailStep ==
  ASSUME IInv, NEW s \in Sessions, NEW g \in {"unwind", "report"},
         run[s].stage # "none", UNCHANGED inputs,
         run' = [run EXCEPT ![s].stage = g, ![s].outcome = "failed"]
  PROVE  RunInv'
  <1> DEFINE r == [run[s] EXCEPT !.stage = g, !.outcome = "failed"]
  <1>1. run[s] \in RunState /\ run[s].call \in Calls
        /\ run[s].claimed \subseteq inputs[<<s, run[s].call>>]
    BY DEF IInv, RunInv, RunIsNamed, ClaimedIsInput, RunOf
  <1>2. r \in RunState /\ r.stage = g /\ r.call = run[s].call
        /\ r.claimed = run[s].claimed /\ r.outcome = "failed"
    BY <1>1 DEF RunState, Stages, Outcomes
  <1>3. run' = [run EXCEPT ![s] = r]
    BY <1>1 DEF IInv, RunInv
  <1> HIDE DEF r
  <1> QED BY <1>1, <1>2, <1>3, RunMoves DEF Working

(* A step that leaves the outcome alone and does not start work.           *)
LEMMA GotoStep ==
  ASSUME IInv, NEW s \in Sessions, NEW g \in Stages, Goto(s, g), UNCHANGED inputs,
         run[s].stage # "none",
         g \in Working => run[s].stage \in Working,
         g \in {"unwind", "report"} => run[s].stage \in {"unwind", "report"}
  PROVE  RunInv'
  <1> DEFINE r == [run[s] EXCEPT !.stage = g]
  <1>1. run[s] \in RunState /\ run[s].call \in Calls
        /\ run[s].claimed \subseteq inputs[<<s, run[s].call>>]
    BY DEF IInv, RunInv, RunIsNamed, ClaimedIsInput, RunOf
  <1>2. r \in RunState /\ r.stage = g /\ r.call = run[s].call
        /\ r.claimed = run[s].claimed /\ r.outcome = run[s].outcome
    BY <1>1 DEF RunState
  <1>3. run' = [run EXCEPT ![s] = r]
    BY <1>1 DEF Goto, IInv, RunInv
  <1>4. g \in Working => inputs[<<s, run[s].call>>] # {}
    BY DEF IInv, RunInv, RunHasInput, RunOf
  <1>5. g \in {"unwind", "report"} => run[s].outcome = "failed"
    BY DEF IInv, RunInv, ReportsFailure
  <1> HIDE DEF r
  <1> QED BY <1>1, <1>2, <1>3, <1>4, <1>5, RunMoves

LEMMA AgentStep ==
  ASSUME IInv, NEW s \in Sessions, AgentReturns(s)
  PROVE  RunInv'
  <1>1. PICK o \in Outcomes : run' = [run EXCEPT ![s].stage = "emit", ![s].outcome = o]
    BY DEF AgentReturns
  <1> DEFINE r == [run[s] EXCEPT !.stage = "emit", !.outcome = o]
  <1>2. /\ run[s] \in RunState /\ run[s].call \in Calls
        /\ inputs[<<s, run[s].call>>] # {}
        /\ run[s].claimed \subseteq inputs[<<s, run[s].call>>]
    BY DEF AgentReturns, AtStage, IInv, RunInv, RunIsNamed, RunHasInput, ClaimedIsInput,
           RunOf, Working
  <1>3. r \in RunState /\ r.stage = "emit" /\ r.call = run[s].call /\ r.claimed = run[s].claimed
    BY <1>2 DEF RunState, Stages
  <1>4. run' = [run EXCEPT ![s] = r] /\ UNCHANGED inputs
    BY <1>1, <1>2 DEF AgentReturns, IInv, RunInv
  <1> HIDE DEF r
  <1> QED BY <1>2, <1>3, <1>4, RunMoves

(* The steps that move a run and touch nothing else the invariant names.   *)
LEMMA QuietStep ==
  ASSUME IInv, NEW s \in Sessions,
         \/ LoadHistory(s) \/ PrepareFails(s) \/ AgentReturns(s) \/ AgentPanics(s)
         \/ Learn(s) \/ LearnPanics(s)
  PROVE  IInv'
  <1>1. UNCHANGED <<status, request, allocated, tasks, terminal, debouncer, replies, inputs>>
    BY DEF LoadHistory, PrepareFails, AgentReturns, AgentPanics, Learn, LearnPanics, broker
  <1>2. QueueInv' /\ DebouncerType' /\ EventInv'
    BY <1>1, QueuesStay, DebouncerStays, EventsStay
  <1>3. MessageInv'
    BY <1>1, MessagesStay
  <1>4. RunInv'
    <2>1. CASE LoadHistory(s)
      BY <2>1, LoadStep
    <2>2. CASE AgentReturns(s)
      BY <2>2, AgentStep
    <2>3. CASE PrepareFails(s) \/ AgentPanics(s) \/ LearnPanics(s)
      <3>1. PICK g \in {"unwind", "report"} :
              run' = [run EXCEPT ![s].stage = g, ![s].outcome = "failed"]
        BY <2>3 DEF PrepareFails, AgentPanics, LearnPanics
      <3>2. run[s].stage # "none"
        BY <2>3 DEF PrepareFails, AgentPanics, LearnPanics, AtStage
      <3> QED BY <1>1, <3>1, <3>2, FailStep
    <2>4. CASE Learn(s)
      <3>1. run[s].stage = "learn" /\ Goto(s, "complete")
        BY <2>4 DEF Learn, AtStage
      <3> QED BY <1>1, <3>1, GotoStep DEF Working, Stages
    <2> QED BY <2>1, <2>2, <2>3, <2>4
  <1> QED BY <1>2, <1>3, <1>4 DEF IInv

(* A run starts with the call the debouncer serves, and ends.              *)
LEMMA StartEndStep ==
  ASSUME IInv, NEW s \in Sessions, StartRun(s) \/ EndRun(s)
  PROVE  IInv'
  <1>1. UNCHANGED <<status, request, allocated, tasks, terminal, replies, inputs>>
    BY DEF StartRun, EndRun, broker
  <1>2. QueueInv' /\ MessageInv' /\ EventInv'
    BY <1>1, QueuesStay, MessagesStay, EventsStay
  <1>3. DebouncerType'
    BY DebouncerSteps DEF StartRun, EndRun
  <1>4. CASE StartRun(s)
    <2> DEFINE r == FreshRun("load", mailbox[s])
    <2>1. mailbox[s] \in Calls /\ mailbox[s] \in 0..MaxCalls
      BY <1>4, PipelineAssumption DEF StartRun, D!Serve, IInv, DebouncerType, Calls
    <2>2. r \in RunState /\ r.stage = "load" /\ r.call = mailbox[s] /\ r.claimed = {}
      BY <2>1, FreshShape DEF Stages
    <2>3. run' = [run EXCEPT ![s] = r]
      BY <1>4 DEF StartRun
    <2> HIDE DEF r
    <2>4. RunInv'
      BY <1>1, <2>1, <2>2, <2>3, RunMoves DEF Working
    <2> QED BY <1>2, <1>3, <2>4 DEF IInv
  <1>5. CASE EndRun(s)
    <2>1. run' = [run EXCEPT ![s] = NoRun]
      BY <1>5 DEF EndRun
    <2>2. RunInv'
      BY <1>1, <2>1, NoRunShape, RunMoves DEF Working
    <2> QED BY <1>2, <1>3, <2>2 DEF IInv
  <1> QED BY <1>4, <1>5

(* A run claims what is pending. Nothing pending is anybody's input yet,   *)
(* so what it claims is its alone; and it works only if it claimed.        *)
LEMMA ClaimStep ==
  ASSUME IInv, NEW s \in Sessions, Claim(s)
  PROVE  IInv'
  <1> DEFINE mine == InStatus(s, "pending")
             c == run[s].call
             r == [run[s] EXCEPT !.stage = StageAfterClaim(mine), !.claimed = mine]
  <1>1. UNCHANGED <<request, allocated, tasks, terminal, debouncer, replies>>
    BY DEF Claim, ClaimAndGo, broker
  <1>2. QueueInv' /\ DebouncerType'
    BY <1>1, QueuesStay, DebouncerStays
  <1>3. run[s] \in RunState /\ run[s].stage = "claim" /\ c \in Calls /\ <<s, c>> \in Runs
    BY DEF Claim, ClaimAndGo, AtStage, IInv, RunInv, RunIsNamed, Runs, Calls
  <1>4. mine \subseteq Messages /\ \A m \in mine : status[m] = "pending"
    BY DEF InStatus, Of
  <1>5. /\ status' = [m \in Messages |-> IF m \in mine THEN "processing" ELSE status[m]]
        /\ run' = [run EXCEPT ![s] = r]
        /\ inputs' = [inputs EXCEPT ![<<s, c>>] = @ \cup mine]
    BY <1>3 DEF Claim, ClaimAndGo, IInv, RunInv
  <1>6. /\ r \in RunState /\ r.call = c /\ r.claimed = mine
        /\ r.stage = IF mine = {} THEN "end" ELSE "agent"
    BY <1>3, <1>4 DEF RunState, Stages, StageAfterClaim
  <1>7. inputs \in [Runs -> SUBSET Messages]
    BY DEF IInv, MessageInv
  <1> HIDE DEF mine, c, r
  <1>8. /\ inputs' \in [Runs -> SUBSET Messages]
        /\ \A q \in Runs : inputs'[q] = IF q = <<s, c>> THEN inputs[q] \cup mine ELSE inputs[q]
    BY <1>3, <1>4, <1>5, <1>7
  <1>9. RunInv'
    <2>1. run' \in [Sessions -> RunState]
      BY <1>5, <1>6 DEF IInv, RunInv
    <2>2. ASSUME NEW t \in Sessions
          PROVE  run'[t] = IF t = s THEN r ELSE run[t]
      BY <1>5 DEF IInv, RunInv
    <2>3. RunIsNamed'
      BY <1>3, <1>6, <2>2 DEF RunIsNamed, IInv, RunInv
    <2>4. RunHasInput'
      <3> SUFFICES ASSUME NEW t \in Sessions, run'[t].stage \in Working
                   PROVE  inputs'[<<t, run'[t].call>>] # {}
        BY DEF RunHasInput, RunOf
      <3>1. CASE t = s
        BY <1>3, <1>6, <1>8, <2>2, <3>1 DEF Working
      <3>2. CASE t # s
        <4>1. run'[t] = run[t] /\ <<t, run[t].call>> \in Runs
          BY <2>2, <3>2 DEF IInv, RunInv, RunIsNamed, Working, Runs, Calls
        <4>2. inputs[<<t, run[t].call>>] # {}
          BY <4>1 DEF IInv, RunInv, RunHasInput, RunOf
        <4> QED BY <1>8, <4>1, <4>2
      <3> QED BY <3>1, <3>2
    <2>5. ClaimedIsInput'
      <3> SUFFICES ASSUME NEW t \in Sessions, run'[t].stage # "none"
                   PROVE  run'[t].claimed \subseteq inputs'[<<t, run'[t].call>>]
        BY DEF ClaimedIsInput, RunOf
      <3>1. CASE t = s
        BY <1>3, <1>6, <1>8, <2>2, <3>1
      <3>2. CASE t # s
        <4>1. run'[t] = run[t] /\ <<t, run[t].call>> \in Runs
          BY <2>2, <3>2 DEF IInv, RunInv, RunIsNamed, Runs, Calls
        <4>2. run[t].claimed \subseteq inputs[<<t, run[t].call>>]
          BY <4>1 DEF IInv, RunInv, ClaimedIsInput, RunOf
        <4> QED BY <1>8, <4>1, <4>2
      <3> QED BY <3>1, <3>2
    <2>6. ReportsFailure'
      BY <1>6, <2>2 DEF ReportsFailure, IInv, RunInv
    <2> QED BY <2>1, <2>3, <2>4, <2>5, <2>6 DEF RunInv
  <1>10. MessageInv'
    <2>1. status' \in [Messages -> {"absent", "pending", "processing", "completed"}]
      BY <1>5 DEF IInv, MessageInv
    <2>2. UnsentIsAbsent'
      BY <1>1, <1>4, <1>5 DEF UnsentIsAbsent, IInv, MessageInv
    <2>3. ClaimedIsWorked'
      BY <1>4, <1>5, <1>7, <1>8 DEF ClaimedIsWorked, IInv, MessageInv
    <2>4. \A q \in Runs : inputs[q] \cap mine = {}
      BY <1>4 DEF ClaimedIsWorked, IInv, MessageInv
    <2>5. ClaimedOnce'
      <3> SUFFICES ASSUME NEW p \in Runs, NEW q \in Runs, p # q
                   PROVE  inputs'[p] \cap inputs'[q] = {}
        BY DEF ClaimedOnce
      <3>1. inputs[p] \cap inputs[q] = {}
        BY DEF ClaimedOnce, IInv, MessageInv
      <3> QED BY <1>8, <2>4, <3>1
    <2> QED BY <1>8, <2>1, <2>2, <2>3, <2>5 DEF MessageInv
  <1>11. EventInv'
    <2>1. ASSUME NEW e \in Event, inputs[e.run] # {} PROVE inputs'[e.run] # {}
      BY <1>8, <2>1 DEF Event
    <2>2. \A t \in Sessions : Range(terminal[t]) \cup Range(replies[t]) \subseteq Event
      BY DEF IInv, EventInv, Range
    <2>3. AnswersInput'
      BY <1>1, <2>1, <2>2 DEF AnswersInput, IInv, EventInv
    <2> QED BY <1>1, <2>3 DEF EventInv, IInv
  <1> QED BY <1>2, <1>9, <1>10, <1>11 DEF IInv

(* A terminal event: of a run that worked, or of one that unwinds.         *)
LEMMA ReportStep ==
  ASSUME IInv, NEW s \in Sessions, EmitTerminal(s) \/ ReportFailure(s)
  PROVE  IInv'
  <1>1. UNCHANGED <<status, request, allocated, tasks, debouncer, replies, inputs>>
    BY DEF EmitTerminal, ReportFailure
  <1>2. QueueInv' /\ DebouncerType' /\ MessageInv'
    BY <1>1, QueuesStay, DebouncerStays, MessagesStay
  <1>3. PICK g \in {"learn", "end"} :
          /\ Goto(s, g) /\ SendTerminal(s)
          /\ \/ run[s].stage = "emit" /\ g = "learn"
             \/ run[s].stage = "report" /\ g = "end"
    BY DEF EmitTerminal, ReportFailure, AtStage
  <1>4. RunInv'
    BY <1>1, <1>3, GotoStep DEF Working, Stages
  <1>5. EventInv'
    <2>1. run[s].call \in Calls
      BY <1>3 DEF IInv, RunInv, RunIsNamed
    <2>2. run[s].outcome = "completed" => inputs[RunOf(s)] # {}
      BY <1>3 DEF IInv, RunInv, RunHasInput, ReportsFailure, Working
    <2> QED BY <1>1, <1>3, <2>1, <2>2, TerminalSent
  <1> QED BY <1>2, <1>4, <1>5 DEF IInv

(* Completion turns claimed messages into completed ones, or fails.        *)
LEMMA CompleteStep ==
  ASSUME IInv, NEW s \in Sessions, CompleteClaimed(s)
  PROVE  IInv'
  <1>1. UNCHANGED <<request, allocated, tasks, terminal, debouncer, replies, inputs>>
    BY DEF CompleteClaimed, broker
  <1>2. QueueInv' /\ DebouncerType' /\ EventInv'
    BY <1>1, QueuesStay, DebouncerStays, EventsStay
  <1>3. RunInv'
    <2>1. CASE run[s].stage = "unwind"
      <3>1. Goto(s, "report")
        BY <2>1 DEF CompleteClaimed, AtStage
      <3> QED BY <1>1, <2>1, <3>1, GotoStep DEF Working, Stages
    <2>2. CASE run[s].stage # "unwind"
      <3>1. Goto(s, "end") /\ run[s].stage = "complete"
        BY <2>2 DEF CompleteClaimed, AtStage
      <3> QED BY <1>1, <3>1, GotoStep DEF Working, Stages
    <2> QED BY <2>1, <2>2
  <1>4. MessageInv'
    <2>1. CASE UNCHANGED status
      BY <1>1, <2>1, MessagesStay
    <2>2. CASE status' = [m \in Messages |->
                 IF m \in run[s].claimed THEN "completed" ELSE status[m]]
      <3>1. status' \in [Messages -> {"absent", "pending", "processing", "completed"}]
        BY <2>2 DEF IInv, MessageInv
      <3>2. ClaimedIsWorked'
        BY <1>1, <2>2 DEF ClaimedIsWorked, IInv, MessageInv
      <3>3. \A m \in run[s].claimed : status[m] # "absent"
        <4>1. run[s].stage # "none" /\ RunOf(s) \in Runs
          BY DEF CompleteClaimed, AtStage, IInv, RunInv, RunIsNamed, RunOf, Runs, Calls
        <4>2. run[s].claimed \subseteq inputs[RunOf(s)]
          BY <4>1 DEF IInv, RunInv, ClaimedIsInput
        <4> QED BY <4>1, <4>2 DEF IInv, MessageInv, ClaimedIsWorked
      <3>4. UnsentIsAbsent' /\ ClaimedOnce'
        BY <1>1, <2>2, <3>3 DEF UnsentIsAbsent, ClaimedOnce, IInv, MessageInv
      <3> QED BY <1>1, <3>1, <3>2, <3>4 DEF MessageInv, IInv
    <2> QED BY <2>1, <2>2 DEF CompleteClaimed
  <1> QED BY <1>2, <1>3, <1>4 DEF IInv

LEMMA RunStepKeeps ==
  ASSUME IInv, NEW s \in Sessions, RunStep(s)
  PROVE  IInv'
  BY QuietStep, StartEndStep, ClaimStep, ReportStep, CompleteStep DEF RunStep

-----------------------------------------------------------------------------
(* Deliveries, crashes, and every step.                                    *)

LEMMA DeliverStep ==
  ASSUME IInv, DeliverTask
  PROVE  IInv'
  <1>1. UNCHANGED <<status, request, allocated, run, terminal, replies, inputs>>
    BY DEF DeliverTask
  <1>2. RunInv' /\ MessageInv' /\ EventInv'
    BY <1>1, RunStays, MessagesStay, EventsStay
  <1>3. tasks \in Seq(Sessions) /\ tasks # <<>> /\ Len(tasks) <= QueueLimit /\ Len(tasks) \in Nat
    BY DEF DeliverTask, IInv, QueueInv
  <1>4. /\ Head(tasks) \in Sessions /\ Tail(tasks) \in Seq(Sessions)
        /\ Len(Tail(tasks)) = Len(tasks) - 1
    BY <1>3, TailRange
  <1>5. DebouncerType'
    BY <1>4, DebouncerSteps DEF DeliverTask
  <1>6. tasks' = Tail(tasks) \/ tasks' = Append(Tail(tasks), Head(tasks))
    BY DEF DeliverTask
  <1>7. tasks' \in Seq(Sessions) /\ Len(tasks') <= QueueLimit
    BY <1>3, <1>4, <1>6, PipelineAssumption
  <1>8. QueueInv'
    BY <1>1, <1>7 DEF IInv, QueueInv
  <1> QED BY <1>2, <1>5, <1>8 DEF IInv

(* A delivered event leaves its queue, or goes to its end, and may be      *)
(* stored: what the queues hold was held before.                           *)
LEMMA PersistStep ==
  ASSUME IInv, NEW s \in Sessions, Persist(s)
  PROVE  IInv'
  <1> DEFINE h == Head(terminal[s])
  <1>1. UNCHANGED <<status, request, allocated, tasks, debouncer, run, inputs>> /\ terminal[s] # <<>>
    BY DEF Persist, StoreReply, StoreReplyFails
  <1>2. QueueInv' /\ DebouncerType' /\ RunInv' /\ MessageInv'
    BY <1>1, QueuesStay, DebouncerStays, RunStays, MessagesStay
  <1>3. /\ terminal \in [Sessions -> Seq(Event)] /\ replies \in [Sessions -> Seq(Event)]
        /\ AnswersInput
    BY DEF IInv, EventInv
  <1>4. terminal[s] \in Seq(Event) /\ replies[s] \in Seq(Event)
    BY <1>3
  <1>5. /\ h \in Event /\ h \in Range(terminal[s])
        /\ Tail(terminal[s]) \in Seq(Event)
        /\ Range(Tail(terminal[s])) \subseteq Range(terminal[s])
    BY <1>1, <1>4, TailRange
  <1>6. /\ terminal' = [terminal EXCEPT ![s] = Tail(@)]
           \/ terminal' = [terminal EXCEPT ![s] = Append(Tail(@), h)]
        /\ replies' = replies \/ replies' = [replies EXCEPT ![s] = Append(@, h)]
    BY <1>3 DEF Persist, StoreReply, StoreReplyFails
  <1> HIDE DEF h
  <1>7. /\ Append(Tail(terminal[s]), h) \in Seq(Event)
        /\ Range(Append(Tail(terminal[s]), h)) \subseteq Range(terminal[s])
    BY <1>1, <1>4, RotateRange DEF h
  <1>8. /\ Append(replies[s], h) \in Seq(Event)
        /\ Range(Append(replies[s], h)) = Range(replies[s]) \cup {h}
    BY <1>4, <1>5, AppendRange
  <1>9. terminal' \in [Sessions -> Seq(Event)] /\ replies' \in [Sessions -> Seq(Event)]
    BY <1>3, <1>5, <1>6, <1>7, <1>8
  <1>10. ASSUME NEW t \in Sessions
         PROVE  /\ Range(terminal'[t]) \subseteq Range(terminal[t])
                /\ Range(replies'[t]) \subseteq Range(replies[t]) \cup Range(terminal[t])
    <2>1. \/ terminal'[t] = terminal[t]
          \/ t = s /\ terminal'[t] = Tail(terminal[s])
          \/ t = s /\ terminal'[t] = Append(Tail(terminal[s]), h)
      BY <1>3, <1>6
    <2>2. \/ replies'[t] = replies[t]
          \/ t = s /\ replies'[t] = Append(replies[s], h)
      BY <1>3, <1>6
    <2>3. Range(terminal'[t]) \subseteq Range(terminal[t])
      <3> HIDE DEF Range
      <3> QED BY <1>5, <1>7, <2>1
    <2>4. Range(replies'[t]) \subseteq Range(replies[t]) \cup Range(terminal[t])
      <3>1. CASE replies'[t] = replies[t]
        BY <3>1
      <3>2. CASE t = s /\ replies'[t] = Append(replies[s], h)
        <4>1. Range(replies'[t]) = Range(replies[t]) \cup {h}
          BY <1>8, <3>2
        <4> QED BY <1>5, <3>2, <4>1
      <3> QED BY <2>2, <3>1, <3>2
    <2> QED BY <2>3, <2>4
  <1>11. AnswersInput'
    BY <1>1, <1>3, <1>10 DEF AnswersInput
  <1> QED BY <1>2, <1>9, <1>11 DEF IInv, EventInv

(* The worker loses its runs; what they did stays as it is.                *)
LEMMA CrashStep ==
  ASSUME IInv, Crash
  PROVE  IInv'
  <1>1. UNCHANGED <<status, request, allocated, tasks, terminal, calls, replies, inputs>>
    BY DEF Crash, broker
  <1>2. QueueInv' /\ MessageInv' /\ EventInv'
    BY <1>1, QueuesStay, MessagesStay, EventsStay
  <1>3. DebouncerType'
    BY <1>1 DEF Crash, IInv, DebouncerType
  <1>4. run' = [s \in Sessions |-> NoRun]
    BY DEF Crash
  <1>5. RunInv'
    BY <1>4, NoRunShape DEF RunInv, RunIsNamed, RunHasInput, ClaimedIsInput, ReportsFailure, Working
  <1> QED BY <1>2, <1>3, <1>5 DEF IInv

LEMMA NextHolds == IInv /\ [Next]_vars => IInv'
  <1> SUFFICES ASSUME IInv, [Next]_vars PROVE IInv'
    OBVIOUS
  <1>1. CASE UNCHANGED vars
    <2>1. UNCHANGED <<status, request, allocated, tasks, run, terminal, replies, inputs, debouncer>>
      BY <1>1 DEF vars, debouncer
    <2> QED BY <2>1, QueuesStay, DebouncerStays, RunStays, MessagesStay, EventsStay DEF IInv
  <1>2. CASE Next
    BY <1>2, ServerStep, DeliverStep, RunStepKeeps, PersistStep, CrashStep DEF Next
  <1> QED BY <1>1, <1>2

-----------------------------------------------------------------------------
(* The places of the messages among the rows of their sessions.            *)

(* Rows that come in leave the order of the others alone, and only more of *)
(* them are numbered after a message.                                      *)
NewerGrows ==
  \A m, n \in Messages :
    SessionOf(m) = SessionOf(n) /\ status[m] # "absent" /\ status[n] # "absent" =>
      newer'[m] >= newer[m] /\ (newer[m] < newer[n] => newer'[m] < newer'[n])

LEMMA InsertShape ==
  ASSUME NewerType, NEW s, NEW k \in Nat
  PROVE  /\ Insert(s, k) \in [Messages -> Nat]
         /\ \A m \in Messages :
              Insert(s, k)[m] = IF SessionOf(m) = s /\ status[m] # "absent" /\ newer[m] >= k
                                THEN newer[m] + 1 ELSE newer[m]
BY DEF NewerType, Insert, Of

(* A row comes in, which may be the message x that was not there.          *)
LEMMA InsertGrows ==
  ASSUME NewerType, NEW s, NEW k \in Nat, NEW f, f = Insert(s, k),
         \A m \in Messages : status[m] # "absent" => newer'[m] = f[m]
  PROVE  NewerGrows
<1>1. \A m \in Messages : newer[m] \in Nat
  BY DEF NewerType
<1> SUFFICES ASSUME NEW m \in Messages, NEW n \in Messages,
                    SessionOf(m) = SessionOf(n), status[m] # "absent", status[n] # "absent"
             PROVE  newer'[m] >= newer[m] /\ (newer[m] < newer[n] => newer'[m] < newer'[n])
  BY DEF NewerGrows
<1>2. /\ newer'[m] = IF SessionOf(m) = s /\ newer[m] >= k THEN newer[m] + 1 ELSE newer[m]
      /\ newer'[n] = IF SessionOf(m) = s /\ newer[n] >= k THEN newer[n] + 1 ELSE newer[n]
  BY InsertShape
<1> QED
  BY <1>1, <1>2

LEMMA NewerStep ==
  ASSUME IInv, NewerType, [Next]_vars
  PROVE  NewerType' /\ NewerGrows
<1>1. CASE newer' = newer
  BY <1>1 DEF NewerType, NewerGrows
<1>2. ASSUME NEW m \in Messages, StoreMessage(m) PROVE NewerType' /\ NewerGrows
  <2>0. Places(SessionOf(m)) \subseteq Nat
    BY DEF Places
  <2>1. PICK k \in Places(SessionOf(m)) : newer' = [Insert(SessionOf(m), k) EXCEPT ![m] = k]
    BY <1>2 DEF StoreMessage
  <2> DEFINE f == Insert(SessionOf(m), k)
  <2>2. f \in [Messages -> Nat] /\ k \in Nat
    BY <2>0, InsertShape
  <2>3. status[m] = "absent"
    BY <1>2 DEF StoreMessage, IInv, MessageInv, UnsentIsAbsent
  <2>4. newer' = [f EXCEPT ![m] = k]
    BY <2>1
  <2> HIDE DEF f
  <2>5. newer' \in [Messages -> Nat] /\ \A x \in Messages : x # m => newer'[x] = f[x]
    BY <2>2, <2>4
  <2>6. \A x \in Messages : status[x] # "absent" => newer'[x] = f[x]
    BY <2>3, <2>5
  <2>7. NewerGrows
    BY <2>2, <2>6, InsertGrows DEF f
  <2> QED
    BY <2>5, <2>7 DEF NewerType
<1>3. ASSUME NEW s \in Sessions, StoreReply(s) PROVE NewerType' /\ NewerGrows
  <2>1. PICK k \in Nat : newer' = Insert(s, k)
    BY <1>3, PipelineAssumption DEF StoreReply, Places
  <2>2. newer' \in [Messages -> Nat]
    BY <2>1, InsertShape
  <2>3. NewerGrows
    BY <2>1, InsertGrows
  <2> QED
    BY <2>2, <2>3 DEF NewerType
<1>4. ASSUME NEW m \in Messages, Server(m) PROVE newer' = newer \/ StoreMessage(m)
  BY <1>4 DEF Server, PublishTask, SkipTask, PublishTaskFails
<1>5. ASSUME NEW s \in Sessions, RunStep(s) PROVE newer' = newer
  BY <1>5 DEF RunStep, StartRun, LoadHistory, Claim, ClaimAndGo, PrepareFails, AgentReturns, AgentPanics,
     EmitTerminal, Learn, LearnPanics, CompleteClaimed, ReportFailure, EndRun
<1>6. ASSUME NEW s \in Sessions, Persist(s) PROVE newer' = newer \/ StoreReply(s)
  BY <1>6 DEF Persist, StoreReplyFails
<1>7. CASE DeliverTask \/ Crash \/ UNCHANGED vars
  BY <1>1, <1>7 DEF DeliverTask, Crash, vars
<1> QED
  BY <1>1, <1>2, <1>3, <1>4, <1>5, <1>6, <1>7 DEF Next

-----------------------------------------------------------------------------
(* The theorems.                                                           *)

(* Every state of the pipeline is a state of the program: the rows, the    *)
(* queues (the task queue within its limit), the runs and the replies have *)
(* the shapes the code gives them, under every fault.                      *)
THEOREM PipelineTypeCorrect == SafeSpec => []TypeOK
  <1>1. IInv /\ NewerType => TypeOK
    BY IInvIsTyped
  <1>2. Init => NewerType
    BY DEF Init, NewerType
  <1>3. IInv /\ NewerType /\ [Next]_vars => NewerType'
    BY NewerStep
  <1> QED BY <1>1, <1>2, <1>3, InitHolds, NextHolds, PTL DEF SafeSpec

(* ClaimSessionMessagesByStatus gives a message to one run only, for any   *)
(* number of sessions and messages, whatever is delivered twice, however   *)
(* often a database statement fails and wherever the worker dies.          *)
THEOREM NoMessageIsClaimedTwice == SafeSpec => []ClaimedOnce
  <1>1. IInv => ClaimedOnce
    BY DEF IInv, MessageInv
  <1> QED BY <1>1, InitHolds, NextHolds, PTL DEF SafeSpec

(* A success that is stored in a session, or on its way there, answers a   *)
(* run that had claimed something: the code's empty claims and its         *)
(* unwinding runs never report success.                                    *)
THEOREM SuccessHasInput == SafeSpec => []AnswersInput
  <1>1. IInv => AnswersInput
    BY DEF IInv, EventInv
  <1> QED BY <1>1, InitHolds, NextHolds, PTL DEF SafeSpec

-----------------------------------------------------------------------------
(* Where neither the worker nor the database fails, with any number of     *)
(* redeliveries and panics: the pipeline implements MessageBatches, a run  *)
(* knows what the earlier ones were given, and, where every event can be   *)
(* published and the task subject has room, nothing is forgotten.          *)

Steady == Faults \cap {"crash", "db"} = {}
Published == "publish" \notin Faults
HasRoom == Len(tasks) < QueueLimit

-----------------------------------------------------------------------------
(* What the steps do to the run of a session, field by field.              *)

Becomes(s, g, c, k, h) ==
  /\ \A t \in Sessions \ {s} : run'[t] = run[t]
  /\ run'[s].stage = g /\ run'[s].call = c /\ run'[s].claimed = k /\ run'[s].history = h

BecomesRecord(s, g) ==
  Becomes(s, g, run[s].call, run[s].claimed, run[s].history)

(* From one stage to another without touching a row.                       *)
Advances(s) ==
  \/ run[s].stage = "agent" /\ (BecomesRecord(s, "emit") \/ BecomesRecord(s, "unwind"))
  \/ run[s].stage = "emit" /\ BecomesRecord(s, "learn")
  \/ run[s].stage = "learn" /\ (BecomesRecord(s, "complete") \/ BecomesRecord(s, "unwind"))
  \/ run[s].stage = "report" /\ BecomesRecord(s, "end")

Starts(s) ==
  /\ inHand[s] = {} /\ mailbox[s] \in Calls
  /\ Becomes(s, "load", mailbox[s], {}, {})

Loads(s) ==
  /\ run[s].stage = "load"
  /\ Becomes(s, "claim", run[s].call, run[s].claimed, {m \in Recent(s) : status[m] = "completed"})

Claims(s) ==
  LET mine == InStatus(s, "pending") IN
  /\ run[s].stage = "claim"
  /\ Becomes(s, StageAfterClaim(mine), run[s].call, mine, run[s].history)
  /\ status' = [m \in Messages |-> IF m \in mine THEN "processing" ELSE status[m]]
  /\ inputs' = [inputs EXCEPT ![<<s, run[s].call>>] = @ \cup mine]

Completes(s) ==
  /\ \/ run[s].stage = "complete" /\ BecomesRecord(s, "end")
     \/ run[s].stage = "unwind" /\ BecomesRecord(s, "report")
  /\ status' = [m \in Messages |-> IF m \in run[s].claimed THEN "completed" ELSE status[m]]

(* A statement has failed: in Prepare, or when the claimed messages were   *)
(* to be completed.                                                        *)
GivesUp(s) ==
  \/ run[s].stage \in {"load", "claim"} /\ BecomesRecord(s, "report")
  \/ run[s].stage = "complete" /\ BecomesRecord(s, "end")
  \/ run[s].stage = "unwind" /\ BecomesRecord(s, "report")

Ends(s) == run[s].stage = "end" /\ Becomes(s, "none", 0, {}, {})

LEMMA StageBecomes ==
  ASSUME IInv, NEW s \in Sessions, NEW g,
         \/ run' = [run EXCEPT ![s].stage = g]
         \/ \E o : run' = [run EXCEPT ![s].stage = g, ![s].outcome = o]
  PROVE  BecomesRecord(s, g)
<1>1. run[s] \in RunState /\ run \in [Sessions -> RunState]
  BY DEF IInv, RunInv
<1>2. CASE run' = [run EXCEPT ![s].stage = g]
  <2> DEFINE r == [run[s] EXCEPT !.stage = g]
  <2>1. r.stage = g /\ r.call = run[s].call /\ r.claimed = run[s].claimed /\ r.history = run[s].history
    BY <1>1 DEF RunState
  <2>2. run' = [run EXCEPT ![s] = r]
    BY <1>1, <1>2
  <2> HIDE DEF r
  <2> QED
    BY <1>1, <2>1, <2>2 DEF BecomesRecord, Becomes
<1>3. CASE \E o : run' = [run EXCEPT ![s].stage = g, ![s].outcome = o]
  <2>1. PICK o : run' = [run EXCEPT ![s].stage = g, ![s].outcome = o]
    BY <1>3
  <2> DEFINE r == [run[s] EXCEPT !.stage = g, !.outcome = o]
  <2>2. r.stage = g /\ r.call = run[s].call /\ r.claimed = run[s].claimed /\ r.history = run[s].history
    BY <1>1 DEF RunState
  <2>3. run' = [run EXCEPT ![s] = r]
    BY <1>1, <2>1
  <2> HIDE DEF r
  <2> QED
    BY <1>1, <2>2, <2>3 DEF BecomesRecord, Becomes
<1> QED
  BY <1>2, <1>3

LEMMA AdvanceStep ==
  ASSUME IInv, NEW s \in Sessions,
         \/ AgentReturns(s) \/ AgentPanics(s) \/ EmitTerminal(s)
         \/ Learn(s) \/ LearnPanics(s) \/ ReportFailure(s)
  PROVE  Advances(s) /\ UNCHANGED <<status, request, tasks, debouncer, inputs, replies>>
<1>1. UNCHANGED <<status, request, tasks, debouncer, inputs, replies>>
  BY DEF AgentReturns, AgentPanics, EmitTerminal, Learn, LearnPanics, ReportFailure, broker
<1>2. ASSUME AgentReturns(s) PROVE Advances(s)
  BY <1>2, StageBecomes DEF AgentReturns, AtStage, Advances
<1>3. ASSUME AgentPanics(s) PROVE Advances(s)
  BY <1>3, StageBecomes DEF AgentPanics, AtStage, Advances
<1>4. ASSUME EmitTerminal(s) PROVE Advances(s)
  BY <1>4, StageBecomes DEF EmitTerminal, Goto, AtStage, Advances
<1>5. ASSUME Learn(s) PROVE Advances(s)
  BY <1>5, StageBecomes DEF Learn, Goto, AtStage, Advances
<1>6. ASSUME LearnPanics(s) PROVE Advances(s)
  BY <1>6, StageBecomes DEF LearnPanics, AtStage, Advances
<1>7. ASSUME ReportFailure(s) PROVE Advances(s)
  BY <1>7, StageBecomes DEF ReportFailure, Goto, AtStage, Advances
<1> QED
  BY <1>1, <1>2, <1>3, <1>4, <1>5, <1>6, <1>7

LEMMA StartBecomes ==
  ASSUME IInv, NEW s \in Sessions, StartRun(s)
  PROVE  Starts(s) /\ D!Serve(s) /\ UNCHANGED <<status, request, tasks, terminal, inputs, replies>>
<1> DEFINE r == FreshRun("load", mailbox[s])
<1>1. inHand[s] = {} /\ mailbox[s] \in Calls
  BY DEF StartRun, D!Serve, IInv, DebouncerType
<1>2. r.stage = "load" /\ r.call = mailbox[s] /\ r.claimed = {} /\ r.history = {}
  BY DEF FreshRun
<1>3. run' = [run EXCEPT ![s] = r] /\ run \in [Sessions -> RunState]
  BY DEF StartRun, IInv, RunInv
<1> HIDE DEF r
<1>4. Becomes(s, "load", mailbox[s], {}, {})
  BY <1>2, <1>3 DEF Becomes
<1> QED
  BY <1>1, <1>4 DEF Starts, StartRun, broker

LEMMA LoadBecomes ==
  ASSUME IInv, NEW s \in Sessions, LoadHistory(s)
  PROVE  Loads(s) /\ UNCHANGED <<status, request, tasks, terminal, debouncer, inputs, replies>>
<1> DEFINE h == {m \in Recent(s) : status[m] \in Settled}
           r == [run[s] EXCEPT !.stage = "claim", !.history = h]
<1>1. h = {m \in Recent(s) : status[m] = "completed"}
  BY DEF Settled
<1> HIDE DEF h
<1>2. run[s] \in RunState /\ run \in [Sessions -> RunState]
  BY DEF IInv, RunInv
<1>3. r.stage = "claim" /\ r.call = run[s].call /\ r.claimed = run[s].claimed /\ r.history = h
  BY <1>2 DEF RunState
<1>4. run' = [run EXCEPT ![s] = r]
  BY <1>2 DEF LoadHistory, h
<1> HIDE DEF r
<1>5. Becomes(s, "claim", run[s].call, run[s].claimed, h)
  BY <1>2, <1>3, <1>4 DEF Becomes
<1> QED
  BY <1>1, <1>5 DEF Loads, LoadHistory, AtStage, broker

LEMMA ClaimBecomes ==
  ASSUME IInv, NEW s \in Sessions, Claim(s)
  PROVE  Claims(s) /\ UNCHANGED <<request, tasks, terminal, debouncer, replies>>
<1> DEFINE mine == InStatus(s, "pending")
           r == [run[s] EXCEPT !.stage = StageAfterClaim(mine), !.claimed = mine]
<1>1. run[s] \in RunState /\ run \in [Sessions -> RunState]
  BY DEF IInv, RunInv
<1> HIDE DEF mine
<1>2. r.stage = StageAfterClaim(mine) /\ r.call = run[s].call /\ r.claimed = mine /\ r.history = run[s].history
  BY <1>1 DEF RunState
<1>3. run' = [run EXCEPT ![s] = r]
  BY <1>1 DEF Claim, ClaimAndGo, mine
<1> HIDE DEF r
<1>4. Becomes(s, StageAfterClaim(mine), run[s].call, mine, run[s].history)
  BY <1>1, <1>2, <1>3 DEF Becomes
<1> QED
  BY <1>4 DEF Claims, Claim, ClaimAndGo, AtStage, broker, mine

LEMMA CompleteBecomes ==
  ASSUME Steady, IInv, NEW s \in Sessions, CompleteClaimed(s)
  PROVE  Completes(s) /\ UNCHANGED <<request, tasks, terminal, debouncer, inputs, replies>>
<1>1. /\ status' = [m \in Messages |-> IF m \in run[s].claimed THEN "completed" ELSE status[m]]
      /\ UNCHANGED <<request, tasks, terminal, debouncer, inputs, replies>>
  BY DEF Steady, CompleteClaimed, Fault, broker
<1>2. CASE run[s].stage = "unwind"
  <2>1. BecomesRecord(s, "report")
    BY <1>2, StageBecomes DEF CompleteClaimed, AtStage, Goto
  <2> QED
    BY <1>1, <1>2, <2>1 DEF Completes
<1>3. CASE run[s].stage = "complete"
  <2>1. BecomesRecord(s, "end")
    BY <1>3, StageBecomes DEF CompleteClaimed, AtStage, Goto
  <2> QED
    BY <1>1, <1>3, <2>1 DEF Completes
<1> QED
  BY <1>2, <1>3 DEF CompleteClaimed, AtStage

LEMMA FailureBecomes ==
  ASSUME IInv, NEW s \in Sessions, PrepareFails(s) \/ CompleteClaimed(s)
  PROVE  /\ (Completes(s) \/ (GivesUp(s) /\ UNCHANGED status))
         /\ UNCHANGED <<request, tasks, terminal, debouncer, inputs, replies>>
<1>1. CASE PrepareFails(s)
  <2>1. BecomesRecord(s, "report") /\ run[s].stage \in {"load", "claim"}
    BY <1>1, StageBecomes DEF PrepareFails, AtStage
  <2> QED
    BY <1>1, <2>1 DEF GivesUp, PrepareFails, broker
<1>2. CASE CompleteClaimed(s)
  <2>1. \/ run[s].stage = "unwind" /\ BecomesRecord(s, "report")
        \/ run[s].stage = "complete" /\ BecomesRecord(s, "end")
    <3>1. CASE run[s].stage = "unwind"
      BY <1>2, <3>1, StageBecomes DEF CompleteClaimed, AtStage, Goto
    <3>2. CASE run[s].stage = "complete"
      BY <1>2, <3>2, StageBecomes DEF CompleteClaimed, AtStage, Goto
    <3> QED
      BY <1>2, <3>1, <3>2 DEF CompleteClaimed, AtStage
  <2> QED
    BY <1>2, <2>1 DEF Completes, GivesUp, CompleteClaimed, broker
<1> QED
  BY <1>1, <1>2

LEMMA EndBecomes ==
  ASSUME IInv, NEW s \in Sessions, EndRun(s)
  PROVE  Ends(s) /\ D!Complete(s) /\ UNCHANGED <<status, request, tasks, terminal, inputs, replies>>
<1>1. NoRun.stage = "none" /\ NoRun.call = 0 /\ NoRun.claimed = {} /\ NoRun.history = {}
  BY DEF NoRun, FreshRun
<1>2. run' = [run EXCEPT ![s] = NoRun] /\ run \in [Sessions -> RunState]
  BY DEF EndRun, IInv, RunInv
<1>3. Becomes(s, "none", 0, {}, {})
  BY <1>1, <1>2 DEF Becomes
<1> QED
  BY <1>3 DEF Ends, EndRun, AtStage, broker

(* Every step of a run, where the worker and the database work.            *)
RunKinds(s) ==
  \/ Advances(s) /\ UNCHANGED <<status, inputs, debouncer>>
  \/ Starts(s) /\ D!Serve(s) /\ UNCHANGED <<status, inputs>>
  \/ Loads(s) /\ UNCHANGED <<status, inputs, debouncer>>
  \/ Claims(s) /\ UNCHANGED debouncer
  \/ Completes(s) /\ UNCHANGED <<inputs, debouncer>>
  \/ Ends(s) /\ D!Complete(s) /\ UNCHANGED <<status, inputs>>

LEMMA RunStepKind ==
  ASSUME Steady, IInv, NEW s \in Sessions, RunStep(s)
  PROVE  RunKinds(s) /\ UNCHANGED <<request, tasks>>
<1>1. ~PrepareFails(s)
  BY DEF Steady, PrepareFails, Fault
<1> QED
  BY <1>1, AdvanceStep, StartBecomes, LoadBecomes, ClaimBecomes, CompleteBecomes, EndBecomes
  DEF RunStep, RunKinds

(* Every step of a run, whatever fails.                                    *)
AnyKind(s) == RunKinds(s) \/ (GivesUp(s) /\ UNCHANGED <<status, inputs, debouncer>>)

LEMMA AnyStepKind ==
  ASSUME IInv, NEW s \in Sessions, RunStep(s)
  PROVE  AnyKind(s) /\ UNCHANGED <<request, tasks, newer>>
<1>1. UNCHANGED newer
  BY DEF RunStep, StartRun, LoadHistory, Claim, ClaimAndGo, PrepareFails, AgentReturns, AgentPanics,
     EmitTerminal, Learn, LearnPanics, CompleteClaimed, ReportFailure, EndRun
<1>2. AnyKind(s) /\ UNCHANGED <<request, tasks>>
  BY AdvanceStep, StartBecomes, LoadBecomes, ClaimBecomes, FailureBecomes, EndBecomes
  DEF RunStep, RunKinds, AnyKind
<1> QED
  BY <1>1, <1>2

-----------------------------------------------------------------------------
(* One batch at a time: a session has a run just when the debouncer has a  *)
(* call in hand, and the messages that are being processed are those that  *)
(* the run between claim and completion has claimed.                       *)

HandIsRun == \A s \in Sessions : inHand[s] = {} <=> run[s].stage = "none"

ProcessingIsClaimed ==
  \A s \in Sessions : \A m \in Messages :
    HasClaimed(s) /\ m \in run[s].claimed <=> SessionOf(m) = s /\ status[m] = "processing"

BatchInv == IInv /\ HandIsRun /\ ProcessingIsClaimed

LEMMA ServerBecomes ==
  ASSUME IInv, NEW m \in Messages, Server(m)
  PROVE  /\ UNCHANGED <<debouncer, run, inputs, terminal, replies>>
         /\ \/ UNCHANGED status
            \/ status[m] = "absent" /\ status' = [status EXCEPT ![m] = "pending"]
<1>1. CASE StoreMessage(m)
  BY <1>1 DEF StoreMessage, broker, IInv, MessageInv, UnsentIsAbsent
<1>2. CASE PublishTask(m) \/ SkipTask(m) \/ PublishTaskFails(m)
  BY <1>2 DEF PublishTask, SkipTask, PublishTaskFails, broker
<1> QED
  BY <1>1, <1>2 DEF Server

(* The steps that move no run, put together.                               *)
LEMMA OtherSteps ==
  ASSUME Steady, BatchInv, [Next]_vars, \A s \in Sessions : ~RunStep(s)
  PROVE  /\ UNCHANGED <<run, inputs, inHand>>
         /\ UNCHANGED debouncer \/ \E s \in Sessions : D!Put(s)
         /\ \/ UNCHANGED status
            \/ \E m \in Messages : status[m] = "absent" /\ status' = [status EXCEPT ![m] = "pending"]
<1>1. CASE \E m \in Messages : Server(m)
  BY <1>1, ServerBecomes DEF BatchInv, debouncer
<1>2. CASE DeliverTask
  <2>1. Head(tasks) \in Sessions
    BY <1>2, TailRange DEF DeliverTask, BatchInv, IInv, QueueInv
  <2> QED
    BY <1>2, <2>1 DEF DeliverTask, D!Put
<1>3. CASE \E s \in Sessions : Persist(s)
  BY <1>3 DEF Persist, StoreReply, StoreReplyFails, debouncer
<1>4. ~Crash
  BY DEF Steady, Crash, Fault
<1>5. CASE UNCHANGED vars
  BY <1>5 DEF vars, debouncer
<1>6. CASE Next
  BY <1>1, <1>2, <1>3, <1>4, <1>6 DEF Next
<1> QED
  BY <1>5, <1>6

LEMMA BatchInit == Init => BatchInv
<1> SUFFICES ASSUME Init PROVE BatchInv
  OBVIOUS
<1>1. HandIsRun /\ ProcessingIsClaimed
  BY NoRunShape DEF Init, D!Init, HandIsRun, ProcessingIsClaimed, HasClaimed
<1> QED
  BY <1>1, InitHolds DEF BatchInv

LEMMA BatchRunStep ==
  ASSUME Steady, BatchInv, NEW s \in Sessions, RunStep(s)
  PROVE  HandIsRun' /\ ProcessingIsClaimed'
<1>1. RunKinds(s) /\ run \in [Sessions -> RunState] /\ inHand \in [Sessions -> SUBSET Calls]
  BY RunStepKind DEF BatchInv, IInv, RunInv, DebouncerType
<1>3. HandIsRun /\ ProcessingIsClaimed /\ status \in [Messages -> {"absent", "pending", "processing", "completed"}]
  BY DEF BatchInv, IInv, MessageInv
<1>4. CASE Advances(s) /\ UNCHANGED <<status, inputs, debouncer>>
  <2>1. HandIsRun'
    BY <1>3, <1>4 DEF HandIsRun, Advances, BecomesRecord, Becomes, debouncer
  <2>2. ProcessingIsClaimed'
    BY <1>3, <1>4 DEF ProcessingIsClaimed, HasClaimed, Advances, BecomesRecord, Becomes
  <2> QED
    BY <2>1, <2>2
<1>5. CASE Starts(s) /\ D!Serve(s) /\ UNCHANGED <<status, inputs>>
  <2>1. run[s].stage = "none"
    BY <1>3, <1>5 DEF HandIsRun, Starts
  <2>2. HandIsRun'
    BY <1>1, <1>3, <1>5 DEF HandIsRun, Starts, D!Serve, Becomes
  <2>3. ProcessingIsClaimed'
    BY <1>3, <1>5, <2>1 DEF ProcessingIsClaimed, HasClaimed, Starts, Becomes
  <2> QED
    BY <2>2, <2>3
<1>6. CASE Loads(s) /\ UNCHANGED <<status, inputs, debouncer>>
  <2>1. HandIsRun'
    BY <1>3, <1>6 DEF HandIsRun, Loads, Becomes, debouncer
  <2>2. ProcessingIsClaimed'
    BY <1>3, <1>6 DEF ProcessingIsClaimed, HasClaimed, Loads, Becomes
  <2> QED
    BY <2>1, <2>2
<1>7. CASE Claims(s) /\ UNCHANGED debouncer
  <2> DEFINE mine == InStatus(s, "pending")
  <2>1. \A m \in Messages : m \in mine <=> SessionOf(m) = s /\ status[m] = "pending"
    BY DEF InStatus, Of
  <2> HIDE DEF mine
  <2>2. /\ run[s].stage = "claim"
        /\ Becomes(s, StageAfterClaim(mine), run[s].call, mine, run[s].history)
        /\ status' = [m \in Messages |-> IF m \in mine THEN "processing" ELSE status[m]]
    BY <1>7 DEF Claims, mine
  <2>3. HandIsRun'
    BY <1>3, <1>7, <2>2 DEF HandIsRun, StageAfterClaim, Becomes, debouncer
  <2>4. ASSUME NEW t \in Sessions, NEW m \in Messages
        PROVE  HasClaimed(t)' /\ m \in run'[t].claimed <=> SessionOf(m) = t /\ status'[m] = "processing"
    <3>1. HasClaimed(t) /\ m \in run[t].claimed <=> SessionOf(m) = t /\ status[m] = "processing"
      BY <1>3 DEF ProcessingIsClaimed
    <3>2. CASE t # s
      BY <2>1, <2>2, <3>1, <3>2 DEF Becomes, HasClaimed
    <3>3. CASE t = s
      BY <2>1, <2>2, <3>1, <3>3 DEF Becomes, HasClaimed, StageAfterClaim
    <3> QED
      BY <3>2, <3>3
  <2> QED
    BY <2>3, <2>4 DEF ProcessingIsClaimed
<1>8. CASE Completes(s) /\ UNCHANGED <<inputs, debouncer>>
  <2>1. HandIsRun'
    BY <1>3, <1>8 DEF HandIsRun, Completes, BecomesRecord, Becomes, debouncer
  <2>2. ASSUME NEW t \in Sessions, NEW m \in Messages
        PROVE  HasClaimed(t)' /\ m \in run'[t].claimed <=> SessionOf(m) = t /\ status'[m] = "processing"
    <3>1. /\ HasClaimed(t) /\ m \in run[t].claimed <=> SessionOf(m) = t /\ status[m] = "processing"
          /\ HasClaimed(s) /\ m \in run[s].claimed <=> SessionOf(m) = s /\ status[m] = "processing"
      BY <1>3 DEF ProcessingIsClaimed
    <3>2. HasClaimed(s) /\ status'[m] = IF m \in run[s].claimed THEN "completed" ELSE status[m]
      BY <1>8 DEF Completes, HasClaimed
    <3>3. CASE t # s
      BY <1>8, <3>1, <3>2, <3>3 DEF Completes, BecomesRecord, Becomes, HasClaimed
    <3>4. CASE t = s
      BY <1>8, <3>1, <3>2, <3>4 DEF Completes, BecomesRecord, Becomes, HasClaimed
    <3> QED
      BY <3>3, <3>4
  <2> QED
    BY <2>1, <2>2 DEF ProcessingIsClaimed
<1>9. CASE Ends(s) /\ D!Complete(s) /\ UNCHANGED <<status, inputs>>
  <2>1. HandIsRun'
    BY <1>1, <1>3, <1>9 DEF HandIsRun, Ends, D!Complete, Becomes
  <2>2. ProcessingIsClaimed'
    BY <1>3, <1>9 DEF ProcessingIsClaimed, HasClaimed, Ends, Becomes
  <2> QED
    BY <2>1, <2>2
<1> QED
  BY <1>1, <1>4, <1>5, <1>6, <1>7, <1>8, <1>9 DEF RunKinds

LEMMA BatchStep ==
  ASSUME Steady
  PROVE  BatchInv /\ [Next]_vars => BatchInv'
<1> SUFFICES ASSUME BatchInv, [Next]_vars PROVE BatchInv'
  OBVIOUS
<1>1. IInv'
  BY NextHolds DEF BatchInv
<1>2. CASE \E s \in Sessions : RunStep(s)
  BY <1>1, <1>2, BatchRunStep DEF BatchInv
<1>3. CASE \A s \in Sessions : ~RunStep(s)
  <2>1. /\ UNCHANGED <<run, inHand>>
        /\ \/ UNCHANGED status
           \/ \E m \in Messages : status[m] = "absent" /\ status' = [status EXCEPT ![m] = "pending"]
    BY <1>3, OtherSteps
  <2>2. \A m \in Messages : status'[m] = "processing" <=> status[m] = "processing"
    BY <2>1 DEF BatchInv, IInv, MessageInv
  <2>3. HandIsRun' /\ ProcessingIsClaimed'
    BY <2>1, <2>2 DEF BatchInv, HandIsRun, ProcessingIsClaimed, HasClaimed
  <2> QED
    BY <1>1, <2>3 DEF BatchInv
<1> QED
  BY <1>2, <1>3

-----------------------------------------------------------------------------
(* The refinement: what each step does to the batches.                     *)

(* The four states of a message, and the batch of a session.               *)
LEMMA WorkIs ==
  ASSUME BatchInv
  PROVE  /\ \A m \in Messages :
              /\ status[m] = "absent" <=> Work[m] = "unsent"
              /\ status[m] = "pending" <=> Work[m] = "waiting"
              /\ status[m] = "processing" <=> Work[m] = "inWork"
              /\ status[m] = "completed" <=> Work[m] = "done"
         /\ \A s \in Sessions : \A m \in Messages :
              m \in Batches!In(s, "inWork") <=> HasClaimed(s) /\ m \in run[s].claimed
         /\ \A s \in Sessions : \A m \in Messages :
              m \in Batches!In(s, "waiting") <=> m \in InStatus(s, "pending")
<1>1. status \in [Messages -> {"absent", "pending", "processing", "completed"}]
  BY DEF BatchInv, IInv, MessageInv
<1>2. \A m \in Messages :
        /\ status[m] = "absent" <=> Work[m] = "unsent"
        /\ status[m] = "pending" <=> Work[m] = "waiting"
        /\ status[m] = "processing" <=> Work[m] = "inWork"
        /\ status[m] = "completed" <=> Work[m] = "done"
  BY <1>1 DEF Work
<1> QED
  BY <1>2 DEF BatchInv, ProcessingIsClaimed, Batches!In, Batches!Of, InStatus, Of

(* A statement that moves a set of messages from one state to another.     *)
LEMMA WorkMoves ==
  ASSUME BatchInv, NEW B \in SUBSET Messages,
         NEW st \in {"processing", "completed"},
         status' = [m \in Messages |-> IF m \in B THEN st ELSE status[m]]
  PROVE  Work' = [m \in Messages |->
                    IF m \in B THEN (IF st = "processing" THEN "inWork" ELSE "done") ELSE Work[m]]
<1>1. status \in [Messages -> {"absent", "pending", "processing", "completed"}]
  BY DEF BatchInv, IInv, MessageInv
<1> QED
  BY <1>1 DEF Work

LEMMA ClaimIsTake ==
  ASSUME BatchInv, NEW s \in Sessions, Claims(s)
  PROVE  [Batches!Next]_Work
<1> DEFINE mine == InStatus(s, "pending")
<1>1. mine \in SUBSET Messages
  BY DEF InStatus, Of
<1>2. status' = [m \in Messages |-> IF m \in mine THEN "processing" ELSE status[m]]
  BY DEF Claims
<1>3. Work' = [m \in Messages |-> IF m \in mine THEN "inWork" ELSE Work[m]]
  BY <1>1, <1>2, WorkMoves
<1>4. CASE mine = {}
  BY <1>2, <1>4, <1>3 DEF Work
<1>5. CASE mine # {}
  <2>1. Batches!In(s, "waiting") = mine
    BY <1>1, WorkIs DEF Batches!In, Batches!Of
  <2>2. Batches!In(s, "inWork") = {}
    BY WorkIs DEF Claims, HasClaimed, Batches!In, Batches!Of
  <2>3. Batches!Take(s)
    BY <1>3, <1>5, <2>1, <2>2 DEF Batches!Take
  <2> QED
    BY <2>3 DEF Batches!Next
<1> QED
  BY <1>4, <1>5

LEMMA CompleteIsFinish ==
  ASSUME BatchInv, NEW s \in Sessions, Completes(s)
  PROVE  [Batches!Next]_Work
<1>1. run[s].claimed \in SUBSET Messages /\ HasClaimed(s)
  BY RunShape DEF BatchInv, Completes, HasClaimed
<1>2. status' = [m \in Messages |-> IF m \in run[s].claimed THEN "completed" ELSE status[m]]
  BY DEF Completes
<1>3. Work' = [m \in Messages |-> IF m \in run[s].claimed THEN "done" ELSE Work[m]]
  BY <1>1, <1>2, WorkMoves
<1>4. Batches!In(s, "inWork") = run[s].claimed
  BY <1>1, WorkIs DEF Batches!In, Batches!Of
<1>5. CASE run[s].claimed = {}
  BY <1>3, <1>5 DEF Work
<1>6. CASE run[s].claimed # {}
  BY <1>3, <1>4, <1>6 DEF Batches!Finish, Batches!Next
<1> QED
  BY <1>5, <1>6

LEMMA StoreIsSend ==
  ASSUME BatchInv, NEW m \in Messages, status[m] = "absent",
         status' = [status EXCEPT ![m] = "pending"]
  PROVE  Batches!Send(m)
<1>1. status \in [Messages -> {"absent", "pending", "processing", "completed"}]
  BY DEF BatchInv, IInv, MessageInv
<1>2. Work[m] = "unsent"
  BY WorkIs
<1>3. Work' = [Work EXCEPT ![m] = "waiting"]
  BY <1>1 DEF Work
<1> QED
  BY <1>2, <1>3 DEF Batches!Send

LEMMA StepInBatches ==
  ASSUME Steady, BatchInv, [Next]_vars
  PROVE  [Batches!Next]_Work
<1>1. CASE status' = status
  BY <1>1 DEF Work
<1>2. ASSUME NEW s \in Sessions, RunStep(s) PROVE [Batches!Next]_Work
  <2>1. RunKinds(s)
    BY <1>2, RunStepKind DEF BatchInv
  <2> QED
    BY <1>1, <2>1, ClaimIsTake, CompleteIsFinish DEF RunKinds
<1>3. CASE \A s \in Sessions : ~RunStep(s)
  BY <1>1, <1>3, OtherSteps, StoreIsSend DEF Batches!Next
<1> QED
  BY <1>2, <1>3

(* Where the worker and the database work, whatever is delivered again,    *)
(* dropped by a full subject or unpublished, and wherever the agent        *)
(* panics, the pipeline implements MessageBatches: the messages of a       *)
(* session are worked on one batch at a time, each takes all that waits,   *)
(* and no message is in two of them.                                       *)
THEOREM PipelineWorksInBatches == ASSUME Steady PROVE SafeSpec => WorksInBatches
<1>1. Init => Batches!Init
  <2> SUFFICES ASSUME Init PROVE Batches!Init
    OBVIOUS
  <2> QED
    BY DEF Init, Batches!Init, Work
<1>2. BatchInv /\ [Next]_vars => [Batches!Next]_Work
  BY StepInBatches
<1>3. BatchInv /\ [Next]_vars => BatchInv'
  BY BatchStep
<1> QED
  BY <1>1, <1>2, <1>3, BatchInit, PTL DEF SafeSpec, WorksInBatches, Batches!Spec

-----------------------------------------------------------------------------
(* What a run knows of the earlier ones.                                   *)

(* A run is named by a call that was made, and what waits is newer.        *)
CallOrder(s) ==
  /\ run[s].call <= calls[s]
  /\ mailbox[s] # NoValue => run[s].call < mailbox[s] /\ mailbox[s] <= calls[s]

(* No run of a later call has claimed, and none before its claim.          *)
FutureIsEmpty(s) ==
  \A n \in Calls : inputs[<<s, n>>] # {} =>
    /\ n <= calls[s]
    /\ mailbox[s] # NoValue => n < mailbox[s]
    /\ run[s].stage # "none" => n <= run[s].call
    /\ BeforeClaim(s) => n < run[s].call

(* The messages of a session that were worked on are the inputs of its     *)
(* runs.                                                                   *)
InputsAreWorked(s) ==
  \A m \in Messages :
    SessionOf(m) = s /\ status[m] \in {"processing", "completed"} <=>
      \E n \in Calls : m \in inputs[<<s, n>>]

Worked(m) == status[m] \in {"processing", "completed"}

(* A run about to claim still knows what is settled, up to the limit.      *)
HistoryIsRecent(s) ==
  run[s].stage = "claim" =>
    /\ \A m \in run[s].history : SessionOf(m) = s /\ status[m] = "completed"
    /\ \A m \in Messages \ run[s].history :
         SessionOf(m) = s /\ status[m] = "completed" => BeyondLimit(s, m)

KnowsEarlier(s) ==
  HasClaimed(s) =>
    /\ \A m \in run[s].history :
         /\ SessionOf(m) = s /\ Worked(m)
         /\ \E n \in Calls : n < run[s].call /\ m \in inputs[<<s, n>>]
    /\ \A n \in Calls : n < run[s].call =>
         \A m \in inputs[<<s, n>>] \ run[s].history :
           SessionOf(m) = s /\ Worked(m) /\ (BeyondLimit(s, m) \/ status[m] = "processing")

SessionInv(s) ==
  CallOrder(s) /\ FutureIsEmpty(s) /\ InputsAreWorked(s) /\ HistoryIsRecent(s) /\ KnowsEarlier(s)

(* What a run holds while it works is its session's, and in work.          *)
ClaimedIsInWork ==
  \A s \in Sessions : HasClaimed(s) =>
    \A m \in run[s].claimed : SessionOf(m) = s /\ status[m] = "processing"

HistoryInv == IInv /\ NewerType /\ ClaimedIsInWork /\ \A s \in Sessions : SessionInv(s)

LEMMA HistoryInit == Init => HistoryInv
<1> SUFFICES ASSUME Init PROVE HistoryInv
  OBVIOUS
<1>1. IInv /\ NewerType /\ NoRun.call = 0
  BY InitHolds DEF Init, NewerType, NoRun, FreshRun
<1>2. ASSUME NEW s \in Sessions PROVE SessionInv(s) /\ ~HasClaimed(s)
  <2>1. /\ run[s].stage = "none" /\ run[s].call = 0
        /\ calls[s] = 0 /\ mailbox[s] = NoValue
        /\ \A n \in Calls : inputs[<<s, n>>] = {}
        /\ \A m \in Messages : status[m] = "absent"
    BY <1>1, NoRunShape DEF Init, D!Init, Runs, Calls
  <2>2. CallOrder(s) /\ FutureIsEmpty(s)
    BY <2>1 DEF CallOrder, FutureIsEmpty
  <2>3. InputsAreWorked(s) /\ HistoryIsRecent(s) /\ KnowsEarlier(s) /\ ~HasClaimed(s)
    BY <2>1 DEF InputsAreWorked, HistoryIsRecent, KnowsEarlier, HasClaimed
  <2> QED
    BY <2>2, <2>3 DEF SessionInv
<1> QED
  BY <1>1, <1>2 DEF HistoryInv, ClaimedIsInWork

(* What lies beyond the limit of a history stays there.                    *)
LEMMA BeyondStays ==
  ASSUME NewerType, NewerType', NewerGrows, NEW s \in Sessions, NEW m \in Messages,
         run'[s].history = run[s].history, run[s].history \subseteq Messages,
         SessionOf(m) = s, Worked(m), \A h \in run[s].history : SessionOf(h) = s /\ Worked(h),
         BeyondLimit(s, m)
  PROVE  BeyondLimit(s, m)'
<1>1. newer[m] \in Nat /\ newer'[m] \in Nat /\ newer'[m] >= newer[m]
  BY DEF NewerType, NewerGrows, Worked
<1>2. newer'[m] >= HistoryLimit
  BY <1>1, PipelineAssumption DEF BeyondLimit
<1>3. ASSUME NEW h \in run[s].history PROVE newer'[h] < newer'[m]
  BY DEF NewerGrows, Worked, BeyondLimit
<1> QED
  BY <1>2, <1>3 DEF BeyondLimit

(* A session whose rows, run, inputs and mailbox a step leaves alone.      *)
LEMMA KnowledgeStays ==
  ASSUME NEW s \in Sessions, SessionInv(s), run[s].history \subseteq Messages,
         NewerType, NewerType', NewerGrows, \A n \in Calls : inputs[<<s, n>>] \subseteq Messages,
         run'[s] = run[s],
         \A n \in Calls : inputs'[<<s, n>>] = inputs[<<s, n>>],
         \A m \in Messages : SessionOf(m) = s =>
           \A st \in {"processing", "completed"} : status'[m] = st <=> status[m] = st
  PROVE  InputsAreWorked(s)' /\ HistoryIsRecent(s)' /\ KnowsEarlier(s)'
<1>2. InputsAreWorked(s)'
  BY DEF SessionInv, InputsAreWorked
<1>3. HistoryIsRecent(s)'
  <2> SUFFICES ASSUME run[s].stage = "claim" PROVE HistoryIsRecent(s)'
    BY DEF HistoryIsRecent
  <2>1. /\ \A m \in run[s].history : SessionOf(m) = s /\ status[m] = "completed"
        /\ \A m \in Messages \ run[s].history :
             SessionOf(m) = s /\ status[m] = "completed" => BeyondLimit(s, m)
    BY DEF SessionInv, HistoryIsRecent
  <2>2. ASSUME NEW m \in Messages \ run[s].history, SessionOf(m) = s, status[m] = "completed"
        PROVE  BeyondLimit(s, m)'
    BY <2>1, <2>2, BeyondStays DEF Worked
  <2> QED
    BY <2>1, <2>2 DEF HistoryIsRecent
<1>4. KnowsEarlier(s)'
  <2> SUFFICES ASSUME HasClaimed(s) PROVE KnowsEarlier(s)'
    BY DEF KnowsEarlier, HasClaimed
  <2>1. /\ \A m \in run[s].history :
             /\ SessionOf(m) = s /\ Worked(m)
             /\ \E n \in Calls : n < run[s].call /\ m \in inputs[<<s, n>>]
        /\ \A n \in Calls : n < run[s].call =>
             \A m \in inputs[<<s, n>>] \ run[s].history :
               SessionOf(m) = s /\ Worked(m) /\ (BeyondLimit(s, m) \/ status[m] = "processing")
    BY DEF SessionInv, KnowsEarlier
  <2>2. ASSUME NEW n \in Calls, n < run[s].call, NEW m \in inputs[<<s, n>>] \ run[s].history
        PROVE  SessionOf(m) = s /\ Worked(m)' /\ (BeyondLimit(s, m)' \/ status'[m] = "processing")
    <3>1. SessionOf(m) = s /\ Worked(m) /\ (BeyondLimit(s, m) \/ status[m] = "processing") /\ m \in Messages
      BY <2>1, <2>2
    <3> QED
      BY <2>1, <3>1, BeyondStays DEF Worked
  <2> QED
    BY <2>1, <2>2 DEF KnowsEarlier, Worked
<1> QED
  BY <1>2, <1>3, <1>4

LEMMA SessionStays ==
  ASSUME NEW s \in Sessions, SessionInv(s), run[s].history \subseteq Messages,
         NewerType, NewerType', NewerGrows, \A n \in Calls : inputs[<<s, n>>] \subseteq Messages,
         run'[s] = run[s], calls'[s] = calls[s], mailbox'[s] = mailbox[s],
         \A n \in Calls : inputs'[<<s, n>>] = inputs[<<s, n>>],
         \A m \in Messages : SessionOf(m) = s =>
           \A st \in {"processing", "completed"} : status'[m] = st <=> status[m] = st
  PROVE  SessionInv(s)'
<1>1. CallOrder(s)' /\ FutureIsEmpty(s)'
  BY DEF SessionInv, CallOrder, FutureIsEmpty, BeforeClaim
<1>2. InputsAreWorked(s)' /\ HistoryIsRecent(s)' /\ KnowsEarlier(s)'
  BY KnowledgeStays
<1> QED
  BY <1>1, <1>2 DEF SessionInv

(* What the debouncer does to the order of calls.                          *)
LEMMA PutInOrder ==
  ASSUME HistoryInv, NEW s \in Sessions, D!Put(s), UNCHANGED <<run, inputs>>
  PROVE  \A t \in Sessions : CallOrder(t)' /\ FutureIsEmpty(t)'
<1>1. /\ calls \in [Sessions -> 0..MaxCalls] /\ run \in [Sessions -> RunState]
      /\ mailbox \in [Sessions -> Calls \cup {NoValue}]
  BY DEF HistoryInv, IInv, DebouncerType, RunInv
<1>2. SUFFICES ASSUME NEW t \in Sessions PROVE CallOrder(t)' /\ FutureIsEmpty(t)'
  OBVIOUS
<1>3. CallOrder(t) /\ FutureIsEmpty(t) /\ run[t].call \in 0..MaxCalls
  BY <1>1 DEF HistoryInv, SessionInv, RunState
<1>4. CASE t # s
  BY <1>1, <1>3, <1>4 DEF D!Put, CallOrder, FutureIsEmpty, BeforeClaim
<1>5. CASE t = s
  <2>1. calls'[s] = calls[s] + 1 /\ mailbox'[s] = calls[s] + 1 /\ calls[s] \in Nat
    BY <1>1 DEF D!Put
  <2>2. CallOrder(s)'
    BY <1>3, <1>5, <2>1 DEF CallOrder
  <2>3. FutureIsEmpty(s)'
    BY <1>3, <1>5, <2>1 DEF FutureIsEmpty, BeforeClaim, Calls
  <2> QED
    BY <1>5, <2>2, <2>3
<1> QED
  BY <1>4, <1>5

(* The messages of the history, and of the inputs.                         *)
LEMMA HistoryTyped ==
  ASSUME HistoryInv, NEW s \in Sessions
  PROVE  /\ run[s].history \subseteq Messages
         /\ \A n \in Calls : inputs[<<s, n>>] \subseteq Messages
BY RunShape DEF HistoryInv, IInv, MessageInv, Runs, Calls

(* The steps that move no run, put together, and that of a crash.          *)
LEMMA QuietSteps ==
  ASSUME IInv, [Next]_vars, ~Crash, \A s \in Sessions : ~RunStep(s)
  PROVE  /\ UNCHANGED <<run, inputs>>
         /\ UNCHANGED debouncer \/ \E s \in Sessions : D!Put(s)
         /\ \/ UNCHANGED status
            \/ \E m \in Messages : status[m] = "absent" /\ status' = [status EXCEPT ![m] = "pending"]
<1>1. CASE \E m \in Messages : Server(m)
  BY <1>1, ServerBecomes DEF debouncer
<1>2. CASE DeliverTask
  <2>1. Head(tasks) \in Sessions
    BY <1>2, TailRange DEF DeliverTask, IInv, QueueInv
  <2> QED
    BY <1>2, <2>1 DEF DeliverTask
<1>3. CASE \E s \in Sessions : Persist(s)
  BY <1>3 DEF Persist, StoreReply, StoreReplyFails, debouncer
<1>4. CASE UNCHANGED vars
  BY <1>4 DEF vars, debouncer
<1>5. CASE Next
  BY <1>1, <1>2, <1>3, <1>5 DEF Next
<1> QED
  BY <1>4, <1>5

LEMMA HistoryOtherStep ==
  ASSUME HistoryInv, NewerType', NewerGrows, [Next]_vars, ~Crash, \A s \in Sessions : ~RunStep(s)
  PROVE  ClaimedIsInWork' /\ \A s \in Sessions : SessionInv(s)'
<1>1. /\ UNCHANGED <<run, inputs>>
      /\ UNCHANGED debouncer \/ \E s \in Sessions : D!Put(s)
      /\ \/ UNCHANGED status
         \/ \E m \in Messages : status[m] = "absent" /\ status' = [status EXCEPT ![m] = "pending"]
  BY QuietSteps DEF HistoryInv
<1>2. \A m \in Messages : \A st \in {"processing", "completed"} : status'[m] = st <=> status[m] = st
  BY <1>1 DEF HistoryInv, IInv, MessageInv
<1>3. ClaimedIsInWork'
  <2>1. \A s \in Sessions : run[s].claimed \subseteq Messages
    BY RunShape DEF HistoryInv
  <2> QED
    BY <1>1, <1>2, <2>1 DEF HistoryInv, ClaimedIsInWork, HasClaimed
<1>4. SUFFICES ASSUME NEW s \in Sessions PROVE SessionInv(s)'
  BY <1>3
<1>5. CASE UNCHANGED debouncer
  <2>1. calls' = calls /\ mailbox' = mailbox /\ SessionInv(s) /\ NewerType
    BY <1>5 DEF debouncer, HistoryInv
  <2> QED
    BY <1>1, <1>2, <2>1, HistoryTyped, SessionStays
<1>6. CASE \E t \in Sessions : D!Put(t)
  <2>1. CallOrder(s)' /\ FutureIsEmpty(s)'
    BY <1>1, <1>6, PutInOrder
  <2>2. SessionInv(s) /\ NewerType
    BY DEF HistoryInv
  <2>3. InputsAreWorked(s)' /\ HistoryIsRecent(s)' /\ KnowsEarlier(s)'
    BY <1>1, <1>2, <2>2, HistoryTyped, KnowledgeStays
  <2> QED
    BY <2>1, <2>3 DEF SessionInv
<1> QED
  BY <1>1, <1>5, <1>6

(* A crash leaves no run, and nothing that waits.                          *)
LEMMA HistoryCrash ==
  ASSUME HistoryInv, Crash
  PROVE  ClaimedIsInWork' /\ \A s \in Sessions : SessionInv(s)'
<1>1. /\ UNCHANGED <<status, inputs, calls>>
      /\ \A s \in Sessions : run'[s] = NoRun /\ mailbox'[s] = NoValue
  BY DEF Crash
<1>2. NoRun.stage = "none" /\ NoRun.call = 0
  BY DEF NoRun, FreshRun
<1>3. SUFFICES ASSUME NEW s \in Sessions PROVE ~HasClaimed(s)' /\ SessionInv(s)'
  BY DEF ClaimedIsInWork
<1>4. run'[s].stage = "none" /\ run'[s].call = 0 /\ mailbox'[s] = NoValue
  BY <1>1, <1>2
<1>5. calls[s] \in Nat /\ SessionInv(s)
  BY DEF HistoryInv, IInv, DebouncerType
<1>6. CallOrder(s)' /\ FutureIsEmpty(s)'
  BY <1>1, <1>4, <1>5 DEF SessionInv, CallOrder, FutureIsEmpty, BeforeClaim
<1>7. InputsAreWorked(s)' /\ HistoryIsRecent(s)' /\ KnowsEarlier(s)' /\ ~HasClaimed(s)'
  BY <1>1, <1>4, <1>5 DEF SessionInv, InputsAreWorked, HistoryIsRecent, KnowsEarlier, HasClaimed
<1> QED
  BY <1>6, <1>7 DEF SessionInv

(* What a step of a run leaves of the other sessions.                      *)
LEMMA OthersKeep ==
  ASSUME IInv, ClaimedIsInWork, NEW s \in Sessions, AnyKind(s), NEW t \in Sessions, t # s
  PROVE  /\ run'[t] = run[t] /\ calls'[t] = calls[t] /\ mailbox'[t] = mailbox[t]
         /\ \A n \in Calls : inputs'[<<t, n>>] = inputs[<<t, n>>]
         /\ \A m \in Messages : SessionOf(m) = t => status'[m] = status[m]
<1>1. run'[t] = run[t]
  BY DEF AnyKind, RunKinds, GivesUp, Advances, Starts, Loads, Claims, Completes, Ends, BecomesRecord, Becomes
<1>2. calls'[t] = calls[t] /\ mailbox'[t] = mailbox[t]
  BY DEF AnyKind, RunKinds, D!Serve, D!Complete, debouncer, IInv, DebouncerType
<1>3. \A n \in Calls : inputs'[<<t, n>>] = inputs[<<t, n>>]
  <2>1. inputs \in [Runs -> SUBSET Messages] /\ \A n \in Calls : <<t, n>> \in Runs
    BY DEF IInv, MessageInv, Runs, Calls
  <2>2. \A n \in Calls : <<t, n>> # <<s, run[s].call>>
    OBVIOUS
  <2> QED
    BY <2>1, <2>2 DEF AnyKind, RunKinds, Claims
<1>4. \A m \in Messages : SessionOf(m) = t => status'[m] = status[m]
  <2>1. CASE Claims(s)
    BY <2>1 DEF Claims, InStatus, Of
  <2>2. CASE Completes(s)
    BY <2>2 DEF Completes, ClaimedIsInWork, HasClaimed
  <2> QED
    BY <2>1, <2>2 DEF AnyKind, RunKinds
<1> QED
  BY <1>1, <1>2, <1>3, <1>4

LEMMA OthersStay ==
  ASSUME BatchInv, NEW s \in Sessions, RunKinds(s), NEW t \in Sessions, t # s
  PROVE  /\ run'[t] = run[t] /\ calls'[t] = calls[t] /\ mailbox'[t] = mailbox[t]
         /\ \A n \in Calls : inputs'[<<t, n>>] = inputs[<<t, n>>]
         /\ \A m \in Messages : SessionOf(m) = t => status'[m] = status[m]
<1>1. IInv /\ AnyKind(s)
  BY DEF BatchInv, AnyKind
<1>2. ClaimedIsInWork
  <2>1. \A x \in Sessions : run[x].claimed \subseteq Messages
    BY <1>1, RunShape
  <2> QED
    BY <2>1 DEF BatchInv, ProcessingIsClaimed, ClaimedIsInWork
<1> QED
  BY <1>1, <1>2, OthersKeep

(* From one stage to a later one, without a row.                           *)
LEMMA HistoryAdvances ==
  ASSUME NEW s \in Sessions, SessionInv(s), NEW g,
         BecomesRecord(s, g), g \notin {"load", "claim"}, run[s].stage # "none",
         HasClaimed(s)' => HasClaimed(s) /\ UNCHANGED status,
         UNCHANGED <<inputs, debouncer, newer>>,
         \A m \in Messages : SessionOf(m) = s =>
           (status'[m] \in {"processing", "completed"} <=> status[m] \in {"processing", "completed"})
  PROVE  SessionInv(s)'
<1>1. /\ run'[s].stage = g /\ run'[s].call = run[s].call /\ run'[s].history = run[s].history
      /\ calls' = calls /\ mailbox' = mailbox /\ inputs' = inputs
  BY DEF BecomesRecord, Becomes, debouncer
<1>2. CallOrder(s)' /\ FutureIsEmpty(s)'
  BY <1>1 DEF SessionInv, CallOrder, FutureIsEmpty, BeforeClaim
<1>3. InputsAreWorked(s)' /\ HistoryIsRecent(s)'
  BY <1>1 DEF SessionInv, InputsAreWorked, HistoryIsRecent
<1>4. KnowsEarlier(s)'
  BY <1>1 DEF SessionInv, KnowsEarlier, Worked, BeyondLimit
<1> QED
  BY <1>2, <1>3, <1>4 DEF SessionInv

LEMMA HistoryStarts ==
  ASSUME HistoryInv, NEW s \in Sessions, Starts(s), D!Serve(s), UNCHANGED <<status, inputs>>
  PROVE  SessionInv(s)'
<1>1. /\ run'[s].stage = "load" /\ run'[s].call = mailbox[s]
      /\ mailbox[s] \in Calls /\ mailbox[s] # NoValue
  BY DEF Starts, Becomes, D!Serve
<1>2. mailbox'[s] = NoValue /\ calls' = calls
  BY DEF D!Serve, HistoryInv, IInv, DebouncerType
<1>3. SessionInv(s) /\ calls[s] \in Nat
  BY DEF HistoryInv, IInv, DebouncerType
<1>4. CallOrder(s)' /\ FutureIsEmpty(s)'
  BY <1>1, <1>2, <1>3 DEF SessionInv, CallOrder, FutureIsEmpty, BeforeClaim, Calls
<1>5. InputsAreWorked(s)' /\ HistoryIsRecent(s)' /\ KnowsEarlier(s)'
  BY <1>1, <1>3 DEF SessionInv, InputsAreWorked, HistoryIsRecent, KnowsEarlier, HasClaimed
<1> QED
  BY <1>4, <1>5 DEF SessionInv

LEMMA HistoryLoads ==
  ASSUME HistoryInv, NEW s \in Sessions, Loads(s), UNCHANGED <<status, inputs, debouncer, newer>>
  PROVE  SessionInv(s)'
<1>1. /\ run[s].stage = "load" /\ run'[s].stage = "claim" /\ run'[s].call = run[s].call
      /\ run'[s].history = {m \in Recent(s) : status[m] = "completed"}
      /\ calls' = calls /\ mailbox' = mailbox /\ SessionInv(s)
  BY DEF Loads, Becomes, debouncer, HistoryInv
<1>2. CallOrder(s)' /\ FutureIsEmpty(s)'
  BY <1>1 DEF SessionInv, CallOrder, FutureIsEmpty, BeforeClaim
<1>3. HistoryIsRecent(s)'
  <2>1. \A m \in Messages :
          m \in run'[s].history <=> SessionOf(m) = s /\ status[m] = "completed" /\ newer[m] < HistoryLimit
    BY <1>1 DEF Recent, Of
  <2>2. run'[s].history \subseteq Messages
    BY <1>1 DEF Recent, Of
  <2>3. \A m \in Messages : newer[m] \in Nat
    BY DEF HistoryInv, NewerType
  <2>4. ASSUME NEW m \in Messages \ run'[s].history, SessionOf(m) = s, status[m] = "completed"
        PROVE  newer[m] >= HistoryLimit /\ \A h \in run'[s].history : newer[h] < newer[m]
    BY <2>1, <2>2, <2>3, <2>4, PipelineAssumption
  <2> QED
    BY <2>1, <2>2, <2>4 DEF HistoryIsRecent, BeyondLimit
<1>4. InputsAreWorked(s)' /\ KnowsEarlier(s)'
  BY <1>1 DEF SessionInv, InputsAreWorked, KnowsEarlier, HasClaimed
<1> QED
  BY <1>2, <1>3, <1>4 DEF SessionInv

BeyondStill(s) == \A m \in Messages : BeyondLimit(s, m) => BeyondLimit(s, m)'

(* The claim: what was worked on is what the earlier runs were given, and  *)
(* what of it is completed was so when the history was loaded.             *)
LEMMA HistoryClaims ==
  ASSUME HistoryInv, NEW s \in Sessions, Claims(s), UNCHANGED <<debouncer, newer>>
  PROVE  SessionInv(s)'
<1> DEFINE mine == InStatus(s, "pending")
           c == run[s].call
<1>1. \A m \in Messages : m \in mine <=> SessionOf(m) = s /\ status[m] = "pending"
  BY DEF InStatus, Of
<1>2. /\ run[s].stage = "claim" /\ run'[s].stage = StageAfterClaim(mine)
      /\ run'[s].call = c /\ run'[s].history = run[s].history
      /\ status' = [m \in Messages |-> IF m \in mine THEN "processing" ELSE status[m]]
      /\ inputs' = [inputs EXCEPT ![<<s, c>>] = @ \cup mine]
      /\ calls' = calls /\ mailbox' = mailbox /\ SessionInv(s)
  BY DEF Claims, Becomes, debouncer, HistoryInv
<1>3. c \in Calls /\ StageAfterClaim(mine) \in {"end", "agent"}
  BY <1>2 DEF HistoryInv, IInv, RunInv, RunIsNamed, StageAfterClaim
<1>4. status \in [Messages -> {"absent", "pending", "processing", "completed"}]
  BY DEF HistoryInv, IInv, MessageInv
<1>5. run[s].history \subseteq Messages /\ \A n \in Calls : inputs[<<s, n>>] \subseteq Messages
  BY HistoryTyped
<1> HIDE DEF mine, c
<1>6. \A n \in Calls : inputs'[<<s, n>>] = IF n = c THEN inputs[<<s, n>>] \cup mine ELSE inputs[<<s, n>>]
  <2>1. inputs \in [Runs -> SUBSET Messages] /\ \A n \in Calls : <<s, n>> \in Runs
    BY DEF HistoryInv, IInv, MessageInv, Runs, Calls
  <2>2. \A n \in Calls : <<s, n>> = <<s, c>> <=> n = c
    OBVIOUS
  <2> QED
    BY <1>2, <2>1, <2>2
<1>7. CallOrder(s)'
  BY <1>2 DEF c, SessionInv, CallOrder
<1>8. FutureIsEmpty(s)'
  BY <1>2, <1>3, <1>6 DEF c, SessionInv, CallOrder, FutureIsEmpty, BeforeClaim, Calls
<1>9. InputsAreWorked(s)'
  <2> SUFFICES ASSUME NEW m \in Messages
               PROVE  SessionOf(m) = s /\ status'[m] \in {"processing", "completed"} <=>
                        \E n \in Calls : m \in inputs'[<<s, n>>]
    BY DEF InputsAreWorked
  <2>1. SessionOf(m) = s /\ status[m] \in {"processing", "completed"} <=>
          \E n \in Calls : m \in inputs[<<s, n>>]
    BY <1>2 DEF SessionInv, InputsAreWorked
  <2>2. CASE m \in mine
    <3>1. SessionOf(m) = s /\ status'[m] = "processing"
      BY <1>1, <1>2, <2>2
    <3>2. m \in inputs'[<<s, c>>]
      BY <1>3, <1>6, <2>2
    <3> QED
      BY <1>3, <3>1, <3>2
  <2>3. CASE m \notin mine
    BY <1>2, <1>6, <2>1, <2>3
  <2> QED
    BY <2>2, <2>3
<1>10. KnowsEarlier(s)'
  <2>1. \A n \in Calls : n < c => inputs'[<<s, n>>] = inputs[<<s, n>>]
    <3>1. \A n \in Calls : n < c => n # c
      BY <1>3 DEF Calls
    <3> QED
      BY <1>6, <3>1
  <2>2. /\ \A m \in run[s].history : SessionOf(m) = s /\ status[m] = "completed"
        /\ \A m \in Messages \ run[s].history :
             SessionOf(m) = s /\ status[m] = "completed" => BeyondLimit(s, m)
    BY <1>2 DEF SessionInv, HistoryIsRecent
  <2>3. \A m \in Messages : status[m] # "pending" => status'[m] = status[m]
    BY <1>1, <1>2
  <2>4. BeyondStill(s)
    BY <1>2 DEF BeyondStill, BeyondLimit
  <2>5. ASSUME NEW m \in run'[s].history
        PROVE  /\ SessionOf(m) = s /\ Worked(m)'
               /\ \E n \in Calls : n < run'[s].call /\ m \in inputs'[<<s, n>>]
    <3>1. m \in Messages /\ SessionOf(m) = s /\ status[m] = "completed" /\ status'[m] = "completed"
      BY <1>2, <1>5, <2>2, <2>3
    <3>2. PICK n \in Calls : m \in inputs[<<s, n>>]
      BY <1>2, <3>1 DEF SessionInv, InputsAreWorked
    <3>3. n < c
      BY <1>2, <3>2 DEF c, SessionInv, FutureIsEmpty, BeforeClaim
    <3> QED
      BY <1>2, <2>1, <3>1, <3>2, <3>3 DEF Worked
  <2>6. ASSUME NEW n \in Calls, n < run'[s].call, NEW m \in inputs'[<<s, n>>] \ run'[s].history
        PROVE  SessionOf(m) = s /\ Worked(m)' /\ (BeyondLimit(s, m)' \/ status'[m] = "processing")
    <3>1. m \in inputs[<<s, n>>] /\ m \in Messages /\ m \notin run[s].history
      BY <1>2, <1>5, <2>1, <2>6
    <3>2. SessionOf(m) = s /\ status[m] \in {"processing", "completed"}
      BY <1>2, <3>1 DEF SessionInv, InputsAreWorked
    <3>3. status'[m] = status[m]
      BY <2>3, <3>1, <3>2
    <3>4. status[m] = "completed" => BeyondLimit(s, m)'
      BY <2>2, <2>4, <3>1, <3>2 DEF BeyondStill
    <3> QED
      BY <3>2, <3>3, <3>4 DEF Worked
  <2> QED
    BY <2>5, <2>6 DEF KnowsEarlier
<1>11. HistoryIsRecent(s)'
  BY <1>2, <1>3 DEF HistoryIsRecent
<1> QED
  BY <1>7, <1>8, <1>9, <1>10, <1>11 DEF SessionInv

LEMMA HistoryEnds ==
  ASSUME HistoryInv, NEW s \in Sessions, Ends(s), D!Complete(s), UNCHANGED <<status, inputs>>
  PROVE  SessionInv(s)'
<1>1. /\ run'[s].stage = "none" /\ run'[s].call = 0 /\ run[s].call \in Calls
      /\ calls' = calls /\ mailbox' = mailbox /\ SessionInv(s)
  BY DEF Ends, Becomes, D!Complete, HistoryInv, IInv, RunInv, RunIsNamed
<1>2. CallOrder(s)' /\ FutureIsEmpty(s)'
  <2>1. calls[s] \in Nat /\ mailbox[s] \in Calls \cup {NoValue}
    BY DEF HistoryInv, IInv, DebouncerType
  <2> QED
    BY <1>1, <2>1 DEF SessionInv, CallOrder, FutureIsEmpty, BeforeClaim, Calls
<1>3. InputsAreWorked(s)' /\ HistoryIsRecent(s)' /\ KnowsEarlier(s)'
  BY <1>1 DEF SessionInv, InputsAreWorked, HistoryIsRecent, KnowsEarlier, HasClaimed
<1> QED
  BY <1>2, <1>3 DEF SessionInv

LEMMA HistoryRunStep ==
  ASSUME HistoryInv, NewerType', NewerGrows, NEW s \in Sessions, AnyKind(s), UNCHANGED newer
  PROVE  \A t \in Sessions : SessionInv(t)'
<1>1. SUFFICES ASSUME NEW t \in Sessions PROVE SessionInv(t)'
  OBVIOUS
<1>2. IInv /\ NewerType /\ ClaimedIsInWork /\ SessionInv(s) /\ SessionInv(t)
  BY DEF HistoryInv
<1>3. CASE t # s
  BY <1>2, <1>3, OthersKeep, HistoryTyped, SessionStays
<1>4. CASE Advances(s) /\ UNCHANGED <<status, inputs, debouncer>>
  <2>1. PICK g \in {"emit", "unwind", "learn", "complete", "end"} :
          BecomesRecord(s, g) /\ run[s].stage \in {"agent", "emit", "learn", "report"}
          /\ (g = "end" <=> run[s].stage = "report")
    BY <1>4 DEF Advances
  <2>2. HasClaimed(s)' => HasClaimed(s) /\ UNCHANGED status
    BY <1>4, <2>1 DEF BecomesRecord, Becomes, HasClaimed
  <2> QED
    BY <1>2, <1>3, <1>4, <2>1, <2>2, HistoryAdvances
<1>5. CASE Completes(s) /\ UNCHANGED <<inputs, debouncer>>
  <2>1. PICK g \in {"end", "report"} :
          BecomesRecord(s, g) /\ run[s].stage \in {"complete", "unwind"}
    BY <1>5 DEF Completes
  <2>2. \A m \in Messages :
          status'[m] \in {"processing", "completed"} <=> status[m] \in {"processing", "completed"}
    BY <1>2, <1>5 DEF Completes, ClaimedIsInWork, HasClaimed
  <2>3. ~HasClaimed(s)'
    BY <2>1 DEF BecomesRecord, Becomes, HasClaimed
  <2> QED
    BY <1>2, <1>3, <1>5, <2>1, <2>2, <2>3, HistoryAdvances
<1>6. CASE GivesUp(s) /\ UNCHANGED <<status, inputs, debouncer>>
  <2>1. PICK g \in {"end", "report"} :
          BecomesRecord(s, g) /\ run[s].stage \in {"load", "claim", "complete", "unwind"}
    BY <1>6 DEF GivesUp
  <2>2. ~HasClaimed(s)'
    BY <2>1 DEF BecomesRecord, Becomes, HasClaimed
  <2> QED
    BY <1>2, <1>3, <1>6, <2>1, <2>2, HistoryAdvances
<1> QED
  BY <1>3, <1>4, <1>5, <1>6, HistoryStarts, HistoryLoads, HistoryClaims, HistoryEnds DEF AnyKind, RunKinds

(* Work that a run holds is its own, before and after each of its steps.   *)
LEMMA InWorkStep ==
  ASSUME HistoryInv, NEW s \in Sessions, AnyKind(s)
  PROVE  ClaimedIsInWork'
<1>1. SUFFICES ASSUME NEW t \in Sessions, HasClaimed(t)', NEW m \in run'[t].claimed
               PROVE  SessionOf(m) = t /\ status'[m] = "processing"
  BY DEF ClaimedIsInWork
<1>2. IInv /\ ClaimedIsInWork /\ run[t].claimed \subseteq Messages
  BY RunShape DEF HistoryInv
<1>3. CASE t # s
  <2>1. run'[t] = run[t] /\ \A x \in Messages : SessionOf(x) = t => status'[x] = status[x]
    BY <1>2, <1>3, OthersKeep
  <2> QED
    BY <1>1, <1>2, <2>1 DEF ClaimedIsInWork, HasClaimed
<1>4. CASE t = s
  <2>1. CASE Claims(s)
    <3>1. run'[s].claimed = InStatus(s, "pending")
          /\ status' = [x \in Messages |-> IF x \in InStatus(s, "pending") THEN "processing" ELSE status[x]]
      BY <2>1 DEF Claims, Becomes
    <3> QED
      BY <1>1, <1>4, <3>1 DEF InStatus, Of
  <2>2. CASE Advances(s) /\ UNCHANGED status
    BY <1>1, <1>2, <1>4, <2>2 DEF Advances, BecomesRecord, Becomes, HasClaimed, ClaimedIsInWork
  <2>3. CASE Starts(s) \/ Loads(s) \/ Completes(s) \/ Ends(s) \/ GivesUp(s)
    BY <1>1, <1>4, <2>3 DEF Starts, Loads, Completes, Ends, GivesUp, BecomesRecord, Becomes, HasClaimed
  <2> QED
    BY <2>1, <2>2, <2>3 DEF AnyKind, RunKinds
<1> QED
  BY <1>3, <1>4

LEMMA HistoryStep == HistoryInv /\ [Next]_vars => HistoryInv'
<1> SUFFICES ASSUME HistoryInv, [Next]_vars PROVE HistoryInv'
  OBVIOUS
<1>1. IInv /\ NewerType
  BY DEF HistoryInv
<1>2. IInv' /\ NewerType' /\ NewerGrows
  BY <1>1, NextHolds, NewerStep
<1>3. ASSUME NEW s \in Sessions, RunStep(s)
      PROVE  ClaimedIsInWork' /\ \A t \in Sessions : SessionInv(t)'
  <2>1. AnyKind(s) /\ UNCHANGED newer
    BY <1>1, <1>3, AnyStepKind
  <2> QED
    BY <1>2, <2>1, HistoryRunStep, InWorkStep
<1>4. ClaimedIsInWork' /\ \A t \in Sessions : SessionInv(t)'
  BY <1>2, <1>3, HistoryOtherStep, HistoryCrash
<1> QED
  BY <1>2, <1>4 DEF HistoryInv

LEMMA HistoryIsImplied == HistoryInv => HistoryIsEarlierInput
<1> SUFFICES ASSUME HistoryInv, NEW s \in Sessions, HasClaimed(s)
             PROVE  /\ run[s].history \subseteq EarlierInput(s)
                    /\ \A m \in EarlierInput(s) \ run[s].history :
                         BeyondLimit(s, m) \/ status[m] = "processing"
  BY DEF HistoryIsEarlierInput
<1>1. KnowsEarlier(s) /\ run[s].call \in Calls
  BY DEF HistoryInv, SessionInv, HasClaimed, IInv, RunInv, RunIsNamed
<1>2. 1..(run[s].call - 1) = {n \in Calls : n < run[s].call}
  <2> DEFINE c == run[s].call
  <2>1. c \in 1..MaxCalls
    BY <1>1 DEF Calls
  <2> HIDE DEF c
  <2>2. 1..(c - 1) = {n \in 1..MaxCalls : n < c}
    BY <2>1, PipelineAssumption
  <2> QED
    BY <2>2 DEF c, Calls
<1>3. \A m : m \in EarlierInput(s) <=> \E n \in Calls : n < run[s].call /\ m \in inputs[<<s, n>>]
  BY <1>2 DEF EarlierInput
<1> QED
  BY <1>1, <1>3 DEF KnowsEarlier

(* Whatever is delivered again, whatever statement fails and wherever the  *)
(* worker dies: of the user's messages a run that has claimed knows as     *)
(* history the input of the earlier runs of its session and nothing of its *)
(* own (GetRecentSessionMessages before ClaimSessionMessagesByStatus). An  *)
(* earlier input it does not know has as many rows after it as the limit   *)
(* of the history allows, or was never completed.                          *)
THEOREM RunsKnowEarlierInput == SafeSpec => []HistoryIsEarlierInput
  BY HistoryInit, HistoryStep, HistoryIsImplied, PTL DEF SafeSpec

-----------------------------------------------------------------------------
(* Nothing is forgotten.                                                   *)

Told(r) == \E e \in Range(terminal[r[1]]) \cup Range(replies[r[1]]) : e.run = r

(* A run that was given messages has reported, or will.                    *)
AnswersCome ==
  \A s \in Sessions : \A n \in Calls : inputs[<<s, n>>] # {} =>
    \/ run[s].call = n /\ run[s].stage \in {"agent", "emit", "unwind", "report"}
    \/ Told(<<s, n>>)

RememberInv == BatchInv /\ HistoryInv /\ PendingHasTrigger /\ AnswersCome

(* A queue loses only its head.                                            *)
LEMMA TailKeeps ==
  ASSUME NEW S, NEW q \in Seq(S), q # <<>>, NEW x \in Range(q), x # Head(q)
  PROVE  x \in Range(Tail(q))
<1>1. PICK i \in 1..Len(q) : q[i] = x
  BY DEF Range
<1>2. Len(q) \in Nat /\ i # 1
  BY <1>1
<1>3. i - 1 \in 1..Len(Tail(q)) /\ Tail(q)[i - 1] = q[i] /\ DOMAIN Tail(q) = 1..Len(Tail(q))
  BY <1>1, <1>2
<1> QED
  BY <1>1, <1>3 DEF Range

(* Where the subject has room, a task joins the others.                    *)
LEMMA EnqueueKeeps ==
  ASSUME IInv, HasRoom, NEW s \in Sessions
  PROVE  Range(Enqueue(s)) = Range(tasks) \cup {s}
<1>1. tasks \in Seq(Sessions) /\ Len(tasks) # QueueLimit
  BY PipelineAssumption DEF IInv, QueueInv, HasRoom
<1>2. Enqueue(s) = Append(tasks, s)
  BY <1>1 DEF Enqueue
<1> QED
  BY <1>1, <1>2, AppendRange

LEMMA TriggerServer ==
  ASSUME RememberInv, HasRoom, NEW m \in Messages, Server(m)
  PROVE  PendingHasTrigger'
<1>1. IInv /\ UNCHANGED <<debouncer, run>>
  BY ServerBecomes DEF RememberInv, HistoryInv, BatchInv
<1>2. /\ request \in [Messages -> {"unsent", "stored", "accepted", "parked", "refused"}]
      /\ status \in [Messages -> {"absent", "pending", "processing", "completed"}]
      /\ SessionOf(m) \in Sessions
  BY <1>1, PipelineAssumption DEF IInv, QueueInv, MessageInv
<1>3. CASE StoreMessage(m)
  BY <1>1, <1>2, <1>3 DEF StoreMessage, RememberInv, PendingHasTrigger, broker, debouncer, BeforeClaim
<1>4. CASE PublishTask(m)
  <2>1. Range(tasks') = Range(tasks) \cup {SessionOf(m)}
    BY <1>1, <1>2, <1>4, EnqueueKeeps DEF PublishTask
  <2>2. \A x \in Messages : x # m => request'[x] = request[x]
    BY <1>2, <1>4 DEF PublishTask
  <2>3. status' = status
    BY <1>4 DEF PublishTask
  <2> QED
    BY <1>1, <2>1, <2>2, <2>3 DEF RememberInv, PendingHasTrigger, debouncer, BeforeClaim
<1>5. CASE SkipTask(m) \/ PublishTaskFails(m)
  BY <1>1, <1>2, <1>5 DEF SkipTask, PublishTaskFails, RememberInv, PendingHasTrigger, broker,
     debouncer, BeforeClaim
<1> QED
  BY <1>3, <1>4, <1>5 DEF Server

LEMMA TriggerDeliver ==
  ASSUME RememberInv, DeliverTask
  PROVE  PendingHasTrigger'
<1>1. /\ tasks \in Seq(Sessions) /\ tasks # <<>>
      /\ calls \in [Sessions -> 0..MaxCalls] /\ mailbox \in [Sessions -> Calls \cup {NoValue}]
  BY DEF DeliverTask, RememberInv, HistoryInv, BatchInv, IInv, QueueInv, DebouncerType
<1> DEFINE h == Head(tasks)
           rest == Tail(tasks)
<1>2. h \in Sessions /\ rest \in Seq(Sessions) /\ \A x \in Range(tasks) : x # h => x \in Range(rest)
  BY <1>1, TailRange, TailKeeps
<1> HIDE DEF h, rest
<1>3. tasks' = rest \/ tasks' = Append(rest, h)
  BY DEF DeliverTask, h, rest
<1>4. Range(rest) \subseteq Range(tasks')
  <2>1. Range(Append(rest, h)) = Range(rest) \cup {h}
    BY <1>2, AppendRange
  <2>2. tasks' = rest => Range(tasks') = Range(rest)
    OBVIOUS
  <2>3. tasks' = Append(rest, h) => Range(tasks') = Range(rest) \cup {h}
    BY <2>1
  <2> QED
    BY <1>3, <2>2, <2>3
<1>5. D!Put(h) /\ UNCHANGED <<status, request, run>>
  BY DEF DeliverTask, h
<1>6. mailbox'[h] # NoValue /\ \A x \in Sessions : mailbox[x] # NoValue => mailbox'[x] # NoValue
  BY <1>1, <1>2, <1>5, PipelineAssumption DEF D!Put
<1>7. SUFFICES ASSUME NEW m \in Messages, request'[m] = "accepted", status'[m] = "pending"
               PROVE  SessionOf(m) \in Range(tasks') \/ mailbox'[SessionOf(m)] # NoValue
                        \/ BeforeClaim(SessionOf(m))'
  BY DEF PendingHasTrigger
<1>8. SessionOf(m) \in Range(tasks) \/ mailbox[SessionOf(m)] # NoValue \/ BeforeClaim(SessionOf(m))
  BY <1>5, <1>7 DEF RememberInv, PendingHasTrigger
<1> QED
  BY <1>2, <1>4, <1>5, <1>6, <1>8, PipelineAssumption DEF BeforeClaim

LEMMA TriggerRunStep ==
  ASSUME Steady, RememberInv, NEW s \in Sessions, RunStep(s)
  PROVE  PendingHasTrigger'
<1>1. RunKinds(s) /\ UNCHANGED <<request, tasks>> /\ BatchInv
  BY RunStepKind DEF RememberInv, HistoryInv, BatchInv
<1>2. SUFFICES ASSUME NEW m \in Messages, request'[m] = "accepted", status'[m] = "pending"
               PROVE  SessionOf(m) \in Range(tasks') \/ mailbox'[SessionOf(m)] # NoValue
                        \/ BeforeClaim(SessionOf(m))'
  BY DEF PendingHasTrigger
<1>3. SessionOf(m) \in Sessions /\ (SessionOf(m) # s => status'[m] = status[m])
  BY <1>1, OthersStay, PipelineAssumption
<1>4. ASSUME status[m] = "pending"
      PROVE  SessionOf(m) \in Range(tasks) \/ mailbox[SessionOf(m)] # NoValue \/ BeforeClaim(SessionOf(m))
  BY <1>1, <1>2, <1>4 DEF RememberInv, PendingHasTrigger
<1>5. CASE SessionOf(m) # s
  BY <1>1, <1>3, <1>4, <1>2, <1>5, OthersStay DEF BeforeClaim
<1>6. CASE SessionOf(m) = s
  <2>1. CASE Starts(s)
    BY <1>6, <2>1 DEF Starts, Becomes, BeforeClaim
  <2>2. CASE Loads(s)
    BY <1>6, <2>2 DEF Loads, Becomes, BeforeClaim
  <2>3. CASE Claims(s)
    BY <1>2, <1>6, <2>3 DEF Claims, InStatus, Of
  <2>4. CASE Completes(s) /\ UNCHANGED debouncer
    <3>1. status[m] = "pending" /\ ~BeforeClaim(s)
      BY <1>2, <2>4 DEF Completes, BeforeClaim
    <3> QED
      BY <1>1, <1>4, <1>6, <2>4, <3>1 DEF debouncer
  <2>5. CASE Advances(s) /\ UNCHANGED <<status, debouncer>>
    <3>1. ~BeforeClaim(s)
      BY <2>5 DEF Advances, BeforeClaim
    <3> QED
      BY <1>1, <1>2, <1>4, <1>6, <2>5, <3>1 DEF debouncer
  <2>6. CASE Ends(s) /\ D!Complete(s) /\ UNCHANGED status
    <3>1. ~BeforeClaim(s) /\ mailbox' = mailbox
      BY <2>6 DEF Ends, BeforeClaim, D!Complete
    <3> QED
      BY <1>1, <1>2, <1>4, <1>6, <2>6, <3>1
  <2> QED
    BY <1>1, <2>1, <2>2, <2>3, <2>4, <2>5, <2>6 DEF RunKinds
<1> QED
  BY <1>5, <1>6

LEMMA TriggerStep ==
  ASSUME Steady, RememberInv, HasRoom, [Next]_vars
  PROVE  PendingHasTrigger'
<1>1. CASE \E s \in Sessions : Persist(s)
  BY <1>1 DEF Persist, StoreReply, StoreReplyFails, debouncer, RememberInv, PendingHasTrigger, BeforeClaim
<1>2. CASE UNCHANGED vars
  BY <1>2 DEF vars, RememberInv, PendingHasTrigger, BeforeClaim
<1>3. ~Crash
  BY DEF Steady, Crash, Fault
<1> QED
  BY <1>1, <1>2, <1>3, TriggerServer, TriggerDeliver, TriggerRunStep DEF Next

(* The terminal event of a run is published when the run has returned and  *)
(* when it reports a failure, and by no other step of it.                  *)
LEMMA TerminalBecomes ==
  ASSUME Steady, Published, BatchInv, NEW s \in Sessions, RunStep(s)
  PROVE  /\ UNCHANGED replies
         /\ run[s].stage \in {"emit", "report"} =>
              \E e \in Event : e.run = RunOf(s) /\ terminal' = [terminal EXCEPT ![s] = Append(@, e)]
         /\ run[s].stage \notin {"emit", "report"} => UNCHANGED terminal
<1>1. ~PrepareFails(s)
  BY DEF Steady, PrepareFails, Fault
<1>2. CASE EmitTerminal(s) \/ ReportFailure(s)
  <2>1. run[s].stage \in {"emit", "report"} /\ SendTerminal(s) /\ UNCHANGED replies
    BY <1>2 DEF EmitTerminal, ReportFailure, AtStage
  <2>2. RunOf(s) \in Runs /\ run[s].outcome \in Outcomes
    BY <2>1, RunShape DEF RunOf, Runs, BatchInv, IInv, RunInv, RunIsNamed, Calls
  <2> DEFINE e == [run |-> RunOf(s), outcome |-> run[s].outcome]
  <2>3. e \in Event /\ e.run = RunOf(s)
    BY <2>2 DEF Event
  <2>4. terminal' = [terminal EXCEPT ![s] = Append(@, e)]
    BY <2>1 DEF SendTerminal, Published, Fault, RunOf
  <2> HIDE DEF e
  <2> QED
    BY <2>1, <2>3, <2>4
<1>3. CASE StartRun(s)
  <2>1. run[s].stage = "none"
    BY <1>3 DEF StartRun, D!Serve, BatchInv, HandIsRun
  <2> QED
    BY <1>3, <2>1 DEF StartRun, broker
<1>4. CASE \/ LoadHistory(s) \/ Claim(s) \/ AgentReturns(s) \/ AgentPanics(s)
           \/ Learn(s) \/ LearnPanics(s) \/ CompleteClaimed(s) \/ EndRun(s)
  <2>1. UNCHANGED <<terminal, replies>> /\ run[s].stage \notin {"emit", "report"}
    BY <1>4 DEF LoadHistory, Claim, ClaimAndGo, AgentReturns, AgentPanics, Learn, LearnPanics,
       CompleteClaimed, EndRun, AtStage, broker
  <2> QED
    BY <2>1
<1> QED
  BY <1>1, <1>2, <1>3, <1>4 DEF RunStep

(* An event that was sent is not lost between the worker and the reply.    *)
LEMMA TellingStays ==
  ASSUME IInv, NEW s \in Sessions,
         \/ UNCHANGED <<terminal, replies>>
         \/ \E e \in Event :
              /\ terminal' = [terminal EXCEPT ![s] = Append(@, e)]
              /\ UNCHANGED replies
         \/ /\ terminal[s] # <<>>
            /\ replies' = [replies EXCEPT ![s] = Append(@, Head(terminal[s]))]
            /\ \/ terminal' = [terminal EXCEPT ![s] = Tail(@)]
               \/ terminal' = [terminal EXCEPT ![s] = Append(Tail(@), Head(@))],
         NEW t \in Sessions
  PROVE  Range(terminal[t]) \cup Range(replies[t]) \subseteq Range(terminal'[t]) \cup Range(replies'[t])
<1>1. terminal \in [Sessions -> Seq(Event)] /\ replies \in [Sessions -> Seq(Event)]
  BY DEF IInv, EventInv
<1>2. CASE t # s \/ UNCHANGED <<terminal, replies>>
  <2>1. terminal'[t] = terminal[t] /\ replies'[t] = replies[t]
    BY <1>1, <1>2
  <2> QED
    BY <2>1
<1>3. ASSUME t = s, NEW e \in Event, terminal' = [terminal EXCEPT ![s] = Append(@, e)], UNCHANGED replies
      PROVE  Range(terminal[t]) \cup Range(replies[t]) \subseteq Range(terminal'[t]) \cup Range(replies'[t])
  <2>1. terminal'[t] = Append(terminal[t], e) /\ replies'[t] = replies[t] /\ terminal[t] \in Seq(Event)
    BY <1>1, <1>3
  <2>2. Range(Append(terminal[t], e)) = Range(terminal[t]) \cup {e}
    BY <2>1, AppendRange
  <2>3. Range(terminal'[t]) = Range(terminal[t]) \cup {e}
    BY <2>1, <2>2
  <2> QED
    BY <2>1, <2>3
<1>4. CASE /\ t = s
           /\ terminal[s] # <<>>
           /\ replies' = [replies EXCEPT ![s] = Append(@, Head(terminal[s]))]
           /\ \/ terminal' = [terminal EXCEPT ![s] = Tail(@)]
              \/ terminal' = [terminal EXCEPT ![s] = Append(Tail(@), Head(@))]
  <2> DEFINE q == terminal[s]
             h == Head(q)
             rest == Tail(q)
  <2>1. q \in Seq(Event) /\ replies[s] \in Seq(Event) /\ q # <<>>
    BY <1>1, <1>4
  <2>2. h \in Event /\ rest \in Seq(Event) /\ \A x \in Range(q) : x # h => x \in Range(rest)
    BY <2>1, TailRange, TailKeeps
  <2>3. replies'[s] = Append(replies[s], h) /\ (terminal'[s] = rest \/ terminal'[s] = Append(rest, h))
    BY <1>1, <1>4
  <2> HIDE DEF q, h, rest
  <2>4. /\ Range(Append(replies[s], h)) = Range(replies[s]) \cup {h}
        /\ Range(Append(rest, h)) = Range(rest) \cup {h}
    BY <2>1, <2>2, AppendRange
  <2>5. Range(replies'[s]) = Range(replies[s]) \cup {h}
    BY <2>3, <2>4
  <2>6. Range(rest) \subseteq Range(terminal'[s])
    <3>1. terminal'[s] = rest => Range(terminal'[s]) = Range(rest)
      OBVIOUS
    <3>2. terminal'[s] = Append(rest, h) => Range(terminal'[s]) = Range(rest) \cup {h}
      BY <2>4
    <3> QED
      BY <2>3, <3>1, <3>2
  <2>7. Range(q) \subseteq Range(rest) \cup {h}
    BY <2>2
  <2>8. Range(terminal[s]) = Range(q)
    BY DEF q
  <2>9. Range(terminal[t]) = Range(terminal[s]) /\ Range(replies[t]) = Range(replies[s])
        /\ Range(terminal'[t]) = Range(terminal'[s]) /\ Range(replies'[t]) = Range(replies'[s])
    BY <1>4
  <2> HIDE DEF Range
  <2> QED
    BY <2>5, <2>6, <2>7, <2>8, <2>9
<1> QED
  BY <1>2, <1>3, <1>4

LEMMA ToldStays ==
  ASSUME Steady, Published, BatchInv, [Next]_vars
  PROVE  \A t \in Sessions :
           Range(terminal[t]) \cup Range(replies[t]) \subseteq Range(terminal'[t]) \cup Range(replies'[t])
<1>1. IInv /\ ~Crash
  BY DEF BatchInv, Steady, Crash, Fault
<1>2. CASE UNCHANGED <<terminal, replies>>
  BY <1>2
<1>3. ASSUME NEW s \in Sessions, RunStep(s)
      PROVE  UNCHANGED <<terminal, replies>> \/
             \E e \in Event : terminal' = [terminal EXCEPT ![s] = Append(@, e)] /\ UNCHANGED replies
  BY <1>3, TerminalBecomes
<1>4. ASSUME NEW s \in Sessions, Persist(s)
      PROVE  /\ terminal[s] # <<>>
             /\ replies' = [replies EXCEPT ![s] = Append(@, Head(terminal[s]))]
             /\ \/ terminal' = [terminal EXCEPT ![s] = Tail(@)]
                \/ terminal' = [terminal EXCEPT ![s] = Append(Tail(@), Head(@))]
  BY <1>4 DEF Persist, StoreReply, StoreReplyFails, Steady, Fault
<1>5. CASE \E m \in Messages : Server(m)
  BY <1>1, <1>2, <1>5, ServerBecomes
<1>6. CASE DeliverTask
  BY <1>2, <1>6 DEF DeliverTask
<1>7. CASE UNCHANGED vars
  BY <1>2, <1>7 DEF vars
<1>8. ASSUME NEW s \in Sessions, RunStep(s)
      PROVE  \A t \in Sessions :
        Range(terminal[t]) \cup Range(replies[t]) \subseteq Range(terminal'[t]) \cup Range(replies'[t])
  BY <1>1, <1>3, <1>8, TellingStays
<1>9. ASSUME NEW s \in Sessions, Persist(s)
      PROVE  \A t \in Sessions :
        Range(terminal[t]) \cup Range(replies[t]) \subseteq Range(terminal'[t]) \cup Range(replies'[t])
  BY <1>1, <1>4, <1>9, TellingStays
<1> QED
  BY <1>1, <1>5, <1>6, <1>7, <1>8, <1>9 DEF Next

LEMMA AnswersRunStep ==
  ASSUME Steady, Published, RememberInv, NEW s \in Sessions, RunStep(s),
         NEW n \in Calls, inputs'[<<s, n>>] # {}
  PROVE  \/ run'[s].call = n /\ run'[s].stage \in {"agent", "emit", "unwind", "report"}
         \/ Told(<<s, n>>)'
<1>1. /\ BatchInv /\ IInv /\ SessionInv(s) /\ RunKinds(s)
      /\ \/ run[s].call = n /\ run[s].stage \in {"agent", "emit", "unwind", "report"}
         \/ Told(<<s, n>>)
         \/ inputs[<<s, n>>] = {}
  BY RunStepKind DEF RememberInv, HistoryInv, BatchInv, AnswersCome
<1>2. Told(<<s, n>>) => Told(<<s, n>>)'
  <2>1. Range(terminal[s]) \cup Range(replies[s]) \subseteq Range(terminal'[s]) \cup Range(replies'[s])
    BY <1>1, ToldStays DEF Next
  <2> HIDE DEF Range
  <2> QED
    BY <2>1 DEF Told
<1>3. CASE Claims(s)
  <2> DEFINE mine == InStatus(s, "pending")
  <2>1. /\ run[s].stage = "claim" /\ run'[s].call = run[s].call
        /\ run'[s].stage = StageAfterClaim(mine)
        /\ inputs' = [inputs EXCEPT ![<<s, run[s].call>>] = @ \cup mine]
    BY <1>3 DEF Claims, Becomes
  <2>2. /\ inputs \in [Runs -> SUBSET Messages] /\ <<s, n>> \in Runs
        /\ run[s].call \in Calls /\ <<s, run[s].call>> \in Runs
    BY <1>1, <2>1 DEF IInv, MessageInv, RunInv, RunIsNamed, Runs, Calls
  <2> HIDE DEF mine
  <2>3. CASE n = run[s].call
    <3>1. inputs[<<s, n>>] = {}
      BY <1>1, <2>1, <2>2, <2>3 DEF SessionInv, FutureIsEmpty, BeforeClaim, Calls
    <3>2. mine # {}
      BY <2>1, <2>2, <2>3, <3>1
    <3> QED
      BY <2>1, <2>3, <3>2 DEF StageAfterClaim
  <2>4. CASE n # run[s].call
    <3>1. <<s, n>> # <<s, run[s].call>>
      BY <2>4
    <3>2. inputs'[<<s, n>>] = inputs[<<s, n>>]
      BY <2>1, <2>2, <3>1
    <3> QED
      BY <1>1, <1>2, <2>4, <3>2
  <2> QED
    BY <2>3, <2>4
<1>4. CASE ~Claims(s)
  <2>1. inputs' = inputs
    BY <1>1, <1>4 DEF RunKinds
  <2>2. CASE Told(<<s, n>>)
    BY <1>2, <2>2
  <2>3. CASE run[s].call = n /\ run[s].stage \in {"agent", "unwind"}
    <3>1. Advances(s) \/ Completes(s)
      BY <1>1, <1>4, <2>3 DEF RunKinds, Starts, HandIsRun, BatchInv, Loads, Ends
    <3> QED
      BY <2>3, <3>1 DEF Advances, Completes, BecomesRecord, Becomes
  <2>4. CASE run[s].call = n /\ run[s].stage \in {"emit", "report"}
    <3>1. PICK e \in Event : e.run = RunOf(s) /\ terminal' = [terminal EXCEPT ![s] = Append(@, e)]
      BY <1>1, <2>4, TerminalBecomes
    <3>2. terminal'[s] = Append(terminal[s], e) /\ terminal[s] \in Seq(Event)
      BY <1>1, <3>1 DEF IInv, EventInv
    <3>3. Range(Append(terminal[s], e)) = Range(terminal[s]) \cup {e}
      BY <3>2, AppendRange
    <3>4. e \in Range(terminal'[s])
      BY <3>2, <3>3
    <3> HIDE DEF Range
    <3> QED
      BY <2>4, <3>1, <3>4 DEF Told, RunOf
  <2> QED
    BY <1>1, <2>1, <2>2, <2>3, <2>4
<1> QED
  BY <1>3, <1>4

LEMMA AnswersStep ==
  ASSUME Steady, Published, RememberInv, [Next]_vars
  PROVE  AnswersCome'
<1>1. SUFFICES ASSUME NEW t \in Sessions, NEW n \in Calls, inputs'[<<t, n>>] # {}
               PROVE  \/ run'[t].call = n /\ run'[t].stage \in {"agent", "emit", "unwind", "report"}
                      \/ Told(<<t, n>>)'
  BY DEF AnswersCome
<1>2. BatchInv
  BY DEF RememberInv, HistoryInv
<1>3. Told(<<t, n>>) => Told(<<t, n>>)'
  <2>1. Range(terminal[t]) \cup Range(replies[t]) \subseteq Range(terminal'[t]) \cup Range(replies'[t])
    BY <1>2, ToldStays
  <2> HIDE DEF Range
  <2> QED
    BY <2>1 DEF Told
<1>4. ASSUME run'[t] = run[t], inputs'[<<t, n>>] = inputs[<<t, n>>]
      PROVE  \/ run'[t].call = n /\ run'[t].stage \in {"agent", "emit", "unwind", "report"}
             \/ Told(<<t, n>>)'
  BY <1>1, <1>3, <1>4 DEF RememberInv, AnswersCome
<1>5. CASE \A s \in Sessions : ~RunStep(s)
  BY <1>2, <1>4, <1>5, OtherSteps
<1>6. ASSUME NEW s \in Sessions, RunStep(s), t # s
      PROVE  run'[t] = run[t] /\ inputs'[<<t, n>>] = inputs[<<t, n>>]
  BY <1>2, <1>6, RunStepKind, OthersStay DEF BatchInv
<1> QED
  BY <1>1, <1>4, <1>5, <1>6, AnswersRunStep

LEMMA RememberInit == Init => RememberInv
<1> SUFFICES ASSUME Init PROVE RememberInv
  OBVIOUS
<1>1. PendingHasTrigger /\ AnswersCome
  BY DEF Init, PendingHasTrigger, AnswersCome, Runs, Calls
<1> QED
  BY <1>1, BatchInit, HistoryInit DEF RememberInv

LEMMA RememberIsEnough == RememberInv => NothingForgotten
<1> SUFFICES ASSUME RememberInv PROVE NothingForgotten
  OBVIOUS
<1>1. ProcessingIsOwned
  BY PipelineAssumption DEF RememberInv, HistoryInv, BatchInv, ProcessingIsClaimed, ProcessingIsOwned
<1>2. ASSUME NEW s \in Sessions, NEW n \in Calls PROVE ~Unanswered(<<s, n>>)
  <2>1. SUFFICES ASSUME inputs[<<s, n>>] # {}, RunOf(s) = <<s, n>> => run[s].stage = "end"
                 PROVE  Told(<<s, n>>)
    BY DEF Unanswered, Told
  <2>2. run[s].call = n => RunOf(s) = <<s, n>>
    BY DEF RunOf
  <2> QED
    BY <2>1, <2>2 DEF RememberInv, AnswersCome
<1>3. \A r \in Runs : ~Unanswered(r)
  BY <1>2 DEF Runs, Calls
<1> QED
  BY <1>1, <1>3 DEF RememberInv, NothingForgotten

(* Where the worker and the database work, events can be published and the *)
(* task subject never fills up, nothing is forgotten: whatever is          *)
(* delivered again and wherever the agent panics, a pending message has    *)
(* something that will come for it, one that is processed a live run, and  *)
(* a run that claimed messages reports how it ended.                       *)
THEOREM PipelineForgetsNothing ==
  ASSUME Steady, Published
  PROVE  SafeSpec /\ []HasRoom => []NothingForgotten
<1>1. RememberInv /\ HasRoom /\ [Next]_vars => RememberInv'
  <2> SUFFICES ASSUME RememberInv, HasRoom, [Next]_vars PROVE RememberInv'
    OBVIOUS
  <2> QED
    BY BatchStep, HistoryStep, TriggerStep, AnswersStep DEF RememberInv
<1> QED
  BY <1>1, RememberInit, RememberIsEnough, PTL DEF SafeSpec

-----------------------------------------------------------------------------
(* Where anything may fail: every answer that is missing, and every answer *)
(* that is doubled, has cost a fault. A run that is past its report counts *)
(* as silent already, and one that will report again as doubled.           *)
ToldRuns(s) == {e.run : e \in Range(terminal[s]) \cup Range(replies[s])}
Volume(s) == Len(terminal[s]) + Len(replies[s])

Reported == {"learn", "complete", "end", "none"}
Silent(s) ==
  {r \in Runs : /\ r[1] = s /\ inputs[r] # {} /\ r \notin ToldRuns(s)
                /\ RunOf(s) = r => run[s].stage \in Reported}
Missed(s) == IsFiniteSet(Silent(s)) /\ Cardinality(Silent(s)) <= faults

AnswersAgain(s) == run[s].stage \in {"unwind", "report"} /\ RunOf(s) \in ToldRuns(s)
Doubled(s) ==
  /\ IsFiniteSet(ToldRuns(s))
  /\ Volume(s) <= Cardinality(ToldRuns(s)) + faults
  /\ AnswersAgain(s) => Volume(s) + 1 <= Cardinality(ToldRuns(s)) + faults

(* Calls that have not come to a run have no input and no answer.          *)
Untouched(s, n) == inputs[<<s, n>>] = {} /\ <<s, n>> \notin ToldRuns(s)
Fresh(s) ==
  /\ \A n \in Calls : n > calls[s] \/ n = mailbox[s] => Untouched(s, n)
  /\ mailbox[s] \in Calls => mailbox[s] <= calls[s]
  /\ run[s].stage # "none" => run[s].call <= calls[s] /\ run[s].call # mailbox[s]
  /\ run[s].stage \in {"load", "claim"} => inputs[RunOf(s)] = {}
  /\ run[s].stage \in {"load", "claim", "agent", "emit"} => RunOf(s) \notin ToldRuns(s)

Fair(s) == (inHand[s] = {} <=> run[s].stage = "none") /\ Fresh(s) /\ Missed(s) /\ Doubled(s)
FaultInv == IInv /\ faults \in Nat /\ \A s \in Sessions : Fair(s)

LEMMA Volumes ==
  ASSUME IInv, NEW s \in Sessions
  PROVE  /\ terminal[s] \in Seq(Event) /\ replies[s] \in Seq(Event)
         /\ Len(terminal[s]) \in Nat /\ Len(replies[s]) \in Nat /\ Volume(s) \in Nat
<1>1. terminal[s] \in Seq(Event) /\ replies[s] \in Seq(Event)
  BY DEF IInv, EventInv
<1>2. Len(terminal[s]) \in Nat /\ Len(replies[s]) \in Nat
  BY <1>1
<1>3. PICK m \in Nat, n \in Nat : m = Len(terminal[s]) /\ n = Len(replies[s])
  BY <1>2
<1>4. Volume(s) = m + n
  BY <1>3 DEF Volume
<1> QED
  BY <1>1, <1>2, <1>4

(* Counting: fewer are silent, or one more that has cost a fault.          *)
LEMMA FewerSilent ==
  ASSUME NEW S, NEW T, NEW m \in Nat, NEW n \in Nat,
         IsFiniteSet(S), Cardinality(S) <= m,
         \/ T \subseteq S /\ n >= m
         \/ (\E x : T \subseteq S \cup {x}) /\ n = m + 1
  PROVE  IsFiniteSet(T) /\ Cardinality(T) <= n
<1>1. Cardinality(S) \in Nat
  BY FS_CardinalityType
<1>2. CASE T \subseteq S /\ n >= m
  <2>1. IsFiniteSet(T) /\ Cardinality(T) <= Cardinality(S)
    BY <1>2, FS_Subset
  <2>2. Cardinality(T) \in Nat
    BY <2>1, FS_CardinalityType
  <2> QED
    BY <1>1, <1>2, <2>1, <2>2
<1>3. CASE (\E x : T \subseteq S \cup {x}) /\ n = m + 1
  <2>1. PICK x : T \subseteq S \cup {x}
    BY <1>3
  <2>2. IsFiniteSet(S \cup {x}) /\ Cardinality(S \cup {x}) <= Cardinality(S) + 1
    BY <1>1, FS_AddElement
  <2>3. IsFiniteSet(T) /\ Cardinality(T) <= Cardinality(S \cup {x})
    BY <2>1, <2>2, FS_Subset
  <2>4. Cardinality(T) \in Nat /\ Cardinality(S \cup {x}) \in Nat
    BY <2>2, <2>3, FS_CardinalityType
  <2> QED
    BY <1>1, <1>3, <2>2, <2>3, <2>4
<1> QED
  BY <1>2, <1>3

(* A run moves on and reports nothing.                                     *)
LEMMA MoveKeepsFair ==
  ASSUME IInv, faults \in Nat, faults' \in Nat, NEW s \in Sessions, Fair(s), NEW g, BecomesRecord(s, g),
         UNCHANGED <<terminal, replies, inputs, debouncer>>,
         run[s].stage # "none", g # "none",
         g \in {"load", "claim"} => run[s].stage \in {"load", "claim"},
         g \in {"load", "claim", "agent", "emit"} => run[s].stage \in {"load", "claim", "agent", "emit"},
         \/ faults' = faults + 1
         \/ /\ faults' >= faults
            /\ g \in Reported => run[s].stage \in Reported
            /\ g \in {"unwind", "report"} => run[s].stage \in {"unwind", "report"}
  PROVE  Fair(s)'
<1>1. ToldRuns(s)' = ToldRuns(s) /\ Volume(s)' = Volume(s)
  BY DEF ToldRuns, Volume
<1>2. run'[s].stage = g /\ run'[s].call = run[s].call /\ RunOf(s)' = RunOf(s)
  BY DEF BecomesRecord, Becomes, RunOf
<1>3. Fresh(s)'
  BY <1>1, <1>2 DEF Fair, Fresh, Untouched, debouncer
<1>4. Silent(s)' \subseteq Silent(s) \cup {RunOf(s)}
  BY <1>1, <1>2 DEF Silent
<1>5. (g \in Reported => run[s].stage \in Reported) => Silent(s)' \subseteq Silent(s)
  BY <1>1, <1>2 DEF Silent
<1>6. Missed(s)'
  <2> DEFINE S == Silent(s)
             T == Silent(s)'
  <2>1. IsFiniteSet(S) /\ Cardinality(S) <= faults
    BY DEF Fair, Missed
  <2>2. \/ T \subseteq S /\ faults' >= faults
        \/ (\E x : T \subseteq S \cup {x}) /\ faults' = faults + 1
    BY <1>4, <1>5
  <2>3. Missed(s)' <=> IsFiniteSet(T) /\ Cardinality(T) <= faults'
    BY DEF Missed
  <2> HIDE DEF S, T
  <2> QED
    BY <2>1, <2>2, <2>3, FewerSilent
<1>7. Doubled(s)'
  <2>1. AnswersAgain(s)' => AnswersAgain(s) \/ faults' = faults + 1
    BY <1>1, <1>2 DEF AnswersAgain
  <2>2. /\ IsFiniteSet(ToldRuns(s)) /\ Volume(s) <= Cardinality(ToldRuns(s)) + faults
        /\ AnswersAgain(s) => Volume(s) + 1 <= Cardinality(ToldRuns(s)) + faults
    BY DEF Fair, Doubled
  <2>3. Cardinality(ToldRuns(s)) \in Nat /\ Volume(s) \in Nat
    BY <2>2, Volumes, FS_CardinalityType
  <2>4. PICK c \in Nat, v \in Nat : c = Cardinality(ToldRuns(s)) /\ v = Volume(s)
    BY <2>3
  <2>5. v <= c + faults /\ (AnswersAgain(s) => v + 1 <= c + faults) /\ faults' >= faults
    BY <2>2, <2>4
  <2>6. v <= c + faults' /\ (AnswersAgain(s)' => v + 1 <= c + faults')
    BY <2>1, <2>5
  <2> QED
    BY <1>1, <2>2, <2>4, <2>6 DEF Doubled
<1> QED
  BY <1>2, <1>3, <1>6, <1>7 DEF Fair, debouncer

LEMMA MovesAreFair ==
  ASSUME FaultInv, NEW s \in Sessions,
         \/ LoadHistory(s) \/ PrepareFails(s) \/ AgentReturns(s) \/ AgentPanics(s)
         \/ Learn(s) \/ LearnPanics(s) \/ CompleteClaimed(s)
  PROVE  Fair(s)' /\ faults' \in Nat /\ faults' >= faults
<1>1. IInv /\ faults \in Nat /\ Fair(s)
  BY DEF FaultInv
<1>2. UNCHANGED <<terminal, replies, inputs, debouncer>>
  BY DEF LoadHistory, PrepareFails, AgentReturns, AgentPanics, Learn, LearnPanics, CompleteClaimed, broker
<1>3. CASE LoadHistory(s)
  <2>1. Loads(s)
    BY <1>1, <1>3, LoadBecomes
  <2>2. run[s].stage = "load" /\ run'[s].stage = "claim" /\ faults' = faults
    BY <1>3, <2>1 DEF LoadHistory, Loads, Becomes
  <2>3. run'[s].call = run[s].call /\ RunOf(s)' = RunOf(s)
    BY <2>1 DEF Loads, Becomes, RunOf
  <2>4. ToldRuns(s)' = ToldRuns(s) /\ Volume(s)' = Volume(s)
    BY <1>2 DEF ToldRuns, Volume
  <2>5. Silent(s)' = Silent(s)
    BY <1>2, <2>2, <2>3, <2>4 DEF Silent, Reported
  <2>6. Missed(s)' /\ Doubled(s)'
    BY <1>1, <2>2, <2>3, <2>4, <2>5 DEF Fair, Missed, Doubled, AnswersAgain
  <2>7. Fresh(s)'
    BY <1>1, <1>2, <2>2, <2>3, <2>4 DEF Fair, Fresh, Untouched, debouncer
  <2> QED
    BY <1>1, <1>2, <2>2, <2>6, <2>7 DEF Fair, debouncer
<1>4. CASE PrepareFails(s) \/ AgentPanics(s) \/ LearnPanics(s)
  <2>1. faults' = faults + 1 /\ run[s].stage # "none"
    BY <1>4 DEF PrepareFails, AgentPanics, LearnPanics, Fault, AtStage
  <2>2. BecomesRecord(s, "report") \/ BecomesRecord(s, "unwind")
    BY <1>1, <1>4, StageBecomes DEF PrepareFails, AgentPanics, LearnPanics
  <2> QED
    BY <1>1, <1>2, <2>1, <2>2, MoveKeepsFair
<1>5. CASE AgentReturns(s)
  <2>1. BecomesRecord(s, "emit") /\ run[s].stage = "agent" /\ faults' = faults
    BY <1>1, <1>5, StageBecomes DEF AgentReturns, AtStage
  <2> QED
    BY <1>1, <1>2, <2>1, MoveKeepsFair DEF Reported
<1>6. CASE Learn(s)
  <2>1. BecomesRecord(s, "complete") /\ run[s].stage = "learn" /\ faults' = faults
    BY <1>1, <1>6, StageBecomes DEF Learn, Goto, AtStage
  <2> QED
    BY <1>1, <1>2, <2>1, MoveKeepsFair DEF Reported
<1>7. CASE CompleteClaimed(s)
  <2>1. faults' \in Nat /\ faults' >= faults
    BY <1>1, <1>7 DEF CompleteClaimed, Fault
  <2>2. CASE run[s].stage = "unwind"
    <3>1. BecomesRecord(s, "report")
      BY <1>1, <1>7, <2>2, StageBecomes DEF CompleteClaimed, AtStage, Goto
    <3> QED
      BY <1>1, <1>2, <2>1, <2>2, <3>1, MoveKeepsFair DEF Reported
  <2>3. CASE run[s].stage = "complete"
    <3>1. BecomesRecord(s, "end")
      BY <1>1, <1>7, <2>3, StageBecomes DEF CompleteClaimed, AtStage, Goto
    <3> QED
      BY <1>1, <1>2, <2>1, <2>3, <3>1, MoveKeepsFair DEF Reported
  <2> QED
    BY <1>7, <2>2, <2>3 DEF CompleteClaimed, AtStage
<1> QED
  BY <1>3, <1>4, <1>5, <1>6, <1>7

(* A run starts with a call that nobody has touched, and one that has      *)
(* ended is forgotten.                                                     *)
LEMMA StartIsFair ==
  ASSUME FaultInv, NEW s \in Sessions, StartRun(s)
  PROVE  Fair(s)' /\ faults' = faults
<1>1. IInv /\ faults \in Nat /\ Fair(s)
  BY DEF FaultInv
<1>2. Starts(s) /\ D!Serve(s) /\ UNCHANGED <<terminal, inputs, replies>>
  BY <1>1, StartBecomes
<1>3. faults' = faults
  BY DEF StartRun
<1>4. ToldRuns(s)' = ToldRuns(s) /\ Volume(s)' = Volume(s)
  BY <1>2 DEF ToldRuns, Volume
<1>5. /\ run'[s].stage = "load" /\ run'[s].call = mailbox[s] /\ RunOf(s)' = <<s, mailbox[s]>>
      /\ mailbox[s] \in Calls /\ inHand[s] = {} /\ run[s].stage = "none"
  BY <1>1, <1>2 DEF Starts, Becomes, RunOf, Fair
<1>6. inHand'[s] = {mailbox[s]} /\ mailbox'[s] = NoValue /\ calls' = calls
  BY <1>1, <1>2 DEF D!Serve, IInv, DebouncerType
<1>7. Untouched(s, mailbox[s]) /\ mailbox[s] <= calls[s]
  BY <1>1, <1>5 DEF Fair, Fresh
<1>8. NoValue \notin Calls
  BY PipelineAssumption DEF Calls
<1>9. Fresh(s)'
  BY <1>1, <1>2, <1>4, <1>5, <1>6, <1>7, <1>8 DEF Fair, Fresh, Untouched, RunOf
<1>10. Silent(s)' \subseteq Silent(s)
  BY <1>2, <1>4, <1>5, <1>7 DEF Silent, Untouched, Reported
<1>11. Missed(s)'
  <2> DEFINE S == Silent(s)
             T == Silent(s)'
  <2>1. IsFiniteSet(S) /\ Cardinality(S) <= faults
    BY <1>1 DEF Fair, Missed
  <2>2. T \subseteq S /\ faults' >= faults /\ faults' \in Nat
    BY <1>1, <1>3, <1>10
  <2>3. Missed(s)' <=> IsFiniteSet(T) /\ Cardinality(T) <= faults'
    BY DEF Missed
  <2> HIDE DEF S, T
  <2> QED
    BY <1>1, <2>1, <2>2, <2>3, FewerSilent
<1>12. Doubled(s)'
  BY <1>1, <1>3, <1>4, <1>5 DEF Fair, Doubled, AnswersAgain
<1> QED
  BY <1>3, <1>5, <1>6, <1>9, <1>11, <1>12 DEF Fair

LEMMA EndIsFair ==
  ASSUME FaultInv, NEW s \in Sessions, EndRun(s)
  PROVE  Fair(s)' /\ faults' = faults
<1>1. IInv /\ faults \in Nat /\ Fair(s)
  BY DEF FaultInv
<1>2. Ends(s) /\ D!Complete(s) /\ UNCHANGED <<terminal, inputs, replies>>
  BY <1>1, EndBecomes
<1>3. faults' = faults
  BY DEF EndRun
<1>4. ToldRuns(s)' = ToldRuns(s) /\ Volume(s)' = Volume(s)
  BY <1>2 DEF ToldRuns, Volume
<1>5. run'[s].stage = "none" /\ run[s].stage = "end" /\ run'[s].call = 0 /\ RunOf(s)' = <<s, 0>>
  BY <1>2 DEF Ends, Becomes, RunOf
<1>6. inHand'[s] = {} /\ mailbox' = mailbox /\ calls' = calls
  BY <1>1, <1>2 DEF D!Complete, IInv, DebouncerType
<1>7. Fresh(s)'
  BY <1>1, <1>2, <1>4, <1>5, <1>6 DEF Fair, Fresh, Untouched
<1>8. Silent(s)' = Silent(s)
  <2>1. \A r \in Runs : r # <<s, 0>>
    BY DEF Runs
  <2> QED
    BY <1>2, <1>4, <1>5, <2>1 DEF Silent, Reported
<1>9. Missed(s)' /\ Doubled(s)'
  BY <1>1, <1>3, <1>4, <1>5, <1>8 DEF Fair, Missed, Doubled, AnswersAgain
<1> QED
  BY <1>3, <1>5, <1>6, <1>7, <1>9 DEF Fair

LEMMA MoreFaults ==
  \A v, c, f, g \in Nat : f <= g /\ v <= c + f => v <= c + g /\ (v + 1 <= c + f => v + 1 <= c + g)
  OBVIOUS

(* What a step leaves as it was is still counted.                          *)
LEMMA StillCounted ==
  ASSUME IInv, faults \in Nat, faults' \in Nat, faults' >= faults, NEW s \in Sessions, Fair(s),
         ToldRuns(s)' = ToldRuns(s), Volume(s)' = Volume(s),
         Silent(s)' \subseteq Silent(s), AnswersAgain(s)' => AnswersAgain(s)
  PROVE  Missed(s)' /\ Doubled(s)'
<1>1. Missed(s)'
  <2> DEFINE S == Silent(s)
             T == Silent(s)'
  <2>1. IsFiniteSet(S) /\ Cardinality(S) <= faults
    BY DEF Fair, Missed
  <2>2. T \subseteq S
    OBVIOUS
  <2>3. Missed(s)' <=> IsFiniteSet(T) /\ Cardinality(T) <= faults'
    BY DEF Missed
  <2> HIDE DEF S, T
  <2> QED
    BY <2>1, <2>2, <2>3, FewerSilent
<1>2. Doubled(s)'
  <2>1. /\ IsFiniteSet(ToldRuns(s)) /\ Volume(s) <= Cardinality(ToldRuns(s)) + faults
        /\ AnswersAgain(s) => Volume(s) + 1 <= Cardinality(ToldRuns(s)) + faults
    BY DEF Fair, Doubled
  <2>2. PICK c \in Nat, v \in Nat : c = Cardinality(ToldRuns(s)) /\ v = Volume(s)
    BY <2>1, Volumes, FS_CardinalityType
  <2>3. v <= c + faults /\ (AnswersAgain(s) => v + 1 <= c + faults)
    BY <2>1, <2>2
  <2>4. PICK f \in Nat, g \in Nat : f = faults /\ g = faults' /\ f <= g
    OBVIOUS
  <2>5. v <= c + f /\ (AnswersAgain(s)' => v + 1 <= c + f)
    BY <2>3, <2>4
  <2>6. v <= c + g /\ (v + 1 <= c + f => v + 1 <= c + g)
    BY <2>4, <2>5, MoreFaults
  <2> QED
    BY <2>1, <2>2, <2>4, <2>5, <2>6 DEF Doubled
<1> QED
  BY <1>1, <1>2

(* A run publishes its end, or cannot.                                     *)
LEMMA ReportIsFair ==
  ASSUME FaultInv, NEW s \in Sessions, EmitTerminal(s) \/ ReportFailure(s)
  PROVE  Fair(s)' /\ faults' \in Nat /\ faults' >= faults
<1>1. IInv /\ faults \in Nat /\ Fair(s)
  BY DEF FaultInv
<1>2. /\ UNCHANGED <<replies, inputs, debouncer>> /\ SendTerminal(s)
      /\ run[s].stage \in {"emit", "report"}
  BY DEF EmitTerminal, ReportFailure, AtStage
<1>3. PICK g \in {"learn", "end"} : BecomesRecord(s, g)
  BY <1>1, StageBecomes DEF EmitTerminal, ReportFailure, Goto
<1>4. CASE Fault("publish") /\ UNCHANGED terminal
  <2>1. faults' = faults + 1
    BY <1>4 DEF Fault
  <2> QED
    BY <1>1, <1>2, <1>3, <1>4, <2>1, MoveKeepsFair
<1>5. CASE ~(Fault("publish") /\ UNCHANGED terminal)
  <2> DEFINE e == [run |-> <<s, run[s].call>>, outcome |-> run[s].outcome]
             R == RunOf(s)
             S == Silent(s)
             T == ToldRuns(s)
  <2>1. e.run = R /\ e \in Event
    BY <1>1, <1>2, RunShape DEF RunOf, Event, Runs, Calls, IInv, RunInv, RunIsNamed
  <2>2. terminal' = [terminal EXCEPT ![s] = Append(@, e)] /\ faults' = faults
    BY <1>2, <1>5 DEF SendTerminal
  <2> HIDE DEF e, R, S, T
  <2>3. terminal'[s] = Append(terminal[s], e) /\ terminal[s] \in Seq(Event) /\ replies'[s] = replies[s]
    BY <1>1, <1>2, <2>2 DEF IInv, EventInv
  <2>4. Range(terminal'[s]) = Range(terminal[s]) \cup {e} /\ Len(terminal'[s]) = Len(terminal[s]) + 1
    BY <2>1, <2>3, AppendRange
  <2>5. ToldRuns(s)' = T \cup {R}
    BY <2>1, <2>3, <2>4 DEF ToldRuns, T
  <2>6. Volume(s)' = Volume(s) + 1
    <3>1. PICK m \in Nat, n \in Nat : m = Len(terminal[s]) /\ n = Len(replies[s])
      BY <1>1, Volumes
    <3>2. Len(terminal'[s]) = m + 1 /\ Len(replies'[s]) = n
      BY <2>3, <2>4, <3>1
    <3>3. Volume(s) = m + n /\ Volume(s)' = m + 1 + n
      BY <3>1, <3>2 DEF Volume
    <3> QED
      BY <3>3
  <2>7. run'[s].stage = g /\ run'[s].call = run[s].call /\ RunOf(s)' = R
    BY <1>3 DEF BecomesRecord, Becomes, RunOf, R
  <2>8. Silent(s)' \subseteq S
    BY <1>2, <2>5, <2>7 DEF Silent, T, S, R
  <2>9. Missed(s)'
    <3> DEFINE U == Silent(s)'
    <3>1. IsFiniteSet(S) /\ Cardinality(S) <= faults /\ faults' >= faults /\ faults' \in Nat
      BY <1>1, <2>2 DEF Fair, Missed, S
    <3>2. U \subseteq S
      BY <2>8
    <3>3. Missed(s)' <=> IsFiniteSet(U) /\ Cardinality(U) <= faults'
      BY DEF Missed
    <3> HIDE DEF U
    <3> QED
      BY <1>1, <3>1, <3>2, <3>3, FewerSilent
  <2>10. Fresh(s)'
    <3>1. run[s].call <= calls[s] /\ run[s].call # mailbox[s] /\ run[s].call \in Calls /\ calls[s] \in Nat
      BY <1>1, <1>2 DEF Fair, Fresh, IInv, RunInv, RunIsNamed, DebouncerType
    <3>2. ASSUME NEW n \in Calls, n > calls[s] \/ n = mailbox[s] PROVE <<s, n>> # R
      BY <3>1, <3>2 DEF RunOf, R, Calls
    <3>3. ASSUME NEW n \in Calls, n > calls[s] \/ n = mailbox[s] PROVE Untouched(s, n)'
      BY <1>1, <1>2, <2>5, <3>2, <3>3 DEF Fair, Fresh, Untouched, T
    <3>4. calls' = calls /\ mailbox' = mailbox /\ run'[s].stage \notin {"load", "claim", "agent", "emit"}
      BY <1>2, <2>7 DEF debouncer
    <3>5. mailbox[s] \in Calls => mailbox[s] <= calls[s]
      BY <1>1 DEF Fair, Fresh
    <3> QED
      BY <2>7, <3>1, <3>3, <3>4, <3>5 DEF Fresh
  <2>11. Doubled(s)'
    <3>1. /\ IsFiniteSet(T) /\ Volume(s) <= Cardinality(T) + faults
          /\ AnswersAgain(s) => Volume(s) + 1 <= Cardinality(T) + faults
      BY <1>1 DEF Fair, Doubled, T
    <3>2. PICK c \in Nat, v \in Nat : c = Cardinality(T) /\ v = Volume(s)
      BY <1>1, <3>1, Volumes, FS_CardinalityType
    <3>3. IsFiniteSet(T \cup {R}) /\ Cardinality(T \cup {R}) = IF R \in T THEN c ELSE c + 1
      BY <3>1, <3>2, FS_AddElement
    <3>4. R \in T => AnswersAgain(s)
      BY <1>1, <1>2 DEF Fair, Fresh, AnswersAgain, R, T
    <3>5. v <= c + faults /\ (R \in T => v + 1 <= c + faults)
      BY <3>1, <3>2, <3>4
    <3>6. PICK d \in Nat : d = Cardinality(T \cup {R}) /\ v + 1 <= d + faults
      BY <1>1, <3>3, <3>5
    <3>7. ~AnswersAgain(s)'
      BY <2>7 DEF AnswersAgain
    <3>8. Volume(s)' = v + 1 /\ Cardinality(ToldRuns(s)') = d /\ IsFiniteSet(ToldRuns(s)')
      BY <2>5, <2>6, <3>2, <3>3, <3>6
    <3> QED
      BY <2>2, <3>6, <3>7, <3>8 DEF Doubled
  <2>12. inHand'[s] = {} <=> run'[s].stage = "none"
    BY <1>1, <1>2, <2>7 DEF Fair, debouncer
  <2> QED
    BY <1>1, <2>2, <2>9, <2>10, <2>11, <2>12 DEF Fair
<1> QED
  BY <1>4, <1>5

(* A run gets its input; it is silent about it only when there is none.    *)
LEMMA ClaimIsFair ==
  ASSUME FaultInv, NEW s \in Sessions, Claim(s)
  PROVE  Fair(s)' /\ faults' = faults
<1> DEFINE mine == InStatus(s, "pending")
           R == RunOf(s)
<1>1. IInv /\ faults \in Nat /\ Fair(s)
  BY DEF FaultInv
<1>2. Claims(s) /\ UNCHANGED <<terminal, debouncer, replies>> /\ faults' = faults
  BY <1>1, ClaimBecomes DEF Claim, ClaimAndGo
<1>3. /\ run[s].stage = "claim" /\ run'[s].call = run[s].call /\ RunOf(s)' = R
      /\ run'[s].stage = StageAfterClaim(mine)
      /\ inputs' = [inputs EXCEPT ![R] = @ \cup mine]
  BY <1>2 DEF Claims, Becomes, RunOf
<1>4. R \in Runs /\ inputs \in [Runs -> SUBSET Messages] /\ R = <<s, run[s].call>>
  BY <1>1, <1>3 DEF IInv, MessageInv, RunInv, RunIsNamed, Runs, Calls, RunOf
<1>5. inputs[R] = {} /\ R \notin ToldRuns(s)
  BY <1>1, <1>3 DEF Fair, Fresh
<1> HIDE DEF mine, R
<1>6. inputs'[R] = mine /\ \A r \in Runs \ {R} : inputs'[r] = inputs[r]
  BY <1>3, <1>4, <1>5
<1>7. ToldRuns(s)' = ToldRuns(s) /\ Volume(s)' = Volume(s)
  BY <1>2 DEF ToldRuns, Volume
<1>8. run'[s].stage \in {"agent", "end"} /\ (run'[s].stage = "end" => mine = {})
  BY <1>3 DEF StageAfterClaim
<1>9. Silent(s)' \subseteq Silent(s)
  BY <1>3, <1>6, <1>7, <1>8 DEF Silent, Reported, R
<1>10. ~AnswersAgain(s)'
  BY <1>8 DEF AnswersAgain
<1>11. Missed(s)' /\ Doubled(s)'
  BY <1>1, <1>2, <1>7, <1>9, <1>10, StillCounted
<1>12. Fresh(s)'
  <2>1. run[s].call <= calls[s] /\ run[s].call # mailbox[s] /\ run[s].call \in Calls /\ calls[s] \in Nat
    BY <1>1, <1>3 DEF Fair, Fresh, IInv, RunInv, RunIsNamed, DebouncerType
  <2>2. ASSUME NEW n \in Calls, n > calls[s] \/ n = mailbox[s] PROVE <<s, n>> # R /\ <<s, n>> \in Runs
    BY <1>4, <2>1, <2>2 DEF Calls, Runs
  <2>3. ASSUME NEW n \in Calls, n > calls[s] \/ n = mailbox[s] PROVE Untouched(s, n)'
    BY <1>1, <1>6, <1>7, <2>2, <2>3 DEF Fair, Fresh, Untouched
  <2>4. calls' = calls /\ mailbox' = mailbox
    BY <1>2 DEF debouncer
  <2>5. mailbox[s] \in Calls => mailbox[s] <= calls[s]
    BY <1>1 DEF Fair, Fresh
  <2> QED
    BY <1>3, <1>5, <1>7, <1>8, <2>1, <2>3, <2>4, <2>5 DEF Fresh
<1>13. inHand'[s] = {} <=> run'[s].stage = "none"
  BY <1>1, <1>2, <1>3, <1>8 DEF Fair, debouncer
<1> QED
  BY <1>2, <1>11, <1>12, <1>13 DEF Fair

(* A reply is stored, perhaps not acknowledged, or its statement fails.    *)
LEMMA PersistIsFair ==
  ASSUME FaultInv, NEW s \in Sessions, Persist(s)
  PROVE  Fair(s)' /\ faults' \in Nat /\ faults' >= faults
<1> DEFINE q == terminal[s]
           h == Head(q)
           rest == Tail(q)
           R == h.run
           S == Silent(s)
           T == ToldRuns(s)
           U == Silent(s)'
<1>1. IInv /\ faults \in Nat /\ Fair(s)
  BY DEF FaultInv
<1>2. UNCHANGED <<inputs, debouncer, run>> /\ q # <<>>
  BY DEF Persist, StoreReply, StoreReplyFails
<1>3. q \in Seq(Event) /\ replies[s] \in Seq(Event)
  BY <1>1, Volumes
<1>4. /\ h \in Range(q) /\ h \in Event /\ rest \in Seq(Event) /\ Range(rest) \subseteq Range(q)
      /\ Len(rest) = Len(q) - 1 /\ \A x \in Range(q) : x # h => x \in Range(rest)
  BY <1>2, <1>3, TailRange, TailKeeps
<1>5. \/ /\ replies'[s] = Append(replies[s], h) /\ terminal'[s] = rest /\ faults' = faults
      \/ /\ replies'[s] = Append(replies[s], h) /\ terminal'[s] = Append(rest, h) /\ faults' = faults + 1
      \/ /\ replies'[s] = replies[s] /\ terminal'[s] = rest /\ faults' = faults + 1
  <2>1. terminal \in [Sessions -> Seq(Event)] /\ replies \in [Sessions -> Seq(Event)]
    BY <1>1 DEF IInv, EventInv
  <2> QED
    BY <2>1 DEF Persist, StoreReply, StoreReplyFails, Fault
<1> HIDE DEF q, h, rest, R, S, T
<1>6. PICK m \in Nat, n \in Nat : m = Len(q) /\ n = Len(replies[s]) /\ Volume(s) = m + n
  <2>1. Len(q) \in Nat /\ Len(replies[s]) \in Nat
    BY <1>1, Volumes DEF q
  <2> QED
    BY <2>1 DEF Volume, q
<1>7. /\ Range(Append(replies[s], h)) = Range(replies[s]) \cup {h}
      /\ Len(Append(replies[s], h)) = n + 1
      /\ Range(Append(rest, h)) = Range(rest) \cup {h} /\ Len(Append(rest, h)) = m
      /\ Len(rest) = m - 1
  BY <1>3, <1>4, <1>6, AppendRange
<1>8. Range(q) = Range(rest) \cup {h}
  BY <1>4
<1>9. T = {e.run : e \in Range(q) \cup Range(replies[s])}
  BY DEF T, ToldRuns, q
<1>10. ToldRuns(s)' = {e.run : e \in Range(terminal'[s]) \cup Range(replies'[s])}
  BY DEF ToldRuns
<1>11. Volume(s)' = Len(terminal'[s]) + Len(replies'[s])
  BY DEF Volume
<1>12. RunOf(s)' = RunOf(s) /\ run'[s] = run[s]
  BY <1>2 DEF RunOf
<1>13. faults' \in Nat /\ faults' >= faults /\ ToldRuns(s)' \subseteq T /\ T \subseteq ToldRuns(s)' \cup {R}
  <2>1. Range(terminal'[s]) \cup Range(replies'[s]) \subseteq Range(q) \cup Range(replies[s])
    <3> HIDE DEF Range
    <3> QED
      BY <1>4, <1>5, <1>7, <1>8
  <2>2. Range(q) \cup Range(replies[s]) \subseteq Range(terminal'[s]) \cup Range(replies'[s]) \cup {h}
    <3> HIDE DEF Range
    <3> QED
      BY <1>5, <1>7, <1>8
  <2>3. faults' \in Nat /\ faults' >= faults
    BY <1>1, <1>5
  <2> HIDE DEF Range
  <2> QED
    BY <1>9, <1>10, <2>1, <2>2, <2>3 DEF R
<1>14. Fresh(s)'
  BY <1>1, <1>2, <1>12, <1>13 DEF Fair, Fresh, Untouched, debouncer, T
<1>15. inHand'[s] = {} <=> run'[s].stage = "none"
  BY <1>1, <1>2 DEF Fair, debouncer
<1>16. U \subseteq S \cup {R}
  BY <1>2, <1>12, <1>13 DEF Silent, S, T
<1>17. AnswersAgain(s)' => AnswersAgain(s)
  BY <1>12, <1>13 DEF AnswersAgain, T
<1>18. CASE replies'[s] = Append(replies[s], h)
  <2>1. ToldRuns(s)' = T
    <3>1. Range(terminal'[s]) \cup Range(replies'[s]) = Range(q) \cup Range(replies[s])
      <4>1. replies'[s] # replies[s]
        BY <1>6, <1>7, <1>18
      <4> HIDE DEF Range
      <4> QED
        BY <1>5, <1>7, <1>8, <1>18, <4>1
    <3> QED
      BY <1>9, <1>10, <3>1
  <2>2. U \subseteq S
    BY <1>2, <1>12, <2>1 DEF Silent, S, T
  <2>3. CASE terminal'[s] = rest
    <3>1. Volume(s)' = m - 1 + (n + 1)
      BY <1>7, <1>11, <1>18, <2>3
    <3>2. Volume(s)' = Volume(s)
      BY <1>6, <3>1
    <3> QED
      BY <1>1, <1>13, <1>14, <1>15, <1>17, <2>1, <2>2, <3>2, StillCounted DEF Fair, S, T
  <2>4. CASE terminal'[s] = Append(rest, h) /\ faults' = faults + 1
    <3>1. Volume(s)' = m + (n + 1)
      BY <1>7, <1>11, <1>18, <2>4
    <3>2. /\ IsFiniteSet(T) /\ Volume(s) <= Cardinality(T) + faults
          /\ AnswersAgain(s) => Volume(s) + 1 <= Cardinality(T) + faults
      BY <1>1 DEF Fair, Doubled, T
    <3>3. PICK c \in Nat : c = Cardinality(T)
      BY <3>2, FS_CardinalityType
    <3>4. m + n <= c + faults /\ (AnswersAgain(s) => m + n + 1 <= c + faults)
      BY <1>6, <3>2, <3>3
    <3>5. m + (n + 1) <= c + (faults + 1) /\ (AnswersAgain(s) => m + (n + 1) + 1 <= c + (faults + 1))
      BY <1>1, <3>4
    <3>6. Doubled(s)'
      BY <1>17, <2>1, <2>4, <3>1, <3>2, <3>3, <3>5 DEF Doubled
    <3>7. Missed(s)'
      <4>1. IsFiniteSet(S) /\ Cardinality(S) <= faults
        BY <1>1 DEF Fair, Missed, S
      <4>2. Missed(s)' <=> IsFiniteSet(U) /\ Cardinality(U) <= faults'
        BY DEF Missed
      <4> HIDE DEF U
      <4> QED
        BY <1>1, <1>13, <2>2, <4>1, <4>2, FewerSilent
    <3> QED
      BY <1>13, <1>14, <1>15, <3>6, <3>7 DEF Fair
  <2>5. CASE replies'[s] = replies[s]
    BY <1>6, <1>7, <1>18, <2>5
  <2> QED
    BY <1>5, <2>3, <2>4, <2>5
<1>19. CASE replies'[s] = replies[s] /\ terminal'[s] = rest /\ faults' = faults + 1
  <2>1. Volume(s)' = m - 1 + n
    BY <1>6, <1>7, <1>11, <1>19
  <2>2. /\ IsFiniteSet(T) /\ Volume(s) <= Cardinality(T) + faults
        /\ AnswersAgain(s) => Volume(s) + 1 <= Cardinality(T) + faults
    BY <1>1 DEF Fair, Doubled, T
  <2> DEFINE V == ToldRuns(s)'
  <2>3. V \subseteq T /\ T \subseteq V \cup {R}
    BY <1>13
  <2>4. Doubled(s)' <=> /\ IsFiniteSet(V) /\ m - 1 + n <= Cardinality(V) + (faults + 1)
                        /\ AnswersAgain(s)' => m - 1 + n + 1 <= Cardinality(V) + (faults + 1)
    BY <1>19, <2>1 DEF Doubled
  <2> HIDE DEF V
  <2>5. /\ IsFiniteSet(V)
        /\ Cardinality(V \cup {R}) = IF R \in V THEN Cardinality(V) ELSE Cardinality(V) + 1
        /\ IsFiniteSet(V \cup {R}) /\ Cardinality(T) <= Cardinality(V \cup {R})
    <3>1. IsFiniteSet(V)
      BY <2>2, <2>3, FS_Subset
    <3>2. /\ IsFiniteSet(V \cup {R})
          /\ Cardinality(V \cup {R}) = IF R \in V THEN Cardinality(V) ELSE Cardinality(V) + 1
      BY <3>1, FS_AddElement
    <3> QED
      BY <2>3, <3>1, <3>2, FS_Subset
  <2>6. PICK c \in Nat, d \in Nat : c = Cardinality(T) /\ d = Cardinality(V) /\ c <= d + 1
    <3>1. Cardinality(T) \in Nat /\ Cardinality(V) \in Nat
      BY <2>2, <2>5, FS_CardinalityType
    <3> QED
      BY <2>5, <3>1
  <2>7. m + n <= c + faults
    BY <1>6, <2>2, <2>6
  <2>8. m - 1 + n <= d + (faults + 1) /\ m - 1 + n + 1 <= d + (faults + 1)
    BY <1>1, <2>6, <2>7
  <2>9. Doubled(s)'
    BY <2>4, <2>5, <2>6, <2>8
  <2>10. Missed(s)'
    <3>1. IsFiniteSet(S) /\ Cardinality(S) <= faults
      BY <1>1 DEF Fair, Missed, S
    <3>2. Missed(s)' <=> IsFiniteSet(U) /\ Cardinality(U) <= faults'
      BY DEF Missed
    <3>3. \E x : U \subseteq S \cup {x}
      BY <1>16
    <3> HIDE DEF U
    <3> QED
      BY <1>1, <1>13, <1>19, <3>1, <3>2, <3>3, FewerSilent
  <2> QED
    BY <1>13, <1>14, <1>15, <2>9, <2>10 DEF Fair
<1> QED
  BY <1>5, <1>18, <1>19

(* A delivery is a call that nobody has touched.                           *)
LEMMA DeliveryIsFair ==
  ASSUME FaultInv, NEW s \in Sessions, D!Put(s), UNCHANGED <<run, terminal, replies, inputs>>,
         faults' \in Nat, faults' >= faults
  PROVE  Fair(s)'
<1>1. IInv /\ faults \in Nat /\ Fair(s)
  BY DEF FaultInv
<1>2. calls'[s] = calls[s] + 1 /\ mailbox'[s] = calls[s] + 1 /\ inHand' = inHand /\ calls[s] \in Nat
  BY <1>1 DEF D!Put, IInv, DebouncerType
<1>3. ToldRuns(s)' = ToldRuns(s) /\ Volume(s)' = Volume(s) /\ RunOf(s)' = RunOf(s)
  BY DEF ToldRuns, Volume, RunOf
<1>4. Silent(s)' = Silent(s) /\ (AnswersAgain(s)' => AnswersAgain(s))
  BY <1>3 DEF Silent, AnswersAgain
<1>5. Missed(s)' /\ Doubled(s)'
  BY <1>1, <1>3, <1>4, StillCounted
<1>6. Fresh(s)'
  <2>1. ASSUME NEW n \in Calls, n > calls[s] + 1 \/ n = calls[s] + 1 PROVE Untouched(s, n)'
    BY <1>1, <1>2, <1>3, <2>1 DEF Fair, Fresh, Untouched, Calls
  <2>2. run[s].stage # "none" => run[s].call <= calls[s] + 1 /\ run[s].call # calls[s] + 1
    <3>1. run[s].call \in 0..MaxCalls
      BY <1>1, RunShape
    <3>2. run[s].stage # "none" => run[s].call <= calls[s]
      BY <1>1 DEF Fair, Fresh
    <3> QED
      BY <1>2, <3>1, <3>2
  <2> QED
    BY <1>1, <1>2, <1>3, <2>1, <2>2 DEF Fair, Fresh
<1> QED
  BY <1>1, <1>2, <1>5, <1>6 DEF Fair

(* A crash may silence the run of a session, and no more than it.          *)
LEMMA CrashIsFair ==
  ASSUME FaultInv, Crash, NEW s \in Sessions
  PROVE  Fair(s)' /\ faults' = faults + 1
<1>1. IInv /\ faults \in Nat /\ Fair(s)
  BY DEF FaultInv
<1>2. /\ UNCHANGED <<terminal, replies, inputs, calls>> /\ faults' = faults + 1
      /\ mailbox'[s] = NoValue /\ inHand'[s] = {} /\ run'[s] = NoRun
  BY DEF Crash, Fault, broker
<1>3. run'[s].stage = "none" /\ RunOf(s)' = <<s, 0>>
  BY <1>2 DEF RunOf, NoRun, FreshRun
<1>4. ToldRuns(s)' = ToldRuns(s) /\ Volume(s)' = Volume(s) /\ NoValue \notin Calls
  BY <1>2, PipelineAssumption DEF ToldRuns, Volume, Calls
<1>5. Fresh(s)'
  BY <1>1, <1>2, <1>3, <1>4 DEF Fair, Fresh, Untouched
<1>6. Missed(s)'
  <2> DEFINE S == Silent(s)
             T == Silent(s)'
  <2>1. IsFiniteSet(S) /\ Cardinality(S) <= faults
    BY <1>1 DEF Fair, Missed
  <2>2. \E x : T \subseteq S \cup {x}
    <3>1. T \subseteq S \cup {RunOf(s)}
      BY <1>2, <1>3, <1>4 DEF Silent
    <3> QED
      BY <3>1
  <2>3. Missed(s)' <=> IsFiniteSet(T) /\ Cardinality(T) <= faults'
    BY DEF Missed
  <2>4. faults' \in Nat /\ faults' = faults + 1
    BY <1>1, <1>2
  <2> HIDE DEF S, T
  <2> QED
    BY <1>1, <2>1, <2>2, <2>3, <2>4, FewerSilent
<1>7. Doubled(s)'
  <2>1. IsFiniteSet(ToldRuns(s)) /\ Volume(s) <= Cardinality(ToldRuns(s)) + faults
    BY <1>1 DEF Fair, Doubled
  <2>2. PICK c \in Nat, v \in Nat : c = Cardinality(ToldRuns(s)) /\ v = Volume(s)
    BY <1>1, <2>1, Volumes, FS_CardinalityType
  <2>3. v <= c + (faults + 1)
    BY <1>1, <2>1, <2>2
  <2>4. ~AnswersAgain(s)'
    BY <1>3 DEF AnswersAgain
  <2> QED
    BY <1>2, <1>4, <2>1, <2>2, <2>3, <2>4 DEF Doubled
<1> QED
  BY <1>2, <1>3, <1>5, <1>6, <1>7 DEF Fair

(* A session of which a step says nothing.                                 *)
LEMMA OthersStayFair ==
  ASSUME FaultInv, NEW t \in Sessions, faults' \in Nat, faults' >= faults,
         calls'[t] = calls[t], mailbox'[t] = mailbox[t], inHand'[t] = inHand[t],
         run'[t] = run[t], terminal'[t] = terminal[t], replies'[t] = replies[t],
         \A n \in Calls : inputs'[<<t, n>>] = inputs[<<t, n>>]
  PROVE  Fair(t)'
<1>1. IInv /\ faults \in Nat /\ Fair(t)
  BY DEF FaultInv
<1>2. ToldRuns(t)' = ToldRuns(t) /\ Volume(t)' = Volume(t) /\ RunOf(t)' = RunOf(t)
  BY DEF ToldRuns, Volume, RunOf
<1>3. \A r \in Runs : r[1] = t => inputs'[r] = inputs[r]
  BY DEF Runs, Calls
<1>4. Silent(t)' = Silent(t) /\ (AnswersAgain(t)' => AnswersAgain(t))
  BY <1>2, <1>3 DEF Silent, AnswersAgain
<1>5. Missed(t)' /\ Doubled(t)'
  BY <1>1, <1>2, <1>4, StillCounted
<1>6. run[t].stage # "none" => inputs'[RunOf(t)] = inputs[RunOf(t)]
  BY <1>1 DEF RunOf, IInv, RunInv, RunIsNamed
<1>7. Fresh(t)'
  BY <1>1, <1>2, <1>6 DEF Fair, Fresh, Untouched
<1> QED
  BY <1>1, <1>5, <1>7 DEF Fair

LEMMA RunStepIsFair ==
  ASSUME FaultInv, NEW s \in Sessions, RunStep(s)
  PROVE  faults' \in Nat /\ \A t \in Sessions : Fair(t)'
<1>1. IInv /\ faults \in Nat
  BY DEF FaultInv
<1>2. Fair(s)' /\ faults' \in Nat /\ faults' >= faults
  BY <1>1, StartIsFair, MovesAreFair, ClaimIsFair, ReportIsFair, EndIsFair DEF RunStep
<1>3. ASSUME NEW t \in Sessions, t # s PROVE Fair(t)'
  <2>1. UNCHANGED debouncer \/ D!Serve(s) \/ D!Complete(s)
    BY DEF RunStep, StartRun, LoadHistory, Claim, ClaimAndGo, PrepareFails, AgentReturns, AgentPanics,
       EmitTerminal, Learn, LearnPanics, CompleteClaimed, ReportFailure, EndRun
  <2>2. calls'[t] = calls[t] /\ mailbox'[t] = mailbox[t] /\ inHand'[t] = inHand[t]
    BY <1>1, <1>3, <2>1 DEF D!Serve, D!Complete, debouncer, IInv, DebouncerType
  <2>3. run'[t] = run[t]
    BY <1>1, <1>3
       DEF RunStep, StartRun, LoadHistory, Claim, ClaimAndGo, PrepareFails, AgentReturns, AgentPanics,
           EmitTerminal, Learn, LearnPanics, CompleteClaimed, ReportFailure, EndRun, Goto, IInv, RunInv
  <2>4. terminal'[t] = terminal[t] /\ replies'[t] = replies[t]
    <3>1. UNCHANGED terminal \/ SendTerminal(s)
      BY DEF RunStep, StartRun, LoadHistory, Claim, ClaimAndGo, PrepareFails, AgentReturns, AgentPanics,
         EmitTerminal, Learn, LearnPanics, CompleteClaimed, ReportFailure, EndRun, broker
    <3>2. UNCHANGED replies
      BY DEF RunStep, StartRun, LoadHistory, Claim, ClaimAndGo, PrepareFails, AgentReturns, AgentPanics,
         EmitTerminal, Learn, LearnPanics, CompleteClaimed, ReportFailure, EndRun
    <3> QED
      BY <1>1, <1>3, <3>1, <3>2 DEF SendTerminal, IInv, EventInv
  <2>5. \A n \in Calls : inputs'[<<t, n>>] = inputs[<<t, n>>]
    <3>1. UNCHANGED inputs \/ Claims(s)
      BY <1>1, ClaimBecomes
         DEF RunStep, StartRun, LoadHistory, PrepareFails, AgentReturns, AgentPanics,
             EmitTerminal, Learn, LearnPanics, CompleteClaimed, ReportFailure, EndRun
    <3>2. inputs \in [Runs -> SUBSET Messages] /\ \A n \in Calls : <<t, n>> \in Runs
      BY <1>1 DEF IInv, MessageInv, Runs, Calls
    <3>3. \A n \in Calls : <<t, n>> # <<s, run[s].call>>
      BY <1>3
    <3> QED
      BY <3>1, <3>2, <3>3 DEF Claims
  <2> QED
    BY <1>2, <2>2, <2>3, <2>4, <2>5, OthersStayFair
<1> QED
  BY <1>2, <1>3

LEMMA FaultStep == FaultInv /\ [Next]_vars => FaultInv'
<1> SUFFICES ASSUME FaultInv, [Next]_vars PROVE FaultInv'
  OBVIOUS
<1>1. IInv /\ faults \in Nat /\ IInv'
  BY NextHolds DEF FaultInv
<1>2. SUFFICES faults' \in Nat /\ \A t \in Sessions : Fair(t)'
  BY <1>1 DEF FaultInv
<1>3. ASSUME UNCHANGED <<debouncer, run, terminal, replies, inputs>>, faults' \in Nat, faults' >= faults
      PROVE  \A t \in Sessions : Fair(t)'
  BY <1>3, OthersStayFair DEF debouncer
<1>4. CASE \E m \in Messages : Server(m)
  <2>1. UNCHANGED <<debouncer, run, terminal, replies, inputs>>
    BY <1>1, <1>4, ServerBecomes
  <2>2. faults' \in Nat /\ faults' >= faults
    BY <1>1, <1>4 DEF Server, StoreMessage, PublishTask, SkipTask, PublishTaskFails, Fault
  <2> QED
    BY <1>3, <2>1, <2>2
<1>5. CASE DeliverTask
  <2>1. Head(tasks) \in Sessions
    BY <1>1, <1>5, TailRange DEF DeliverTask, IInv, QueueInv
  <2>2. PICK s \in Sessions : D!Put(s)
    BY <1>5, <2>1 DEF DeliverTask
  <2>3. UNCHANGED <<run, terminal, replies, inputs>>
    BY <1>5 DEF DeliverTask
  <2>4. faults' \in Nat /\ faults' >= faults
    BY <1>1, <1>5 DEF DeliverTask, Fault
  <2>5. ASSUME NEW t \in Sessions, t # s PROVE Fair(t)'
    <3>1. calls'[t] = calls[t] /\ mailbox'[t] = mailbox[t] /\ inHand'[t] = inHand[t]
      BY <1>1, <2>2, <2>5 DEF D!Put, IInv, DebouncerType
    <3> QED
      BY <2>3, <2>4, <3>1, OthersStayFair
  <2> QED
    BY <2>2, <2>3, <2>4, <2>5, DeliveryIsFair
<1>6. ASSUME NEW s \in Sessions, RunStep(s) PROVE faults' \in Nat /\ \A t \in Sessions : Fair(t)'
  BY <1>6, RunStepIsFair
<1>7. ASSUME NEW s \in Sessions, Persist(s) PROVE faults' \in Nat /\ \A t \in Sessions : Fair(t)'
  <2>1. Fair(s)' /\ faults' \in Nat /\ faults' >= faults
    BY <1>7, PersistIsFair
  <2>2. ASSUME NEW t \in Sessions, t # s PROVE Fair(t)'
    <3>1. UNCHANGED <<inputs, debouncer, run>>
      BY <1>7 DEF Persist, StoreReply, StoreReplyFails
    <3>2. terminal'[t] = terminal[t] /\ replies'[t] = replies[t]
      BY <1>1, <1>7, <2>2 DEF Persist, StoreReply, StoreReplyFails, IInv, EventInv
    <3> QED
      BY <2>1, <3>1, <3>2, OthersStayFair DEF debouncer
  <2> QED
    BY <2>1, <2>2
<1>8. CASE Crash
  <2>1. faults' \in Nat
    BY <1>1, <1>8 DEF Crash, Fault
  <2> QED
    BY <1>8, <2>1, CrashIsFair
<1>9. CASE UNCHANGED vars
  BY <1>1, <1>3, <1>9 DEF vars, debouncer
<1> QED
  BY <1>4, <1>5, <1>6, <1>7, <1>8, <1>9 DEF Next

LEMMA FaultInit == Init => FaultInv
<1> SUFFICES ASSUME Init PROVE FaultInv
  OBVIOUS
<1>1. IInv /\ faults = 0
  BY InitHolds DEF Init
<1>2. ASSUME NEW s \in Sessions PROVE Fair(s)
  <2>1. /\ calls[s] = 0 /\ mailbox[s] = NoValue /\ inHand[s] = {} /\ run[s] = NoRun
        /\ terminal[s] = <<>> /\ replies[s] = <<>> /\ \A r \in Runs : inputs[r] = {}
    BY DEF Init, D!Init
  <2>2. run[s].stage = "none"
    BY <2>1 DEF NoRun, FreshRun
  <2>3. ToldRuns(s) = {} /\ Volume(s) = 0
    BY <2>1 DEF ToldRuns, Volume, Range
  <2>4. Silent(s) = {}
    BY <2>1 DEF Silent
  <2>5. IsFiniteSet({}) /\ Cardinality({}) = 0
    BY FS_EmptySet
  <2>6. Missed(s)
    BY <1>1, <2>4, <2>5 DEF Missed
  <2>7. Doubled(s)
    BY <1>1, <2>2, <2>3, <2>5 DEF Doubled, AnswersAgain
  <2>8. Fresh(s)
    BY <2>1, <2>2, <2>3, PipelineAssumption DEF Fresh, Untouched, Runs, Calls
  <2> QED
    BY <2>1, <2>2, <2>6, <2>7, <2>8 DEF Fair
<1> QED
  BY <1>1, <1>2 DEF FaultInv

(* A queue names no more runs than it holds events.                        *)
LEMMA RunsOfQueue ==
  ASSUME NEW q \in Seq(Event)
  PROVE  /\ IsFiniteSet({e.run : e \in Range(q)})
         /\ Cardinality({e.run : e \in Range(q)}) <= Len(q)
<1> DEFINE R == {e.run : e \in Range(q)}
           I == 1..Len(q)
           f == [i \in I |-> q[i].run]
<1>1. Len(q) \in Nat /\ DOMAIN q = I
  OBVIOUS
<1>2. f \in Surjection(I, R)
  BY <1>1 DEF Range, Surjection
<1>3. IsFiniteSet(I) /\ Cardinality(I) = Len(q)
  <2>1. IsFiniteSet(I) /\ Cardinality(I) = IF 1 > Len(q) THEN 0 ELSE Len(q) - 1 + 1
    BY <1>1, FS_Interval
  <2> QED
    BY <1>1, <2>1
<1> HIDE DEF R, I, f
<1>4. IsFiniteSet(R) /\ Cardinality(R) <= Cardinality(I)
  BY <1>2, <1>3, FS_Surjection
<1> QED
  BY <1>3, <1>4 DEF R

LEMMA FaultsExplain == FaultInv => AnswersAreFaults
<1> SUFFICES ASSUME FaultInv, NEW s \in Sessions
             PROVE  /\ Cardinality({r \in Runs : r[1] = s /\ Unanswered(r)}) <= faults
                    /\ Duplicates(s) <= faults
  BY DEF AnswersAreFaults
<1>1. IInv /\ faults \in Nat /\ Fair(s)
  BY DEF FaultInv
<1>2. Cardinality({r \in Runs : r[1] = s /\ Unanswered(r)}) <= faults
  <2> DEFINE U == {r \in Runs : r[1] = s /\ Unanswered(r)}
             S == Silent(s)
  <2>1. U \subseteq S
    BY DEF Unanswered, Silent, ToldRuns, Reported
  <2>2. IsFiniteSet(S) /\ Cardinality(S) <= faults
    BY <1>1 DEF Fair, Missed
  <2> HIDE DEF U, S
  <2>3. U \subseteq S /\ faults >= faults
    BY <1>1, <2>1
  <2>4. Cardinality(U) <= faults
    BY <1>1, <2>2, <2>3, FewerSilent
  <2> QED
    BY <2>4 DEF U
<1>3. Duplicates(s) <= faults
  <2> DEFINE P == {e.run : e \in Range(replies[s])}
             Q == {e.run : e \in Range(terminal[s])}
             T == ToldRuns(s)
  <2>1. T = P \cup Q
    BY DEF ToldRuns
  <2>2. /\ IsFiniteSet(P) /\ IsFiniteSet(Q)
        /\ Cardinality(Q) <= Len(terminal[s])
    BY <1>1, Volumes, RunsOfQueue
  <2>3. Volume(s) = Len(terminal[s]) + Len(replies[s]) /\ Volume(s) <= Cardinality(T) + faults
    BY <1>1 DEF Volume, Fair, Doubled
  <2>4. Duplicates(s) = Len(replies[s]) - Cardinality(P)
    BY DEF Duplicates
  <2> HIDE DEF P, Q, T
  <2>5. Cardinality(T) = Cardinality(P) + Cardinality(Q) - Cardinality(P \cap Q)
    BY <2>1, <2>2, FS_Union
  <2>6. IsFiniteSet(P \cap Q) /\ IsFiniteSet(T)
    BY <2>1, <2>2, FS_Subset, FS_Union
  <2>7. PICK p \in Nat, q \in Nat, b \in Nat, m \in Nat, n \in Nat :
          /\ p = Cardinality(P) /\ q = Cardinality(Q) /\ b = Cardinality(P \cap Q)
          /\ m = Len(terminal[s]) /\ n = Len(replies[s])
    <3>1. Cardinality(P) \in Nat /\ Cardinality(Q) \in Nat /\ Cardinality(P \cap Q) \in Nat
      BY <2>2, <2>6, FS_CardinalityType
    <3>2. Len(terminal[s]) \in Nat /\ Len(replies[s]) \in Nat
      BY <1>1, Volumes
    <3> QED
      BY <3>1, <3>2
  <2>8. q <= m /\ m + n <= p + q - b + faults
    BY <2>2, <2>3, <2>5, <2>7
  <2>9. n - p <= faults
    BY <1>1, <2>8
  <2> QED
    BY <2>4, <2>7, <2>9
<1> QED
  BY <1>2, <1>3

(* Whatever fails, and however often: an answer that is missing, and one   *)
(* that is given twice, has cost a fault of its own.                       *)
THEOREM MissingAnswersAreFaults == SafeSpec => []AnswersAreFaults
  BY FaultInit, FaultStep, FaultsExplain, PTL DEF SafeSpec
=============================================================================
