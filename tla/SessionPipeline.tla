--------------------------- MODULE SessionPipeline ---------------------------
(***************************************************************************)
(* The path of a user message: AddMessage stores it and publishes a task;  *)
(* the worker's consumer hands the task to the debouncer and acknowledges  *)
(* it at once; a run of the session claims every pending message, works on *)
(* them, publishes its terminal event and completes what it claimed; the   *)
(* server stores the reply. (service/session_service.go,                   *)
(* worker/taskconsumer, agent/runtime/lifecycle, runnable.)                *)
(*                                                                         *)
(* The debouncer is taken at its word: LatestWins, which TrailingDebouncer *)
(* is proved to implement. A task carries no message, only its session; a  *)
(* run is named by its session and the debouncer's call number.            *)
(*                                                                         *)
(* Faults says which failures the environment may inject, each at the step *)
(* of the code that meets it:                                              *)
(*   "crash"    the worker process dies or is shut down, and starts again  *)
(*   "ack"      an acknowledgement is lost, so JetStream delivers again    *)
(*   "publish"  an event cannot be published                               *)
(*   "db"       a database statement fails                                 *)
(*   "panic"    the agent, or the learning run after it, panics            *)
(***************************************************************************)
EXTENDS Naturals, FiniteSets, Sequences, Functions

CONSTANTS
  Messages,       \* user messages; every one is sent at most once
  Sessions,       \* sessions, all of one worker
  SessionOf(_),   \* the session a message is sent to
  Faults,         \* the faults that may happen
  MaxFaults,      \* bound: how many of them do
  MaxCalls,       \* bound: deliveries per session
  QueueLimit,     \* MaxMsgsPerSubject of the task stream
  HistoryLimit,   \* messages a run reads back; 20 unless configured
  MaxOvertakes,   \* bound: rows stored while a message waits with its number
  NoValue         \* an empty mailbox of the debouncer

FaultKinds == {"crash", "ack", "publish", "db", "panic"}

ASSUME PipelineAssumption ==
  /\ \A m \in Messages : SessionOf(m) \in Sessions
  /\ Faults \subseteq FaultKinds
  /\ MaxFaults \in Nat /\ MaxCalls \in Nat
  /\ QueueLimit \in Nat \ {0} /\ HistoryLimit \in Nat \ {0} /\ MaxOvertakes \in Nat
  /\ NoValue \notin Nat

VARIABLES
  status,       \* session_messages.status of each user message, or "absent"
  request,      \* where the AddMessage request of each message stands
  allocated,    \* sessions with an allocated assistant (= worker)
  tasks,        \* undelivered messages of the worker's task subject
  calls, mailbox, inHand,   \* the debouncer, as LatestWins has it
  run,          \* the run of each session, at most one
  terminal,     \* undelivered terminal events of each session
  replies,      \* assistant messages stored, in order, per session
  newer,        \* rows of its session that are numbered after each message
  inputs,       \* history: the messages each run claimed
  faults        \* faults so far

broker == <<tasks, terminal>>
debouncer == <<calls, mailbox, inHand>>
vars == <<status, request, allocated, tasks, calls, mailbox, inHand, run, terminal,
          replies, newer, inputs, faults>>

D == INSTANCE LatestWins WITH Keys <- Sessions

Of(s) == {m \in Messages : SessionOf(m) = s}
InStatus(s, st) == {m \in Of(s) : status[m] = st}

Runs == Sessions \X (1..MaxCalls)
Outcomes == {"completed", "failed"}
Event == [run : Runs, outcome : Outcomes]

(* The stages of Runner.Run, in the order of the code; "unwind" and        *)
(* "report" are the deferred calls a panic passes through.                 *)
Stages == {"none", "load", "claim", "agent", "emit", "learn", "complete",
           "unwind", "report", "end"}
FreshRun(stage, call) == [stage |-> stage, call |-> call, outcome |-> "completed",
                          history |-> {}, claimed |-> {}]
NoRun == FreshRun("none", 0)
RunState == [stage : Stages, call : 0..MaxCalls, outcome : Outcomes,
             history : SUBSET Messages, claimed : SUBSET Messages]

Fault(kind) == kind \in Faults /\ faults < MaxFaults /\ faults' = faults + 1

Init ==
  /\ status = [m \in Messages |-> "absent"]
  /\ request = [m \in Messages |-> "unsent"]
  /\ allocated \in SUBSET Sessions
  /\ tasks = <<>>
  /\ D!Init
  /\ run = [s \in Sessions |-> NoRun]
  /\ terminal = [s \in Sessions |-> <<>>]
  /\ replies = [s \in Sessions |-> <<>>]
  /\ newer = [m \in Messages |-> 0]
  /\ inputs = [r \in Runs |-> {}]
  /\ faults = 0

-----------------------------------------------------------------------------
(* The server: AddMessage and publishWorkerTask.                           *)

(* GetNextSequence: a row is numbered after those that are there, but rows *)
(* that are stored before it is created may be numbered like it or higher. *)
Rows(s) == Cardinality({m \in Of(s) : status[m] # "absent"}) + Len(replies[s])
Places(s) == {k \in 0..MaxOvertakes : k <= Rows(s)}

(* A row of the session is stored, with k rows numbered after it.          *)
Insert(s, k) ==
  [m \in Messages |->
     IF m \in Of(s) /\ status[m] # "absent" /\ newer[m] >= k THEN newer[m] + 1 ELSE newer[m]]

(* The row is created before anything is published.                        *)
StoreMessage(m) ==
  /\ request[m] = "unsent"
  /\ request' = [request EXCEPT ![m] = "stored"]
  /\ status' = [status EXCEPT ![m] = "pending"]
  /\ \E k \in Places(SessionOf(m)) : newer' = [Insert(SessionOf(m), k) EXCEPT ![m] = k]
  /\ UNCHANGED <<allocated, broker, debouncer, run, replies, inputs, faults>>

(* Mutant of Enqueue: the stream has no limit.                             *)
EnqueueUnbounded(s) == Append(tasks, s)

(* A full subject discards its oldest message (DiscardOld).                *)
Enqueue(s) == Append(IF Len(tasks) = QueueLimit THEN Tail(tasks) ELSE tasks, s)

(* The session has a worker, or the inferrer assigns one.                  *)
PublishTask(m) ==
  /\ request[m] = "stored"
  /\ request' = [request EXCEPT ![m] = "accepted"]
  /\ allocated' = allocated \cup {SessionOf(m)}
  /\ tasks' = Enqueue(SessionOf(m))
  /\ UNCHANGED <<status, terminal, debouncer, run, replies, newer, inputs, faults>>

(* No worker for the session: the request succeeds without a task.         *)
SkipTask(m) ==
  /\ request[m] = "stored"
  /\ SessionOf(m) \notin allocated
  /\ request' = [request EXCEPT ![m] = "parked"]
  /\ UNCHANGED <<status, allocated, broker, debouncer, run, replies, newer, inputs, faults>>

(* The request fails; the row it created stays.                            *)
PublishTaskFails(m) ==
  /\ request[m] = "stored"
  /\ Fault("publish")
  /\ request' = [request EXCEPT ![m] = "refused"]
  /\ allocated' = allocated \cup {SessionOf(m)}
  /\ UNCHANGED <<status, broker, debouncer, run, replies, newer, inputs>>

-----------------------------------------------------------------------------
(* The worker: Consumer.handleEvent, the debouncer, lifecycle.Runner.      *)

(* Mutant of DeliverTask: a task that finds its session running is dropped.*)
DeliverTaskUnlessRunning ==
  /\ tasks # <<>>
  /\ \/ run[Head(tasks)].stage = "none" /\ D!Put(Head(tasks))
     \/ run[Head(tasks)].stage # "none" /\ UNCHANGED debouncer
  /\ tasks' = Tail(tasks)
  /\ UNCHANGED <<status, request, allocated, run, terminal, replies, newer, inputs, faults>>

(* handleEvent calls the debouncer and returns, so subscribeWithDurable    *)
(* acknowledges the task before its run has started. A task whose          *)
(* acknowledgement is lost is delivered again, behind those already queued.*)
DeliverTask ==
  /\ tasks # <<>>
  /\ D!Put(Head(tasks))
  /\ \/ tasks' = Tail(tasks) /\ UNCHANGED faults
     \/ tasks' = Append(Tail(tasks), Head(tasks)) /\ Fault("ack")
  /\ UNCHANGED <<status, request, allocated, run, terminal, replies, newer, inputs>>

(* The debouncer starts consumer.runTask.                                  *)
StartRun(s) ==
  /\ D!Serve(s)
  /\ run' = [run EXCEPT ![s] = FreshRun("load", mailbox[s])]
  /\ UNCHANGED <<status, request, allocated, broker, replies, newer, inputs, faults>>

AtStage(s, stage) == run[s].stage = stage
Goto(s, stage) == run' = [run EXCEPT ![s].stage = stage]

(* A database error in Prepare: emitFailed, and nothing was claimed.       *)
PrepareFails(s) ==
  /\ AtStage(s, "load") \/ AtStage(s, "claim")
  /\ Fault("db")
  /\ run' = [run EXCEPT ![s].stage = "report", ![s].outcome = "failed"]
  /\ UNCHANGED <<status, request, allocated, broker, debouncer, replies, newer, inputs>>

(* Mutant of Settled: filterContextMessages is forgotten.                  *)
AnyStatus == {"pending", "processing", "completed"}

(* filterContextMessages: only settled messages become history.            *)
Settled == {"completed"}

(* GetRecentSessionMessages: the last rows, whoever wrote them and in any  *)
(* status; the filter comes after the limit.                               *)
Recent(s) == {m \in Of(s) : status[m] # "absent" /\ newer[m] < HistoryLimit}

LoadHistory(s) ==
  /\ AtStage(s, "load")
  /\ run' = [run EXCEPT ![s].stage = "claim",
                        ![s].history = {m \in Recent(s) : status[m] \in Settled}]
  /\ UNCHANGED <<status, request, allocated, broker, debouncer, replies, newer, inputs, faults>>

(* What Claim does with the messages it found and the stage it goes to.    *)
ClaimAndGo(s, mine, stage) ==
  /\ AtStage(s, "claim")
  /\ status' = [m \in Messages |-> IF m \in mine THEN "processing" ELSE status[m]]
  /\ run' = [run EXCEPT ![s].stage = stage, ![s].claimed = mine]
  /\ inputs' = [inputs EXCEPT ![<<s, run[s].call>>] = @ \cup mine]
  /\ UNCHANGED <<request, allocated, broker, debouncer, replies, newer, faults>>

StageAfterClaim(mine) == IF mine = {} THEN "end" ELSE "agent"

(* Mutant of Claim: the status filter misses, so that interrupted work is  *)
(* claimed again.                                                          *)
ClaimUnfinished(s) ==
  LET mine == InStatus(s, "pending") \cup InStatus(s, "processing") IN
  ClaimAndGo(s, mine, StageAfterClaim(mine))

(* Mutant of Claim: an empty claim does not end the run.                   *)
ClaimAlwaysRuns(s) == ClaimAndGo(s, InStatus(s, "pending"), "agent")

(* Mutant of Claim: one message at a time.                                 *)
ClaimSingle(s) ==
  \E mine \in SUBSET InStatus(s, "pending") :
    /\ Cardinality(mine) = 1
    /\ ClaimAndGo(s, mine, "agent")

(* ClaimSessionMessagesByStatus, one transaction; an empty claim ends the  *)
(* run without an event (ErrNoPendingSessionMessages).                     *)
Claim(s) ==
  LET mine == InStatus(s, "pending") IN ClaimAndGo(s, mine, StageAfterClaim(mine))

(* The delegate returns a result or an error (EnsureModelConfig's counts   *)
(* as one), or panics.                                                     *)
AgentReturns(s) ==
  /\ AtStage(s, "agent")
  /\ \E o \in Outcomes :
       run' = [run EXCEPT ![s].stage = "emit", ![s].outcome = o]
  /\ UNCHANGED <<status, request, allocated, broker, debouncer, replies, newer, inputs, faults>>

AgentPanics(s) ==
  /\ AtStage(s, "agent")
  /\ Fault("panic")
  /\ run' = [run EXCEPT ![s].stage = "unwind", ![s].outcome = "failed"]
  /\ UNCHANGED <<status, request, allocated, broker, debouncer, replies, newer, inputs>>

(* MQStreamSink.Emit of the terminal event: an error is only logged.       *)
SendTerminal(s) ==
  \/ /\ terminal' = [terminal EXCEPT ![s] =
          Append(@, [run |-> <<s, run[s].call>>, outcome |-> run[s].outcome])]
     /\ UNCHANGED faults
  \/ Fault("publish") /\ UNCHANGED terminal

(* emitSucceeded or emitFailed, before learning and completion.            *)
EmitTerminal(s) ==
  /\ AtStage(s, "emit")
  /\ SendTerminal(s)
  /\ Goto(s, "learn")
  /\ UNCHANGED <<status, request, allocated, tasks, debouncer, replies, newer, inputs>>

(* AfterRunLearning: its run claims nothing and emits nothing; its errors  *)
(* are ignored, but a panic of its agent unwinds Runner.Run.               *)
Learn(s) ==
  /\ AtStage(s, "learn")
  /\ Goto(s, "complete")
  /\ UNCHANGED <<status, request, allocated, broker, debouncer, replies, newer, inputs, faults>>

LearnPanics(s) ==
  /\ AtStage(s, "learn")
  /\ run[s].outcome = "completed"
  /\ Fault("panic")
  /\ run' = [run EXCEPT ![s].stage = "unwind", ![s].outcome = "failed"]
  /\ UNCHANGED <<status, request, allocated, broker, debouncer, replies, newer, inputs>>

(* The deferred CompleteClaimed, whatever the outcome; when the update     *)
(* fails the error is only logged.                                         *)
CompleteClaimed(s) ==
  /\ AtStage(s, "complete") \/ AtStage(s, "unwind")
  /\ Goto(s, IF AtStage(s, "unwind") THEN "report" ELSE "end")
  /\ \/ /\ status' = [m \in Messages |->
              IF m \in run[s].claimed THEN "completed" ELSE status[m]]
        /\ UNCHANGED faults
     \/ Fault("db") /\ UNCHANGED status
  /\ UNCHANGED <<request, allocated, broker, debouncer, replies, newer, inputs>>

(* The recover of Runner.Run, or emitFailed after a failed Prepare.        *)
ReportFailure(s) ==
  /\ AtStage(s, "report")
  /\ SendTerminal(s)
  /\ Goto(s, "end")
  /\ UNCHANGED <<status, request, allocated, tasks, debouncer, replies, newer, inputs>>

EndRun(s) ==
  /\ AtStage(s, "end")
  /\ D!Complete(s)
  /\ run' = [run EXCEPT ![s] = NoRun]
  /\ UNCHANGED <<status, request, allocated, broker, replies, newer, inputs, faults>>

(* The worker loses the debouncer and its runs; rows and streams survive.  *)
Crash ==
  /\ Fault("crash")
  /\ mailbox' = [s \in Sessions |-> NoValue]
  /\ inHand' = [s \in Sessions |-> {}]
  /\ run' = [s \in Sessions |-> NoRun]
  /\ UNCHANGED <<status, request, allocated, broker, calls, replies, newer, inputs>>

-----------------------------------------------------------------------------
(* Mutant of StoreReply: only run.completed events are stored.             *)
StoreReplyOfSuccess(s) ==
  /\ terminal[s] # <<>>
  /\ replies' = [replies EXCEPT ![s] =
       IF Head(terminal[s]).outcome = "completed" THEN Append(@, Head(terminal[s])) ELSE @]
  /\ terminal' = [terminal EXCEPT ![s] = Tail(@)]
  /\ \E k \in Places(s) : newer' = Insert(s, k)
  /\ UNCHANGED <<status, request, allocated, tasks, debouncer, run, inputs, faults>>

(* Mutant of StoreReply: an event that was stored is not acknowledged.     *)
StoreReplyUnacknowledged(s) ==
  /\ terminal[s] # <<>>
  /\ Len(replies[s]) < 2 * MaxCalls
  /\ replies' = [replies EXCEPT ![s] = Append(@, Head(terminal[s]))]
  /\ \E k \in Places(s) : newer' = Insert(s, k)
  /\ UNCHANGED <<status, request, allocated, broker, debouncer, run, inputs, faults>>

(* The server: handleSessionCompletedMessage and CompleteSessionMessage or *)
(* FailedSessionMessage. A service error is logged and the event           *)
(* acknowledged; one whose acknowledgement is lost comes again, later.      *)
StoreReply(s) ==
  /\ terminal[s] # <<>>
  /\ replies' = [replies EXCEPT ![s] = Append(@, Head(terminal[s]))]
  /\ \/ terminal' = [terminal EXCEPT ![s] = Tail(@)] /\ UNCHANGED faults
     \/ terminal' = [terminal EXCEPT ![s] = Append(Tail(@), Head(@))] /\ Fault("ack")
  /\ \E k \in Places(s) : newer' = Insert(s, k)
  /\ UNCHANGED <<status, request, allocated, tasks, debouncer, run, inputs>>

StoreReplyFails(s) ==
  /\ terminal[s] # <<>>
  /\ Fault("db")
  /\ terminal' = [terminal EXCEPT ![s] = Tail(@)]
  /\ UNCHANGED <<status, request, allocated, tasks, debouncer, run, replies, newer, inputs>>

-----------------------------------------------------------------------------
Server(m) == StoreMessage(m) \/ PublishTask(m) \/ SkipTask(m) \/ PublishTaskFails(m)

RunStep(s) ==
  \/ StartRun(s)
  \/ LoadHistory(s) \/ Claim(s) \/ PrepareFails(s)
  \/ AgentReturns(s) \/ AgentPanics(s)
  \/ EmitTerminal(s) \/ Learn(s) \/ LearnPanics(s)
  \/ CompleteClaimed(s) \/ ReportFailure(s) \/ EndRun(s)

Persist(s) == StoreReply(s) \/ StoreReplyFails(s)

Next ==
  \/ \E m \in Messages : Server(m)
  \/ DeliverTask
  \/ \E s \in Sessions : RunStep(s) \/ Persist(s)
  \/ Crash

SafeSpec == Init /\ [][Next]_vars

(* Requests that have begun finish, JetStream delivers, runs go on (the    *)
(* agent returns) and terminal events reach the server. Users need not     *)
(* send anything.                                                          *)
Fairness ==
  /\ \A m \in Messages : WF_vars(PublishTask(m) \/ SkipTask(m) \/ PublishTaskFails(m))
  /\ WF_vars(DeliverTask)
  /\ \A s \in Sessions : WF_vars(RunStep(s)) /\ WF_vars(Persist(s))

Spec == SafeSpec /\ Fairness

-----------------------------------------------------------------------------
RunOf(s) == <<s, run[s].call>>
BeforeClaim(s) == run[s].stage \in {"load", "claim"}
HasClaimed(s) == run[s].stage \in {"agent", "emit", "learn", "complete", "unwind"}

TypeOK ==
  /\ status \in [Messages -> {"absent", "pending", "processing", "completed"}]
  /\ request \in [Messages -> {"unsent", "stored", "accepted", "parked", "refused"}]
  /\ allocated \subseteq Sessions
  /\ tasks \in Seq(Sessions) /\ Len(tasks) <= QueueLimit
  /\ run \in [Sessions -> RunState]
  /\ terminal \in [Sessions -> Seq(Event)]
  /\ replies \in [Sessions -> Seq(Event)]
  /\ newer \in [Messages -> Nat]
  /\ inputs \in [Runs -> SUBSET Messages]

(* A message is the input of at most one run, whatever is delivered twice  *)
(* and wherever the worker dies.                                           *)
ClaimedOnce == \A p, q \in Runs : p # q => inputs[p] \cap inputs[q] = {}

(* A reply that reports success answers a run that had something to do.    *)
AnswersInput ==
  \A s \in Sessions : \A e \in Range(terminal[s]) \cup Range(replies[s]) :
    e.outcome = "completed" => inputs[e.run] # {}

(* While an accepted message is pending, a task, a waiting                 *)
(* debounced value or a run that has not claimed yet will come for it.     *)
PendingHasTrigger ==
  \A m \in Messages : request[m] = "accepted" /\ status[m] = "pending" =>
    LET s == SessionOf(m) IN
    s \in Range(tasks) \/ mailbox[s] # NoValue \/ BeforeClaim(s)

(* A message that is being processed is in the hands of a live run.        *)
ProcessingIsOwned ==
  \A m \in Messages : status[m] = "processing" =>
    LET s == SessionOf(m) IN HasClaimed(s) /\ m \in run[s].claimed

EarlierInput(s) == UNION {inputs[<<s, n>>] : n \in 1..(run[s].call - 1)}

(* A message that lies behind what the history has of its session, with at *)
(* least as many rows after it as the limit allows.                        *)
BeyondLimit(s, m) ==
  newer[m] >= HistoryLimit /\ \A h \in run[s].history : newer[h] < newer[m]

(* Of the user's messages a run sees the input of the earlier runs of its  *)
(* session as history, and never its own input, nor what came in while it  *)
(* was claiming. What it does not see of the earlier input is beyond the   *)
(* limit of the history, or was left unfinished: its run died, or could    *)
(* not complete it, and it stays in processing.                            *)
HistoryIsEarlierInput ==
  \A s \in Sessions : HasClaimed(s) =>
    /\ run[s].history \subseteq EarlierInput(s)
    /\ \A m \in EarlierInput(s) \ run[s].history :
         BeyondLimit(s, m) \/ status[m] = "processing"

Unanswered(r) ==
  /\ inputs[r] # {}
  /\ RunOf(r[1]) = r => run[r[1]].stage = "end"
  /\ \A e \in Range(terminal[r[1]]) \cup Range(replies[r[1]]) : e.run # r

(* Nothing is forgotten: a pending message has something that will come    *)
(* for it, a message that is being processed has a live run, and a run     *)
(* that claimed messages and has ended has reported its outcome.           *)
NothingForgotten ==
  /\ PendingHasTrigger
  /\ ProcessingIsOwned
  /\ \A r \in Runs : ~Unanswered(r)

Duplicates(s) == Len(replies[s]) - Cardinality({e.run : e \in Range(replies[s])})

(* Where anything may fail, every answer that is missing, and every one    *)
(* beyond the first of its run, has cost a fault of its own: a publish, a  *)
(* statement, a lost acknowledgement, a crash or a panic.                  *)
AnswersAreFaults ==
  \A s \in Sessions :
    /\ Cardinality({r \in Runs : r[1] = s /\ Unanswered(r)}) <= faults
    /\ Duplicates(s) <= faults

(* A message whose task was published is eventually worked on and the run  *)
(* that worked on it answered in the session.                              *)
Answered(m) ==
  LET s == SessionOf(m) IN
  /\ status[m] = "completed"
  /\ \E e \in Range(replies[s]) : m \in inputs[e.run]

EventuallyAnswered ==
  \A m \in Messages : request[m] = "accepted" ~> Answered(m)

(* The promise of MessageBatches.                                          *)
Work ==
  [m \in Messages |->
     CASE status[m] = "absent" -> "unsent"
       [] status[m] = "pending" -> "waiting"
       [] status[m] = "processing" -> "inWork"
       [] status[m] = "completed" -> "done"]

Batches == INSTANCE MessageBatches WITH work <- Work

WorksInBatches == Batches!Spec
=============================================================================
