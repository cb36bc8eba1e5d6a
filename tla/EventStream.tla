---------------------------- MODULE EventStream ----------------------------
(***************************************************************************)
(* How the events of a session's runs reach the browsers that watch it.    *)
(*                                                                         *)
(*   runtime goroutines -> RunJournal.Append (numbered under the lock)     *)
(*     -> MQStreamSink.Emit (published after the lock is released)         *)
(*     -> the session's JetStream subject, shared by all its runs          *)
(*     -> StreamSessionEvents' subscription -> ChannelSink -> the browser  *)
(*                                                                         *)
(* The lifecycle goroutine "main" emits the start, the deltas and the end  *)
(* of a run; a lane is a tool call the agent framework runs on a goroutine *)
(* of its own.  Every run numbers its events from 1, and a browser that    *)
(* reconnects names only the last number it was sent.                      *)
(***************************************************************************)
EXTENDS Naturals, Sequences, FiniteSets, SequencesExt

CONSTANTS Lanes,      \* goroutines that execute tool calls
          Viewers,    \* browsers watching the session
          MaxRuns,    \* runs of the session
          MaxEvents,  \* events of all the runs
          MaxLeaves,  \* connections each browser closes
          MaxRepeats, \* events that NATS redelivers to each browser
          Room,       \* capacity of a connection's event channel
          MayLose     \* whether a publish to JetStream may fail

EventStreamAssumption ==
  /\ "main" \notin Lanes
  /\ MaxRuns \in Nat /\ MaxEvents \in Nat /\ MaxLeaves \in Nat /\ MaxRepeats \in Nat
  /\ IsFiniteSet(Lanes)
  /\ Room \in Nat \ {0} /\ MayLose \in BOOLEAN

Emitters == Lanes \cup {"main"}
NoEvent == [run |-> 0, seq |-> 0, by |-> "main", kind |-> "none", archive |-> {}]
Terminal == {"completed", "failed"}

VARIABLES
  phase,    \* where the lifecycle goroutine is in the current run
  number,   \* the current run, the last one when none is under way
  journal,  \* per run: RunJournal.maxSeq and the numbers in its rawEvents
  archive,  \* the record CompletedPayload took for the terminal event
  busy,     \* per lane: the run whose tool call it executes, 0 for none
  outbox,   \* per emitter: the event it numbered and has not yet published
  stream,   \* the subject, oldest first
  conn,     \* per viewer: its connection
  got,      \* per viewer: what the browser was sent, over all connections
  leaves,   \* per viewer: connections it closed
  lost,     \* history: events whose publish failed
  again,    \* history, per viewer: events that NATS delivered a second time
  missed    \* history, per viewer: events thrown away by a full channel or
            \* with the channel of a closed connection

lifecycle == <<phase, number, archive>>
viewing == <<conn, got, leaves, missed, again>>
vars == <<lifecycle, journal, busy, outbox, stream, lost, viewing>>

(* join is where the viewer's watching began: the position of the last     *)
(* connection that asked for new events only.                              *)
NoConn == [open |-> FALSE, from |-> 0, join |-> 1, next |-> 1, queue |-> <<>>]

Init ==
  /\ phase = "idle" /\ number = 0 /\ archive = {}
  /\ journal = [r \in 1..MaxRuns |-> [maxSeq |-> 0, raw |-> {}]]
  /\ busy = [l \in Lanes |-> 0]
  /\ outbox = [e \in Emitters |-> NoEvent]
  /\ stream = <<>> /\ lost = {}
  /\ conn = [v \in Viewers |-> NoConn]
  /\ got = [v \in Viewers |-> <<>>]
  /\ leaves = [v \in Viewers |-> 0]
  /\ missed = [v \in Viewers |-> {}]
  /\ again = [v \in Viewers |-> {}]

-----------------------------------------------------------------------------
(* The journal and the sink.                                               *)

(* Append: number and record the event under the lock, then leave it with  *)
(* the goroutine that will publish it.  raw is what an archive is made of: *)
(* the run's completion and its answer have places of their own there.     *)
Record(e, r, kind, facts) ==
  LET seq == journal[r].maxSeq + 1 IN
  /\ outbox[e] = NoEvent
  /\ journal' = [journal EXCEPT ![r] =
       [maxSeq |-> seq,
        raw |-> IF kind \in {"completed", "result"} THEN @.raw ELSE @.raw \cup {seq}]]
  /\ outbox' = [outbox EXCEPT ![e] =
       [run |-> r, seq |-> seq, by |-> e, kind |-> kind, archive |-> facts]]

(* The run has not recorded its end.                                       *)
UnderWay == phase \notin {"idle", "learning"}

(* MaxEvents: room is kept for the terminal event of the current run and   *)
(* for the end of every tool call that has begun.                          *)
Emitted == Len(stream) + Cardinality(lost) + Cardinality({e \in Emitters : outbox[e] # NoEvent})
Due == Cardinality({l \in Lanes : busy[l] # 0}) + (IF UnderWay THEN 1 ELSE 0)
RoomFor(n) == Emitted + Due + n <= MaxEvents

(* The sink's publish.  A failed one is logged and forgotten.              *)
Publish(e) ==
  /\ outbox[e] # NoEvent
  /\ outbox' = [outbox EXCEPT ![e] = NoEvent]
  /\ \/ stream' = Append(stream, outbox[e]) /\ UNCHANGED lost
     \/ MayLose /\ lost' = lost \cup {outbox[e]} /\ UNCHANGED stream
  /\ UNCHANGED <<lifecycle, journal, busy, viewing>>

-----------------------------------------------------------------------------
(* A run.  The lifecycle goroutine does nothing else while it publishes.   *)

MainAt(p) == phase = p /\ outbox["main"] = NoEvent

(* Runs of a session follow one another, each with a journal of its own.   *)
(* A run whose preparation fails goes straight to its end.                 *)
StartRun ==
  /\ MainAt("idle") /\ number < MaxRuns /\ RoomFor(2)
  /\ number' = number + 1
  /\ \/ phase' = "running" /\ Record("main", number + 1, "started", {})
     \/ phase' = "failing" /\ UNCHANGED <<journal, outbox>>
  /\ UNCHANGED <<archive, busy, stream, lost, viewing>>

(* A message or reasoning delta.                                           *)
EmitDelta ==
  /\ MainAt("running") /\ RoomFor(1)
  /\ Record("main", number, "step", {})
  /\ UNCHANGED <<lifecycle, busy, stream, lost, viewing>>

(* InvokableRun: the call is announced, executed, and its end announced.   *)
StartTool(l) ==
  /\ MainAt("running") /\ busy[l] = 0 /\ RoomFor(2)
  /\ busy' = [busy EXCEPT ![l] = number]
  /\ Record(l, number, "step", {})
  /\ UNCHANGED <<lifecycle, stream, lost, viewing>>

EndTool(l) ==
  /\ busy[l] # 0
  /\ busy' = [busy EXCEPT ![l] = 0]
  /\ Record(l, busy[l], "step", {})
  /\ UNCHANGED <<lifecycle, stream, lost, viewing>>

(* The iterator of a run that succeeds is exhausted, so its tool calls     *)
(* have returned.                                                          *)
Joined == \A l \in Lanes : busy[l] # number /\ outbox[l].run # number

(* A run that succeeds announces its answer, when there is one.            *)
EmitResult ==
  /\ MainAt("running") /\ Joined /\ RoomFor(1)
  /\ phase' = "answered"
  /\ Record("main", number, "result", {})
  /\ UNCHANGED <<number, archive, busy, stream, lost, viewing>>

(* Mutant of TakeArchive: success does not wait for the end of the iterator. *)
TakeArchiveWithoutDraining ==
  /\ \/ MainAt("running") /\ phase' \in {"completing", "failing"}
     \/ MainAt("answered") /\ phase' = "completing"
  /\ archive' = journal[number].raw
  /\ UNCHANGED <<number, journal, busy, outbox, stream, lost, viewing>>

(* CompletedPayload takes the record under the lock.  A run fails on the   *)
(* first error it sees, whatever its tool calls are doing.                 *)
TakeArchive ==
  /\ \/ MainAt("running") /\ Joined /\ phase' = "completing"
     \/ MainAt("answered") /\ phase' = "completing"
     \/ MainAt("running") /\ phase' = "failing"
  /\ archive' = journal[number].raw
  /\ UNCHANGED <<number, journal, busy, outbox, stream, lost, viewing>>

(* Mutant of EndRun: a run that fails announces nothing. *)
EndRunSilentOnFailure ==
  /\ \/ MainAt("completing") /\ phase' = "learning" /\ Record("main", number, "completed", archive)
     \/ MainAt("failing") /\ phase' = "idle" /\ UNCHANGED <<journal, outbox>>
  /\ archive' = {}
  /\ UNCHANGED <<number, busy, stream, lost, viewing>>

(* The terminal event is appended under the lock once more. A run that     *)
(* completed may be followed by a learning run, which emits nothing.       *)
EndRun ==
  /\ \/ MainAt("completing") /\ phase' = "learning" /\ Record("main", number, "completed", archive)
     \/ MainAt("failing") /\ phase' = "idle" /\ Record("main", number, "failed", archive)
  /\ archive' = {}
  /\ UNCHANGED <<number, busy, stream, lost, viewing>>

LearningEnds ==
  /\ MainAt("learning") /\ phase' = "idle"
  /\ UNCHANGED <<number, archive, journal, busy, outbox, stream, lost, viewing>>

(* The delegate panics, in the run or in the learning run. Run recovers    *)
(* and reports a failure through the journal, without an archive.          *)
Panic ==
  /\ \/ MainAt("running")
     \/ MainAt("learning") /\ RoomFor(1)
  /\ phase' = "idle"
  /\ Record("main", number, "failed", {})
  /\ UNCHANGED <<number, archive, busy, stream, lost, viewing>>

-----------------------------------------------------------------------------
(* A viewer.                                                               *)

LastSequence(v) == IF got[v] = <<>> THEN 0 ELSE Last(got[v]).seq

(* Mutant of StartOf: a browser that resumes gets new events only. *)
StartAlwaysNew(from, new) == new

(* SubscribeFrom: where a subscription begins.                             *)
StartOf(from, new) == IF from = 0 THEN new ELSE 1

(* SessionEvents: subscribe to what comes next, or, for a browser that     *)
(* names a number, to the subject from its beginning.                      *)
Connect(v) ==
  LET from == LastSequence(v)
      new == Len(stream) + 1 IN
  /\ ~conn[v].open
  /\ conn' = [conn EXCEPT ![v] =
       [open |-> TRUE, from |-> from, queue |-> <<>>,
        next |-> StartOf(from, new),
        join |-> IF from = 0 THEN new ELSE @.join]]
  /\ UNCHANGED <<lifecycle, journal, busy, outbox, stream, lost, got, leaves, missed, again>>

(* The events the subscription's handler passes on.                        *)
Wanted(v, e) == e.seq > conn[v].from

(* Mutant of Fits: the channel has no limit. *)
FitsAlways(v) == TRUE

(* ChannelSink.Emit finds room in the channel.                             *)
Fits(v) == Len(conn[v].queue) < Room

(* The subscription's handler skips the numbers the browser has passed and *)
(* gives up at once on a full channel.                                     *)
Handle(v, e, next) ==
  /\ conn' = [conn EXCEPT ![v].next = next,
                          ![v].queue = IF Wanted(v, e) /\ Fits(v) THEN Append(@, e) ELSE @]
  /\ missed' = [missed EXCEPT ![v] = IF Wanted(v, e) /\ ~Fits(v) THEN @ \cup {e} ELSE @]

Deliver(v) ==
  /\ conn[v].open /\ conn[v].next <= Len(stream)
  /\ Handle(v, stream[conn[v].next], conn[v].next + 1)
  /\ UNCHANGED <<lifecycle, journal, busy, outbox, stream, lost, got, leaves, again>>

(* A subscription to new events acknowledges each one; an event whose      *)
(* acknowledgement is lost or late comes again (here once).                *)
Redeliver(v) ==
  /\ conn[v].open /\ conn[v].from = 0 /\ Cardinality(again[v]) < MaxRepeats
  /\ \E i \in 1..Len(stream) :
       /\ conn[v].join <= i /\ i < conn[v].next /\ stream[i] \notin again[v]
       /\ again' = [again EXCEPT ![v] = @ \cup {stream[i]}]
       /\ Handle(v, stream[i], conn[v].next)
  /\ UNCHANGED <<lifecycle, journal, busy, outbox, stream, lost, got, leaves>>

Send(v) ==
  /\ conn[v].open /\ conn[v].queue # <<>>
  /\ got' = [got EXCEPT ![v] = Append(@, Head(conn[v].queue))]
  /\ conn' = [conn EXCEPT ![v].queue = Tail(@)]
  /\ UNCHANGED <<lifecycle, journal, busy, outbox, stream, lost, leaves, missed, again>>

(* The handler returns; what its channel still held goes nowhere.          *)
Leave(v) ==
  /\ conn[v].open /\ leaves[v] < MaxLeaves
  /\ leaves' = [leaves EXCEPT ![v] = @ + 1]
  /\ missed' = [missed EXCEPT ![v] = @ \cup ToSet(conn[v].queue)]
  /\ conn' = [conn EXCEPT ![v].open = FALSE, ![v].queue = <<>>]
  /\ UNCHANGED <<lifecycle, journal, busy, outbox, stream, lost, got, again>>

-----------------------------------------------------------------------------
MainStep == StartRun \/ EmitDelta \/ EmitResult \/ TakeArchive \/ EndRun \/ LearningEnds
LaneStep(l) == StartTool(l) \/ EndTool(l)
ViewerStep(v) == Connect(v) \/ Deliver(v) \/ Redeliver(v) \/ Send(v) \/ Leave(v)

Next ==
  \/ MainStep
  \/ Panic
  \/ \E e \in Emitters : Publish(e)
  \/ \E l \in Lanes : LaneStep(l)
  \/ \E v \in Viewers : ViewerStep(v)

SafeSpec == Init /\ [][Next]_vars

(* A run's goroutines run to its end, tool calls return, and NATS and the  *)
(* handler keep serving a connection.  Nobody has to connect or to leave.  *)
Spec ==
  /\ SafeSpec
  /\ WF_vars(MainStep)
  /\ \A e \in Emitters : WF_vars(Publish(e))
  /\ \A l \in Lanes : WF_vars(EndTool(l))
  /\ \A v \in Viewers : WF_vars(Deliver(v)) /\ WF_vars(Send(v))

-----------------------------------------------------------------------------
Event == [run : 1..MaxRuns, seq : 1..MaxEvents, by : Emitters,
          kind : {"started", "step", "result"} \cup Terminal, archive : SUBSET (1..MaxEvents)]

(* Journals count within their bound, the subject holds numbered events    *)
(* and a connection's channel stays within its capacity.                   *)
TypeOK ==
  /\ phase \in {"idle", "running", "answered", "completing", "failing", "learning"}
  /\ number \in 0..MaxRuns /\ archive \subseteq 1..MaxEvents
  /\ \A r \in 1..MaxRuns :
       journal[r].maxSeq \in 0..MaxEvents /\ journal[r].raw \subseteq 1..journal[r].maxSeq
  /\ busy \in [Lanes -> 0..MaxRuns]
  /\ outbox \in [Emitters -> Event \cup {NoEvent}]
  /\ stream \in Seq(Event) /\ lost \subseteq Event
  /\ \A v \in Viewers :
       /\ conn[v].open \in BOOLEAN /\ conn[v].from \in 0..MaxEvents
       /\ conn[v].join \in 1..(Len(stream) + 1) /\ conn[v].next \in 1..(Len(stream) + 1)
       /\ conn[v].queue \in Seq(Event) /\ Len(conn[v].queue) <= Room
       /\ got[v] \in Seq(Event) /\ leaves[v] \in 0..MaxLeaves
       /\ missed[v] \subseteq Event /\ again[v] \subseteq Event

Answers(r) == {f \in ToSet(stream) \cup lost : f.run = r /\ f.kind = "result"}

EventsOf(r) == {f \in ToSet(stream) \cup lost \cup {outbox[e] : e \in Emitters} : f.run = r}

(* run.completed closes its run: its archive records every event numbered  *)
(* before it but the answer, and nothing of the run is numbered after it   *)
(* or follows it on the subject, although tool calls number and publish on *)
(* goroutines of their own, but one run.failed without an archive, of a    *)
(* panic in the learning run.                                              *)
CompletedClosesRun ==
  \A i \in 1..Len(stream) :
    LET e == stream[i] IN
    e.kind = "completed" =>
      /\ e.archive = 1..(e.seq - 1) \ {f.seq : f \in Answers(e.run)}
      /\ journal[e.run].maxSeq <= e.seq + 1
      /\ \A f \in EventsOf(e.run) : f.seq > e.seq => f.kind = "failed" /\ f.archive = {}
      /\ \A j \in (i + 1)..Len(stream) : stream[j].run = e.run => stream[j].seq > e.seq

Overtook(v, i) ==
  \E f \in ToSet(got[v]) :
    /\ f.seq >= stream[i].seq
    /\ \/ f.run # stream[i].run
       \/ \E j \in 1..(i - 1) : stream[j] = f

(* A browser that reconnects misses an event published since it began to   *)
(* watch only if a channel threw it away, or if it had been sent an event  *)
(* with as high a number from another run, or one of the same run that     *)
(* overtook it between the journal and the subject. It is sent an event    *)
(* twice only if NATS delivered it twice, or if, in between, it was sent a *)
(* lower number by another run, by a slower goroutine of the same run or   *)
(* by such a second delivery.                                              *)
DeliveriesAreExplained ==
  \A v \in Viewers :
    /\ \A i \in conn[v].join..(conn[v].next - 1) :
         conn[v].open =>
           \/ stream[i] \in ToSet(got[v]) \cup ToSet(conn[v].queue) \cup missed[v]
           \/ Overtook(v, i)
    /\ \A j \in 1..Len(got[v]) : \A i \in 1..(j - 1) :
         got[v][i] = got[v][j] =>
           \/ got[v][j] \in again[v]
           \/ \E k \in (i + 1)..(j - 1) :
                /\ got[v][k].seq < got[v][i].seq
                /\ \/ got[v][k].run # got[v][i].run
                   \/ got[v][k].by # got[v][i].by
                   \/ got[v][k] \in again[v]

EndOf(r, events) == \E e \in events : e.run = r /\ e.kind \in Terminal

(* A browser that watches when a run begins, having asked for new events   *)
(* only, is sent the run's end, unless it leaves, its channel overflows or *)
(* the publish fails.                                                      *)
EndIsShown ==
  \A v \in Viewers, r \in 1..MaxRuns :
    (number = r /\ phase = "running" /\ conn[v].open /\ conn[v].from = 0)
      ~> (~conn[v].open \/ EndOf(r, ToSet(got[v]) \cup missed[v] \cup lost))
=============================================================================
