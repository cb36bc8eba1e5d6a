---------------------------- MODULE Subscriptions ----------------------------
(***************************************************************************)
(* infra/mq/nats.go: the durable consumers of JetStream, of which a        *)
(* process takes tasks (worker/taskconsumer) or ended runs (runnable). A   *)
(* durable consumer belongs to the broker: it keeps the subject it was     *)
(* made for and its unacknowledged messages when its process is gone, and  *)
(* it serves one process at a time. A process never unsubscribes: the      *)
(* context of the server's subscriptions is never cancelled, and a         *)
(* worker's only by a function that is registered after Subscribe has      *)
(* returned (cmd/leros/worker.go:174-183).                                 *)
(*                                                                         *)
(* A worker whose subscription fails exits. The server's subscriptions are *)
(* runnables (runnable/runner.go): they are tried again after a delay,     *)
(* whether the attempt failed or panicked.                                 *)
(***************************************************************************)
EXTENDS Naturals

CONSTANTS
  Workers,    \* worker processes, each with an id of its own
  Servers,    \* server processes
  MaxMessages,\* bound: messages published on a subject
  MaxFaults   \* bound: processes that die, handlers that panic

SubscriptionAssumption == MaxMessages \in Nat /\ MaxFaults \in Nat

Processes == Workers \cup Servers

(* dm/consumer.go and dm/subject.go: one durable name for all workers, a   *)
(* subject for each.                                                       *)
Tasks == "worker-task-consumer"
Ended == "session-completed-handler"
Durables == {Tasks, Ended}
Durable(p) == IF p \in Workers THEN Tasks ELSE Ended
Subject(p) == IF p \in Workers THEN p ELSE Ended
Subjects == Workers \cup {Ended}

NoSubject == "no subject"
NoProcess == "no process"

VARIABLES
  filter,    \* the subject of each durable consumer that exists
  bound,     \* the process each one serves
  state,     \* what each process is doing
  stored,    \* unacknowledged messages of each subject
  published, \* counters of the bounds
  faults

vars == <<filter, bound, state, stored, published, faults>>

Init ==
  /\ filter = [d \in Durables |-> NoSubject]
  /\ bound = [d \in Durables |-> NoProcess]
  /\ state = [p \in Processes |-> "down"]
  /\ stored = [s \in Subjects |-> 0]
  /\ published = [s \in Subjects |-> 0]
  /\ faults = 0

Up(p) == state[p] # "down"

Publish(s) ==
  /\ published[s] < MaxMessages
  /\ published' = [published EXCEPT ![s] = @ + 1]
  /\ stored' = [stored EXCEPT ![s] = @ + 1]
  /\ UNCHANGED <<filter, bound, state, faults>>

Start(p) ==
  /\ ~Up(p)
  /\ state' = [state EXCEPT ![p] = "subscribing"]
  /\ UNCHANGED <<filter, bound, stored, published, faults>>

(* JetStream looks the durable consumer up: it must have been made for     *)
(* this subject, and must not serve another process.                       *)
Fits(p) == filter[Durable(p)] \in {NoSubject, Subject(p)} /\ bound[Durable(p)] = NoProcess

Subscribe(p) ==
  /\ state[p] = "subscribing"
  /\ Fits(p)
  /\ filter' = [filter EXCEPT ![Durable(p)] = Subject(p)]
  /\ bound' = [bound EXCEPT ![Durable(p)] = p]
  /\ state' = [state EXCEPT ![p] = "listening"]
  /\ UNCHANGED <<stored, published, faults>>

(* Mutant: a failed subscription is given up. *)
RefusedForGood(p) ==
  /\ state[p] = "subscribing"
  /\ ~Fits(p)
  /\ state' = [state EXCEPT ![p] = IF p \in Workers THEN "down" ELSE "given up"]
  /\ UNCHANGED <<filter, bound, stored, published, faults>>

(* The worker exits, the server waits. *)
Refused(p) ==
  /\ state[p] = "subscribing"
  /\ ~Fits(p)
  /\ state' = [state EXCEPT ![p] = IF p \in Workers THEN "down" ELSE "waiting"]
  /\ UNCHANGED <<filter, bound, stored, published, faults>>

Again(p) ==
  /\ state[p] = "waiting"
  /\ state' = [state EXCEPT ![p] = "subscribing"]
  /\ UNCHANGED <<filter, bound, stored, published, faults>>

(* subscribeWithDurable: the handler has returned and the message is       *)
(* acknowledged, or has panicked and the message comes again.              *)
Handle(p) ==
  /\ state[p] = "listening"
  /\ stored[Subject(p)] > 0
  /\ \/ stored' = [stored EXCEPT ![Subject(p)] = @ - 1] /\ UNCHANGED faults
     \/ faults < MaxFaults /\ faults' = faults + 1 /\ UNCHANGED stored
  /\ UNCHANGED <<filter, bound, state, published>>

(* The broker sees the connection go. *)
Die(p) ==
  /\ Up(p)
  /\ faults < MaxFaults
  /\ faults' = faults + 1
  /\ state' = [state EXCEPT ![p] = "down"]
  /\ bound' = [d \in Durables |-> IF bound[d] = p THEN NoProcess ELSE bound[d]]
  /\ UNCHANGED <<filter, stored, published>>

Goroutine(p) == Subscribe(p) \/ Refused(p) \/ Again(p) \/ Handle(p)

Next ==
  \/ \E s \in Subjects : Publish(s)
  \/ \E p \in Processes : Start(p) \/ Die(p) \/ Goroutine(p)

SafeSpec == Init /\ [][Next]_vars

Spec == SafeSpec /\ \A p \in Processes : WF_vars(Goroutine(p))

-----------------------------------------------------------------------------
TypeOK ==
  /\ filter \in [Durables -> Subjects \cup {NoSubject}]
  /\ \A d \in Durables : bound[d] # NoProcess => state[bound[d]] = "listening"
  /\ stored \in [Subjects -> 0..MaxMessages]

(* As long as a server is up, ended runs are handled: whoever had the      *)
(* subscription when it died, another server gets it.                      *)
EndedRunsAreHandled ==
  <>[](\E p \in Servers : Up(p)) => []<>(stored[Ended] = 0)

(* Each worker has a durable consumer of its own (docs/                    *)
(* ARCHITECTURE_BACKEND.md:474): a worker that starts, and does not die,   *)
(* stays up and takes its tasks, whatever other workers do.                *)
WorkersListen ==
  [][\A p \in Workers : Up(p) /\ ~Up(p)' => faults' # faults]_vars
=============================================================================
