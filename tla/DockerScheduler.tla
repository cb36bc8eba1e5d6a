--------------------------- MODULE DockerScheduler ---------------------------
(***************************************************************************)
(* The scheduler that runs workers in docker containers                    *)
(* (worker/scheduler/dockercli_scheduler.go): its table of instances, one  *)
(* goroutine per instance that watches the container, and the containers   *)
(* themselves, which outlive both. A container has the name of its worker, *)
(* and docker refuses a second one of that name until the first is gone.   *)
(*                                                                         *)
(* Start and Stop hold the lock of the table while they run docker, each   *)
(* command in the context of the request: a command that fails or is cut   *)
(* short may have had its effect on the container. Containers are stopped  *)
(* and removed from outside, too, and the server restarts beside them.     *)
(***************************************************************************)
EXTENDS Integers

CONSTANTS
  Callers,       \* goroutines that call the scheduler
  Ids,           \* worker ids
  MaxContainers, \* bound: containers
  MaxCalls,      \* bound: calls
  MaxFaults      \* bound: restarts, and docker commands that fail for no other reason

None == 0
Containers == 1..MaxContainers
Nobody == "nobody"

DockerAssumption ==
  /\ MaxContainers \in Nat /\ MaxCalls \in Nat /\ MaxFaults \in Nat
  /\ Nobody \notin Callers

VARIABLES
  container, \* container[n]: its worker and state, "none", "created", "running", "exited", "gone"
  created,   \* containers created so far
  table,     \* table[w]: the container of the instance of worker w, or None
  monitor,   \* monitor[n]: "off", "watching", "removing", "over"
  mu,        \* who holds the lock of the table for writing
  dockerCall, \* dockerCall[c]: what a call is doing
  dockerCalls, faults,
  disowned   \* history: disowned[n], why the instance of a running container left the table

dockerVars == <<container, created, table, monitor, mu, dockerCall, dockerCalls, faults, disowned>>

NoWorker == "no worker"
Idle == [at |-> "idle", worker |-> NoWorker, n |-> None]

Init ==
  /\ container = [n \in Containers |-> [worker |-> NoWorker, state |-> "none"]]
  /\ created = 0
  /\ table = [w \in Ids |-> None]
  /\ monitor = [n \in Containers |-> "off"]
  /\ mu = Nobody
  /\ dockerCall = [c \in Callers |-> Idle]
  /\ dockerCalls = 0 /\ faults = 0
  /\ disowned = [n \in Containers |-> "no"]

NameTaken(w) ==
  \E n \in Containers : container[n].worker = w /\ container[n].state \notin {"none", "gone"}

Fault == faults < MaxFaults /\ faults' = faults + 1
Return(c) == dockerCall' = [dockerCall EXCEPT ![c] = Idle] /\ mu' = Nobody

GoTo(c, place) ==
  dockerCall' = [dockerCall EXCEPT ![c] = [at |-> place, worker |-> dockerCall[c].worker, n |-> dockerCall[c].n]]

Becomes(n, state) ==
  container' = [container EXCEPT ![n] = [worker |-> container[n].worker, state |-> state]]

-----------------------------------------------------------------------------
(* Mutant: the containers have no name. *)
StartCreatesUnnamed(c, w) ==
  /\ dockerCall[c].at = "idle" /\ dockerCalls < MaxCalls /\ mu = Nobody
  /\ created < MaxContainers
  /\ dockerCalls' = dockerCalls + 1
  /\ created' = created + 1
  /\ container' = [container EXCEPT ![created + 1] = [worker |-> w, state |-> "created"]]
  /\ mu' = c
  /\ dockerCall' = [dockerCall EXCEPT ![c] = [at |-> "start", worker |-> w, n |-> created + 1]]
  /\ UNCHANGED <<table, monitor, disowned, faults>>

(* Start: docker create, which is refused when the name is taken ...       *)
StartCreates(c, w) ==
  /\ dockerCall[c].at = "idle" /\ dockerCalls < MaxCalls /\ mu = Nobody
  /\ dockerCalls' = dockerCalls + 1
  /\ \/ /\ ~NameTaken(w) /\ created < MaxContainers
        /\ created' = created + 1
        /\ container' = [container EXCEPT ![created + 1] = [worker |-> w, state |-> "created"]]
        /\ \/ /\ mu' = c
              /\ dockerCall' = [dockerCall EXCEPT ![c] = [at |-> "start", worker |-> w, n |-> created + 1]]
              /\ UNCHANGED faults
           \/ Fault /\ UNCHANGED <<mu, dockerCall>>
     \/ NameTaken(w) /\ UNCHANGED <<container, created, mu, dockerCall, faults>>
     \/ ~NameTaken(w) /\ Fault /\ UNCHANGED <<container, created, mu, dockerCall>>
  /\ UNCHANGED <<table, monitor, disowned>>

(* ... docker start; when that fails the container keeps its name, and may *)
(* run nevertheless ...                                                    *)
StartStarts(c) ==
  LET n == dockerCall[c].n IN
  /\ dockerCall[c].at = "start"
  /\ \/ /\ container[n].state = "created" /\ Becomes(n, "running")
        /\ \/ GoTo(c, "register") /\ UNCHANGED <<mu, faults, disowned>>
           \/ /\ Fault /\ Return(c)
              /\ disowned' = [disowned EXCEPT ![n] = "start failed"]
     \/ /\ Fault \/ (container[n].state # "created" /\ UNCHANGED faults)
        /\ Return(c) /\ UNCHANGED <<container, disowned>>
  /\ UNCHANGED <<created, table, monitor, dockerCalls>>

(* ... and the instance enters the table and is watched from now on.       *)
StartRegisters(c) ==
  LET n == dockerCall[c].n IN
  /\ dockerCall[c].at = "register"
  /\ table' = [table EXCEPT ![dockerCall[c].worker] = n]
  /\ monitor' = [monitor EXCEPT ![n] = "watching"]
  /\ Return(c)
  /\ UNCHANGED <<container, created, dockerCalls, faults, disowned>>

(* Stop: an unknown worker is an error.                                    *)
StopBegins(c, w) ==
  /\ dockerCall[c].at = "idle" /\ dockerCalls < MaxCalls /\ mu = Nobody
  /\ dockerCalls' = dockerCalls + 1
  /\ IF table[w] = None
     THEN UNCHANGED <<mu, dockerCall>>
     ELSE /\ mu' = c
          /\ dockerCall' = [dockerCall EXCEPT ![c] = [at |-> "stop", worker |-> w, n |-> table[w]]]
  /\ UNCHANGED <<container, created, table, monitor, faults, disowned>>

(* docker stop and docker rm: a failure is logged, and rm does not remove  *)
(* a container that runs.                                                  *)
StopStops(c) ==
  LET n == dockerCall[c].n IN
  /\ dockerCall[c].at = "stop"
  /\ GoTo(c, "remove")
  /\ \/ /\ IF container[n].state = "running" THEN Becomes(n, "exited") ELSE UNCHANGED container
        /\ UNCHANGED faults
     \/ Fault /\ UNCHANGED container
  /\ UNCHANGED <<created, table, monitor, mu, dockerCalls, disowned>>

StopRemoves(c) ==
  LET n == dockerCall[c].n IN
  /\ dockerCall[c].at = "remove"
  /\ \/ /\ container[n].state # "running"
        /\ Becomes(n, "gone")
        /\ UNCHANGED <<faults, disowned>>
     \/ container[n].state # "running" /\ Fault /\ UNCHANGED <<container, disowned>>
     \/ /\ container[n].state = "running"
        /\ disowned' = [disowned EXCEPT ![n] = "not stopped"]
        /\ UNCHANGED <<container, faults>>
  /\ table' = [table EXCEPT ![dockerCall[c].worker] = None]
  /\ Return(c)
  /\ UNCHANGED <<created, monitor, dockerCalls>>

-----------------------------------------------------------------------------
(* monitorContainer, on a tick: a container that does not run, or that     *)
(* docker cannot inspect, will be dropped.                                 *)
Inspect(n) ==
  /\ monitor[n] = "watching"
  /\ \/ container[n].state # "running" /\ UNCHANGED faults
     \/ container[n].state = "running" /\ Fault
  /\ monitor' = [monitor EXCEPT ![n] = "removing"]
  /\ UNCHANGED <<container, created, table, mu, dockerCall, dockerCalls, disowned>>

(* removeInstance drops the entry of the worker, whichever container it is *)
(* about by now.                                                           *)
Remove(n) ==
  LET w == container[n].worker
      m == table[w] IN
  /\ monitor[n] = "removing" /\ mu = Nobody
  /\ monitor' = [monitor EXCEPT ![n] = "over"]
  /\ table' = [table EXCEPT ![w] = None]
  /\ disowned' = IF m = None \/ container[m].state # "running" THEN disowned
                 ELSE [disowned EXCEPT ![m] = IF m = n THEN "not inspected" ELSE "taken for an older one"]
  /\ UNCHANGED <<container, created, mu, dockerCall, dockerCalls, faults>>

(* The worker in the container ends, or is stopped from outside ...        *)
Exit(n) ==
  /\ container[n].state = "running"
  /\ Becomes(n, "exited")
  /\ UNCHANGED <<created, table, monitor, mu, dockerCall, dockerCalls, faults, disowned>>

(* ... and a container is removed from outside.                            *)
Removed(n) ==
  /\ container[n].state \notin {"none", "gone"}
  /\ Becomes(n, "gone")
  /\ UNCHANGED <<created, table, monitor, mu, dockerCall, dockerCalls, faults, disowned>>

(* The server ends and is started again: its table is empty, nothing is    *)
(* watched, and the containers are as they were. What docker was told to   *)
(* do before that it does, or does not.                                    *)
Restart ==
  /\ Fault
  /\ table' = [w \in Ids |-> None]
  /\ monitor' = [n \in Containers |-> IF monitor[n] = "off" THEN "off" ELSE "over"]
  /\ mu' = Nobody
  /\ dockerCall' = [c \in Callers |-> Idle]
  /\ disowned' = [n \in Containers |->
       IF container[n].state = "running" /\ disowned[n] = "no" THEN "server ended" ELSE disowned[n]]
  /\ UNCHANGED <<container, created, dockerCalls>>

Proceed(c) == StartStarts(c) \/ StartRegisters(c) \/ StopStops(c) \/ StopRemoves(c)

Next ==
  \/ \E c \in Callers, w \in Ids : StartCreates(c, w) \/ StopBegins(c, w)
  \/ \E c \in Callers : Proceed(c)
  \/ \E n \in Containers : Inspect(n) \/ Remove(n) \/ Exit(n) \/ Removed(n)
  \/ Restart

Spec == Init /\ [][Next]_dockerVars

-----------------------------------------------------------------------------
TypeOK ==
  /\ table \in [Ids -> 0..created]
  /\ mu \in Callers \cup {Nobody}
  /\ \A c \in Callers : dockerCall[c].at # "idle" <=> mu = c
  /\ \A n \in Containers : container[n].state = "none" <=> n > created

Unlisted(n) == container[n].state = "running" /\ mu = Nobody /\ table[container[n].worker] # n

(* A container that runs is not in the table only when docker could not    *)
(* stop or inspect it, when docker started it but said that it had not,    *)
(* when the server was started again, or when the name was given to it     *)
(* before the watcher of its predecessor had noticed. The table knows no   *)
(* container of another worker, and each that it knows is watched, so that *)
(* its entry goes when it ends.                                            *)
UnlistedIsExplained ==
  /\ \A n \in Containers : Unlisted(n) => disowned[n] # "no"
  /\ \A n \in Containers : disowned[n] = "taken for an older one" =>
       \E m \in 1..(n - 1) : container[m].worker = container[n].worker /\ container[m].state = "gone"
  /\ \A w \in Ids : table[w] # None =>
       container[table[w]].worker = w /\ monitor[table[w]] \in {"watching", "removing"}
=============================================================================
