-------------------------- MODULE ProcessScheduler --------------------------
(***************************************************************************)
(* worker/scheduler: ProcessScheduler, which runs workers as processes of  *)
(* the server's machine. Start, Stop, Health and List are called by        *)
(* requests; a goroutine per process, monitorProcess, waits for its end.   *)
(*                                                                         *)
(* Two locks: ps.mu guards the table, instance.mu an instance. A call of   *)
(* Stop or List keeps ps.mu while it takes instance.mu; the monitor keeps  *)
(* instance.mu while it takes ps.mu. Instances are numbered in the order   *)
(* of their starts.                                                        *)
(***************************************************************************)
EXTENDS Naturals

CONSTANTS
  Ids,       \* worker ids
  MaxStarts, \* bound: processes ever started
  MaxCalls,  \* bound: calls of Stop and List
  MaxChecks  \* bound: calls of Health

Instances == 1..MaxStarts
None == 0

SchedulerAssumption ==
  /\ MaxStarts \in Nat /\ MaxCalls \in Nat /\ MaxChecks \in Nat
  /\ None \notin Ids


VARIABLES
  instances, \* ps.instances: worker id -> instance, or None
  workerOf,  \* workerOf[n]: the id instance n was started for, or None
  process,   \* the process: "none", "running" or "exited"
  asked,     \* instances whose process has been sent an interrupt
  monitor,   \* monitorProcess: "off", "wait", "reaped", "locked" or "done"
  holder,    \* who keeps ps.mu across steps, and which instances it needs
  checked,   \* the instance Health has looked up, or None
  started, calls, checks  \* counters

vars == <<instances, workerOf, process, asked, monitor, holder, checked, started, calls, checks>>

Init ==
  /\ instances = [i \in Ids |-> None]
  /\ workerOf = [n \in Instances |-> None]
  /\ process = [n \in Instances |-> "none"]
  /\ asked = {}
  /\ monitor = [n \in Instances |-> "off"]
  /\ holder = [call |-> "none", left |-> {}]
  /\ checked = None
  /\ started = 0
  /\ calls = 0
  /\ checks = 0

TableFree == holder.call = "none"

(* The monitor has not locked the instance. *)
InstanceFree(n) == monitor[n] # "locked"

NewCall == calls < MaxCalls /\ calls' = calls + 1

Release == holder' = [call |-> "none", left |-> {}]

-----------------------------------------------------------------------------
(* Start: an instance the table has under the same id is overwritten. A    *)
(* process that cannot be started changes nothing.                         *)
Start(i) ==
  LET n == started + 1 IN
  /\ started < MaxStarts
  /\ TableFree
  /\ started' = n
  /\ instances' = [instances EXCEPT ![i] = n]
  /\ workerOf' = [workerOf EXCEPT ![n] = i]
  /\ process' = [process EXCEPT ![n] = "running"]
  /\ monitor' = [monitor EXCEPT ![n] = "wait"]
  /\ UNCHANGED <<asked, holder, checked, calls, checks>>

(* Stop finds the worker and keeps ps.mu ...                               *)
StopBegins(i) ==
  /\ TableFree
  /\ instances[i] # None
  /\ NewCall
  /\ holder' = [call |-> "stop", left |-> {instances[i]}]
  /\ UNCHANGED <<instances, workerOf, process, asked, monitor, checked, started, checks>>

(* Mutant: Stop deletes the entry without sending the signal. *)
StopSilent(n) ==
  /\ holder.call = "stop" /\ n \in holder.left
  /\ InstanceFree(n)
  /\ instances' = [instances EXCEPT ![workerOf[n]] = None]
  /\ Release
  /\ UNCHANGED <<workerOf, process, asked, monitor, checked, started, calls, checks>>

(* Mutant: Stop returns its error without unlocking the table. *)
StopKeepsLock(n) ==
  /\ holder.call = "stop" /\ n \in holder.left
  /\ InstanceFree(n)
  /\ \/ /\ monitor[n] = "wait"
        /\ asked' = asked \cup {n}
        /\ instances' = [instances EXCEPT ![workerOf[n]] = None]
        /\ Release
     \/ /\ monitor[n] # "wait"
        /\ holder' = [holder EXCEPT !.left = {}]
        /\ UNCHANGED <<asked, instances>>
  /\ UNCHANGED <<workerOf, process, monitor, checked, started, calls, checks>>

(* ... takes instance.mu, interrupts the process and deletes the entry. A  *)
(* process that has been waited for can be neither signalled nor killed:   *)
(* Stop fails and deletes nothing.                                         *)
StopEnds(n) ==
  /\ holder.call = "stop" /\ n \in holder.left
  /\ InstanceFree(n)
  /\ \/ /\ monitor[n] = "wait"
        /\ asked' = asked \cup {n}
        /\ instances' = [instances EXCEPT ![workerOf[n]] = None]
     \/ /\ monitor[n] # "wait"
        /\ UNCHANGED <<asked, instances>>
  /\ Release
  /\ UNCHANGED <<workerOf, process, monitor, checked, started, calls, checks>>

(* List keeps ps.mu and takes every instance.mu in turn.                   *)
ListBegins ==
  /\ TableFree
  /\ NewCall
  /\ holder' = [call |-> "list", left |-> {instances[i] : i \in Ids} \ {None}]
  /\ UNCHANGED <<instances, workerOf, process, asked, monitor, checked, started, checks>>

ListVisits(n) ==
  /\ holder.call = "list" /\ n \in holder.left
  /\ InstanceFree(n)
  /\ holder' = [call |-> "list", left |-> holder.left \ {n}]
  /\ UNCHANGED <<instances, workerOf, process, asked, monitor, checked, started, calls, checks>>

ListEnds ==
  /\ holder.call = "list" /\ holder.left = {}
  /\ Release
  /\ UNCHANGED <<instances, workerOf, process, asked, monitor, checked, started, calls, checks>>

(* Health looks the worker up and then sends it an interrupt, which a      *)
(* worker takes as the order to shut down.                                 *)
HealthBegins(i) ==
  /\ holder.call # "stop"
  /\ checked = None
  /\ instances[i] # None
  /\ checks < MaxChecks
  /\ checks' = checks + 1
  /\ checked' = instances[i]
  /\ UNCHANGED <<instances, workerOf, process, asked, monitor, holder, started, calls>>

HealthEnds ==
  /\ checked # None
  /\ InstanceFree(checked)
  /\ asked' = IF process[checked] = "running" THEN asked \cup {checked} ELSE asked
  /\ checked' = None
  /\ UNCHANGED <<instances, workerOf, process, monitor, holder, started, calls, checks>>

-----------------------------------------------------------------------------
(* The worker process ends, asked or not.                                  *)
Exit(n) ==
  /\ process[n] = "running"
  /\ process' = [process EXCEPT ![n] = "exited"]
  /\ UNCHANGED <<instances, workerOf, asked, monitor, holder, checked, started, calls, checks>>

(* monitorProcess: cmd.Wait returns ...                                    *)
WaitReturns(n) ==
  /\ monitor[n] = "wait" /\ process[n] = "exited"
  /\ monitor' = [monitor EXCEPT ![n] = "reaped"]
  /\ UNCHANGED <<instances, workerOf, process, asked, holder, checked, started, calls, checks>>

(* ... instance.mu is taken and the status set ...                         *)
MonitorLocks(n) ==
  /\ monitor[n] = "reaped"
  /\ monitor' = [monitor EXCEPT ![n] = "locked"]
  /\ UNCHANGED <<instances, workerOf, process, asked, holder, checked, started, calls, checks>>

(* ... and removeInstance takes ps.mu and deletes whatever instance the    *)
(* table has under the worker's id.                                        *)
RemoveInstance(n) ==
  /\ monitor[n] = "locked"
  /\ TableFree
  /\ instances' = [instances EXCEPT ![workerOf[n]] = None]
  /\ monitor' = [monitor EXCEPT ![n] = "done"]
  /\ UNCHANGED <<workerOf, process, asked, holder, checked, started, calls, checks>>

-----------------------------------------------------------------------------
Goroutine(n) == StopEnds(n) \/ ListVisits(n) \/ WaitReturns(n) \/ MonitorLocks(n) \/ RemoveInstance(n)

Next ==
  \/ \E i \in Ids : Start(i) \/ StopBegins(i) \/ HealthBegins(i)
  \/ \E n \in Instances : Exit(n) \/ Goroutine(n)
  \/ ListBegins \/ ListEnds \/ HealthEnds

ExitWhenAsked(n) == n \in asked /\ Exit(n)

SafeSpec == Init /\ [][Next]_vars

(* Goroutines that can run do. Nothing is assumed of the requests or of    *)
(* when a process ends, except that one that was asked to ends.            *)
Fairness ==
  /\ \A n \in Instances : WF_vars(Goroutine(n)) /\ WF_vars(ExitWhenAsked(n))
  /\ WF_vars(ListEnds) /\ WF_vars(HealthEnds)

Spec == SafeSpec /\ Fairness

-----------------------------------------------------------------------------
TypeOK ==
  /\ instances \in [Ids -> 0..MaxStarts]
  /\ workerOf \in [Instances -> Ids \cup {None}]
  /\ process \in [Instances -> {"none", "running", "exited"}]
  /\ asked \subseteq Instances
  /\ monitor \in [Instances -> {"off", "wait", "reaped", "locked", "done"}]
  /\ holder \in [call : {"none", "stop", "list"}, left : SUBSET Instances]
  /\ checked \in 0..MaxStarts
  /\ \A i \in Ids : instances[i] # None => workerOf[instances[i]] = i

Managed(n) == workerOf[n] # None /\ instances[workerOf[n]] = n

(* A process that runs and was not told to stop is in the table, where it  *)
(* can be listed and stopped, if its id was started once: only another     *)
(* instance of the id can push it out.                                     *)
SoleIsManaged ==
  \A n \in Instances :
     /\ process[n] = "running" /\ n \notin asked
     /\ \A m \in Instances \ {n} : workerOf[m] # workerOf[n]
     => Managed(n)

(* A monitor that has locked an instance and waits for the table meets a   *)
(* call that keeps the table and waits for the instance.                   *)
LockCycle == \E n \in holder.left : monitor[n] = "locked"

(* Stop and List come back and let go of the table. *)
CallsEnd == holder.call # "none" ~> holder.call = "none"

(* Only that cycle can keep them, and a process that has ended leaves the  *)
(* table, whatever a Stop that came too late or a Health did to it.        *)
NothingWaitsUnlessCycle ==
  /\ []<>(holder.call = "none" \/ LockCycle)
  /\ \A n \in Instances : []<>(~(process[n] = "exited" /\ Managed(n)) \/ LockCycle)
=============================================================================
