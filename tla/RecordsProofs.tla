----------------------------- MODULE RecordsProofs -----------------------------
(***************************************************************************)
(* Proofs about the records that several callers share, for any callers,   *)
(* workers, texts and bounds: first about the tables of connected workers  *)
(* and of worker processes, the files of memory, the assistants, accounts, *)
(* the streams of the bus and the skills, each taken where MCRecords       *)
(* instantiates it, and then what follows for MCRecords. The session store *)
(* has its proofs in SessionStoreProofs.                                   *)
(***************************************************************************)
EXTENDS MCRecords, FiniteSetTheorems, SequenceTheorems, TLAPS

-----------------------------------------------------------------------------
(* WorkerRegistry: its types, and that a working connection stays in the   *)
(* table as long as its worker id does not connect again.                  *)

RegistryTypes ==
  /\ Registry!TypeOK
  /\ made \in 0..MaxConns /\ command \in 0..MaxConns
  /\ listing \in [on : BOOLEAN, left : SUBSET Registry!Conns]

(* A connection that is still to be made has left no trace.                *)
Unmade(c) ==
  /\ registryOwner[c] = Registry!None /\ link[c] = "none" /\ c \notin closed
  /\ reader[c] = "off" /\ writer[c] = "off" /\ checker[c] = "off"

MadeInOrder ==
  \A c \in Registry!Conns : IF c > made THEN Unmade(c) ELSE registryOwner[c] \in Workers /\ link[c] # "none"

(* LastSeen of a connection goes stale, and its checker acts on that, only *)
(* after readPump has left.                                                *)
LateAfterReader ==
  \A c \in Registry!Conns : c \in stale \/ checker[c] \in {"late", "closing", "done"} =>
    reader[c] = "done"

(* A channel is closed under a readPump that goes on only by goroutines of *)
(* another connection of the same worker.                                  *)
ClosedByAnother == \A c \in closed : reader[c] # "done" => ~Registry!SoleConnection(c)

RegistryIInv ==
  RegistryTypes /\ MadeInOrder /\ LateAfterReader /\ ClosedByAnother /\ Registry!WorkersStayReachable

-----------------------------------------------------------------------------
LEMMA RegistryInitHolds == ASSUME Registry!RegistryAssumption PROVE Registry!Init => RegistryIInv
<1> SUFFICES ASSUME Registry!Init PROVE RegistryIInv
  OBVIOUS
<1>1. RegistryTypes
  BY
     DEF Registry!RegistryAssumption, Registry!Init, RegistryTypes, Registry!TypeOK, Registry!Conns,
         Registry!None
<1>2. MadeInOrder
  BY DEF Registry!RegistryAssumption, Registry!Init, MadeInOrder, Unmade, Registry!Conns
<1>3. LateAfterReader /\ ClosedByAnother
  BY DEF Registry!Init, LateAfterReader, ClosedByAnother
<1>4. Registry!WorkersStayReachable
  BY
     DEF Registry!Init, Registry!WorkersStayReachable, Registry!WorkingIsRegistered, Registry!Works,
         Registry!EntryIsOpen, Registry!PanicNeedsReconnect
<1> QED
  BY <1>1, <1>2, <1>3, <1>4 DEF RegistryIInv

LEMMA RegisterKeeps ==
  ASSUME Registry!RegistryAssumption, RegistryIInv, NEW i \in Workers, Registry!Register(i), ~panicked
  PROVE  RegistryIInv'
<1> DEFINE n == made + 1
<1>0. /\ RegistryTypes /\ Registry!TypeOK /\ MadeInOrder /\ LateAfterReader /\ ClosedByAnother
      /\ Registry!WorkingIsRegistered /\ Registry!EntryIsOpen
  BY DEF RegistryIInv, RegistryTypes, Registry!WorkersStayReachable
<1>1. n \in Registry!Conns /\ n # Registry!None /\ Unmade(n) /\ made \in Nat /\ MaxConns \in Nat
  BY <1>0
     DEF Registry!RegistryAssumption, RegistryTypes, MadeInOrder, Registry!Register, Registry!Conns,
         Registry!None
<1>2. /\ made' = n /\ workers' = [workers EXCEPT ![i] = n]
      /\ registryOwner' = [registryOwner EXCEPT ![n] = i]
      /\ UNCHANGED <<stale, queue, closed, deadline, registryMessages, listing, command, registryCalls, panicked>>
  BY DEF Registry!Register, Registry!requests
<1>3. \A c \in Registry!Conns \ {n} :
        /\ registryOwner'[c] = registryOwner[c] /\ link'[c] = link[c] /\ reader'[c] = reader[c]
        /\ writer'[c] = writer[c] /\ checker'[c] = checker[c]
  BY <1>0, <1>1 DEF Registry!TypeOK, Registry!Register
<1>4. registryOwner'[n] = i /\ workers'[i] = n /\ \A j \in Workers \ {i} : workers'[j] = workers[j]
  BY <1>0, <1>1, <1>2 DEF Registry!TypeOK
<1>5. i # Registry!None /\ n \notin closed /\ n \notin stale /\ \A j \in Workers : workers[j] # n
  <2>1. n \notin stale
    BY <1>0, <1>1 DEF LateAfterReader, Unmade
  <2>2. \A j \in Workers : workers[j] # n
    BY <1>0, <1>1 DEF Registry!RegistryAssumption, Registry!TypeOK, Unmade
  <2> QED
    BY <1>1, <2>1, <2>2 DEF Registry!RegistryAssumption, Unmade
<1> HIDE DEF n
<1>6. RegistryTypes'
  <2>1. workers' \in [Workers -> 0..MaxConns]
        /\ registryOwner' \in [Registry!Conns -> Workers \cup {Registry!None}]
    BY <1>0, <1>1, <1>2 DEF Registry!TypeOK, Registry!Conns
  <2>2. /\ link' \in [Registry!Conns -> {"none", "up", "down"}]
        /\ reader' \in [Registry!Conns -> {"off", "read", "lock", "done"}]
        /\ writer' \in [Registry!Conns -> {"off", "idle", "sending", "done"}]
        /\ checker' \in [Registry!Conns -> {"off", "tick", "late", "closing", "done"}]
    BY <1>0, <1>1 DEF Registry!TypeOK, Registry!Register, n
  <2>3. \A j \in Workers : workers'[j] # Registry!None => registryOwner'[workers'[j]] = j
    <3> SUFFICES ASSUME NEW j \in Workers, workers'[j] # Registry!None
        PROVE  registryOwner'[workers'[j]] = j
      OBVIOUS
    <3>1. CASE j = i
      BY <1>4, <3>1
    <3>2. CASE j # i
      BY <1>0, <1>3, <1>4, <1>5, <3>2 DEF Registry!TypeOK, Registry!Conns, Registry!None
    <3> QED
      BY <3>1, <3>2
  <2>4. made' \in 0..MaxConns
    BY <1>1, <1>2 DEF Registry!Conns
  <2> QED
    BY <1>0, <1>2, <2>1, <2>2, <2>3, <2>4 DEF RegistryTypes, Registry!TypeOK
<1>7. MadeInOrder'
  <2> SUFFICES ASSUME NEW c \in Registry!Conns
               PROVE /\ c > made' => Unmade(c)'
                     /\ ~(c > made') => registryOwner'[c] \in Workers /\ link'[c] # "none"
    BY DEF MadeInOrder
  <2>1. CASE c = n
    <3>1. link'[n] # "none"
      BY <1>0, <1>1 DEF Registry!TypeOK, Registry!Register, n
    <3> QED
      BY <1>1, <1>2, <1>4, <2>1, <3>1 DEF Registry!Conns
  <2>2. CASE c # n
    <3>1. c > made' => c > made
      BY <1>1, <1>2 DEF n, Registry!Conns
    <3>2. ~(c > made') => ~(c > made)
      BY <1>1, <1>2, <2>2 DEF n, Registry!Conns
    <3> QED
      BY <1>0, <1>2, <1>3, <2>2, <3>1, <3>2 DEF MadeInOrder, Unmade
  <2> QED
    BY <2>1, <2>2
<1>8. LateAfterReader'
  <2>1. checker'[n] \notin {"late", "closing", "done"}
    BY <1>0, <1>1 DEF Registry!Register, Unmade, Registry!TypeOK, n
  <2> QED
    BY <1>0, <1>2, <1>3, <1>5, <2>1 DEF LateAfterReader
<1>9. \A c \in Registry!Conns \ {n} : registryOwner[c] # Registry!None /\ Registry!SoleConnection(c)' =>
        Registry!SoleConnection(c) /\ registryOwner[c] # i
  <2> SUFFICES ASSUME NEW c \in Registry!Conns \ {n}, registryOwner[c] # Registry!None,
                      Registry!SoleConnection(c)'
               PROVE Registry!SoleConnection(c) /\ registryOwner[c] # i
    OBVIOUS
  <2>1. \A d \in Registry!Conns \ {c} : registryOwner'[d] # registryOwner[c]
    BY <1>3 DEF Registry!SoleConnection
  <2>2. registryOwner[n] = Registry!None
    BY <1>1 DEF Unmade
  <2>3. \A d \in Registry!Conns \ {c} : registryOwner[d] # registryOwner[c]
    BY <1>3, <2>1, <2>2
  <2>4. registryOwner[c] # i
    BY <1>1, <1>4, <2>1
  <2> QED
    BY <2>3, <2>4 DEF Registry!SoleConnection
<1>10. \A c \in Registry!Conns : c \in closed \/ link[c] # "none" => registryOwner[c] # Registry!None
  BY <1>0 DEF Registry!RegistryAssumption, MadeInOrder, Unmade
<1>11. ClosedByAnother'
  <2>1. closed \subseteq Registry!Conns
    BY <1>0 DEF Registry!TypeOK
  <2> QED
    BY <1>0, <1>2, <1>3, <1>5, <1>9, <1>10, <2>1 DEF ClosedByAnother
<1>12. Registry!WorkingIsRegistered'
  <2> SUFFICES ASSUME NEW c \in Registry!Conns, Registry!Works(c)', Registry!SoleConnection(c)'
      PROVE  Registry!Registered(c)'
    BY DEF Registry!WorkingIsRegistered
  <2>1. CASE c = n
    BY <1>4, <1>5, <2>1 DEF Registry!Registered
  <2>2. CASE c # n
    <3>1. Registry!Works(c)
      BY <1>3, <2>2 DEF Registry!Works
    <3>2. registryOwner[c] # Registry!None /\ registryOwner[c] # i /\ Registry!SoleConnection(c)
      BY <1>9, <1>10, <2>2, <3>1 DEF Registry!Works
    <3>3. workers[registryOwner[c]] = c /\ registryOwner[c] \in Workers
      BY <1>0, <3>1, <3>2 DEF Registry!WorkingIsRegistered, Registry!Registered, Registry!TypeOK
    <3> QED
      BY <1>3, <1>4, <2>2, <3>2, <3>3 DEF Registry!Registered
  <2> QED
    BY <2>1, <2>2
<1>13. Registry!EntryIsOpen'
  BY <1>0, <1>2, <1>4, <1>5 DEF Registry!EntryIsOpen
<1>14. Registry!PanicNeedsReconnect'
  BY <1>2 DEF Registry!PanicNeedsReconnect
<1> QED
  BY <1>6, <1>7, <1>8, <1>11, <1>12, <1>13, <1>14 DEF RegistryIInv, Registry!WorkersStayReachable

(* readPump and heartbeatChecker unregister their connection by its id:    *)
(* what they evict belongs to the same worker, and readPump has left.      *)
LEMMA UnregisterKeeps ==
  ASSUME Registry!RegistryAssumption, RegistryIInv, ~panicked, NEW c \in Registry!Conns,
         Registry!ReaderExits(c) \/ Registry!CheckerUnregisters(c)
  PROVE  RegistryIInv'
<1> DEFINE i == registryOwner[c]
<1>0. /\ RegistryTypes /\ Registry!TypeOK /\ MadeInOrder /\ LateAfterReader /\ ClosedByAnother
      /\ Registry!WorkingIsRegistered /\ Registry!EntryIsOpen
  BY DEF RegistryIInv, RegistryTypes, Registry!WorkersStayReachable
<1>1. /\ registryOwner' = registryOwner /\ made' = made /\ writer' = writer /\ stale' = stale
      /\ queue' = queue /\ deadline' = deadline /\ panicked' = panicked
      /\ listing' = listing /\ command' = command
      /\ Registry!Unregister(i)
  BY DEF Registry!ReaderExits, Registry!CheckerUnregisters, Registry!requests
<1>2. i \in Workers /\ i # Registry!None
  <2>1. reader[c] = "read" \/ checker[c] = "late"
    BY DEF Registry!ReaderExits, Registry!CheckerUnregisters
  <2> QED
    BY <1>0, <2>1 DEF Registry!RegistryAssumption, MadeInOrder, Unmade
<1>3. /\ workers' = [workers EXCEPT ![i] = Registry!None]
      /\ closed' = IF workers[i] = Registry!None THEN closed ELSE closed \cup {workers[i]}
  BY <1>1 DEF Registry!Unregister
<1>4. /\ reader'[c] = "done"
      /\ \A d \in Registry!Conns \ {c} : reader'[d] = reader[d] /\ link'[d] = link[d] /\ checker'[d] = checker[d]
      /\ link'[c] \in {link[c], "down"}
  <2>1. CASE Registry!ReaderExits(c)
    BY <1>0, <2>1 DEF Registry!ReaderExits, Registry!TypeOK, MadeInOrder, Unmade
  <2>2. CASE Registry!CheckerUnregisters(c)
    BY <1>0, <2>2 DEF Registry!CheckerUnregisters, Registry!TypeOK, LateAfterReader
  <2> QED
    BY <2>1, <2>2
<1> HIDE DEF i
<1>5. /\ workers'[i] = Registry!None /\ \A j \in Workers \ {i} : workers'[j] = workers[j]
      /\ workers[i] # Registry!None => workers[i] \in Registry!Conns /\ registryOwner[workers[i]] = i
  BY <1>0, <1>2, <1>3 DEF Registry!RegistryAssumption, Registry!TypeOK, Registry!Conns, Registry!None
<1>6. RegistryTypes'
  <2>1. workers' \in [Workers -> 0..MaxConns] /\ closed' \subseteq Registry!Conns
    BY <1>0, <1>2, <1>3, <1>5 DEF Registry!RegistryAssumption, Registry!TypeOK, Registry!None
  <2>2. /\ link' \in [Registry!Conns -> {"none", "up", "down"}]
        /\ reader' \in [Registry!Conns -> {"off", "read", "lock", "done"}]
        /\ checker' \in [Registry!Conns -> {"off", "tick", "late", "closing", "done"}]
    BY <1>0 DEF Registry!TypeOK, Registry!ReaderExits, Registry!CheckerUnregisters
  <2>3. \A j \in Workers : workers'[j] # Registry!None => registryOwner'[workers'[j]] = j
    BY <1>0, <1>1, <1>5 DEF Registry!TypeOK
  <2> QED
    BY <1>0, <1>1, <2>1, <2>2, <2>3 DEF RegistryTypes, Registry!TypeOK
<1>7. MadeInOrder'
  <2> SUFFICES ASSUME NEW d \in Registry!Conns
               PROVE /\ d > made => Unmade(d)'
                     /\ ~(d > made) => registryOwner'[d] \in Workers /\ link'[d] # "none"
    BY <1>1 DEF MadeInOrder
  <2>1. ~(d > made) => registryOwner'[d] \in Workers /\ link'[d] # "none"
    BY <1>0, <1>1, <1>4 DEF MadeInOrder
  <2>2. ASSUME d > made PROVE Unmade(d)'
    <3>1. Unmade(d) /\ registryOwner[d] = Registry!None
      BY <1>0, <2>2 DEF MadeInOrder, Unmade
    <3>2. d # c /\ (workers[i] # Registry!None => d # workers[i])
      BY <1>2, <1>5, <3>1 DEF i
    <3> QED
      BY <1>1, <1>3, <1>4, <3>1, <3>2 DEF Unmade
  <2> QED
    BY <2>1, <2>2
<1>8. LateAfterReader'
  BY <1>0, <1>1, <1>4 DEF LateAfterReader
<1>9. \A d : Registry!SoleConnection(d)' <=> Registry!SoleConnection(d)
  BY <1>1 DEF Registry!SoleConnection
<1>10. ClosedByAnother'
  <2> SUFFICES ASSUME NEW d \in closed', reader'[d] # "done" PROVE ~Registry!SoleConnection(d)
    BY <1>9 DEF ClosedByAnother
  <2>1. d # c /\ d \in Registry!Conns
    BY <1>4, <1>6 DEF RegistryTypes, Registry!TypeOK
  <2>2. CASE d \in closed
    BY <1>0, <1>4, <2>1, <2>2 DEF ClosedByAnother
  <2>3. CASE d \notin closed
    <3>1. registryOwner[d] = i
      BY <1>3, <1>5, <2>3
    <3> QED
      BY <2>1, <3>1 DEF Registry!SoleConnection, i
  <2> QED
    BY <2>2, <2>3
<1>11. Registry!WorkingIsRegistered'
  <2> SUFFICES ASSUME NEW d \in Registry!Conns, Registry!Works(d)', Registry!SoleConnection(d)
      PROVE  Registry!Registered(d)'
    BY <1>9 DEF Registry!WorkingIsRegistered
  <2>1. d # c
    BY <1>4 DEF Registry!Works
  <2>2. Registry!Works(d) /\ Registry!Registered(d)
    BY <1>0, <1>1, <1>4, <2>1 DEF Registry!Works, Registry!WorkingIsRegistered
  <2>3. registryOwner[d] # i /\ registryOwner[d] \in Workers
    BY <1>0, <2>1, <2>2 DEF Registry!SoleConnection, Registry!Registered, Registry!TypeOK, i
  <2> QED
    BY <1>1, <1>5, <2>2, <2>3 DEF Registry!Registered
<1>12. Registry!EntryIsOpen'
  <2> SUFFICES ASSUME NEW j \in Workers PROVE workers'[j] \notin closed'
    BY DEF Registry!EntryIsOpen
  <2>1. CASE j = i
    BY <1>5, <1>6, <2>1 DEF RegistryTypes, Registry!TypeOK, Registry!Conns, Registry!None
  <2>2. CASE j # i
    <3>1. workers'[j] = workers[j] /\ workers[j] \notin closed
      BY <1>0, <1>5, <2>2 DEF Registry!EntryIsOpen
    <3>2. workers[i] # Registry!None => workers[j] # workers[i]
      BY <1>0, <1>5, <2>2 DEF Registry!TypeOK
    <3> QED
      BY <1>3, <3>1, <3>2
  <2> QED
    BY <2>1, <2>2
<1>13. Registry!PanicNeedsReconnect'
  BY <1>1 DEF Registry!PanicNeedsReconnect
<1> QED
  BY <1>6, <1>7, <1>8, <1>10, <1>11, <1>12, <1>13 DEF RegistryIInv, Registry!WorkersStayReachable

(* The other steps leave the table and the ids alone; they start nothing   *)
(* and bring no link back.                                                 *)
ConnectionSettles(c) ==
  /\ link'[c] = link[c] \/ (link[c] # "none" /\ link'[c] = "down")
  /\ reader'[c] = reader[c] \/ (reader[c] \in {"read", "lock"} /\ reader'[c] \in {"read", "lock"})
  /\ writer'[c] = writer[c] \/ (writer[c] \in {"idle", "sending"} /\ writer'[c] # "off")
  /\ \/ checker'[c] = checker[c]
     \/ (checker[c] = "tick" /\ c \in stale /\ checker'[c] = "late")
     \/ (checker[c] = "closing" /\ checker'[c] = "done")
  /\ c \in stale' => c \in stale \/ reader[c] = "done"

RegistryOthers ==
  \/ \E c \in Registry!Conns :
       \/ Registry!LinkDown(c) \/ Registry!GoStale(c) \/ Registry!DeadlinePasses(c) \/ Registry!Receive(c) \/ Registry!Handle(c)
       \/ Registry!Send(c) \/ Registry!SendLocked(c) \/ Registry!Ping(c) \/ Registry!WriterExits(c)
       \/ Registry!CheckerFires(c) \/ Registry!CheckerCloses(c)
  \/ Registry!Requests
  \/ UNCHANGED Registry!vars

LEMMA RegistryOthersKeepTypes ==
  ASSUME Registry!RegistryAssumption, RegistryTypes, RegistryOthers
  PROVE  RegistryTypes'
<1>1. ASSUME NEW c \in Registry!Conns,
             Registry!LinkDown(c) \/ Registry!GoStale(c) \/ Registry!DeadlinePasses(c) \/ Registry!Receive(c)
      PROVE  RegistryTypes'
  BY <1>1
     DEF RegistryTypes, Registry!TypeOK, Registry!LinkDown, Registry!GoStale, Registry!DeadlinePasses,
         Registry!Receive, Registry!requests
<1>2. ASSUME NEW c \in Registry!Conns, Registry!Handle(c) PROVE RegistryTypes'
  <2>1. queue' \in [Registry!Conns -> 0..QueueSize]
    <3>1. queue[c] < QueueSize => queue[c] + 1 \in 0..QueueSize
      BY DEF Registry!RegistryAssumption, RegistryTypes, Registry!TypeOK
    <3> QED
      BY <1>2, <3>1 DEF RegistryTypes, Registry!TypeOK, Registry!Handle
  <2> QED
    BY <1>2, <2>1 DEF RegistryTypes, Registry!TypeOK, Registry!Handle, Registry!requests
<1>3. ASSUME NEW c \in Registry!Conns, Registry!Send(c) PROVE RegistryTypes'
  <2>1. queue' \in [Registry!Conns -> 0..QueueSize]
    <3>1. queue[c] - 1 \in 0..QueueSize
      BY <1>3 DEF Registry!RegistryAssumption, RegistryTypes, Registry!TypeOK, Registry!Send
    <3> QED
      BY <1>3, <3>1 DEF RegistryTypes, Registry!TypeOK, Registry!Send
  <2> QED
    BY <1>3, <2>1 DEF RegistryTypes, Registry!TypeOK, Registry!Send, Registry!requests
<1>4. ASSUME NEW c \in Registry!Conns,
             Registry!SendLocked(c) \/ Registry!Ping(c) \/ Registry!WriterExits(c)
      PROVE  RegistryTypes'
  BY <1>4
     DEF RegistryTypes, Registry!TypeOK, Registry!SendLocked, Registry!Ping, Registry!WriterExits,
         Registry!requests
<1>5. ASSUME NEW c \in Registry!Conns, Registry!CheckerFires(c) \/ Registry!CheckerCloses(c)
      PROVE  RegistryTypes'
  BY <1>5
     DEF RegistryTypes, Registry!TypeOK, Registry!CheckerFires, Registry!CheckerCloses,
         Registry!requests
<1>6. CASE Registry!Requests
  <2>1. CASE Registry!ListStart
    <3>1. {workers[i] : i \in Workers} \ {Registry!None} \subseteq Registry!Conns
      BY DEF Registry!RegistryAssumption, RegistryTypes, Registry!TypeOK, Registry!Conns, Registry!None
    <3> QED
      BY <2>1, <3>1 DEF RegistryTypes, Registry!TypeOK, Registry!ListStart, Registry!conns
  <2>2. CASE Registry!ListEnd
    BY <2>2 DEF RegistryTypes, Registry!TypeOK, Registry!ListEnd, Registry!conns
  <2>3. ASSUME NEW c \in Registry!Conns, Registry!ListVisit(c) PROVE RegistryTypes'
    BY <2>3 DEF RegistryTypes, Registry!TypeOK, Registry!ListVisit, Registry!conns
  <2>4. ASSUME NEW i \in Workers, Registry!Lookup(i) PROVE RegistryTypes'
    BY <2>4 DEF RegistryTypes, Registry!TypeOK, Registry!Lookup, Registry!conns
  <2>5. CASE Registry!Command
    <3>1. command \in Registry!Conns
      BY <2>5
         DEF RegistryTypes, Registry!Command, Registry!Conns, Registry!None, Registry!RegistryAssumption
    <3>2. queue' \in [Registry!Conns -> 0..QueueSize]
      <4>1. queue[command] # QueueSize => queue[command] + 1 \in 0..QueueSize
        BY <3>1 DEF Registry!RegistryAssumption, RegistryTypes, Registry!TypeOK
      <4> QED
        BY <2>5, <3>1, <4>1 DEF RegistryTypes, Registry!TypeOK, Registry!Command
    <3>3. command' \in 0..MaxConns
      BY <2>5 DEF Registry!RegistryAssumption, Registry!Command, Registry!None
    <3> QED
      BY <2>5, <3>2, <3>3 DEF RegistryTypes, Registry!TypeOK, Registry!Command
  <2> QED
    BY <1>6, <2>1, <2>2, <2>3, <2>4, <2>5 DEF Registry!Requests
<1>7. CASE UNCHANGED Registry!vars
  BY <1>7 DEF RegistryTypes, Registry!TypeOK, Registry!vars, Registry!conns, Registry!requests
<1> QED
  BY <1>1, <1>2, <1>3, <1>4, <1>5, <1>6, <1>7 DEF RegistryOthers

LEMMA RegistryOthersSettle ==
  ASSUME RegistryIInv, RegistryOthers, NEW c \in Registry!Conns
  PROVE  ConnectionSettles(c) /\ UNCHANGED <<workers, registryOwner, made, closed>>
<1> USE DEF ConnectionSettles
<1>1. Registry!TypeOK
  BY DEF RegistryIInv, RegistryTypes
<1>2. ASSUME NEW d \in Registry!Conns,
             Registry!LinkDown(d) \/ Registry!GoStale(d) \/ Registry!DeadlinePasses(d) \/ Registry!Receive(d)
      PROVE ConnectionSettles(c) /\ UNCHANGED <<workers, registryOwner, made, closed>>
  BY <1>1, <1>2
     DEF Registry!TypeOK, Registry!LinkDown, Registry!GoStale, Registry!LastSeenRenewed,
         Registry!DeadlinePasses, Registry!Receive
<1>3. ASSUME NEW d \in Registry!Conns, Registry!Handle(d)
      PROVE ConnectionSettles(c) /\ UNCHANGED <<workers, registryOwner, made, closed>>
  BY <1>1, <1>3 DEF Registry!TypeOK, Registry!Handle
<1>4. ASSUME NEW d \in Registry!Conns, Registry!Send(d) \/ Registry!SendLocked(d) \/ Registry!Ping(d)
      PROVE ConnectionSettles(c) /\ UNCHANGED <<workers, registryOwner, made, closed>>
  BY <1>1, <1>4 DEF Registry!TypeOK, Registry!Send, Registry!SendLocked, Registry!Ping
<1>5. ASSUME NEW d \in Registry!Conns,
             Registry!WriterExits(d) \/ Registry!CheckerFires(d) \/ Registry!CheckerCloses(d)
      PROVE ConnectionSettles(c) /\ UNCHANGED <<workers, registryOwner, made, closed>>
  <2>1. link[d] # "none"
    <3>1. writer[d] = "idle" \/ checker[d] \in {"tick", "closing"}
      BY <1>5 DEF Registry!WriterExits, Registry!CheckerFires, Registry!CheckerCloses
    <3> QED
      BY <3>1 DEF RegistryIInv, MadeInOrder, Unmade
  <2> QED
    BY <1>1, <1>5, <2>1
       DEF Registry!TypeOK, Registry!WriterExits, Registry!CheckerFires, Registry!CheckerCloses
<1>6. CASE Registry!Requests
  BY <1>6
     DEF Registry!Requests, Registry!ListStart, Registry!ListEnd, Registry!ListVisit, Registry!Lookup,
         Registry!Command, Registry!conns
<1>7. CASE UNCHANGED Registry!vars
  BY <1>7 DEF Registry!vars, Registry!conns
<1> QED
  BY <1>2, <1>3, <1>4, <1>5, <1>6, <1>7 DEF RegistryOthers

LEMMA HandleKeepsPanics ==
  ASSUME Registry!RegistryAssumption, RegistryIInv, ~panicked, NEW c \in Registry!Conns,
         Registry!Handle(c), panicked'
  PROVE  Registry!PanicNeedsReconnect'
<1>1. c \in closed /\ reader[c] = "lock" /\ registryOwner' = registryOwner
  BY DEF Registry!Handle
<1>2. ~Registry!SoleConnection(c) /\ registryOwner[c] # Registry!None
  BY <1>1 DEF Registry!RegistryAssumption, RegistryIInv, ClosedByAnother, MadeInOrder, Unmade
<1> QED
  BY <1>1, <1>2 DEF Registry!PanicNeedsReconnect, Registry!SoleConnection

LEMMA RegistryOthersKeep ==
  ASSUME Registry!RegistryAssumption, RegistryIInv, ~panicked \/ UNCHANGED Registry!vars, RegistryOthers
  PROVE  RegistryIInv'
<1>0. /\ RegistryTypes /\ Registry!TypeOK /\ MadeInOrder /\ LateAfterReader /\ ClosedByAnother
      /\ Registry!WorkingIsRegistered /\ Registry!EntryIsOpen
  BY DEF RegistryIInv, RegistryTypes, Registry!WorkersStayReachable
<1>1. RegistryTypes'
  BY <1>0, RegistryOthersKeepTypes
<1>2. \A c \in Registry!Conns : ConnectionSettles(c)
  BY RegistryOthersSettle
<1>3. UNCHANGED <<workers, registryOwner, made, closed>>
  BY
     DEF RegistryOthers, Registry!LinkDown, Registry!GoStale, Registry!DeadlinePasses,
         Registry!Receive, Registry!Handle, Registry!Send, Registry!SendLocked, Registry!Ping,
         Registry!WriterExits,
         Registry!CheckerFires, Registry!CheckerCloses, Registry!Requests, Registry!ListStart,
         Registry!ListEnd, Registry!ListVisit, Registry!Lookup, Registry!Command, Registry!conns,
         Registry!vars
<1>4. \A c : Registry!SoleConnection(c)' <=> Registry!SoleConnection(c)
  BY <1>3 DEF Registry!SoleConnection
<1>5. MadeInOrder'
  BY <1>0, <1>2, <1>3 DEF MadeInOrder, Unmade, ConnectionSettles
<1>6. LateAfterReader'
  BY <1>0, <1>2 DEF LateAfterReader, ConnectionSettles
<1>7. ClosedByAnother'
  <2>1. closed \subseteq Registry!Conns
    BY <1>0 DEF Registry!TypeOK
  <2> QED
    BY <1>0, <1>2, <1>3, <1>4, <2>1 DEF ClosedByAnother, ConnectionSettles
<1>8. Registry!WorkingIsRegistered'
  <2> SUFFICES ASSUME NEW c \in Registry!Conns, Registry!Works(c)', Registry!SoleConnection(c)
      PROVE  Registry!Registered(c)'
    BY <1>4 DEF Registry!WorkingIsRegistered
  <2>1. Registry!Works(c)
    BY <1>2 DEF Registry!Works, ConnectionSettles
  <2> QED
    BY <1>0, <1>3, <2>1 DEF Registry!WorkingIsRegistered, Registry!Registered
<1>9. Registry!EntryIsOpen'
  BY <1>0, <1>3 DEF Registry!EntryIsOpen
<1>10. Registry!PanicNeedsReconnect'
  <2>1. CASE panicked' = panicked
    BY <1>3, <1>4, <2>1 DEF RegistryIInv, Registry!WorkersStayReachable, Registry!PanicNeedsReconnect
  <2>2. ASSUME NEW c \in Registry!Conns, Registry!Handle(c), ~panicked
        PROVE  Registry!PanicNeedsReconnect'
    <3>1. CASE panicked'
      BY <2>2, <3>1, HandleKeepsPanics
    <3>2. CASE ~panicked'
      BY <3>2 DEF Registry!PanicNeedsReconnect
    <3> QED
      BY <3>1, <3>2
  <2>3. CASE UNCHANGED Registry!vars
    BY <2>1, <2>3 DEF Registry!vars
  <2>4. panicked' = panicked \/ \E c \in Registry!Conns : Registry!Handle(c)
    BY
       DEF RegistryOthers, Registry!LinkDown, Registry!GoStale, Registry!DeadlinePasses,
           Registry!Receive, Registry!Handle, Registry!Send, Registry!SendLocked, Registry!Ping,
           Registry!WriterExits,
           Registry!CheckerFires, Registry!CheckerCloses, Registry!Requests, Registry!ListStart,
           Registry!ListEnd, Registry!ListVisit, Registry!Lookup, Registry!Command, Registry!vars
  <2> QED
    BY <2>1, <2>2, <2>3, <2>4
<1> QED
  BY <1>1, <1>5, <1>6, <1>7, <1>8, <1>9, <1>10 DEF RegistryIInv, Registry!WorkersStayReachable

LEMMA RegistryStepKeeps == ASSUME Registry!RegistryAssumption
PROVE  RegistryIInv /\ [Registry!Next]_(Registry!vars) => RegistryIInv'
<1> SUFFICES ASSUME RegistryIInv, [Registry!Next]_(Registry!vars) PROVE RegistryIInv'
  OBVIOUS
<1>1. ASSUME NEW i \in Workers, Registry!Register(i), ~panicked PROVE RegistryIInv'
  BY <1>1, RegisterKeeps
<1>2. ASSUME NEW c \in Registry!Conns, Registry!ReaderExits(c) \/ Registry!CheckerUnregisters(c),
             ~panicked
      PROVE  RegistryIInv'
  BY <1>2, UnregisterKeeps
<1>3. CASE RegistryOthers /\ (~panicked \/ UNCHANGED Registry!vars)
  BY <1>3, RegistryOthersKeep
<1>4. \/ RegistryOthers /\ (~panicked \/ UNCHANGED Registry!vars)
      \/ /\ ~panicked
         /\ \/ \E i \in Workers : Registry!Register(i)
            \/ \E c \in Registry!Conns : Registry!ReaderExits(c) \/ Registry!CheckerUnregisters(c)
  BY DEF Registry!Next, Registry!Step, Registry!Pumps, RegistryOthers
<1> QED
  BY <1>1, <1>2, <1>3, <1>4

-----------------------------------------------------------------------------
(* The table, the channels and the goroutines keep their types, and an     *)
(* entry of the table is a connection of its worker id.                    *)
THEOREM RegistryTypeCorrect == ASSUME Registry!RegistryAssumption
PROVE  Registry!SafeSpec => []Registry!TypeOK
<1>1. RegistryIInv => Registry!TypeOK
  BY DEF RegistryIInv, RegistryTypes
<1> QED
  BY <1>1, RegistryInitHolds, RegistryStepKeeps, PTL DEF Registry!SafeSpec

(* A connection whose goroutines work stays in the table, and an entry of  *)
(* the table has an open channel, whatever the goroutines of other         *)
(* connections unregister by id, unless the same id connects twice.        *)
LEMMA RegistryReaches == ASSUME Registry!RegistryAssumption
PROVE  Registry!SafeSpec => []Registry!WorkersStayReachable
<1>1. RegistryIInv => Registry!WorkersStayReachable
  BY DEF RegistryIInv
<1> QED
  BY <1>1, RegistryInitHolds, RegistryStepKeeps, PTL DEF Registry!SafeSpec

-----------------------------------------------------------------------------
(* ProcessScheduler: its types, and that a process which runs and was not  *)
(* told to stop is in the table, unless its id was started more than once. *)

(* SoleIsManaged is not inductive: removeInstance goes by id, so it must be *)
(* known that it is called for processes that have ended, and that no id   *)
(* has been given to an instance that is still to be started.              *)
OnlyStartedAreNamed ==
  /\ started \in 0..MaxStarts
  /\ \A n \in Scheduler!Instances : n > started => workerOf[n] = Scheduler!None
  /\ \A n \in Scheduler!Instances : schedulerProcess[n] = "running" => workerOf[n] \in Workers

MonitorsOfTheEnded ==
  \A n \in Scheduler!Instances : monitor[n] \in {"reaped", "locked", "done"} =>
    schedulerProcess[n] = "exited"

SchedulerIInv ==
  Scheduler!TypeOK /\ OnlyStartedAreNamed /\ MonitorsOfTheEnded /\ Scheduler!SoleIsManaged

LEMMA SchedulerInitHolds == ASSUME Scheduler!SchedulerAssumption PROVE Scheduler!Init => SchedulerIInv
  BY
     DEF Scheduler!SchedulerAssumption, Scheduler!Init, SchedulerIInv, Scheduler!TypeOK,
         OnlyStartedAreNamed, MonitorsOfTheEnded,
         Scheduler!SoleIsManaged, Scheduler!Managed, Scheduler!Instances, Scheduler!None

LEMMA SchedulerStartKeeps ==
  ASSUME Scheduler!SchedulerAssumption, SchedulerIInv, NEW i \in Workers, Scheduler!Start(i)
  PROVE  SchedulerIInv'
<1> DEFINE n == started + 1
<1>1. n \in Scheduler!Instances /\ workerOf[n] = Scheduler!None
  BY
     DEF Scheduler!SchedulerAssumption, SchedulerIInv, OnlyStartedAreNamed, Scheduler!Start,
         Scheduler!Instances
<1>2. Scheduler!TypeOK'
  <2>1. \A j \in Workers : instances[j] # n
    BY <1>1
       DEF Scheduler!SchedulerAssumption, SchedulerIInv, Scheduler!TypeOK, Scheduler!Instances,
           Scheduler!None
  <2>2. /\ instances' \in [Workers -> 0..MaxStarts]
        /\ workerOf' \in [Scheduler!Instances -> Workers \cup {Scheduler!None}]
        /\ schedulerProcess' \in [Scheduler!Instances -> {"none", "running", "exited"}]
        /\ monitor' \in [Scheduler!Instances -> {"off", "wait", "reaped", "locked", "done"}]
    BY <1>1
       DEF Scheduler!SchedulerAssumption, SchedulerIInv, Scheduler!TypeOK, Scheduler!Start,
           Scheduler!Instances
  <2>3. \A j \in Workers : instances'[j] # Scheduler!None => workerOf'[instances'[j]] = j
    BY <1>1, <2>1
       DEF Scheduler!SchedulerAssumption, SchedulerIInv, Scheduler!TypeOK, Scheduler!Start,
           Scheduler!Instances, Scheduler!None
  <2> QED
    BY <2>2, <2>3 DEF SchedulerIInv, Scheduler!TypeOK, Scheduler!Start
<1>3. OnlyStartedAreNamed'
  BY <1>1
     DEF Scheduler!SchedulerAssumption, SchedulerIInv, OnlyStartedAreNamed, Scheduler!TypeOK,
         Scheduler!Start, Scheduler!Instances
<1>4. MonitorsOfTheEnded'
  BY <1>1 DEF SchedulerIInv, MonitorsOfTheEnded, Scheduler!TypeOK, Scheduler!Start
<1>5. Scheduler!SoleIsManaged'
  <2> SUFFICES ASSUME NEW m \in Scheduler!Instances, schedulerProcess'[m] = "running", m \notin asked',
                      \A k \in Scheduler!Instances \ {m} : workerOf'[k] # workerOf'[m]
               PROVE  Scheduler!Managed(m)'
    BY DEF Scheduler!SoleIsManaged
  <2>1. CASE m = n
    <3>1. workerOf'[n] = i /\ instances'[i] = n
      BY <1>1 DEF SchedulerIInv, Scheduler!TypeOK, Scheduler!Start
    <3> QED
      BY <2>1, <3>1 DEF Scheduler!SchedulerAssumption, Scheduler!Managed, Scheduler!None
  <2>2. CASE m # n
    <3>1. workerOf'[m] = workerOf[m] /\ schedulerProcess[m] = "running" /\ workerOf[m] \in Workers
      BY <2>2, <1>1 DEF SchedulerIInv, Scheduler!TypeOK, OnlyStartedAreNamed, Scheduler!Start
    <3>2. workerOf[m] # i
      BY <2>2, <3>1, <1>1 DEF SchedulerIInv, Scheduler!TypeOK, Scheduler!Start
    <3>3. \A k \in Scheduler!Instances \ {m} : workerOf[k] # workerOf[m]
      <4> SUFFICES ASSUME NEW k \in Scheduler!Instances \ {m} PROVE workerOf[k] # workerOf[m]
        OBVIOUS
      <4>1. CASE k = n
        BY <4>1, <3>1, <1>1 DEF Scheduler!SchedulerAssumption, Scheduler!None
      <4>2. CASE k # n
        BY <4>2, <3>1, <1>1 DEF SchedulerIInv, Scheduler!TypeOK, Scheduler!Start
      <4> QED
        BY <4>1, <4>2
    <3>4. Scheduler!Managed(m)
      BY <3>1, <3>3 DEF SchedulerIInv, Scheduler!SoleIsManaged, Scheduler!Start
    <3> QED
      BY <3>1, <3>2, <3>4 DEF SchedulerIInv, Scheduler!TypeOK, Scheduler!Start, Scheduler!Managed
  <2> QED
    BY <2>1, <2>2
<1> QED
  BY <1>2, <1>3, <1>4, <1>5 DEF SchedulerIInv

(* StopEnds and removeInstance take the entry of an id out of the table:   *)
(* of an id whose only instance was told to stop, or has ended.            *)
LEMMA StopKeeps ==
  ASSUME Scheduler!SchedulerAssumption, SchedulerIInv, NEW n \in Scheduler!Instances,
         Scheduler!StopEnds(n)
  PROVE  SchedulerIInv'
<1>1. Scheduler!TypeOK'
  <2>1. instances' \in [Workers -> 0..MaxStarts] /\ asked' \subseteq Scheduler!Instances
    <3>1. Scheduler!None \in 0..MaxStarts
      BY DEF Scheduler!SchedulerAssumption, Scheduler!None
    <3> QED
      BY <3>1 DEF SchedulerIInv, Scheduler!TypeOK, Scheduler!StopEnds
  <2>2. \A j \in Workers : instances'[j] # Scheduler!None => workerOf[instances'[j]] = j
    BY DEF SchedulerIInv, Scheduler!TypeOK, Scheduler!StopEnds, Scheduler!None
  <2> QED
    BY <2>1, <2>2 DEF SchedulerIInv, Scheduler!TypeOK, Scheduler!StopEnds, Scheduler!Release
<1>2. OnlyStartedAreNamed' /\ MonitorsOfTheEnded'
  BY DEF SchedulerIInv, OnlyStartedAreNamed, MonitorsOfTheEnded, Scheduler!StopEnds
<1>3. Scheduler!SoleIsManaged'
  <2> SUFFICES ASSUME NEW m \in Scheduler!Instances, schedulerProcess'[m] = "running", m \notin asked',
                      \A k \in Scheduler!Instances \ {m} : workerOf'[k] # workerOf'[m]
               PROVE  Scheduler!Managed(m)'
    BY DEF Scheduler!SoleIsManaged
  <2>1. Scheduler!Managed(m)
    BY DEF SchedulerIInv, Scheduler!SoleIsManaged, Scheduler!StopEnds
  <2> QED
    BY <2>1 DEF SchedulerIInv, Scheduler!TypeOK, Scheduler!StopEnds, Scheduler!Managed
<1> QED
  BY <1>1, <1>2, <1>3 DEF SchedulerIInv

LEMMA RemoveKeeps ==
  ASSUME Scheduler!SchedulerAssumption, SchedulerIInv, NEW n \in Scheduler!Instances,
         Scheduler!RemoveInstance(n)
  PROVE  SchedulerIInv'
<1>1. schedulerProcess[n] = "exited"
  BY DEF SchedulerIInv, MonitorsOfTheEnded, Scheduler!RemoveInstance
<1>2. Scheduler!TypeOK'
  <2>1. instances' \in [Workers -> 0..MaxStarts]
    <3>1. Scheduler!None \in 0..MaxStarts
      BY DEF Scheduler!SchedulerAssumption, Scheduler!None
    <3> QED
      BY <3>1 DEF SchedulerIInv, Scheduler!TypeOK, Scheduler!RemoveInstance
  <2>2. \A j \in Workers : instances'[j] # Scheduler!None => workerOf[instances'[j]] = j
    BY DEF SchedulerIInv, Scheduler!TypeOK, Scheduler!RemoveInstance, Scheduler!None
  <2> QED
    BY <2>1, <2>2 DEF SchedulerIInv, Scheduler!TypeOK, Scheduler!RemoveInstance
<1>3. OnlyStartedAreNamed' /\ MonitorsOfTheEnded'
  BY
     DEF SchedulerIInv, Scheduler!TypeOK, OnlyStartedAreNamed, MonitorsOfTheEnded,
         Scheduler!RemoveInstance
<1>4. Scheduler!SoleIsManaged'
  <2> SUFFICES ASSUME NEW m \in Scheduler!Instances, schedulerProcess'[m] = "running", m \notin asked',
                      \A k \in Scheduler!Instances \ {m} : workerOf'[k] # workerOf'[m]
               PROVE  Scheduler!Managed(m)'
    BY DEF Scheduler!SoleIsManaged
  <2>1. Scheduler!Managed(m) /\ m # n
    BY <1>1 DEF SchedulerIInv, Scheduler!SoleIsManaged, Scheduler!RemoveInstance
  <2> QED
    BY <2>1 DEF SchedulerIInv, Scheduler!TypeOK, Scheduler!RemoveInstance, Scheduler!Managed
<1> QED
  BY <1>2, <1>3, <1>4 DEF SchedulerIInv

(* The steps that leave the table and the ids alone.                       *)
LEMMA OthersKeep ==
  ASSUME Scheduler!SchedulerAssumption, SchedulerIInv,
         \/ \E i \in Workers : Scheduler!StopBegins(i) \/ Scheduler!HealthBegins(i)
         \/ \E n \in Scheduler!Instances : Scheduler!Exit(n) \/ Scheduler!ListVisits(n) \/ Scheduler!WaitReturns(n) \/ Scheduler!MonitorLocks(n)
         \/ Scheduler!ListBegins \/ Scheduler!ListEnds \/ Scheduler!HealthEnds
         \/ UNCHANGED Scheduler!vars
  PROVE  SchedulerIInv'
<1>1. UNCHANGED <<instances, workerOf, started>>
  BY
     DEF Scheduler!StopBegins, Scheduler!HealthBegins, Scheduler!Exit, Scheduler!ListVisits,
         Scheduler!WaitReturns, Scheduler!MonitorLocks, Scheduler!ListBegins,
         Scheduler!ListEnds, Scheduler!HealthEnds, Scheduler!vars
<1>2. Scheduler!TypeOK'
  <2>1. ASSUME NEW i \in Workers, Scheduler!StopBegins(i) \/ Scheduler!HealthBegins(i)
        PROVE  Scheduler!TypeOK'
    <3>1. instances[i] # Scheduler!None /\ instances[i] \in Scheduler!Instances
      BY <2>1
         DEF Scheduler!SchedulerAssumption, SchedulerIInv, Scheduler!TypeOK, Scheduler!StopBegins,
             Scheduler!HealthBegins, Scheduler!Instances, Scheduler!None
    <3>2. CASE Scheduler!StopBegins(i)
      BY <3>1, <3>2 DEF SchedulerIInv, Scheduler!TypeOK, Scheduler!StopBegins
    <3>3. CASE Scheduler!HealthBegins(i)
      BY <3>1, <3>3 DEF SchedulerIInv, Scheduler!TypeOK, Scheduler!HealthBegins
    <3> QED
      BY <2>1, <3>2, <3>3
  <2>2. ASSUME NEW n \in Scheduler!Instances,
               Scheduler!Exit(n) \/ Scheduler!ListVisits(n) \/ Scheduler!WaitReturns(n) \/ Scheduler!MonitorLocks(n)
        PROVE  Scheduler!TypeOK'
    BY <2>2
       DEF SchedulerIInv, Scheduler!TypeOK, Scheduler!Exit, Scheduler!ListVisits,
           Scheduler!WaitReturns, Scheduler!MonitorLocks
  <2>3. CASE Scheduler!ListBegins
    <3>1. {instances[i] : i \in Workers} \ {Scheduler!None} \subseteq Scheduler!Instances
      BY
         DEF Scheduler!SchedulerAssumption, SchedulerIInv, Scheduler!TypeOK, Scheduler!Instances,
             Scheduler!None
    <3> QED
      BY <2>3, <3>1 DEF SchedulerIInv, Scheduler!TypeOK, Scheduler!ListBegins
  <2>4. CASE Scheduler!ListEnds
    BY <2>4 DEF SchedulerIInv, Scheduler!TypeOK, Scheduler!ListEnds, Scheduler!Release
  <2>5. CASE Scheduler!HealthEnds
    BY <2>5
       DEF Scheduler!SchedulerAssumption, SchedulerIInv, Scheduler!TypeOK, Scheduler!HealthEnds,
           Scheduler!Instances, Scheduler!None
  <2>6. CASE UNCHANGED Scheduler!vars
    BY <2>6 DEF SchedulerIInv, Scheduler!TypeOK, Scheduler!vars
  <2> QED
    BY <2>1, <2>2, <2>3, <2>4, <2>5, <2>6
<1>3. /\ \A n \in Scheduler!Instances : schedulerProcess'[n] = "running" =>
           schedulerProcess[n] = "running"
      /\ \A n \in Scheduler!Instances : schedulerProcess[n] = "exited" =>
           schedulerProcess'[n] = "exited"
      /\ asked \subseteq asked'
  BY
     DEF SchedulerIInv, Scheduler!TypeOK, Scheduler!StopBegins, Scheduler!HealthBegins, Scheduler!Exit,
         Scheduler!ListVisits, Scheduler!WaitReturns, Scheduler!MonitorLocks,
         Scheduler!ListBegins, Scheduler!ListEnds, Scheduler!HealthEnds, Scheduler!vars
<1>4. OnlyStartedAreNamed'
  BY <1>1, <1>3 DEF SchedulerIInv, OnlyStartedAreNamed
<1>5. MonitorsOfTheEnded'
  <2>1. CASE UNCHANGED monitor
    BY <2>1, <1>3 DEF SchedulerIInv, MonitorsOfTheEnded
  <2>2. ASSUME NEW n \in Scheduler!Instances, Scheduler!WaitReturns(n) \/ Scheduler!MonitorLocks(n)
        PROVE  MonitorsOfTheEnded'
    BY <2>2
       DEF SchedulerIInv, Scheduler!TypeOK, MonitorsOfTheEnded, Scheduler!WaitReturns,
           Scheduler!MonitorLocks
  <2> QED
    BY <2>1, <2>2
       DEF Scheduler!StopBegins, Scheduler!HealthBegins, Scheduler!Exit, Scheduler!ListVisits,
           Scheduler!ListBegins, Scheduler!ListEnds,
                      Scheduler!HealthEnds, Scheduler!vars
<1>6. Scheduler!SoleIsManaged'
  BY <1>1, <1>3 DEF SchedulerIInv, Scheduler!SoleIsManaged, Scheduler!Managed
<1> QED
  BY <1>2, <1>4, <1>5, <1>6 DEF SchedulerIInv

LEMMA SchedulerStepKeeps == ASSUME Scheduler!SchedulerAssumption
PROVE  SchedulerIInv /\ [Scheduler!Next]_(Scheduler!vars) => SchedulerIInv'
<1> SUFFICES ASSUME SchedulerIInv, [Scheduler!Next]_(Scheduler!vars) PROVE SchedulerIInv'
  OBVIOUS
<1>1. ASSUME NEW i \in Workers, Scheduler!Start(i) PROVE SchedulerIInv'
  BY <1>1, SchedulerStartKeeps
<1>2. ASSUME NEW n \in Scheduler!Instances, Scheduler!StopEnds(n) PROVE SchedulerIInv'
  BY <1>2, StopKeeps
<1>3. ASSUME NEW n \in Scheduler!Instances, Scheduler!RemoveInstance(n) PROVE SchedulerIInv'
  BY <1>3, RemoveKeeps
<1> QED
  BY <1>1, <1>2, <1>3, OthersKeep DEF Scheduler!Next, Scheduler!Goroutine

-----------------------------------------------------------------------------
(* The table, the locks and the monitors keep their types, and an entry of *)
(* the table is an instance of its id: Start, Stop, Health, List and       *)
(* monitorProcess never mix up the workers.                                *)
THEOREM SchedulerTypeCorrect == ASSUME Scheduler!SchedulerAssumption
PROVE  Scheduler!SafeSpec => []Scheduler!TypeOK
<1>1. SchedulerIInv => Scheduler!TypeOK
  BY DEF SchedulerIInv
<1> QED
  BY <1>1, SchedulerInitHolds, SchedulerStepKeeps, PTL DEF Scheduler!SafeSpec

(* A process that runs and was not told to stop can be listed and stopped, *)
(* whatever the monitors of older processes remove by id, if its id was    *)
(* started once.                                                           *)
LEMMA SchedulerManagesSole == ASSUME Scheduler!SchedulerAssumption
PROVE  Scheduler!SafeSpec => []Scheduler!SoleIsManaged
<1>1. SchedulerIInv => Scheduler!SoleIsManaged
  BY DEF SchedulerIInv
<1> QED
  BY <1>1, SchedulerInitHolds, SchedulerStepKeeps, PTL DEF Scheduler!SafeSpec

-----------------------------------------------------------------------------
(* MemoryStore: the lock is held by one call from reading to renaming, and *)
(* so no change of a memory file is lost to another.                       *)

(* What the first argument needs of the types. What Outcome makes of a     *)
(* text is left open in it: no change is lost whatever is computed.        *)
MemoryShape ==
  /\ file = [t \in Memory!Targets |-> file[t]]
  /\ lock \in [Memory!Targets -> Callers \cup {Memory!Free}]
  /\ at \in [Callers -> {"idle", "lock", "update", "write", "rename", "unlock"}]
  /\ memoryCall = [c \in Callers |-> memoryCall[c]]
  /\ \A c \in Callers : Memory!Target(c) \in Memory!Targets
  /\ next = [c \in Callers |-> next[c]]

(* A call has the lock of its target from reading to unlocking ...         *)
HoldersHaveLock ==
  \A c \in Callers : at[c] \in {"update", "write", "rename", "unlock"} => lock[Memory!Target(c)] = c

(* ... and meanwhile what it is about to write stays what it would compute *)
(* from the file as it is now.                                             *)
NextIsCurrent ==
  \A c \in Callers : at[c] \in {"write", "rename"} =>
    /\ next[c] = Memory!Outcome(memoryCall[c], file[Memory!Target(c)])
    /\ next[c] # Memory!Refused

MemoryIInv == MemoryShape /\ HoldersHaveLock /\ NextIsCurrent

-----------------------------------------------------------------------------
LEMMA MemoryInitHolds == Memory!Init => MemoryIInv
<1> SUFFICES ASSUME Memory!Init PROVE MemoryIInv
  OBVIOUS
<1>1. \A c \in Callers : memoryCall[c].target = "user"
  BY DEF Memory!Init, Memory!NoCall
<1>2. MemoryShape
  BY <1>1 DEF Memory!Init, MemoryShape, Memory!Target, Memory!Targets
<1>3. HoldersHaveLock /\ NextIsCurrent
  BY DEF Memory!Init, HoldersHaveLock, NextIsCurrent
<1> QED
  BY <1>2, <1>3 DEF MemoryIInv

LEMMA RequestsHaveTargets == \A r \in Memory!Requests : r.target \in Memory!Targets
  BY DEF Memory!Requests

(* Two calls that hold the lock of one target are the same call.           *)
LEMMA OneHolder ==
  ASSUME MemoryIInv, NEW c \in Callers, NEW d \in Callers, Memory!Target(c) = Memory!Target(d),
         at[c] \in {"update", "write", "rename", "unlock"},
         at[d] \in {"update", "write", "rename", "unlock"}
  PROVE  c = d
  BY DEF MemoryIInv, HoldersHaveLock

LEMMA ExecuteKeeps ==
  ASSUME MemoryIInv, NEW c \in Callers, NEW r \in Memory!Requests, Memory!Execute(c, r)
  PROVE  MemoryIInv'
<1>1. /\ \A d \in Callers \ {c} : Memory!Target(d)' = Memory!Target(d) /\ memoryCall'[d] = memoryCall[d] /\ at'[d] = at[d]
      /\ Memory!Target(c)' = r.target /\ at'[c] = "lock"
  BY DEF MemoryIInv, MemoryShape, Memory!Execute, Memory!GoTo, Memory!Target
<1>2. MemoryShape'
  BY <1>1, RequestsHaveTargets DEF MemoryIInv, MemoryShape, Memory!Execute, Memory!GoTo
<1>3. HoldersHaveLock'
  BY <1>1 DEF MemoryIInv, HoldersHaveLock, Memory!Execute
<1>4. NextIsCurrent'
  BY <1>1 DEF MemoryIInv, NextIsCurrent, Memory!Execute
<1> QED
  BY <1>2, <1>3, <1>4 DEF MemoryIInv

LEMMA LockFileKeeps ==
  ASSUME Memory!MemoryAssumption, MemoryIInv, NEW c \in Callers, Memory!LockFile(c)
  PROVE  MemoryIInv'
<1>1. /\ \A d \in Callers : Memory!Target(d)' = Memory!Target(d)
      /\ \A d \in Callers \ {c} : at'[d] = at[d]
      /\ at'[c] = "update" /\ lock'[Memory!Target(c)] = c
      /\ \A t \in Memory!Targets \ {Memory!Target(c)} : lock'[t] = lock[t]
  BY DEF MemoryIInv, MemoryShape, Memory!LockFile, Memory!GoTo, Memory!Target
<1>2. MemoryShape'
  BY <1>1 DEF MemoryIInv, MemoryShape, Memory!LockFile, Memory!GoTo
<1>3. HoldersHaveLock'
  <2> SUFFICES ASSUME NEW d \in Callers, at'[d] \in {"update", "write", "rename", "unlock"}
               PROVE  lock'[Memory!Target(d)'] = d
    BY DEF HoldersHaveLock
  <2>1. CASE d = c
    BY <2>1, <1>1
  <2>2. CASE d # c
    <3>1. lock[Memory!Target(d)] = d /\ Memory!Target(d) \in Memory!Targets
      BY <2>2, <1>1 DEF MemoryIInv, MemoryShape, HoldersHaveLock
    <3>2. Memory!Target(d) # Memory!Target(c)
      BY <3>1 DEF Memory!MemoryAssumption, Memory!LockFile
    <3> QED
      BY <3>1, <3>2, <1>1
  <2> QED
    BY <2>1, <2>2
<1>4. NextIsCurrent'
  BY <1>1 DEF MemoryIInv, NextIsCurrent, Memory!LockFile
<1> QED
  BY <1>2, <1>3, <1>4 DEF MemoryIInv

LEMMA UpdateKeeps ==
  ASSUME MemoryIInv, NEW c \in Callers, Memory!Update(c)
  PROVE  MemoryIInv'
<1>1. /\ \A d \in Callers : Memory!Target(d)' = Memory!Target(d)
      /\ \A d \in Callers \ {c} : at'[d] = at[d] /\ next'[d] = next[d]
      /\ at'[c] \in {"unlock", "write"}
      /\ at'[c] = "write" =>
           next'[c] = Memory!Outcome(memoryCall[c], file[Memory!Target(c)]) /\ next'[c] # Memory!Refused
  BY DEF MemoryIInv, MemoryShape, Memory!Update, Memory!GoTo, Memory!Target
<1>2. MemoryShape'
  BY <1>1 DEF MemoryIInv, MemoryShape, Memory!Update, Memory!GoTo
<1>3. HoldersHaveLock'
  BY <1>1 DEF MemoryIInv, HoldersHaveLock, Memory!Update
<1>4. NextIsCurrent'
  BY <1>1 DEF MemoryIInv, NextIsCurrent, Memory!Update
<1> QED
  BY <1>2, <1>3, <1>4 DEF MemoryIInv

LEMMA MemoryWriteKeeps ==
  ASSUME MemoryIInv, NEW c \in Callers, Memory!WriteTemp(c) \/ Memory!IOFails(c)
  PROVE  MemoryIInv'
<1>1. /\ \A d \in Callers : Memory!Target(d)' = Memory!Target(d)
      /\ \A d \in Callers \ {c} : at'[d] = at[d]
      /\ at[c] \in {"update", "write", "rename"}
      /\ at'[c] \in {"rename", "unlock"}
      /\ at'[c] = "rename" => at[c] = "write"
  BY DEF MemoryIInv, MemoryShape, Memory!WriteTemp, Memory!IOFails, Memory!GoTo, Memory!Target
<1>2. MemoryShape'
  BY <1>1 DEF MemoryIInv, MemoryShape, Memory!WriteTemp, Memory!IOFails, Memory!GoTo
<1>3. HoldersHaveLock'
  BY <1>1 DEF MemoryIInv, HoldersHaveLock, Memory!WriteTemp, Memory!IOFails
<1>4. NextIsCurrent'
  BY <1>1 DEF MemoryIInv, NextIsCurrent, Memory!WriteTemp, Memory!IOFails
<1> QED
  BY <1>2, <1>3, <1>4 DEF MemoryIInv

(* Renaming changes the text no other call has computed from: none holds   *)
(* the lock of this target.                                                *)
LEMMA RenameKeeps ==
  ASSUME MemoryIInv, NEW c \in Callers, Memory!Rename(c)
  PROVE  MemoryIInv'
<1>1. /\ \A d \in Callers : Memory!Target(d)' = Memory!Target(d)
      /\ \A d \in Callers \ {c} : at'[d] = at[d]
      /\ at[c] = "rename" /\ at'[c] = "unlock"
      /\ \A t \in Memory!Targets \ {Memory!Target(c)} : file'[t] = file[t]
  BY DEF MemoryIInv, MemoryShape, Memory!Rename, Memory!GoTo, Memory!Target
<1>2. MemoryShape'
  BY <1>1 DEF MemoryIInv, MemoryShape, Memory!Rename, Memory!GoTo
<1>3. HoldersHaveLock'
  BY <1>1 DEF MemoryIInv, HoldersHaveLock, Memory!Rename
<1>4. NextIsCurrent'
  <2> SUFFICES ASSUME NEW d \in Callers, at'[d] \in {"write", "rename"}
               PROVE  /\ next[d] = Memory!Outcome(memoryCall[d], file'[Memory!Target(d)])
                      /\ next[d] # Memory!Refused
    BY <1>1 DEF NextIsCurrent, Memory!Rename
  <2>1. d # c /\ at[d] \in {"write", "rename"}
    BY <1>1
  <2>2. Memory!Target(d) \in Memory!Targets \ {Memory!Target(c)}
    BY <2>1, <1>1, OneHolder DEF MemoryIInv, MemoryShape
  <2> QED
    BY <2>1, <2>2, <1>1 DEF MemoryIInv, NextIsCurrent
<1> QED
  BY <1>2, <1>3, <1>4 DEF MemoryIInv

LEMMA UnlockKeeps ==
  ASSUME MemoryIInv, NEW c \in Callers, Memory!Unlock(c)
  PROVE  MemoryIInv'
<1>1. /\ \A d \in Callers \ {c} : Memory!Target(d)' = Memory!Target(d) /\ memoryCall'[d] = memoryCall[d] /\ at'[d] = at[d]
                                  /\ next'[d] = next[d]
      /\ at[c] = "unlock" /\ at'[c] = "idle" /\ Memory!Target(c)' \in Memory!Targets
      /\ \A t \in Memory!Targets \ {Memory!Target(c)} : lock'[t] = lock[t]
  BY
     DEF MemoryIInv, MemoryShape, Memory!Unlock, Memory!Return, Memory!GoTo, Memory!Target,
         Memory!NoCall, Memory!Targets
<1>2. MemoryShape'
  BY <1>1 DEF MemoryIInv, MemoryShape, Memory!Unlock, Memory!Return, Memory!GoTo
<1>3. HoldersHaveLock'
  <2> SUFFICES ASSUME NEW d \in Callers, at'[d] \in {"update", "write", "rename", "unlock"}
               PROVE  lock'[Memory!Target(d)'] = d
    BY DEF HoldersHaveLock
  <2>1. d # c /\ at[d] \in {"update", "write", "rename", "unlock"}
    BY <1>1
  <2>2. Memory!Target(d) \in Memory!Targets \ {Memory!Target(c)}
    BY <2>1, <1>1, OneHolder DEF MemoryIInv, MemoryShape
  <2> QED
    BY <2>1, <2>2, <1>1 DEF MemoryIInv, HoldersHaveLock
<1>4. NextIsCurrent'
  BY <1>1 DEF MemoryIInv, NextIsCurrent, Memory!Unlock
<1> QED
  BY <1>2, <1>3, <1>4 DEF MemoryIInv

LEMMA CrashKeeps ==
  ASSUME MemoryIInv, NEW c \in Callers, Memory!Crash(c)
  PROVE  MemoryIInv'
<1>1. /\ \A d \in Callers \ {c} : Memory!Target(d)' = Memory!Target(d) /\ memoryCall'[d] = memoryCall[d] /\ at'[d] = at[d]
                                  /\ next'[d] = next[d]
      /\ at'[c] = "idle" /\ Memory!Target(c)' \in Memory!Targets
      /\ \A t \in Memory!Targets : lock[t] # c => lock'[t] = lock[t]
  BY
     DEF MemoryIInv, MemoryShape, Memory!Crash, Memory!Return, Memory!GoTo, Memory!Target,
         Memory!NoCall, Memory!Targets
<1>2. MemoryShape'
  BY <1>1 DEF MemoryIInv, MemoryShape, Memory!Crash, Memory!Return, Memory!GoTo
<1>3. HoldersHaveLock'
  BY <1>1 DEF MemoryIInv, MemoryShape, HoldersHaveLock
<1>4. NextIsCurrent'
  BY <1>1 DEF MemoryIInv, NextIsCurrent, Memory!Crash
<1> QED
  BY <1>2, <1>3, <1>4 DEF MemoryIInv

LEMMA MemoryStepKeeps == ASSUME Memory!MemoryAssumption
PROVE  MemoryIInv /\ [Memory!Next]_(Memory!memoryVars) => MemoryIInv'
<1> SUFFICES ASSUME MemoryIInv, [Memory!Next]_(Memory!memoryVars) PROVE MemoryIInv'
  OBVIOUS
<1>1. CASE UNCHANGED Memory!memoryVars
  BY <1>1 DEF Memory!memoryVars, MemoryIInv, MemoryShape, HoldersHaveLock, NextIsCurrent, Memory!Target
<1>2. ASSUME NEW c \in Callers, Memory!Proceed(c) PROVE MemoryIInv'
  BY <1>2, LockFileKeeps, UpdateKeeps, MemoryWriteKeeps, RenameKeeps, UnlockKeeps DEF Memory!Proceed
<1> QED
  BY <1>1, <1>2, ExecuteKeeps, CrashKeeps DEF Memory!Next

-----------------------------------------------------------------------------
(* What NoLostUpdate says of a step. *)
ChangeIsCurrent ==
  \A t \in Memory!Targets : file'[t] # file[t] =>
    \E c \in Callers :
      /\ lock[t] = c /\ Memory!Target(c) = t
      /\ Memory!Outcome(memoryCall[c], file[t]) # Memory!Refused
      /\ file'[t] = Memory!Outcome(memoryCall[c], file[t])

LEMMA StepIsCurrent ==
  MemoryIInv /\ [Memory!Next]_(Memory!memoryVars) => [ChangeIsCurrent]_(Memory!memoryVars)
<1> SUFFICES ASSUME MemoryIInv, Memory!Next PROVE ChangeIsCurrent
  BY DEF ChangeIsCurrent
<1>1. CASE UNCHANGED file
  BY <1>1 DEF ChangeIsCurrent
<1>2. ASSUME NEW c \in Callers, Memory!Rename(c) PROVE ChangeIsCurrent
  <2>1. /\ at[c] = "rename"
        /\ \A t \in Memory!Targets : file'[t] # file[t] =>
             t = Memory!Target(c) /\ file'[t] = next[c]
    BY <1>2 DEF MemoryIInv, MemoryShape, Memory!Rename
  <2>2. /\ lock[Memory!Target(c)] = c
        /\ next[c] = Memory!Outcome(memoryCall[c], file[Memory!Target(c)]) /\ next[c] # Memory!Refused
    BY <2>1 DEF MemoryIInv, HoldersHaveLock, NextIsCurrent
  <2> QED
    BY <2>1, <2>2 DEF ChangeIsCurrent
<1> QED
  BY <1>1, <1>2
     DEF Memory!Next, Memory!Proceed, Memory!Execute, Memory!LockFile, Memory!Update, Memory!WriteTemp,
         Memory!IOFails, Memory!Unlock, Memory!Crash

(* mutate: no call of the memory tool loses the change of another, however *)
(* many share the directory and whichever of them die.                     *)
LEMMA MemoryLosesNothing == ASSUME Memory!MemoryAssumption PROVE Memory!SafeSpec => Memory!NoLostUpdate
<1>1. ChangeIsCurrent <=>
        \A t \in Memory!Targets : file'[t] # file[t] =>
          \E c \in Callers :
            /\ lock[t] = c /\ Memory!Target(c) = t
            /\ Memory!Outcome(memoryCall[c], file[t]) # Memory!Refused
            /\ file'[t] = Memory!Outcome(memoryCall[c], file[t])
  BY DEF ChangeIsCurrent
<1> QED
  BY <1>1, MemoryInitHolds, MemoryStepKeeps, StepIsCurrent, PTL DEF Memory!SafeSpec, Memory!NoLostUpdate

-----------------------------------------------------------------------------
(* MemoryStore: what is written fits its limit and holds nothing blocked,  *)
(* whatever was read. What has been read is counted by rank.               *)

(* The element of rank k of a set of numbers.                              *)
LEMMA Ranked ==
  ASSUME NEW n \in Nat, NEW K \in SUBSET (1..n), NEW k \in 1..Cardinality(K)
  PROVE  \E i \in K : Cardinality({j \in K : j <= i}) = k
<1> DEFINE Upto(m) == {j \in K : j <= m}
           T == {m \in Nat : Cardinality(Upto(m)) >= k}
<1>0. \A j \in K : j \in Nat /\ 1 <= j /\ j <= n
  OBVIOUS
<1>1. IsFiniteSet(K)
  <2>1. IsFiniteSet(1..n)
    BY FS_Interval
  <2> QED
    BY <2>1, FS_Subset
<1>2. ASSUME NEW m \in Nat PROVE IsFiniteSet(Upto(m)) /\ Cardinality(Upto(m)) \in Nat
  <2>1. Upto(m) \in SUBSET K
    OBVIOUS
  <2> HIDE DEF Upto
  <2>2. IsFiniteSet(Upto(m))
    BY <1>1, <2>1, FS_Subset
  <2> QED
    BY <2>2, FS_CardinalityType
<1>3. Upto(n) = K /\ Upto(0) = {}
  <2>1. \A j \in K : j <= n /\ ~(j <= 0)
    BY <1>0
  <2> QED
    BY <2>1
<1>4. n \in T /\ 0 \notin T
  BY <1>2, <1>3, FS_EmptySet
<1>5. PICK m \in T : \A l \in T : m <= l
  BY <1>4, Session!LeastOf
<1>6. m \in Nat /\ m - 1 \in Nat /\ m - 1 \notin T /\ m # 0
  <2>1. m \in Nat
    OBVIOUS
  <2> HIDE DEF T
  <2>2. m # 0
    BY <1>4, <1>5
  <2> QED
    BY <1>5, <2>1, <2>2
<1>7. Cardinality(Upto(m)) >= k /\ ~(Cardinality(Upto(m - 1)) >= k)
  BY <1>5, <1>6
<1>8. m \in K /\ Upto(m) = Upto(m - 1) \cup {m} /\ m \notin Upto(m - 1)
  <2>1. m \in K
    <3> SUFFICES ASSUME m \notin K PROVE FALSE
      OBVIOUS
    <3>1. \A j \in K : j <= m <=> j <= m - 1
      BY <1>0, <1>6
    <3>2. Upto(m) = Upto(m - 1)
      BY <3>1
    <3> QED
      BY <1>7, <3>2
  <2>2. \A j \in K : j <= m <=> j <= m - 1 \/ j = m
    BY <1>0, <1>6
  <2>3. ~(m <= m - 1) /\ m <= m
    BY <1>6
  <2> QED
    BY <2>1, <2>2, <2>3
<1>9. Cardinality(Upto(m)) = Cardinality(Upto(m - 1)) + 1
  BY <1>2, <1>6, <1>8, FS_AddElement
<1>10. Cardinality(Upto(m)) = k
  <2>1. PICK a \in Nat : a = Cardinality(Upto(m - 1))
    BY <1>2, <1>6
  <2> HIDE DEF Upto, T
  <2> QED
    BY <1>7, <1>9, <2>1
<1> QED
  BY <1>8, <1>10

LEMMA MemoryCardinality == ASSUME NEW S PROVE Memory!Cardinality(S) = Cardinality(S)
BY DEF Memory!Cardinality, Cardinality

(* Texts that scanContent lets pass, and what readEntries makes of one.    *)
Clean == Pieces \ Blocked

LEMMA EntriesRead ==
  ASSUME NEW text \in Seq(Clean)
  PROVE  Memory!ReadEntries(text) \in Seq(Clean) /\ Len(Memory!ReadEntries(text)) <= Len(text)
<1> DEFINE first == {i \in DOMAIN text : \A j \in 1..(i - 1) : text[j] # text[i]}
           At(k) == CHOOSE i \in first : Memory!Cardinality({j \in first : j <= i}) = k
<1>1. PICK n \in Nat : n = Len(text) /\ DOMAIN text = 1..n /\ \A i \in 1..n : text[i] \in Clean
  BY LenProperties
<1>2. first \in SUBSET (1..n)
  BY <1>1
<1>3. IsFiniteSet(first) /\ Cardinality(first) <= n /\ Cardinality(first) \in Nat
  <2>1. IsFiniteSet(1..n) /\ Cardinality(1..n) = n
    BY FS_Interval
  <2> HIDE DEF first
  <2>2. IsFiniteSet(first) /\ Cardinality(first) <= Cardinality(1..n)
    BY <1>2, <2>1, FS_Subset
  <2> QED
    BY <2>1, <2>2, FS_CardinalityType
<1>4. Memory!ReadEntries(text) = [k \in 1..Memory!Cardinality(first) |-> text[At(k)]]
  BY DEF Memory!ReadEntries
<1> HIDE DEF first
<1>9. Memory!Cardinality(first) = Cardinality(first)
  BY MemoryCardinality
<1>5. \A k \in 1..Cardinality(first) : At(k) \in first
  <2> SUFFICES ASSUME NEW k \in 1..Cardinality(first) PROVE At(k) \in first
    OBVIOUS
  <2>1. \E i \in first : Cardinality({j \in first : j <= i}) = k
    BY <1>2, <1>1, Ranked
  <2>2. \E i \in first : Memory!Cardinality({j \in first : j <= i}) = k
    BY <2>1, MemoryCardinality
  <2> QED
    BY <2>2
<1> HIDE DEF At
<1>6. Memory!ReadEntries(text) \in [1..Cardinality(first) -> Clean]
  BY <1>1, <1>2, <1>4, <1>5, <1>9
<1>7. Memory!ReadEntries(text) \in Seq(Clean)
  BY <1>3, <1>6, SeqDef
<1>8. Len(Memory!ReadEntries(text)) = Cardinality(first)
  BY <1>3, <1>6, <1>7, LenProperties
<1> QED
  BY <1>1, <1>3, <1>7, <1>8

Kept(s, t) == s \in Seq(Clean) /\ Len(s) <= Limit[t]

LEMMA ScannedIsClean ==
  ASSUME NEW s \in Seq(Pieces), Memory!Scanned(s) PROVE s \in Seq(Clean)
<1>1. PICK n \in Nat : n = Len(s) /\ DOMAIN s = 1..n /\ s \in [1..n -> Pieces]
  BY LenProperties
<1>2. \A i \in 1..n : s[i] \notin Blocked
  BY <1>1 DEF Memory!Scanned, Memory!ToSet
<1>3. s \in [1..n -> Clean]
  BY <1>1, <1>2 DEF Clean
<1> QED
  BY <1>1, <1>3, SeqDef

LEMMA TextJoined ==
  ASSUME NEW s \in Seq(Clean), NEW i \in DOMAIN s, NEW x \in Seq(Clean)
  PROVE  /\ Memory!JoinEntries(s, i, x) \in Seq(Clean)
         /\ Len(Memory!JoinEntries(s, i, x)) = Len(s) - 1 + Len(x)
<1>1. PICK n \in Nat : n = Len(s) /\ DOMAIN s = 1..n /\ \A j \in 1..n : s[j] \in Clean
  BY LenProperties
<1>2. SubSeq(s, 1, i - 1) \in Seq(Clean) /\ Len(SubSeq(s, 1, i - 1)) = i - 1
  <2>1. \A j \in 1..(i - 1) : s[j] \in Clean
    BY <1>1
  <2> QED
    BY <1>1, <2>1, SubSeqProperties
<1>3. SubSeq(s, i + 1, Len(s)) \in Seq(Clean) /\ Len(SubSeq(s, i + 1, Len(s))) = n - i
  <2>1. \A j \in (i + 1)..n : s[j] \in Clean
    BY <1>1
  <2> QED
    BY <1>1, <2>1, SubSeqProperties
<1> DEFINE front == SubSeq(s, 1, i - 1)
           back == SubSeq(s, i + 1, Len(s))
<1> HIDE DEF front, back
<1>4. front \o x \in Seq(Clean) /\ Len(front \o x) = Len(front) + Len(x)
  BY <1>2, ConcatProperties DEF front
<1>5. (front \o x) \o back \in Seq(Clean) /\ Len((front \o x) \o back) = Len(front) + Len(x) + Len(back)
  BY <1>3, <1>4, ConcatProperties DEF back
<1>6. Memory!JoinEntries(s, i, x) = (front \o x) \o back
  BY DEF Memory!JoinEntries, front, back
<1>7. PICK a \in Nat : a = Len(x)
  BY LenProperties
<1> QED
  <2>1. Len(front) = i - 1 /\ Len(back) = n - i /\ Len(s) = n /\ i \in 1..n
    BY <1>1, <1>2, <1>3 DEF front, back
  <2>2. Len(Memory!JoinEntries(s, i, x)) = Len(front) + Len(x) + Len(back)
    BY <1>5, <1>6
  <2>3. Len(Memory!JoinEntries(s, i, x)) = (i - 1) + a + (n - i)
    BY <1>7, <2>1, <2>2
  <2>4. (i - 1) + a + (n - i) = n - 1 + a
    BY <2>1
  <2> QED
    BY <1>5, <1>6, <1>7, <2>1, <2>3, <2>4

(* What a tool call makes of a text fits, and holds nothing blocked.       *)
LEMMA OutcomeKept ==
  ASSUME Memory!MemoryAssumption, NEW r \in Memory!Requests, NEW text, Kept(text, r.target),
         Memory!Outcome(r, text) # Memory!Refused
  PROVE  Kept(Memory!Outcome(r, text), r.target)
<1> DEFINE entries == Memory!ReadEntries(text)
           i == Memory!Addressed(entries, r.old)
           room == Limit[r.target]
<1>1. /\ r.op \in {"add", "replace", "remove"} /\ r.target \in Memory!Targets /\ room \in Nat
      /\ r.content \in Seq(Pieces)
  <2>1. r.op \in {"add", "replace", "remove"} /\ r.target \in Memory!Targets /\ r.content \in Contents \cup {<<>>}
    BY DEF Memory!Requests
  <2>2. <<>> \in Seq(Pieces) /\ Contents \subseteq Seq(Pieces)
    BY DEF Memory!MemoryAssumption
  <2>3. Limit \in [Memory!Targets -> Nat]
    BY DEF Memory!MemoryAssumption
  <2> QED
    BY <2>1, <2>2, <2>3
<1>2. /\ entries \in Seq(Clean) /\ Len(entries) <= room /\ Len(entries) \in Nat
  <2>1. text \in Seq(Clean) /\ Len(text) \in Nat /\ Len(text) <= room
    BY LenProperties DEF Kept
  <2>2. entries \in Seq(Clean) /\ Len(entries) <= Len(text) /\ Len(entries) \in Nat
    BY <2>1, EntriesRead, LenProperties
  <2> HIDE DEF entries, room
  <2> QED
    BY <1>1, <2>1, <2>2
<1> HIDE DEF entries
<1>3. i # 0 => i \in DOMAIN entries
  <2> DEFINE matches == Memory!MatchingEntries(entries, r.old)
  <2> SUFFICES ASSUME i # 0 PROVE i \in DOMAIN entries
    OBVIOUS
  <2>1. matches # {} /\ i = CHOOSE k \in matches : \A j \in matches : k <= j
    BY DEF Memory!Addressed
  <2>2. matches \in SUBSET Nat /\ matches \subseteq DOMAIN entries
    BY <1>2, LenProperties DEF Memory!MatchingEntries
  <2> HIDE DEF matches, i
  <2>3. \E k \in matches : \A j \in matches : k <= j
    BY <2>1, <2>2, Session!LeastOf
  <2> QED
    BY <2>1, <2>2, <2>3
<1>4. CASE r.op = "add"
  <2>1. Memory!Outcome(r, text) = Memory!Added(entries, r)
    BY <1>4 DEF Memory!Outcome, entries
  <2>2. Memory!Scanned(r.content)
    BY <2>1 DEF Memory!Added
  <2>3. entries \o r.content \in Seq(Clean)
    BY <1>1, <1>2, <2>2, ScannedIsClean, ConcatProperties
  <2>4. CASE Memory!Added(entries, r) = entries
    BY <1>2, <2>1, <2>4 DEF Kept
  <2>5. CASE Memory!Added(entries, r) = entries \o r.content /\ Memory!Fits(entries \o r.content, r.target)
    BY <2>1, <2>3, <2>5 DEF Kept, Memory!Fits
  <2> QED
    BY <2>1, <2>2, <2>4, <2>5 DEF Memory!Added
<1>5. CASE r.op = "replace"
  <2>1. Memory!Outcome(r, text) = Memory!Replaced(entries, r)
    BY <1>5 DEF Memory!Outcome, entries
  <2>2. /\ Memory!Scanned(r.content) /\ i # 0
        /\ Memory!Replaced(entries, r) = Memory!JoinEntries(entries, i, r.content)
        /\ Memory!Fits(Memory!JoinEntries(entries, i, r.content), r.target)
    BY <2>1 DEF Memory!Replaced
  <2>3. Memory!JoinEntries(entries, i, r.content) \in Seq(Clean)
    BY <1>1, <1>2, <1>3, <2>2, ScannedIsClean, TextJoined
  <2> QED
    BY <2>1, <2>2, <2>3 DEF Kept, Memory!Fits
<1>6. CASE r.op = "remove"
  <2>1. Memory!Outcome(r, text) = Memory!Removed(entries, r)
    BY <1>6 DEF Memory!Outcome, entries
  <2>2. i # 0 /\ Memory!Removed(entries, r) = Memory!JoinEntries(entries, i, <<>>)
    BY <2>1 DEF Memory!Removed
  <2>3. /\ Memory!JoinEntries(entries, i, <<>>) \in Seq(Clean)
        /\ Len(Memory!JoinEntries(entries, i, <<>>)) = Len(entries) - 1 + Len(<<>>)
    <3>1. <<>> \in Seq(Clean)
      OBVIOUS
    <3> QED
      BY <1>2, <1>3, <2>2, <3>1, TextJoined
  <2>4. PICK n : n = Len(entries)
    OBVIOUS
  <2>5. Len(Memory!JoinEntries(entries, i, <<>>)) <= room
    <3>1. Len(<<>>) = 0
      OBVIOUS
    <3> HIDE DEF room, i
    <3> QED
      BY <1>1, <1>2, <2>3, <2>4, <3>1
  <2> QED
    BY <2>1, <2>2, <2>3, <2>5 DEF Kept
<1> QED
  BY <1>1, <1>4, <1>5, <1>6

(* Every file holds a text the tool may write, whatever it is made of.     *)
MemoryTyped ==
  /\ file \in [Memory!Targets -> Seq(Clean)]
  /\ \A t \in Memory!Targets : Kept(file[t], t)
  /\ memoryCall \in [Callers -> Memory!Requests \cup {Memory!NoCall}]
  /\ \A c \in Callers : at[c] # "idle" => memoryCall[c] \in Memory!Requests
  /\ next \in [Callers -> Seq(Pieces)]
  /\ temps \subseteq Callers /\ changes \in 0..MaxChanges

LEMMA CleanTexts == Seq(Clean) \subseteq Seq(Pieces) /\ <<>> \in Seq(Clean)
<1>1. Clean \subseteq Pieces
  BY DEF Clean
<1> QED
  BY <1>1, SeqMonotonic

LEMMA MemoryTypedBegins == ASSUME Memory!MemoryAssumption PROVE Memory!Init => MemoryTyped
<1> SUFFICES ASSUME Memory!Init PROVE MemoryTyped
  OBVIOUS
<1>1. Limit \in [Memory!Targets -> Nat] /\ MaxChanges \in Nat
  BY DEF Memory!MemoryAssumption
<1>2. \A t \in Memory!Targets : file[t] = <<>> /\ Kept(<<>>, t)
  <2>1. Len(<<>>) = 0
    OBVIOUS
  <2> QED
    BY <1>1, <2>1, CleanTexts DEF Memory!Init, Kept
<1> QED
  BY <1>1, <1>2, CleanTexts DEF Memory!Init, MemoryTyped

(* A step that leaves the files alone, of call c.                          *)
LEMMA CallKeepsTypes ==
  ASSUME MemoryTyped, NEW c \in Callers, file' = file,
         DOMAIN at' = Callers, DOMAIN memoryCall' = Callers, DOMAIN next' = Callers,
         \A d \in Callers \ {c} : at'[d] = at[d] /\ memoryCall'[d] = memoryCall[d] /\ next'[d] = next[d],
         at'[c] # "idle" => memoryCall'[c] \in Memory!Requests,
         memoryCall'[c] \in Memory!Requests \cup {Memory!NoCall},
         memoryCall' = [d \in Callers |-> memoryCall'[d]], next' = [d \in Callers |-> next'[d]],
         next'[c] \in Seq(Pieces), temps' \subseteq Callers, changes' \in 0..MaxChanges
  PROVE  MemoryTyped'
<1>1. memoryCall' \in [Callers -> Memory!Requests \cup {Memory!NoCall}]
  BY DEF MemoryTyped
<1>2. next' \in [Callers -> Seq(Pieces)]
  BY DEF MemoryTyped
<1>3. \A d \in Callers : at'[d] # "idle" => memoryCall'[d] \in Memory!Requests
  BY DEF MemoryTyped
<1> QED
  BY <1>1, <1>2, <1>3 DEF MemoryTyped, Kept

LEMMA MemoryStepTyped ==
  ASSUME Memory!MemoryAssumption, MemoryIInv, MemoryTyped, Memory!Next
  PROVE  MemoryTyped'
<1> PICK c \in Callers : (\E r \in Memory!Requests : Memory!Execute(c, r)) \/ Memory!Proceed(c) \/ Memory!Crash(c)
  BY DEF Memory!Next
<1>1. /\ at \in [Callers -> {"idle", "lock", "update", "write", "rename", "unlock"}]
      /\ memoryCall \in [Callers -> Memory!Requests \cup {Memory!NoCall}] /\ next \in [Callers -> Seq(Pieces)]
      /\ temps \subseteq Callers /\ changes \in 0..MaxChanges /\ MaxChanges \in Nat
  BY DEF MemoryIInv, MemoryShape, MemoryTyped, Memory!MemoryAssumption
<1>2. at[c] # "idle" =>
        memoryCall[c] \in Memory!Requests /\ Memory!Target(c) = memoryCall[c].target /\ Memory!Target(c) \in Memory!Targets
  BY DEF MemoryTyped, MemoryIInv, MemoryShape, Memory!Target
<1>3. ASSUME at[c] \in {"write", "rename"} \/ (at[c] = "update" /\ next'[c] = Memory!Outcome(memoryCall[c], file[Memory!Target(c)]) /\ next'[c] # Memory!Refused)
      PROVE  Kept(Memory!Outcome(memoryCall[c], file[Memory!Target(c)]), Memory!Target(c))
  <2>1. Memory!Outcome(memoryCall[c], file[Memory!Target(c)]) # Memory!Refused
    BY <1>3 DEF MemoryIInv, NextIsCurrent
  <2> QED
    BY <1>2, <1>3, <2>1, OutcomeKept DEF MemoryTyped
<1>4. ASSUME NEW r \in Memory!Requests, Memory!Execute(c, r) PROVE MemoryTyped'
  <2>1. /\ file' = file /\ at' = [at EXCEPT ![c] = "lock"] /\ memoryCall' = [memoryCall EXCEPT ![c] = r]
        /\ next' = next /\ temps' = temps /\ changes < MaxChanges /\ changes' = changes + 1
    BY <1>4 DEF Memory!Execute, Memory!GoTo
  <2>2. changes' \in 0..MaxChanges
    BY <1>1, <2>1
  <2> QED
    BY <1>1, <2>1, <2>2, CallKeepsTypes
<1>5. CASE Memory!LockFile(c) \/ Memory!WriteTemp(c) \/ Memory!IOFails(c)
  <2>1. /\ at[c] # "idle" /\ UNCHANGED <<file, memoryCall, next, changes>>
        /\ \E place : at' = [at EXCEPT ![c] = place]
        /\ temps' \subseteq temps \cup {c}
    BY <1>5 DEF Memory!LockFile, Memory!WriteTemp, Memory!IOFails, Memory!GoTo
  <2> QED
    BY <1>1, <1>2, <2>1, CallKeepsTypes
<1>6. CASE Memory!Update(c)
  <2>1. /\ at[c] = "update" /\ UNCHANGED <<file, memoryCall, temps, changes>>
        /\ \E place : at' = [at EXCEPT ![c] = place]
        /\ \/ next' = next
           \/ /\ next' = [next EXCEPT ![c] = Memory!Outcome(memoryCall[c], file[Memory!Target(c)])]
              /\ Memory!Outcome(memoryCall[c], file[Memory!Target(c)]) # Memory!Refused
    BY <1>6 DEF Memory!Update, Memory!GoTo
  <2>2. next'[c] \in Seq(Pieces)
    <3>1. CASE next' = next
      BY <1>1, <3>1
    <3>2. CASE next' # next
      <4>1. /\ next'[c] = Memory!Outcome(memoryCall[c], file[Memory!Target(c)])
            /\ next'[c] # Memory!Refused
        BY <1>1, <2>1, <3>2
      <4> QED
        BY <1>3, <2>1, <4>1, CleanTexts DEF Kept
    <3> QED
      BY <3>1, <3>2
  <2> QED
    BY <1>1, <1>2, <2>1, <2>2, CallKeepsTypes
<1>7. CASE Memory!Rename(c)
  <2>1. /\ at[c] = "rename" /\ UNCHANGED <<memoryCall, next, changes>> /\ temps' \subseteq temps
        /\ at' = [at EXCEPT ![c] = "unlock"]
        /\ file' = [file EXCEPT ![Memory!Target(c)] = next[c]]
    BY <1>7 DEF Memory!Rename, Memory!GoTo
  <2>2. next[c] = Memory!Outcome(memoryCall[c], file[Memory!Target(c)])
    BY <2>1 DEF MemoryIInv, NextIsCurrent
  <2>3. Kept(next[c], Memory!Target(c))
    BY <1>3, <2>1, <2>2
  <2>4. file' \in [Memory!Targets -> Seq(Clean)] /\ \A t \in Memory!Targets : Kept(file'[t], t)
    BY <1>2, <2>1, <2>3 DEF MemoryTyped, Kept
  <2>5. \A d \in Callers : at'[d] # "idle" => memoryCall'[d] \in Memory!Requests
    BY <1>1, <1>2, <2>1 DEF MemoryTyped
  <2> QED
    BY <1>1, <2>1, <2>4, <2>5 DEF MemoryTyped, Kept
<1>8. CASE Memory!Unlock(c) \/ Memory!Crash(c)
  <2>1. /\ UNCHANGED <<file, temps, changes>> /\ at' = [at EXCEPT ![c] = "idle"]
        /\ memoryCall' = [memoryCall EXCEPT ![c] = Memory!NoCall] /\ next' = [next EXCEPT ![c] = <<>>]
    BY <1>8 DEF Memory!Unlock, Memory!Crash, Memory!Return, Memory!GoTo
  <2> QED
    BY <1>1, <2>1, CleanTexts, CallKeepsTypes
<1> QED
  BY <1>4, <1>5, <1>6, <1>7, <1>8 DEF Memory!Proceed

LEMMA MemoryStutters == ASSUME MemoryTyped, UNCHANGED Memory!memoryVars PROVE MemoryTyped'
BY DEF MemoryTyped, Memory!memoryVars, Kept

(* MemoryStore: no call leaves a file that is longer than its limit or     *)
(* that holds a text scanContent refuses.                                  *)
LEMMA MemoryTypeCorrect == ASSUME Memory!MemoryAssumption PROVE Memory!SafeSpec => []Memory!TypeOK
<1>1. MemoryTyped /\ MemoryIInv => Memory!TypeOK
  <2> SUFFICES ASSUME MemoryTyped, MemoryIInv PROVE Memory!TypeOK
    OBVIOUS
  <2>1. ASSUME NEW t \in Memory!Targets PROVE Len(file[t]) <= Limit[t] /\ Memory!ToSet(file[t]) \cap Blocked = {}
    <3>1. Kept(file[t], t) /\ file[t] \in Seq(Clean)
      BY DEF MemoryTyped
    <3>2. \A i \in DOMAIN file[t] : file[t][i] \in Clean
      BY <3>1
    <3> QED
      BY <3>1, <3>2 DEF Kept, Clean, Memory!ToSet
  <2>2. file \in [Memory!Targets -> Seq(Pieces)]
    BY CleanTexts DEF MemoryTyped
  <2> QED
    BY <2>1, <2>2 DEF MemoryTyped, MemoryIInv, MemoryShape, Memory!TypeOK
<1>2. MemoryTyped /\ MemoryIInv /\ [Memory!Next]_(Memory!memoryVars) => MemoryTyped'
  BY MemoryStepTyped, MemoryStutters
<1> QED
  BY <1>1, <1>2, MemoryTypedBegins, MemoryInitHolds, MemoryStepKeeps, PTL DEF Memory!SafeSpec

-----------------------------------------------------------------------------
(* Assistants: a call writes the row it has read some time before.         *)

AnyRow == Assistant!Rows \cup {Assistant!NoRow}
Operations == {"idle", "create", "update", "status", "delete"}
AnyAssistantCall == [op : Operations, id : Nat, row : AnyRow, seen : SUBSET Nat]

AssistantTypes ==
  /\ assistants \in Seq(Assistant!Rows) /\ Len(assistants) <= MaxAssistants
  /\ assistantCall \in [Callers -> AnyAssistantCall]

(* A call that found a row has it by its code, which never changes, and    *)
(* had not found it deleted; a call that creates a row has seen its code   *)
(* nowhere.                                                                *)
RowsFound ==
  \A p \in Callers :
    /\ assistantCall[p].op # "idle" => assistantCall[p].row \in Assistant!Rows
    /\ assistantCall[p].op \notin {"idle", "create"} =>
         /\ assistantCall[p].id \in 1..Len(assistants) /\ ~assistantCall[p].row.deleted
         /\ assistantCall[p].row.code = assistants[assistantCall[p].id].code
    /\ assistantCall[p].op = "create" =>
         /\ assistantCall[p].id = 0
         /\ \A i \in 1..Len(assistants) :
              i \in assistantCall[p].seen => assistants[i].code # assistantCall[p].row.code
    /\ assistantCall[p].seen \subseteq 1..Len(assistants)

AssistantIInv == AssistantTypes /\ RowsFound

(* OnlyStaleCallsUndo, of one step.                                        *)
UndoneByStale ==
  /\ \A i \in Assistant!Live, j \in Assistant!Ids' \ Assistant!Ids :
       assistants'[j].code = assistants[i].code =>
         \E p \in Assistant!Busy : assistantCall[p].op = "create" /\ i \notin assistantCall[p].seen
  /\ \A i \in Assistant!Ids :
       /\ i \notin Assistant!Live /\ i \in Assistant!Live' =>
            \E p \in Assistant!Busy : assistantCall[p].id = i /\ ~assistantCall[p].row.deleted
       /\ assistants'[i].status # assistants[i].status
          /\ assistants'[i].text # assistants[i].text =>
            \E p \in Assistant!Busy : assistantCall[p].id = i
                                      /\ \/ assistantCall[p].row.status # assistants[i].status
                                         \/ assistantCall[p].row.text # assistants[i].text

-----------------------------------------------------------------------------
RowsTyped ==
  /\ Len(assistants) \in Nat /\ Assistant!Ids = 1..Len(assistants)
  /\ Assistant!Live \subseteq Assistant!Ids
  /\ \A i \in Assistant!Ids : assistants[i] \in Assistant!Rows

LEMMA RowFacts == ASSUME AssistantTypes PROVE RowsTyped
<1>1. assistants \in Seq(Assistant!Rows)
  BY DEF AssistantTypes
<1> QED
  BY <1>1 DEF RowsTyped, Assistant!Ids, Assistant!Live

LEMMA AssistantIdleTyped ==
  Assistant!Idle \in AnyAssistantCall /\ Assistant!Idle.op = "idle" /\ Assistant!Idle.seen = {}
BY DEF Assistant!Idle, AnyAssistantCall, AnyRow, Operations

LEMMA AssistantInitHolds == ASSUME Assistant!AssistantAssumption PROVE Assistant!Init => AssistantIInv
<1> SUFFICES ASSUME Assistant!Init PROVE AssistantIInv
  OBVIOUS
<1>1. assistants \in Seq(Assistant!Rows) /\ Len(assistants) = 0 /\ MaxAssistants \in Nat
  BY DEF Assistant!Init, Assistant!AssistantAssumption
<1>2. \A p \in Callers : assistantCall[p] = Assistant!Idle
  BY DEF Assistant!Init
<1>3. assistantCall \in [Callers -> AnyAssistantCall]
  BY AssistantIdleTyped DEF Assistant!Init
<1> QED
  BY <1>1, <1>2, <1>3, AssistantIdleTyped DEF AssistantIInv, AssistantTypes, RowsFound

(* A step that only changes what the calls have read.                      *)
LEMMA RowsStay == ASSUME assistants' = assistants PROVE UndoneByStale
BY DEF UndoneByStale, Assistant!Ids, Assistant!Live

LEMMA CheckCodeKeeps ==
  ASSUME Assistant!AssistantAssumption, AssistantIInv, NEW p \in Callers, NEW o \in Orgs,
         NEW k \in Codes, Assistant!CheckCode(p, o, k)
  PROVE  AssistantIInv' /\ UndoneByStale
<1> DEFINE new == [op |-> "create", id |-> 0, row |-> Assistant!NewRow(o, k), seen |-> Assistant!Live]
<1>0. AssistantTypes /\ RowsFound /\ RowsTyped /\ assistants' = assistants
  BY RowFacts DEF AssistantIInv, Assistant!CheckCode
<1>1. Assistant!NewRow(o, k) \in Assistant!Rows /\ Assistant!NewRow(o, k).code = k
  BY DEF Assistant!NewRow, Assistant!Rows
<1>2. new \in AnyAssistantCall /\ new.op = "create" /\ new.id = 0 /\ new.row = Assistant!NewRow(o, k)
      /\ new.seen = Assistant!Live
  BY <1>0, <1>1 DEF AnyAssistantCall, AnyRow, Operations, RowsTyped
<1>3. assistantCall' = [assistantCall EXCEPT ![p] = new]
      /\ \A i \in Assistant!Live : assistants[i].code # k
  BY DEF Assistant!CheckCode, Assistant!CodeExists
<1> HIDE DEF new
<1>4. assistantCall' \in [Callers -> AnyAssistantCall] /\ assistantCall'[p] = new
      /\ \A q \in Callers \ {p} : assistantCall'[q] = assistantCall[q]
  BY <1>0, <1>2, <1>3 DEF AssistantTypes
<1>5. AssistantTypes' /\ RowsFound'
  BY <1>0, <1>1, <1>2, <1>3, <1>4 DEF AssistantTypes, RowsFound, RowsTyped
<1> QED
  BY <1>0, <1>5, RowsStay DEF AssistantIInv

LEMMA FindKeeps ==
  ASSUME AssistantIInv, NEW p \in Callers, NEW o \in Orgs, NEW i \in Assistant!Ids,
         NEW op \in {"update", "status", "delete"}, Assistant!Find(p, op, o, i)
  PROVE  AssistantIInv' /\ UndoneByStale
<1> DEFINE new == [op |-> op, id |-> i, row |-> assistants[i], seen |-> Assistant!Live]
<1>0. AssistantTypes /\ RowsFound /\ RowsTyped /\ assistants' = assistants
  BY RowFacts DEF AssistantIInv, Assistant!Find
<1>2. new \in AnyAssistantCall /\ new.op = op /\ new.id = i /\ new.row = assistants[i]
      /\ new.seen = Assistant!Live
  BY <1>0 DEF AnyAssistantCall, AnyRow, Operations, RowsTyped
<1>3. assistantCall' = [assistantCall EXCEPT ![p] = new] /\ i \in Assistant!Live
  BY DEF Assistant!Find
<1> HIDE DEF new
<1>4. assistantCall' \in [Callers -> AnyAssistantCall] /\ assistantCall'[p] = new
      /\ \A q \in Callers \ {p} : assistantCall'[q] = assistantCall[q]
  BY <1>0, <1>2, <1>3 DEF AssistantTypes
<1>5. AssistantTypes' /\ RowsFound'
  BY <1>0, <1>2, <1>3, <1>4 DEF AssistantTypes, RowsFound, RowsTyped, Assistant!Live
<1> QED
  BY <1>0, <1>5, RowsStay DEF AssistantIInv

LEMMA InsertKeeps ==
  ASSUME Assistant!AssistantAssumption, AssistantIInv, NEW p \in Callers, Assistant!Insert(p)
  PROVE  AssistantIInv' /\ UndoneByStale
<1> DEFINE n == Len(assistants)
<1>0. AssistantTypes /\ RowsFound /\ RowsTyped
  BY RowFacts DEF AssistantIInv
<1>1. /\ assistantCall[p].op = "create" /\ n < MaxAssistants /\ assistantCall[p].row \in Assistant!Rows
      /\ p \in Assistant!Busy
      /\ assistants' = Append(assistants, assistantCall[p].row) /\ assistants \in Seq(Assistant!Rows)
      /\ assistantCall' = [assistantCall EXCEPT ![p] = Assistant!Idle]
      /\ assistantCall \in [Callers -> AnyAssistantCall]
  BY <1>0 DEF Assistant!Insert, RowsFound, AssistantTypes, Assistant!Busy
<1>2. /\ assistants' \in Seq(Assistant!Rows) /\ Len(assistants') = n + 1 /\ Assistant!Ids' = 1..(n + 1)
      /\ assistants'[n + 1] = assistantCall[p].row /\ \A i \in 1..n : assistants'[i] = assistants[i]
  BY <1>1 DEF Assistant!Ids
<1>3. n \in Nat /\ Assistant!Ids = 1..n /\ 1..(n + 1) = 1..n \cup {n + 1}
  BY <1>0 DEF RowsTyped
<1>4. assistantCall'[p] = Assistant!Idle
      /\ \A q \in Callers \ {p} : assistantCall'[q] = assistantCall[q]
  BY <1>1
<1>5. AssistantTypes'
  <2>1. n + 1 <= MaxAssistants
    BY <1>1, <1>3 DEF Assistant!AssistantAssumption
  <2> QED
    BY <1>1, <1>2, <2>1, AssistantIdleTyped DEF AssistantTypes
<1>6. RowsFound'
  BY <1>0, <1>2, <1>3, <1>4, AssistantIdleTyped DEF RowsFound
<1>7. UndoneByStale
  <2>1. ASSUME NEW i \in Assistant!Live, NEW j \in Assistant!Ids' \ Assistant!Ids,
               assistants'[j].code = assistants[i].code
        PROVE  i \notin assistantCall[p].seen
    <3>1. j = n + 1 /\ i \in 1..n
      BY <1>0, <1>2, <1>3 DEF RowsTyped
    <3> QED
      BY <1>0, <1>1, <1>2, <2>1, <3>1 DEF RowsFound
  <2>2. \A i \in Assistant!Ids : assistants'[i] = assistants[i] /\ (i \in Assistant!Live' => i \in Assistant!Live)
    BY <1>2, <1>3 DEF Assistant!Live
  <2> QED
    BY <1>1, <2>1, <2>2 DEF UndoneByStale
<1> QED
  BY <1>5, <1>6, <1>7 DEF AssistantIInv

(* A call ends with a row in place of the one it had found.                *)
LEMMA AssistantWriteKeeps ==
  ASSUME AssistantIInv, NEW p \in Callers, NEW new \in Assistant!Rows,
         assistantCall[p].op \notin {"idle", "create"}, new.code = assistantCall[p].row.code,
         assistants' = [assistants EXCEPT ![assistantCall[p].id] = new],
         assistantCall' = [assistantCall EXCEPT ![p] = Assistant!Idle]
  PROVE  /\ AssistantIInv' /\ Assistant!Ids' = Assistant!Ids /\ assistantCall[p].id \in Assistant!Ids /\ assistants'[assistantCall[p].id] = new
         /\ \A i \in Assistant!Ids \ {assistantCall[p].id} : assistants'[i] = assistants[i]
<1>0. AssistantTypes /\ RowsFound /\ RowsTyped /\ assistantCall[p].id \in Assistant!Ids
  BY RowFacts DEF AssistantIInv, RowsFound, RowsTyped
<1>1. /\ assistants \in Seq(Assistant!Rows) /\ assistants' \in Seq(Assistant!Rows)
      /\ Len(assistants') = Len(assistants)
      /\ Assistant!Ids' = Assistant!Ids /\ assistants'[assistantCall[p].id] = new
      /\ \A i \in Assistant!Ids \ {assistantCall[p].id} : assistants'[i] = assistants[i]
  BY <1>0 DEF AssistantTypes, Assistant!Ids
<1>2. \A i \in Assistant!Ids : assistants'[i].code = assistants[i].code
  BY <1>0, <1>1 DEF RowsFound
<1>3. assistantCall \in [Callers -> AnyAssistantCall] /\ assistantCall'[p] = Assistant!Idle
      /\ \A q \in Callers \ {p} : assistantCall'[q] = assistantCall[q]
  BY <1>0 DEF AssistantTypes
<1>4. AssistantTypes'
  BY <1>0, <1>1, <1>3, AssistantIdleTyped DEF AssistantTypes
<1>5. RowsFound'
  BY <1>0, <1>1, <1>2, <1>3, AssistantIdleTyped DEF RowsFound, RowsTyped
<1> QED
  BY <1>0, <1>1, <1>4, <1>5 DEF AssistantIInv

LEMMA SaveTextKeeps ==
  ASSUME AssistantIInv, NEW p \in Callers, Assistant!SaveText(p) PROVE AssistantIInv' /\ UndoneByStale
<1> DEFINE old == assistantCall[p].row
           new == [old EXCEPT !.text = 1 - old.text]
<1>1. /\ assistantCall[p].op = "update" /\ old \in Assistant!Rows /\ p \in Assistant!Busy
      /\ ~old.deleted /\ RowsTyped
      /\ assistants' = [assistants EXCEPT ![assistantCall[p].id] = new]
      /\ assistantCall' = [assistantCall EXCEPT ![p] = Assistant!Idle]
  BY RowFacts DEF AssistantIInv, Assistant!SaveText, RowsFound, Assistant!Busy
<1> HIDE DEF old
<1>2. 1 - old.text \in {0, 1} /\ old.text \in {0, 1}
  BY <1>1 DEF Assistant!Rows
<1>3. new \in Assistant!Rows /\ new.code = old.code /\ new.status = old.status
  BY <1>1, <1>2 DEF Assistant!Rows
<1> HIDE DEF new
<1>4. /\ AssistantIInv' /\ Assistant!Ids' = Assistant!Ids /\ assistantCall[p].id \in Assistant!Ids
      /\ assistants'[assistantCall[p].id] = new
      /\ \A i \in Assistant!Ids \ {assistantCall[p].id} : assistants'[i] = assistants[i]
  BY <1>1, <1>3, AssistantWriteKeeps DEF old
<1>5. UndoneByStale
  BY <1>1, <1>3, <1>4 DEF UndoneByStale, Assistant!Live, old
<1> QED
  BY <1>4, <1>5

LEMMA SaveStatusKeeps ==
  ASSUME AssistantIInv, NEW p \in Callers, Assistant!SaveStatus(p) PROVE AssistantIInv' /\ UndoneByStale
<1> DEFINE old == assistantCall[p].row
<1>1. PICK s \in {"active", "inactive"} : assistants' = [assistants EXCEPT ![assistantCall[p].id] = [old EXCEPT !.status = s]]
  BY DEF Assistant!SaveStatus
<1> DEFINE new == [old EXCEPT !.status = s]
<1>2. /\ assistantCall[p].op = "status" /\ old \in Assistant!Rows /\ p \in Assistant!Busy
      /\ ~old.deleted /\ RowsTyped
      /\ assistantCall' = [assistantCall EXCEPT ![p] = Assistant!Idle]
  BY RowFacts DEF AssistantIInv, Assistant!SaveStatus, RowsFound, Assistant!Busy
<1> HIDE DEF old
<1>3. new \in Assistant!Rows /\ new.code = old.code /\ new.text = old.text
  BY <1>2 DEF Assistant!Rows
<1>4. assistants' = [assistants EXCEPT ![assistantCall[p].id] = new]
  BY <1>1
<1> HIDE DEF new
<1>5. /\ AssistantIInv' /\ Assistant!Ids' = Assistant!Ids /\ assistantCall[p].id \in Assistant!Ids
      /\ assistants'[assistantCall[p].id] = new
      /\ \A i \in Assistant!Ids \ {assistantCall[p].id} : assistants'[i] = assistants[i]
  BY <1>2, <1>3, <1>4, AssistantWriteKeeps DEF old
<1>6. UndoneByStale
  BY <1>2, <1>3, <1>5 DEF UndoneByStale, Assistant!Live, old
<1> QED
  BY <1>5, <1>6

LEMMA DeleteRowKeeps ==
  ASSUME AssistantIInv, NEW p \in Callers, Assistant!DeleteRow(p) PROVE AssistantIInv' /\ UndoneByStale
<1>1. /\ assistantCall[p].op = "delete" /\ AssistantTypes /\ RowsFound /\ RowsTyped
      /\ assistantCall[p].id \in Assistant!Ids
      /\ assistants' = [assistants EXCEPT ![assistantCall[p].id].deleted = TRUE]
      /\ assistantCall' = [assistantCall EXCEPT ![p] = Assistant!Idle]
  BY RowFacts DEF AssistantIInv, Assistant!DeleteRow, RowsFound, RowsTyped
<1> DEFINE old == assistants[assistantCall[p].id]
           new == [old EXCEPT !.deleted = TRUE]
<1>2. old \in Assistant!Rows /\ old.code = assistantCall[p].row.code
  BY <1>1 DEF RowsTyped, RowsFound
<1>3. assistants' = [assistants EXCEPT ![assistantCall[p].id] = new]
  BY <1>1
<1> HIDE DEF old
<1>4. new \in Assistant!Rows /\ new.code = old.code /\ new.deleted /\ new.text = old.text
  BY <1>2 DEF Assistant!Rows
<1> HIDE DEF new
<1>5. /\ AssistantIInv' /\ Assistant!Ids' = Assistant!Ids /\ assistants'[assistantCall[p].id] = new
      /\ \A i \in Assistant!Ids \ {assistantCall[p].id} : assistants'[i] = assistants[i]
  <2>1. /\ assistantCall[p].op \notin {"idle", "create"} /\ new.code = assistantCall[p].row.code
        /\ assistantCall' = [assistantCall EXCEPT ![p] = Assistant!Idle]
    BY <1>1, <1>2, <1>4
  <2> QED
    BY <1>3, <1>4, <2>1, AssistantWriteKeeps
<1>6. UndoneByStale
  BY <1>1, <1>4, <1>5 DEF UndoneByStale, Assistant!Live, old
<1> QED
  BY <1>5, <1>6

LEMMA AssistantStepKeeps ==
  ASSUME Assistant!AssistantAssumption, AssistantIInv, [Assistant!Next]_(Assistant!vars)
  PROVE  AssistantIInv' /\ UndoneByStale
<1>1. CASE UNCHANGED Assistant!vars
  <2>1. AssistantIInv'
    BY <1>1 DEF Assistant!vars, AssistantIInv, AssistantTypes, RowsFound
  <2> QED
    BY <1>1, <2>1, RowsStay DEF Assistant!vars
<1>2. CASE Assistant!Next
  BY <1>2, CheckCodeKeeps, FindKeeps, InsertKeeps, SaveTextKeeps, SaveStatusKeeps, DeleteRowKeeps
     DEF Assistant!Next, Assistant!CreateDigitalAssistant, Assistant!UpdateDigitalAssistant,
         Assistant!UpdateDigitalAssistantStatus,
         Assistant!DeleteDigitalAssistant
<1> QED
  BY <1>1, <1>2

LEMMA AssistantIInvHolds == ASSUME Assistant!AssistantAssumption PROVE Assistant!Spec => []AssistantIInv
<1>1. AssistantIInv /\ [Assistant!Next]_(Assistant!vars) => AssistantIInv'
  BY AssistantStepKeeps
<1> QED
  BY AssistantInitHolds, <1>1, PTL DEF Assistant!Spec

(* The rows and what the calls have read of them keep their types: a call *)
(* that is under way has a row of the table.                               *)
THEOREM AssistantTypeCorrect == ASSUME Assistant!AssistantAssumption
PROVE  Assistant!Spec => []Assistant!TypeOK
<1>1. ASSUME AssistantIInv PROVE Assistant!TypeOK
  <2>1. AssistantTypes /\ RowsFound /\ RowsTyped
    BY <1>1, RowFacts DEF AssistantIInv
  <2>2. ASSUME NEW p \in Assistant!Busy
        PROVE  assistantCall[p].row \in Assistant!Rows /\ assistantCall[p].id \in 0..Len(assistants)
    <3>1. assistantCall[p].op \notin {"idle", "create"} => assistantCall[p].id \in 1..Len(assistants)
      BY <2>1 DEF RowsFound, Assistant!Busy
    <3>2. assistantCall[p].op = "create" => assistantCall[p].id = 0
      BY <2>1 DEF RowsFound, Assistant!Busy
    <3> QED
      BY <2>1, <3>1, <3>2 DEF RowsFound, Assistant!Busy, RowsTyped
  <2> QED
    BY <2>1, <2>2 DEF Assistant!TypeOK, AssistantTypes
<1> QED
  BY <1>1, AssistantIInvHolds, PTL

(* CreateDigitalAssistant, Update..., Delete...: what a call has written is *)
(* undone only by a call that had read the row before.                     *)
LEMMA AssistantsUndo == ASSUME Assistant!AssistantAssumption
PROVE  Assistant!Spec => Assistant!OnlyStaleCallsUndo
<1>1. AssistantIInv /\ [Assistant!Next]_(Assistant!vars) => [UndoneByStale]_(Assistant!vars)
  BY AssistantStepKeeps
<1> QED
  BY <1>1, AssistantIInvHolds, PTL DEF Assistant!Spec, Assistant!OnlyStaleCallsUndo, UndoneByStale

-----------------------------------------------------------------------------
(* Authorizations: each state serves one callback, and a callback carries  *)
(* the account of the user who started it to the store.                    *)

Stages == {"idle", "exchange", "upsert", "look", "default", "user", "create", "answer"}
AnyCallback ==
  [at : Stages, flow : Flows \cup {Auth!Nobody}, account : Auth!Accounts \cup {Auth!NoAccount},
                crossed : BOOLEAN]

AuthShape ==
  /\ DOMAIN authOwner \subseteq Flows /\ \A f \in DOMAIN authOwner : authOwner[f] \in Callers
  /\ pending \subseteq DOMAIN authOwner
  /\ Auth!Stored \subseteq Auth!Accounts
  /\ callback \in [Workers -> AnyCallback]
  /\ people \in [Externals -> Nat]
  /\ \A c \in Workers : callback[c].flow \in DOMAIN authOwner \cup {Auth!Nobody}

(* A user's default account is stored, and the user's.                     *)
Defaulted == \A u \in DOMAIN defaults : defaults[u] \in Auth!Stored /\ defaults[u][1] = u

(* How far a callback has come: its state was issued, its account is that  *)
(* of the user who started, it is stored, and then the user has a default. *)
Carried ==
  \A c \in Auth!Open :
    /\ callback[c].flow \in DOMAIN authOwner
    /\ callback[c].at # "exchange" =>
         callback[c].account \in Auth!Accounts /\ callback[c].account[1] = Auth!UserOf(c)
    /\ callback[c].at \notin {"exchange", "upsert"} => callback[c].account \in Auth!Stored
    /\ callback[c].at \in {"user", "create", "answer"} => Auth!UserOf(c) \in DOMAIN defaults

(* A callback that has met no other is alone, and what it has looked up is *)
(* still so.                                                               *)
CallbacksAlone ==
  \A c \in Auth!Open : ~callback[c].crossed =>
    /\ \A d \in Auth!Open : d = c
    /\ callback[c].at = "default" => Auth!UserOf(c) \notin DOMAIN defaults
    /\ callback[c].at = "create" => people[callback[c].account[2]] = 0

(* Every user of a GitHub account stands for one state that was issued, is *)
(* not pending and is with no callback that may still create a user.       *)
EarlyCallbacks == {c \in Auth!Open : callback[c].at # "answer"}
EarlyFlows == {callback[c].flow : c \in EarlyCallbacks}
FlowsLast ==
  \A e \in Externals :
    people[e] + Cardinality(EarlyFlows) + Cardinality(pending) <= Cardinality(DOMAIN authOwner)

(* What a resolution has found is the user's.                              *)
ResolvesOwn ==
  authRequest.at \in {"credential", "done"} /\ authRequest.user # Auth!Nobody /\ authRequest.by # "installation" =>
    authRequest.account[1] = authRequest.user

AuthIInv ==
  /\ AuthShape /\ Defaulted /\ Carried /\ CallbacksAlone /\ FlowsLast /\ ResolvesOwn
  /\ Auth!StateServesOnce /\ Auth!AnsweredIsUsable

(* What AuthorizationsHold says of a step.                                 *)
OnlyCrossedMove ==
  /\ \A u \in DOMAIN defaults \cap DOMAIN defaults' :
       defaults'[u] # defaults[u] => \E c \in Auth!Open : callback[c].crossed /\ Auth!UserOf(c) = u
  /\ \A e \in Externals :
       people'[e] > people[e] /\ people[e] > 0 => \E c \in Auth!Open : callback[c].crossed

-----------------------------------------------------------------------------
LEMMA AuthIdleTyped ==
  Auth!Idle \in AnyCallback /\ Auth!Idle.at = "idle" /\ Auth!Idle.flow = Auth!Nobody
BY DEF Auth!Idle, AnyCallback, Stages

LEMMA CallbackFacts == ASSUME AuthShape, NEW c \in Workers
  PROVE  /\ callback[c] \in AnyCallback /\ callback[c].at \in Stages /\ callback[c].crossed \in BOOLEAN
         /\ callback[c].flow \in Flows \cup {Auth!Nobody}
         /\ callback[c].account \in Auth!Accounts \cup {Auth!NoAccount}
BY DEF AuthShape, AnyCallback

(* Authorizations has the finite sets in its own name.                     *)
LEMMA AuthIsFiniteSet == ASSUME NEW S PROVE Auth!IsFiniteSet(S) <=> IsFiniteSet(S)
  BY DEF Auth!IsFiniteSet, IsFiniteSet

LEMMA AuthCardinality == ASSUME NEW S PROVE Auth!Cardinality(S) = Cardinality(S)
  BY DEF Auth!Cardinality, Cardinality

(* The sets that FlowsLast counts are finite.                                *)
LEMMA AuthFinite == ASSUME Auth!AuthorizationAssumption, AuthShape, Carried
  PROVE  /\ IsFiniteSet(DOMAIN authOwner) /\ IsFiniteSet(pending) /\ IsFiniteSet(EarlyFlows)
         /\ Cardinality(DOMAIN authOwner) \in Nat /\ Cardinality(pending) \in Nat
         /\ Cardinality(EarlyFlows) \in Nat /\ Cardinality(Flows) \in Nat
         /\ Cardinality(DOMAIN authOwner) <= Cardinality(Flows)
<1>1. EarlyFlows \subseteq DOMAIN authOwner
  BY DEF EarlyFlows, EarlyCallbacks, Carried
<1>2. IsFiniteSet(Flows) /\ DOMAIN authOwner \subseteq Flows /\ pending \subseteq DOMAIN authOwner
  BY AuthIsFiniteSet DEF Auth!AuthorizationAssumption, AuthShape
<1>3. IsFiniteSet(DOMAIN authOwner) /\ Cardinality(DOMAIN authOwner) <= Cardinality(Flows)
  BY <1>2, FS_Subset
<1>4. IsFiniteSet(pending) /\ IsFiniteSet(EarlyFlows)
  BY <1>1, <1>2, <1>3, FS_Subset
<1> QED
  BY <1>2, <1>3, <1>4, FS_CardinalityType

LEMMA AuthInitHolds == ASSUME Auth!AuthorizationAssumption PROVE Auth!Init => AuthIInv
<1> SUFFICES ASSUME Auth!Init PROVE AuthIInv
  OBVIOUS
<1>1. /\ DOMAIN authOwner = {} /\ pending = {} /\ Auth!Stored = {} /\ DOMAIN defaults = {}
      /\ answered = {}
      /\ people = [e \in Externals |-> 0] /\ \A c \in Workers : callback[c] = Auth!Idle
      /\ callback = [c \in Workers |-> Auth!Idle] /\ authRequest.at = "idle"
  BY DEF Auth!Init, Auth!Stored, Auth!NoRequest
<1>2. Auth!Open = {} /\ EarlyFlows = {}
  BY <1>1, AuthIdleTyped DEF Auth!Open, EarlyFlows, EarlyCallbacks
<1>3. AuthShape
  BY <1>1, AuthIdleTyped DEF AuthShape
<1>4. FlowsLast
  BY <1>1, <1>2, FS_EmptySet DEF FlowsLast
<1> QED
  BY <1>1, <1>2, <1>3, <1>4
     DEF AuthIInv, Defaulted, Carried, CallbacksAlone, ResolvesOwn, Auth!StateServesOnce,
         Auth!AnsweredIsUsable

-----------------------------------------------------------------------------
(* A callback goes on, or ends, and the others stand.                      *)
CallbackMoves(c, new) ==
  /\ c \in Auth!Open /\ callback' = [callback EXCEPT ![c] = new] /\ new \in AnyCallback
  /\ \/ new = Auth!Idle
     \/ new.at # "idle" /\ new.flow = callback[c].flow /\ new.crossed = callback[c].crossed
  /\ UNCHANGED authOwner

CallbackMoved(c, new) ==
  /\ c \in Workers /\ callback' \in [Workers -> AnyCallback] /\ callback'[c] = new
  /\ \A d \in Workers \ {c} : callback'[d] = callback[d]
  /\ Auth!Open' \subseteq Auth!Open /\ c \in Auth!Open
  /\ c \in Auth!Open' => /\ new.at # "idle" /\ new.flow = callback[c].flow
                         /\ new.crossed = callback[c].crossed /\ Auth!UserOf(c)' = Auth!UserOf(c)
  /\ \A d \in Workers \ {c} : (d \in Auth!Open' <=> d \in Auth!Open) /\ Auth!UserOf(d)' = Auth!UserOf(d)
  /\ \A d \in Workers : callback'[d].flow \in DOMAIN authOwner \cup {Auth!Nobody}

LEMMA MovesFacts == ASSUME AuthIInv, NEW c, NEW new, CallbackMoves(c, new) PROVE CallbackMoved(c, new)
<1>1. c \in Workers /\ c \in Auth!Open /\ callback \in [Workers -> AnyCallback]
      /\ authOwner' = authOwner /\ AuthShape
  BY DEF CallbackMoves, Auth!Open, AuthIInv, AuthShape
<1>2. /\ callback' \in [Workers -> AnyCallback] /\ callback'[c] = new
      /\ \A d \in Workers \ {c} : callback'[d] = callback[d]
  BY <1>1 DEF CallbackMoves
<1>3. c \in Auth!Open' => /\ new.at # "idle" /\ new.flow = callback[c].flow
                          /\ new.crossed = callback[c].crossed /\ Auth!UserOf(c)' = Auth!UserOf(c)
  BY <1>1, <1>2, AuthIdleTyped DEF CallbackMoves, Auth!Open, Auth!UserOf
<1>4. \A d \in Workers \ {c} : (d \in Auth!Open' <=> d \in Auth!Open) /\ Auth!UserOf(d)' = Auth!UserOf(d)
  BY <1>1, <1>2 DEF Auth!Open, Auth!UserOf
<1>5. Auth!Open' \subseteq Auth!Open
  BY <1>1, <1>4 DEF Auth!Open
<1>6. \A d \in Workers : callback'[d].flow \in DOMAIN authOwner \cup {Auth!Nobody}
  BY <1>1, <1>2, AuthIdleTyped DEF AuthShape, CallbackMoves
<1> QED
  BY <1>1, <1>2, <1>3, <1>4, <1>5, <1>6 DEF CallbackMoved

(* What holds of the callbacks then, as far as it does not depend on the   *)
(* stage that was reached.                                                 *)
LEMMA MovedKeeps ==
  ASSUME AuthIInv, NEW c, NEW new, CallbackMoved(c, new), authOwner' = authOwner, pending' = pending
  PROVE  /\ Auth!StateServesOnce'
         /\ \A d \in Auth!Open' : ~callback'[d].crossed => \A e \in Auth!Open' : e = d
         /\ \A d \in Auth!Open' \ {c} : d \in Auth!Open /\ callback'[d] = callback[d] /\ Auth!UserOf(d)' = Auth!UserOf(d)
<1>1. \A d \in Auth!Open' : d \in Auth!Open /\ callback'[d].flow = callback[d].flow
                            /\ callback'[d].crossed = callback[d].crossed
  BY DEF CallbackMoved, Auth!Open
<1>2. Auth!StateServesOnce'
  BY <1>1 DEF AuthIInv, Auth!StateServesOnce
<1>3. \A d \in Auth!Open' : ~callback'[d].crossed => \A e \in Auth!Open' : e = d
  BY <1>1 DEF AuthIInv, CallbacksAlone
<1>4. \A d \in Auth!Open' \ {c} : d \in Auth!Open /\ callback'[d] = callback[d] /\ Auth!UserOf(d)' = Auth!UserOf(d)
  BY <1>1 DEF CallbackMoved, Auth!Open
<1> QED
  BY <1>2, <1>3, <1>4

LEMMA MovedBudget ==
  ASSUME Auth!AuthorizationAssumption, AuthIInv, NEW c, NEW new, CallbackMoved(c, new),
         authOwner' = authOwner, pending' = pending,
         people' = people, callback[c].at = "answer" => new.at \in {"idle", "answer"}
  PROVE  FlowsLast'
<1>1. EarlyFlows' \subseteq EarlyFlows
  <2>1. \A d \in EarlyCallbacks' : d \in EarlyCallbacks /\ callback'[d].flow = callback[d].flow
    BY DEF EarlyCallbacks, CallbackMoved, Auth!Open
  <2> QED
    BY <2>1 DEF EarlyFlows
<1>2. /\ IsFiniteSet(EarlyFlows) /\ Cardinality(EarlyFlows) \in Nat /\ Cardinality(pending) \in Nat
      /\ Cardinality(DOMAIN authOwner) \in Nat
  BY AuthFinite DEF AuthIInv
<1>3. Cardinality(EarlyFlows') \in Nat /\ Cardinality(EarlyFlows') <= Cardinality(EarlyFlows)
  BY <1>1, <1>2, FS_Subset, FS_CardinalityType
<1>4. ASSUME NEW e \in Externals
      PROVE  people[e] + Cardinality(EarlyFlows') + Cardinality(pending) <= Cardinality(DOMAIN authOwner)
  <2>1. people[e] \in Nat
        /\ people[e] + Cardinality(EarlyFlows) + Cardinality(pending) <= Cardinality(DOMAIN authOwner)
    BY DEF AuthIInv, AuthShape, FlowsLast
  <2> QED
    BY <1>2, <1>3, <2>1
<1> QED
  BY <1>4 DEF FlowsLast

(* A step of a callback c that only moves c on, or ends it.                *)
LEMMA CompleteKeeps ==
  ASSUME Auth!AuthorizationAssumption, AuthIInv, NEW c \in Workers, Auth!CompleteAuthorization(c)
  PROVE  AuthIInv' /\ OnlyCrossedMove
<1>0. /\ callback[c].at = "exchange" /\ c \in Auth!Open
      /\ UNCHANGED <<authOwner, pending, credentials, defaults, people, answered, authRequest>>
      /\ AuthShape /\ Carried /\ CallbacksAlone /\ Defaulted /\ ResolvesOwn /\ Auth!AnsweredIsUsable
  BY DEF Auth!CompleteAuthorization, Auth!Open, AuthIInv
<1>1. PICK new : /\ CallbackMoves(c, new)
                 /\ \/ new = Auth!Idle
                    \/ new.at = "upsert" /\ new.account \in Auth!Accounts /\ new.account[1] = Auth!UserOf(c)
  <2>1. CASE callback' = [callback EXCEPT ![c] = Auth!Idle]
    BY <1>0, <2>1, AuthIdleTyped DEF CallbackMoves
  <2>2. CASE callback' # [callback EXCEPT ![c] = Auth!Idle]
    <3>1. PICK e \in Externals :
            callback' = [callback EXCEPT ![c].at = "upsert", ![c].account = Auth!Account(Auth!UserOf(c), e)]
      BY <2>2 DEF Auth!CompleteAuthorization
    <3> DEFINE acc == Auth!Account(Auth!UserOf(c), e)
               late == [callback[c] EXCEPT !.at = "upsert"]
               new == [late EXCEPT !.account = acc]
    <3>2. acc \in Auth!Accounts /\ acc[1] = Auth!UserOf(c)
      <4>1. Auth!UserOf(c) \in Callers
        BY <1>0 DEF Carried, Auth!UserOf, AuthShape
      <4> QED
        BY <4>1 DEF Auth!Account, Auth!Accounts
    <3>3. callback' = [callback EXCEPT ![c] = new]
      <4> DEFINE m == [callback EXCEPT ![c].at = "upsert"]
      <4>1. m = [callback EXCEPT ![c] = late] /\ m[c] = late
        BY <1>0 DEF AuthShape
      <4>2. callback' = [m EXCEPT ![c].account = acc]
        BY <3>1, Zenon
      <4> QED
        BY <1>0, <4>1, <4>2 DEF AuthShape
    <3> HIDE DEF acc
    <3>4. late \in AnyCallback /\ late.at = "upsert" /\ late.flow = callback[c].flow
          /\ late.crossed = callback[c].crossed
      BY <1>0 DEF AuthShape, AnyCallback, Stages
    <3> HIDE DEF late
    <3>5. /\ new \in AnyCallback /\ new.at = "upsert" /\ new.flow = callback[c].flow
          /\ new.crossed = callback[c].crossed /\ new.account = acc
      BY <3>2, <3>4 DEF AnyCallback
    <3> HIDE DEF new
    <3> QED
      BY <1>0, <3>2, <3>3, <3>5 DEF CallbackMoves
  <2> QED
    BY <2>1, <2>2
<1>2. CallbackMoved(c, new)
  BY <1>1, MovesFacts
<1>3. /\ Auth!StateServesOnce'
      /\ \A d \in Auth!Open' : ~callback'[d].crossed => \A e \in Auth!Open' : e = d
      /\ \A d \in Auth!Open' \ {c} : d \in Auth!Open /\ callback'[d] = callback[d] /\ Auth!UserOf(d)' = Auth!UserOf(d)
  BY <1>0, <1>2, MovedKeeps
<1>4. FlowsLast'
  BY <1>0, <1>2, MovedBudget
<1>5. AuthShape'
  BY <1>0, <1>2 DEF AuthShape, CallbackMoved, Auth!Stored
<1>6. Carried'
  BY <1>0, <1>1, <1>2, <1>3, AuthIdleTyped DEF Carried, CallbackMoved, Auth!Stored
<1>7. CallbacksAlone'
  BY <1>0, <1>1, <1>2, <1>3, AuthIdleTyped DEF CallbacksAlone, CallbackMoved
<1>8. Defaulted' /\ ResolvesOwn' /\ Auth!AnsweredIsUsable' /\ OnlyCrossedMove
  BY <1>0 DEF Defaulted, ResolvesOwn, Auth!AnsweredIsUsable, OnlyCrossedMove, Auth!Stored, AuthShape
<1> QED
  BY <1>3, <1>4, <1>5, <1>6, <1>7, <1>8 DEF AuthIInv

(* Goto, as a move.                                                        *)
LEMMA GotoMoves ==
  ASSUME AuthIInv, NEW c \in Auth!Open, NEW stage \in Stages \ {"idle"}, Auth!Goto(c, stage),
         authOwner' = authOwner
  PROVE  \E new : /\ CallbackMoves(c, new) /\ CallbackMoved(c, new) /\ new.at = stage /\ new.account = callback[c].account
<1> DEFINE new == [callback[c] EXCEPT !.at = stage]
<1>1. c \in Workers /\ callback \in [Workers -> AnyCallback]
  BY DEF AuthIInv, AuthShape, Auth!Open
<1>2. callback' = [callback EXCEPT ![c] = new]
  BY <1>1 DEF Auth!Goto
<1>3. /\ new \in AnyCallback /\ new.at = stage /\ new.account = callback[c].account
      /\ new.flow = callback[c].flow /\ new.crossed = callback[c].crossed
  BY <1>1 DEF AnyCallback
<1> HIDE DEF new
<1>4. CallbackMoves(c, new)
  BY <1>1, <1>2, <1>3 DEF CallbackMoves
<1> QED
  BY <1>3, <1>4, MovesFacts

LEMMA UpsertKeeps ==
  ASSUME Auth!AuthorizationAssumption, AuthIInv, NEW c \in Workers, Auth!UpsertAuthorizedAccount(c)
  PROVE  AuthIInv' /\ OnlyCrossedMove
<1>0. /\ callback[c].at = "upsert" /\ c \in Auth!Open /\ Auth!Goto(c, "look")
      /\ credentials' = Auth!Put(credentials, callback[c].account, callback[c].flow)
      /\ UNCHANGED <<authOwner, pending, defaults, people, answered, authRequest>>
      /\ AuthShape /\ Carried /\ CallbacksAlone /\ Defaulted /\ ResolvesOwn /\ Auth!AnsweredIsUsable
  BY DEF Auth!UpsertAuthorizedAccount, Auth!Open, AuthIInv
<1>1. PICK new : CallbackMoves(c, new) /\ CallbackMoved(c, new) /\ new.at = "look" /\ new.account = callback[c].account
  BY <1>0, GotoMoves DEF Stages
<1>2. /\ Auth!StateServesOnce'
      /\ \A d \in Auth!Open' : ~callback'[d].crossed => \A e \in Auth!Open' : e = d
      /\ \A d \in Auth!Open' \ {c} : d \in Auth!Open /\ callback'[d] = callback[d] /\ Auth!UserOf(d)' = Auth!UserOf(d)
  BY <1>0, <1>1, MovedKeeps
<1>3. Auth!Stored' = Auth!Stored \cup {callback[c].account} /\ callback[c].account \in Auth!Accounts
  BY <1>0 DEF Auth!Stored, Carried, Auth!Put
<1>4. FlowsLast'
  BY <1>0, <1>1, MovedBudget
<1>5. AuthShape'
  BY <1>0, <1>1, <1>3 DEF AuthShape, CallbackMoved
<1>6. Carried'
  BY <1>0, <1>1, <1>2, <1>3 DEF Carried, CallbackMoved
<1>7. CallbacksAlone'
  BY <1>0, <1>1, <1>2 DEF CallbacksAlone, CallbackMoved
<1>8. Defaulted' /\ ResolvesOwn' /\ Auth!AnsweredIsUsable' /\ OnlyCrossedMove
  BY <1>0, <1>3 DEF Defaulted, ResolvesOwn, Auth!AnsweredIsUsable, OnlyCrossedMove, AuthShape
<1> QED
  BY <1>2, <1>4, <1>5, <1>6, <1>7, <1>8 DEF AuthIInv

LEMMA LookKeeps ==
  ASSUME Auth!AuthorizationAssumption, AuthIInv, NEW c \in Workers, Auth!GetDefaultAccount(c)
  PROVE  AuthIInv' /\ OnlyCrossedMove
<1>0. /\ callback[c].at = "look" /\ c \in Auth!Open
      /\ Auth!Goto(c, IF Auth!UserOf(c) \in DOMAIN defaults THEN "user" ELSE "default")
      /\ UNCHANGED <<authOwner, pending, credentials, defaults, people, answered, authRequest>>
      /\ AuthShape /\ Carried /\ CallbacksAlone /\ Defaulted /\ ResolvesOwn /\ Auth!AnsweredIsUsable
  BY DEF Auth!GetDefaultAccount, Auth!Open, AuthIInv
<1>1. PICK new : /\ CallbackMoves(c, new) /\ CallbackMoved(c, new) /\ new.account = callback[c].account
                 /\ new.at = IF Auth!UserOf(c) \in DOMAIN defaults THEN "user" ELSE "default"
  BY <1>0, GotoMoves DEF Stages
<1>2. /\ Auth!StateServesOnce'
      /\ \A d \in Auth!Open' : ~callback'[d].crossed => \A e \in Auth!Open' : e = d
      /\ \A d \in Auth!Open' \ {c} : d \in Auth!Open /\ callback'[d] = callback[d] /\ Auth!UserOf(d)' = Auth!UserOf(d)
  BY <1>0, <1>1, MovedKeeps
<1>4. FlowsLast'
  BY <1>0, <1>1, MovedBudget
<1>5. AuthShape'
  BY <1>0, <1>1 DEF AuthShape, CallbackMoved, Auth!Stored
<1>6. Carried'
  BY <1>0, <1>1, <1>2 DEF Carried, CallbackMoved, Auth!Stored
<1>7. CallbacksAlone'
  BY <1>0, <1>1, <1>2 DEF CallbacksAlone, CallbackMoved
<1>8. Defaulted' /\ ResolvesOwn' /\ Auth!AnsweredIsUsable' /\ OnlyCrossedMove
  BY <1>0 DEF Defaulted, ResolvesOwn, Auth!AnsweredIsUsable, OnlyCrossedMove, Auth!Stored, AuthShape
<1> QED
  BY <1>2, <1>4, <1>5, <1>6, <1>7, <1>8 DEF AuthIInv

(* A default moves only when another callback has set it since the look.   *)
LEMMA DefaultKeeps ==
  ASSUME Auth!AuthorizationAssumption, AuthIInv, NEW c \in Workers, Auth!SetDefaultAccount(c)
  PROVE  AuthIInv' /\ OnlyCrossedMove
<1>0. /\ callback[c].at = "default" /\ c \in Auth!Open /\ Auth!Goto(c, "user")
      /\ defaults' = Auth!Put(defaults, Auth!UserOf(c), callback[c].account)
      /\ UNCHANGED <<authOwner, pending, credentials, people, answered, authRequest>>
      /\ AuthShape /\ Carried /\ CallbacksAlone /\ Defaulted /\ ResolvesOwn /\ Auth!AnsweredIsUsable
  BY DEF Auth!SetDefaultAccount, Auth!Open, AuthIInv
<1>1. PICK new : CallbackMoves(c, new) /\ CallbackMoved(c, new) /\ new.at = "user" /\ new.account = callback[c].account
  BY <1>0, GotoMoves DEF Stages
<1>2. /\ Auth!StateServesOnce'
      /\ \A d \in Auth!Open' : ~callback'[d].crossed => \A e \in Auth!Open' : e = d
      /\ \A d \in Auth!Open' \ {c} : d \in Auth!Open /\ callback'[d] = callback[d] /\ Auth!UserOf(d)' = Auth!UserOf(d)
  BY <1>0, <1>1, MovedKeeps
<1>3. /\ DOMAIN defaults' = DOMAIN defaults \cup {Auth!UserOf(c)}
      /\ defaults'[Auth!UserOf(c)] = callback[c].account
      /\ \A u \in DOMAIN defaults : u # Auth!UserOf(c) => defaults'[u] = defaults[u]
      /\ callback[c].account \in Auth!Stored /\ callback[c].account[1] = Auth!UserOf(c)
  BY <1>0 DEF Carried, Auth!Put
<1>4. FlowsLast'
  BY <1>0, <1>1, MovedBudget
<1>5. AuthShape'
  BY <1>0, <1>1 DEF AuthShape, CallbackMoved, Auth!Stored
<1>6. Carried'
  BY <1>0, <1>1, <1>2, <1>3 DEF Carried, CallbackMoved, Auth!Stored
<1>7. CallbacksAlone'
  BY <1>0, <1>1, <1>2 DEF CallbacksAlone, CallbackMoved
<1>8. Defaulted' /\ ResolvesOwn' /\ Auth!AnsweredIsUsable'
  BY <1>0, <1>3 DEF Defaulted, ResolvesOwn, Auth!AnsweredIsUsable, Auth!Stored
<1>9. OnlyCrossedMove
  <2>1. ASSUME NEW u \in DOMAIN defaults \cap DOMAIN defaults', defaults'[u] # defaults[u]
        PROVE  \E d \in Auth!Open : callback[d].crossed /\ Auth!UserOf(d) = u
    BY <1>0, <1>3, <2>1, CallbackFacts DEF CallbacksAlone
  <2> QED
    BY <1>0, <2>1 DEF OnlyCrossedMove, AuthShape
<1> QED
  BY <1>2, <1>4, <1>5, <1>6, <1>7, <1>8, <1>9 DEF AuthIInv

LEMMA FindUserKeeps ==
  ASSUME Auth!AuthorizationAssumption, AuthIInv, NEW c \in Workers, Auth!FindUser(c)
  PROVE  AuthIInv' /\ OnlyCrossedMove
<1>0. /\ callback[c].at = "user" /\ c \in Auth!Open
      /\ Auth!Goto(c, IF people[callback[c].account[2]] = 0 THEN "create" ELSE "answer")
      /\ UNCHANGED <<authOwner, pending, credentials, defaults, people, answered, authRequest>>
      /\ AuthShape /\ Carried /\ CallbacksAlone /\ Defaulted /\ ResolvesOwn /\ Auth!AnsweredIsUsable
  BY DEF Auth!FindUser, Auth!Open, AuthIInv
<1>1. PICK new : /\ CallbackMoves(c, new) /\ CallbackMoved(c, new) /\ new.account = callback[c].account
                 /\ new.at = IF people[callback[c].account[2]] = 0 THEN "create" ELSE "answer"
  BY <1>0, GotoMoves DEF Stages
<1>2. /\ Auth!StateServesOnce'
      /\ \A d \in Auth!Open' : ~callback'[d].crossed => \A e \in Auth!Open' : e = d
      /\ \A d \in Auth!Open' \ {c} : d \in Auth!Open /\ callback'[d] = callback[d] /\ Auth!UserOf(d)' = Auth!UserOf(d)
  BY <1>0, <1>1, MovedKeeps
<1>4. FlowsLast'
  BY <1>0, <1>1, MovedBudget
<1>5. AuthShape'
  BY <1>0, <1>1 DEF AuthShape, CallbackMoved, Auth!Stored
<1>6. Carried'
  BY <1>0, <1>1, <1>2 DEF Carried, CallbackMoved, Auth!Stored
<1>7. CallbacksAlone'
  BY <1>0, <1>1, <1>2 DEF CallbacksAlone, CallbackMoved
<1>8. Defaulted' /\ ResolvesOwn' /\ Auth!AnsweredIsUsable' /\ OnlyCrossedMove
  BY <1>0 DEF Defaulted, ResolvesOwn, Auth!AnsweredIsUsable, OnlyCrossedMove, Auth!Stored, AuthShape
<1> QED
  BY <1>2, <1>4, <1>5, <1>6, <1>7, <1>8 DEF AuthIInv

(* A GitHub account gets another user only when another callback has made  *)
(* one since the look.                                                     *)
LEMMA CreateUserKeeps ==
  ASSUME Auth!AuthorizationAssumption, AuthIInv, NEW c \in Workers, Auth!CreateUser(c)
  PROVE  AuthIInv' /\ OnlyCrossedMove
<1> DEFINE x == callback[c].account[2]
<1>0. /\ callback[c].at = "create" /\ c \in Auth!Open /\ Auth!Goto(c, "answer")
      /\ people' = [people EXCEPT ![x] = @ + 1] \/ people' = people
      /\ UNCHANGED <<authOwner, pending, credentials, defaults, answered, authRequest>>
      /\ AuthShape /\ Carried /\ CallbacksAlone /\ Defaulted /\ ResolvesOwn /\ Auth!AnsweredIsUsable
      /\ Auth!StateServesOnce /\ FlowsLast
  BY DEF Auth!CreateUser, Auth!Open, AuthIInv
<1>1. PICK new : CallbackMoves(c, new) /\ CallbackMoved(c, new) /\ new.at = "answer" /\ new.account = callback[c].account
  BY <1>0, GotoMoves DEF Stages
<1>2. /\ Auth!StateServesOnce'
      /\ \A d \in Auth!Open' : ~callback'[d].crossed => \A e \in Auth!Open' : e = d
      /\ \A d \in Auth!Open' \ {c} : d \in Auth!Open /\ callback'[d] = callback[d] /\ Auth!UserOf(d)' = Auth!UserOf(d)
  BY <1>0, <1>1, MovedKeeps
<1>3. x \in Externals
  BY <1>0 DEF Carried, Auth!Accounts
<1> HIDE DEF x
<1>a. /\ people' \in [Externals -> Nat]
      /\ \A e \in Externals : people[e] \in Nat /\ (e # x => people'[e] = people[e])
                              /\ (people'[e] = people[e] \/ people'[e] = people[e] + 1)
  BY <1>0, <1>3 DEF AuthShape
<1>4. FlowsLast'
  <2> DEFINE f == callback[c].flow
  <2>1. f \in EarlyFlows /\ EarlyFlows' \subseteq EarlyFlows \ {f}
    <3>1. f \in EarlyFlows
      BY <1>0 DEF EarlyFlows, EarlyCallbacks
    <3>2. ASSUME NEW d \in EarlyCallbacks' PROVE callback'[d].flow \in EarlyFlows \ {f}
      <4>1. d # c /\ d \in Auth!Open'
        BY <1>1 DEF EarlyCallbacks, CallbackMoved
      <4>2. d \in Auth!Open /\ callback'[d] = callback[d] /\ d \in EarlyCallbacks
        BY <1>2, <4>1 DEF EarlyCallbacks
      <4> QED
        BY <1>0, <4>1, <4>2 DEF Auth!StateServesOnce, EarlyFlows
    <3> QED
      BY <3>1, <3>2 DEF EarlyFlows
  <2>2. /\ IsFiniteSet(EarlyFlows) /\ Cardinality(EarlyFlows) \in Nat /\ Cardinality(pending) \in Nat
        /\ Cardinality(DOMAIN authOwner) \in Nat
    BY <1>0, AuthFinite DEF AuthIInv
  <2>3. /\ IsFiniteSet(EarlyFlows \ {f}) /\ Cardinality(EarlyFlows \ {f}) = Cardinality(EarlyFlows) - 1
    BY <2>1, <2>2, FS_RemoveElement
  <2>4. Cardinality(EarlyFlows') \in Nat /\ Cardinality(EarlyFlows') <= Cardinality(EarlyFlows \ {f})
    BY <2>1, <2>3, FS_Subset, FS_CardinalityType
  <2>5. ASSUME NEW e \in Externals
        PROVE  people'[e] + Cardinality(EarlyFlows') + Cardinality(pending) <= Cardinality(DOMAIN authOwner)
    <3>1. PICK n \in Nat, m \in Nat : n = people[e] /\ m = people'[e] /\ m <= n + 1
      BY <1>a
    <3>2. n + Cardinality(EarlyFlows) + Cardinality(pending) <= Cardinality(DOMAIN authOwner)
      BY <1>0, <3>1 DEF FlowsLast
    <3>3. m + Cardinality(EarlyFlows') + Cardinality(pending) <= Cardinality(DOMAIN authOwner)
      BY <2>2, <2>3, <2>4, <3>1, <3>2
    <3> QED
      BY <3>1, <3>3
  <2> QED
    BY <1>0, <2>5 DEF FlowsLast
<1>5. AuthShape'
  BY <1>0, <1>1, <1>a DEF AuthShape, CallbackMoved, Auth!Stored
<1>6. Carried'
  BY <1>0, <1>1, <1>2 DEF Carried, CallbackMoved, Auth!Stored
<1>7. CallbacksAlone'
  BY <1>0, <1>1, <1>2 DEF CallbacksAlone, CallbackMoved
<1>8. Defaulted' /\ ResolvesOwn' /\ Auth!AnsweredIsUsable'
  BY <1>0 DEF Defaulted, ResolvesOwn, Auth!AnsweredIsUsable, Auth!Stored
<1>9. OnlyCrossedMove
  <2>1. ASSUME NEW e \in Externals, people'[e] > people[e], people[e] > 0
        PROVE  \E d \in Auth!Open : callback[d].crossed
    <3>1. e = x /\ people[e] # 0
      BY <1>a, <2>1
    <3>2. callback[c].crossed
      BY <1>0, <3>1, CallbackFacts DEF CallbacksAlone, x
    <3> QED
      BY <1>0, <3>2
  <2> QED
    BY <1>0, <2>1 DEF OnlyCrossedMove
<1> QED
  BY <1>2, <1>4, <1>5, <1>6, <1>7, <1>8, <1>9 DEF AuthIInv

LEMMA AnswerKeeps ==
  ASSUME Auth!AuthorizationAssumption, AuthIInv, NEW c \in Workers, Auth!Answer(c)
  PROVE  AuthIInv' /\ OnlyCrossedMove
<1>0. /\ callback[c].at = "answer" /\ c \in Auth!Open
      /\ answered' = answered \cup {Auth!UserOf(c)} /\ callback' = [callback EXCEPT ![c] = Auth!Idle]
      /\ UNCHANGED <<authOwner, pending, credentials, defaults, people, authRequest>>
      /\ AuthShape /\ Carried /\ CallbacksAlone /\ Defaulted /\ ResolvesOwn /\ Auth!AnsweredIsUsable
  BY DEF Auth!Answer, Auth!Open, AuthIInv
<1>1. CallbackMoved(c, Auth!Idle)
  <2>1. CallbackMoves(c, Auth!Idle)
    BY <1>0, AuthIdleTyped DEF CallbackMoves
  <2> QED
    BY <2>1, MovesFacts
<1>2. /\ Auth!StateServesOnce'
      /\ \A d \in Auth!Open' : ~callback'[d].crossed => \A e \in Auth!Open' : e = d
      /\ \A d \in Auth!Open' \ {c} : d \in Auth!Open /\ callback'[d] = callback[d] /\ Auth!UserOf(d)' = Auth!UserOf(d)
  BY <1>0, <1>1, MovedKeeps
<1>3. c \notin Auth!Open'
  BY <1>1, AuthIdleTyped DEF CallbackMoved
<1>4. FlowsLast'
  BY <1>0, <1>1, MovedBudget, AuthIdleTyped
<1>5. AuthShape'
  BY <1>0, <1>1 DEF AuthShape, CallbackMoved, Auth!Stored
<1>6. Carried'
  BY <1>0, <1>2, <1>3 DEF Carried, Auth!Stored
<1>7. CallbacksAlone'
  BY <1>0, <1>2, <1>3 DEF CallbacksAlone
<1>8. Defaulted' /\ ResolvesOwn' /\ Auth!AnsweredIsUsable' /\ OnlyCrossedMove
  BY <1>0
     DEF Defaulted, ResolvesOwn, Auth!AnsweredIsUsable, OnlyCrossedMove, Auth!Stored, Carried, AuthShape
<1> QED
  BY <1>2, <1>4, <1>5, <1>6, <1>7, <1>8 DEF AuthIInv

-----------------------------------------------------------------------------
(* A state is consumed: it leaves those that are pending for the callback. *)
LEMMA ConsumeKeeps ==
  ASSUME Auth!AuthorizationAssumption, AuthIInv, NEW c \in Workers, Auth!ConsumeOAuthState(c)
  PROVE  AuthIInv' /\ OnlyCrossedMove
<1>0. /\ callback[c].at = "idle" /\ c \notin Auth!Open
      /\ UNCHANGED <<authOwner, credentials, defaults, people, answered, authRequest>>
      /\ AuthShape /\ Carried /\ CallbacksAlone /\ Defaulted /\ ResolvesOwn /\ Auth!AnsweredIsUsable
      /\ Auth!StateServesOnce /\ FlowsLast
  BY DEF Auth!ConsumeOAuthState, Auth!Open, AuthIInv
<1>1. PICK f \in pending : pending' = pending \ {f} /\ callback' = Auth!Opened(c, f)
  BY DEF Auth!ConsumeOAuthState
<1> DEFINE marked == [Auth!Idle EXCEPT !.at = "exchange", !.flow = f, !.crossed = Auth!Open # {}]
<1>2. /\ marked \in AnyCallback /\ marked.at = "exchange" /\ marked.flow = f
      /\ marked.crossed <=> Auth!Open # {}
  <2> DEFINE m == [Auth!Idle EXCEPT !.at = "exchange"]
             n == [m EXCEPT !.flow = f]
             b == Auth!Open # {}
  <2>1. f \in Flows /\ b \in BOOLEAN
    BY <1>0, <1>1 DEF AuthShape
  <2>2. m \in AnyCallback /\ m.at = "exchange"
    BY AuthIdleTyped DEF AnyCallback, Stages
  <2>3. marked = [n EXCEPT !.crossed = b]
    BY Zenon
  <2> HIDE DEF m, b, marked
  <2>4. n \in AnyCallback /\ n.at = "exchange" /\ n.flow = f
    BY <2>1, <2>2 DEF AnyCallback
  <2> HIDE DEF n
  <2>5. marked \in AnyCallback /\ marked.at = "exchange" /\ marked.flow = f /\ marked.crossed = b
    BY <2>1, <2>3, <2>4 DEF AnyCallback
  <2> QED
    BY <2>5 DEF b
<1>3. /\ callback'[c] = marked
      /\ \A d \in Workers : d # c =>
           callback'[d] = IF d \in Auth!Open THEN [callback[d] EXCEPT !.crossed = TRUE] ELSE Auth!Idle
      /\ callback' = [d \in Workers |-> callback'[d]]
  BY <1>1 DEF Auth!Opened
<1> HIDE DEF marked
<1>4. ASSUME NEW d \in Workers, d # c
      PROVE  /\ callback'[d] \in AnyCallback
             /\ d \in Auth!Open =>
                  /\ callback'[d].at = callback[d].at /\ callback'[d].flow = callback[d].flow
                                   /\ callback'[d].account = callback[d].account /\ callback'[d].crossed
                                   /\ Auth!UserOf(d)' = Auth!UserOf(d) /\ d \in Auth!Open'
             /\ d \notin Auth!Open =>
                  callback'[d].at = "idle" /\ callback'[d].flow = Auth!Nobody /\ d \notin Auth!Open'
  <2>1. CASE d \in Auth!Open
    <3>1. callback'[d] = [callback[d] EXCEPT !.crossed = TRUE] /\ callback[d] \in AnyCallback
          /\ callback[d].at # "idle"
      BY <1>0, <1>3, <1>4, <2>1 DEF AuthShape, Auth!Open
    <3>2. /\ callback'[d] \in AnyCallback /\ callback'[d].at = callback[d].at
          /\ callback'[d].flow = callback[d].flow
          /\ callback'[d].account = callback[d].account /\ callback'[d].crossed
      BY <3>1 DEF AnyCallback
    <3> QED
      BY <1>0, <2>1, <3>1, <3>2 DEF Auth!UserOf, Auth!Open
  <2>2. CASE d \notin Auth!Open
    BY <1>3, <1>4, <2>2, AuthIdleTyped DEF Auth!Open
  <2> QED
    BY <2>1, <2>2
<1>5. Auth!Open' = Auth!Open \cup {c} /\ c \in Workers
  BY <1>2, <1>3, <1>4 DEF Auth!Open
<1>6. AuthShape'
  <2>1. callback' \in [Workers -> AnyCallback]
    BY <1>2, <1>3, <1>4
  <2>2. \A d \in Workers : callback'[d].flow \in DOMAIN authOwner \cup {Auth!Nobody}
    BY <1>0, <1>1, <1>2, <1>3, <1>4 DEF AuthShape
  <2> QED
    BY <1>0, <1>1, <2>1, <2>2 DEF AuthShape, Auth!Stored
<1>7. Carried'
  <2>1. Auth!Stored' = Auth!Stored /\ callback'[c].flow \in DOMAIN authOwner
    BY <1>0, <1>1, <1>2, <1>3 DEF Auth!Stored, AuthShape
  <2>2. ASSUME NEW d \in Auth!Open, d # c
        PROVE  /\ callback'[d].at = callback[d].at /\ callback'[d].flow = callback[d].flow
               /\ callback'[d].account = callback[d].account /\ Auth!UserOf(d)' = Auth!UserOf(d)
    BY <1>4, <2>2 DEF Auth!Open
  <2> QED
    BY <1>0, <1>2, <1>3, <1>5, <2>1, <2>2 DEF Carried
<1>8. CallbacksAlone'
  <2>1. ASSUME NEW d \in Auth!Open', ~callback'[d].crossed PROVE d = c /\ Auth!Open = {}
    BY <1>2, <1>3, <1>4, <1>5, <2>1 DEF Auth!Open
  <2> QED
    BY <1>2, <1>3, <1>5, <2>1 DEF CallbacksAlone
<1>9. Auth!StateServesOnce'
  BY <1>0, <1>1, <1>2, <1>3, <1>4, <1>5 DEF Auth!StateServesOnce, Auth!Open
<1>10. FlowsLast'
  <2>1. EarlyFlows' \subseteq EarlyFlows \cup {f}
    <3>1. ASSUME NEW d \in EarlyCallbacks' PROVE callback'[d].flow \in EarlyFlows \cup {f}
      BY <1>2, <1>3, <1>4, <1>5 DEF EarlyCallbacks, EarlyFlows, Auth!Open
    <3> QED
      BY <3>1 DEF EarlyFlows
  <2>2. /\ IsFiniteSet(EarlyFlows) /\ Cardinality(EarlyFlows) \in Nat
        /\ IsFiniteSet(pending) /\ Cardinality(pending) \in Nat /\ Cardinality(DOMAIN authOwner) \in Nat
    BY <1>0, AuthFinite
  <2>3. /\ Cardinality(pending \ {f}) = Cardinality(pending) - 1
        /\ IsFiniteSet(EarlyFlows \cup {f}) /\ Cardinality(EarlyFlows \cup {f}) \in Nat
        /\ Cardinality(EarlyFlows \cup {f}) <= Cardinality(EarlyFlows) + 1
    <3>1. Cardinality(pending \ {f}) = Cardinality(pending) - 1
      BY <1>1, <2>2, FS_RemoveElement
    <3>2. /\ IsFiniteSet(EarlyFlows \cup {f})
          /\ Cardinality(EarlyFlows \cup {f})
               = IF f \in EarlyFlows THEN Cardinality(EarlyFlows) ELSE Cardinality(EarlyFlows) + 1
      BY <2>2, FS_AddElement
    <3> QED
      BY <2>2, <3>1, <3>2
  <2>4. Cardinality(EarlyFlows') \in Nat /\ Cardinality(EarlyFlows') <= Cardinality(EarlyFlows \cup {f})
    BY <2>1, <2>3, FS_Subset, FS_CardinalityType
  <2>5. ASSUME NEW e \in Externals
        PROVE  people[e] + Cardinality(EarlyFlows') + Cardinality(pending \ {f}) <= Cardinality(DOMAIN authOwner)
    <3>1. people[e] \in Nat
          /\ people[e] + Cardinality(EarlyFlows) + Cardinality(pending) <= Cardinality(DOMAIN authOwner)
      BY <1>0 DEF AuthShape, FlowsLast
    <3> QED
      BY <2>2, <2>3, <2>4, <3>1
  <2> QED
    BY <1>0, <1>1, <2>5 DEF FlowsLast
<1>11. Defaulted' /\ ResolvesOwn' /\ Auth!AnsweredIsUsable' /\ OnlyCrossedMove
  BY <1>0 DEF Defaulted, ResolvesOwn, Auth!AnsweredIsUsable, OnlyCrossedMove, Auth!Stored, AuthShape
<1> QED
  BY <1>6, <1>7, <1>8, <1>9, <1>10, <1>11 DEF AuthIInv

LEMMA AuthStartKeeps ==
  ASSUME Auth!AuthorizationAssumption, AuthIInv, NEW u \in Callers, Auth!StartAuthorization(u)
  PROVE  AuthIInv' /\ OnlyCrossedMove
<1>0. /\ UNCHANGED <<credentials, defaults, callback, people, answered, authRequest>>
      /\ AuthShape /\ Carried /\ CallbacksAlone /\ Defaulted /\ ResolvesOwn /\ Auth!AnsweredIsUsable
      /\ Auth!StateServesOnce /\ FlowsLast
  BY DEF Auth!StartAuthorization, AuthIInv
<1>1. PICK f \in Flows \ DOMAIN authOwner : authOwner' = Auth!Put(authOwner, f, u) /\ pending' = pending \cup {f}
  BY DEF Auth!StartAuthorization
<1>2. /\ DOMAIN authOwner' = DOMAIN authOwner \cup {f} /\ authOwner'[f] = u
      /\ \A g \in DOMAIN authOwner : authOwner'[g] = authOwner[g]
  BY <1>1 DEF Auth!Put
<1>3. Auth!Open' = Auth!Open
      /\ \A c \in Auth!Open : Auth!UserOf(c)' = Auth!UserOf(c) /\ callback[c].flow \in DOMAIN authOwner
  BY <1>0, <1>2 DEF Auth!Open, Auth!UserOf, Carried
<1>4. AuthShape'
  BY <1>0, <1>1, <1>2 DEF AuthShape, Auth!Stored
<1>5. Carried' /\ CallbacksAlone' /\ Auth!StateServesOnce'
  BY <1>0, <1>1, <1>2, <1>3 DEF Carried, CallbacksAlone, Auth!StateServesOnce, Auth!Stored
<1>6. FlowsLast'
  <2>1. EarlyFlows' = EarlyFlows
    BY <1>0, <1>3 DEF EarlyFlows, EarlyCallbacks
  <2>2. /\ IsFiniteSet(DOMAIN authOwner) /\ IsFiniteSet(pending) /\ Cardinality(EarlyFlows) \in Nat
        /\ Cardinality(DOMAIN authOwner) \in Nat /\ Cardinality(pending) \in Nat /\ f \notin pending
    BY <1>0, <1>1, AuthFinite DEF AuthShape
  <2>3. /\ Cardinality(DOMAIN authOwner \cup {f}) = Cardinality(DOMAIN authOwner) + 1
        /\ Cardinality(pending \cup {f}) = Cardinality(pending) + 1
    BY <1>1, <2>2, FS_AddElement
  <2>4. ASSUME NEW e \in Externals
        PROVE  people[e] + Cardinality(EarlyFlows) + Cardinality(pending \cup {f}) <= Cardinality(DOMAIN authOwner \cup {f})
    <3>1. people[e] \in Nat
          /\ people[e] + Cardinality(EarlyFlows) + Cardinality(pending) <= Cardinality(DOMAIN authOwner)
      BY <1>0 DEF AuthShape, FlowsLast
    <3> QED
      BY <2>2, <2>3, <3>1
  <2> QED
    BY <1>0, <1>1, <1>2, <2>1, <2>4 DEF FlowsLast
<1>7. Defaulted' /\ ResolvesOwn' /\ Auth!AnsweredIsUsable' /\ OnlyCrossedMove
  BY <1>0, <1>3
     DEF Defaulted, ResolvesOwn, Auth!AnsweredIsUsable, OnlyCrossedMove, Auth!Stored, AuthShape
<1> QED
  BY <1>4, <1>5, <1>6, <1>7 DEF AuthIInv

LEMMA RestartKeeps ==
  ASSUME Auth!AuthorizationAssumption, AuthIInv, Auth!Restart PROVE AuthIInv' /\ OnlyCrossedMove
<1>0. /\ pending' = {} /\ answered' = {} /\ Auth!Stored' = {} /\ DOMAIN defaults' = {}
      /\ callback' = [c \in Workers |-> Auth!Idle] /\ authRequest'.at = "idle"
      /\ UNCHANGED <<authOwner, people>>
      /\ AuthShape /\ Carried /\ FlowsLast
  BY DEF Auth!Restart, AuthIInv, Auth!Stored, Auth!NoRequest
<1>1. \A c \in Workers : callback'[c] = Auth!Idle
  BY <1>0
<1>2. Auth!Open' = {} /\ EarlyFlows' = {}
  BY <1>1, AuthIdleTyped DEF Auth!Open, EarlyFlows, EarlyCallbacks
<1>3. AuthShape'
  BY <1>0, <1>1, AuthIdleTyped DEF AuthShape
<1>4. FlowsLast'
  <2>1. Cardinality({}) = 0 /\ Cardinality(EarlyFlows) \in Nat /\ Cardinality(pending) \in Nat
        /\ Cardinality(DOMAIN authOwner) \in Nat
    BY <1>0, AuthFinite, FS_EmptySet
  <2>2. ASSUME NEW e \in Externals PROVE people[e] + 0 + 0 <= Cardinality(DOMAIN authOwner)
    <3>1. people[e] \in Nat
          /\ people[e] + Cardinality(EarlyFlows) + Cardinality(pending) <= Cardinality(DOMAIN authOwner)
      BY <1>0 DEF AuthShape, FlowsLast
    <3> QED
      BY <2>1, <3>1
  <2> QED
    BY <1>0, <1>2, <2>1, <2>2 DEF FlowsLast
<1> QED
  BY <1>0, <1>2, <1>3, <1>4
     DEF AuthIInv, Defaulted, Carried, CallbacksAlone, ResolvesOwn, Auth!StateServesOnce,
         Auth!AnsweredIsUsable, OnlyCrossedMove, AuthShape

(* The accounts that a resolution finds.                                   *)
LEMMA ResolutionKeeps ==
  ASSUME AuthIInv, Auth!Resolution PROVE AuthIInv' /\ OnlyCrossedMove
<1>0. /\ UNCHANGED <<authOwner, pending, credentials, defaults, callback, people, answered>>
  BY
     DEF Auth!Resolution, Auth!ResolveInstallation, Auth!ResolveExplicit, Auth!ResolveDefault,
         Auth!ResolveAny, Auth!GetCredential,
         Auth!Resolved, Auth!Ask
<1>1. Auth!Open' = Auth!Open /\ EarlyFlows' = EarlyFlows /\ Auth!Stored' = Auth!Stored
      /\ \A c \in Workers : Auth!UserOf(c)' = Auth!UserOf(c)
  BY <1>0 DEF Auth!Open, EarlyFlows, EarlyCallbacks, Auth!UserOf, Auth!Stored
<1>2. AuthShape' /\ Defaulted' /\ Carried' /\ CallbacksAlone' /\ FlowsLast' /\ Auth!StateServesOnce'
      /\ Auth!AnsweredIsUsable' /\ OnlyCrossedMove
  <2>1. AuthShape' /\ Defaulted' /\ FlowsLast' /\ Auth!AnsweredIsUsable'
    BY <1>0, <1>1 DEF AuthIInv, AuthShape, Defaulted, FlowsLast, Auth!AnsweredIsUsable
  <2>2. Carried' /\ CallbacksAlone' /\ Auth!StateServesOnce'
    BY <1>0, <1>1 DEF AuthIInv, Carried, CallbacksAlone, Auth!StateServesOnce, Auth!Open
  <2>3. OnlyCrossedMove
    BY <1>0 DEF AuthIInv, AuthShape, OnlyCrossedMove
  <2> QED
    BY <2>1, <2>2, <2>3
<1>3. ResolvesOwn'
  <2>1. CASE \E u \in Callers \cup {Auth!Nobody} : Auth!ResolveInstallation(u)
    BY <2>1 DEF Auth!ResolveInstallation, Auth!Ask, ResolvesOwn
  <2>2. CASE \E u \in Callers \cup {Auth!Nobody}, a \in Auth!Accounts : Auth!ResolveExplicit(u, a)
    BY <2>2 DEF Auth!ResolveExplicit, Auth!Ask, ResolvesOwn
  <2>3. CASE \E u \in Callers : Auth!ResolveDefault(u)
    BY <2>3 DEF Auth!ResolveDefault, Auth!Ask, ResolvesOwn, AuthIInv, Defaulted
  <2>4. CASE Auth!ResolveAny
    BY <2>4 DEF Auth!ResolveAny, Auth!Ask, ResolvesOwn
  <2>5. CASE Auth!GetCredential
    BY <2>5 DEF Auth!GetCredential, Auth!Ask, ResolvesOwn, AuthIInv
  <2>6. CASE Auth!Resolved
    BY <2>6 DEF Auth!Resolved, Auth!Ask, ResolvesOwn
  <2> QED
    BY <2>1, <2>2, <2>3, <2>4, <2>5, <2>6 DEF Auth!Resolution
<1> QED
  BY <1>2, <1>3 DEF AuthIInv

LEMMA AuthStepKeeps ==
  ASSUME Auth!AuthorizationAssumption, AuthIInv, [Auth!Next]_(Auth!vars)
  PROVE  AuthIInv' /\ OnlyCrossedMove
<1>1. CASE UNCHANGED Auth!vars
  <2>1. Auth!Open' = Auth!Open /\ EarlyFlows' = EarlyFlows /\ Auth!Stored' = Auth!Stored
        /\ \A c \in Workers : Auth!UserOf(c)' = Auth!UserOf(c)
    BY <1>1 DEF Auth!vars, Auth!Open, EarlyFlows, EarlyCallbacks, Auth!UserOf, Auth!Stored
  <2>2. AuthShape' /\ Defaulted' /\ FlowsLast' /\ Auth!AnsweredIsUsable' /\ ResolvesOwn'
    BY <1>1, <2>1
       DEF Auth!vars, AuthIInv, AuthShape, Defaulted, FlowsLast, Auth!AnsweredIsUsable, ResolvesOwn
  <2>3. Carried' /\ CallbacksAlone' /\ Auth!StateServesOnce'
    BY <1>1, <2>1 DEF Auth!vars, AuthIInv, Carried, CallbacksAlone, Auth!StateServesOnce, Auth!Open
  <2>4. OnlyCrossedMove
    BY <1>1 DEF Auth!vars, AuthIInv, AuthShape, OnlyCrossedMove
  <2> QED
    BY <2>2, <2>3, <2>4 DEF AuthIInv
<1>2. ASSUME NEW c \in Workers, Auth!Callback(c) PROVE AuthIInv' /\ OnlyCrossedMove
  BY <1>2, ConsumeKeeps, CompleteKeeps, UpsertKeeps, LookKeeps, DefaultKeeps, FindUserKeeps,
     CreateUserKeeps,
     AnswerKeeps DEF Auth!Callback
<1> QED
  BY <1>1, <1>2, AuthStartKeeps, ResolutionKeeps, RestartKeeps DEF Auth!Next

LEMMA AuthIInvHolds == ASSUME Auth!AuthorizationAssumption PROVE Auth!Spec => []AuthIInv
<1>1. AuthIInv /\ [Auth!Next]_(Auth!vars) => AuthIInv'
  BY AuthStepKeeps
<1> QED
  BY AuthInitHolds, <1>1, PTL DEF Auth!Spec

(* Authorizations.TypeOK: states belong to users, accounts that are the    *)
(* default are stored and their user's, and a GitHub account has no more   *)
(* users than states were issued.                                          *)
THEOREM AuthorizationTypeCorrect == ASSUME Auth!AuthorizationAssumption PROVE Auth!Spec => []Auth!TypeOK
<1>1. ASSUME AuthIInv PROVE Auth!TypeOK
  <2>1. AuthShape /\ Defaulted /\ Carried /\ FlowsLast
    BY <1>1 DEF AuthIInv
  <2>2. ASSUME NEW e \in Externals PROVE people[e] \in 0..Cardinality(Flows)
    <3>1. people[e] \in Nat
          /\ people[e] + Cardinality(EarlyFlows) + Cardinality(pending) <= Cardinality(DOMAIN authOwner)
      BY <2>1 DEF AuthShape, FlowsLast
    <3> QED
      BY <2>1, <3>1, AuthFinite
  <2>3. people \in [Externals -> 0..Cardinality(Flows)]
    BY <2>1, <2>2 DEF AuthShape
  <2> QED
    BY <2>1, <2>3, AuthCardinality DEF Auth!TypeOK, AuthShape, Defaulted
<1> QED
  BY <1>1, AuthIInvHolds, PTL

(* Authorizations.AuthorizationsHold: a state serves one callback, who was *)
(* told to be authorized is, nobody is given another user's account, and   *)
(* only callbacks that overlapped move a default or double a user.         *)
LEMMA AuthKeeps == ASSUME Auth!AuthorizationAssumption PROVE Auth!Spec => Auth!AuthorizationsHold
<1>1. AuthIInv => Auth!StateServesOnce /\ Auth!AnsweredIsUsable /\ Auth!ResolvedIsOwn
  BY DEF AuthIInv, ResolvesOwn, Auth!ResolvedIsOwn
<1>2. AuthIInv /\ [Auth!Next]_(Auth!vars) => [OnlyCrossedMove]_(Auth!vars)
  BY AuthStepKeeps
<1> QED
  BY <1>1, <1>2, AuthIInvHolds, PTL DEF Auth!Spec, Auth!AuthorizationsHold, OnlyCrossedMove

-----------------------------------------------------------------------------
(* Streams: that a start leaves the streams behind, takes away only what   *)
(* it needs and fails only for known reasons. First what subjectsOverlap   *)
(* finds of a subject of an earlier version.                               *)
Subjects == {s \in Seq(STRING) : s # <<>> /\ \A i \in 1..Len(s) - 1 : s[i] # ">"}
IsToday(t) == Len(t) \in Nat \ {0} /\ DOMAIN t = 1..Len(t) /\ \A i \in 1..Len(t) : t[i] # ">"

LEMMA SubjectsOfToday ==
  /\ \A c \in Broker!Ours : IsToday(Broker!Subject[c])
  /\ \A c, d \in Broker!Ours : c # d => ~Broker!SubjectsOverlap(Broker!Subject[c], Broker!Subject[d])
<1> DEFINE t == Broker!Subject["TASK_STREAM"]
           u == Broker!Subject["SESSION_STREAM"]
<1>1. /\ t = <<"org", "*", "worker", "*", "task">>
      /\ u = <<"org", "*", "session", "*", "message", "*">>
  BY DEF Broker!Subject
<1>2. Len(t) = 5 /\ DOMAIN t = 1..5 /\ \A i \in 1..5 : t[i] # ">"
  BY <1>1
<1>3. Len(u) = 6 /\ DOMAIN u = 1..6 /\ \A i \in 1..6 : u[i] # ">"
  BY <1>1
<1> HIDE DEF t, u
<1>4. ~Broker!Reaches(t, u) /\ ~Broker!Reaches(u, t)
  BY <1>2, <1>3 DEF Broker!Reaches
<1>5. ~Broker!SubjectsOverlap(t, u) /\ ~Broker!SubjectsOverlap(u, t)
  BY <1>2, <1>3, <1>4 DEF Broker!SubjectsOverlap
<1>6. IsToday(t) /\ IsToday(u)
  BY <1>2, <1>3 DEF IsToday
<1> QED
  BY <1>5, <1>6 DEF t, u, Broker!Ours

LEMMA TokensOfToday ==
  ASSUME NEW t, IsToday(t)
  PROVE  /\ Len(t) \in Nat \ {0}
         /\ \A n : Broker!Takes(t, n) <=> n = Len(t)
         /\ \A i \in 1..Len(t) : Broker!Token(t, i) = t[i]
<1>1. Len(t) \in Nat \ {0} /\ Broker!Last(t) = t[Len(t)] /\ t[Len(t)] # ">"
  BY DEF IsToday, Broker!Last
<1> QED
  BY <1>1 DEF Broker!Takes, Broker!Token

LEMMA TokensOfOld ==
  ASSUME NEW s \in Subjects
  PROVE  /\ Len(s) \in Nat \ {0}
         /\ Broker!Last(s) = s[Len(s)]
         /\ \A i \in 1..Len(s) - 1 : Broker!Token(s, i) = s[i] /\ s[i] # ">"
         /\ s[Len(s)] = ">" => \A i \in Nat : i >= Len(s) => Broker!Token(s, i) = "*"
         /\ s[Len(s)] # ">" => \A i \in 1..Len(s) : Broker!Token(s, i) = s[i]
<1>1. Len(s) \in Nat \ {0} /\ Broker!Last(s) = s[Len(s)]
  BY DEF Subjects, Broker!Last
<1>2. \A i \in 1..Len(s) - 1 : s[i] # ">"
  BY DEF Subjects
<1> QED
  BY <1>1, <1>2 DEF Broker!Token

(* The broker's own test, of subjects as they occur here.                  *)
LEMMA OverlapOfToday ==
  ASSUME NEW s \in Subjects, NEW t, IsToday(t)
  PROVE  Broker!Overlap(s, t) <=>
           /\ Len(s) <= Len(t)
           /\ s[Len(s)] # ">" => Len(s) = Len(t)
           /\ \A i \in 1..Len(s) : s[i] = ">" \/ s[i] = "*" \/ t[i] = "*" \/ s[i] = t[i]
<1> DEFINE n == IF Len(s) > Len(t) THEN Len(s) ELSE Len(t)
<1>1. /\ Len(s) \in Nat \ {0} /\ Len(t) \in Nat \ {0}
      /\ Broker!Last(s) = s[Len(s)]
  BY TokensOfToday, TokensOfOld
<1>2. Broker!Takes(s, n) /\ Broker!Takes(t, n) <=>
        /\ n = Len(t) /\ Len(s) <= Len(t)
        /\ s[Len(s)] # ">" => Len(s) = Len(t)
  BY <1>1, TokensOfToday DEF Broker!Takes
<1>3. ASSUME n = Len(t), Len(s) <= Len(t), s[Len(s)] # ">" => Len(s) = Len(t)
      PROVE  (\A i \in 1..n : "*" \in {Broker!Token(s, i), Broker!Token(t, i)} \/ Broker!Token(s, i) = Broker!Token(t, i))
             <=> \A i \in 1..Len(s) : s[i] = ">" \/ s[i] = "*" \/ t[i] = "*" \/ s[i] = t[i]
  <2>1. \A i \in 1..Len(t) : Broker!Token(t, i) = t[i]
    BY TokensOfToday
  <2>2. CASE s[Len(s)] = ">"
    <3>1. \A i \in 1..Len(t) : i >= Len(s) => Broker!Token(s, i) = "*"
      BY <1>1, <2>2, TokensOfOld
    <3>2. \A i \in 1..Len(s) - 1 : Broker!Token(s, i) = s[i] /\ s[i] # ">"
      BY TokensOfOld
    <3> QED
      BY <1>1, <1>3, <2>1, <2>2, <3>1, <3>2
  <2>3. CASE s[Len(s)] # ">"
    <3>1. \A i \in 1..Len(s) : Broker!Token(s, i) = s[i]
      BY <2>3, TokensOfOld
    <3>2. \A i \in 1..Len(s) - 1 : s[i] # ">"
      BY TokensOfOld
    <3> QED
      BY <1>1, <1>3, <2>1, <2>3, <3>1, <3>2
  <2> QED
    BY <2>2, <2>3
<1> QED
  BY <1>2, <1>3 DEF Broker!Overlap

(* What takes messages of ours is found, but for one kind.                 *)
LEMMA OverlapIsFound ==
  ASSUME NEW s \in Subjects, NEW t, IsToday(t), Broker!Overlap(s, t)
  PROVE  Broker!SubjectsOverlap(s, t) \/ Broker!NotFound(s, t)
<1>1. PICK k \in Nat \ {0}, l \in Nat \ {0} : k = Len(s) /\ l = Len(t)
  BY TokensOfToday, TokensOfOld
<1>2. DOMAIN s = 1..k /\ DOMAIN t = 1..l
  BY <1>1 DEF Subjects, IsToday
<1>3. /\ k <= l
      /\ s[k] # ">" => k = l
      /\ \A i \in 1..k : s[i] = ">" \/ s[i] = "*" \/ t[i] = "*" \/ s[i] = t[i]
  BY <1>1, OverlapOfToday
<1>4. \A i \in 1..k - 1 : s[i] # ">"
  BY <1>1 DEF Subjects
<1>5. CASE k = l
  <2>1. ASSUME NEW i \in 1..k, ~Broker!Meet(s, t, i)
        PROVE  ">" \in {s[i], t[i]} /\ "*" \notin {s[i], t[i]}
    BY <1>3, <2>1 DEF Broker!Meet
  <2>2. \A i \in 1..k : i \in 1..i
    OBVIOUS
  <2> QED
    BY <1>1, <1>2, <1>5, <2>1, <2>2 DEF Broker!SubjectsOverlap
<1>6. CASE k # l
  <2>1. s[k] = ">" /\ k < l
    BY <1>3, <1>6
  <2>2. CASE Broker!Reaches(s, t)
    BY <1>1, <1>6, <2>2 DEF Broker!SubjectsOverlap
  <2>3. CASE ~Broker!Reaches(s, t)
    <3>1. PICK i \in 1..k - 1 : s[i] # "*" /\ s[i] # t[i]
      BY <1>2, <2>1, <2>3 DEF Broker!Reaches
    <3>2. t[i] = "*" /\ i \in 1..Len(s) - 1
      BY <1>1, <1>3, <1>4, <3>1
    <3>3. Broker!Last(s) = ">" /\ Len(s) < Len(t)
      BY <1>1, <2>1, TokensOfOld
    <3> QED
      BY <3>1, <3>2, <3>3 DEF Broker!NotFound
  <2> QED
    BY <2>2, <2>3
<1> QED
  BY <1>5, <1>6

(* What is found takes messages of ours, but for one kind.                 *)
LEMMA FoundOverlaps ==
  ASSUME NEW s \in Subjects, NEW t, IsToday(t), Broker!SubjectsOverlap(s, t)
  PROVE  Broker!Overlap(s, t) \/ Broker!FoundInVain(s, t)
<1>1. PICK k \in Nat \ {0}, l \in Nat \ {0} : k = Len(s) /\ l = Len(t)
  BY TokensOfToday, TokensOfOld
<1>2. DOMAIN s = 1..k /\ DOMAIN t = 1..l
  BY <1>1 DEF Subjects, IsToday
<1>3. \A i \in 1..k - 1 : s[i] # ">"
  BY <1>1 DEF Subjects
<1>4. \A i \in 1..l : t[i] # ">"
  BY <1>1 DEF IsToday
<1>5. \A j \in 1..k : s[j] = ">" => j = k
  BY <1>3
<1>6. CASE k = l
  <2>1. \A i \in 1..k : s[i] = ">" \/ Broker!Meet(s, t, i)
    <3> SUFFICES ASSUME NEW i \in 1..k, ~Broker!Meet(s, t, i) PROVE s[i] = ">"
      OBVIOUS
    <3>1. PICK j \in 1..i : ">" \in {s[j], t[j]}
      BY <1>1, <1>2, <1>6 DEF Broker!SubjectsOverlap
    <3>2. j \in 1..k
      OBVIOUS
    <3>3. s[j] = ">"
      BY <1>4, <1>6, <3>1, <3>2
    <3>4. j = k
      BY <1>5, <3>2, <3>3
    <3>5. i = j
      BY <3>4
    <3> QED
      BY <3>3, <3>5
  <2>2. \A i \in 1..k : s[i] = ">" \/ s[i] = "*" \/ t[i] = "*" \/ s[i] = t[i]
    BY <2>1 DEF Broker!Meet
  <2>3. Len(s) = Len(t) /\ Len(s) <= Len(t)
    BY <1>1, <1>6
  <2>4. Broker!Overlap(s, t)
    BY <1>1, <2>2, <2>3, OverlapOfToday
  <2> QED
    BY <2>4
<1>7. CASE k # l
  <2>1. ~Broker!Reaches(t, s)
    BY <1>2, <1>4 DEF Broker!Reaches
  <2>2. PICK n \in 1..k : s[n] = ">" /\ \A i \in 1..n - 1 : i \in 1..l => s[i] = "*" \/ s[i] = t[i]
    BY <1>1, <1>2, <1>7, <2>1 DEF Broker!SubjectsOverlap, Broker!Reaches
  <2>3. n = k
    BY <1>5, <2>2
  <2>4. CASE k > l
    BY <1>1, <2>2, <2>3, <2>4, TokensOfOld DEF Broker!FoundInVain
  <2>5. CASE k < l
    <3>1. \A i \in 1..k : s[i] = ">" \/ s[i] = "*" \/ t[i] = "*" \/ s[i] = t[i]
      BY <2>2, <2>3, <2>5
    <3>2. k <= l /\ s[k] = ">"
      BY <2>2, <2>3, <2>5
    <3> QED
      BY <1>1, <3>1, <3>2, OverlapOfToday
  <2>6. k > l \/ k < l
    BY <1>7
  <2> QED
    BY <2>4, <2>5, <2>6
<1> QED
  BY <1>6, <1>7

-----------------------------------------------------------------------------
(* The streams of the broker, and what a process that starts knows of      *)
(* them: it has added what it no longer has to add, and what it has looked *)
(* at and left does not overlap with ours, as far as subjectsOverlap goes. *)
StreamsThere == Broker!Ours \cup {"OLD"}

BrokerTypes ==
  /\ DOMAIN streams \subseteq StreamsThere
  /\ \A n \in DOMAIN streams : streams[n] \in OldSubjects \/ (n \in Broker!Ours /\ streams[n] = Broker!Subject[n])
  /\ brokerProcess \in [Callers -> [at : {"down", "looking", "adding", "up", "failed"}, names : SUBSET StreamsThere]]
  /\ faults \in Nat

Stands(c) == c \in DOMAIN streams /\ streams[c] = Broker!Subject[c]
Adding ==
  \A p \in Callers : brokerProcess[p].at = "adding" =>
    brokerProcess[p].names \subseteq Broker!Ours /\ \A c \in Broker!Ours \ brokerProcess[p].names : Stands(c)

LookedAtOld(p) ==
  brokerProcess[p].at = "adding" \/ (brokerProcess[p].at = "looking" /\ "OLD" \notin brokerProcess[p].names)
OldIsKept ==
  "OLD" \in DOMAIN streams =>
    faults > 0 \/ \A c \in Broker!Ours : ~Broker!SubjectsOverlap(streams["OLD"], Broker!Subject[c])
Looked == \A p \in Callers : LookedAtOld(p) => OldIsKept

BrokerIInv == BrokerTypes /\ Adding /\ Looked

(* StreamsStand, of one step.                                              *)
StreamsKept ==
  /\ \A n \in Broker!Ours : Stands(n) => Stands(n)'
  /\ \A n \in DOMAIN streams \ DOMAIN streams' :
       \E c \in Broker!Ours : Broker!Overlap(streams[n], Broker!Subject[c]) \/ Broker!FoundInVain(streams[n], Broker!Subject[c])
StartsExplained ==
  \A p \in Callers : brokerProcess'[p].at # brokerProcess[p].at =>
    /\ brokerProcess'[p].at = "up" => \A c \in Broker!Ours : streams'[c] = Broker!Subject[c]
    /\ brokerProcess'[p].at = "failed" =>
         \/ faults' > 0
         \/ \E n \in DOMAIN streams : \E c \in Broker!Ours \ {n} :
              /\ Broker!Overlap(streams[n], Broker!Subject[c])
              /\ n \in Broker!Ours \/ Broker!NotFound(streams[n], Broker!Subject[c])

StandingStreams ==
  /\ \A n \in Broker!Ours \cap DOMAIN streams :
       streams[n] = Broker!Subject[n] => n \in DOMAIN streams' /\ streams'[n] = Broker!Subject[n]
  /\ \A n \in DOMAIN streams \ DOMAIN streams' :
       \E c \in Broker!Ours : Broker!Overlap(streams[n], Broker!Subject[c]) \/ Broker!FoundInVain(streams[n], Broker!Subject[c])
  /\ \A p \in Callers : brokerProcess'[p].at # brokerProcess[p].at =>
       /\ brokerProcess'[p].at = "up" => \A c \in Broker!Ours : streams'[c] = Broker!Subject[c]
       /\ brokerProcess'[p].at = "failed" =>
            \/ faults' > 0
            \/ \E n \in DOMAIN streams : \E c \in Broker!Ours \ {n} :
                 /\ Broker!Overlap(streams[n], Broker!Subject[c])
                 /\ n \in Broker!Ours \/ Broker!NotFound(streams[n], Broker!Subject[c])

LEMMA OldIsSubject == ASSUME Broker!StreamsAssumption PROVE OldSubjects \subseteq Subjects
  BY DEF Broker!StreamsAssumption, Subjects

LEMMA BrokerBegins == Broker!Init => BrokerIInv
<1> SUFFICES ASSUME Broker!Init PROVE BrokerIInv
  OBVIOUS
<1>1. /\ DOMAIN streams \subseteq StreamsThere
      /\ \A n \in DOMAIN streams : streams[n] \in OldSubjects
  <2>1. CASE streams = <<>>
    <3>1. DOMAIN streams = {}
      BY <2>1
    <3> QED
      BY <3>1
  <2>2. CASE streams \in [{"OLD"} -> OldSubjects] \cup [{"TASK_STREAM"} -> OldSubjects]
    BY <2>2 DEF StreamsThere, Broker!Ours
  <2> QED
    BY <2>1, <2>2 DEF Broker!Init
<1>2. \A p \in Callers : brokerProcess[p] = [at |-> "down", names |-> {}]
  BY DEF Broker!Init
<1>3. BrokerTypes
  BY <1>1 DEF BrokerTypes, Broker!Init
<1> QED
  BY <1>2, <1>3 DEF BrokerIInv, Adding, Looked, LookedAtOld

(* A process goes on while the streams stand.                              *)
ProcessGoes(p, place, names) ==
  /\ brokerProcess'[p].at = place /\ brokerProcess'[p].names = names
  /\ \A q \in Callers \ {p} : brokerProcess'[q] = brokerProcess[q]
  /\ brokerProcess' \in [Callers -> [at : {"down", "looking", "adding", "up", "failed"}, names : SUBSET StreamsThere]]

LEMMA GotoGoes ==
  ASSUME BrokerTypes, NEW p \in Callers,
         NEW place \in {"down", "looking", "adding", "up", "failed"}, NEW names \in SUBSET StreamsThere,
         Broker!Goto(p, place, names)
  PROVE  ProcessGoes(p, place, names)
  BY DEF BrokerTypes, Broker!Goto, ProcessGoes

LEMMA StreamsStay ==
  ASSUME BrokerIInv, NEW p \in Callers, NEW place \in {"looking", "adding", "failed"}, NEW names,
         ProcessGoes(p, place, names), streams' = streams,
         faults' \in Nat, faults' >= faults,
         place = "adding" => names = Broker!Ours,
         LookedAtOld(p)' => OldIsKept'
  PROVE  BrokerIInv' /\ StreamsKept
<1>1. BrokerTypes'
  BY DEF BrokerIInv, BrokerTypes, ProcessGoes
<1>2. \A c \in Broker!Ours : Stands(c)' <=> Stands(c)
  BY DEF Stands
<1>3. Adding'
  BY <1>2 DEF BrokerIInv, Adding, ProcessGoes
<1>4. OldIsKept => OldIsKept'
  <2>1. faults > 0 => faults' > 0
    BY DEF BrokerIInv, BrokerTypes
  <2> QED
    BY <2>1 DEF OldIsKept
<1>5. Looked'
  <2>1. \A q \in Callers \ {p} : LookedAtOld(q)' => LookedAtOld(q)
    BY DEF LookedAtOld, ProcessGoes
  <2> QED
    BY <1>4, <2>1 DEF BrokerIInv, Looked
<1> QED
  BY <1>1, <1>2, <1>3, <1>5 DEF BrokerIInv, StreamsKept

(* initStreams reads the names, or gets none.                              *)
LEMMA ListStep ==
  ASSUME BrokerIInv, NEW p \in Callers, Broker!ListStreams(p)
  PROVE  BrokerIInv' /\ StreamsKept /\ StartsExplained
<1>1. ProcessGoes(p, "looking", DOMAIN streams) /\ streams' = streams /\ faults' = faults
  BY GotoGoes DEF BrokerIInv, BrokerTypes, Broker!ListStreams
<1>2. LookedAtOld(p)' => OldIsKept'
  BY <1>1 DEF LookedAtOld, OldIsKept, ProcessGoes
<1>3. BrokerIInv' /\ StreamsKept
  BY <1>1, <1>2, StreamsStay DEF BrokerIInv, BrokerTypes
<1>4. StartsExplained
  BY <1>1 DEF StartsExplained, ProcessGoes
<1> QED
  BY <1>3, <1>4

LEMMA LookAtNoneStep ==
  ASSUME BrokerIInv, NEW p \in Callers, Broker!LookAtNone(p)
  PROVE  BrokerIInv' /\ StreamsKept /\ StartsExplained
<1>1. ProcessGoes(p, "adding", Broker!Ours) /\ streams' = streams /\ faults' = faults
  BY GotoGoes DEF BrokerIInv, BrokerTypes, Broker!LookAtNone, StreamsThere
<1>2. OldIsKept'
  <2>1. OldIsKept
    BY DEF Broker!LookAtNone, LookedAtOld, BrokerIInv, Looked
  <2> QED
    BY <1>1, <2>1 DEF OldIsKept
<1>3. BrokerIInv' /\ StreamsKept
  BY <1>1, <1>2, StreamsStay DEF BrokerIInv, BrokerTypes
<1>4. StartsExplained
  BY <1>1 DEF StartsExplained, ProcessGoes
<1> QED
  BY <1>3, <1>4

(* A stream is looked at, and deleted when it overlaps.                    *)
LEMMA LookStep ==
  ASSUME Broker!StreamsAssumption, BrokerIInv, NEW p \in Callers, NEW n \in brokerProcess[p].names, Broker!Look(p, n)
  PROVE  BrokerIInv' /\ StreamsKept /\ StartsExplained
<1> DEFINE rest == brokerProcess[p].names \ {n}
           place == IF rest = {} THEN "adding" ELSE "looking"
           names == IF rest = {} THEN Broker!Ours ELSE rest
<1>1. n \in StreamsThere /\ rest \subseteq StreamsThere /\ brokerProcess[p].at = "looking"
  BY DEF BrokerIInv, BrokerTypes, Broker!Look
<1>2. ProcessGoes(p, place, names)
  <2>1. Broker!Goto(p, place, names)
    BY DEF Broker!Look
  <2>2. names \in SUBSET StreamsThere
    BY <1>1 DEF StreamsThere
  <2> QED
    BY <2>1, <2>2, GotoGoes DEF BrokerIInv
<1>3. place \in {"looking", "adding"} /\ (place = "adding" => names = Broker!Ours) /\ (place = "looking" => names = rest)
  OBVIOUS
<1>4. LookedAtOld(p)' => n = "OLD" \/ LookedAtOld(p)
  BY <1>1, <1>2 DEF LookedAtOld, ProcessGoes
<1> HIDE DEF rest, place, names
<1>5. StartsExplained
  BY <1>2, <1>3 DEF StartsExplained, ProcessGoes
<1>6. CASE streams' = streams /\ faults' = faults /\ (n = "OLD" => OldIsKept)
  <2>1. LookedAtOld(p)' => OldIsKept'
    BY <1>4, <1>6 DEF BrokerIInv, Looked, OldIsKept
  <2> QED
    BY <1>2, <1>3, <1>5, <1>6, <2>1, StreamsStay DEF BrokerIInv, BrokerTypes
<1>7. CASE Broker!Fault /\ streams' = streams
  <2>1. faults' \in Nat /\ faults' > 0 /\ faults' >= faults
    BY <1>7 DEF Broker!Fault, BrokerIInv, BrokerTypes
  <2>2. OldIsKept'
    BY <2>1 DEF OldIsKept
  <2> QED
    BY <1>2, <1>3, <1>5, <1>7, <2>1, <2>2, StreamsStay
<1>8. ASSUME faults' = faults, n \in DOMAIN streams, streams' = [m \in DOMAIN streams \ {n} |-> streams[m]],
             NEW c \in Broker!Ours, c # n, Broker!SubjectsOverlap(streams[n], Broker!Subject[c])
      PROVE  BrokerIInv' /\ StreamsKept
  <2>1. ~Stands(n) \/ n \notin Broker!Ours
    BY <1>8, SubjectsOfToday DEF Stands
  <2>2. streams[n] \in OldSubjects
    BY <1>8, <2>1 DEF BrokerIInv, BrokerTypes, Stands
  <2>3. Broker!Overlap(streams[n], Broker!Subject[c]) \/ Broker!FoundInVain(streams[n], Broker!Subject[c])
    BY <1>8, <2>2, SubjectsOfToday, OldIsSubject, FoundOverlaps
  <2>4. DOMAIN streams' = DOMAIN streams \ {n} /\ \A m \in DOMAIN streams' : streams'[m] = streams[m]
    BY <1>8
  <2>5. \A m \in Broker!Ours : Stands(m) => Stands(m)'
    BY <2>1, <2>4 DEF Stands
  <2>6. StreamsKept
    BY <2>3, <2>4, <2>5 DEF StreamsKept
  <2>7. BrokerTypes'
    BY <1>2, <1>8, <2>4 DEF BrokerIInv, BrokerTypes, ProcessGoes
  <2>8. Adding'
    BY <1>2, <1>3, <2>5 DEF BrokerIInv, Adding, ProcessGoes
  <2>9. Looked'
    <3>1. OldIsKept => OldIsKept'
      BY <1>8, <2>4 DEF OldIsKept
    <3>2. n = "OLD" => OldIsKept'
      BY <2>4 DEF OldIsKept
    <3>3. \A q \in Callers \ {p} : LookedAtOld(q)' => LookedAtOld(q)
      BY <1>2 DEF LookedAtOld, ProcessGoes
    <3> QED
      BY <1>4, <3>1, <3>2, <3>3 DEF BrokerIInv, Looked
  <2> QED
    BY <2>6, <2>7, <2>8, <2>9 DEF BrokerIInv
<1>9. CASE ~(Broker!Fault /\ streams' = streams)
  <2>1. faults' = faults
    BY <1>9 DEF Broker!Look
  <2>2. PICK seen \in IF n \in Broker!Ours THEN SUBSET (Broker!Ours \ {n}) ELSE {Broker!Ours} :
          streams' = IF n \in DOMAIN streams /\ \E c \in seen : Broker!SubjectsOverlap(streams[n], Broker!Subject[c])
                     THEN [m \in DOMAIN streams \ {n} |-> streams[m]]
                     ELSE streams
    BY <1>9 DEF Broker!Look
  <2>3. seen \subseteq Broker!Ours /\ n \notin seen /\ (n = "OLD" => seen = Broker!Ours)
    BY <1>1, <2>2 DEF StreamsThere, Broker!Ours
  <2>4. CASE n \in DOMAIN streams /\ \E c \in seen : Broker!SubjectsOverlap(streams[n], Broker!Subject[c])
    <3>1. PICK c \in seen : Broker!SubjectsOverlap(streams[n], Broker!Subject[c])
      BY <2>4
    <3>2. c \in Broker!Ours /\ c # n
      BY <2>3
    <3> QED
      BY <1>5, <1>8, <2>1, <2>2, <2>4, <3>1, <3>2
  <2>5. CASE ~(n \in DOMAIN streams /\ \E c \in seen : Broker!SubjectsOverlap(streams[n], Broker!Subject[c]))
    <3>1. streams' = streams
      BY <2>2, <2>5
    <3>2. n = "OLD" => OldIsKept
      BY <2>3, <2>5 DEF OldIsKept
    <3> QED
      BY <1>6, <2>1, <3>1, <3>2
  <2> QED
    BY <2>4, <2>5
<1> QED
  BY <1>7, <1>9

(* A stream is added, or updated, where the broker does not refuse it.     *)
LEMMA AddStep ==
  ASSUME BrokerIInv, NEW p \in Callers, NEW c \in brokerProcess[p].names, Broker!AddStream(p, c)
  PROVE  BrokerIInv' /\ StreamsKept /\ StartsExplained
<1> DEFINE rest == brokerProcess[p].names \ {c}
           place == IF rest = {} THEN "up" ELSE "adding"
           names == IF rest = {} THEN {} ELSE rest
<1>1. /\ brokerProcess[p].at = "adding" /\ brokerProcess[p].names \subseteq Broker!Ours
      /\ c \in Broker!Ours /\ rest \subseteq Broker!Ours /\ faults' = faults
      /\ \A d \in Broker!Ours \ brokerProcess[p].names : Stands(d)
  BY DEF BrokerIInv, Adding, Broker!AddStream
<1>2. ProcessGoes(p, place, names)
  <2>1. Broker!Goto(p, place, names)
    BY DEF Broker!AddStream
  <2>2. names \in SUBSET StreamsThere
    BY <1>1 DEF StreamsThere
  <2> QED
    BY <2>1, <2>2, GotoGoes DEF BrokerIInv
<1>3. place \in {"up", "adding"} /\ names = rest
  OBVIOUS
<1>4. place = "up" => rest = {}
  OBVIOUS
<1>5. Broker!Ours \ rest \subseteq (Broker!Ours \ brokerProcess[p].names) \cup {c}
  OBVIOUS
<1> HIDE DEF rest, place, names
<1>6. streams' = [n \in DOMAIN streams \cup {c} |-> IF n = c THEN Broker!Subject[c] ELSE streams[n]]
  BY DEF Broker!AddStream
<1>7. /\ DOMAIN streams' = DOMAIN streams \cup {c} /\ streams'[c] = Broker!Subject[c]
      /\ \A n \in DOMAIN streams : n # c => streams'[n] = streams[n]
  BY <1>6
<1> HIDE DEF Broker!Subject
<1>8. \A n \in Broker!Ours : Stands(n) => Stands(n)'
  BY <1>7 DEF Stands
<1>9. Stands(c)'
  BY <1>7 DEF Stands
<1>10. StreamsKept
  BY <1>7, <1>8 DEF StreamsKept
<1>11. \A d \in Broker!Ours \ rest : Stands(d)'
  BY <1>1, <1>5, <1>8, <1>9
<1>12. StartsExplained
  BY <1>2, <1>3, <1>4, <1>11 DEF StartsExplained, ProcessGoes, Stands
<1>13. BrokerTypes'
  BY <1>1, <1>2, <1>7 DEF BrokerIInv, BrokerTypes, ProcessGoes, StreamsThere
<1>14. Adding'
  BY <1>1, <1>2, <1>3, <1>8, <1>11 DEF BrokerIInv, Adding, ProcessGoes
<1>15. Looked'
  <2>1. c # "OLD"
    BY <1>1 DEF Broker!Ours
  <2>2. OldIsKept => OldIsKept'
    BY <1>1, <1>7, <2>1 DEF OldIsKept
  <2>3. \A q \in Callers : LookedAtOld(q)' => LookedAtOld(q)
    BY <1>1, <1>2, <1>3 DEF LookedAtOld, ProcessGoes
  <2> QED
    BY <2>2, <2>3 DEF BrokerIInv, Looked
<1> QED
  BY <1>10, <1>12, <1>13, <1>14, <1>15 DEF BrokerIInv

(* A start fails with a request, or because the broker refuses a stream.   *)
LEMMA StartFailsStep ==
  ASSUME Broker!StreamsAssumption, BrokerIInv, NEW p \in Callers, NEW c \in brokerProcess[p].names, Broker!StartFails(p, c)
  PROVE  BrokerIInv' /\ StreamsKept /\ StartsExplained
<1>1. /\ brokerProcess[p].at = "adding" /\ c \in Broker!Ours /\ streams' = streams
      /\ ProcessGoes(p, "failed", {})
  BY GotoGoes DEF BrokerIInv, Adding, Broker!StartFails
<1>2. faults' \in Nat /\ faults' >= faults /\ (Broker!Refused(c) \/ faults' > 0)
  BY DEF Broker!StartFails, Broker!Fault, BrokerIInv, BrokerTypes
<1>3. BrokerIInv' /\ StreamsKept
  BY <1>1, <1>2, StreamsStay DEF LookedAtOld, ProcessGoes
<1>4. ASSUME ~(faults' > 0)
      PROVE  \E n \in DOMAIN streams : \E d \in Broker!Ours \ {n} :
               /\ Broker!Overlap(streams[n], Broker!Subject[d])
               /\ n \in Broker!Ours \/ Broker!NotFound(streams[n], Broker!Subject[d])
  <2>1. PICK n \in DOMAIN streams \ {c} : Broker!Overlap(streams[n], Broker!Subject[c])
    BY <1>2, <1>4 DEF Broker!Refused
  <2>2. CASE n \in Broker!Ours
    BY <1>1, <2>1, <2>2
  <2>3. CASE n \notin Broker!Ours
    <3>1. n = "OLD" /\ streams[n] \in OldSubjects
      BY <2>1, <2>3 DEF BrokerIInv, BrokerTypes, StreamsThere
    <3>2. ~(faults > 0)
      BY <1>2, <1>4 DEF BrokerIInv, BrokerTypes
    <3>3. ~Broker!SubjectsOverlap(streams[n], Broker!Subject[c])
      BY <1>1, <2>1, <3>1, <3>2 DEF BrokerIInv, Looked, LookedAtOld, OldIsKept
    <3>4. Broker!NotFound(streams[n], Broker!Subject[c])
      BY <1>1, <2>1, <3>1, <3>3, SubjectsOfToday, OldIsSubject, OverlapIsFound
    <3> QED
      BY <1>1, <2>1, <2>3, <3>4
  <2> QED
    BY <2>2, <2>3
<1>5. StartsExplained
  BY <1>1, <1>4 DEF StartsExplained, ProcessGoes
<1> QED
  BY <1>3, <1>5

LEMMA BrokerStepKeeps ==
  ASSUME Broker!StreamsAssumption
  PROVE  BrokerIInv /\ [Broker!Next]_(Broker!vars) => BrokerIInv' /\ [StandingStreams]_(Broker!vars)
<1> SUFFICES ASSUME BrokerIInv, [Broker!Next]_(Broker!vars)
             PROVE  BrokerIInv' /\ [StandingStreams]_(Broker!vars)
  OBVIOUS
<1>1. CASE UNCHANGED Broker!vars
  BY <1>1 DEF Broker!vars, BrokerIInv, BrokerTypes, Adding, Stands, Looked, LookedAtOld, OldIsKept
<1>2. CASE Broker!Next
  <2>1. BrokerIInv' /\ StreamsKept /\ StartsExplained
    BY <1>2, ListStep, LookAtNoneStep, LookStep, AddStep, StartFailsStep DEF Broker!Next
  <2>2. StandingStreams
    BY <2>1 DEF StreamsKept, StartsExplained, Stands, StandingStreams
  <2> QED
    BY <2>1, <2>2
<1> QED
  BY <1>1, <1>2

LEMMA BrokerStands ==
  ASSUME Broker!StreamsAssumption
  PROVE  Broker!Spec => Broker!StreamsStand
<1>1. BrokerIInv /\ [Broker!Next]_(Broker!vars) => BrokerIInv'
  BY BrokerStepKeeps
<1>2. BrokerIInv /\ [Broker!Next]_(Broker!vars) => [StandingStreams]_(Broker!vars)
  BY BrokerStepKeeps
<1> QED
  BY <1>1, <1>2, BrokerBegins, PTL DEF Broker!Spec, Broker!StreamsStand, StandingStreams

-----------------------------------------------------------------------------
(* SkillLibrary: that documents are whole but where a copy was cut short,  *)
(* that a stale catalog has a reason, and that text leaves a skill only    *)
(* knowingly.                                                              *)
Bodies == Skill!FileContents
Marked == Fragments \cup {""}
Posts == {"idle", "scan", "store"}

SkillTypes ==
  /\ rootMade \in BOOLEAN
  /\ disk \in [Skills -> [Skill!Files -> Bodies]]
  /\ step \in [Callers -> {"idle", "find", "write", "remove", "after"}]
  /\ DOMAIN skillRequest = Callers /\ DOMAIN content = Callers
  /\ \A c \in Callers : step[c] # "idle" => skillRequest[c] \in Skill!Requests
  /\ DOMAIN reload = Skill!Runs
  /\ \A i \in Skill!Runs : reload[i].at \in Posts

(* What a call is about to write was validated, and keeps what nobody      *)
(* asked to remove, unless the file changed after the call had looked.     *)
Retains(c) ==
  \A x \in Fragments :
    x \in Skill!ToSet(disk[skillRequest[c].skill][skillRequest[c].file].text) =>
      x \in Skill!ToSet(content[c].text) \/ Skill!Asks(c, x)

Prepared(c) ==
  /\ step[c] = "remove" => skillRequest[c].op = "remove_file"
  /\ step[c] = "write" =>
       /\ content[c] \in Bodies
       /\ skillRequest[c].file = Skill!Manifest => ~Skill!Blank(content[c].text)
       /\ c \notin touched /\ ~(skillRequest[c].op = "create" /\ c \in misled) => Retains(c)

BlanksAreCut ==
  \A d \in Skills :
    disk[d][Skill!Manifest] # Skill!Absent /\ Skill!Blank(disk[d][Skill!Manifest].text) =>
      d \in Builtin /\ d \in cut

(* Before the worker is up only calls of the MCP server are under way, and *)
(* nothing is left of the post-processor of an earlier worker.             *)
Loaded == {"syncing", "exporting", "up"}
StartsAlone ==
  /\ worker \in Loaded => rootMade
  /\ worker # "up" =>
       /\ timer = "nil" /\ \A i \in Skill!Runs : reload[i].at = "idle"
       /\ \A c \in Callers : step[c] # "idle" => skillRequest[c].via = "mcp"

(* A run of the post-processor has yet to read the directory.              *)
Due ==
  \/ timer = "armed"
  \/ \E i \in Skill!Runs : reload[i].at = "scan"
  \/ \E c \in Callers : step[c] = "after" /\ skillRequest[c].via = "agent"

Scanned ==
  /\ \A i \in Skill!Runs : reload[i].at = "store" => reload[i].catalog = Skill!ScanOfDisk
  /\ (\A i \in Skill!Runs : reload[i].at # "store") =>
       catalog = Skill!ScanOfDisk \/ Skill!ScanOfDisk = Skill!Broken

CatalogFollows ==
  /\ \A i, j \in Skill!Runs : i # j /\ reload[i].at = "store" /\ reload[j].at = "store" => overlapped
  /\ worker \in Loaded /\ ~silent /\ ~overlapped /\ ~Due => Scanned

SkillInv ==
  /\ SkillTypes /\ (\A c \in Callers : Prepared(c)) /\ BlanksAreCut /\ StartsAlone /\ CatalogFollows

-----------------------------------------------------------------------------
LEMMA RequestShape ==
  ASSUME Skill!LibraryAssumption, NEW r \in Skill!Requests
  PROVE  /\ r.via \in {"agent", "mcp"} /\ r.skill \in Skills /\ r.file \in Skill!Files
         /\ r.op \in {"create", "patch", "write_file", "remove_file"}
         /\ r.op = "create" => r.file = Skill!Manifest /\ r.new \in Documents
         /\ r.op = "patch" => r.patch \in Patches
         /\ r.op = "write_file" => r.file = Skill!Support /\ \E x \in Fragments : r.new = Skill!Text(<<x>>)
         /\ r.op = "remove_file" => r.file = Skill!Support
BY DEF Skill!Requests, Skill!Arguments, Skill!Files

LEMMA SkillConstants ==
  ASSUME Skill!LibraryAssumption
  PROVE  /\ Skill!Absent \in Bodies /\ Skill!Truncated \in Bodies /\ Skill!CutHeader \in Bodies
         /\ \A d \in Documents : d \in Bodies /\ ~Skill!Blank(d.text)
         /\ \A d \in Builtin : /\ BuiltinDir[d] \in [Skill!Files -> Bodies]
                               /\ BuiltinDir[d][Skill!Manifest] # Skill!Absent
                               /\ ~Skill!Blank(BuiltinDir[d][Skill!Manifest].text)
         /\ \A x \in Fragments : Skill!Text(<<x>>) \in Bodies
         /\ Skill!Manifest \in Skill!Files /\ Skill!Support \in Skill!Files /\ Skill!Manifest # Skill!Support
<1> DEFINE Docs == [name : Skills, loads : BOOLEAN, text : Seq(Fragments) \ {<<>>}]
<1>1. \A d \in Docs : d \in Bodies /\ ~Skill!Blank(d.text) /\ d # Skill!Absent
  <2> SUFFICES ASSUME NEW d \in Docs PROVE d \in Bodies /\ ~Skill!Blank(d.text) /\ d # Skill!Absent
    OBVIOUS
  <2>1. d.text \in Seq(Fragments) /\ d.text # <<>> /\ d.name \in Skills /\ d.loads \in BOOLEAN
    OBVIOUS
  <2>2. Len(d.text) \in Nat \ {0} /\ DOMAIN d.text = 1..Len(d.text)
    BY <2>1
  <2>3. d.text[1] \in Fragments /\ 1 \in DOMAIN d.text
    BY <2>1, <2>2
  <2>4. ~Skill!Blank(d.text)
    <3>1. d.text[1] # ""
      BY <2>3 DEF Skill!LibraryAssumption
    <3> QED
      BY <2>3, <3>1 DEF Skill!Blank
  <2>5. d.text \in Seq(Marked)
    BY <2>1, SeqMonotonic DEF Marked
  <2>6. d \in Bodies
    BY <2>1, <2>5 DEF Bodies, Skill!FileContents, Marked
  <2>7. d # Skill!Absent
    <3>1. Skill!NoName \notin Skills /\ Skill!Absent.name = Skill!NoName
      BY DEF Skill!Absent, Skill!LibraryAssumption
    <3> HIDE DEF Docs
    <3> QED
      BY <2>1, <3>1
  <2> QED
    BY <2>4, <2>6, <2>7
<1>2. Documents \subseteq Docs /\ \A d \in Builtin : BuiltinDir[d][Skill!Manifest] \in Docs
  BY DEF Skill!LibraryAssumption
<1>3. \A d \in Builtin : BuiltinDir[d] \in [Skill!Files -> Bodies]
  BY DEF Skill!LibraryAssumption, Bodies
<1>4. Skill!Absent \in Bodies /\ Skill!Truncated \in Bodies /\ Skill!CutHeader \in Bodies
  <2>1. <<>> \in Seq(Marked) /\ <<"">> \in Seq(Marked)
    BY DEF Marked
  <2> QED
    BY <2>1 DEF Skill!Absent, Skill!Truncated, Skill!CutHeader, Bodies, Skill!FileContents, Marked
<1>5. \A x \in Fragments : Skill!Text(<<x>>) \in Bodies
  <2> SUFFICES ASSUME NEW x \in Fragments PROVE Skill!Text(<<x>>) \in Bodies
    OBVIOUS
  <2>1. <<x>> \in Seq(Marked)
    <3>1. <<x>> \in Seq(Fragments)
      OBVIOUS
    <3> QED
      BY <3>1, SeqMonotonic DEF Marked
  <2> QED
    BY <2>1 DEF Skill!Text, Bodies, Skill!FileContents, Marked
<1>6. Skill!Manifest \in Skill!Files /\ Skill!Support \in Skill!Files /\ Skill!Manifest # Skill!Support
  BY DEF Skill!Manifest, Skill!Support, Skill!Files
<1> HIDE DEF Docs
<1> QED
  BY <1>1, <1>2, <1>3, <1>4, <1>5, <1>6

LEMMA ScanStays == ASSUME UNCHANGED <<rootMade, disk>> PROVE Skill!ScanOfDisk' = Skill!ScanOfDisk
BY DEF Skill!ScanOfDisk, Skill!Shown, Skill!NameOf

LEMMA SkillBegins == ASSUME Skill!LibraryAssumption PROVE Skill!Init => SkillInv
<1> SUFFICES ASSUME Skill!Init PROVE SkillInv
  OBVIOUS
<1>1. SkillTypes
  BY DEF Skill!LibraryAssumption, Skill!Init, SkillTypes, Bodies, Skill!NoRun, Posts
<1>2. \A c \in Callers : Prepared(c)
  BY DEF Skill!Init, Prepared
<1>3. BlanksAreCut
  BY DEF Skill!Init, BlanksAreCut, Skill!LibraryAssumption
<1>4. StartsAlone
  BY DEF Skill!Init, StartsAlone, Loaded, Skill!NoRun
<1>5. CatalogFollows
  BY DEF Skill!Init, CatalogFollows, Loaded, Skill!NoRun
<1> QED
  BY <1>1, <1>2, <1>3, <1>4, <1>5 DEF SkillInv

(* What Patch makes of a file loses only the text it was asked to replace. *)
LEMMA PatchRetains ==
  ASSUME Skill!LibraryAssumption, SkillTypes, NEW r \in Skill!Requests, r.op = "patch",
         Skill!Patched(r) # Skill!Absent
  PROVE  /\ Skill!Patched(r) \in Bodies
         /\ r.file = Skill!Manifest => ~Skill!Blank(Skill!Patched(r).text)
         /\ \A x \in Fragments \ {r.patch.old} :
              x \in Skill!ToSet(disk[r.skill][r.file].text) => x \in Skill!ToSet(Skill!Patched(r).text)
<1> DEFINE old == disk[r.skill][r.file]
           text == Skill!ReplaceAll(old.text, r.patch.old, r.patch.new)
<1>1. old \in Bodies /\ r.patch \in Patches
  BY RequestShape DEF SkillTypes
<1>2. Skill!Patched(r) = [old EXCEPT !.text = text] /\ ~(r.file = Skill!Manifest /\ Skill!Blank(text))
  BY DEF Skill!Patched
<1>3. text = [i \in 1..Len(old.text) |-> IF old.text[i] = r.patch.old THEN r.patch.new ELSE old.text[i]]
  BY DEF Skill!ReplaceAll
<1> HIDE DEF old, text
<1>4. old.text \in Seq(Marked) /\ old.name \in Skills \cup {Skill!NoName} /\ old.loads \in BOOLEAN
      /\ r.patch.old \in Fragments /\ r.patch.new \in Marked
  BY <1>1 DEF Bodies, Skill!FileContents, Skill!LibraryAssumption, Marked
<1>5. text \in Seq(Marked) /\ DOMAIN text = 1..Len(old.text) /\ DOMAIN old.text = 1..Len(old.text)
  <2>1. Len(old.text) \in Nat /\ DOMAIN old.text = 1..Len(old.text) /\ \A i \in 1..Len(old.text) : old.text[i] \in Marked
    BY <1>4, LenProperties
  <2>2. text \in [1..Len(old.text) -> Marked]
    BY <1>3, <1>4, <2>1
  <2> QED
    BY <2>1, <2>2, SeqDef
<1>6. Skill!Patched(r).text = text /\ Skill!Patched(r) \in Bodies
  BY <1>1, <1>2, <1>4, <1>5 DEF Bodies, Skill!FileContents, Marked
<1>7. ASSUME NEW x \in Fragments \ {r.patch.old}, x \in Skill!ToSet(old.text)
      PROVE  x \in Skill!ToSet(text)
  <2>1. PICK i \in 1..Len(old.text) : old.text[i] = x
    BY <1>5, <1>7 DEF Skill!ToSet
  <2>2. text[i] = x /\ i \in DOMAIN text
    BY <1>3, <1>5, <1>7, <2>1
  <2> QED
    BY <2>2 DEF Skill!ToSet
<1> QED
  BY <1>2, <1>6, <1>7 DEF old

-----------------------------------------------------------------------------
(* A step of one call that leaves the files as they are.                   *)
LEMMA CallMoves ==
  ASSUME SkillInv, NEW c \in Callers,
         UNCHANGED <<disk, worker, reload, catalog, silent, overlapped, cut>>,
         rootMade' = rootMade \/ rootMade' = TRUE,
         worker # "up" => timer' = timer,
         Due => Due',
         step' \in [Callers -> {"idle", "find", "write", "remove", "after"}],
         DOMAIN skillRequest' = Callers, DOMAIN content' = Callers,
         step'[c] # "idle" => skillRequest'[c] \in Skill!Requests,
         step'[c] # "idle" /\ worker # "up" => skillRequest'[c].via = "mcp",
         Prepared(c)',
         \A b \in Callers \ {c} :
           /\ step'[b] = step[b] /\ skillRequest'[b] = skillRequest[b] /\ content'[b] = content[b]
           /\ b \in touched => b \in touched'
           /\ b \in misled => b \in misled'
  PROVE  SkillInv'
<1>1. SkillTypes'
  BY DEF SkillInv, SkillTypes
<1>2. ASSUME NEW b \in Callers PROVE Prepared(b)'
  <2>1. CASE b = c
    BY <2>1
  <2>2. CASE b # c
    BY <2>2 DEF SkillInv, Prepared, Retains, Skill!Asks
  <2> QED
    BY <2>1, <2>2
<1>3. BlanksAreCut'
  BY DEF SkillInv, BlanksAreCut
<1>4. StartsAlone'
  BY DEF SkillInv, StartsAlone, Loaded
<1>5. CatalogFollows'
  <2>1. worker \in Loaded => Skill!ScanOfDisk' = Skill!ScanOfDisk
    BY ScanStays DEF SkillInv, StartsAlone
  <2> QED
    BY <2>1 DEF SkillInv, CatalogFollows, Scanned
<1> QED
  BY <1>1, <1>2, <1>3, <1>4, <1>5 DEF SkillInv

(* What the calls do before and after they write.                          *)
LEMMA CallsLook ==
  ASSUME Skill!LibraryAssumption, SkillInv, NEW c \in Callers,
         \/ \E r \in Skill!Requests : Skill!Execute(c, r)
         \/ Skill!CreateLooks(c) \/ Skill!PatchLooks(c) \/ Skill!WriteFileLooks(c)
         \/ Skill!RemoveFileLooks(c) \/ Skill!WriteFails(c) \/ Skill!AfterMutation(c)
  PROVE  SkillInv'
<1> USE DEF SkillInv, SkillTypes
<1>1. CASE \E r \in Skill!Requests : Skill!Execute(c, r)
  <2>1. PICK r \in Skill!Requests : Skill!Execute(c, r)
    BY <1>1
  <2>2. /\ step[c] = "idle" /\ step' = [step EXCEPT ![c] = "find"]
        /\ skillRequest' = [skillRequest EXCEPT ![c] = r]
        /\ UNCHANGED <<rootMade, disk, content, silent, timer, reload, catalog, worker, overlapped, cut>>
        /\ touched' = touched \ {c} /\ misled' = misled \ {c}
        /\ worker # "up" => r.via = "mcp"
    BY <2>1 DEF Skill!Execute, Skill!workerVars
  <2>3. Due => Due'
    BY <2>2 DEF Due
  <2>4. Prepared(c)'
    BY <2>2 DEF Prepared
  <2> QED
    BY <2>2, <2>3, <2>4, CallMoves
<1>2. CASE /\ step[c] \in {"find", "write", "remove", "after"} /\ Skill!Return(c)
           /\ UNCHANGED <<rootMade, disk, silent, cut, reload, catalog, worker, overlapped, touched, misled>>
           /\ IF step[c] = "after" /\ skillRequest[c].via = "agent" THEN timer' = "armed" ELSE timer' = timer
  <2>1. /\ step' = [step EXCEPT ![c] = "idle"] /\ DOMAIN skillRequest' = Callers /\ DOMAIN content' = Callers
        /\ \A b \in Callers \ {c} : skillRequest'[b] = skillRequest[b] /\ content'[b] = content[b]
    BY <1>2 DEF Skill!Return
  <2>2. Due => Due'
    BY <1>2, <2>1 DEF Due
  <2>3. Prepared(c)'
    BY <2>1 DEF Prepared
  <2>4. worker # "up" => timer' = timer
    BY <1>2 DEF StartsAlone
  <2> QED
    BY <1>2, <2>1, <2>2, <2>3, <2>4, CallMoves
<1>3. CASE /\ step[c] = "find" /\ UNCHANGED <<skillRequest, disk, silent, cut, timer, reload, catalog, worker, overlapped, touched, misled>>
           /\ (rootMade' = rootMade \/ rootMade' = TRUE) /\ step' \in [Callers -> {"idle", "find", "write", "remove", "after"}]
           /\ step'[c] \in {"write", "remove"}
           /\ DOMAIN content' = Callers
           /\ \A b \in Callers \ {c} : step'[b] = step[b] /\ content'[b] = content[b]
           /\ Prepared(c)'
  <2>1. Due => Due'
    BY <1>3 DEF Due
  <2>3. worker # "up" => skillRequest'[c].via = "mcp"
    BY <1>3 DEF StartsAlone
  <2> QED
    BY <1>3, <2>1, <2>3, CallMoves
<1> HIDE DEF SkillInv, SkillTypes
<1>4. CASE Skill!CreateLooks(c)
  <2>1. CASE Skill!Return(c) /\ UNCHANGED rootMade
    BY <1>2, <1>4, <2>1 DEF Skill!CreateLooks, Skill!workerVars
  <2>2. CASE /\ c \in misled \/ disk[skillRequest[c].skill][Skill!Manifest] = Skill!Absent
             /\ rootMade' = TRUE
             /\ content' = [content EXCEPT ![c] = skillRequest[c].new] /\ Skill!GoTo(c, "write")
    <3>1. /\ step[c] = "find" /\ skillRequest[c].op = "create" /\ UNCHANGED skillRequest
          /\ UNCHANGED <<disk, silent, cut, timer, reload, catalog, worker, overlapped, touched, misled>>
          /\ step' = [step EXCEPT ![c] = "write"]
      BY <1>4, <2>2 DEF Skill!CreateLooks, Skill!workerVars, Skill!GoTo
    <3>2. skillRequest[c] \in Skill!Requests
      BY <3>1 DEF SkillInv, SkillTypes
    <3>3. skillRequest[c].file = Skill!Manifest /\ skillRequest[c].new \in Documents
      BY <3>1, <3>2, RequestShape
    <3>4. content'[c] = skillRequest[c].new /\ DOMAIN content' = Callers
      BY <2>2 DEF SkillInv, SkillTypes
    <3>6. \A x \in Fragments : x \notin Skill!ToSet(Skill!Absent.text)
      BY DEF Skill!ToSet, Skill!Absent
    <3>7. Prepared(c)'
      BY <2>2, <3>1, <3>3, <3>4, <3>6, SkillConstants DEF Prepared, Retains
    <3> QED
      BY <1>3, <2>2, <3>1, <3>4, <3>7 DEF SkillInv, SkillTypes
  <2>3. PICK found \in Skill!Find(c) :
          IF found THEN Skill!Return(c) /\ UNCHANGED rootMade
          ELSE /\ rootMade' = TRUE /\ Skill!GoTo(c, "write")
               /\ content' = [content EXCEPT ![c] = skillRequest[c].new]
    BY <1>4 DEF Skill!CreateLooks
  <2>4. ~found => c \in misled \/ disk[skillRequest[c].skill][Skill!Manifest] = Skill!Absent
    BY DEF Skill!Find
  <2> QED
    BY <2>1, <2>2, <2>3, <2>4
<1>5. CASE Skill!PatchLooks(c)
  <2>1. CASE Skill!Return(c)
    BY <1>2, <1>5, <2>1 DEF Skill!PatchLooks, Skill!workerVars
  <2>2. CASE /\ Skill!Patched(skillRequest[c]) # Skill!Absent
             /\ content' = [content EXCEPT ![c] = Skill!Patched(skillRequest[c])] /\ Skill!GoTo(c, "write")
    <3>1. /\ step[c] = "find" /\ skillRequest[c].op = "patch" /\ UNCHANGED skillRequest
          /\ UNCHANGED <<rootMade, disk, silent, cut, timer, reload, catalog, worker, overlapped, touched, misled>>
          /\ step' = [step EXCEPT ![c] = "write"]
      BY <1>5, <2>2 DEF Skill!PatchLooks, Skill!workerVars, Skill!GoTo
    <3>2. skillRequest[c] \in Skill!Requests
      BY <3>1 DEF SkillInv, SkillTypes
    <3>3. content'[c] = Skill!Patched(skillRequest[c]) /\ DOMAIN content' = Callers
      BY <2>2 DEF SkillInv, SkillTypes
    <3>4. Prepared(c)'
      <4>1. /\ content'[c] \in Bodies
            /\ skillRequest[c].file = Skill!Manifest => ~Skill!Blank(content'[c].text)
            /\ \A x \in Fragments \ {skillRequest[c].patch.old} :
                 x \in Skill!ToSet(disk[skillRequest[c].skill][skillRequest[c].file].text) =>
                   x \in Skill!ToSet(content'[c].text)
        BY <2>2, <3>1, <3>2, <3>3, PatchRetains DEF SkillInv
      <4> QED
        BY <3>1, <4>1 DEF Prepared, Retains, Skill!Asks
    <3> QED
      BY <1>3, <2>2, <3>1, <3>3, <3>4 DEF SkillInv, SkillTypes
  <2> QED
    BY <1>5, <2>1, <2>2 DEF Skill!PatchLooks
<1>6. CASE Skill!WriteFileLooks(c)
  <2>1. CASE Skill!Return(c)
    BY <1>2, <1>6, <2>1 DEF Skill!WriteFileLooks, Skill!workerVars
  <2>2. CASE content' = [content EXCEPT ![c] = skillRequest[c].new] /\ Skill!GoTo(c, "write")
    <3>1. /\ step[c] = "find" /\ skillRequest[c].op = "write_file" /\ UNCHANGED skillRequest
          /\ UNCHANGED <<rootMade, disk, silent, cut, timer, reload, catalog, worker, overlapped, touched, misled>>
          /\ step' = [step EXCEPT ![c] = "write"]
      BY <1>6, <2>2 DEF Skill!WriteFileLooks, Skill!workerVars, Skill!GoTo
    <3>2. skillRequest[c] \in Skill!Requests
      BY <3>1 DEF SkillInv, SkillTypes
    <3>3. content'[c] = skillRequest[c].new /\ DOMAIN content' = Callers
      BY <2>2 DEF SkillInv, SkillTypes
    <3>4. skillRequest[c].file = Skill!Support /\ skillRequest[c].new \in Bodies
      BY <3>1, <3>2, RequestShape, SkillConstants
    <3>5. Prepared(c)'
      BY <3>1, <3>3, <3>4, SkillConstants DEF Prepared, Retains, Skill!Asks
    <3> QED
      BY <1>3, <2>2, <3>1, <3>3, <3>5 DEF SkillInv, SkillTypes
  <2> QED
    BY <1>6, <2>1, <2>2 DEF Skill!WriteFileLooks
<1>7. CASE Skill!RemoveFileLooks(c)
  <2>1. CASE Skill!Return(c)
    BY <1>2, <1>7, <2>1 DEF Skill!RemoveFileLooks, Skill!workerVars
  <2>2. CASE Skill!GoTo(c, "remove") /\ UNCHANGED content
    <3>1. /\ step[c] = "find" /\ skillRequest[c].op = "remove_file" /\ UNCHANGED skillRequest
          /\ UNCHANGED <<rootMade, disk, silent, cut, timer, reload, catalog, worker, overlapped, touched, misled>>
          /\ step' = [step EXCEPT ![c] = "remove"]
      BY <1>7, <2>2 DEF Skill!RemoveFileLooks, Skill!workerVars, Skill!GoTo
    <3>2. Prepared(c)'
      BY <3>1 DEF Prepared, SkillInv, SkillTypes
    <3> QED
      BY <1>3, <2>2, <3>1, <3>2 DEF SkillInv, SkillTypes
  <2> QED
    BY <1>7, <2>1, <2>2 DEF Skill!RemoveFileLooks
<1>8. CASE Skill!WriteFails(c)
  BY <1>2, <1>8 DEF Skill!WriteFails, Skill!workerVars
<1>9. CASE Skill!AfterMutation(c)
  BY <1>2, <1>9 DEF Skill!AfterMutation
<1> QED
  BY <1>1, <1>4, <1>5, <1>6, <1>7, <1>8, <1>9

(* A file is written or removed: the other calls that have looked at the   *)
(* skill are touched, and a reload is due unless the MCP server asked.     *)
LEMMA FileChanges ==
  ASSUME Skill!LibraryAssumption, SkillInv, NEW c \in Callers, step[c] \in {"write", "remove"}, NEW v \in Bodies,
         disk' = [disk EXCEPT ![skillRequest[c].skill][skillRequest[c].file] = v],
         skillRequest[c].file = Skill!Manifest => ~Skill!Blank(v.text),
         touched' = touched \cup (Skill!Watching(skillRequest[c].skill) \ {c}),
         silent' = (silent \/ skillRequest[c].via = "mcp"),
         step' = [step EXCEPT ![c] = "after"], misled \subseteq misled',
         UNCHANGED <<cut, rootMade, skillRequest, content, timer, reload, catalog, worker, overlapped>>
  PROVE  SkillInv'
<1> DEFINE d == skillRequest[c].skill
           f == skillRequest[c].file
<1>1. d \in Skills /\ f \in Skill!Files /\ skillRequest[c] \in Skill!Requests /\ skillRequest[c].via \in {"agent", "mcp"}
  BY RequestShape DEF SkillInv, SkillTypes
<1>2. disk'[d] = [disk[d] EXCEPT ![f] = v] /\ \A e \in Skills \ {d} : disk'[e] = disk[e]
  BY <1>1 DEF SkillInv, SkillTypes
<1> HIDE DEF d, f
<1>3. SkillTypes'
  <2>1. disk' \in [Skills -> [Skill!Files -> Bodies]]
    BY <1>1 DEF SkillInv, SkillTypes, d, f
  <2>2. step' \in [Callers -> {"idle", "find", "write", "remove", "after"}]
        /\ \A b \in Callers : step'[b] # "idle" => step[b] # "idle"
    BY DEF SkillInv, SkillTypes
  <2> QED
    BY <2>1, <2>2 DEF SkillInv, SkillTypes
<1>4. ASSUME NEW b \in Callers PROVE Prepared(b)'
  <2>1. CASE b = c
    BY <2>1 DEF Prepared, SkillInv, SkillTypes
  <2>2. CASE b # c
    <3>1. step'[b] = step[b] /\ (b \in touched => b \in touched') /\ (b \in misled => b \in misled')
      BY <2>2 DEF SkillInv, SkillTypes
    <3>2. CASE step[b] # "write"
      BY <3>1, <3>2 DEF SkillInv, Prepared
    <3>3. CASE step[b] = "write" /\ skillRequest[b].skill = d
      <4>1. b \in touched'
        BY <2>2, <3>3 DEF Skill!Watching, d
      <4> QED
        BY <3>1, <3>3, <4>1 DEF SkillInv, Prepared
    <3>4. CASE step[b] = "write" /\ skillRequest[b].skill # d
      <4>1. skillRequest[b].skill \in Skills \ {d}
        BY <3>4, RequestShape DEF SkillInv, SkillTypes
      <4>2. Retains(b)' <=> Retains(b)
        BY <1>2, <4>1 DEF Retains, Skill!Asks
      <4> QED
        BY <3>1, <3>4, <4>2 DEF SkillInv, Prepared
    <3> QED
      BY <3>2, <3>3, <3>4
  <2> QED
    BY <2>1, <2>2
<1>5. BlanksAreCut'
  <2> SUFFICES ASSUME NEW e \in Skills, disk'[e][Skill!Manifest] # Skill!Absent, Skill!Blank(disk'[e][Skill!Manifest].text)
               PROVE  e \in Builtin /\ e \in cut'
    BY DEF BlanksAreCut
  <2>1. CASE e = d /\ f = Skill!Manifest
    <3>1. disk'[e][Skill!Manifest] = v
      BY <1>1, <1>2, <2>1 DEF SkillInv, SkillTypes
    <3> QED
      BY <2>1, <3>1 DEF f
  <2>2. CASE ~(e = d /\ f = Skill!Manifest)
    <3>1. disk'[e][Skill!Manifest] = disk[e][Skill!Manifest]
      BY <1>1, <1>2, <2>2, SkillConstants DEF SkillInv, SkillTypes
    <3> QED
      BY <3>1 DEF SkillInv, BlanksAreCut
  <2> QED
    BY <2>1, <2>2
<1>6. StartsAlone'
  BY DEF SkillInv, SkillTypes, StartsAlone, Loaded
<1>7. CatalogFollows'
  <2>1. silent' \/ Due'
    <3>1. step'[c] = "after"
      BY DEF SkillInv, SkillTypes
    <3> QED
      BY <1>1, <3>1 DEF Due
  <2> QED
    BY <2>1 DEF SkillInv, CatalogFollows
<1> QED
  BY <1>3, <1>4, <1>5, <1>6, <1>7 DEF SkillInv

LEMMA CallsWrite ==
  ASSUME Skill!LibraryAssumption, SkillInv, NEW c \in Callers, Skill!AtomicWrite(c) \/ Skill!RemoveFile(c)
  PROVE  SkillInv'
<1>1. CASE Skill!AtomicWrite(c)
  <2>1. step[c] = "write" /\ content[c] \in Bodies
        /\ (skillRequest[c].file = Skill!Manifest => ~Skill!Blank(content[c].text))
    BY <1>1 DEF Skill!AtomicWrite, SkillInv, Prepared
  <2> QED
    BY <1>1, <2>1, FileChanges DEF Skill!AtomicWrite, Skill!GoTo, Skill!workerVars
<1>2. CASE Skill!RemoveFile(c) /\ disk[skillRequest[c].skill][Skill!Support] # Skill!Absent
  <2>1. step[c] = "remove" /\ skillRequest[c].op = "remove_file" /\ skillRequest[c] \in Skill!Requests
    BY <1>2 DEF Skill!RemoveFile, SkillInv, Prepared, SkillTypes
  <2>2. skillRequest[c].file = Skill!Support /\ skillRequest[c].file # Skill!Manifest /\ Skill!Absent \in Bodies
    BY <2>1, RequestShape, SkillConstants
  <2>3. /\ disk' = [disk EXCEPT ![skillRequest[c].skill][skillRequest[c].file] = Skill!Absent]
        /\ touched' = touched \cup (Skill!Watching(skillRequest[c].skill) \ {c})
        /\ silent' = (silent \/ skillRequest[c].via = "mcp")
        /\ step' = [step EXCEPT ![c] = "after"] /\ misled \subseteq misled'
        /\ UNCHANGED <<cut, rootMade, skillRequest, content, timer, reload, catalog, worker, overlapped>>
    BY <1>2, <2>2 DEF Skill!RemoveFile, Skill!GoTo, Skill!workerVars
  <2> QED
    BY <2>1, <2>2, <2>3, FileChanges
<1>3. CASE Skill!RemoveFile(c) /\ disk[skillRequest[c].skill][Skill!Support] = Skill!Absent
  <2>1. /\ step[c] = "remove" /\ Skill!Return(c)
        /\ UNCHANGED <<rootMade, disk, silent, cut, timer, reload, catalog, worker, overlapped, touched, misled>>
    BY <1>3 DEF Skill!RemoveFile, Skill!workerVars
  <2>2. /\ step' = [step EXCEPT ![c] = "idle"] /\ DOMAIN skillRequest' = Callers /\ DOMAIN content' = Callers
        /\ \A b \in Callers \ {c} : skillRequest'[b] = skillRequest[b] /\ content'[b] = content[b]
    BY <2>1 DEF Skill!Return, SkillInv, SkillTypes
  <2>3. Due => Due'
    BY <2>1, <2>2 DEF Due, SkillInv, SkillTypes
  <2>4. Prepared(c)'
    BY <2>2 DEF Prepared, SkillInv, SkillTypes
  <2> QED
    BY <2>1, <2>2, <2>3, <2>4, CallMoves DEF SkillInv, SkillTypes
<1> QED
  BY <1>1, <1>2, <1>3

(* Neither the files nor the calls change: what such a step owes.          *)
LEMMA CallsStand ==
  ASSUME SkillInv, UNCHANGED <<cut, rootMade, disk, step, skillRequest, content, misled, touched>>,
         SkillTypes', BlanksAreCut', StartsAlone', CatalogFollows'
  PROVE  SkillInv'
BY DEF SkillInv, Prepared, Retains, Skill!Asks

(* The runs of the post-processor.                                         *)
LEMMA RunsReload ==
  ASSUME SkillInv, NEW i \in Skill!Runs, Skill!PostSteps(i)
  PROVE  SkillInv'
<1>1. /\ Skill!Runs = {1, 2}
      /\ UNCHANGED <<cut, rootMade, disk, worker, step, skillRequest, content, misled, touched>>
      /\ Skill!ScanOfDisk' = Skill!ScanOfDisk
  <2>1. UNCHANGED <<cut, rootMade, disk, worker, step, skillRequest, content, misled, touched>>
    BY DEF Skill!PostSteps, Skill!TimerFires, Skill!ReloadScans, Skill!ReloadStores, Skill!callVars
  <2>2. Skill!ScanOfDisk' = Skill!ScanOfDisk
    BY <2>1, ScanStays
  <2>3. Skill!Runs = {1, 2}
    BY DEF Skill!Runs
  <2> QED
    BY <2>1, <2>2, <2>3
<1>2. BlanksAreCut'
  BY <1>1 DEF SkillInv, BlanksAreCut
<1>3. worker = "up"
  BY DEF SkillInv, StartsAlone, Skill!PostSteps, Skill!TimerFires, Skill!ReloadScans, Skill!ReloadStores
<1>4. StartsAlone'
  BY <1>1, <1>3 DEF SkillInv, StartsAlone, Loaded
<1>5. CASE Skill!TimerFires(i)
  <2>1. /\ reload[i].at = "idle" /\ reload'[i].at = "scan" /\ DOMAIN reload' = Skill!Runs
        /\ \A j \in Skill!Runs \ {i} : reload'[j] = reload[j]
        /\ UNCHANGED <<catalog, silent, overlapped>>
    BY <1>5 DEF Skill!TimerFires, Skill!NoRun, SkillInv, SkillTypes
  <2>2. SkillTypes'
    BY <1>1, <2>1 DEF SkillInv, SkillTypes, Posts
  <2>3. Due'
    BY <2>1 DEF Due
  <2>4. CatalogFollows'
    BY <2>1, <2>3 DEF SkillInv, CatalogFollows
  <2> QED
    BY <1>1, <1>2, <1>4, <2>2, <2>4, CallsStand
<1>6. CASE Skill!ReloadScans(i)
  <2>1. /\ reload[i].at = "scan" /\ reload'[i] = [at |-> "store", catalog |-> Skill!ScanOfDisk]
        /\ DOMAIN reload' = Skill!Runs /\ \A j \in Skill!Runs \ {i} : reload'[j] = reload[j]
        /\ overlapped' = (\E j \in Skill!Runs \ {i} : reload[j].at = "store")
    BY <1>6 DEF Skill!ReloadScans, SkillInv, SkillTypes
  <2>2. SkillTypes'
    BY <1>1, <2>1 DEF SkillInv, SkillTypes, Posts
  <2>3. \A j, k \in Skill!Runs : j # k /\ reload'[j].at = "store" /\ reload'[k].at = "store" => overlapped'
    BY <1>1, <2>1
  <2>4. ~overlapped' => Scanned'
    BY <1>1, <2>1 DEF Scanned
  <2>5. CatalogFollows'
    BY <2>3, <2>4 DEF CatalogFollows
  <2> QED
    BY <1>1, <1>2, <1>4, <2>2, <2>5, CallsStand
<1>7. CASE Skill!ReloadStores(i)
  <2>1. /\ reload[i].at = "store" /\ reload'[i].at = "idle" /\ UNCHANGED <<timer, silent, overlapped>>
        /\ DOMAIN reload' = Skill!Runs /\ \A j \in Skill!Runs \ {i} : reload'[j] = reload[j]
        /\ catalog' = IF reload[i].catalog = Skill!Broken THEN catalog ELSE reload[i].catalog
    BY <1>7 DEF Skill!ReloadStores, Skill!NoRun, SkillInv, SkillTypes
  <2>2. SkillTypes'
    BY <1>1, <2>1 DEF SkillInv, SkillTypes, Posts
  <2>3. \A j, k \in Skill!Runs : j # k /\ reload'[j].at = "store" /\ reload'[k].at = "store" => overlapped'
    BY <2>1 DEF SkillInv, CatalogFollows
  <2>4. Due => Due'
    BY <1>1, <2>1 DEF Due
  <2>5. ASSUME ~silent', ~overlapped', ~Due' PROVE Scanned'
    <3>1. reload[i].catalog = Skill!ScanOfDisk
      BY <1>3, <2>1, <2>4, <2>5 DEF SkillInv, CatalogFollows, Scanned, Loaded
    <3>2. \A j \in Skill!Runs : reload'[j].at # "store"
      BY <2>1, <2>5 DEF SkillInv, CatalogFollows
    <3> QED
      BY <1>1, <2>1, <3>1, <3>2 DEF Scanned
  <2>6. CatalogFollows'
    BY <2>3, <2>5 DEF CatalogFollows
  <2> QED
    BY <1>1, <1>2, <1>4, <2>2, <2>6, CallsStand
<1> QED
  BY <1>5, <1>6, <1>7 DEF Skill!PostSteps

(* The worker is gone, and with it the calls and the post-processor.       *)
LEMMA WorkerDies ==
  ASSUME SkillInv, Skill!Dies, rootMade' \in BOOLEAN, disk' \in [Skills -> [Skill!Files -> Bodies]], BlanksAreCut'
  PROVE  SkillInv'
<1>1. /\ worker' = "down" /\ timer' = "nil"
      /\ \A c \in Callers : step'[c] = "idle"
      /\ \A i \in Skill!Runs : reload'[i].at = "idle"
  BY DEF Skill!Dies, Skill!NoRun
<1>2. SkillTypes'
  BY <1>1 DEF SkillTypes, Skill!Dies, Posts, Skill!NoRun
<1>3. \A c \in Callers : Prepared(c)'
  BY <1>1 DEF Prepared
<1>4. StartsAlone'
  BY <1>1 DEF StartsAlone, Loaded
<1>5. CatalogFollows'
  BY <1>1 DEF CatalogFollows, Loaded
<1> QED
  BY <1>2, <1>3, <1>4, <1>5 DEF SkillInv

(* What a start copies over the worker's skills is whole.                  *)
LEMMA CopiesAreWhole ==
  ASSUME Skill!LibraryAssumption, SkillInv, NEW d \in Builtin
  PROVE  /\ Skill!Copied(BuiltinDir[d], disk[d]) \in [Skill!Files -> Bodies]
         /\ ~Skill!Blank(Skill!Copied(BuiltinDir[d], disk[d])[Skill!Manifest].text)
<1>1. d \in Skills /\ disk[d] \in [Skill!Files -> Bodies]
  BY DEF Skill!LibraryAssumption, SkillInv, SkillTypes
<1>2. /\ BuiltinDir[d] \in [Skill!Files -> Bodies] /\ Skill!Manifest \in Skill!Files
      /\ BuiltinDir[d][Skill!Manifest] # Skill!Absent
      /\ ~Skill!Blank(BuiltinDir[d][Skill!Manifest].text)
  BY SkillConstants
<1>3. Skill!Copied(BuiltinDir[d], disk[d])[Skill!Manifest] = BuiltinDir[d][Skill!Manifest]
  BY <1>2 DEF Skill!Copied
<1>4. Skill!Copied(BuiltinDir[d], disk[d]) \in [Skill!Files -> Bodies]
  BY <1>1, <1>2 DEF Skill!Copied
<1> QED
  BY <1>2, <1>3, <1>4

LEMMA SkillsAreCopied ==
  ASSUME Skill!LibraryAssumption, SkillInv, Skill!SyncBuiltin
  PROVE  SkillInv'
<1>1. /\ worker = "syncing" /\ worker' = "exporting" /\ rootMade' = TRUE
      /\ disk' = [d \in Skills |-> IF d \in Builtin THEN Skill!Copied(BuiltinDir[d], disk[d]) ELSE disk[d]]
      /\ touched' = touched \cup UNION {Skill!Watching(d) : d \in Builtin}
      /\ silent' = (silent \/ disk' # disk)
      /\ UNCHANGED <<hasCLI, timer, reload, catalog, overlapped, step, skillRequest, content, misled>>
  BY DEF Skill!SyncBuiltin
<1>2. rootMade = TRUE
  BY <1>1 DEF SkillInv, SkillTypes, StartsAlone, Loaded
<1>3. SkillTypes'
  <2>1. \A d \in Skills : disk'[d] \in [Skill!Files -> Bodies]
    BY <1>1, CopiesAreWhole DEF SkillInv, SkillTypes
  <2> QED
    BY <1>1, <2>1 DEF SkillInv, SkillTypes
<1>4. ASSUME NEW c \in Callers PROVE Prepared(c)'
  <2>1. CASE step[c] # "write"
    BY <1>1, <2>1 DEF SkillInv, Prepared
  <2>2. CASE step[c] = "write" /\ skillRequest[c].skill \in Builtin
    <3>1. c \in touched'
      BY <1>1, <2>2 DEF Skill!Watching
    <3> QED
      BY <1>1, <2>2, <3>1 DEF SkillInv, Prepared
  <2>3. CASE step[c] = "write" /\ skillRequest[c].skill \notin Builtin
    <3>1. skillRequest[c].skill \in Skills
      BY <2>3, RequestShape DEF SkillInv, SkillTypes
    <3>2. disk'[skillRequest[c].skill] = disk[skillRequest[c].skill]
      BY <1>1, <2>3, <3>1
    <3>3. Retains(c)' <=> Retains(c)
      BY <1>1, <3>2 DEF Retains, Skill!Asks
    <3> QED
      BY <1>1, <2>3, <3>3 DEF SkillInv, Prepared
  <2> QED
    BY <2>1, <2>2, <2>3
<1>5. BlanksAreCut'
  <2> SUFFICES ASSUME NEW d \in Skills, disk'[d][Skill!Manifest] # Skill!Absent, Skill!Blank(disk'[d][Skill!Manifest].text)
               PROVE  FALSE
    BY DEF BlanksAreCut
  <2>1. CASE d \in Builtin
    BY <1>1, <2>1, CopiesAreWhole
  <2>2. CASE d \notin Builtin
    BY <1>1, <2>2 DEF SkillInv, BlanksAreCut
  <2> QED
    BY <2>1, <2>2
<1>6. StartsAlone'
  BY <1>1 DEF SkillInv, StartsAlone, Loaded
<1>7. CatalogFollows'
  <2>1. CASE silent'
    BY <1>1, <2>1 DEF SkillInv, CatalogFollows
  <2>2. CASE disk' = disk /\ ~silent
    <3>1. Skill!ScanOfDisk' = Skill!ScanOfDisk
      BY <1>1, <1>2, <2>2, ScanStays
    <3>2. Due' = Due
      BY <1>1 DEF Due
    <3> QED
      BY <1>1, <2>2, <3>1, <3>2 DEF SkillInv, CatalogFollows, Scanned, Loaded
  <2> QED
    BY <1>1, <2>1, <2>2
<1> QED
  BY <1>3, <1>4, <1>5, <1>6, <1>7 DEF SkillInv

(* What is left of a file whose copy stops is a file.                      *)
LEMMA PiecesAreFiles ==
  ASSUME Skill!LibraryAssumption, NEW source \in [Skill!Files -> Bodies], NEW target \in [Skill!Files -> Bodies],
         NEW files \in Skill!PartlyCopied(source, target)
  PROVE  files \in [Skill!Files -> Bodies]
<1>1. ASSUME NEW f \in Skill!Files, NEW x \in Skill!Remains(f, source[f]) PROVE x \in Bodies
  <2>1. source[f] \in Bodies
    BY <1>1
  <2>2. source[f].text \in Seq(Marked) /\ Len(source[f].text) \in Nat
        /\ source[f].name \in Skills \cup {Skill!NoName} /\ source[f].loads \in BOOLEAN
    <3>1. source[f] \in [name : Skills \cup {Skill!NoName}, loads : BOOLEAN, text : Seq(Marked)]
      BY <2>1 DEF Bodies, Skill!FileContents, Marked
    <3>2. source[f].text \in Seq(Marked)
      BY <3>1
    <3> QED
      BY <3>1, <3>2
  <2>3. CASE x \in {Skill!Truncated, Skill!CutHeader}
    BY <2>3, SkillConstants
  <2>4. CASE x \in {[source[f] EXCEPT !.text = SubSeq(source[f].text, 1, n)] : n \in 0..(Len(source[f].text) - 1)}
    <3>1. PICK n \in 0..(Len(source[f].text) - 1) : x = [source[f] EXCEPT !.text = SubSeq(source[f].text, 1, n)]
      BY <2>4
    <3>2. n \in Nat /\ n <= Len(source[f].text)
      BY <2>2, <3>1
    <3>3. SubSeq(source[f].text, 1, n) \in Seq(Marked)
      BY <2>2, <3>2
    <3> QED
      BY <2>1, <2>2, <3>1, <3>3 DEF Bodies, Skill!FileContents, Marked
  <2> QED
    BY <1>1, <2>3, <2>4 DEF Skill!Remains
<1>2. ASSUME NEW f \in Skill!Files, NEW x \in Skill!Interrupted(f, source, target) PROVE x \in Bodies
  BY <1>1, <1>2 DEF Skill!Interrupted
<1>3. Skill!Copied(source, target) \in [Skill!Files -> Bodies]
  BY DEF Skill!Copied
<1>4. Skill!Manifest \in Skill!Files /\ Skill!Support \in Skill!Files
  BY SkillConstants
<1> QED
  BY <1>2, <1>3, <1>4 DEF Skill!PartlyCopied

(* A copy of the built-in skills that stops: where it stops the document   *)
(* is there in full, or the skill is marked as cut.                        *)
LEMMA CopiesAreMarked ==
  ASSUME Skill!LibraryAssumption, SkillInv, NEW d \in Builtin, NEW done \in SUBSET (Builtin \ {d}),
         Skill!CopyStops(d, done)
  PROVE  /\ worker = "syncing" /\ rootMade' = TRUE /\ rootMade = TRUE
         /\ disk' \in [Skills -> [Skill!Files -> Bodies]]
         /\ \A e \in Skills \ (done \cup {d}) : disk'[e] = disk[e]
         /\ BlanksAreCut'
<1>1. PICK files \in Skill!PartlyCopied(BuiltinDir[d], disk[d]) :
        /\ disk' = [e \in Skills |-> IF e = d THEN files
                                     ELSE IF e \in done THEN Skill!Copied(BuiltinDir[e], disk[e]) ELSE disk[e]]
        /\ cut' = (cut \ (done \cup {d})) \cup
                     (IF files[Skill!Manifest] = BuiltinDir[d][Skill!Manifest] THEN {} ELSE {d})
  BY DEF Skill!CopyStops
<1>2. worker = "syncing" /\ rootMade' = TRUE /\ rootMade = TRUE
  BY DEF Skill!CopyStops, SkillInv, SkillTypes, StartsAlone, Loaded
<1>3. d \in Skills /\ done \subseteq Builtin \ {d} /\ Builtin \subseteq Skills
  BY DEF Skill!LibraryAssumption
<1>4. files \in [Skill!Files -> Bodies]
  <2>1. BuiltinDir[d] \in [Skill!Files -> Bodies]
    BY SkillConstants
  <2>2. disk[d] \in [Skill!Files -> Bodies]
    BY <1>3 DEF SkillInv, SkillTypes
  <2> QED
    BY <2>1, <2>2, PiecesAreFiles
<1>5. disk' \in [Skills -> [Skill!Files -> Bodies]]
  <2>1. \A e \in Skills : disk'[e] \in [Skill!Files -> Bodies]
    BY <1>1, <1>3, <1>4, CopiesAreWhole DEF SkillInv, SkillTypes
  <2> QED
    BY <1>1, <2>1
<1>6. \A e \in Skills \ (done \cup {d}) : disk'[e] = disk[e]
  BY <1>1
<1>7. BlanksAreCut'
  <2> SUFFICES ASSUME NEW e \in Skills, disk'[e][Skill!Manifest] # Skill!Absent,
                      Skill!Blank(disk'[e][Skill!Manifest].text)
               PROVE  e \in Builtin /\ e \in cut'
    BY DEF BlanksAreCut
  <2>1. CASE e = d
    <3>1. disk'[e] = files
      BY <1>1, <2>1
    <3>2. files[Skill!Manifest] # BuiltinDir[d][Skill!Manifest]
      BY <3>1, SkillConstants
    <3> QED
      BY <1>1, <2>1, <3>2
  <2>2. CASE e \in done
    <3>1. e \in Builtin /\ disk'[e] = Skill!Copied(BuiltinDir[e], disk[e])
      BY <1>1, <1>3, <2>2
    <3> QED
      BY <3>1, CopiesAreWhole
  <2>3. CASE e \notin done \cup {d}
    <3>1. e \in Builtin /\ e \in cut
      BY <1>6, <2>3 DEF SkillInv, BlanksAreCut
    <3> QED
      BY <1>1, <2>3, <3>1
  <2> QED
    BY <2>1, <2>2, <2>3
<1> QED
  BY <1>2, <1>5, <1>6, <1>7

LEMMA SyncStops ==
  ASSUME Skill!LibraryAssumption, SkillInv, NEW d \in Builtin, NEW done \in SUBSET (Builtin \ {d}),
         Skill!SyncFails(d, done)
  PROVE  SkillInv'
<1>1. /\ worker' = "exporting"
      /\ touched' = touched \cup UNION {Skill!Watching(e) : e \in done \cup {d}}
      /\ silent' = (silent \/ disk' # disk)
      /\ UNCHANGED <<timer, reload, catalog, overlapped, step, skillRequest, content, misled>>
  BY DEF Skill!SyncFails
<1>2. /\ worker = "syncing" /\ rootMade' = TRUE /\ rootMade = TRUE
      /\ disk' \in [Skills -> [Skill!Files -> Bodies]]
      /\ \A e \in Skills \ (done \cup {d}) : disk'[e] = disk[e]
      /\ BlanksAreCut'
  BY CopiesAreMarked DEF Skill!SyncFails
<1>3. SkillTypes'
  BY <1>1, <1>2 DEF SkillInv, SkillTypes
<1>4. ASSUME NEW c \in Callers PROVE Prepared(c)'
  <2>1. CASE step[c] # "write"
    BY <1>1, <2>1 DEF SkillInv, Prepared
  <2>2. CASE step[c] = "write" /\ skillRequest[c].skill \in done \cup {d}
    <3>1. c \in touched'
      BY <1>1, <2>2 DEF Skill!Watching
    <3> QED
      BY <1>1, <2>2, <3>1 DEF SkillInv, Prepared
  <2>3. CASE step[c] = "write" /\ skillRequest[c].skill \notin done \cup {d}
    <3>1. skillRequest[c].skill \in Skills
      BY <2>3, RequestShape DEF SkillInv, SkillTypes
    <3>2. disk'[skillRequest[c].skill] = disk[skillRequest[c].skill]
      BY <1>2, <2>3, <3>1
    <3>3. Retains(c)' <=> Retains(c)
      BY <1>1, <3>2 DEF Retains, Skill!Asks
    <3> QED
      BY <1>1, <2>3, <3>3 DEF SkillInv, Prepared
  <2> QED
    BY <2>1, <2>2, <2>3
<1>5. StartsAlone'
  BY <1>1, <1>2 DEF SkillInv, StartsAlone, Loaded
<1>6. CatalogFollows'
  <2>1. CASE silent'
    BY <1>1, <2>1 DEF SkillInv, CatalogFollows
  <2>2. CASE disk' = disk /\ ~silent
    <3>1. Skill!ScanOfDisk' = Skill!ScanOfDisk
      BY <1>2, <2>2, ScanStays
    <3>2. Due' = Due
      BY <1>1 DEF Due
    <3> QED
      BY <1>1, <1>2, <2>2, <3>1, <3>2 DEF SkillInv, CatalogFollows, Scanned, Loaded
  <2> QED
    BY <1>1, <2>1, <2>2
<1> QED
  BY <1>2, <1>3, <1>4, <1>5, <1>6 DEF SkillInv

(* The steps of a start, and the crashes.                                  *)
LEMMA WorkerMoves ==
  ASSUME Skill!LibraryAssumption, SkillInv,
         \/ Skill!StartSteps \/ Skill!WorkerCrashes
         \/ \E d \in Builtin : \E done \in SUBSET (Builtin \ {d}) : Skill!SyncFails(d, done) \/ Skill!CrashInSync(d, done)
         \/ \E d \in dirs : \E done \in SUBSET (dirs \ {d}) : Skill!ExportFails(d, done)
  PROVE  SkillInv'
<1>1. CASE Skill!WorkerStarts
  <2>1. /\ worker = "down" /\ worker' = "loading"
        /\ UNCHANGED <<cut, rootMade, disk, step, skillRequest, content, timer, reload, catalog, misled, touched,
                       silent, overlapped>>
    BY <1>1 DEF Skill!WorkerStarts, Skill!callVars
  <2>2. SkillTypes' /\ BlanksAreCut' /\ StartsAlone' /\ CatalogFollows'
    BY <2>1 DEF SkillInv, SkillTypes, BlanksAreCut, StartsAlone, CatalogFollows, Loaded
  <2> QED
    BY <2>1, <2>2, CallsStand
<1>2. CASE Skill!LoadCatalog /\ Skill!ScanOfDisk # Skill!Broken
  <2>1. /\ worker = "loading" /\ worker' = "syncing" /\ catalog' = Skill!ScanOfDisk
        /\ UNCHANGED <<cut, rootMade, disk, step, skillRequest, content, timer, reload, misled, touched>>
    BY <1>2 DEF Skill!LoadCatalog, Skill!callVars
  <2>2. rootMade
    BY <1>2 DEF Skill!ScanOfDisk
  <2>3. Skill!ScanOfDisk' = Skill!ScanOfDisk
    BY <2>1, ScanStays
  <2>4. \A i \in Skill!Runs : reload'[i].at = "idle"
    BY <2>1 DEF SkillInv, StartsAlone
  <2>5. SkillTypes' /\ BlanksAreCut' /\ StartsAlone'
    BY <2>1, <2>2 DEF SkillInv, SkillTypes, BlanksAreCut, StartsAlone, Loaded
  <2>6. CatalogFollows'
    BY <2>1, <2>3, <2>4 DEF CatalogFollows, Scanned
  <2> QED
    BY <2>1, <2>5, <2>6, CallsStand
<1>3. CASE Skill!LoadCatalog /\ Skill!ScanOfDisk = Skill!Broken
  <2>1. Skill!Dies /\ UNCHANGED <<cut, rootMade, disk>>
    BY <1>3 DEF Skill!LoadCatalog
  <2>2. BlanksAreCut' /\ disk' \in [Skills -> [Skill!Files -> Bodies]] /\ rootMade' \in BOOLEAN
    BY <2>1 DEF SkillInv, SkillTypes, BlanksAreCut, Skill!Dies
  <2> QED
    BY <2>1, <2>2, WorkerDies
<1>4. CASE Skill!SyncNothing
  <2>1. /\ worker = "syncing" /\ worker' = "up" /\ ~hasCLI
        /\ UNCHANGED <<cut, rootMade, disk, step, skillRequest, content, timer, reload, catalog, misled, touched,
                       silent, overlapped>>
    BY <1>4 DEF Skill!SyncNothing, Skill!callVars
  <2>2. SkillTypes' /\ BlanksAreCut' /\ StartsAlone'
    BY <2>1 DEF SkillInv, SkillTypes, BlanksAreCut, StartsAlone, Loaded
  <2>3. Skill!ScanOfDisk' = Skill!ScanOfDisk /\ Due' = Due
    BY <2>1, ScanStays DEF Due
  <2>4. CatalogFollows'
    BY <2>1, <2>3 DEF SkillInv, CatalogFollows, Scanned, Loaded
  <2> QED
    BY <2>1, <2>2, <2>4, CallsStand
<1>5. CASE Skill!ExportToCLIs \/ \E d \in dirs : \E done \in SUBSET (dirs \ {d}) : Skill!ExportFails(d, done)
  <2>1. /\ worker = "exporting" /\ worker' = "up"
        /\ UNCHANGED <<cut, rootMade, disk, step, skillRequest, content, timer, reload, catalog, misled, touched,
                       silent, overlapped>>
    BY <1>5 DEF Skill!ExportToCLIs, Skill!ExportFails, Skill!callVars
  <2>2. SkillTypes' /\ BlanksAreCut' /\ StartsAlone'
    BY <2>1 DEF SkillInv, SkillTypes, BlanksAreCut, StartsAlone, Loaded
  <2>3. Skill!ScanOfDisk' = Skill!ScanOfDisk /\ Due' = Due
    BY <2>1, ScanStays DEF Due
  <2>4. CatalogFollows'
    BY <2>1, <2>3 DEF SkillInv, CatalogFollows, Scanned, Loaded
  <2> QED
    BY <2>1, <2>2, <2>4, CallsStand
<1>6. CASE Skill!WorkerCrashes
  <2>1. Skill!Dies /\ UNCHANGED <<cut, rootMade, disk>>
    BY <1>6 DEF Skill!WorkerCrashes
  <2>2. BlanksAreCut' /\ disk' \in [Skills -> [Skill!Files -> Bodies]] /\ rootMade' \in BOOLEAN
    BY <2>1 DEF SkillInv, SkillTypes, BlanksAreCut, Skill!Dies
  <2> QED
    BY <2>1, <2>2, WorkerDies
<1>7. ASSUME NEW d \in Builtin, NEW done \in SUBSET (Builtin \ {d}), Skill!CrashInSync(d, done) PROVE SkillInv'
  <2>1. Skill!Dies /\ Skill!CopyStops(d, done)
    BY <1>7 DEF Skill!CrashInSync
  <2>2. BlanksAreCut' /\ disk' \in [Skills -> [Skill!Files -> Bodies]] /\ rootMade' \in BOOLEAN
    BY <2>1, CopiesAreMarked
  <2> QED
    BY <2>1, <2>2, WorkerDies
<1>8. CASE Skill!SyncBuiltin
  BY <1>8, SkillsAreCopied
<1>9. ASSUME NEW d \in Builtin, NEW done \in SUBSET (Builtin \ {d}), Skill!SyncFails(d, done) PROVE SkillInv'
  BY <1>9, SyncStops
<1> QED
  BY <1>1, <1>2, <1>3, <1>4, <1>5, <1>6, <1>7, <1>8, <1>9 DEF Skill!StartSteps

(* The invariant of the skills holds what the checks ask of the catalog.   *)
LEMMA SkillInvHolds == SkillInv => Skill!CatalogHolds
<1> SUFFICES ASSUME SkillInv PROVE Skill!DocumentsWhole /\ Skill!StaleIsExplained
  BY DEF Skill!CatalogHolds
<1>1. Skill!DocumentsWhole
  BY DEF SkillInv, BlanksAreCut, Skill!DocumentsWhole
<1>2. Skill!StaleIsExplained
  <2> SUFFICES ASSUME worker = "up", Skill!ScanOfDisk # Skill!Broken, timer # "armed",
                      \A i \in Skill!Runs : reload[i] = Skill!NoRun, \A c \in Callers : step[c] # "after",
                      ~silent, ~overlapped
               PROVE  catalog = Skill!ScanOfDisk
    BY DEF Skill!StaleIsExplained
  <2>1. \A i \in Skill!Runs : reload[i].at = "idle"
    BY DEF Skill!NoRun
  <2> QED
    BY <2>1 DEF SkillInv, CatalogFollows, Scanned, Due, Loaded
<1> QED
  BY <1>1, <1>2

LEMMA SkillStepKeeps == ASSUME Skill!LibraryAssumption, SkillInv, Skill!Next PROVE SkillInv'
<1>1. CASE \E c \in Callers : (\E r \in Skill!Requests : Skill!Execute(c, r)) \/ Skill!CallSteps(c)
  BY <1>1, CallsLook, CallsWrite DEF Skill!CallSteps
<1>2. CASE \E i \in Skill!Runs : Skill!PostSteps(i)
  BY <1>2, RunsReload
<1>3. CASE \/ Skill!StartSteps \/ Skill!WorkerCrashes
           \/ \E d \in Builtin : \E done \in SUBSET (Builtin \ {d}) : Skill!SyncFails(d, done) \/ Skill!CrashInSync(d, done)
           \/ \E d \in dirs : \E done \in SUBSET (dirs \ {d}) : Skill!ExportFails(d, done)
  BY <1>3, WorkerMoves
<1> QED
  BY <1>1, <1>2, <1>3 DEF Skill!Next

LEMMA SkillStutters == ASSUME SkillInv, UNCHANGED Skill!skillVars PROVE SkillInv'
<1>1. /\ UNCHANGED <<cut, rootMade, disk, step, skillRequest, content, timer, reload, catalog, misled, touched,
                     silent, overlapped, worker>>
      /\ Skill!ScanOfDisk' = Skill!ScanOfDisk
  BY ScanStays DEF Skill!skillVars
<1>2. SkillTypes' /\ BlanksAreCut' /\ StartsAlone' /\ CatalogFollows'
  BY <1>1 DEF SkillInv, SkillTypes, BlanksAreCut, StartsAlone, CatalogFollows, Scanned, Due
<1> QED
  BY <1>1, <1>2, CallsStand

(* TextLeavesKnowingly, of one step.                                       *)
TextLeaves ==
  \A d \in Skills, f \in Skill!Files, x \in Fragments : Skill!Lost(d, f, x) =>
    \/ \E c \in Callers :
         /\ step[c] \in {"write", "remove"}
         /\ skillRequest[c].skill = d /\ skillRequest[c].file = f
         /\ \/ Skill!Asks(c, x)
            \/ c \in touched
            \/ skillRequest[c].op = "create" /\ c \in misled
    \/ d \in Builtin /\ worker = "syncing"

LEMMA StepLeavesKnowingly ==
  ASSUME Skill!LibraryAssumption, SkillInv, [Skill!Next]_(Skill!skillVars) PROVE TextLeaves
<1> SUFFICES ASSUME NEW d \in Skills, NEW f \in Skill!Files, NEW x \in Fragments, Skill!Lost(d, f, x)
             PROVE  \/ \E c \in Callers :
                         /\ step[c] \in {"write", "remove"}
                         /\ skillRequest[c].skill = d /\ skillRequest[c].file = f
                         /\ \/ Skill!Asks(c, x)
                            \/ c \in touched
                            \/ skillRequest[c].op = "create" /\ c \in misled
                    \/ d \in Builtin /\ worker = "syncing"
  BY DEF TextLeaves
<1>1. /\ x \in Skill!ToSet(disk[d][f].text) /\ x \notin Skill!ToSet(disk'[d][f].text)
      /\ disk'[d][f] # disk[d][f]
  BY DEF Skill!Lost
<1>2. ASSUME NEW c \in Callers, Skill!AtomicWrite(c)
      PROVE  /\ step[c] = "write" /\ skillRequest[c].skill = d /\ skillRequest[c].file = f
             /\ Skill!Asks(c, x) \/ c \in touched \/ (skillRequest[c].op = "create" /\ c \in misled)
  <2>1. step[c] = "write" /\ disk' = [disk EXCEPT ![skillRequest[c].skill][skillRequest[c].file] = content[c]]
    BY <1>2 DEF Skill!AtomicWrite
  <2>2. skillRequest[c].skill = d /\ skillRequest[c].file = f /\ disk'[d][f] = content[c]
    BY <1>1, <2>1 DEF SkillInv, SkillTypes
  <2> QED
    BY <1>1, <2>1, <2>2 DEF SkillInv, Prepared, Retains
<1>3. ASSUME NEW c \in Callers, Skill!RemoveFile(c)
      PROVE  /\ step[c] = "remove" /\ skillRequest[c].skill = d /\ skillRequest[c].file = f
             /\ Skill!Asks(c, x)
  <2>1. step[c] = "remove" /\ skillRequest[c].op = "remove_file" /\ skillRequest[c] \in Skill!Requests
    BY <1>3 DEF Skill!RemoveFile, SkillInv, SkillTypes, Prepared
  <2>2. skillRequest[c].file = Skill!Support
    BY <2>1, RequestShape
  <2>3. disk' = [disk EXCEPT ![skillRequest[c].skill][Skill!Support] = Skill!Absent]
    BY <1>1, <1>3 DEF Skill!RemoveFile
  <2>4. skillRequest[c].skill = d /\ f = Skill!Support
    BY <1>1, <2>3 DEF SkillInv, SkillTypes
  <2> QED
    BY <2>1, <2>2, <2>4 DEF Skill!Asks
<1>4. CASE Skill!SyncBuiltin
  <2>1. worker = "syncing"
        /\ disk' = [e \in Skills |-> IF e \in Builtin THEN Skill!Copied(BuiltinDir[e], disk[e]) ELSE disk[e]]
    BY <1>4 DEF Skill!SyncBuiltin
  <2> QED
    BY <1>1, <2>1
<1>5. ASSUME NEW e \in Builtin, NEW done \in SUBSET (Builtin \ {e}), Skill!CopyStops(e, done)
      PROVE  d \in Builtin /\ worker = "syncing"
  <2>1. worker = "syncing" /\ \A b \in Skills \ (done \cup {e}) : disk'[b] = disk[b]
    BY <1>5, CopiesAreMarked
  <2> QED
    BY <1>1, <2>1
<1>6. ASSUME NEW c \in Callers,
             \/ \E r \in Skill!Requests : Skill!Execute(c, r)
             \/ Skill!CreateLooks(c) \/ Skill!PatchLooks(c) \/ Skill!WriteFileLooks(c)
             \/ Skill!RemoveFileLooks(c) \/ Skill!WriteFails(c) \/ Skill!AfterMutation(c)
      PROVE  disk' = disk
  BY <1>6 DEF Skill!Execute, Skill!CreateLooks, Skill!PatchLooks, Skill!WriteFileLooks, Skill!RemoveFileLooks,
              Skill!WriteFails, Skill!AfterMutation
<1>7. ASSUME NEW i \in Skill!Runs, Skill!PostSteps(i) PROVE disk' = disk
  BY <1>7 DEF Skill!PostSteps, Skill!TimerFires, Skill!ReloadScans, Skill!ReloadStores
<1>8. \/ Skill!WorkerStarts \/ Skill!LoadCatalog \/ Skill!SyncNothing \/ Skill!ExportToCLIs \/ Skill!WorkerCrashes
      \/ \E e \in dirs : \E done \in SUBSET (dirs \ {e}) : Skill!ExportFails(e, done)
      \/ UNCHANGED Skill!skillVars
      => disk' = disk
  BY DEF Skill!WorkerStarts, Skill!LoadCatalog, Skill!SyncNothing, Skill!ExportToCLIs, Skill!ExportFails, Skill!WorkerCrashes,
         Skill!skillVars
<1> QED
  BY <1>1, <1>2, <1>3, <1>4, <1>5, <1>6, <1>7, <1>8
     DEF Skill!Next, Skill!CallSteps, Skill!StartSteps, Skill!SyncFails, Skill!CrashInSync

LEMMA SkillInvStands == ASSUME Skill!LibraryAssumption PROVE Skill!Spec => []SkillInv
<1>1. SkillInv /\ [Skill!Next]_(Skill!skillVars) => SkillInv'
  BY SkillStepKeeps, SkillStutters
<1> QED
  BY <1>1, SkillBegins, PTL DEF Skill!Spec

-----------------------------------------------------------------------------
(* Each part of the records moves by its own steps, and stands while       *)
(* another one moves.                                                      *)
LEMMA SessionSteps == [Next]_vars => [Session!Next]_(Session!vars)
<1>1. CASE UNCHANGED vars
  BY <1>1 DEF vars, sessionVars, Session!vars
<1>2. CASE Next
  BY <1>2
     DEF Next, SessionMoves, SkillMoves, RegistryMoves, SchedulerMoves, MemoryMoves,
         AuthMoves, AssistantMoves, BrokerMoves, sessionVars, Session!vars
<1> QED
  BY <1>1, <1>2

LEMMA RegistrySteps == [Next]_vars => [Registry!Next]_(Registry!vars)
<1>1. CASE UNCHANGED vars
  BY <1>1 DEF vars, registryVars, Registry!vars, Registry!conns, Registry!requests
<1>2. CASE Next
  BY <1>2
     DEF Next, SessionMoves, SkillMoves, RegistryMoves, SchedulerMoves, MemoryMoves,
         AuthMoves, AssistantMoves, BrokerMoves, registryVars, Registry!vars, Registry!conns, Registry!requests
<1> QED
  BY <1>1, <1>2

LEMMA SchedulerSteps == [Next]_vars => [Scheduler!Next]_(Scheduler!vars)
<1>1. CASE UNCHANGED vars
  BY <1>1 DEF vars, schedulerVars, Scheduler!vars
<1>2. CASE Next
  BY <1>2
     DEF Next, SessionMoves, SkillMoves, RegistryMoves, SchedulerMoves, MemoryMoves,
         AuthMoves, AssistantMoves, BrokerMoves, schedulerVars, Scheduler!vars
<1> QED
  BY <1>1, <1>2

LEMMA MemorySteps == [Next]_vars => [Memory!Next]_(Memory!memoryVars)
<1>1. CASE UNCHANGED vars
  BY <1>1 DEF vars, memoryVars, Memory!memoryVars
<1>2. CASE Next
  BY <1>2
     DEF Next, SessionMoves, SkillMoves, RegistryMoves, SchedulerMoves, MemoryMoves,
         AuthMoves, AssistantMoves, BrokerMoves, memoryVars, Memory!memoryVars
<1> QED
  BY <1>1, <1>2

LEMMA AssistantSteps == [Next]_vars => [Assistant!Next]_(Assistant!vars)
<1>1. CASE UNCHANGED vars
  BY <1>1 DEF vars, assistantVars, Assistant!vars
<1>2. CASE Next
  BY <1>2
     DEF Next, SessionMoves, SkillMoves, RegistryMoves, SchedulerMoves, MemoryMoves,
         AuthMoves, AssistantMoves, BrokerMoves, assistantVars, Assistant!vars
<1> QED
  BY <1>1, <1>2

LEMMA AuthSteps == [Next]_vars => [Auth!Next]_(Auth!vars)
<1>1. CASE UNCHANGED vars
  BY <1>1 DEF vars, authVars, Auth!vars
<1>2. CASE Next
  BY <1>2
     DEF Next, SessionMoves, SkillMoves, RegistryMoves, SchedulerMoves, MemoryMoves,
         AuthMoves, AssistantMoves, BrokerMoves, authVars, Auth!vars
<1> QED
  BY <1>1, <1>2

LEMMA BrokerSteps == [Next]_vars => [Broker!Next]_(Broker!vars)
<1>1. CASE UNCHANGED vars
  BY <1>1 DEF vars, brokerVars, Broker!vars
<1>2. CASE Next
  BY <1>2
     DEF Next, SessionMoves, SkillMoves, RegistryMoves, SchedulerMoves, MemoryMoves,
         AuthMoves, AssistantMoves, BrokerMoves, brokerVars, Broker!vars
<1> QED
  BY <1>1, <1>2

LEMMA SkillSteps == [Next]_vars => [Skill!Next]_(Skill!skillVars)
BY DEF Next, vars, skillVars, Skill!skillVars, SessionMoves, SkillMoves, RegistryMoves, SchedulerMoves, MemoryMoves,
       AuthMoves, AssistantMoves, BrokerMoves

(* A message sorts after those that were there when its number was taken,  *)
(* whoever adds and deletes at the time (AddMessage).                      *)
THEOREM MessagesSortInOrder == Spec => []SeenSortsBefore
<1>1. Init => Session!Init
  BY DEF Init
<1>2. Spec => Session!Spec
  BY <1>1, SessionSteps, PTL DEF Spec, Session!Spec
<1>3. Session!Spec => []Session!SeenSortsBefore
  BY RecordsAssumption, Session!MessagesSortInOrder DEF RecordsAssumption
<1> QED
  BY <1>2, <1>3, PTL DEF SeenSortsBefore

(* The row of a session at rest counts the messages of the user since it   *)
(* was cleared, short of those that a failed AddMessage stored and did not *)
(* count, unless rows were saved over each other.                          *)
THEOREM SessionCounts == Spec => []CountMatches
<1>1. Init => Session!Init
  BY DEF Init
<1>2. Spec => Session!Spec
  BY <1>1, SessionSteps, PTL DEF Spec, Session!Spec
<1>3. Session!Spec => []Session!CountMatches
  BY RecordsAssumption, Session!SessionCounts DEF RecordsAssumption
<1> QED
  BY <1>2, <1>3, PTL DEF CountMatches

(* What one call of the session or the assistant service has written is    *)
(* undone by another only when that one had read the row before: a title   *)
(* given by hand, an ended session, a deleted row, the code of a live      *)
(* assistant, its status and its text.                                     *)
THEOREM StaleCallsUndo == Spec => OnlyStaleCallsUndo
<1>1. Init => Session!Init /\ Assistant!Init
  BY DEF Init
<1>2. Spec => Session!Spec
  BY <1>1, SessionSteps, PTL DEF Spec, Session!Spec
<1>3. Spec => Assistant!Spec
  BY <1>1, AssistantSteps, PTL DEF Spec, Assistant!Spec
<1>4. Session!Spec => Session!OnlyStaleCallsUndo
  BY RecordsAssumption, Session!StaleCallsUndo DEF RecordsAssumption
<1>5. Assistant!Spec => Assistant!OnlyStaleCallsUndo
  BY RecordsAssumption, AssistantsUndo DEF RecordsAssumption
<1> QED
  BY <1>2, <1>3, <1>4, <1>5 DEF OnlyStaleCallsUndo

(* A connection that works stays in the table of workers, and what is in   *)
(* the table can be sent to, whatever older connections of the same worker *)
(* still do (unregisterWorker).                                            *)
THEOREM WorkersAreReachable == Spec => []WorkersStayReachable
<1>1. Init => Registry!Init
  BY DEF Init
<1>2. Spec => Registry!SafeSpec
  BY <1>1, RegistrySteps, PTL DEF Spec, Registry!SafeSpec
<1>3. Registry!SafeSpec => []Registry!WorkersStayReachable
  BY RecordsAssumption, RegistryReaches DEF RecordsAssumption
<1> QED
  BY <1>2, <1>3, PTL DEF WorkersStayReachable

(* A process that runs and was not told to stop can be listed and stopped, *)
(* whatever the monitors of older processes remove by id, if its id was    *)
(* started once.                                                           *)
THEOREM SoleProcessIsManaged == Spec => []SoleIsManaged
<1>1. Init => Scheduler!Init
  BY DEF Init
<1>2. Spec => Scheduler!SafeSpec
  BY <1>1, SchedulerSteps, PTL DEF Spec, Scheduler!SafeSpec
<1>3. Scheduler!SafeSpec => []Scheduler!SoleIsManaged
  BY RecordsAssumption, SchedulerManagesSole DEF RecordsAssumption
<1> QED
  BY <1>2, <1>3, PTL DEF SoleIsManaged

(* mutate: no call of the memory tool loses the change of another, however *)
(* many share the directory and whichever of them die.                     *)
THEOREM NoUpdateIsLost == Spec => NoLostUpdate
<1>1. Init => Memory!Init
  BY DEF Init
<1>2. Spec => Memory!SafeSpec
  BY <1>1, MemorySteps, PTL DEF Spec, Memory!SafeSpec
<1>3. Memory!SafeSpec => Memory!NoLostUpdate
  BY RecordsAssumption, MemoryLosesNothing DEF RecordsAssumption
<1> QED
  BY <1>2, <1>3, PTL DEF NoLostUpdate

(* A state of the OAuth flow serves one callback, who was told to be       *)
(* authorized has an account to run with, nobody runs with the account of  *)
(* another, and only callbacks that met move a default account or give a   *)
(* GitHub account a second user.                                           *)
THEOREM AuthorizationsAreKept == Spec => AuthorizationsHold
<1>1. Init => Auth!Init
  BY DEF Init
<1>2. Spec => Auth!Spec
  BY <1>1, AuthSteps, PTL DEF Spec, Auth!Spec
<1>3. Auth!Spec => Auth!AuthorizationsHold
  BY RecordsAssumption, AuthKeeps DEF RecordsAssumption
<1> QED
  BY <1>2, <1>3, PTL DEF AuthorizationsHold

(* A start of the server leaves the streams it needs behind and takes none *)
(* of them away, deletes another only where its subjects are, or seem, in  *)
(* the way, and fails only when a request fails, when subjectsOverlap      *)
(* misses the stream that is in the way, or when its name is in use.       *)
THEOREM StreamsAreKept == Spec => StreamsStand
<1>1. Init => Broker!Init
  BY DEF Init
<1>2. Spec => Broker!Spec
  BY <1>1, BrokerSteps, PTL DEF Spec, Broker!Spec
<1>3. Broker!Spec => Broker!StreamsStand
  BY RecordsAssumption, BrokerStands DEF RecordsAssumption
<1> QED
  BY <1>2, <1>3, PTL DEF StreamsStand

(* SkillLibrary: every document has text but for a built-in one of which   *)
(* the last copy stopped, and the catalog of a worker that is up is behind *)
(* the directory only for the known reasons.                               *)
THEOREM CatalogIsKept == Spec => []CatalogHolds
<1>1. Init => Skill!Init
  BY DEF Init
<1>2. Spec => Skill!Spec
  BY <1>1, SkillSteps, PTL DEF Spec, Skill!Spec
<1>3. Skill!LibraryAssumption
  BY RecordsAssumption DEF RecordsAssumption
<1>4. Skill!Spec => []SkillInv
  BY <1>3, SkillInvStands
<1>5. SkillInv => CatalogHolds
  BY SkillInvHolds DEF CatalogHolds
<1> QED
  BY <1>2, <1>4, <1>5, PTL

(* SkillLibrary: text leaves a skill because a call asked for it, or for a *)
(* reason the calls are told apart by.                                     *)
THEOREM TextLeavesForReasons == Spec => TextLeavesKnowingly
<1>1. Init => Skill!Init
  BY DEF Init
<1>2. Spec => Skill!Spec
  BY <1>1, SkillSteps, PTL DEF Spec, Skill!Spec
<1>3. Skill!LibraryAssumption
  BY RecordsAssumption DEF RecordsAssumption
<1>4. Skill!Spec => []SkillInv
  BY <1>3, SkillInvStands
<1>5. SkillInv /\ [Skill!Next]_(Skill!skillVars) => TextLeaves
  BY <1>3, StepLeavesKnowingly
<1>6. Skill!Spec => Skill!TextLeavesKnowingly
  BY <1>4, <1>5, PTL DEF Skill!Spec, Skill!TextLeavesKnowingly, TextLeaves
<1> QED
  BY <1>2, <1>6 DEF TextLeavesKnowingly

(* The rows, the tables, the memory files, the accounts and the assistants *)
(* keep their types and their limits.                                      *)
THEOREM RecordsTypeCorrect == Spec => []TypeOK
<1>1. Init => /\ Session!Init /\ Registry!Init /\ Scheduler!Init
              /\ Memory!Init /\ Auth!Init /\ Assistant!Init
  BY DEF Init
<1>2. Spec => Session!Spec
  BY <1>1, SessionSteps, PTL DEF Spec, Session!Spec
<1>3. Spec => Registry!SafeSpec
  BY <1>1, RegistrySteps, PTL DEF Spec, Registry!SafeSpec
<1>4. Spec => Scheduler!SafeSpec
  BY <1>1, SchedulerSteps, PTL DEF Spec, Scheduler!SafeSpec
<1>5. Spec => Memory!SafeSpec
  BY <1>1, MemorySteps, PTL DEF Spec, Memory!SafeSpec
<1>6. Spec => Auth!Spec
  BY <1>1, AuthSteps, PTL DEF Spec, Auth!Spec
<1>7. Spec => Assistant!Spec
  BY <1>1, AssistantSteps, PTL DEF Spec, Assistant!Spec
<1>8. /\ Session!Spec => []Session!TypeOK
      /\ Registry!SafeSpec => []Registry!TypeOK
      /\ Scheduler!SafeSpec => []Scheduler!TypeOK
      /\ Memory!SafeSpec => []Memory!TypeOK
      /\ Auth!Spec => []Auth!TypeOK
      /\ Assistant!Spec => []Assistant!TypeOK
  BY RecordsAssumption, Session!StoreTypeCorrect, RegistryTypeCorrect, SchedulerTypeCorrect, MemoryTypeCorrect,
     AuthorizationTypeCorrect, AssistantTypeCorrect
     DEF RecordsAssumption
<1>9. /\ Session!TypeOK /\ Registry!TypeOK /\ Scheduler!TypeOK
      /\ Memory!TypeOK /\ Auth!TypeOK /\ Assistant!TypeOK
      => TypeOK
  BY DEF TypeOK
<1> QED
  BY <1>2, <1>3, <1>4, <1>5, <1>6, <1>7, <1>8, <1>9, PTL
=============================================================================
