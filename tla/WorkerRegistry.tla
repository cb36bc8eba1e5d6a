--------------------------- MODULE WorkerRegistry ---------------------------
(***************************************************************************)
(* worker/server: WorkerManager, the server's table of workers connected   *)
(* by WebSocket, and the three goroutines it starts for each connection.   *)
(*                                                                         *)
(* The table's lock s.mu and the connection's lock w.mu are Go RWMutexes:  *)
(* a writer that waits keeps new readers out. Only readPump ever locks     *)
(* w.mu for writing, and what it does under it cannot block, so that lock  *)
(* is modelled by the writer waiting (reader[c] = "lock") and by the read  *)
(* lock writePump holds while SendWSMessage takes the same lock again      *)
(* (writer[c] = "sending"). s.mu is held across steps only by listWorkers. *)
(*                                                                         *)
(* Time is what the timers let happen. A write is taken to last less than  *)
(* the read deadline of 60 seconds and clocks to agree, so LastSeen, whose *)
(* limit is 90 seconds, only grows stale once readPump has given up.       *)
(* Connections are numbered in the order they are made.                    *)
(***************************************************************************)
EXTENDS Naturals

CONSTANTS
  Workers,      \* worker ids
  MaxConns,     \* bound: connections ever made
  MaxMessages,  \* bound: pongs, heartbeats and status messages
  Heartbeats,   \* whether workers send heartbeats (the client here does not)
  MaxListings,  \* bound: calls of listWorkers
  MaxCommands,  \* bound: calls of shutdownWorker
  QueueSize,    \* capacity of w.Send (256 in the code)
  WelcomeMayFail \* whether the welcome message can fail to be written

Conns == 1..MaxConns
None == 0

RegistryAssumption ==
  /\ MaxConns \in Nat /\ MaxMessages \in Nat /\ MaxListings \in Nat
  /\ MaxCommands \in Nat
  /\ QueueSize \in Nat \ {0}
  /\ WelcomeMayFail \in BOOLEAN /\ Heartbeats \in BOOLEAN
  /\ None \notin Workers

VARIABLES
  workers,    \* s.workers: worker id -> connection, or None
  owner,      \* owner[c]: the worker id connection c registered with
  made,       \* connections made so far
  link,       \* the WebSocket: "none", "up" or "down"
  stale,      \* connections whose LastSeen is older than 90 seconds
  queue,      \* messages in w.Send
  closed,     \* connections whose w.Send is closed
  deadline,   \* the socket's write deadline: "unset", "ahead" or "past"
  reader, writer, checker,  \* the goroutines of each connection
  messages,   \* messages that workers have sent
  listing,    \* listWorkers: whether it holds s.mu, what it has left to visit
  command,    \* the connection shutdownWorker has looked up, or None
  calls,      \* calls of listWorkers and of shutdownWorker
  panicked    \* a goroutine without recover panicked: the server is gone

conns == <<owner, made, link, stale, queue, closed, deadline, reader, writer, checker,
           messages>>
requests == <<listing, command, calls>>
vars == <<workers, conns, requests, panicked>>

Init ==
  /\ workers = [i \in Workers |-> None]
  /\ owner = [c \in Conns |-> None]
  /\ made = 0
  /\ link = [c \in Conns |-> "none"]
  /\ stale = {}
  /\ queue = [c \in Conns |-> 0]
  /\ closed = {}
  /\ deadline = [c \in Conns |-> "unset"]
  /\ reader = [c \in Conns |-> "off"]
  /\ writer = [c \in Conns |-> "off"]
  /\ checker = [c \in Conns |-> "off"]
  /\ messages = 0
  /\ listing = [on |-> FALSE, left |-> {}]
  /\ command = None
  /\ calls = [list |-> 0, shutdown |-> 0]
  /\ panicked = FALSE

(* Nobody reads under s.mu, so a writer may have it. *)
TableFree == ~listing.on

(* w.mu lets a reader in: no writer waits for it. *)
ReadableBy(c) == reader[c] # "lock"

-----------------------------------------------------------------------------
(* handleWorkerWebSocket.                                                  *)

(* The worker dials and registers; an entry of the same id is overwritten  *)
(* and its connection left alone. The handler then waits for its request's *)
(* context, which a hijacked connection never cancels.                     *)
Register(i) ==
  LET c == made + 1 IN
  /\ made < MaxConns
  /\ TableFree
  /\ made' = c
  /\ workers' = [workers EXCEPT ![i] = c]
  /\ owner' = [owner EXCEPT ![c] = i]
  /\ \/ /\ link' = [link EXCEPT ![c] = "up"]
        /\ reader' = [reader EXCEPT ![c] = "read"]
        /\ writer' = [writer EXCEPT ![c] = "idle"]
        /\ checker' = [checker EXCEPT ![c] = "tick"]
     \/ /\ WelcomeMayFail      \* returns; no goroutine was started
        /\ link' = [link EXCEPT ![c] = "down"]
        /\ UNCHANGED <<reader, writer, checker>>
  /\ UNCHANGED <<stale, queue, closed, deadline, messages, requests, panicked>>

(* The worker goes away, or the network does. *)
LinkDown(c) ==
  /\ link[c] = "up"
  /\ link' = [link EXCEPT ![c] = "down"]
  /\ UNCHANGED <<workers, owner, made, stale, queue, closed, deadline, reader,
                 writer, checker, messages, requests, panicked>>

(* Mutant: the pong handler only renews the read deadline. *)
LastSeenNotRenewed(c) == FALSE

(* The pong handler renews LastSeen together with the read deadline. *)
LastSeenRenewed(c) == reader[c] # "done"

(* 90 seconds pass without a pong. readPump has left 30 seconds earlier.   *)
GoStale(c) ==
  /\ link[c] # "none"
  /\ c \notin stale
  /\ ~LastSeenRenewed(c)
  /\ stale' = stale \cup {c}
  /\ UNCHANGED <<workers, owner, made, link, queue, closed, deadline, reader,
                 writer, checker, messages, requests, panicked>>

-----------------------------------------------------------------------------
(* unregisterWorker: by id, whichever connection has the entry now.        *)
Unregister(i) ==
  /\ TableFree
  /\ workers' = [workers EXCEPT ![i] = None]
  /\ closed' = IF workers[i] = None THEN closed ELSE closed \cup {workers[i]}

(* readPump: a pong, a heartbeat or a status arrives and wants w.mu.       *)
Receive(c) ==
  /\ reader[c] = "read"
  /\ link[c] = "up"
  /\ messages < MaxMessages
  /\ messages' = messages + 1
  /\ reader' = [reader EXCEPT ![c] = "lock"]
  /\ UNCHANGED <<workers, owner, made, link, stale, queue, closed, deadline,
                 writer, checker, requests, panicked>>

(* The pong handler or handleWorkerMessage under w.mu; a heartbeat is then *)
(* acknowledged: the acknowledgement is dropped when the queue is full and *)
(* a panic when the channel is closed.                                     *)
Handle(c) ==
  /\ reader[c] = "lock"
  /\ writer[c] # "sending"
  /\ reader' = [reader EXCEPT ![c] = "read"]
  /\ \/ stale' = stale \ {c} /\ UNCHANGED <<queue, panicked>>    \* pong
     \/ /\ Heartbeats
        /\ stale' = stale \ {c}
        /\ IF c \in closed
           THEN panicked' = TRUE /\ UNCHANGED queue
           ELSE /\ queue' = [queue EXCEPT ![c] = IF @ < QueueSize THEN @ + 1 ELSE @]
                /\ UNCHANGED panicked
     \/ UNCHANGED <<stale, queue, panicked>>      \* worker_status
  /\ UNCHANGED <<workers, owner, made, link, closed, deadline, writer, checker,
                 messages, requests>>

(* readPump leaves its loop: the link is down, or nobody sends pings any   *)
(* more and the read deadline has passed. It unregisters and closes.       *)
ReaderExits(c) ==
  /\ reader[c] = "read"
  /\ link[c] = "down" \/ writer[c] = "done"
  /\ Unregister(owner[c])
  /\ reader' = [reader EXCEPT ![c] = "done"]
  /\ link' = [link EXCEPT ![c] = "down"]
  /\ UNCHANGED <<owner, made, stale, queue, deadline, writer, checker, messages,
                 requests, panicked>>

(* writePump receives a message and takes w.mu for reading ...             *)
Send(c) ==
  /\ writer[c] = "idle"
  /\ queue[c] > 0
  /\ ReadableBy(c)
  /\ queue' = [queue EXCEPT ![c] = @ - 1]
  /\ writer' = [writer EXCEPT ![c] = "sending"]
  /\ UNCHANGED <<workers, owner, made, link, stale, closed, deadline, reader,
                 checker, messages, requests, panicked>>

(* ... and again inside SendWSMessage, before it writes under whatever     *)
(* deadline the last ping has left.                                        *)
SendLocked(c) ==
  /\ writer[c] = "sending"
  /\ ReadableBy(c)
  /\ writer' = [writer EXCEPT ![c] =
       IF link[c] = "up" /\ deadline[c] # "past" THEN "idle" ELSE "done"]
  /\ UNCHANGED <<workers, owner, made, link, stale, queue, closed, deadline,
                 reader, checker, messages, requests, panicked>>

(* writePump pings every 54 seconds and gives the socket 10 seconds.       *)
Ping(c) ==
  /\ writer[c] = "idle"
  /\ ReadableBy(c)
  /\ link[c] = "up"
  /\ deadline' = [deadline EXCEPT ![c] = "ahead"]
  /\ UNCHANGED <<workers, owner, made, link, stale, queue, closed, reader, writer,
                 checker, messages, requests, panicked>>

DeadlinePasses(c) ==
  /\ deadline[c] = "ahead"
  /\ deadline' = [deadline EXCEPT ![c] = "past"]
  /\ UNCHANGED <<workers, owner, made, link, stale, queue, closed, reader, writer,
                 checker, messages, requests, panicked>>

(* writePump meets the closed, emptied channel and says goodbye, or its    *)
(* ping fails.                                                             *)
WriterExits(c) ==
  /\ writer[c] = "idle"
  /\ \/ c \in closed /\ queue[c] = 0
     \/ link[c] = "down" /\ ReadableBy(c)
  /\ writer' = [writer EXCEPT ![c] = "done"]
  /\ link' = [link EXCEPT ![c] = "down"]
  /\ UNCHANGED <<workers, owner, made, stale, queue, closed, deadline, reader,
                 checker, messages, requests, panicked>>

(* heartbeatChecker: a tick finds LastSeen too old.                        *)
CheckerFires(c) ==
  /\ checker[c] = "tick"
  /\ ReadableBy(c)
  /\ c \in stale
  /\ checker' = [checker EXCEPT ![c] = "late"]
  /\ UNCHANGED <<workers, owner, made, link, stale, queue, closed, deadline,
                 reader, writer, messages, requests, panicked>>

CheckerUnregisters(c) ==
  /\ checker[c] = "late"
  /\ Unregister(owner[c])
  /\ checker' = [checker EXCEPT ![c] = "closing"]
  /\ UNCHANGED <<owner, made, link, stale, queue, deadline, reader, writer,
                 messages, requests, panicked>>

CheckerCloses(c) ==
  /\ checker[c] = "closing"
  /\ checker' = [checker EXCEPT ![c] = "done"]
  /\ link' = [link EXCEPT ![c] = "down"]
  /\ UNCHANGED <<workers, owner, made, stale, queue, closed, deadline, reader,
                 writer, messages, requests, panicked>>

-----------------------------------------------------------------------------
(* listWorkers holds s.mu for reading while it takes every w.mu in turn.   *)
ListStart ==
  /\ ~listing.on
  /\ calls.list < MaxListings
  /\ calls' = [calls EXCEPT !.list = @ + 1]
  /\ listing' = [on |-> TRUE, left |-> {workers[i] : i \in Workers} \ {None}]
  /\ UNCHANGED <<workers, conns, command, panicked>>

ListVisit(c) ==
  /\ c \in listing.left
  /\ ReadableBy(c)
  /\ listing' = [listing EXCEPT !.left = @ \ {c}]
  /\ UNCHANGED <<workers, conns, command, calls, panicked>>

(* Mutant: returns early, without unlocking, when the table is empty. *)
ListEndUnlessEmpty ==
  /\ listing.on /\ listing.left = {}
  /\ \E i \in Workers : workers[i] # None
  /\ listing' = [listing EXCEPT !.on = FALSE]
  /\ UNCHANGED <<workers, conns, command, calls, panicked>>

ListEnd ==
  /\ listing.on /\ listing.left = {}
  /\ listing' = [listing EXCEPT !.on = FALSE]
  /\ UNCHANGED <<workers, conns, command, calls, panicked>>

(* shutdownWorker looks the worker up ...                                  *)
Lookup(i) ==
  /\ command = None
  /\ calls.shutdown < MaxCommands
  /\ calls' = [calls EXCEPT !.shutdown = @ + 1]
  /\ command' = workers[i]
  /\ UNCHANGED <<workers, conns, listing, panicked>>

(* Mutant: the queue is not bounded. *)
CommandUnbounded ==
  /\ command # None
  /\ command' = None
  /\ queue' = [queue EXCEPT ![command] = @ + 1]
  /\ UNCHANGED <<workers, owner, made, link, stale, closed, deadline, reader,
                 writer, checker, messages, listing, calls, panicked>>

(* ... and sends later: a full queue refuses, a channel closed meanwhile   *)
(* panics, which the HTTP framework recovers.                              *)
Command ==
  /\ command # None
  /\ command' = None
  /\ queue' = [queue EXCEPT ![command] =
       IF command \in closed \/ @ = QueueSize THEN @ ELSE @ + 1]
  /\ UNCHANGED <<workers, owner, made, link, stale, closed, deadline, reader,
                 writer, checker, messages, listing, calls, panicked>>

-----------------------------------------------------------------------------
Pumps(c) ==
  \/ Handle(c) \/ ReaderExits(c)
  \/ Send(c) \/ SendLocked(c) \/ Ping(c) \/ WriterExits(c)
  \/ CheckerFires(c) \/ CheckerUnregisters(c) \/ CheckerCloses(c)

Requests ==
  \/ ListStart \/ ListEnd \/ (\E c \in Conns : ListVisit(c))
  \/ (\E i \in Workers : Lookup(i)) \/ Command

Step ==
  \/ \E i \in Workers : Register(i)
  \/ \E c \in Conns : LinkDown(c) \/ GoStale(c) \/ DeadlinePasses(c) \/ Receive(c) \/ Pumps(c)
  \/ Requests

Next == ~panicked /\ Step

SafeSpec == Init /\ [][Next]_vars

(* Goroutines that can run do, timers expire, requests go on.              *)
Runs(A) == ~panicked /\ A
Reader(c) == Handle(c) \/ ReaderExits(c)
Writer(c) == Send(c) \/ SendLocked(c) \/ WriterExits(c)
Checker(c) == CheckerFires(c) \/ CheckerUnregisters(c) \/ CheckerCloses(c)

Fairness ==
  /\ \A c \in Conns :
       /\ WF_vars(Runs(GoStale(c)))
       /\ WF_vars(Runs(Reader(c)))
       /\ WF_vars(Runs(Writer(c)))
       /\ WF_vars(Runs(Checker(c)))
       /\ WF_vars(Runs(ListVisit(c)))
  /\ WF_vars(Runs(ListEnd))

Spec == SafeSpec /\ Fairness

-----------------------------------------------------------------------------
Registered(c) == owner[c] # None /\ workers[owner[c]] = c

TypeOK ==
  /\ workers \in [Workers -> 0..MaxConns]
  /\ owner \in [Conns -> Workers \cup {None}]
  /\ link \in [Conns -> {"none", "up", "down"}]
  /\ stale \subseteq Conns /\ closed \subseteq Conns
  /\ queue \in [Conns -> 0..QueueSize]
  /\ deadline \in [Conns -> {"unset", "ahead", "past"}]
  /\ listing.left \subseteq Conns
  /\ reader \in [Conns -> {"off", "read", "lock", "done"}]
  /\ writer \in [Conns -> {"off", "idle", "sending", "done"}]
  /\ checker \in [Conns -> {"off", "tick", "late", "closing", "done"}]
  /\ \A i \in Workers : workers[i] # None => owner[workers[i]] = i

EntryIsOpen == \A i \in Workers : workers[i] \notin closed

Works(c) == link[c] = "up" /\ reader[c] \in {"read", "lock"} /\ writer[c] # "done"
SoleConnection(c) == \A d \in Conns \ {c} : owner[d] # owner[c]

WorkingIsRegistered == \A c \in Conns : Works(c) /\ SoleConnection(c) => Registered(c)

PanicNeedsReconnect == panicked => \E c \in Conns : owner[c] # None /\ ~SoleConnection(c)

(* A connection that works stays in the table unless another one of the    *)
(* same worker id has existed: no other worker's goroutines can evict it.  *)
(* A connection in the table can be sent to: its channel is not closed, so *)
(* none is closed twice. And the server survives as long as no worker id   *)
(* connects twice: only the goroutines of another connection can close a   *)
(* channel under readPump.                                                 *)
WorkersStayReachable == WorkingIsRegistered /\ EntryIsOpen /\ PanicNeedsReconnect

(* writePump holds w.mu for reading and wants it again, readPump waits to  *)
(* write: neither goroutine of the connection moves any more.              *)
SelfLocked(c) == writer[c] = "sending" /\ reader[c] = "lock"
Halted == panicked \/ \E c \in Conns : SelfLocked(c)

(* The health check works: once the goroutines of a connection have        *)
(* started, nothing but that lock, or a panic, keeps a gone worker in the  *)
(* table. And listWorkers comes back and lets go of the table, which every *)
(* other operation waits for: only that lock can keep it for good.         *)
NothingHaltsUnlessLocked ==
  /\ \A c \in Conns : []<>(~(link[c] = "down" /\ reader[c] # "off" /\ Registered(c)) \/ Halted)
  /\ []<>(~listing.on \/ Halted)
=============================================================================
