------------------------------ MODULE ClientHub ------------------------------
(***************************************************************************)
(* The WebSocket connections of browsers (infra/websocket/connector.go):   *)
(* the handler that accepts one, its readPump and writePump, the goroutine *)
(* run that owns the table of connections and is the only one to close     *)
(* their queues, and the callers of the Messenger. A send on a closed      *)
(* queue, or a second close, is a panic that ends the server.              *)
(***************************************************************************)
EXTENDS Integers

CONSTANTS
  Clients,     \* browsers, with one connection each
  Names,       \* client ids; those without one get the second they connect in
  QueueSize,   \* 256 in the code
  MaxMessages, \* bound: messages read from each browser
  MaxSends     \* bound: calls of the Messenger

HubAssumption == QueueSize \in Nat \ {0} /\ MaxMessages \in Nat /\ MaxSends \in Nat

Nobody == "nobody"

VARIABLES
  socket,    \* socket[k]: "none", "open", "lost" (the browser is gone), "closed"
  name,      \* name[k]: the client id of the connection
  handler,   \* handler[k]: "idle", "registering", "registered", "returning", "over"
  reader,    \* reader[k]: "off", "reading", "leaving", "closing", "over"
  writer,    \* writer[k]: "off", "writing", "over"
  queue,     \* queue[k]: how many messages wait in conn.send
  closed,    \* closed[k]: conn.send is closed
  table,     \* connections
  loop,      \* what run is doing: [at, k, left]
  droppers,  \* droppers[k]: goroutines that wait to unregister k
  reads,     \* reads[k]: messages read from the browser
  sends,     \* calls of the Messenger
  panic,     \* the connection whose queue caused a panic, or Nobody
  overflowed \* history: connections whose queue was full for run

hubVars == <<socket, name, handler, reader, writer, queue, closed, table, loop, droppers,
             reads, sends, panic, overflowed>>

Select == [at |-> "select", k |-> Nobody, left |-> {}]

Init ==
  /\ socket = [k \in Clients |-> "none"]
  /\ name = [k \in Clients |-> CHOOSE n \in Names : TRUE]
  /\ handler = [k \in Clients |-> "idle"]
  /\ reader = [k \in Clients |-> "off"]
  /\ writer = [k \in Clients |-> "off"]
  /\ queue = [k \in Clients |-> 0]
  /\ closed = [k \in Clients |-> FALSE]
  /\ table = {}
  /\ loop = Select
  /\ droppers = [k \in Clients |-> 0]
  /\ reads = [k \in Clients |-> 0]
  /\ sends = 0
  /\ panic = Nobody
  /\ overflowed = {}

-----------------------------------------------------------------------------
Full(k) == queue[k] = QueueSize

(* select { case conn.send <- message: default: } by one that does not     *)
(* look at the outcome any further.                                        *)
Offer(k) ==
  /\ queue' = IF closed[k] \/ Full(k) THEN queue ELSE [queue EXCEPT ![k] = @ + 1]
  /\ panic' = IF closed[k] THEN k ELSE panic

-----------------------------------------------------------------------------
(* handleWebSocket: the connection is upgraded, named and handed to run,   *)
(* which has no queue for them ...                                         *)
Accept(k, n) ==
  /\ handler[k] = "idle"
  /\ handler' = [handler EXCEPT ![k] = "registering"]
  /\ socket' = [socket EXCEPT ![k] = "open"]
  /\ name' = [name EXCEPT ![k] = n]
  /\ UNCHANGED <<reader, writer, queue, closed, table, loop, droppers, reads, sends, panic, overflowed>>

(* ... the pumps are started ...                                           *)
StartPumps(k) ==
  /\ handler[k] = "registered"
  /\ handler' = [handler EXCEPT ![k] = "returning"]
  /\ reader' = [reader EXCEPT ![k] = "reading"]
  /\ writer' = [writer EXCEPT ![k] = "writing"]
  /\ UNCHANGED <<socket, name, queue, closed, table, loop, droppers, reads, sends, panic, overflowed>>

(* ... and the deferred Close of the handler ends the connection.          *)
HandlerReturns(k) ==
  /\ handler[k] = "returning"
  /\ handler' = [handler EXCEPT ![k] = "over"]
  /\ socket' = [socket EXCEPT ![k] = "closed"]
  /\ UNCHANGED <<name, reader, writer, queue, closed, table, loop, droppers, reads, sends, panic, overflowed>>

BrowserLeaves(k) ==
  /\ socket[k] = "open"
  /\ socket' = [socket EXCEPT ![k] = "lost"]
  /\ UNCHANGED <<name, handler, reader, writer, queue, closed, table, loop, droppers, reads, sends, panic,
                 overflowed>>

-----------------------------------------------------------------------------
(* readPump: a ping, and a command that cannot be published, are answered, *)
(* also when they were read before the socket closed and are handled       *)
(* after. The others change nothing here.                                  *)
ReadAnswered(k) ==
  /\ reader[k] = "reading" /\ reads[k] < MaxMessages
  /\ reads' = [reads EXCEPT ![k] = @ + 1]
  /\ Offer(k)
  /\ UNCHANGED <<socket, name, handler, reader, writer, closed, table, loop, droppers, sends, overflowed>>

ReadFails(k) ==
  /\ reader[k] = "reading" /\ socket[k] # "open"
  /\ reader' = [reader EXCEPT ![k] = "leaving"]
  /\ UNCHANGED <<socket, name, handler, writer, queue, closed, table, loop, droppers, reads, sends, panic,
                 overflowed>>

(* After run has taken the connection.                                     *)
ReaderCloses(k) ==
  /\ reader[k] = "closing"
  /\ reader' = [reader EXCEPT ![k] = "over"]
  /\ socket' = [socket EXCEPT ![k] = "closed"]
  /\ UNCHANGED <<name, handler, writer, queue, closed, table, loop, droppers, reads, sends, panic, overflowed>>

(* writePump: a message is written. A browser that is gone shows late.     *)
Write(k) ==
  /\ writer[k] = "writing" /\ queue[k] > 0 /\ socket[k] # "closed"
  /\ queue' = [queue EXCEPT ![k] = @ - 1]
  /\ UNCHANGED <<socket, name, handler, reader, writer, closed, table, loop, droppers, reads, sends, panic,
                 overflowed>>

(* A write or a ping fails, or the queue is closed and empty.              *)
WriterEnds(k) ==
  /\ writer[k] = "writing"
  /\ socket[k] # "open" \/ (closed[k] /\ queue[k] = 0)
  /\ writer' = [writer EXCEPT ![k] = "over"]
  /\ socket' = [socket EXCEPT ![k] = "closed"]
  /\ UNCHANGED <<name, handler, reader, queue, closed, table, loop, droppers, reads, sends, panic, overflowed>>

-----------------------------------------------------------------------------
(* run takes a connection from the handler ...                             *)
Register(k) ==
  /\ loop.at = "select" /\ handler[k] = "registering"
  /\ handler' = [handler EXCEPT ![k] = "registered"]
  /\ table' = table \cup {k}
  /\ loop' = [at |-> "welcome", k |-> k, left |-> {}]
  /\ UNCHANGED <<socket, name, reader, writer, queue, closed, droppers, reads, sends, panic, overflowed>>

(* ... and welcomes it, or closes its queue and leaves it in the table.    *)
Welcome ==
  LET k == loop.k IN
  /\ loop.at = "welcome"
  /\ loop' = Select
  /\ IF Full(k)
     THEN /\ closed' = [closed EXCEPT ![k] = TRUE]
          /\ overflowed' = overflowed \cup {k}
          /\ UNCHANGED queue
     ELSE /\ queue' = [queue EXCEPT ![k] = @ + 1]
          /\ UNCHANGED <<closed, overflowed>>
  /\ UNCHANGED <<socket, name, handler, reader, writer, table, droppers, reads, sends, panic>>

(* Mutant: the entry is not deleted. *)
ForgetEntry(k) ==
  /\ closed' = [closed EXCEPT ![k] = TRUE]
  /\ panic' = IF closed[k] THEN k ELSE panic
  /\ UNCHANGED table

(* A connection of the table leaves it, and its queue is closed.           *)
Drop(k) ==
  IF k \in table
  THEN /\ table' = table \ {k}
       /\ closed' = [closed EXCEPT ![k] = TRUE]
       /\ panic' = IF closed[k] THEN k ELSE panic
  ELSE UNCHANGED <<table, closed, panic>>

(* Mutant: readPump ends without a word to run. *)
SilentLeave(k) ==
  /\ loop.at = "select" /\ reader[k] = "leaving"
  /\ reader' = [reader EXCEPT ![k] = "closing"]
  /\ UNCHANGED <<socket, name, handler, writer, queue, closed, table, loop, droppers, reads, sends, panic,
                 overflowed>>

(* run takes a connection from its readPump ...                            *)
Unregister(k) ==
  /\ loop.at = "select" /\ reader[k] = "leaving"
  /\ reader' = [reader EXCEPT ![k] = "closing"]
  /\ Drop(k)
  /\ UNCHANGED <<socket, name, handler, writer, queue, loop, droppers, reads, sends, overflowed>>

(* ... or from a goroutine of an earlier broadcast.                        *)
UnregisterFull(k) ==
  /\ loop.at = "select" /\ droppers[k] > 0
  /\ droppers' = [droppers EXCEPT ![k] = @ - 1]
  /\ Drop(k)
  /\ UNCHANGED <<socket, name, handler, reader, writer, queue, loop, reads, sends, overflowed>>

(* BroadcastSend: run takes the message only when it waits for one.        *)
Broadcast ==
  /\ sends < MaxSends /\ sends' = sends + 1
  /\ loop' = IF loop.at = "select" THEN [at |-> "broadcast", k |-> Nobody, left |-> table] ELSE loop
  /\ UNCHANGED <<socket, name, handler, reader, writer, queue, closed, table, droppers, reads, panic,
                 overflowed>>

BroadcastTo(k) ==
  /\ loop.at = "broadcast" /\ k \in loop.left
  /\ loop' = [at |-> "broadcast", k |-> Nobody, left |-> loop.left \ {k}]
  /\ Offer(k)
  /\ IF Full(k) /\ ~closed[k]
     THEN droppers' = [droppers EXCEPT ![k] = @ + 1] /\ overflowed' = overflowed \cup {k}
     ELSE UNCHANGED <<droppers, overflowed>>
  /\ UNCHANGED <<socket, name, handler, reader, writer, closed, table, reads, sends>>

BroadcastEnds ==
  /\ loop.at = "broadcast" /\ loop.left = {}
  /\ loop' = Select
  /\ UNCHANGED <<socket, name, handler, reader, writer, queue, closed, table, droppers, reads, sends, panic,
                 overflowed>>

(* SendMessageToClient: one of the connections of that name, if any.       *)
SendToClient(n) ==
  /\ sends < MaxSends /\ sends' = sends + 1
  /\ IF \E k \in table : name[k] = n
     THEN \E k \in table : name[k] = n /\ Offer(k)
     ELSE UNCHANGED <<queue, panic>>
  /\ UNCHANGED <<socket, name, handler, reader, writer, closed, table, loop, droppers, reads, overflowed>>

-----------------------------------------------------------------------------
(* What a connection's goroutines go on to do by themselves.               *)
Goroutine(k) ==
  \/ StartPumps(k) \/ HandlerReturns(k)
  \/ ReadFails(k) \/ ReaderCloses(k) \/ WriterEnds(k)
  \/ Register(k) \/ Unregister(k) \/ UnregisterFull(k)

Loop == Welcome \/ BroadcastEnds \/ \E k \in Clients : BroadcastTo(k)

Input ==
  \/ \E k \in Clients, n \in Names : Accept(k, n)
  \/ \E k \in Clients : BrowserLeaves(k) \/ ReadAnswered(k) \/ Write(k)
  \/ Broadcast
  \/ \E n \in Names : SendToClient(n)

(* A panic ends the server.                                                *)
Runs(A) == panic = Nobody /\ A

Next == Runs(Input \/ Loop \/ \E k \in Clients : Goroutine(k))

Spec == Init /\ [][Next]_hubVars

-----------------------------------------------------------------------------
TypeOK ==
  /\ table \subseteq {k \in Clients : handler[k] \notin {"idle", "registering"}}
  /\ queue \in [Clients -> 0..QueueSize]
  /\ loop.at \in {"select", "welcome", "broadcast"} /\ loop.left \subseteq table
  /\ \A k \in Clients : writer[k] = "off" <=> reader[k] = "off"

(* The server meets a closed queue only for a connection whose queue has   *)
(* been full for run, in the welcome or in a broadcast: readPump is the    *)
(* last to use the queue, and its connection leaves the table just when    *)
(* its queue is closed, whatever the order of the goroutines.              *)
PanicNeedsOverflow ==
  /\ panic # Nobody => panic \in overflowed
  /\ \A k \in Clients \ overflowed :
       /\ k \in table => ~closed[k] /\ handler[k] # "registering"
       /\ k \notin table /\ handler[k] \notin {"idle", "registering"} =>
            closed[k] /\ reader[k] \in {"closing", "over"}

(* A connection that is accepted leaves the table again and its pumps end, *)
(* unless a panic stops the server: none is kept, not even one that the    *)
(* browser means to keep (the handler closes it, line 83).                 *)
ConnectionsEnd ==
  \A k \in Clients :
    []<>(\/ handler[k] = "idle" \/ panic # Nobody
         \/ k \notin table /\ reader[k] = "over" /\ writer[k] = "over")
=============================================================================
