# The Leros backend in TLA+

Leros runs AI assistants for an organisation. A Go server (`backend/cmd/leros
server`) keeps sessions, messages, assistants and models in PostgreSQL, and
starts worker processes or containers. A worker (`leros worker`) takes the
tasks of its assistant from NATS JetStream, runs an agent on them and streams
the agent's events back. This directory specifies the parts of that backend
whose correctness depends on interleavings, failures and ordering. It contains
TLA+ modules, model-checking instances and proofs. Paths below are relative to
the repository root; line numbers of every definition are in `PROJECT.json`
under `map`.

Contents: [1 the system](#1-the-system), [2 the modules](#2-the-modules),
[3 what the runs show](#3-what-the-runs-show),
[4 fairness](#4-fairness), [5 what is proved](#5-what-is-proved),
[6 where code and documents disagree](#6-where-code-and-documents-disagree),
[7 what is not modelled](#7-what-is-not-modelled), [8 the plan](#8-the-plan),
[9 running it](#9-running-it).

## 1 The system

A user message takes this way through the parts that are modelled:

    browser --HTTP--> session service --row--> session_messages
                          |  task (JetStream subject of the worker, <= 200)
                          v
    worker: consumer --> trailing debouncer (per org:worker:session) --> run
              run: load history, claim pending rows, look up the model,
                   built-in agent or external CLI, terminal event,
                   learning, complete the claimed rows
                          |  events (JetStream subject of the session)
            +-------------+--------------------+
            v                                  v
    session_completed handler            StreamSessionEvents
      stores the reply as a row            SSE to the browsers

and beside it the server keeps its workers alive:

    scheduler (process or docker) --starts--> worker --WebSocket--> registry

A run of the agent reads and writes files of its worker (skills, memory) and
uses accounts that users have connected over HTTP; administrators change the
models and assistants meanwhile.

| Component | State | Operations | What is hard | What makes it correct |
|---|---|---|---|---|
| Trailing debouncer `pkg/utils/trailing_debouncer.go` | map of entries (pending value, timer, seq, running), one mutex | `Call`, and on timer goroutines `flush`, `takeReady`, `run`, `finishRun` | a fired timer cannot be recalled; entries are deleted and made again | one run per key; no waiting value is forgotten; no value is handled twice or after a newer one |
| Session message pipeline `service/session_service.go`, `worker/taskconsumer`, `agent/runtime/lifecycle`, `runnable/session_completed.go` | message rows and their status, two queues, the debouncer, one run per session | `AddMessage`, `handleEvent`, `Runner.Run` with its claim and deferred calls, `handleSessionCompletedMessage` | three processes, early acknowledgement, redelivery, crash, failed publish, panic | a message is claimed once; what was accepted is worked on and answered; batches do not overlap |
| Session service `service/session_service.go`, `infra/db` | session row, message rows | update, delete, clear, status changes, automatic titles, adding, answering and deleting messages | read, decide and write without a transaction, with a failure between any two statements; whole-row `Save` | no lost manual title, no revived session, numbers sort, counts match |
| Built-in agent `agent/eino`, `agent/runtime/lifecycle` | a run's stage, the framework's goroutine and its tool calls, the reading loop, the journal | begin, answer, call tools, retry, read, archive, report, learn | tool calls on goroutines, rate-limit retries in the middle of an answer | the end of a run is complete and final |
| External CLI agents `agent/externalcli`, `engines/claude`, `engines/codex` | process, two pipes, scanners, `Wait`, channel; the provider session bound to the session row | start, print, scan, wait, close, consume, store the binding | pipes closed by `Wait`, output on two pipes, row saved by others | success only if the process succeeded; the last session is resumed; a run ends |
| Event stream `lifecycle/run_journal.go`, `taskconsumer/stream_sink.go`, `service/session_service.go`, `api/handler/session_handler.go` | a journal per run, the session's subject, a bounded channel per connection | numbering, archiving, publishing, subscribing, resuming, delivering; projecting and merging | numbering and publishing are two steps; numbers start again with every run; full channels drop; events are delivered twice; panics | the archive is complete; a viewer misses or repeats only what can be explained, and sees the end; what is stored tells what was shown |
| Worker registry `worker/server` | table of connections, RW locks, send channels, three goroutines per connection | `handleWorkerWebSocket`, `readPump`, `writePump`, `heartbeatChecker`, `unregisterWorker`, `listWorkers`, `shutdownWorker` | unregistering by id after a reconnect, sends on closed channels, recursive read locks | the table holds no closed channel; a working connection stays; a gone one leaves |
| Process scheduler `worker/scheduler/process_scheduler.go` | table of instances, two levels of locks, a monitor per process | `Start`, `Stop`, `Health`, `List`, `monitorProcess` | lock order, removal by id, a process that ends while it is being stopped | a running worker can be found; an ended one leaves; calls return |
| Docker scheduler `worker/scheduler/dockercli_scheduler.go` | table, the daemon's containers and names, polling monitors | `Start` (create, start, register), `Stop` (stop, remove), `monitorContainer` | commands that fail before or after they acted; a restart with an empty table; names stay taken; removal by worker id | a running container is in the table but for known reasons |
| Browser connector `infra/websocket/connector.go` | table of clients, one loop, a bounded channel and two pumps per client | accept, register, unregister, broadcast, welcome, the `Messenger` calls | channels closed by one goroutine and used by others; the handler closes the connection it hands over | no send on a closed channel; connections end |
| Model registry `service/llm_model_service.go`, `infra/db/database.go` | models with a default flag per organisation, seeded rows | create, update, delete, seeding at a start | transactions under read committed, a partial unique index, soft deletes, statements that fail during a start | at most one default, and a model to fall back to |
| Memory store `memory/local` | two text files, a lock file each, temporary files | add, replace, remove | read, change and rename under `flock`; a crash between | no update lost, none written in part; calls return |
| Skills `skill/store`, `skill/manage`, `skill/catalog`, `engines/skills_sync.go` | directories of files, the catalog, a reload timer | create, patch, write, remove, reload, export, start | no lock; delayed reloads that overlap; errors and crashes during the copying of skills | text is not lost; documents are whole but where such a copy stopped; the catalog is what the files say |
| Authorizations `api/auth`, `infra/providers/github`, `connectors/github` | pending states, credentials, default accounts (in memory), users (rows) | start, callback, sign-in, resolution | callbacks that overlap or come twice; a restart | a state serves once; who was told to be authorized is; nobody runs with another's account |
| Assistants `service/digital_assistant_service.go` | rows | create, update, status, delete | check and insert apart; whole-row `Save` | a code is unique, what was written stays - up to stale calls |
| Message bus `infra/mq/nats.go`, `pkg/dm`, `runnable/runner.go` | streams, durable consumers, unacknowledged messages | `initStreams`, `Subscribe`, the restart loop | subjects with wildcards, names shared by processes, restarts | the streams stand; ended runs are handled; a worker hears its tasks |

Further components without a module of their own are listed in section 7 and,
with reasons, in `PROJECT.json`.

## 2 The modules

| Module | What it is |
|---|---|
| `LatestWins` | abstract: a one-place mailbox per key, overwritten by newer calls, and one server per key |
| `TrailingDebouncer` | the debouncer; implements `LatestWins` |
| `MessageBatches` | abstract: the messages of a session are worked on in batches, one batch at a time, each message in one batch |
| `SessionPipeline` | a message from `AddMessage` to the stored reply; uses `LatestWins` for the debouncer; implements `MessageBatches` where the worker and the database do not fail |
| `SessionStore` | one session row and its messages under concurrent calls |
| `AgentRun` | one run of the built-in agent, inside the lifecycle |
| `CliRun` | the runs of a session by an external CLI |
| `EventStream` | the numbered events of the runs of a session and the browsers that watch |
| `Transcript` | what the events of a run say: shown live, and retold from the stored message |
| `WorkerRegistry`, `ProcessScheduler`, `DockerScheduler` | the server's tables of connected workers, worker processes and worker containers |
| `ClientHub` | the WebSocket connections of browsers |
| `ModelRegistry`, `Assistants` | models and assistants in the database |
| `MemoryStore`, `SkillLibrary` | the files of a worker |
| `Authorizations` | connected accounts |
| `Streams`, `Subscriptions` | how processes set up and share the broker |
| `MCTrailingDebouncer`, `MCSessionPipeline`, `MCProcessScheduler`, `MCSessionStore` | constants for TLC |
| `MCRecords`, `MCCalls`, `MCAgents` | instances of several components at once |
| `MCParts` | the half of `MCAgents` whose components have their proofs in `PartsProofs` |
| `TrailingDebouncerProofs`, `SessionPipelineProofs`, `SessionStoreProofs`, `EventStreamProofs`, `CliRunProofs` | theorems about the component they extend (section 5) |
| `RecordsProofs`, `PartsProofs` | theorems about the components of `MCRecords` and `MCParts` |
| `AgentsProofs` | the theorems of `agents`, from those about its components |

The modules meet at a few places. `SessionPipeline` takes the debouncer at the
word of `LatestWins` (`D == INSTANCE LatestWins`), so that timers do not multiply
the pipeline's states; the proof that `TrailingDebouncer` implements `LatestWins`
justifies it. What `SessionPipeline` calls the agent and the terminal event is
refined by `AgentRun` and `CliRun` (how a run reaches its end) and by
`EventStream` and `Transcript` (what becomes of what it says). `CliRun` keeps
its provider session in the metadata of the row of `SessionStore`, and takes
from that module that another call may write the whole row back. `Streams`
and `Subscriptions` say when the queues of `SessionPipeline` exist and are
read.

**MCRecords, MCCalls, MCAgents.** The other components share no state. To check
them side by side would multiply their states and show nothing more. Each of
these modules instantiates several of them with a variable `part` that is
chosen at the start: the component `part` moves and the others rest, so that
the state spaces add up and each is explored to the end. A property of such a
run is about its components one by one; the type invariant says `part = ... =>`.
`MCRecords` holds the components with records that callers share, `MCCalls` those
whose goroutines may wait for ever (liveness), `MCAgents` what surrounds a run.
`MCAgents` EXTENDS `MCParts` and adds the event stream and the CLIs. Where a
component's proofs have a module of their own, `MCRecords` and `MCAgents` instantiate
that module, which extends the component, so that its theorems come along.

**TrailingDebouncer.** Everything between `mu.Lock` and `mu.Unlock` is one
action. `time.AfterFunc` becomes an element of `Timers` that is armed, fired
(its goroutine is on the way to the lock, for as long as it likes), handling, or
returned. `Timer.Stop` only reaches an armed timer, which is what makes the
sequence number necessary. `takeReady` is three actions, one per way it can
end, `finishRun` two. A value is the number of the call that brought it, so
"latest" is "largest".

**SessionPipeline.** One action per step that another process can observe:
creating the row, publishing the task, delivering it to the debouncer,
and then the stages of `Runner.Run` in the order of the code: `load`, `claim`,
`agent`, `emit`, `learn`, `complete`, and for panics `unwind` (deferred
completion) and `report` (the recover). `Faults` names the failures the
environment may inject (`crash`, `ack`, `publish`, `db`, `panic`), each in the
action of the code that meets it. A full task subject drops its oldest message.
The history is the last `HistoryLimit` rows of the session by number: `newer`
counts for each message the rows, replies among them, that are numbered after
it. A number is computed before its row is stored, so that a row may be stored
below (or level with) up to `MaxOvertakes` rows that were there before it.
A task carries only its session, because the consumer claims whatever is pending
and not the message the task was made for.

**SessionStore.** A call reads the row into its `copy`, checks, and writes
later: with an `UPDATE` of one column, or with `Save`, which writes back every
column as it was read, and inserts the row when it has been deleted. Numbers are
taken from the stored maximum before the message is inserted. Any statement may
fail (`StatementFails`), after which the call is over and what it has written
stays: `missed` counts the messages that were stored and never counted, `unsaved`
those that a clear has deleted without saving the row.

**AgentRun.** `stage` is the place in `Runner.Run`, `agent` the goroutine of the
framework, `output` its channel to the reading loop of `eino/flow.go`, `toolCall`
the calls it runs side by side, `flow` the loop. The framework is external and
modelled from how it is set up and read: it retries a rate limit, in the middle
of a streamed answer too, which the reader sees as an error. `Panics` is a panic
that `Runner.Run` recovers from, in the run or in the learning run after it: it
records a failure behind whatever the journal already has.

**CliRun.** The process, its two pipes, two scanners, the goroutine in
`cmd.Wait` and the consumer. `Wait` closes the pipes when the process has ended,
read or not: what is still in them is lost (`cut`). A line above 4 MB ends its
scanner, after which the process blocks. `binding` is the provider session
stored with the row, `home` the sessions the CLI itself still knows.

**EventStream.** `Record` is `RunJournal.Append`, under its lock. `Publish` is
the sink, after it. The lifecycle goroutine is `main`; a lane is a tool call on
a goroutine of its own. `Connect` is `StreamSessionEvents` (new events only, or
everything again for a browser that names a number), `Deliver` the
subscription's handler, `Send` the SSE loop, `Leave` its return. A subscription to
new events acknowledges each; `Redeliver` is an event that comes again because
its acknowledgement was lost. A subscription that replays (an ordered consumer)
acknowledges nothing and delivers once. `Panic` is the recovered panic, in the run
or in the learning run that follows a completed one (`learning`).

**Transcript.** Without loss or reordering: how message ids of a provider become
ids of Leros, how deltas are merged into the archive, and how archive and live
events are projected. A text is the sequence of the numbers of its deltas.

**WorkerRegistry.** Each connection has a reader, a writer, a checker and a
link. Go's `RWMutex` lets no reader in while a writer waits; the only lock on
which that matters is `w.mu`, and it is modelled as the reader waiting in stage
`lock` while the writer, in stage `sending`, holds the lock for reading and
asks for it again. The write deadline a ping leaves on the socket is a state of
its own.

**ProcessScheduler.** `holder` says which call keeps `ps.mu` and which
instances it has still to lock; `monitor[n] = "locked"` is the monitor inside
`instance.mu`. `Health` looks up and signals in two steps.

**DockerScheduler.** `Start` and `Stop` hold the table's lock while they run
docker commands, one action each, in the context of the request: a command that
reports a failure has had its effect or has not. `container` is what the daemon
knows and outlives the table, also when the server restarts; containers end and
are removed from outside. `disowned` records why a container that runs is not in
the table: docker could not stop it, could not inspect it, or started it and
reported that it had not; the server ended; or its predecessor's watcher took it
for the predecessor.

**ClientHub.** `run` is the only goroutine that closes queues. `loop` is its
place: in `select`, in the welcome of a client, or in a broadcast with the
clients that are left. `droppers` counts the goroutines that a full queue
made, each of which will unregister its client.

**ModelRegistry.** A transaction is its statements; `writes` are its
uncommitted rows; a statement that meets another transaction's row waits and
then tests its `WHERE` again, as PostgreSQL does under read committed. Two unique
indexes, one of them partial, refuse what they refuse. A start counts each table,
fills it when it looks empty, and may have no key configured, in which case it seeds no
model. Any statement of it may fail; the error of a count is not looked at
(`SeedMiscounts`), any other ends the start, before or after the row was made.

**MemoryStore.** `lock` is `flock` on the lock file of a target, given back when its
holder dies. `Outcome` is what add, replace and remove make of a text: the limit,
the scan for forbidden content, the match of the needle, duplicates. It works on the
joined text, since what is read from a file is an entry per piece.

**SkillLibrary.** A file is written with a temporary file and a rename, which is
atomic; the copy of a skill is not: the file is truncated first, and an error or the
worker's death leaves it empty, cut in its front matter or cut in its text
(`PartlyCopied`), with the skills before it copied and those after it not. An error
only warns, and the worker comes up with what there is. Two front ends write: the worker's
own tool, after which the catalog is reloaded by a timer, and the MCP server's,
after which it is not. A text is a sequence of fragments, in which a deleted one is `""`.

**Authorizations.** Every operation of the store is atomic under its lock, and a
callback is a sequence of them with requests in between.

**Streams, Subscriptions.** The broker is external and modelled from how
`infra/mq/nats.go` uses it: order per subject, redelivery of what is not
acknowledged, the oldest message discarded at the limit, overlap of streams
refused, a durable consumer bound to one subject and served by one process.

## 3 What the runs show

Twelve runs. Every property of a passing run has a mutant: a plausible bug in
one definition that makes TLC report that property (`PROJECT.json`, `mutants`).

**`debouncer`** (two keys, three timers, four calls per key). Two goroutines of
one key are never inside `run` together (`OneRunPerKey`). A waiting value always
has a live timer that will match it, or a run that will look again
(`PendingNotStranded`). Every step is a step of `LatestWins` (`KeepsPromise`) and
every value that waits is eventually handled or replaced (`KeepsLivePromise`).
Three timers are the least with which a late flush, an armed timer and a running
handler of one key can meet; four calls are enough for an entry to be deleted
and to reach the same sequence number again.

**`pipeline_faults`** (two messages of one session, every kind of fault, two
faults, a queue of one). A message is the input of one run only
(`ClaimedOnce`). Only a run with input reports success (`AnswersInput`). The
runs that claimed something and gave no answer, and the answers stored twice, are
each no more than the faults (`AnswersAreFaults`). What a run has as history
is input of earlier runs of its session, never its own; what it lacks of theirs is
beyond the limit of the history, with everything it has numbered later, or was left
in processing (`HistoryIsEarlierInput`). Two faults are enough for
a crash after a redelivery or a panic after a failed publish; the queue of one
makes the discarding of tasks happen with two messages, and a limit of one row,
with one row that may be overtaken, makes the history too short for them.

**`pipeline_no_loss`** (three messages, two sessions, redelivery and panics, no
crash and no database failure). An accepted message that is pending has something
that will come for it, one that is processing is in the hands of a live run, and
a run that claimed something and ended has reported (`NothingForgotten`); the
pipeline implements `MessageBatches`
(`WorksInBatches`); every accepted message is answered (`EventuallyAnswered`).
The queue is long enough not to overflow here: what overflow costs is in the other
run.

**`records`** checks eight components (safety), symmetric in callers and workers.

- Session rows (two callers, three messages, four calls, every operation). A title
  the user has set, an ended session and a deleted row only fall to a call
  that had read the row before, and a deleted row only comes back with a call
  that saves all of it (`OnlyStaleCallsUndo`). A message sorts
  after every message that was there when its number was taken (`SeenSortsBefore`).
  Between calls the count is that of the user's messages since the last clearing,
  less those whose `AddMessage` failed between the message and the count, and
  with those that a failed clear deleted without saving the row, unless a call
  that saves the row overlapped another (`CountMatches`). Each
  conflict in this code is between two calls; the others set the scene.
- Assistants (two organisations, one code, three rows, four calls). The same
  property: a second row of a code, a status or a text that is undone, and a deleted
  assistant that returns, each need a call with an older read.
- Workers' connections (two ids, two connections, one message each, a command, a queue
  of one, welcomes that fail). The table never hands out a closed channel;
  a working connection whose worker never had another one is in the table; the
  server panics only after a worker connected twice (`WorkersStayReachable`).
- Worker processes (two ids, three starts, two calls, one `Health`). A running
  worker whose id was started once is in the table until it is told to stop
  (`SoleIsManaged`).
- Memory files (two callers, three pieces, limits of one and three, three calls,
  with I/O errors and deaths of the process). A file changes only to what the
  call that holds its lock makes of the text it replaces (`NoLostUpdate`).
- Skills (two skills of which one is built in; two tool calls, or one and a crash or
  copy that fails, with a CLI to copy to, and two tool calls and a crash without:
  `MaxWithCLI`). Text
  leaves a skill only because a call asked, or wrote over a change it had not
  seen, or a start was copying the built-in files (`TextLeavesKnowingly`). Every
  document has text but a built-in one whose last copy was cut short, and a worker
  that is up has a catalog that is what a scan would give but for named reasons
  (`CatalogHolds`).
- Accounts (two users, two GitHub accounts, two flows, two callbacks at a time, one
  restart, one resolution). A state serves one callback; who was told to be
  authorized has an account to run with and never another's; a default moves and
  a second user of an account appears only when callbacks overlapped
  (`AuthorizationsHold`).
- Streams (two processes that start, one older stream with any of the subjects
  of `OlderSubjects`: today's with ids and wildcards in other places, shorter or
  longer, with `>` or not; one failed request). A process that has started leaves both
  streams behind and takes none away; a start fails only for named reasons
  (`StreamsStand`).

**`calls`** checks that nobody waits for ever, in seven components (smaller
instances, no symmetry).

- A worker that is gone leaves the table and `listWorkers` returns, unless the
  server has panicked or a connection's two pumps have locked each other out
  (`NothingHaltsUnlessLocked`): one worker with a message and heartbeats, and with a
  second connection or a command that is sent to it, but not both in one behaviour
  (`RegistryMoves`), which the run `records` has for the safety properties.
- Calls of the process scheduler return and ended processes leave its table,
  unless a monitor and a call wait for each other (`NothingWaitsUnlessCycle`).
- Every call of the memory tool returns, whoever dies with the lock
  (`CallsReturn`).
- A browser connection that was accepted leaves the table and its pumps end,
  unless a panic stops the server (`ConnectionsEnd`).
- A browser that watches when a run begins is sent its end, unless it leaves, its
  channel overflows or the publish fails (`EndIsShown`).
- A run of a CLI ends once its process has exited, or the worker is asked to stop
  and kills it, in whatever order scanners, `Wait` and consumer come (`RunsEnd`).
  While the process lives, or is blocked on a line that is too long, nothing ends it.
- While some server is up, ended runs are handled, whoever held the
  subscription before (`EndedRunsAreHandled`).

**`agents`** checks what surrounds a run (safety), symmetric in actors.

- Models (three requests and starts, no more than two of each: `MaxModelActs`; one
  organisation, two models). An organisation
  has one default at most, and loses it only to a request that asked for it or
  saved an old copy; a start fails only because a statement of it failed, starts
  overlapped, the seeded model was deleted or another default was made, and
  creates the accounts twice only when starts overlapped or it could not count
  them (`DefaultsAreExplained`).
- Containers (two callers, two workers, three containers, four calls, two faults:
  commands that fail, with or without effect, and restarts). A container that runs
  outside the table was not stopped, not inspected, started by a command that
  reported a failure, left by a server that ended, or taken for a removed one of its
  worker; the table knows none of another worker, and what it knows is watched
  (`UnlistedIsExplained`).
- Browsers (two, one client id, a queue of one). The server meets a closed queue
  only for a connection whose queue was full for the hub's loop
  (`PanicNeedsOverflow`).
- Events (one lane beside the lifecycle goroutine, one viewer that may leave once,
  two runs, four events, a channel of one, publishes that fail, one redelivered
  event, panics). `run.completed` closes its run: its archive holds every event
  numbered before it except the answer, and nothing follows it but the failure
  that a panic in the learning run reports (`CompletedClosesRun`). What a viewer
  misses, it does because of a full or abandoned channel, or because of numbers of
  another run or of a slower goroutine; what it gets twice, because of these numbers
  or a redelivery (`DeliveriesAreExplained`).
- A run of the built-in agent (two answers, two tool calls, one retry, one
  learning step, with and without the tools a task asks for). A run that is
  reported as completed carries every answer and tool call once, in order; after
  that end comes at most the one failure of a panic, and after a failed end only
  what an agent does that a broken stream or a panic has left running
  (`EndIsFinal`).
- A CLI run with three lines of output, and three runs of two CLIs with one line
  each. Completed means exit code 0, and the printed result unless it was cut
  off (`CompletedIsSuccess`); a run resumes the last session of its CLI, unless it
  could not be stored or another call saved an older row (`ResumesLastSession`).
- A transcript of four deltas or tool events. The stored message tells the same
  texts, thoughts and calls, at the same places, as were shown
  (`HistoryIsWhole`).

**`debouncer_quiet`, `pipeline_crash`, `process_deadlock`, `session_title`,
`models_start`, `workers_listen`** each refute a sentence of the repository: section 6.

The bounds are named in the modules' `CONSTANTS` (`MaxCalls`, `MaxFaults`,
`MaxConns`, ...). Their values are in the `.cfg` of the run; `MCCalls` and, for a few,
`MCRecords` and `MCAgents` give them beside the `INSTANCE`. Larger ones were tried while the properties were found:
five events in the event stream without `EndIsShown`, five calls of the session
service. Symmetry is used only in runs that check no liveness. Deadlock is not
checked: users may stop sending, and the bounded counters end every run.

## 4 Fairness

Every fairness condition is weak and belongs to something that goes on by itself.

- `TrailingDebouncer`: a timer expires, a goroutine that waits for the mutex gets
  it (Go's mutexes are starvation-free), a handler returns. Callers need not call.
- `SessionPipeline`: a request that has begun finishes, JetStream delivers, a run
  goes on, the server stores events. That the agent returns is an assumption the code
  does not enforce: no deadline is set around a run, and an agent that hangs
  holds its session for good. Nobody has to send a message.
- `WorkerRegistry`: each goroutine, the passing of 90 seconds for `LastSeen`, and
  a listing that has begun. Workers need not connect, answer or go away. Pings
  are not assumed.
- `ProcessScheduler`: each monitor and each call that has begun; a process that
  was interrupted ends, any other one may run for ever.
- `MemoryStore`: a call that has begun goes on, and gets the lock when it stays free.
  `flock` waits without a deadline and in no promised order; that nobody starves
  among endless other calls is not claimed (calls are bounded here).
- `ClientHub`: the goroutines of each connection and the hub's loop. Browsers need
  neither read nor write nor leave.
- `EventStream`: a run's goroutines, a tool call that has begun, delivery and
  sending on an open connection. Nobody has to connect or to leave.
- `CliRun`: the scanners, `Wait` and the consumer, and that a process whose context
  is cancelled is killed (`exec.CommandContext`). That a CLI exits by itself is not
  assumed: no timeout is set for it (`externalcli/runner.go:71`), and one that hangs
  holds its run until the worker is stopped.
- `Subscriptions`: each process that runs goes on with what it was doing.
- The other modules have no liveness property: their calls are straight-line code
  and nothing in them waits for another.

## 5 What is proved

TLAPS checks these for all values of the constants.

| Theorem | Says |
|---|---|
| `TrailingDebouncerProofs!TypeCorrect` | `SafeSpec => []TypeOK` |
| `TrailingDebouncerProofs!RunsNeverOverlap` | `SafeSpec => []OneRunPerKey` |
| `TrailingDebouncerProofs!NothingStranded` | `SafeSpec => []PendingNotStranded` |
| `TrailingDebouncerProofs!PromiseKept` | `SafeSpec => KeepsPromise`, the refinement of `LatestWins` |
| `SessionPipelineProofs!PipelineTypeCorrect` | `SafeSpec => []TypeOK` |
| `SessionPipelineProofs!NoMessageIsClaimedTwice` | `SafeSpec => []ClaimedOnce` |
| `SessionPipelineProofs!SuccessHasInput` | `SafeSpec => []AnswersInput` |
| `SessionPipelineProofs!MissingAnswersAreFaults` | `SafeSpec => []AnswersAreFaults` |
| `SessionPipelineProofs!PipelineWorksInBatches` | `Steady` gives `SafeSpec => WorksInBatches`, the refinement of `MessageBatches` |
| `SessionPipelineProofs!RunsKnowEarlierInput` | `SafeSpec => []HistoryIsEarlierInput` |
| `SessionPipelineProofs!PipelineForgetsNothing` | `Steady` and `Published` give `SafeSpec /\ []HasRoom => []NothingForgotten` |
| `SessionStoreProofs!StoreTypeCorrect` | `Spec => []TypeOK` of `SessionStore` |
| `RecordsProofs!RecordsTypeCorrect` | `Spec => []TypeOK` of `MCRecords`: the limits of the memory files with the types |
| `RecordsProofs!SessionCounts` | `Spec => []CountMatches` |
| `RecordsProofs!MessagesSortInOrder` | `Spec => []SeenSortsBefore` |
| `RecordsProofs!StaleCallsUndo` | `Spec => OnlyStaleCallsUndo`, for sessions and assistants |
| `RecordsProofs!RegistryTypeCorrect`, `SchedulerTypeCorrect`, `AssistantTypeCorrect`, `AuthorizationTypeCorrect` | `[]TypeOK` of these components |
| `RecordsProofs!WorkersAreReachable` | `Spec => []WorkersStayReachable` |
| `RecordsProofs!SoleProcessIsManaged` | `Spec => []SoleIsManaged` |
| `RecordsProofs!NoUpdateIsLost` | `Spec => NoLostUpdate` |
| `RecordsProofs!AuthorizationsAreKept` | `Spec => AuthorizationsHold` |
| `RecordsProofs!StreamsAreKept` | `Spec => StreamsStand` |
| `RecordsProofs!CatalogIsKept` | `Spec => []CatalogHolds` |
| `RecordsProofs!TextLeavesForReasons` | `Spec => TextLeavesKnowingly` |
| `EventStreamProofs!TypesOfTheStream`, `CliRunProofs!CliTypeCorrect` | `[]TypeOK` of these components |
| `PartsProofs!ModelTypeCorrect`, `DockerTypeCorrect`, `HubTypeCorrect`, `AgentTypeCorrect`, `TranscriptTypeCorrect` | `[]TypeOK` of these components |
| `AgentsProofs!AgentsTypeCorrect` | `Spec => []TypeOK` of `MCAgents` |
| `AgentsProofs!DefaultsHaveReasons` | `Spec => DefaultsAreExplained` |
| `AgentsProofs!UnlistedHasReason` | `Spec => []UnlistedIsExplained` |
| `AgentsProofs!PanicHasReason` | `Spec => []PanicNeedsOverflow` |
| `AgentsProofs!CompletionClosesRun` | `Spec => []CompletedClosesRun` |
| `AgentsProofs!DeliveriesHaveReasons` | `Spec => []DeliveriesAreExplained` |
| `AgentsProofs!RunEndsAreFinal` | `Spec => []EndIsFinal` |
| `AgentsProofs!CompletedRunsSucceeded` | `Spec => []CompletedIsSuccess` |
| `AgentsProofs!LastSessionsAreResumed` | `Spec => []ResumesLastSession` |
| `AgentsProofs!HistoriesAreWhole` | `Spec => []HistoryIsWhole` |
| `TrailingDebouncerProofs!QuietUnlessDeletedLate` | `SafeSpec /\ DeletesWhenNoneIsLate => RunsAfterQuiet` |
| `SessionStoreProofs!ManualTitleStaysAlone` | `Spec /\ []~overlap => ManualTitleStays` |
| `AgentsProofs!StartsSucceedWhileSeeded` | `Spec /\ []~unseeded => Models!StartSucceeds` |

Each assumes only the named assumption of its module: bounds are natural numbers
and the "nothing there" values are none of the real ones. `Steady` says that neither
`"crash"` nor `"db"` is in `Faults`, `Published` that `"publish"` is not, `HasRoom`
that the task subject is below `QueueLimit`; each is needed, since the runs with
those faults have states where the property fails. The last three theorems of the table are
about properties that a run refutes (section 6): each says which single circumstance
the counterexample needs, and that the sentence of the repository is true without it.

**From a component to a run.** The argument about a component is in a module that
knows nothing of the others: a module of its own, or a section of `RecordsProofs` or
`PartsProofs` about the instance. A step of `MCRecords` or `MCAgents` is a step of the
component that `part` names and leaves the variables of every other alone. So it is a
step or a stutter of each (`SessionSteps`, `ModelsSteps`, ...), the run's `Spec` implies
each component's, and the run's property, which is a conjunction over them or
says `part = ... =>`, follows.

**Debouncer.** `OneRunPerKey` is not
inductive: after a `TakeReady` it needs that no other goroutine was in `run`,
which the code knows only through `entry.running`. `IInv` says what that field
and `entry.timer` mean, in both directions: a goroutine in `run` has its entry
marked (`RunMarksEntry`), a marked entry has a goroutine in `run`
(`MarkHasRun`), a timer in the field is live and carries the entry's number
(`TimerFieldIsLive`), a waiting value has a mark or a timer
(`WaitingIsOwned`), and numbers are bounded by calls (`SeqCountsCalls`).
`PendingNotStranded` follows from `WaitingIsOwned` with `MarkHasRun` and
`TimerFieldIsLive`. The proof of preservation first states the effect of each
action on one entry and one timer (`CallEffect` and the lemmas after it) and then
has one lemma per action. The refinement needs `OneRunPerKey`, so that `InHand` is
empty when a value is taken and has one element when a handler returns.

**Pipeline.** `ClaimedOnce` rests on
`ClaimedIsWorked` (a claimed message is never pending again) and
`UnsentIsAbsent` (a row is created once). `AnswersInput` rests on `RunHasInput`
(a run past its claim has input), `ClaimedIsInput`, `ReportsFailure` (deferred
reports are failures) and `RunIsNamed`. They hold under every fault: neither a
crash nor a redelivery nor a failed statement can break them.

**Pipeline with every fault.** `AnswersAreFaults` bounds two numbers by the faults. Neither
bound is inductive, since a fault is counted some steps before the answer is missing or
comes again. `FaultInv` counts earlier: a run with input is silent from the step past
its report (`Missed`), and an answer that is about to be given a second time, by the
deferred report after a panic, counts before it is there (`Doubled`). That a run's own
answer is its first needs that a call which has not come to a run has neither input nor answer
(`Fresh`). Each step adds at most one silent run or one answer of a run that had one, and then
a fault with it.

**The history.** It holds under every fault too. Calls are numbered in the order of
the runs (`CallOrder`, `FutureIsEmpty`), and what was worked on in a session is what
its runs were given (`InputsAreWorked`). A run that is about to claim has in its history
what is completed, up to the limit (`HistoryIsRecent`), and from the claim on what
earlier runs had, up to the limit and what is left in processing (`KnowsEarlier`).
A message that is beyond the limit stays so, and rows keep their order (`NewerStep`).

**Pipeline without crashes.** A session has a run just when the debouncer has its
call in hand (`HandIsRun`), and the messages being processed are those that the run
between claim and completion holds (`ProcessingIsClaimed`): so a claim finds no open
batch and a completion closes all of it, which is the refinement. That nothing is forgotten needs a trigger for what is pending,
kept by a queue that drops nothing, and for every run with input either the run
before its report or its event on the way (`AnswersCome`). The steps are first
reduced to what they do to one run (`RunKinds`), so that each argument has six
cases and not twelve.

**Session rows.** A number is taken from the messages there are (`Numbers`: what a call
has seen is below the number it will use, whatever was added since) and the calls
that are left bound the numbers (`Budget`). `CountMatches` needs to know of every
call between its insert and its `UPDATE` (`Tally`: the count, the calls that
still have to add and those that failed before they did make the messages of the
user), and that a call which saves the
row without meeting another has a copy that is still true (`Alone`). For the titles,
the flag and the title of a row and of every copy agree (`Titles`), and a call has
a copy that allowed it (`Allowed`).

**Worker registry.** Connections are made in order, and the ones to come have left no
trace (`MadeInOrder`). `unregisterWorker` goes by the worker's id: for a worker with
one connection the goroutine that unregisters is the connection's own, and then
its `readPump` has left, since the checker sees a stale `LastSeen` only
after that (`LateAfterReader`) and a channel is closed under a working `readPump` only by
another connection of the worker (`ClosedByAnother`).

**Process scheduler.** `removeInstance` deletes by id. `SoleIsManaged` needs that
it is called only for processes that have ended (`MonitorsOfTheEnded`), and that an
instance which has not been started has no id (`OnlyStartedAreNamed`): otherwise
an instance of the same id could remove the entry.

**Memory store.** The lock is held from reading to renaming
(`HoldersHaveLock`), so what a call is about to write remains what it would
compute from the file as it is (`NextIsCurrent`). `Outcome` stays unexpanded
in that argument: no change is lost whatever the operations compute. For the limits and the
blocked texts (`MemoryTyped`), `OutcomeKept` goes through the operations: what
`ReadEntries` drops makes a text shorter and adds nothing to it (`EntriesRead`, where
the entries are counted by rank), what is put in place of an entry has been scanned
and measured (`TextJoined`), and an entry that is removed makes room.

**Streams.** Which pairs of subjects `subjectsOverlap` finds is settled by lemmas
about the subjects of today (`TokensOfOld`, `OverlapOfToday` and those after them): it
finds each real overlap but the ones `StreamsStand` names. `BrokerIInv` then says of a
process that is starting that it has added what it does not still have to add
(`Adding`), and that an old stream it has looked at and left overlaps with nothing
as far as it can tell, or cost a fault (`Looked`).

**Skills.** What a call is about to write was validated when the call looked, and has
every text of the file that nobody asked to remove, unless the file changed since or the
name only seemed free (`Prepared`); `PatchRetains` is the lemma about `Patch`. A document
without text is a built-in one that a start cut short (`BlanksAreCut`): what a copy
leaves of a file is a file (`PiecesAreFiles`), one that is not the whole is noted
(`CopiesAreMarked`), and a sync that gets through makes every copy again. For the
catalog, a change by an agent leaves a run of the post-processor due (`Due`); when none
is due, a run that has read the directory carries what a scan would give, or else
the catalog does (`CatalogFollows`). `StartsAlone` says that nothing of an earlier
worker is left when one starts.

**Assistants.** A call that found a row has it by its code, which never changes
(`RowsFound`); a step that undoes something is then one of a call that had read the
row before.

**Authorizations.** `Carried` says how far a callback has come (its state was
issued, its account is stored, the user has a default), `CallbacksAlone` that what a
callback that met no other has looked up is still so, `FlowsLast` that each user of a
GitHub account stands for a state that is used up, and `ResolvesOwn` that a resolution has
found the user's own account.

**Event stream.** Before anything else the bound: what a run has recorded and what it
still has to record fit below `MaxEvents` (`Counts`). Known events are those on the
subject, lost or in a sink (`Known`). An event has its run's numbers and no other event has
its number (`Numbers`); what is known of answers and of the end (`Raws`, `Completing`,
`Alone`, `Over`) gives the archive of a completed run (`Archived`), behind which only
the failure of a learning run can come (`Late`). For the viewers:
events that do not stand in the order of their numbers have been overtaken
(`Ordered`), and what a viewer was sent, misses or waits for is, place by place,
what stands in the stream since it joined (`InOrder`, `Misses`, `Repeats`), but for
what came a second time.

**Runs of a CLI.** The stages of process, scanners, `Wait` and consumer go together
(`Stages`). A line is in a pipe, with a scanner, parsed or cut off
(`LinesAreSomewhere`, `UnscannedIsCut`), a failure that was scanned has been said
(`FailureIsSaid`), and the result is made up only when none was parsed
(`FallbackIsAlone`). Sessions in the row were left by completed runs (`WasLeft`), the
last of them unless something is excused (`LastLeft`).

**Run of the built-in agent.** A run that is not `silent` (learning is) has in its
journal the answers in the order in which they were heard, which is all that were said
but the unread ones (`AnswersInOrder`, `Heard`, `Unread`), and of each tool call what its
stage says: nothing, a start, or a start and one end after it (`CallsAreRecorded`).
`AgentStages` ties the lifecycle, the agent and the loop together; the agent goes
on only when its calls have ended (`CallsEnd`), and the loop ends before it only
after a broken answer that was asked for again or a panic (`BreaksAreKnown`). The
archive is the journal as it was at the end (`ArchiveHasAll`), and the first terminal
event says how the run came to its end, also when a panic changes its status later
(`EndIsMarked`).

**Models.** Under read committed a transaction does not see what the others have
written. A row has one transaction that has written it (`RowsLocked`), what a
request knows of its row stays true (`Reading`, `Writing`), and a default that has been
written meets no other in the table and none in another transaction
(`OneDefault`), which is what the partial unique index gives. At a commit the
transaction has written all it was to write (`CommitsWhole`); with it `DefaultsUnique` is
preserved. `SeedsKnown` and `StartsKnown` are for the starts: one that is about to
create has found its table empty, unless it overlapped another or its count failed.

**Docker scheduler.** Why a running container is in the table is a matter of
names: a name goes to a new container only when the older ones are gone
(`NamesAreUnique`), and what a call has read is still true when it writes because
it holds the lock (`OneCall`, `CallsAreTrue`). `RunningIsListed` is the property
with the window between `docker start` and the entry added, `TakenForGone` says
what the watcher mistook, `TableIsTrue` that the table has a container of the worker
which is watched. A restart keeps them all: it disowns every container that runs.

**Browser connector.** For a connection that never overflowed, being in the table,
having an open queue and having a `readPump` that uses it go together
(`Connected`); everything the code does on a full queue breaks that, and only
that. `PanicIsExplained` then follows at each use of a queue.

**Transcript.** `Archive` is a recursive function over the prefixes of the journal. That
there is such a function (`ArchiveGrows`), and what it is for a prefix
(`ArchiveIsMerged`), are proved with the least number principle: `Merged` says of the records
of the first `n` events that they are in order, that each has the text of all deltas of
its message and kind so far, and that no two are for the same; `MergedByOne` adds an
event. The invariant of the run, `StoryInv`, is that the journal is in order and shown as it
is, and that the ids of different messages differ; `EndTellsAll` puts both together at
the end of the run.

**Where a sentence fails.** In the debouncer, `QuietInv` says that the timers of a key that
are armed or fired have numbers of their own, none newer than the entry's, and that
an open window is that of the latest call. Only a deletion can break it, since the entry
that follows counts from 1 again: `DeletesWhenNoneIsLate` excludes just the
deletion under a goroutine that has fired and waits. For the session's title,
`Alone` makes the copy of every call that saves the row equal to the row, and a call
that generates a title has read a row without the flag. For the seeded model,
`DefaultsAreExplained` has the reasons for a start to fail, and one is left out.
For the tasks of a dead worker (`pipeline_crash`), `PipelineForgetsNothing` is this
theorem; `process_deadlock` refutes a liveness property, and `workers_listen` needs no
more than two workers.

**Model-checked only.** All liveness (`KeepsLivePromise`, `EventuallyAnswered` and
the seven properties of `calls`): the prover does not do it. Every safety property
of a passing run has a theorem.

## 6 Where code and documents disagree

Six runs end in a counterexample, each against a sentence of the repository.

- `debouncer_quiet`. `trailing_debouncer.go:16` promises to run a value "after
  the window is quiet". `takeReady` recognises its call by `entry.seq`, which
  starts again when `finishRun` deletes the entry. A late flush of the old entry
  then runs the new entry's value while its window is open.
- `pipeline_crash`. `docs/DESIGN_PHILOSOPHY.md:136` wants no task state lost at a
  worker restart. The task is acknowledged when the in-memory debouncer has it; a
  worker that dies then leaves the rows `pending`, later `processing`, and
  nothing looks for either.
- `process_deadlock`. `monitorProcess` takes `ps.mu` under `instance.mu`, `Stop`
  and `List` the other way round. A process that ends meanwhile stops both, and
  every later call.
- `session_title`. `renameSession` asks the language model between reading the
  row and saving all of it. A title the user sets meanwhile is lost with its flag,
  where `session_service_test.go:323` expects it to remain.
- `models_start`. `InitDevData` (`infra/db/database.go:179`) seeds a model when it
  counts none. Deleted models are not counted but keep their unique code, so
  after the seeded model has been deleted no process can start.
- `workers_listen`. All workers use one durable consumer name (`pkg/dm/consumer.go:5`)
  for subjects of their own, where `docs/ARCHITECTURE_BACKEND.md:474` gives each
  its own. While one worker has it, every other is refused and exits.

Other behaviour the properties had to be worded around, or that was met on the
way:

Registry, schedulers and connections
- The registry's `writePump` takes `w.mu` for reading twice; `readPump`
  asking for it in between stops the connection, then `listWorkers`, then
  every registration (`SelfLocked`).
- A goroutine of a worker's old connection unregisters the new one; a heartbeat
  then sends on the closed channel and ends the server.
- A welcome message that cannot be written leaves an entry nobody removes. A write
  deadline set for a ping also applies to the next command.
- Docker commands run in the context of the request: one that is cut off, or reports a
  failure, may have started a container that nothing knows of. A server that starts
  again does not look for the containers that run.
- Starting an id that runs overwrites the entry and orphans the process, and the
  old monitor later removes the new entry. `Health` of the process scheduler
  sends an interrupt, which stops the worker. `Stop` of a process that has ended
  fails and leaves the entry to the monitor.
- The docker scheduler's watcher removes by worker id (`dockercli_scheduler.go:197`), so
  that it may forget the successor of its container; a container that could not
  be started keeps its name, and the next `Start` fails.
- The browser connector's handler closes the connection it has just handed to its pumps
  (`connector.go:83`): no connection lasts.

Messages and events
- `AddMessage` that fails at the count has stored its message; its caller is told of an
  error, and a run takes the message all the same.
- The history of a run is the last 20 rows, filtered afterwards: replies and messages that
  wait take places of it.
- A panic in the learning run reports a completed run a second time, as failed.
- A redelivered terminal event becomes a second reply, and a redelivered event is
  shown twice to a browser that asked for new events only; a terminal event that
  cannot be published is only logged, and its messages are completed.
- The 200-message limit is shared by all sessions of a worker, so one session's
  tasks can displace another's only task.
- Two messages added together can have the same number. `Save` of a deleted row
  brings it back; a stale call can reopen an ended session.
- A browser that resumes is filtered by a number that starts again with each
  run, so later runs are skipped up to it and earlier ones replayed.
- A full SSE channel drops events silently, and the subscription behind a closed
  connection is never ended, because gin's context has no `Done` channel unless
  `ContextWithFallback` is set.
- `ProjectRunEventRecord` never meets the completed and failed events it has cases
  for. `session_completed.go` reads the payload of a completed run without a nil
  check when the run has failed.

Agents
- A rate limit in the middle of a streamed answer is an error for the reader, which
  ends the run, and a retry for the framework, which goes on recording
  (`eino/flow.go:226`).
- `cmd.Wait` closes the pipes of a CLI before the scanners are through, so the end of
  its output can be missing. Lines without an id join whichever message spoke last,
  those of stderr included. A cancelled run is reported as failed.
- The tools a request allows are added to the default ones and never restrict them, and
  no tool at all stands for every tool.

Records and files
- A worker is never started for an assistant by the assistants' service: a new
  assistant is a draft. Codes are looked up across organisations.
- `gorm` does not know the tag `unique_index` (`types/user.go:17`,
  `types/organization.go:12`, `types/user_org.go:11`), so no index keeps a GitHub
  account from having two users.
- A built-in skill is truncated before it is copied, and an error there only warns: the
  worker comes up with the rest, and a `SKILL.md` that is cut in its front matter
  keeps the catalog of the next start from loading.
- `InitDevData` ignores the errors of its counts: a table whose count failed is seeded
  again.
- Skills changed through the MCP server reach neither the catalog nor the
  exported copies until something else reloads them.
- `subjectsOverlap` (`nats.go:130`) misses an older subject that ends in `>` and has a
  literal where ours has a wildcard, so that the process cannot start; it finds longer
  ones in vain. What becomes of an older stream under a name still in use
  depends on the order of a Go map.
- `worker.go:174`: `consumer.Start` blocks until its context ends, so what stands after it
  (the functions that close things, the message that the worker has started) is not
  reached while the worker works.

## 7 What is not modelled

Reasons per component are in `PROJECT.json`. In short:

- The worker's half of the WebSocket to the registry, which appears in
  `WorkerRegistry` as a link that may do anything.
- The MCP server of a run and the tools that run commands or read files: handlers
  without state of their own.
- The event engine and `ExpireSessions`, `BeforeCompact`, `BeforeReset`,
  `ClientFactory`: nothing in the program calls them. The docker scheduler and the
  worker's WebSocket client are not called either; the first is modelled, because
  its doc offers it beside the process scheduler.
- Commands, configuration, prompts, the web client and deployments: wiring,
  text and another language.
- In modelled components: message text, prompts and events' payloads; the reads
  (`List`, `Health` of containers, catalog listing); the building of command lines
  and environments; `createWorker` and `getWorkerInfo` of the registry; the
  creation of sessions; identification and routing of requests; webhooks.
- Of the simple-chat agent, one call without tools, nothing is left that `AgentRun`
  does not show.
- The subscription a closed browser connection leaves behind
  (`session_handler.go:228`) costs memory only and has no property.
- `SessionPipeline` has one worker; sessions of different workers share no queue.

## 8 The plan

Done, in this order: `LatestWins`, `TrailingDebouncer` with proofs;
`MessageBatches`, `SessionPipeline` with its first proofs; `WorkerRegistry`;
`ProcessScheduler`; `SessionStore`; `EventStream`; then `DockerScheduler`,
`ModelRegistry`, `MemoryStore`, `ClientHub`, `CliRun`, `AgentRun`, `Transcript`,
`SkillLibrary`, `Authorizations`, `Assistants`, `Streams`, `Subscriptions`; the
proofs about the schedulers, the memory store and the browser connector; those
about the pipeline without crashes; those about the session rows, the registry, the
assistants and authorizations, the event stream, the CLIs, the built-in
agent and the models, and the theorems of the runs `records` and `agents`; those about
the faults of the pipeline, the streams, the skills and the texts of the memory files;
`HistoryIsWhole` for every journal, and what is true of three of the refuted sentences.

Left, by what it would add:

1. An abstract scheduler (started, listed, stopped, gone) that both schedulers
   implement as far as they do.
2. `CliRun` and `SessionStore` composed over one row, instead of `CliRun`'s own
   account of a call that saves an older copy.

## 9 Running it

    tlc -workers 2 -config PipelineFaults.cfg MCSessionPipeline.tla
    tlc -workers 2 -config Agents.cfg MCAgents.tla
    tlapm TrailingDebouncerProofs.tla

Each run's module and configuration are listed in `PROJECT.json`. The largest
runs are `agents` and `records`, which take three to four minutes each with two
workers; `calls` takes less than one. `PartsProofs` takes a quarter of an hour,
`RecordsProofs` nearly as long, and the other proofs some minutes each.
