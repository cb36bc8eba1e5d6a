------------------------------- MODULE CliRun -------------------------------
(***************************************************************************)
(* The runs of one session by an external agent CLI: the runner that       *)
(* resumes the provider's own session and binds it to the session row      *)
(* (agent/externalcli), the invoker that starts the process and turns the  *)
(* lines it prints into events (engines/claude, engines/codex), and the    *)
(* loop that makes a result of the events.                                 *)
(*                                                                         *)
(* The runs of a session follow one another. A process prints to two pipes *)
(* that two goroutines scan while a third waits for the process; the third *)
(* then joins the scanners and closes the channel of events.               *)
(***************************************************************************)
EXTENDS Integers, Sequences

CONSTANTS
  Providers, \* CLIs a request can ask for
  Falls,     \* providers whose last text stands in for a missing result (Claude)
  MaxRuns,   \* bound: runs
  MaxLines,  \* bound: lines a process prints
  MaxLosses, \* bound: times the sessions the CLIs keep are lost
  MaxSaves   \* bound: other writes of the session row

CliAssumption ==
  /\ Falls \subseteq Providers
  /\ MaxRuns \in Nat /\ MaxLines \in Nat /\ MaxLosses \in Nat /\ MaxSaves \in Nat

None == 0

VARIABLES
  binding, \* binding[p]: provider session in the metadata of the session row, or None
  home,    \* home[p]: sessions that the CLI of p can resume
  runs,    \* runs so far; a run that starts a session of the CLI gives it its number
  run,     \* the run: stage, provider, session to resume, and what was consumed
  process, \* the process: stage, exit code, lines printed
  pipes,   \* pipes["out"], pipes["err"]: lines printed and not scanned
  scanner, \* scanner["out"], scanner["err"]: "scanning", "done"
  parse,   \* what the scanner of stdout has remembered
  waiter,  \* the goroutine that waits: "waiting", "joining", "closed"
  events,  \* the channel of events
  cancelled, \* the context of the worker has ended
  losses, saves,
  copy,    \* <<>>, or <<b>>: metadata another call has read and will write with its row
  left,    \* history: left[p], the sessions completed runs of p have left, in order
  excused, \* history: a binding could not be read or stored, or an old row was written
  cut      \* history: lines that were printed and never scanned

cliVars == <<binding, home, runs, run, process, pipes, scanner, parse, waiter, events,
             cancelled, losses, saves, copy, left, excused, cut>>

(* Lines: the session's id, text, a text on stderr, the result, an error   *)
(* as result, and a line beyond the 4 MB that the scanner takes.           *)
Lines == {"init", "text", "warning", "result", "error", "long"}
PipeOf(l) == IF l = "warning" THEN "err" ELSE "out"
Pipes == {"out", "err"}

NoRun == [stage |-> "idle", provider |-> "none", resume |-> None,
          observed |-> None, message |-> "none", resultSeen |-> FALSE]
NoParse == [result |-> FALSE, isError |-> FALSE, text |-> FALSE]
NoProcess == [stage |-> "none", code |-> 0, printed |-> <<>>, id |-> None]

Init ==
  /\ binding = [p \in Providers |-> None]
  /\ home = [p \in Providers |-> {}]
  /\ runs = 0
  /\ run = NoRun
  /\ process = NoProcess
  /\ pipes = [i \in Pipes |-> <<>>]
  /\ scanner = [i \in Pipes |-> "done"]
  /\ parse = NoParse
  /\ waiter = "closed"
  /\ events = <<>>
  /\ cancelled = FALSE
  /\ losses = 0 /\ saves = 0
  /\ copy = <<>>
  /\ left = [p \in Providers |-> <<>>]
  /\ excused = FALSE
  /\ cut = {}

(* Nothing of a run that is over is used again.                            *)
Over ==
  /\ run' = NoRun /\ process' = NoProcess
  /\ pipes' = [i \in Pipes |-> <<>>]
  /\ scanner' = [i \in Pipes |-> "done"]
  /\ parse' = NoParse
  /\ waiter' = "closed"
  /\ events' = <<>>
  /\ cut' = {}

streamVars == <<process, pipes, scanner, parse, waiter, events, cut>>
rowVars == <<binding, saves, copy, left, excused>>
Printed == {process.printed[i] : i \in DOMAIN process.printed}

-----------------------------------------------------------------------------
(* Run of the runner: the binding decides whether the CLI resumes; when it *)
(* cannot be read the CLI starts afresh. The process is started.           *)
StartRun(p) ==
  /\ run.stage = "idle" /\ runs < MaxRuns /\ ~cancelled
  /\ runs' = runs + 1
  /\ \E readable \in BOOLEAN :
       /\ run' = [NoRun EXCEPT !.stage = "consuming", !.provider = p,
                               !.resume = IF readable THEN binding[p] ELSE None]
       /\ excused' = (excused \/ ~readable)
  /\ process' = [NoProcess EXCEPT !.stage = "starting"]
  /\ pipes' = [i \in Pipes |-> <<>>]
  /\ scanner' = [i \in Pipes |-> "scanning"]
  /\ parse' = NoParse
  /\ waiter' = "waiting"
  /\ events' = <<"started">>
  /\ cut' = {}
  /\ UNCHANGED <<home, cancelled, losses, binding, saves, copy, left>>

(* The engine cannot be prepared or its process cannot be started.         *)
StartFails(p) ==
  /\ run.stage = "idle" /\ runs < MaxRuns /\ ~cancelled
  /\ runs' = runs + 1
  /\ UNCHANGED <<home, run, cancelled, losses, rowVars, streamVars>>

(* The CLI, as the invokers use it: it resumes the session that was asked  *)
(* for, under its own or a new id, or fails when it does not have it, or   *)
(* opens one.                                                              *)
Writes(l) ==
  /\ process' = [process EXCEPT !.stage = IF l = "long" THEN "blocked" ELSE "running",
                                !.printed = Append(@, l)]
  /\ pipes' = [pipes EXCEPT ![PipeOf(l)] = Append(@, l)]

CliOpens ==
  LET p == run.provider
      resumed == run.resume # None IN
  /\ process.stage = "starting"
  /\ IF resumed /\ run.resume \notin home[p]
     THEN /\ process' = [process EXCEPT !.stage = "exited", !.code = 1,
                                        !.printed = Append(@, "warning")]
          /\ pipes' = [pipes EXCEPT !["err"] = Append(@, "warning")]
          /\ UNCHANGED home
     ELSE \E id \in {runs} \cup IF resumed THEN {run.resume} ELSE {} :
            /\ process' = [process EXCEPT !.stage = "running", !.printed = Append(@, "init"),
                                          !.id = id]
            /\ pipes' = [pipes EXCEPT !["out"] = Append(@, "init")]
            /\ home' = [home EXCEPT ![p] = @ \cup {id}]
  /\ UNCHANGED <<runs, run, scanner, parse, waiter, events, cancelled, losses, cut, rowVars>>

CliPrints ==
  /\ process.stage = "running" /\ Len(process.printed) < MaxLines
  /\ run.provider \in Falls => Printed \cap {"result", "error"} = {}
  /\ \E l \in Lines \ {"init"} : Writes(l)
  /\ UNCHANGED <<home, runs, run, scanner, parse, waiter, events, cancelled, losses, cut, rowVars>>

(* It exits, with 0 or, not least when it is killed as its context ends,   *)
(* with another code. One that prints a line nobody scans is blocked, and  *)
(* does not exit.                                                          *)
CliExits ==
  /\ process.stage \in {"starting", "running"} \/ (process.stage = "blocked" /\ cancelled)
  /\ \E code \in 0..1 :
       /\ code = 0 => process.stage = "running"
       /\ process' = [process EXCEPT !.stage = "exited", !.code = code]
  /\ UNCHANGED <<home, runs, run, pipes, scanner, parse, waiter, events, cancelled, losses,
                 cut, rowVars>>

-----------------------------------------------------------------------------
(* What a line becomes: parseClaudeLineEvents, parseCodexLineWithState and *)
(* scanPlainOutput. The result is remembered beside its event; an error    *)
(* has no event of its own.                                                *)
EventsOf(l) ==
  CASE l = "init" -> <<"session">>
    [] l = "text" -> <<"text">>
    [] l = "warning" -> <<"warning">>
    [] l = "result" -> <<"result">>
    [] l = "error" -> <<>>

Remember(l) ==
  [result |-> parse.result \/ l = "result",
   isError |-> parse.isError \/ l = "error",
   text |-> parse.text \/ l = "text"]

(* A scanner takes a line and sends its event. When the context has ended  *)
(* it may drop the event, and then scans no more.                          *)
Scan(i) ==
  LET l == Head(pipes[i]) IN
  /\ scanner[i] = "scanning" /\ pipes[i] # <<>> /\ l # "long"
  /\ pipes' = [pipes EXCEPT ![i] = Tail(@)]
  /\ parse' = Remember(l)
  /\ \/ events' = events \o EventsOf(l) /\ UNCHANGED <<scanner, cut>>
     \/ /\ cancelled /\ EventsOf(l) # <<>>
        /\ scanner' = [scanner EXCEPT ![i] = "done"]
        /\ cut' = cut \cup {l}
        /\ UNCHANGED events
  /\ UNCHANGED <<home, runs, run, process, waiter, cancelled, losses, rowVars>>

(* The line is too long, or there is nothing more to read.                 *)
ScanEnds(i) ==
  /\ scanner[i] = "scanning"
  /\ \/ pipes[i] # <<>> /\ Head(pipes[i]) = "long"
     \/ pipes[i] = <<>> /\ process.stage = "exited"
  /\ scanner' = [scanner EXCEPT ![i] = "done"]
  /\ UNCHANGED <<home, runs, run, process, pipes, parse, waiter, events, cancelled, losses,
                 cut, rowVars>>

(* Wait returns when the process has exited, and closes the pipes: what no *)
(* scanner has in its buffer by then is lost.                              *)
WaitReturns ==
  /\ waiter = "waiting" /\ process.stage = "exited"
  /\ waiter' = "joining"
  /\ \E kept \in [Pipes -> 0..MaxLines] :
       /\ \A i \in Pipes : kept[i] <= Len(pipes[i])
       /\ pipes' = [i \in Pipes |-> SubSeq(pipes[i], 1, kept[i])]
       /\ cut' = cut \cup UNION {{pipes[i][n] : n \in kept[i] + 1 .. Len(pipes[i])} : i \in Pipes}
  /\ UNCHANGED <<home, runs, run, process, scanner, parse, events, cancelled, losses, rowVars>>

Unscanned == UNION {{pipes[i][n] : n \in DOMAIN pipes[i]} : i \in Pipes}

(* Mutant: the exit code is not looked at. *)
CloseUnchecked ==
  /\ waiter = "joining" /\ \A i \in Pipes : scanner[i] = "done"
  /\ waiter' = "closed"
  /\ cut' = cut \cup Unscanned
  /\ events' = events \o <<IF parse.isError THEN "failed" ELSE "completed">>
  /\ UNCHANGED <<home, runs, run, process, pipes, scanner, parse, cancelled, losses, rowVars>>

(* Mutant: the channel is not closed when the context ends as the result is sent. *)
CloseForgotten ==
  LET fallback == run.provider \in Falls /\ ~parse.result /\ parse.text IN
  /\ waiter = "joining" /\ \A i \in Pipes : scanner[i] = "done"
  /\ cut' = cut \cup Unscanned
  /\ \/ /\ waiter' = "closed"
        /\ events' = events \o <<IF process.code = 0 THEN "completed" ELSE "failed">>
     \/ /\ process.code = 0 /\ ~parse.isError /\ fallback /\ cancelled
        /\ waiter' = "over"
        /\ UNCHANGED events
  /\ UNCHANGED <<home, runs, run, process, pipes, scanner, parse, cancelled, losses, rowVars>>

(* The scanners are joined and the last events sent. Claude's last text is *)
(* its result when there was none; the channel is closed without a last    *)
(* event when the context ends as that result is sent.                     *)
Close ==
  LET fallback == run.provider \in Falls /\ ~parse.result /\ parse.text IN
  /\ waiter = "joining" /\ \A i \in Pipes : scanner[i] = "done"
  /\ waiter' = "closed"
  /\ cut' = cut \cup Unscanned
  /\ \/ /\ process.code # 0 \/ (parse.isError /\ run.provider \in Falls)
        /\ events' = events \o <<"failed">>
     \/ /\ process.code = 0 /\ ~(parse.isError /\ run.provider \in Falls)
        /\ events' = events \o (IF fallback THEN <<"fallback", "completed">> ELSE <<"completed">>)
     \/ /\ process.code = 0 /\ ~parse.isError /\ fallback /\ cancelled
        /\ UNCHANGED events
  /\ UNCHANGED <<home, runs, run, process, pipes, scanner, parse, cancelled, losses, rowVars>>

-----------------------------------------------------------------------------
(* consumeEvents: a result replaces what was said so far, and nothing is   *)
(* added to it any more.                                                   *)
Consume ==
  LET e == Head(events) IN
  /\ run.stage = "consuming" /\ events # <<>>
  /\ e # "failed"
  /\ events' = Tail(events)
  /\ run' = CASE e = "started" -> run
              [] e = "session" -> [run EXCEPT !.observed = process.id]
              [] e \in {"text", "warning"} ->
                   IF run.resultSeen THEN run ELSE [run EXCEPT !.message = "said"]
              [] e = "result" -> [run EXCEPT !.message = "result", !.resultSeen = TRUE]
              [] e = "fallback" -> [run EXCEPT !.message = "said", !.resultSeen = TRUE]
              [] e = "completed" -> [run EXCEPT !.stage = "storing"]
  /\ UNCHANGED <<home, runs, process, pipes, scanner, parse, waiter, cancelled, losses, cut, rowVars>>

ConsumeFailed ==
  /\ run.stage = "consuming" /\ events # <<>> /\ Head(events) = "failed"
  /\ Over
  /\ UNCHANGED <<home, runs, cancelled, losses, rowVars>>

(* A channel that is closed without a last event ends the run well.        *)
ConsumeClosed ==
  /\ run.stage = "consuming" /\ events = <<>> /\ waiter = "closed"
  /\ run' = [run EXCEPT !.stage = "storing"]
  /\ UNCHANGED <<home, runs, cancelled, losses, rowVars, streamVars>>

Left == IF run.observed # None THEN run.observed ELSE run.resume

(* Mutant: the binding is stored without a look at the provider. *)
StoreBindingForAll ==
  /\ run.stage = "storing"
  /\ Over
  /\ binding' = [p \in Providers |-> Left]
  /\ left' = [left EXCEPT ![run.provider] = Append(@, Left)]
  /\ UNCHANGED <<home, runs, cancelled, losses, saves, copy, excused>>

(* persistProviderSession, after a run that completed: the row is locked,  *)
(* its metadata changed and written. A failure is logged. A failed run     *)
(* leaves the binding as it is, here and in MarkFailed.                    *)
StoreBinding ==
  LET p == run.provider
      same == Left = None \/ Left = run.resume IN
  /\ run.stage = "storing"
  /\ Over
  /\ left' = [left EXCEPT ![p] = IF Left = None THEN @ ELSE Append(@, Left)]
  /\ \/ /\ binding' = IF same THEN binding ELSE [binding EXCEPT ![p] = Left]
        /\ UNCHANGED excused
     \/ ~same /\ excused' = TRUE /\ UNCHANGED binding
  /\ UNCHANGED <<home, runs, cancelled, losses, saves, copy>>

(* Another call of the session service reads the row, and writes all of it *)
(* later: the metadata it has read comes back.                             *)
ReadRow ==
  /\ copy = <<>> /\ saves < MaxSaves
  /\ copy' = <<binding>>
  /\ saves' = saves + 1
  /\ UNCHANGED <<binding, left, excused, home, runs, run, cancelled, losses, streamVars>>

SaveRow ==
  /\ copy # <<>> /\ copy' = <<>>
  /\ binding' = copy[1]
  /\ excused' = (excused \/ copy[1] # binding)
  /\ UNCHANGED <<saves, left, home, runs, run, cancelled, losses, streamVars>>

(* The CLIs keep their sessions in the home directory of the worker, which *)
(* a new container does not have.                                          *)
LoseHome ==
  /\ run.stage = "idle" /\ losses < MaxLosses
  /\ losses' = losses + 1
  /\ home' = [p \in Providers |-> {}]
  /\ UNCHANGED <<runs, run, cancelled, rowVars, streamVars>>

(* The worker is asked to stop.                                            *)
Cancel ==
  /\ ~cancelled /\ cancelled' = TRUE
  /\ UNCHANGED <<home, runs, run, losses, rowVars, streamVars>>

-----------------------------------------------------------------------------
Reading ==
  \/ WaitReturns \/ Close
  \/ \E i \in Pipes : Scan(i) \/ ScanEnds(i)
Stream == CliOpens \/ CliExits \/ Reading
Finish == Consume \/ ConsumeFailed \/ ConsumeClosed \/ StoreBinding

Next ==
  \/ \E p \in Providers : StartRun(p) \/ StartFails(p)
  \/ CliPrints \/ Stream \/ Finish
  \/ ReadRow \/ SaveRow \/ LoseHome \/ Cancel

(* A CLI that hangs is only ended by the worker's stop, which kills it: no *)
(* run is given a timeout.                                                 *)
Killed == cancelled /\ CliExits

Spec == Init /\ [][Next]_cliVars

-----------------------------------------------------------------------------
TypeOK ==
  /\ binding \in [Providers -> 0..MaxRuns]
  /\ home \in [Providers -> SUBSET (1..MaxRuns)]
  /\ run.stage # "idle" => run.provider \in Providers
  /\ run.resume \in 0..MaxRuns
  /\ run.stage \in {"idle", "consuming", "storing"}
  /\ process.stage \in {"none", "starting", "running", "blocked", "exited"}
  /\ scanner \in [Pipes -> {"scanning", "done"}]
  /\ waiter \in {"waiting", "joining", "closed"}

(* A run that is reported as completed is one whose process exited with 0, *)
(* and what it reports is the result the CLI printed, and no error, unless *)
(* that line was cut off before it was scanned: the order in which the two *)
(* pipes, the exit and the channel are seen makes no other difference.     *)
CompletedIsSuccess ==
  run.stage = "storing" =>
    /\ process.code = 0
    /\ "error" \in Printed \ cut => run.provider \notin Falls
    /\ "result" \in Printed \ cut => run.message = "result"

(* A run resumes a session that a completed run with the same CLI has      *)
(* left, never one of another CLI or of a failed run, and it resumes the   *)
(* last one, unless that could not be read or stored or another call has   *)
(* written the row it had read before.                                     *)
ResumesLastSession ==
  run.stage = "consuming" =>
    /\ run.resume \in {None} \cup {left[run.provider][i] : i \in DOMAIN left[run.provider]}
    /\ excused \/ run.resume = IF left[run.provider] = <<>> THEN None
                               ELSE left[run.provider][Len(left[run.provider])]

(* A run ends once its process has exited or the worker has been asked to  *)
(* stop, in whatever order the pipes, the exit and the channel are seen.   *)
(* While the process lives, or is blocked on a line that is too long for   *)
(* the scanner, nothing ends the run: it has no timeout.                   *)
RunsEnd == []<>(run.stage = "idle" \/ (process.stage # "exited" /\ ~cancelled))
=============================================================================
