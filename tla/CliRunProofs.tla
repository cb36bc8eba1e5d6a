---------------------------- MODULE CliRunProofs ----------------------------
(***************************************************************************)
(* Proofs about CliRun for any providers and bounds: a run that is reported *)
(* as completed has succeeded and carries the printed result, and a run    *)
(* resumes the session its provider left last.                             *)
(***************************************************************************)
EXTENDS CliRun, SequenceTheorems, TLAPS

Kinds == {"started", "session", "text", "warning", "result", "fallback", "completed", "failed"}
Sessions == 0..MaxRuns
Bindings == [Providers -> Sessions]
Elems(s) == {s[i] : i \in DOMAIN s}

RunType ==
  [stage : {"idle", "consuming", "storing"}, provider : Providers \cup {"none"},
   resume : Sessions, observed : Sessions, message : {"none", "said", "result"},
   resultSeen : BOOLEAN]

ProcessType ==
  [stage : {"none", "starting", "running", "blocked", "exited"}, code : 0..1,
   printed : Seq(Lines), id : Sessions]

RowTypes ==
  /\ binding \in Bindings
  /\ copy = <<>> \/ \E b \in Bindings : copy = <<b>>
  /\ left \in [Providers -> Seq(Sessions)]
  /\ excused \in BOOLEAN

RunTypes ==
  /\ runs \in Sessions
  /\ run \in RunType
  /\ run.stage # "idle" => run.provider \in Providers /\ runs # 0

StreamTypes ==
  /\ home \in [Providers -> SUBSET (1..MaxRuns)]
  /\ process \in ProcessType
  /\ pipes \in [Pipes -> Seq(Lines)]
  /\ scanner \in [Pipes -> {"scanning", "done"}]
  /\ parse \in [result : BOOLEAN, isError : BOOLEAN, text : BOOLEAN]
  /\ waiter \in {"waiting", "joining", "closed"}
  /\ events \in Seq(Kinds)

Types == RowTypes /\ RunTypes /\ StreamTypes

(* The waiting goroutine moves on when the process has exited and closes   *)
(* the channel when the scanners are done; a run that has ended its loop   *)
(* has emptied the channel.                                                *)
Stages ==
  /\ run.stage = "idle" => process = NoProcess /\ waiter = "closed" /\ events = <<>>
                           /\ parse = NoParse /\ cut = {} /\ pipes = [i \in Pipes |-> <<>>]
  /\ run.stage = "storing" => waiter = "closed" /\ events = <<>>
  /\ run.stage # "idle" /\ waiter # "waiting" => process.stage = "exited"
  /\ waiter = "closed" => \A i \in Pipes : scanner[i] = "done"

(* The last event of a run is sent as the channel is closed.               *)
LastIsLast ==
  \A i \in DOMAIN events :
    events[i] \in {"completed", "failed"} => i = Len(events) /\ waiter = "closed"

Succeeded == process.code = 0 /\ ~(parse.isError /\ run.provider \in Falls)

FailureIsSaid ==
  run.stage # "idle" /\ waiter = "closed" /\ ~Succeeded => "failed" \in Elems(events)

(* A printed result or error waits in its pipe, was scanned or was cut;    *)
(* a scanned result waits in the channel, was consumed or was cut.         *)
LinesAreSomewhere ==
  /\ "result" \in Printed => parse.result \/ "result" \in cut \cup Elems(pipes["out"])
  /\ "error" \in Printed => parse.isError \/ "error" \in cut \cup Elems(pipes["out"])
  /\ parse.result => run.message = "result" \/ "result" \in cut \cup Elems(events)
  /\ run.message = "result" => run.resultSeen

(* What is in a pipe when the channel is closed counts as cut.             *)
UnscannedIsCut == waiter = "closed" => \A i \in Pipes : Elems(pipes[i]) \subseteq cut

FallbackIsAlone == "fallback" \in Elems(events) => waiter = "closed" /\ ~parse.result

Flow ==
  /\ Stages /\ LastIsLast /\ FailureIsSaid
  /\ LinesAreSomewhere /\ UnscannedIsCut /\ FallbackIsAlone

(* What a binding may be, and what it is when nothing has gone wrong.      *)
WasLeft(p, s) == s \in {None} \cup Elems(left[p])
LastLeft(p) == IF left[p] = <<>> THEN None ELSE left[p][Len(left[p])]

Rows ==
  /\ \A p \in Providers : WasLeft(p, binding[p])
  /\ \A p \in Providers : ~excused => binding[p] = LastLeft(p)
  /\ copy # <<>> => \A p \in Providers : WasLeft(p, copy[1][p])
  /\ run.stage # "idle" => WasLeft(run.provider, run.resume)
  /\ run.stage # "idle" /\ ~excused => run.resume = binding[run.provider]

IInv == Types /\ Flow /\ Rows

-----------------------------------------------------------------------------
LEMMA ElemsOfAppend == ASSUME NEW S, NEW s \in Seq(S), NEW x \in S
  PROVE /\ Append(s, x) \in Seq(S) /\ Elems(Append(s, x)) = Elems(s) \cup {x}
        /\ Append(s, x) # <<>> /\ Append(s, x)[Len(Append(s, x))] = x
<1>1. Append(s, x) \in Seq(S) /\ Len(Append(s, x)) = Len(s) + 1
      /\ \A i \in 1..Len(s) : Append(s, x)[i] = s[i]
      /\ Append(s, x)[Len(s) + 1] = x /\ Len(s) \in Nat
  OBVIOUS
<1>2. DOMAIN s = 1..Len(s) /\ DOMAIN Append(s, x) = 1..(Len(s) + 1)
  BY <1>1
<1>3. Append(s, x) # <<>>
  BY <1>1
<1> QED
  BY <1>1, <1>2, <1>3 DEF Elems

LEMMA ElemsOfTail == ASSUME NEW S, NEW s \in Seq(S), s # <<>>
  PROVE /\ Tail(s) \in Seq(S) /\ Head(s) \in S /\ Elems(s) = {Head(s)} \cup Elems(Tail(s))
        /\ Len(Tail(s)) = Len(s) - 1 /\ Len(s) \in Nat \ {0} /\ Head(s) = s[1]
        /\ DOMAIN s = 1..Len(s) /\ DOMAIN Tail(s) = 1..(Len(s) - 1)
        /\ \A i \in 1..(Len(s) - 1) : Tail(s)[i] = s[i + 1]
<1>1. Tail(s) \in Seq(S) /\ Len(Tail(s)) = Len(s) - 1 /\ Len(s) \in Nat \ {0} /\ Head(s) = s[1]
      /\ \A i \in 1..(Len(s) - 1) : Tail(s)[i] = s[i + 1]
  OBVIOUS
<1>2. DOMAIN s = 1..Len(s) /\ DOMAIN Tail(s) = 1..(Len(s) - 1)
  BY <1>1
<1>3. Head(s) \in S
  BY <1>1, <1>2
<1>4. ASSUME NEW i \in 1..Len(s) PROVE s[i] \in {Head(s)} \cup Elems(Tail(s))
  <2>1. CASE i = 1
    BY <2>1, <1>1
  <2>2. CASE i # 1
    <3>1. i - 1 \in 1..(Len(s) - 1) /\ (i - 1) + 1 = i
      BY <2>2, <1>1
    <3>2. Tail(s)[i - 1] = s[i]
      BY <3>1, <1>1
    <3> QED
      BY <3>1, <3>2, <1>2 DEF Elems
  <2> QED
    BY <2>1, <2>2
<1>5. ASSUME NEW i \in 1..(Len(s) - 1) PROVE Tail(s)[i] \in Elems(s)
  BY <1>1, <1>2 DEF Elems
<1>6. Head(s) \in Elems(s)
  BY <1>1, <1>2 DEF Elems
<1> QED
  BY <1>1, <1>2, <1>3, <1>4, <1>5, <1>6 DEF Elems

LEMMA ElemsOfEmpty == Elems(<<>>) = {}
BY DEF Elems

LEMMA ElemsOfPrefix == ASSUME NEW S, NEW s \in Seq(S), NEW k \in Nat, k <= Len(s)
  PROVE /\ SubSeq(s, 1, k) \in Seq(S)
        /\ Elems(s) = Elems(SubSeq(s, 1, k)) \cup {s[n] : n \in k + 1 .. Len(s)}
<1>1. SubSeq(s, 1, k) \in Seq(S) /\ Len(SubSeq(s, 1, k)) = k
      /\ \A i \in 1..k : SubSeq(s, 1, k)[i] = s[i]
  OBVIOUS
<1>2. DOMAIN s = 1..Len(s) /\ DOMAIN SubSeq(s, 1, k) = 1..k /\ Len(s) \in Nat
  BY <1>1
<1>3. Elems(SubSeq(s, 1, k)) = {s[n] : n \in 1..k}
  BY <1>1, <1>2 DEF Elems
<1>4. Elems(s) = {s[n] : n \in 1..Len(s)}
  BY <1>2 DEF Elems
<1>5. 1..Len(s) = (1..k) \cup (k + 1 .. Len(s))
  BY <1>2
<1>6. Elems(s) = {s[n] : n \in 1..k} \cup {s[n] : n \in k + 1 .. Len(s)}
  BY <1>4, <1>5
<1> QED
  BY <1>1, <1>3, <1>6

-----------------------------------------------------------------------------
LEMMA FirstState == ASSUME CliAssumption PROVE Init => IInv
<1> SUFFICES ASSUME Init PROVE IInv
  OBVIOUS
<1>1. 0 \in Sessions /\ MaxRuns \in Nat
  BY DEF CliAssumption, Sessions
<1>2. RowTypes
  <2>1. binding \in Bindings
    BY <1>1 DEF Init, Bindings, None
  <2>2. <<>> \in Seq(Sessions)
    OBVIOUS
  <2>3. left \in [Providers -> Seq(Sessions)]
    BY <2>2 DEF Init
  <2> QED
    BY <2>1, <2>3 DEF Init, RowTypes
<1>3. RunTypes
  BY <1>1 DEF Init, RunTypes, RunType, NoRun, None
<1>4. StreamTypes
  BY <1>1 DEF Init, StreamTypes, ProcessType, NoProcess, NoParse, None
<1>5. Flow
  BY <1>1, ElemsOfEmpty
     DEF Init, Flow, Stages, LastIsLast, FailureIsSaid, LinesAreSomewhere, UnscannedIsCut,
         FallbackIsAlone, NoRun, NoProcess, NoParse, Printed
<1>6. Rows
  BY DEF Init, Rows, WasLeft, LastLeft, NoRun, None
<1> QED
  BY <1>2, <1>3, <1>4, <1>5, <1>6 DEF IInv, Types

(* After a run nothing of it is left.                                      *)
LEMMA OverIsClean == ASSUME CliAssumption, Over, runs' = runs, runs \in Sessions, UNCHANGED home,
                            home \in [Providers -> SUBSET (1..MaxRuns)]
  PROVE RunTypes' /\ StreamTypes' /\ Flow' /\ run'.stage = "idle"
<1>1. 0 \in Sessions /\ MaxRuns \in Nat
  BY DEF CliAssumption, Sessions
<1>2. RunTypes' /\ run'.stage = "idle"
  BY <1>1 DEF Over, RunTypes, RunType, NoRun, None
<1>3. StreamTypes'
  BY <1>1 DEF Over, StreamTypes, ProcessType, NoProcess, NoParse, None
<1>4. Flow'
  BY <1>1, ElemsOfEmpty
     DEF Over, Flow, Stages, LastIsLast, FailureIsSaid, LinesAreSomewhere, UnscannedIsCut,
         FallbackIsAlone, NoRun, NoProcess, NoParse, Printed
<1> QED
  BY <1>2, <1>3, <1>4

-----------------------------------------------------------------------------
LEMMA StartRunKeeps == ASSUME CliAssumption, IInv, NEW p \in Providers, StartRun(p) PROVE IInv'
<1>1. 0 \in Sessions /\ MaxRuns \in Nat /\ runs \in Sessions /\ binding \in Bindings
  BY DEF CliAssumption, Sessions, IInv, Types, RunTypes, RowTypes
<1>2. PICK readable \in BOOLEAN :
        /\ run' = [NoRun EXCEPT !.stage = "consuming", !.provider = p,
                                !.resume = IF readable THEN binding[p] ELSE None]
        /\ excused' = (excused \/ ~readable)
  BY DEF StartRun
<1>3. run' = [stage |-> "consuming", provider |-> p, resume |-> IF readable THEN binding[p] ELSE None,
              observed |-> None, message |-> "none", resultSeen |-> FALSE]
  BY <1>2 DEF NoRun
<1>4. process' = [stage |-> "starting", code |-> 0, printed |-> <<>>, id |-> None]
  BY DEF StartRun, NoProcess
<1>5. RowTypes'
  BY <1>2 DEF StartRun, IInv, Types, RowTypes
<1>6. RunTypes'
  <2>1. (IF readable THEN binding[p] ELSE None) \in Sessions /\ None \in Sessions
    BY <1>1 DEF Bindings, None
  <2>2. run' \in RunType /\ run'.provider \in Providers
    BY <1>3, <2>1 DEF RunType
  <2>3. runs' \in Sessions /\ runs' # 0
    BY <1>1 DEF StartRun, Sessions
  <2> QED
    BY <2>2, <2>3 DEF RunTypes
<1>7. StreamTypes'
  <2>1. events' \in Seq(Kinds)
    BY DEF StartRun, Kinds
  <2>2. process' \in ProcessType
    BY <1>1, <1>4 DEF ProcessType, None
  <2> QED
    BY <2>1, <2>2 DEF StartRun, IInv, Types, StreamTypes, NoParse
<1>8. Flow'
  <2>1. Elems(events') = {"started"} /\ Len(events') = 1 /\ DOMAIN events' = {1} /\ events'[1] = "started"
    BY DEF StartRun, Elems
  <2>2. Printed' = {}
    BY <1>4 DEF Printed
  <2> QED
    BY <1>3, <2>1, <2>2
       DEF StartRun, Flow, Stages, LastIsLast, FailureIsSaid, LinesAreSomewhere, UnscannedIsCut,
           FallbackIsAlone, NoParse
<1>9. Rows'
  <2>1. run'.resume = IF readable THEN binding[p] ELSE None
    BY <1>3
  <2>2. run'.provider = p /\ run'.stage # "idle"
    BY <1>3
  <2>3. UNCHANGED <<binding, copy, left>>
    BY DEF StartRun
  <2> QED
    BY <1>2, <2>1, <2>2, <2>3 DEF IInv, Rows, WasLeft, LastLeft, Types, RowTypes, None
<1> QED
  BY <1>5, <1>6, <1>7, <1>8, <1>9 DEF IInv, Types

(* What the process and its scanners do leaves the row alone.              *)
LEMMA RowUntouched == ASSUME IInv, UNCHANGED <<rowVars, run, runs>> PROVE RowTypes' /\ RunTypes' /\ Rows'
<1>1. RowTypes' /\ RunTypes'
  BY DEF IInv, Types, RowTypes, RunTypes, rowVars
<1> QED
  BY <1>1 DEF IInv, Rows, WasLeft, LastLeft, rowVars

(* What a CLI that starts or gives up does.                                *)
Opened(l, id, s, c, i) ==
  /\ process' = [process EXCEPT !.stage = s, !.code = c, !.printed = Append(@, l), !.id = id]
  /\ pipes' = [pipes EXCEPT ![i] = Append(@, l)]
  /\ home' \in [Providers -> SUBSET (1..MaxRuns)]

LEMMA CliOpensKeeps == ASSUME CliAssumption, IInv, CliOpens PROVE IInv'
<1>1. RowTypes' /\ RunTypes' /\ Rows'
  BY RowUntouched DEF CliOpens, rowVars
<1>2. run.stage # "idle" /\ waiter = "waiting"
  <2>1. process.stage = "starting"
    BY DEF CliOpens
  <2>2. NoProcess.stage = "none"
    BY DEF NoProcess
  <2> QED
    BY <2>1, <2>2 DEF IInv, Flow, Stages
<1>3. PICK l \in {"init", "warning"}, id \in Sessions, s \in {"exited", "running"}, c \in 0..1, i \in Pipes :
        Opened(l, id, s, c, i)
  <2>1. run.provider \in Providers /\ runs \in 1..MaxRuns /\ run.resume \in Sessions /\ MaxRuns \in Nat
    BY <1>2 DEF IInv, Types, RunTypes, RunType, Sessions, CliAssumption
  <2>2. process \in ProcessType /\ home \in [Providers -> SUBSET (1..MaxRuns)]
    BY DEF IInv, Types, StreamTypes
  <2>3. process = [stage |-> process.stage, code |-> process.code, printed |-> process.printed, id |-> process.id]
        /\ process.id \in Sessions /\ process.code \in 0..1
    BY <2>2 DEF ProcessType
  <2>4. CASE run.resume # None /\ run.resume \notin home[run.provider]
    <3>1. process' = [process EXCEPT !.stage = "exited", !.code = 1, !.printed = Append(@, "warning"), !.id = process.id]
      BY <2>3, <2>4 DEF CliOpens
    <3>2. pipes' = [pipes EXCEPT !["err"] = Append(@, "warning")] /\ home' = home
      BY <2>4 DEF CliOpens
    <3>3. Opened("warning", process.id, "exited", 1, "err")
      BY <2>2, <3>1, <3>2 DEF Opened
    <3> QED
      BY <2>3, <3>3 DEF Pipes
  <2>5. CASE ~(run.resume # None /\ run.resume \notin home[run.provider])
    <3>1. PICK id \in {runs} \cup IF run.resume # None THEN {run.resume} ELSE {} :
            /\ process' = [process EXCEPT !.stage = "running", !.printed = Append(@, "init"), !.id = id]
            /\ pipes' = [pipes EXCEPT !["out"] = Append(@, "init")]
            /\ home' = [home EXCEPT ![run.provider] = @ \cup {id}]
      BY <2>5 DEF CliOpens
    <3>2. id \in 1..MaxRuns
      BY <2>1 DEF Sessions, None
    <3>3. process' = [process EXCEPT !.stage = "running", !.code = process.code, !.printed = Append(@, "init"), !.id = id]
      BY <2>3, <3>1
    <3>4. home' \in [Providers -> SUBSET (1..MaxRuns)]
      BY <2>1, <2>2, <3>1, <3>2
    <3>5. id \in Sessions
      BY <2>1, <3>2 DEF Sessions
    <3>6. Opened("init", id, "running", process.code, "out")
      BY <3>1, <3>3, <3>4 DEF Opened
    <3> QED
      BY <2>3, <3>5, <3>6 DEF Pipes
  <2> QED
    BY <2>4, <2>5
<1>4. process \in ProcessType /\ pipes \in [Pipes -> Seq(Lines)] /\ l \in Lines
  BY DEF IInv, Types, StreamTypes, Lines
<1>5. process.printed \in Seq(Lines) /\ pipes[i] \in Seq(Lines)
  BY <1>4 DEF ProcessType
<1>6. Append(process.printed, l) \in Seq(Lines) /\ Append(pipes[i], l) \in Seq(Lines)
      /\ Printed' = Printed \cup {l} /\ Elems(pipes'[i]) = Elems(pipes[i]) \cup {l}
      /\ \A j \in Pipes \ {i} : pipes'[j] = pipes[j]
  <2>1. process'.printed = Append(process.printed, l) /\ pipes'[i] = Append(pipes[i], l)
    BY <1>3, <1>4 DEF Opened, ProcessType
  <2>2. Elems(Append(process.printed, l)) = Elems(process.printed) \cup {l}
        /\ Append(process.printed, l) \in Seq(Lines)
    BY <1>4, <1>5, ElemsOfAppend
  <2>3. Elems(Append(pipes[i], l)) = Elems(pipes[i]) \cup {l} /\ Append(pipes[i], l) \in Seq(Lines)
    BY <1>4, <1>5, ElemsOfAppend
  <2>4. Printed = Elems(process.printed) /\ Printed' = Elems(process'.printed)
    BY DEF Printed, Elems
  <2> QED
    BY <1>3, <1>4, <2>1, <2>2, <2>3, <2>4 DEF Opened
<1>7. process' \in ProcessType /\ pipes' \in [Pipes -> Seq(Lines)]
  BY <1>3, <1>4, <1>6 DEF Opened, ProcessType
<1>8. StreamTypes'
  BY <1>3, <1>7 DEF Opened, CliOpens, IInv, Types, StreamTypes
<1>9. Elems(pipes["out"]) \subseteq Elems(pipes'["out"])
  BY <1>3, <1>6 DEF Opened, Pipes
<1>10. Flow'
  BY <1>2, <1>3, <1>6, <1>9
     DEF Opened, CliOpens, IInv, Flow, Stages, LastIsLast, FailureIsSaid, LinesAreSomewhere, UnscannedIsCut,
         FallbackIsAlone
<1> QED
  BY <1>1, <1>8, <1>10 DEF IInv, Types

LEMMA CliPrintsKeeps == ASSUME CliAssumption, IInv, CliPrints PROVE IInv'
<1>1. RowTypes' /\ RunTypes' /\ Rows'
  BY RowUntouched DEF CliPrints, rowVars
<1>2. run.stage # "idle" /\ waiter = "waiting"
  <2>1. process.stage = "running"
    BY DEF CliPrints
  <2>2. NoProcess.stage = "none"
    BY DEF NoProcess
  <2> QED
    BY <2>1, <2>2 DEF IInv, Flow, Stages
<1>3. PICK l \in Lines : Writes(l)
  BY DEF CliPrints
<1>4. PICK s \in {"blocked", "running"} :
        process' = [process EXCEPT !.stage = s, !.printed = Append(@, l)]
  BY <1>3 DEF Writes
<1>5. PipeOf(l) \in Pipes /\ pipes' = [pipes EXCEPT ![PipeOf(l)] = Append(@, l)]
      /\ (l \in {"result", "error"} => PipeOf(l) = "out")
  BY <1>3 DEF Writes, PipeOf, Pipes
<1>6. process \in ProcessType /\ pipes \in [Pipes -> Seq(Lines)]
  BY DEF IInv, Types, StreamTypes
<1>7. process.printed \in Seq(Lines) /\ pipes[PipeOf(l)] \in Seq(Lines)
  BY <1>5, <1>6 DEF ProcessType
<1>8. /\ Append(process.printed, l) \in Seq(Lines) /\ Append(pipes[PipeOf(l)], l) \in Seq(Lines)
      /\ Printed' = Printed \cup {l} /\ Elems(pipes'[PipeOf(l)]) = Elems(pipes[PipeOf(l)]) \cup {l}
      /\ \A j \in Pipes \ {PipeOf(l)} : pipes'[j] = pipes[j]
  <2>1. process'.printed = Append(process.printed, l) /\ pipes'[PipeOf(l)] = Append(pipes[PipeOf(l)], l)
    BY <1>4, <1>5, <1>6 DEF ProcessType
  <2>2. Elems(Append(process.printed, l)) = Elems(process.printed) \cup {l}
        /\ Append(process.printed, l) \in Seq(Lines)
    BY <1>7, ElemsOfAppend
  <2>3. Elems(Append(pipes[PipeOf(l)], l)) = Elems(pipes[PipeOf(l)]) \cup {l}
        /\ Append(pipes[PipeOf(l)], l) \in Seq(Lines)
    BY <1>7, ElemsOfAppend
  <2>4. Printed = Elems(process.printed) /\ Printed' = Elems(process'.printed)
    BY DEF Printed, Elems
  <2> QED
    BY <1>5, <1>6, <2>1, <2>2, <2>3, <2>4
<1>9. StreamTypes'
  <2>1. process' \in ProcessType
    BY <1>4, <1>6, <1>8 DEF ProcessType
  <2>2. pipes' \in [Pipes -> Seq(Lines)]
    BY <1>5, <1>6, <1>8
  <2> QED
    BY <2>1, <2>2 DEF CliPrints, IInv, Types, StreamTypes
<1>10. Elems(pipes["out"]) \subseteq Elems(pipes'["out"])
       /\ (l \in {"result", "error"} => l \in Elems(pipes'["out"]))
  BY <1>5, <1>8 DEF Pipes
<1>11. Flow'
  BY <1>2, <1>8, <1>10
     DEF CliPrints, IInv, Flow, Stages, LastIsLast, FailureIsSaid, LinesAreSomewhere, UnscannedIsCut,
         FallbackIsAlone
<1> QED
  BY <1>1, <1>9, <1>11 DEF IInv, Types

LEMMA CliExitsKeeps == ASSUME CliAssumption, IInv, CliExits PROVE IInv'
<1>1. RowTypes' /\ RunTypes' /\ Rows'
  BY RowUntouched DEF CliExits, rowVars
<1>2. run.stage # "idle" /\ waiter = "waiting"
  <2>1. process.stage \in {"starting", "running", "blocked"}
    BY DEF CliExits
  <2>2. NoProcess.stage = "none"
    BY DEF NoProcess
  <2> QED
    BY <2>1, <2>2 DEF IInv, Flow, Stages
<1>3. PICK code \in 0..1 : process' = [process EXCEPT !.stage = "exited", !.code = code]
  BY DEF CliExits
<1>4. process' \in ProcessType /\ process'.printed = process.printed /\ process'.stage = "exited"
  BY <1>3 DEF IInv, Types, StreamTypes, ProcessType
<1>5. Printed' = Printed
  BY <1>4 DEF Printed
<1>6. StreamTypes'
  BY <1>4 DEF CliExits, IInv, Types, StreamTypes
<1>7. Flow'
  BY <1>2, <1>4, <1>5
     DEF CliExits, IInv, Flow, Stages, LastIsLast, FailureIsSaid, LinesAreSomewhere, UnscannedIsCut,
         FallbackIsAlone
<1> QED
  BY <1>1, <1>6, <1>7 DEF IInv, Types

LEMMA ScanEndsKeeps == ASSUME CliAssumption, IInv, NEW i \in Pipes, ScanEnds(i) PROVE IInv'
<1>1. RowTypes' /\ RunTypes' /\ Rows'
  BY RowUntouched DEF ScanEnds, rowVars
<1>2. scanner' \in [Pipes -> {"scanning", "done"}] /\ (waiter = "closed" => \A j \in Pipes : scanner'[j] = "done")
  BY DEF ScanEnds, IInv, Types, StreamTypes, Flow, Stages
<1>3. UNCHANGED <<run, process, pipes, parse, waiter, events, cut, home>>
  BY DEF ScanEnds
<1>4. StreamTypes'
  BY <1>2, <1>3 DEF IInv, Types, StreamTypes
<1>5. Printed' = Printed
  BY <1>3 DEF Printed
<1>6. Flow'
  BY <1>2, <1>3, <1>5
     DEF IInv, Flow, Stages, LastIsLast, FailureIsSaid, LinesAreSomewhere, UnscannedIsCut,
         FallbackIsAlone, Succeeded
<1> QED
  BY <1>1, <1>4, <1>6 DEF IInv, Types

(* Where a scanned line goes: into the channel, or it is cut.              *)
Passed(l) ==
  /\ events' \in Seq(Kinds) /\ scanner' \in [Pipes -> {"scanning", "done"}]
  /\ Elems(events) \subseteq Elems(events') /\ cut \subseteq cut'
  /\ Elems(events') \subseteq Elems(events) \cup {"session", "text", "warning", "result"}
  /\ l = "result" => "result" \in cut' \cup Elems(events')
  /\ \A n \in DOMAIN events' :
       events'[n] \in {"completed", "failed"} => n \in DOMAIN events /\ events'[n] = events[n]

LEMMA ScanKeeps == ASSUME CliAssumption, IInv, NEW i \in Pipes, Scan(i) PROVE IInv'
<1>1. RowTypes' /\ RunTypes' /\ Rows'
  BY RowUntouched DEF Scan, rowVars
<1> DEFINE l == Head(pipes[i])
<1>2. pipes \in [Pipes -> Seq(Lines)] /\ pipes[i] \in Seq(Lines) /\ pipes[i] # <<>> /\ events \in Seq(Kinds)
      /\ parse \in [result : BOOLEAN, isError : BOOLEAN, text : BOOLEAN] /\ scanner \in [Pipes -> {"scanning", "done"}]
  BY DEF Scan, IInv, Types, StreamTypes
<1>3. l \in Lines \ {"long"} /\ Tail(pipes[i]) \in Seq(Lines) /\ Elems(pipes[i]) = {l} \cup Elems(Tail(pipes[i]))
  BY <1>2, ElemsOfTail DEF Scan
<1>4. scanner[i] = "scanning" /\ waiter # "closed" /\ run.stage # "idle" /\ run.stage # "storing"
  BY DEF Scan, IInv, Flow, Stages
<1>5. UNCHANGED <<run, process, waiter, home>> /\ Printed' = Printed
  BY DEF Scan, Printed
<1>6. pipes' = [pipes EXCEPT ![i] = Tail(@)]
  BY DEF Scan
<1>7. pipes' \in [Pipes -> Seq(Lines)] /\ pipes'[i] = Tail(pipes[i]) /\ \A j \in Pipes \ {i} : pipes'[j] = pipes[j]
  BY <1>2, <1>3, <1>6
<1>8. parse'.result = (parse.result \/ l = "result") /\ parse'.isError = (parse.isError \/ l = "error")
      /\ parse' \in [result : BOOLEAN, isError : BOOLEAN, text : BOOLEAN]
  BY <1>2 DEF Scan, Remember
<1>9. Elems(pipes["out"]) \subseteq {l} \cup Elems(pipes'["out"])
  BY <1>3, <1>7 DEF Pipes
<1> HIDE DEF l
<1>10. \/ events' = events /\ cut' = cut \cup {l} /\ scanner' = [scanner EXCEPT ![i] = "done"]
       \/ /\ UNCHANGED <<cut, scanner>>
          /\ \/ l = "error" /\ events' = events
             \/ \E k \in {"session", "text", "warning", "result"} :
                  events' = Append(events, k) /\ (l = "result" <=> k = "result")
  <2>1. \/ events' = events \o EventsOf(l) /\ UNCHANGED <<scanner, cut>>
        \/ events' = events /\ cut' = cut \cup {l} /\ scanner' = [scanner EXCEPT ![i] = "done"]
    BY DEF Scan, l
  <2>2. \/ l = "error" /\ EventsOf(l) = <<>>
        \/ \E k \in {"session", "text", "warning", "result"} : EventsOf(l) = <<k>> /\ (l = "result" <=> k = "result")
    BY <1>3 DEF Lines, EventsOf
  <2>3. events \o <<>> = events /\ \A k \in Kinds : events \o <<k>> = Append(events, k)
    BY <1>2
  <2> QED
    BY <2>1, <2>2, <2>3 DEF Kinds
<1>11. Passed(l)
  <2>1. CASE events' = events /\ cut' = cut \cup {l} /\ scanner' = [scanner EXCEPT ![i] = "done"]
    BY <1>2, <2>1 DEF Passed
  <2>2. CASE events' = events /\ l = "error" /\ UNCHANGED <<cut, scanner>>
    BY <1>2, <2>2 DEF Passed
  <2>3. ASSUME NEW k \in {"session", "text", "warning", "result"}, events' = Append(events, k),
               l = "result" <=> k = "result", UNCHANGED <<cut, scanner>>
        PROVE Passed(l)
    <3>1. k \in Kinds
      BY DEF Kinds
    <3>2. Append(events, k) \in Seq(Kinds) /\ Elems(events') = Elems(events) \cup {k}
      BY <1>2, <2>3, <3>1, ElemsOfAppend
    <3>3. ASSUME NEW n \in DOMAIN events', events'[n] \in {"completed", "failed"}
          PROVE n \in DOMAIN events /\ events'[n] = events[n]
      BY <1>2, <2>3, <3>1, <3>3
    <3> QED
      BY <1>2, <2>3, <3>2, <3>3 DEF Passed
  <2> QED
    BY <1>10, <2>1, <2>2, <2>3
<1>12. StreamTypes'
  BY <1>5, <1>7, <1>8, <1>11 DEF Passed, IInv, Types, StreamTypes
<1>13. Flow'
  <2>1. Stages'
    BY <1>4, <1>5 DEF IInv, Flow, Stages
  <2>2. LastIsLast'
    BY <1>4, <1>11 DEF Passed, IInv, Flow, LastIsLast
  <2>3. FailureIsSaid' /\ UnscannedIsCut'
    BY <1>4, <1>5 DEF FailureIsSaid, UnscannedIsCut
  <2>4. LinesAreSomewhere'
    BY <1>5, <1>8, <1>9, <1>11 DEF Passed, IInv, Flow, LinesAreSomewhere
  <2>5. FallbackIsAlone'
    BY <1>4, <1>5, <1>11 DEF Passed, IInv, Flow, FallbackIsAlone
  <2> QED
    BY <2>1, <2>2, <2>3, <2>4, <2>5 DEF Flow
<1> QED
  BY <1>1, <1>12, <1>13 DEF IInv, Types

LEMMA WaitReturnsKeeps == ASSUME CliAssumption, IInv, WaitReturns PROVE IInv'
<1>1. RowTypes' /\ RunTypes' /\ Rows'
  BY RowUntouched DEF WaitReturns, rowVars
<1>2. PICK kept \in [Pipes -> 0..MaxLines] :
        /\ \A i \in Pipes : kept[i] <= Len(pipes[i])
        /\ pipes' = [i \in Pipes |-> SubSeq(pipes[i], 1, kept[i])]
        /\ cut' = cut \cup UNION {{pipes[i][n] : n \in kept[i] + 1 .. Len(pipes[i])} : i \in Pipes}
  BY DEF WaitReturns
<1>3. waiter = "waiting" /\ waiter' = "joining" /\ process.stage = "exited" /\ UNCHANGED <<run, process, home, scanner, parse, events>>
  BY DEF WaitReturns
<1>4. pipes \in [Pipes -> Seq(Lines)] /\ MaxLines \in Nat
  BY DEF IInv, Types, StreamTypes, CliAssumption
<1>5. ASSUME NEW i \in Pipes
      PROVE pipes'[i] \in Seq(Lines) /\ Elems(pipes[i]) \subseteq cut' \cup Elems(pipes'[i])
  <2>1. kept[i] \in Nat /\ kept[i] <= Len(pipes[i]) /\ pipes[i] \in Seq(Lines)
    BY <1>2, <1>4
  <2>2. /\ SubSeq(pipes[i], 1, kept[i]) \in Seq(Lines)
        /\ Elems(pipes[i]) = Elems(SubSeq(pipes[i], 1, kept[i]))
                             \cup {pipes[i][n] : n \in kept[i] + 1 .. Len(pipes[i])}
    BY <2>1, ElemsOfPrefix
  <2>3. {pipes[i][n] : n \in kept[i] + 1 .. Len(pipes[i])} \subseteq cut'
    BY <1>2
  <2> QED
    BY <1>2, <2>2, <2>3
<1>6. StreamTypes'
  <2>1. pipes' \in [Pipes -> Seq(Lines)]
    BY <1>2, <1>5
  <2> QED
    BY <1>3, <2>1 DEF IInv, Types, StreamTypes
<1>7. cut \subseteq cut' /\ Elems(pipes["out"]) \subseteq cut' \cup Elems(pipes'["out"]) /\ Printed' = Printed
  BY <1>2, <1>3, <1>5 DEF Pipes, Printed
<1>8. run.stage = "consuming"
  BY <1>3 DEF IInv, Flow, Stages, Types, RunTypes, RunType
<1>9. Flow'
  <2>1. Stages'
    BY <1>3, <1>8 DEF IInv, Flow, Stages
  <2>2. LinesAreSomewhere'
    BY <1>3, <1>7 DEF IInv, Flow, LinesAreSomewhere
  <2>3. LastIsLast' /\ FailureIsSaid' /\ UnscannedIsCut' /\ FallbackIsAlone'
    BY <1>3 DEF IInv, Flow, LastIsLast, FailureIsSaid, UnscannedIsCut, FallbackIsAlone
  <2> QED
    BY <2>1, <2>2, <2>3 DEF Flow
<1> QED
  BY <1>1, <1>6, <1>9 DEF IInv, Types

LEMMA CloseKeeps == ASSUME CliAssumption, IInv, Close PROVE IInv'
<1>1. RowTypes' /\ RunTypes' /\ Rows'
  BY RowUntouched DEF Close, rowVars
<1>2. waiter = "joining" /\ waiter' = "closed" /\ (\A i \in Pipes : scanner[i] = "done")
      /\ UNCHANGED <<run, process, pipes, home, scanner, parse>> /\ cut' = cut \cup Unscanned /\ Printed' = Printed
  BY DEF Close, Printed
<1>3. run.stage = "consuming" /\ process.stage = "exited"
  BY <1>2 DEF IInv, Flow, Stages, Types, RunTypes, RunType
<1>4. /\ events \in Seq(Kinds) /\ "failed" \notin Elems(events) /\ "fallback" \notin Elems(events)
      /\ \A n \in DOMAIN events : events[n] \notin {"completed", "failed"}
  BY <1>2 DEF IInv, Types, StreamTypes, Flow, LastIsLast, FallbackIsAlone, Elems
<1>5. \/ /\ ~Succeeded \/ ~(process.code = 0)
         /\ events' = Append(events, "failed")
      \/ /\ Succeeded /\ ~parse.result
         /\ events' = Append(Append(events, "fallback"), "completed")
      \/ Succeeded /\ events' = Append(events, "completed")
      \/ Succeeded /\ events' = events
  <2>1. \A k \in Kinds : events \o <<k>> = Append(events, k)
    BY <1>4
  <2>2. events \o <<"fallback", "completed">> = Append(Append(events, "fallback"), "completed")
    BY <1>4 DEF Kinds
  <2>3. {"failed", "completed"} \subseteq Kinds
    BY DEF Kinds
  <2> QED
    BY <2>1, <2>2, <2>3 DEF Close, Succeeded
<1>6. /\ events' \in Seq(Kinds) /\ Elems(events) \subseteq Elems(events')
      /\ "fallback" \in Elems(events') => ~parse.result
      /\ ~Succeeded => "failed" \in Elems(events')
      /\ \A n \in DOMAIN events' : events'[n] \in {"completed", "failed"} => n = Len(events')
  <2>1. ASSUME NEW s \in Seq(Kinds), NEW k \in {"completed", "failed"}, events' = Append(s, k),
               \A n \in DOMAIN s : s[n] \notin {"completed", "failed"}
        PROVE events' \in Seq(Kinds) /\ Elems(events') = Elems(s) \cup {k}
              /\ \A n \in DOMAIN events' : events'[n] \in {"completed", "failed"} => n = Len(events')
    <3>1. k \in Kinds
      BY DEF Kinds
    <3>2. events' \in Seq(Kinds) /\ Elems(events') = Elems(s) \cup {k}
      BY <2>1, <3>1, ElemsOfAppend
    <3>3. ASSUME NEW n \in DOMAIN events', n # Len(events') PROVE n \in DOMAIN s /\ events'[n] = s[n]
      BY <2>1, <3>1, <3>3
    <3> QED
      BY <2>1, <3>2, <3>3
  <2>2. "fallback" \in Kinds
    BY DEF Kinds
  <2>3. Append(events, "fallback") \in Seq(Kinds) /\ Elems(Append(events, "fallback")) = Elems(events) \cup {"fallback"}
    BY <1>4, <2>2, ElemsOfAppend
  <2>4. \A n \in DOMAIN Append(events, "fallback") : Append(events, "fallback")[n] \notin {"completed", "failed"}
    BY <1>4, <2>2
  <2>5. CASE events' = Append(events, "failed")
    BY <1>4, <2>1, <2>5
  <2>6. CASE Succeeded /\ ~parse.result /\ events' = Append(Append(events, "fallback"), "completed")
    BY <2>1, <2>3, <2>4, <2>6
  <2>7. CASE Succeeded /\ events' = Append(events, "completed")
    BY <1>4, <2>1, <2>7
  <2>8. CASE Succeeded /\ events' = events
    BY <1>4, <2>8
  <2> QED
    BY <1>5, <2>5, <2>6, <2>7, <2>8
<1>7. StreamTypes'
  BY <1>2, <1>6 DEF IInv, Types, StreamTypes
<1>8. Flow'
  <2>1. Stages'
    BY <1>2, <1>3 DEF IInv, Flow, Stages
  <2>2. LastIsLast'
    BY <1>2, <1>6 DEF LastIsLast
  <2>3. FailureIsSaid'
    BY <1>2, <1>6 DEF FailureIsSaid, Succeeded
  <2>4. LinesAreSomewhere'
    BY <1>2, <1>6 DEF IInv, Flow, LinesAreSomewhere
  <2>5. UnscannedIsCut'
    BY <1>2 DEF UnscannedIsCut, Unscanned, Elems
  <2>6. FallbackIsAlone'
    BY <1>2, <1>6 DEF FallbackIsAlone
  <2> QED
    BY <2>1, <2>2, <2>3, <2>4, <2>5, <2>6 DEF Flow
<1> QED
  BY <1>1, <1>7, <1>8 DEF IInv, Types

(* The event that the loop takes, and what stays in the channel.           *)
Taken(e) ==
  /\ events \in Seq(Kinds) /\ e \in Kinds /\ Tail(events) \in Seq(Kinds)
  /\ Elems(events) = {e} \cup Elems(Tail(events)) /\ Elems(Tail(events)) \subseteq Elems(events)
  /\ e \in {"completed", "failed"} => Tail(events) = <<>> /\ waiter = "closed"
  /\ \A n \in DOMAIN Tail(events) :
       Tail(events)[n] \in {"completed", "failed"} => n = Len(Tail(events)) /\ waiter = "closed"

LEMMA FirstIsTaken == ASSUME IInv, events # <<>> PROVE Taken(Head(events))
<1>1. events \in Seq(Kinds)
  BY DEF IInv, Types, StreamTypes
<1>2. /\ Tail(events) \in Seq(Kinds) /\ Head(events) \in Kinds
      /\ Elems(events) = {Head(events)} \cup Elems(Tail(events))
      /\ Len(Tail(events)) = Len(events) - 1 /\ Len(events) \in Nat \ {0} /\ Head(events) = events[1]
      /\ DOMAIN events = 1..Len(events) /\ DOMAIN Tail(events) = 1..(Len(events) - 1)
      /\ \A i \in 1..(Len(events) - 1) : Tail(events)[i] = events[i + 1]
  BY <1>1, ElemsOfTail
<1>3. LastIsLast
  BY DEF IInv, Flow
<1>4. ASSUME Head(events) \in {"completed", "failed"} PROVE Tail(events) = <<>> /\ waiter = "closed"
  <2>1. 1 = Len(events) /\ waiter = "closed"
    BY <1>2, <1>3, <1>4 DEF LastIsLast
  <2>2. Len(Tail(events)) = Len(events) - 1 /\ Tail(events) \in Seq(Kinds)
    BY <1>2
  <2>3. Len(Tail(events)) = 0
    BY <2>1, <2>2
  <2> QED
    BY <2>1, <2>2, <2>3, EmptySeq
<1>5. ASSUME NEW n \in DOMAIN Tail(events), Tail(events)[n] \in {"completed", "failed"}
      PROVE n = Len(Tail(events)) /\ waiter = "closed"
  <2>1. n + 1 \in DOMAIN events /\ events[n + 1] \in {"completed", "failed"} /\ n \in Nat
    BY <1>2, <1>5
  <2>2. n + 1 = Len(events) /\ waiter = "closed"
    BY <1>3, <2>1 DEF LastIsLast
  <2>3. Len(Tail(events)) = Len(events) - 1
    BY <1>2
  <2> QED
    BY <2>1, <2>2, <2>3
<1> QED
  BY <1>1, <1>2, <1>4, <1>5 DEF Taken

LEMMA ConsumeKeeps == ASSUME CliAssumption, IInv, Consume PROVE IInv'
<1> DEFINE e == Head(events)
<1>1. Taken(e) /\ e # "failed" /\ run.stage = "consuming"
  BY FirstIsTaken DEF Consume
<1>2. UNCHANGED <<home, runs, process, pipes, scanner, parse, waiter, cut, rowVars>> /\ events' = Tail(events)
  BY DEF Consume
<1>3. run \in RunType /\ run.provider \in Providers /\ process.id \in Sessions
  BY <1>1 DEF IInv, Types, RunTypes, StreamTypes, ProcessType
<1>4. run' = CASE e = "started" -> run
               [] e = "session" -> [run EXCEPT !.observed = process.id]
               [] e \in {"text", "warning"} ->
                    IF run.resultSeen THEN run ELSE [run EXCEPT !.message = "said"]
               [] e = "result" -> [run EXCEPT !.message = "result", !.resultSeen = TRUE]
               [] e = "fallback" -> [run EXCEPT !.message = "said", !.resultSeen = TRUE]
               [] e = "completed" -> [run EXCEPT !.stage = "storing"]
  BY DEF Consume
<1>5. e \in {"started", "session", "text", "warning", "result", "fallback", "completed"}
  BY <1>1 DEF Taken, Kinds
<1> HIDE DEF e
<1>6. /\ run' \in RunType /\ run'.provider = run.provider /\ run'.resume = run.resume
      /\ run'.stage = IF e = "completed" THEN "storing" ELSE "consuming"
      /\ run.message = "result" /\ e # "fallback" /\ run.resultSeen => run'.message = "result"
      /\ e = "result" => run'.message = "result"
      /\ run'.message = "result" /\ (run.message = "result" => run.resultSeen) => run'.resultSeen
  <2>1. CASE e = "started"
    BY <1>1, <1>3, <1>4, <2>1 DEF RunType
  <2>2. CASE e = "session"
    BY <1>1, <1>3, <1>4, <2>2 DEF RunType
  <2>3. CASE e \in {"text", "warning"}
    BY <1>1, <1>3, <1>4, <2>3 DEF RunType
  <2>4. CASE e = "result"
    BY <1>1, <1>3, <1>4, <2>4 DEF RunType
  <2>5. CASE e = "fallback"
    BY <1>1, <1>3, <1>4, <2>5 DEF RunType
  <2>6. CASE e = "completed"
    BY <1>1, <1>3, <1>4, <2>6 DEF RunType
  <2> QED
    BY <1>5, <2>1, <2>2, <2>3, <2>4, <2>5, <2>6
<1>7. run'.stage \in {"storing", "consuming"} /\ (run'.stage = "storing" => e = "completed")
  BY <1>6
<1>8. RowTypes' /\ RunTypes'
  BY <1>1, <1>2, <1>3, <1>6, <1>7 DEF IInv, Types, RowTypes, RunTypes, rowVars
<1>9. StreamTypes'
  BY <1>1, <1>2 DEF Taken, IInv, Types, StreamTypes
<1>10. Rows'
  BY <1>1, <1>2, <1>6, <1>7 DEF IInv, Rows, WasLeft, LastLeft, rowVars
<1>11. Printed' = Printed /\ Elems(pipes'["out"]) = Elems(pipes["out"])
  BY <1>2 DEF Printed
<1>12. Stages'
  BY <1>1, <1>2, <1>7 DEF Taken, IInv, Flow, Stages
<1>13. LastIsLast'
  BY <1>1, <1>2 DEF Taken, LastIsLast
<1>14. FailureIsSaid'
  BY <1>1, <1>2, <1>6 DEF Taken, IInv, Flow, FailureIsSaid, Succeeded
<1>15. LinesAreSomewhere'
  <2>1. e = "fallback" => ~parse.result
    BY <1>1 DEF Taken, IInv, Flow, FallbackIsAlone
  <2>2. LinesAreSomewhere
    BY DEF IInv, Flow
  <2>3. ASSUME parse.result PROVE run'.message = "result" \/ "result" \in cut \cup Elems(Tail(events))
    BY <1>1, <1>6, <2>1, <2>2, <2>3 DEF Taken, LinesAreSomewhere
  <2>4. run'.message = "result" => run'.resultSeen
    BY <1>6, <2>2 DEF LinesAreSomewhere
  <2> QED
    BY <1>2, <1>11, <2>2, <2>3, <2>4 DEF LinesAreSomewhere
<1>16. UnscannedIsCut'
  BY <1>2 DEF IInv, Flow, UnscannedIsCut
<1>17. FallbackIsAlone'
  BY <1>1, <1>2 DEF Taken, IInv, Flow, FallbackIsAlone
<1> QED
  BY <1>8, <1>9, <1>10, <1>12, <1>13, <1>14, <1>15, <1>16, <1>17 DEF IInv, Types, Flow

LEMMA ConsumeFailedKeeps == ASSUME CliAssumption, IInv, ConsumeFailed PROVE IInv'
<1>1. Over /\ UNCHANGED <<home, runs, rowVars>>
  BY DEF ConsumeFailed
<1>2. RunTypes' /\ StreamTypes' /\ Flow' /\ run'.stage = "idle"
  BY <1>1, OverIsClean DEF IInv, Types, RunTypes, StreamTypes
<1>3. RowTypes' /\ Rows'
  BY <1>1, <1>2 DEF IInv, Types, RowTypes, Rows, WasLeft, LastLeft, rowVars
<1> QED
  BY <1>2, <1>3 DEF IInv, Types

LEMMA ConsumeClosedKeeps == ASSUME CliAssumption, IInv, ConsumeClosed PROVE IInv'
<1>1. /\ run.stage = "consuming" /\ events = <<>> /\ waiter = "closed" /\ run' = [run EXCEPT !.stage = "storing"]
      /\ UNCHANGED <<home, runs, rowVars, streamVars>>
  BY DEF ConsumeClosed
<1>2. run' \in RunType /\ run'.stage = "storing" /\ run'.provider = run.provider /\ run'.resume = run.resume
      /\ run'.message = run.message /\ run'.resultSeen = run.resultSeen
  BY <1>1 DEF IInv, Types, RunTypes, RunType
<1>3. RowTypes' /\ RunTypes' /\ StreamTypes'
  BY <1>1, <1>2 DEF IInv, Types, RowTypes, RunTypes, StreamTypes, rowVars, streamVars
<1>4. Rows'
  BY <1>1, <1>2 DEF IInv, Rows, WasLeft, LastLeft, rowVars
<1>5. Flow'
  <2>1. Printed' = Printed
    BY <1>1 DEF Printed, streamVars
  <2> QED
    BY <1>1, <1>2, <2>1
       DEF IInv, Flow, Stages, LastIsLast, FailureIsSaid, LinesAreSomewhere, UnscannedIsCut,
           FallbackIsAlone, Succeeded, streamVars
<1> QED
  BY <1>3, <1>4, <1>5 DEF IInv, Types

LEMMA StartFailsKeeps == ASSUME CliAssumption, IInv, NEW p \in Providers, StartFails(p) PROVE IInv'
<1>1. run.stage = "idle" /\ runs' = runs + 1 /\ runs < MaxRuns /\ UNCHANGED <<home, run, rowVars, streamVars>>
  BY DEF StartFails
<1>2. RunTypes'
  BY <1>1 DEF IInv, Types, RunTypes, Sessions, CliAssumption
<1>3. RowTypes' /\ StreamTypes' /\ Rows'
  BY <1>1 DEF IInv, Types, RowTypes, StreamTypes, Rows, WasLeft, LastLeft, rowVars, streamVars
<1>4. Flow'
  <2>1. Printed' = Printed
    BY <1>1 DEF Printed, streamVars
  <2> QED
    BY <1>1, <2>1
       DEF IInv, Flow, Stages, LastIsLast, FailureIsSaid, LinesAreSomewhere, UnscannedIsCut,
           FallbackIsAlone, Succeeded, streamVars
<1> QED
  BY <1>2, <1>3, <1>4 DEF IInv, Types

(* What another call does to the row, or to the homes of the CLIs, leaves  *)
(* the run as it is.                                                       *)
LEMMA RunUntouched == ASSUME IInv, UNCHANGED <<run, runs, streamVars>>,
                             home' \in [Providers -> SUBSET (1..MaxRuns)]
  PROVE RunTypes' /\ StreamTypes' /\ Flow'
<1>1. RunTypes' /\ StreamTypes'
  BY DEF IInv, Types, RunTypes, StreamTypes, streamVars
<1>2. Printed' = Printed
  BY DEF Printed, streamVars
<1> QED
  BY <1>1, <1>2
     DEF IInv, Flow, Stages, LastIsLast, FailureIsSaid, LinesAreSomewhere, UnscannedIsCut,
         FallbackIsAlone, Succeeded, streamVars

LEMMA StoreBindingKeeps == ASSUME CliAssumption, IInv, StoreBinding PROVE IInv'
<1> DEFINE p == run.provider
           same == Left = None \/ Left = run.resume
<1>1. /\ run.stage = "storing" /\ Over /\ UNCHANGED <<home, runs, copy>>
      /\ left' = [left EXCEPT ![p] = IF Left = None THEN @ ELSE Append(@, Left)]
      /\ \/ binding' = (IF same THEN binding ELSE [binding EXCEPT ![p] = Left]) /\ UNCHANGED excused
         \/ ~same /\ excused' = TRUE /\ UNCHANGED binding
  BY DEF StoreBinding
<1>2. RunTypes' /\ StreamTypes' /\ Flow' /\ run'.stage = "idle"
  BY <1>1, OverIsClean DEF IInv, Types, RunTypes, StreamTypes
<1>3. /\ binding \in Bindings /\ (copy = <<>> \/ \E b \in Bindings : copy = <<b>>) /\ excused \in BOOLEAN
      /\ left \in [Providers -> Seq(Sessions)] /\ p \in Providers /\ Left \in Sessions
      /\ run.resume \in Sessions
  BY <1>1 DEF IInv, Types, RowTypes, RunTypes, RunType, Left
<1> HIDE DEF p
<1>4. left[p] \in Seq(Sessions)
  BY <1>3
<1>5. left' \in [Providers -> Seq(Sessions)] /\ (\A q \in Providers \ {p} : left'[q] = left[q])
      /\ left'[p] = IF Left = None THEN left[p] ELSE Append(left[p], Left)
  BY <1>1, <1>3, <1>4
<1>6. /\ Append(left[p], Left) # <<>> /\ Append(left[p], Left)[Len(Append(left[p], Left))] = Left
      /\ Elems(Append(left[p], Left)) = Elems(left[p]) \cup {Left}
  BY <1>3, <1>4, ElemsOfAppend
<1>7. \A q \in Providers : Elems(left[q]) \subseteq Elems(left'[q])
  BY <1>5, <1>6
<1>8. Left # None => Left \in Elems(left'[p])
  BY <1>5, <1>6
<1>9. RowTypes'
  BY <1>1, <1>3, <1>5 DEF RowTypes, Bindings
<1>10. Rows'
  <2>1. ASSUME NEW q \in Providers PROVE WasLeft(q, binding[q])' /\ (copy # <<>> => WasLeft(q, copy[1][q]))'
    <3>1. WasLeft(q, binding[q]) /\ (copy # <<>> => WasLeft(q, copy[1][q]))
      BY DEF IInv, Rows
    <3>2. binding'[q] = binding[q] \/ (q = p /\ binding'[q] = Left /\ Left # None)
      BY <1>1, <1>3 DEF Bindings
    <3> QED
      BY <1>1, <1>7, <1>8, <3>1, <3>2 DEF WasLeft
  <2>2. ASSUME NEW q \in Providers, ~excused' PROVE binding'[q] = LastLeft(q)'
    <3>1. ~excused /\ binding' = IF same THEN binding ELSE [binding EXCEPT ![p] = Left]
      BY <1>1, <2>2
    <3>2. binding[q] = LastLeft(q) /\ run.resume = binding[p]
      BY <1>1, <3>1 DEF IInv, Rows, p
    <3>3. CASE q # p
      BY <1>3, <1>5, <3>1, <3>2, <3>3 DEF LastLeft, Bindings
    <3>4. CASE q = p /\ Left = None
      BY <1>5, <3>1, <3>2, <3>4 DEF LastLeft
    <3>5. CASE q = p /\ Left # None
      <4>1. binding'[p] = Left
        BY <1>3, <3>1, <3>2, <3>5 DEF Bindings
      <4>2. left'[p] = Append(left[p], Left)
        BY <1>5, <3>5
      <4> QED
        BY <1>6, <3>5, <4>1, <4>2 DEF LastLeft
    <3> QED
      BY <3>3, <3>4, <3>5
  <2> QED
    BY <1>2, <2>1, <2>2 DEF Rows
<1> QED
  BY <1>2, <1>9, <1>10 DEF IInv, Types

LEMMA ReadRowKeeps == ASSUME CliAssumption, IInv, ReadRow PROVE IInv'
<1>1. RunTypes' /\ StreamTypes' /\ Flow'
  BY RunUntouched DEF ReadRow, IInv, Types, StreamTypes, streamVars
<1>2. copy' = <<binding>> /\ UNCHANGED <<binding, left, excused, run>>
  BY DEF ReadRow
<1>3. RowTypes'
  BY <1>2 DEF IInv, Types, RowTypes
<1>4. Rows'
  BY <1>2 DEF IInv, Rows, WasLeft, LastLeft
<1> QED
  BY <1>1, <1>3, <1>4 DEF IInv, Types

LEMMA SaveRowKeeps == ASSUME CliAssumption, IInv, SaveRow PROVE IInv'
<1>1. RunTypes' /\ StreamTypes' /\ Flow'
  BY RunUntouched DEF SaveRow, IInv, Types, StreamTypes, streamVars
<1>2. /\ copy # <<>> /\ copy' = <<>> /\ binding' = copy[1]
      /\ excused' = (excused \/ copy[1] # binding) /\ UNCHANGED <<left, run>>
  BY DEF SaveRow
<1>3. RowTypes'
  BY <1>2 DEF IInv, Types, RowTypes
<1>4. Rows'
  BY <1>2 DEF IInv, Rows, WasLeft, LastLeft
<1> QED
  BY <1>1, <1>3, <1>4 DEF IInv, Types

LEMMA LoseHomeKeeps == ASSUME CliAssumption, IInv, LoseHome PROVE IInv'
<1>1. home' \in [Providers -> SUBSET (1..MaxRuns)] /\ UNCHANGED <<run, runs, streamVars, rowVars>>
  BY DEF LoseHome
<1>2. RunTypes' /\ StreamTypes' /\ Flow'
  BY <1>1, RunUntouched
<1>3. RowTypes' /\ Rows'
  BY <1>1, RowUntouched
<1> QED
  BY <1>2, <1>3 DEF IInv, Types

LEMMA CancelKeeps == ASSUME CliAssumption, IInv, UNCHANGED <<home, run, runs, streamVars, rowVars>> PROVE IInv'
<1>1. home' \in [Providers -> SUBSET (1..MaxRuns)]
  BY DEF IInv, Types, StreamTypes
<1>2. RunTypes' /\ StreamTypes' /\ Flow'
  BY <1>1, RunUntouched
<1>3. RowTypes' /\ Rows'
  BY RowUntouched
<1> QED
  BY <1>2, <1>3 DEF IInv, Types

LEMMA StepKeeps == ASSUME CliAssumption PROVE IInv /\ [Next]_cliVars => IInv'
<1> SUFFICES ASSUME IInv, [Next]_cliVars PROVE IInv'
  OBVIOUS
<1>1. CASE UNCHANGED cliVars
  BY <1>1, CancelKeeps DEF cliVars, streamVars, rowVars
<1>2. CASE \E p \in Providers : StartRun(p) \/ StartFails(p)
  BY <1>2, StartRunKeeps, StartFailsKeeps
<1>3. CASE CliPrints
  BY <1>3, CliPrintsKeeps
<1>4. CASE Stream
  BY <1>4, CliOpensKeeps, CliExitsKeeps, WaitReturnsKeeps, CloseKeeps, ScanKeeps, ScanEndsKeeps DEF Stream, Reading
<1>5. CASE Finish
  BY <1>5, ConsumeKeeps, ConsumeFailedKeeps, ConsumeClosedKeeps, StoreBindingKeeps DEF Finish
<1>6. CASE ReadRow \/ SaveRow \/ LoseHome
  BY <1>6, ReadRowKeeps, SaveRowKeeps, LoseHomeKeeps
<1>7. CASE Cancel
  BY <1>7, CancelKeeps DEF Cancel
<1> QED
  BY <1>1, <1>2, <1>3, <1>4, <1>5, <1>6, <1>7 DEF Next

LEMMA InvariantHolds == ASSUME CliAssumption PROVE Spec => []IInv
BY FirstState, StepKeeps, PTL DEF Spec

(* Sessions, lines, events and the stages of the goroutines are what the   *)
(* code gives them.                                                        *)
THEOREM CliTypeCorrect == ASSUME CliAssumption PROVE Spec => []TypeOK
<1>1. IInv => TypeOK
  BY DEF IInv, Types, RowTypes, RunTypes, StreamTypes, RunType, ProcessType, Bindings, Sessions, TypeOK
<1> QED
  BY <1>1, InvariantHolds, PTL

(* consumeEvents returns without an error only for a process that exited   *)
(* with 0 and printed no error that was scanned, and with the result that  *)
(* was printed unless that was cut off: what Close appends after the       *)
(* scanners are joined is the last that the loop sees.                     *)
THEOREM SuccessIsReal == ASSUME CliAssumption PROVE Spec => []CompletedIsSuccess
<1>1. IInv => CompletedIsSuccess
  <2> SUFFICES ASSUME IInv, run.stage = "storing" PROVE
        /\ process.code = 0
        /\ "error" \in Printed \ cut => run.provider \notin Falls
        /\ "result" \in Printed \ cut => run.message = "result"
    BY DEF CompletedIsSuccess
  <2>1. waiter = "closed" /\ Elems(events) = {}
    BY ElemsOfEmpty DEF IInv, Flow, Stages
  <2>2. Succeeded
    BY <2>1 DEF IInv, Flow, FailureIsSaid
  <2>3. Elems(pipes["out"]) \subseteq cut
    BY <2>1 DEF IInv, Flow, UnscannedIsCut, Pipes
  <2> QED
    BY <2>1, <2>2, <2>3 DEF IInv, Flow, LinesAreSomewhere, Succeeded
<1> QED
  BY <1>1, InvariantHolds, PTL

(* The runner resumes what the last completed run with the same CLI left   *)
(* in the session row, unless it could not be read or stored, or a call    *)
(* wrote back an older row.                                                *)
THEOREM LastSessionIsResumed == ASSUME CliAssumption PROVE Spec => []ResumesLastSession
<1>1. IInv => ResumesLastSession
  <2> SUFFICES ASSUME IInv, run.stage = "consuming" PROVE
        /\ run.resume \in {None} \cup {left[run.provider][i] : i \in DOMAIN left[run.provider]}
        /\ excused \/ run.resume = LastLeft(run.provider)
    BY DEF ResumesLastSession, LastLeft
  <2>1. run.provider \in Providers
    BY DEF IInv, Types, RunTypes
  <2> QED
    BY <2>1 DEF IInv, Rows, WasLeft, Elems
<1> QED
  BY <1>1, InvariantHolds, PTL
=============================================================================
