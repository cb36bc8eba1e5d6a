-------------------------- MODULE TrailingDebouncer --------------------------
(***************************************************************************)
(* backend/pkg/utils/trailing_debouncer.go: TrailingDebouncer[T], the      *)
(* keyed debouncer that turns the task messages of one session into runs   *)
(* of the agent, one at a time (worker/taskconsumer/consumer.go:63,132).   *)
(*                                                                         *)
(* Every method body between mu.Lock and mu.Unlock is one atomic action.   *)
(* A time.AfterFunc timer is an element of Timers with the key and the seq *)
(* its closure captured, the value its goroutine holds and a stage:        *)
(*                                                                         *)
(*   "free"      not allocated, or its goroutine has returned              *)
(*   "armed"     the window is still open                                  *)
(*   "fired"     the window closed; its goroutine waits for mu in flush    *)
(*   "handling"  its goroutine is inside the handler                       *)
(*   "returned"  the handler returned; finishRun not yet entered           *)
(*                                                                         *)
(* Timer.Stop succeeds only on an armed timer: a timer that has fired      *)
(* cannot be recalled, its goroutine may be arbitrarily late.              *)
(* The n-th call of a key carries the value n, so "newer" is "greater".    *)
(***************************************************************************)
EXTENDS Naturals, FiniteSets

CONSTANTS
  Keys,       \* debounce keys
  Timers,     \* bound: timers (and their goroutines) alive at once
  MaxCalls,   \* bound: calls made per key
  NoEntry,    \* the map has no entry for the key
  NoValue,    \* hasPending = false
  NoTimer,    \* entry.timer = nil
  NoKey       \* the key of a timer that is not allocated

ASSUME MaxCallsAssumption == MaxCalls \in Nat

VARIABLES
  entries,    \* d.entries: key -> debounceEntry, or NoEntry
  timers,     \* the timers and the flush goroutines they become
  calls       \* number of calls made per key

vars == <<entries, timers, calls>>

Values == 1..MaxCalls

Entry == [pending : Values \cup {NoValue}, timer : Timers \cup {NoTimer},
          seq : 0..MaxCalls, running : BOOLEAN]

ASSUME SentinelAssumption ==
  /\ NoEntry \notin Entry
  /\ NoValue \notin Nat
  /\ NoTimer \notin Timers
  /\ NoKey \notin Keys

TimerState == [stage : {"free", "armed", "fired", "handling", "returned"},
               key : Keys \cup {NoKey}, seq : 0..MaxCalls,
               value : Values \cup {NoValue}]

FreeTimer == [stage |-> "free", key |-> NoKey, seq |-> 0, value |-> NoValue]

Init ==
  /\ entries = [k \in Keys |-> NoEntry]
  /\ timers = [t \in Timers |-> FreeTimer]
  /\ calls = [k \in Keys |-> 0]

FreshEntry == [pending |-> NoValue, timer |-> NoTimer, seq |-> 0, running |-> FALSE]

EntryOrFresh(k) == IF entries[k] = NoEntry THEN FreshEntry ELSE entries[k]

(* All timers after entry.timer.Stop() was tried on timer o, and t armed.  *)
(* Stop does nothing to a timer that is no longer armed.                   *)
StopAndArm(o, t, k, n) ==
  [x \in Timers |->
     IF x = t THEN [stage |-> "armed", key |-> k, seq |-> n, value |-> NoValue]
     ELSE IF x = o /\ timers[x].stage = "armed" THEN FreeTimer
     ELSE timers[x]]

(* Mutant of Call: an entry that has a timer keeps it instead of a new one. *)
CallKeepsTimer(k) ==
  LET e == EntryOrFresh(k) IN
  /\ calls[k] < MaxCalls
  /\ \/ /\ e.timer # NoTimer
        /\ entries' = [entries EXCEPT ![k] =
             [e EXCEPT !.pending = calls[k] + 1, !.seq = e.seq + 1]]
        /\ UNCHANGED timers
     \/ \E t \in Timers :
        /\ e.timer = NoTimer
        /\ timers[t].stage = "free"
        /\ entries' = [entries EXCEPT ![k] =
             [e EXCEPT !.pending = calls[k] + 1, !.seq = e.seq + 1, !.timer = t]]
        /\ timers' = StopAndArm(NoTimer, t, k, e.seq + 1)
  /\ calls' = [calls EXCEPT ![k] = @ + 1]

(* Call(ctx, key, value), under mu.                                        *)
Call(k) ==
  /\ calls[k] < MaxCalls
  /\ \E t \in Timers :
       /\ timers[t].stage = "free"
       /\ LET e == EntryOrFresh(k) IN
          /\ entries' = [entries EXCEPT ![k] =
               [e EXCEPT !.pending = calls[k] + 1, !.seq = e.seq + 1, !.timer = t]]
          /\ timers' = StopAndArm(e.timer, t, k, e.seq + 1)
  /\ calls' = [calls EXCEPT ![k] = @ + 1]

(* The window of timer t closes: the runtime starts its flush goroutine.   *)
Fire(t) ==
  /\ timers[t].stage = "armed"
  /\ timers' = [timers EXCEPT ![t].stage = "fired"]
  /\ UNCHANGED <<entries, calls>>

(* takePendingLocked by the goroutine of t, on an entry with a nil timer.  *)
TakePending(t, e) ==
  /\ entries' = [entries EXCEPT ![timers[t].key] =
        [e EXCEPT !.pending = NoValue, !.timer = NoTimer, !.running = TRUE]]
  /\ timers' = [timers EXCEPT ![t] = [@ EXCEPT !.stage = "handling", !.value = e.pending]]

(* The entry still exists and no newer call has overtaken timer t.         *)
SeqMatches(t) ==
  LET e == entries[timers[t].key] IN e # NoEntry /\ e.seq = timers[t].seq

(* takeReady finds its entry gone, or overtaken by a newer call.           *)
TakeReadyStale(t) ==
  /\ timers[t].stage = "fired"
  /\ ~SeqMatches(t)
  /\ timers' = [timers EXCEPT ![t] = FreeTimer]
  /\ UNCHANGED <<entries, calls>>

(* takeReady matches but leaves the value to the handler that is running,  *)
(* or finds nothing to take; entry.timer is cleared all the same.          *)
TakeReadyBusy(t) ==
  LET e == entries[timers[t].key] IN
  /\ timers[t].stage = "fired"
  /\ SeqMatches(t)
  /\ e.running \/ e.pending = NoValue
  /\ entries' = [entries EXCEPT ![timers[t].key] = [e EXCEPT !.timer = NoTimer]]
  /\ timers' = [timers EXCEPT ![t] = FreeTimer]
  /\ UNCHANGED calls

(* Mutant of TakeReady: entry.running is not looked at.                    *)
TakeReadyWhileRunning(t) ==
  LET e == entries[timers[t].key] IN
  /\ timers[t].stage = "fired"
  /\ SeqMatches(t)
  /\ e.pending # NoValue
  /\ TakePending(t, e)
  /\ UNCHANGED calls

(* takeReady takes the value and the goroutine goes on to the handler.     *)
TakeReady(t) ==
  LET e == entries[timers[t].key] IN
  /\ timers[t].stage = "fired"
  /\ SeqMatches(t)
  /\ ~e.running
  /\ e.pending # NoValue
  /\ TakePending(t, e)
  /\ UNCHANGED calls

(* The handler returns, with or without an error (onError only observes).  *)
HandlerReturns(t) ==
  /\ timers[t].stage = "handling"
  /\ timers' = [timers EXCEPT ![t] = [@ EXCEPT !.stage = "returned", !.value = NoValue]]
  /\ UNCHANGED <<entries, calls>>

(* Mutant of WaitsWithClosedWindow: finishRun does not look for a value.   *)
NeverWaits(k) == FALSE

(* finishRun's test: a value waits and its window has closed.              *)
WaitsWithClosedWindow(k) ==
  entries[k] # NoEntry /\ entries[k].pending # NoValue /\ entries[k].timer = NoTimer

(* finishRun: the window of a newer value closed while the handler ran, so *)
(* the same goroutine goes on with that value.                             *)
FinishRunAgain(t) ==
  /\ timers[t].stage = "returned"
  /\ WaitsWithClosedWindow(timers[t].key)
  /\ TakePending(t, entries[timers[t].key])
  /\ UNCHANGED calls

(* Mutant of FinishRun: the entry is deleted whatever it holds.            *)
FinishRunDeletes(t) ==
  /\ timers[t].stage = "returned"
  /\ ~WaitsWithClosedWindow(timers[t].key)
  /\ entries' = [entries EXCEPT ![timers[t].key] = NoEntry]
  /\ timers' = [timers EXCEPT ![t] = FreeTimer]
  /\ UNCHANGED calls

(* finishRun: nothing is ready; an idle entry is deleted from the map.     *)
FinishRun(t) ==
  LET e == entries[timers[t].key]
      idle == e = NoEntry \/ (e.pending = NoValue /\ e.timer = NoTimer)
  IN
  /\ timers[t].stage = "returned"
  /\ ~WaitsWithClosedWindow(timers[t].key)
  /\ entries' = [entries EXCEPT ![timers[t].key] =
                    IF idle THEN NoEntry ELSE [e EXCEPT !.running = FALSE]]
  /\ timers' = [timers EXCEPT ![t] = FreeTimer]
  /\ UNCHANGED calls

Step(t) ==
  \/ Fire(t)
  \/ TakeReadyStale(t) \/ TakeReadyBusy(t) \/ TakeReady(t)
  \/ HandlerReturns(t)
  \/ FinishRunAgain(t) \/ FinishRun(t)

Next == (\E k \in Keys : Call(k)) \/ (\E t \in Timers : Step(t))

SafeSpec == Init /\ [][Next]_vars

(* Timers expire, a goroutine that waits for the mutex gets it, handlers   *)
(* return. Nothing is assumed about callers.                               *)
Fairness == \A t \in Timers : WF_vars(Step(t))

Spec == SafeSpec /\ Fairness

-----------------------------------------------------------------------------
Handling(t, k) == timers[t].stage = "handling" /\ timers[t].key = k
InRun(t, k) == timers[t].stage \in {"handling", "returned"} /\ timers[t].key = k

(* Entries, timers and calls keep the shapes the Go types give them, and a *)
(* timer that is in use belongs to a key.                                  *)
TypeOK ==
  /\ entries \in [Keys -> Entry \cup {NoEntry}]
  /\ timers \in [Timers -> TimerState]
  /\ calls \in [Keys -> 0..MaxCalls]
  /\ \A t \in Timers : timers[t].stage # "free" => timers[t].key \in Keys

(* Two runs of one session never overlap: at most one goroutine is inside  *)
(* run() for a key, however late stale flush goroutines arrive and however *)
(* often the entry is deleted and created again.                           *)
OneRunPerKey ==
  \A k \in Keys, t, u \in Timers : InRun(t, k) /\ InRun(u, k) => t = u

(* A value that waits is never stranded: the timer that entry.timer holds  *)
(* is live and will match, or a run will look at the entry again (lines    *)
(* 94, 128 and 131 decide on entry.timer = nil).                           *)
LiveTimer(k) ==
  LET t == entries[k].timer IN
  /\ t # NoTimer
  /\ timers[t].stage \in {"armed", "fired"}
  /\ timers[t].key = k
  /\ timers[t].seq = entries[k].seq

PendingNotStranded ==
  \A k \in Keys : entries[k] # NoEntry /\ entries[k].pending # NoValue =>
    LiveTimer(k) \/ \E t \in Timers : InRun(t, k)

(* The handler never starts on a value while the window of the latest call *)
(* of that key is still open ("runs it after the window is quiet").        *)
RunsAfterQuiet ==
  [][\A t, u \in Timers :
       /\ timers[t].stage # "handling" /\ timers'[t].stage = "handling"
       /\ timers[u].stage = "armed" /\ timers[u].key = timers[t].key
       => FALSE]_vars

(* The promise of LatestWins: the waiting value is the mailbox, the values *)
(* of the goroutines inside the handler are the ones in hand.              *)
Mailbox == [k \in Keys |-> IF entries[k] = NoEntry THEN NoValue ELSE entries[k].pending]
InHand == [k \in Keys |-> {timers[t].value : t \in {u \in Timers : Handling(u, k)}}]

Promise == INSTANCE LatestWins WITH mailbox <- Mailbox, inHand <- InHand

(* Every step is a put, a serve, a completion or nothing of the mailbox:   *)
(* no value is handled twice, none is handled after a newer one, and the   *)
(* only values not handled are those a later call replaced.                *)
KeepsPromise == Promise!SafeSpec

(* And every value that waits is eventually handled or replaced, every     *)
(* handled value done with.                                                *)
KeepsLivePromise == Promise!Spec

-----------------------------------------------------------------------------
(* The inductive invariant behind the three invariants: what entry.running *)
(* and entry.timer mean, in both directions.                               *)
RunMarksEntry ==
  \A k \in Keys, t \in Timers : InRun(t, k) => entries[k] # NoEntry /\ entries[k].running

MarkHasRun ==
  \A k \in Keys : entries[k] # NoEntry /\ entries[k].running =>
    \E t \in Timers : InRun(t, k)

TimerFieldIsLive ==
  \A k \in Keys : entries[k] # NoEntry /\ entries[k].timer # NoTimer => LiveTimer(k)

WaitingIsOwned ==
  \A k \in Keys : entries[k] # NoEntry /\ entries[k].pending # NoValue =>
    entries[k].running \/ entries[k].timer # NoTimer

SeqCountsCalls == \A k \in Keys : entries[k] # NoEntry => entries[k].seq <= calls[k]

IInv ==
  /\ TypeOK
  /\ SeqCountsCalls
  /\ OneRunPerKey
  /\ RunMarksEntry
  /\ MarkHasRun
  /\ TimerFieldIsLive
  /\ WaitingIsOwned
=============================================================================
