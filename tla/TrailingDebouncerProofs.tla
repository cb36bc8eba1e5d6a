----------------------- MODULE TrailingDebouncerProofs -----------------------
(***************************************************************************)
(* Proofs, for every set of keys and timers and every number of calls:     *)
(* type correctness, one run per key, no stranded value, and that the      *)
(* debouncer implements the safety half of LatestWins.                     *)
(***************************************************************************)
EXTENDS TrailingDebouncer, TLAPS

USE MaxCallsAssumption, SentinelAssumption

-----------------------------------------------------------------------------
(* The shapes of the values the steps handle.                              *)

LEMMA EntryShape ==
  ASSUME TypeOK, NEW k \in Keys, entries[k] # NoEntry
  PROVE  /\ entries[k] \in Entry
         /\ entries[k].pending \in Values \cup {NoValue}
         /\ entries[k].timer \in Timers \cup {NoTimer}
         /\ entries[k].seq \in 0..MaxCalls
         /\ entries[k].running \in BOOLEAN
  BY DEF TypeOK, Entry

LEMMA TimerShape ==
  ASSUME TypeOK, NEW t \in Timers
  PROVE  /\ timers[t] \in TimerState
         /\ timers[t].stage \in {"free", "armed", "fired", "handling", "returned"}
         /\ timers[t].key \in Keys \cup {NoKey}
         /\ timers[t].seq \in 0..MaxCalls
         /\ timers[t].value \in Values \cup {NoValue}
         /\ timers[t].stage # "free" => timers[t].key \in Keys
  BY DEF TypeOK, TimerState

LEMMA FreeShape == FreeTimer \in TimerState /\ FreeTimer.stage = "free"
  BY DEF FreeTimer, TimerState

LEMMA FreshShape ==
  ASSUME TypeOK, SeqCountsCalls, NEW k \in Keys, calls[k] < MaxCalls
  PROVE  /\ EntryOrFresh(k) \in Entry
         /\ EntryOrFresh(k).timer \in Timers \cup {NoTimer}
         /\ EntryOrFresh(k).seq + 1 \in 0..(calls[k] + 1)
         /\ EntryOrFresh(k).seq + 1 \in 0..MaxCalls
         /\ calls[k] + 1 \in Values
         /\ calls[k] + 1 # NoValue
  <1>0. calls[k] \in 0..MaxCalls
    BY DEF TypeOK
  <1>1. CASE entries[k] = NoEntry
    BY <1>0, <1>1 DEF EntryOrFresh, FreshEntry, Entry, Values
  <1>2. CASE entries[k] # NoEntry
    <2>1. entries[k] \in Entry /\ entries[k].seq \in 0..MaxCalls /\ entries[k].seq <= calls[k]
          /\ entries[k].timer \in Timers \cup {NoTimer}
      BY <1>2, EntryShape DEF SeqCountsCalls
    <2> QED BY <1>0, <1>2, <2>1 DEF EntryOrFresh, Values
  <1> QED BY <1>1, <1>2

-----------------------------------------------------------------------------
(* The effect of each step, one key and one timer at a time.               *)

(* What Call(k) leaves behind when it arms timer t.                        *)
CallOutcome(k, t) ==
  LET e == EntryOrFresh(k) IN
  /\ timers[t].stage = "free"
  /\ entries' \in [Keys -> Entry \cup {NoEntry}]
  /\ entries'[k] # NoEntry
  /\ entries'[k].pending = calls[k] + 1
  /\ entries'[k].timer = t
  /\ entries'[k].seq = e.seq + 1
  /\ entries'[k].running = e.running
  /\ \A j \in Keys \ {k} : entries'[j] = entries[j]
  /\ timers' \in [Timers -> TimerState]
  /\ timers'[t] = [stage |-> "armed", key |-> k, seq |-> e.seq + 1, value |-> NoValue]
  /\ timers'[t].stage = "armed"
  /\ \A x \in Timers \ {t} :
       \/ timers'[x] = timers[x]
       \/ x = e.timer /\ timers[x].stage = "armed" /\ timers'[x] = FreeTimer
  /\ calls' \in [Keys -> 0..MaxCalls]
  /\ calls'[k] = calls[k] + 1
  /\ \A j \in Keys \ {k} : calls'[j] = calls[j]

LEMMA CallEffect ==
  ASSUME TypeOK, SeqCountsCalls, NEW k \in Keys, Call(k)
  PROVE  \E t \in Timers : CallOutcome(k, t)
  <1> DEFINE e == EntryOrFresh(k)
  <1>0. calls[k] < MaxCalls
    BY DEF Call
  <1>1. /\ e \in Entry
        /\ e.timer \in Timers \cup {NoTimer}
        /\ e.seq + 1 \in 0..MaxCalls
        /\ calls[k] + 1 \in Values
    BY <1>0, FreshShape
  <1>2. PICK t \in Timers :
           /\ timers[t].stage = "free"
           /\ entries' = [entries EXCEPT ![k] =
                [e EXCEPT !.pending = calls[k] + 1, !.seq = e.seq + 1, !.timer = t]]
           /\ timers' = StopAndArm(e.timer, t, k, e.seq + 1)
    BY DEF Call
  <1> DEFINE f == [e EXCEPT !.pending = calls[k] + 1, !.seq = e.seq + 1, !.timer = t]
  <1>3. /\ f \in Entry
        /\ f.pending = calls[k] + 1 /\ f.timer = t
        /\ f.seq = e.seq + 1 /\ f.running = e.running
    BY <1>1 DEF Entry
  <1>4. entries' = [entries EXCEPT ![k] = f]
    BY <1>2
  <1> HIDE DEF e, f
  <1>5. /\ entries' \in [Keys -> Entry \cup {NoEntry}]
        /\ entries'[k] = f /\ entries'[k] # NoEntry
        /\ \A j \in Keys \ {k} : entries'[j] = entries[j]
    BY <1>3, <1>4 DEF TypeOK
  <1>6. /\ timers' \in [Timers -> TimerState]
        /\ timers'[t] = [stage |-> "armed", key |-> k, seq |-> e.seq + 1, value |-> NoValue]
        /\ \A x \in Timers \ {t} :
             \/ timers'[x] = timers[x]
             \/ x = e.timer /\ timers[x].stage = "armed" /\ timers'[x] = FreeTimer
    <2>1. [stage |-> "armed", key |-> k, seq |-> e.seq + 1, value |-> NoValue] \in TimerState
      BY <1>1 DEF TimerState
    <2> QED BY <1>2, <2>1, FreeShape DEF StopAndArm, TypeOK
  <1>7. /\ calls' \in [Keys -> 0..MaxCalls]
        /\ calls'[k] = calls[k] + 1
        /\ \A j \in Keys \ {k} : calls'[j] = calls[j]
    BY <1>0 DEF Call, TypeOK
  <1> QED BY <1>2, <1>3, <1>5, <1>6, <1>7 DEF e, CallOutcome

(* takePendingLocked, wherever it is called from.                          *)
LEMMA TakeEffect ==
  ASSUME TypeOK, NEW t \in Timers, timers[t].key \in Keys,
         entries[timers[t].key] # NoEntry, TakePending(t, entries[timers[t].key])
  PROVE  LET k == timers[t].key IN
         /\ entries' \in [Keys -> Entry \cup {NoEntry}]
         /\ entries'[k] # NoEntry
         /\ entries'[k].pending = NoValue /\ entries'[k].timer = NoTimer
         /\ entries'[k].seq = entries[k].seq /\ entries'[k].running = TRUE
         /\ \A j \in Keys \ {k} : entries'[j] = entries[j]
         /\ timers' \in [Timers -> TimerState]
         /\ timers'[t].stage = "handling" /\ timers'[t].key = k
         /\ timers'[t].value = entries[k].pending
         /\ \A x \in Timers \ {t} : timers'[x] = timers[x]
  <1> DEFINE k == timers[t].key
             e == entries[k]
             f == [e EXCEPT !.pending = NoValue, !.timer = NoTimer, !.running = TRUE]
             g == [timers[t] EXCEPT !.stage = "handling", !.value = e.pending]
  <1>1. e \in Entry
    BY EntryShape
  <1>2. /\ f \in Entry
        /\ f.pending = NoValue /\ f.timer = NoTimer /\ f.seq = e.seq /\ f.running = TRUE
    BY <1>1 DEF Entry
  <1>3. g \in TimerState /\ g.stage = "handling" /\ g.key = k /\ g.value = e.pending
    BY <1>1, TimerShape DEF TimerState, Entry
  <1>4. entries' = [entries EXCEPT ![k] = f] /\ timers' = [timers EXCEPT ![t] = g]
    BY DEF TakePending
  <1>5. k \in Keys
    OBVIOUS
  <1> HIDE DEF f, g
  <1>6. /\ entries' \in [Keys -> Entry \cup {NoEntry}]
        /\ entries'[k] = f /\ f # NoEntry
        /\ \A j \in Keys \ {k} : entries'[j] = entries[j]
    BY <1>2, <1>4, <1>5 DEF TypeOK
  <1>7. /\ timers' \in [Timers -> TimerState]
        /\ timers'[t] = g
        /\ \A x \in Timers \ {t} : timers'[x] = timers[x]
    BY <1>3, <1>4 DEF TypeOK
  <1> QED BY <1>2, <1>3, <1>6, <1>7

LEMMA TakeReadyEffect ==
  ASSUME TypeOK, NEW t \in Timers, TakeReady(t) \/ FinishRunAgain(t)
  PROVE  /\ timers[t].key \in Keys
         /\ entries[timers[t].key] # NoEntry
         /\ entries[timers[t].key].pending # NoValue
         /\ TakePending(t, entries[timers[t].key])
         /\ calls' = calls
  BY TimerShape DEF TakeReady, FinishRunAgain, SeqMatches, WaitsWithClosedWindow

LEMMA BusyEffect ==
  ASSUME TypeOK, NEW t \in Timers, TakeReadyBusy(t)
  PROVE  LET k == timers[t].key IN
         /\ k \in Keys
         /\ entries[k] # NoEntry
         /\ entries[k].running \/ entries[k].pending = NoValue
         /\ entries' \in [Keys -> Entry \cup {NoEntry}]
         /\ entries'[k] # NoEntry
         /\ entries'[k].pending = entries[k].pending /\ entries'[k].timer = NoTimer
         /\ entries'[k].seq = entries[k].seq /\ entries'[k].running = entries[k].running
         /\ \A j \in Keys \ {k} : entries'[j] = entries[j]
         /\ timers[t].stage = "fired"
         /\ timers' = [timers EXCEPT ![t] = FreeTimer]
         /\ calls' = calls
  <1> DEFINE k == timers[t].key
             f == [entries[k] EXCEPT !.timer = NoTimer]
  <1>1. k \in Keys /\ entries[k] # NoEntry
    BY TimerShape DEF TakeReadyBusy, SeqMatches
  <1>2. entries[k] \in Entry
    BY <1>1, EntryShape
  <1>3. /\ f \in Entry /\ f.pending = entries[k].pending /\ f.timer = NoTimer
        /\ f.seq = entries[k].seq /\ f.running = entries[k].running
    BY <1>2 DEF Entry
  <1>4. entries' = [entries EXCEPT ![k] = f]
    BY DEF TakeReadyBusy
  <1> HIDE DEF f
  <1>5. /\ entries' \in [Keys -> Entry \cup {NoEntry}]
        /\ entries'[k] = f /\ f # NoEntry
        /\ \A j \in Keys \ {k} : entries'[j] = entries[j]
    BY <1>1, <1>3, <1>4 DEF TypeOK
  <1> QED BY <1>1, <1>3, <1>5 DEF TakeReadyBusy

LEMMA FinishEffect ==
  ASSUME TypeOK, NEW t \in Timers, FinishRun(t)
  PROVE  LET k == timers[t].key
             e == entries[k] IN
         /\ k \in Keys
         /\ timers[t].stage = "returned"
         /\ entries' \in [Keys -> Entry \cup {NoEntry}]
         /\ \A j \in Keys \ {k} : entries'[j] = entries[j]
         /\ \/ /\ entries'[k] = NoEntry
               /\ e = NoEntry \/ e.pending = NoValue
            \/ /\ e # NoEntry /\ entries'[k] # NoEntry
               /\ e.timer # NoTimer
               /\ entries'[k].pending = e.pending /\ entries'[k].timer = e.timer
               /\ entries'[k].seq = e.seq /\ entries'[k].running = FALSE
         /\ timers' = [timers EXCEPT ![t] = FreeTimer]
         /\ calls' = calls
  <1> DEFINE k == timers[t].key
             e == entries[k]
             f == [e EXCEPT !.running = FALSE]
             idle == e = NoEntry \/ (e.pending = NoValue /\ e.timer = NoTimer)
  <1>1. k \in Keys /\ timers[t].stage = "returned" /\ ~WaitsWithClosedWindow(k)
    BY TimerShape DEF FinishRun
  <1>2. entries' = [entries EXCEPT ![k] = IF idle THEN NoEntry ELSE f]
    BY DEF FinishRun
  <1>3. CASE idle
    BY <1>1, <1>2, <1>3 DEF TypeOK, FinishRun
  <1>4. CASE ~idle
    <2>1. e \in Entry /\ e.timer # NoTimer
      BY <1>1, <1>4, EntryShape DEF WaitsWithClosedWindow
    <2>2. /\ f \in Entry /\ f.pending = e.pending /\ f.timer = e.timer
          /\ f.seq = e.seq /\ f.running = FALSE
      BY <2>1 DEF Entry
    <2>3. entries' = [entries EXCEPT ![k] = f]
      BY <1>2, <1>4
    <2> HIDE DEF f
    <2>4. /\ entries' \in [Keys -> Entry \cup {NoEntry}]
          /\ entries'[k] = f /\ f # NoEntry
          /\ \A j \in Keys \ {k} : entries'[j] = entries[j]
      BY <1>1, <2>2, <2>3 DEF TypeOK
    <2> QED BY <1>1, <1>4, <2>1, <2>2, <2>4 DEF FinishRun
  <1> QED BY <1>3, <1>4

(* Fire and HandlerReturns only move the stage of one timer.               *)
LEMMA StageEffect ==
  ASSUME TypeOK, NEW t \in Timers, Fire(t) \/ HandlerReturns(t)
  PROVE  /\ entries' = entries /\ calls' = calls
         /\ timers' \in [Timers -> TimerState]
         /\ timers'[t].key = timers[t].key /\ timers'[t].seq = timers[t].seq
         /\ \/ /\ timers[t].stage = "armed" /\ timers'[t].stage = "fired"
               /\ timers'[t].value = timers[t].value
            \/ timers[t].stage = "handling" /\ timers'[t].stage = "returned"
         /\ \A x \in Timers \ {t} : timers'[x] = timers[x]
<1>1. CASE Fire(t)
  <2> DEFINE g == [timers[t] EXCEPT !.stage = "fired"]
  <2>1. timers' = [timers EXCEPT ![t] = g] /\ timers[t].stage = "armed"
    BY <1>1 DEF Fire
  <2>2. /\ g \in TimerState /\ g.stage = "fired"
        /\ g.key = timers[t].key /\ g.seq = timers[t].seq /\ g.value = timers[t].value
    BY TimerShape DEF TimerState
  <2> HIDE DEF g
  <2> QED BY <1>1, <2>1, <2>2 DEF TypeOK, Fire
<1>2. CASE HandlerReturns(t)
  <2> DEFINE g == [timers[t] EXCEPT !.stage = "returned", !.value = NoValue]
  <2>1. timers' = [timers EXCEPT ![t] = g] /\ timers[t].stage = "handling"
    BY <1>2 DEF HandlerReturns
  <2>2. /\ g \in TimerState /\ g.stage = "returned"
        /\ g.key = timers[t].key /\ g.seq = timers[t].seq
    BY TimerShape DEF TimerState
  <2> HIDE DEF g
  <2> QED BY <1>2, <2>1, <2>2 DEF TypeOK, HandlerReturns
<1> QED BY <1>1, <1>2

-----------------------------------------------------------------------------
LEMMA InitIInv == Init => IInv
  <1> SUFFICES ASSUME Init PROVE IInv
    OBVIOUS
  <1>1. TypeOK
    BY FreeShape DEF Init, TypeOK
  <1>2. \A t \in Timers : timers[t].stage = "free"
    BY FreeShape DEF Init
  <1>3. \A k \in Keys : entries[k] = NoEntry
    BY DEF Init
  <1> QED BY <1>1, <1>2, <1>3 DEF IInv, SeqCountsCalls, OneRunPerKey, InRun, RunMarksEntry,
             MarkHasRun, TimerFieldIsLive, WaitingIsOwned

LEMMA StepIInv == IInv /\ [Next]_vars => IInv'
<1> SUFFICES ASSUME IInv, [Next]_vars PROVE IInv'
  OBVIOUS
<1> USE DEF IInv
<1>1. ASSUME NEW k \in Keys, Call(k) PROVE IInv'
  <2>1. PICK t \in Timers : CallOutcome(k, t)
    BY <1>1, CallEffect
  <2> USE DEF CallOutcome
  <2>2. TypeOK'
    BY <2>1, TimerShape, FreeShape DEF TypeOK
  <2>3. SeqCountsCalls'
    <3>1. EntryOrFresh(k).seq + 1 <= calls[k] + 1
      BY <1>1, FreshShape DEF TypeOK, Call
    <3> QED BY <2>1, <3>1 DEF SeqCountsCalls
  <2>4. \A x \in Timers, j \in Keys : InRun(x, j)' <=> InRun(x, j)
    BY <2>1, FreeShape DEF InRun
  <2>5. OneRunPerKey'
    BY <2>4 DEF OneRunPerKey
  <2>6. /\ entries'[k].running => entries[k] # NoEntry /\ entries[k].running
        /\ entries[k] # NoEntry => entries'[k].running = entries[k].running
    BY <2>1 DEF EntryOrFresh, FreshEntry
  <2>7. RunMarksEntry'
    BY <2>1, <2>4, <2>6 DEF RunMarksEntry
  <2>8. MarkHasRun'
    BY <2>1, <2>4, <2>6 DEF MarkHasRun
  <2>9. TimerFieldIsLive'
    <3>1. LiveTimer(k)'
      BY <2>1 DEF LiveTimer
    <3>2. ASSUME NEW j \in Keys \ {k}, entries[j] # NoEntry, entries[j].timer # NoTimer
          PROVE  LiveTimer(j)'
      <4>1. LiveTimer(j) /\ entries[j].timer \in Timers
        BY <3>2, EntryShape DEF TimerFieldIsLive
      <4>2. timers'[entries[j].timer] = timers[entries[j].timer]
        <5>1. entries[j].timer # t
          BY <2>1, <4>1 DEF LiveTimer
        <5>2. entries[j].timer # EntryOrFresh(k).timer
          <6>1. CASE entries[k] = NoEntry
            BY <3>2, <6>1 DEF EntryOrFresh, FreshEntry
          <6>2. CASE entries[k] # NoEntry /\ entries[k].timer # NoTimer
            BY <3>2, <4>1, <6>2 DEF EntryOrFresh, TimerFieldIsLive, LiveTimer
          <6>3. CASE entries[k] # NoEntry /\ entries[k].timer = NoTimer
            BY <3>2, <6>3 DEF EntryOrFresh
          <6> QED BY <6>1, <6>2, <6>3
        <5> QED BY <2>1, <4>1, <5>1, <5>2
      <4> QED BY <2>1, <3>2, <4>1, <4>2 DEF LiveTimer
    <3> QED BY <2>1, <3>1, <3>2 DEF TimerFieldIsLive
  <2>10. WaitingIsOwned'
    BY <2>1 DEF WaitingIsOwned
  <2> QED BY <2>2, <2>3, <2>5, <2>7, <2>8, <2>9, <2>10
<1>2. ASSUME NEW t \in Timers, Fire(t) \/ HandlerReturns(t) PROVE IInv'
  <2>1. /\ entries' = entries /\ calls' = calls
        /\ timers' \in [Timers -> TimerState]
        /\ timers'[t].key = timers[t].key /\ timers'[t].seq = timers[t].seq
        /\ \/ timers[t].stage = "armed" /\ timers'[t].stage = "fired"
           \/ timers[t].stage = "handling" /\ timers'[t].stage = "returned"
        /\ \A x \in Timers \ {t} : timers'[x] = timers[x]
    BY <1>2, StageEffect
  <2>2. \A x \in Timers, j \in Keys : InRun(x, j)' <=> InRun(x, j)
    BY <2>1 DEF InRun
  <2>3. TypeOK'
    BY <2>1, TimerShape DEF TypeOK
  <2>4. ASSUME NEW j \in Keys, entries[j] # NoEntry, entries[j].timer # NoTimer
        PROVE  LiveTimer(j)'
    <3>1. LiveTimer(j) /\ entries[j].timer \in Timers
      BY <2>4, EntryShape DEF TimerFieldIsLive
    <3> QED BY <2>1, <3>1 DEF LiveTimer
  <2> QED BY <2>1, <2>2, <2>3, <2>4 DEF SeqCountsCalls, OneRunPerKey, RunMarksEntry,
             MarkHasRun, TimerFieldIsLive, WaitingIsOwned
<1>3. ASSUME NEW t \in Timers, TakeReadyStale(t) PROVE IInv'
  <2>1. /\ entries' = entries /\ calls' = calls
        /\ timers' = [timers EXCEPT ![t] = FreeTimer]
        /\ timers[t].stage = "fired" /\ ~SeqMatches(t)
    BY <1>3 DEF TakeReadyStale
  <2>2. \A x \in Timers, j \in Keys : InRun(x, j)' <=> InRun(x, j)
    BY <2>1, FreeShape DEF InRun, TypeOK
  <2>3. TypeOK'
    BY <2>1, FreeShape DEF TypeOK
  <2>4. ASSUME NEW j \in Keys, entries[j] # NoEntry, entries[j].timer # NoTimer
        PROVE  LiveTimer(j)'
    <3>1. LiveTimer(j) /\ entries[j].timer \in Timers
      BY <2>4, EntryShape DEF TimerFieldIsLive
    <3>2. entries[j].timer # t
      BY <2>1, <2>4, <3>1 DEF LiveTimer, SeqMatches
    <3> QED BY <2>1, <3>1, <3>2 DEF LiveTimer, TypeOK
  <2> QED BY <2>1, <2>2, <2>3, <2>4 DEF SeqCountsCalls, OneRunPerKey, RunMarksEntry,
             MarkHasRun, TimerFieldIsLive, WaitingIsOwned
<1>4. ASSUME NEW t \in Timers, TakeReadyBusy(t) PROVE IInv'
  <2> DEFINE k == timers[t].key
  <2>1. /\ k \in Keys
        /\ entries[k] # NoEntry
        /\ entries[k].running \/ entries[k].pending = NoValue
        /\ entries' \in [Keys -> Entry \cup {NoEntry}]
        /\ entries'[k] # NoEntry
        /\ entries'[k].pending = entries[k].pending /\ entries'[k].timer = NoTimer
        /\ entries'[k].seq = entries[k].seq /\ entries'[k].running = entries[k].running
        /\ \A j \in Keys \ {k} : entries'[j] = entries[j]
        /\ timers[t].stage = "fired"
        /\ timers' = [timers EXCEPT ![t] = FreeTimer]
        /\ calls' = calls
    BY <1>4, BusyEffect
  <2>2. \A x \in Timers, j \in Keys : InRun(x, j)' <=> InRun(x, j)
    BY <2>1, FreeShape DEF InRun, TypeOK
  <2>3. TypeOK'
    BY <2>1, FreeShape DEF TypeOK
  <2>4. ASSUME NEW j \in Keys \ {k}, entries[j] # NoEntry, entries[j].timer # NoTimer
        PROVE  LiveTimer(j)'
    <3>1. LiveTimer(j) /\ entries[j].timer \in Timers
      BY <2>4, EntryShape DEF TimerFieldIsLive
    <3>2. entries[j].timer # t
      BY <2>4, <3>1 DEF LiveTimer
    <3> QED BY <2>1, <2>4, <3>1, <3>2 DEF LiveTimer, TypeOK
  <2> HIDE DEF k
  <2>5. OneRunPerKey'
    BY <2>2 DEF OneRunPerKey
  <2>6. SeqCountsCalls' /\ WaitingIsOwned'
    BY <2>1 DEF SeqCountsCalls, WaitingIsOwned
  <2>7. RunMarksEntry' /\ MarkHasRun'
    BY <2>1, <2>2 DEF RunMarksEntry, MarkHasRun
  <2>8. TimerFieldIsLive'
    BY <2>1, <2>4 DEF TimerFieldIsLive
  <2> QED BY <2>3, <2>5, <2>6, <2>7, <2>8
<1>5. ASSUME NEW t \in Timers, TakeReady(t) \/ FinishRunAgain(t) PROVE IInv'
  <2>1. PICK k \in Keys :
        /\ k = timers[t].key
        /\ entries[k] # NoEntry
        /\ TakePending(t, entries[k])
        /\ calls' = calls
    BY <1>5, TakeReadyEffect
  <2>2. /\ entries' \in [Keys -> Entry \cup {NoEntry}]
        /\ entries'[k] # NoEntry
        /\ entries'[k].pending = NoValue /\ entries'[k].timer = NoTimer
        /\ entries'[k].seq = entries[k].seq /\ entries'[k].running = TRUE
        /\ \A j \in Keys \ {k} : entries'[j] = entries[j]
        /\ timers' \in [Timers -> TimerState]
        /\ timers'[t].stage = "handling" /\ timers'[t].key = k
        /\ \A x \in Timers \ {t} : timers'[x] = timers[x]
    BY <2>1, TakeEffect
  <2>3. TypeOK'
    BY <2>1, <2>2, TimerShape DEF TypeOK
  <2>4. ASSUME NEW j \in Keys \ {k}, entries[j] # NoEntry, entries[j].timer # NoTimer
        PROVE  LiveTimer(j)'
    <3>1. LiveTimer(j) /\ entries[j].timer \in Timers
      BY <2>4, EntryShape DEF TimerFieldIsLive
    <3>2. entries[j].timer # t
      BY <2>1, <3>1 DEF LiveTimer
    <3> QED BY <2>2, <2>4, <3>1, <3>2 DEF LiveTimer
  (* Nobody else is in a run of k: the entry is not running, or it is t.   *)
  <2>5. \A x \in Timers : InRun(x, k) => x = t
    <3>1. CASE TakeReady(t)
      BY <2>1, <3>1 DEF TakeReady, RunMarksEntry
    <3>2. CASE FinishRunAgain(t)
      BY <2>1, <3>2 DEF FinishRunAgain, OneRunPerKey, InRun
    <3> QED BY <1>5, <3>1, <3>2
  <2>6. /\ InRun(t, k)'
        /\ \A j \in Keys \ {k} : ~InRun(t, j)'
        /\ \A x \in Timers \ {t}, j \in Keys : InRun(x, j)' <=> InRun(x, j)
    BY <2>1, <2>2 DEF InRun
  <2>7. \A j \in Keys \ {k} : ~InRun(t, j)
    BY <2>1 DEF InRun
  <2>8. OneRunPerKey'
    BY <2>5, <2>6 DEF OneRunPerKey
  <2>9. SeqCountsCalls' /\ WaitingIsOwned'
    BY <2>1, <2>2 DEF SeqCountsCalls, WaitingIsOwned
  <2>10. RunMarksEntry'
    BY <2>2, <2>5, <2>6 DEF RunMarksEntry
  <2>11. MarkHasRun'
    BY <2>1, <2>2, <2>6, <2>7 DEF MarkHasRun
  <2>12. TimerFieldIsLive'
    BY <2>1, <2>2, <2>4 DEF TimerFieldIsLive
  <2> QED BY <2>3, <2>8, <2>9, <2>10, <2>11, <2>12
<1>6. ASSUME NEW t \in Timers, FinishRun(t) PROVE IInv'
  <2> DEFINE k == timers[t].key
             e == entries[k]
  <2>1. /\ k \in Keys
        /\ timers[t].stage = "returned"
        /\ entries' \in [Keys -> Entry \cup {NoEntry}]
        /\ \A j \in Keys \ {k} : entries'[j] = entries[j]
        /\ \/ /\ entries'[k] = NoEntry
              /\ e = NoEntry \/ e.pending = NoValue
           \/ /\ e # NoEntry /\ entries'[k] # NoEntry
              /\ e.timer # NoTimer
              /\ entries'[k].pending = e.pending /\ entries'[k].timer = e.timer
              /\ entries'[k].seq = e.seq /\ entries'[k].running = FALSE
        /\ timers' = [timers EXCEPT ![t] = FreeTimer]
        /\ calls' = calls
    BY <1>6, FinishEffect
  <2>2. TypeOK'
    BY <2>1, FreeShape DEF TypeOK
  <2>3. ASSUME NEW j \in Keys, entries'[j] # NoEntry, entries'[j].timer # NoTimer
        PROVE  LiveTimer(j)'
    <3>1. /\ entries[j] # NoEntry
          /\ entries[j].timer = entries'[j].timer
          /\ entries[j].seq = entries'[j].seq
      BY <2>1, <2>3
    <3>2. LiveTimer(j) /\ entries[j].timer \in Timers
      BY <2>3, <3>1, EntryShape DEF TimerFieldIsLive
    <3>3. entries[j].timer # t
      BY <2>1, <3>2 DEF LiveTimer
    <3> QED BY <2>1, <3>1, <3>2, <3>3 DEF LiveTimer, TypeOK
  <2>4. InRun(t, k) /\ \A j \in Keys \ {k} : ~InRun(t, j)
    BY <2>1 DEF InRun
  <2> HIDE DEF k
  <2>5. /\ \A j \in Keys : ~InRun(t, j)'
        /\ \A x \in Timers \ {t}, j \in Keys : InRun(x, j)' <=> InRun(x, j)
    BY <2>1, FreeShape DEF InRun, TypeOK
  <2>6. \A x \in Timers \ {t} : ~InRun(x, k)
    BY <2>1, <2>4 DEF OneRunPerKey
  <2>7. OneRunPerKey'
    BY <2>5 DEF OneRunPerKey
  <2>8. SeqCountsCalls' /\ WaitingIsOwned'
    BY <2>1 DEF SeqCountsCalls, WaitingIsOwned
  <2>9. RunMarksEntry'
    BY <2>1, <2>5, <2>6 DEF RunMarksEntry
  <2>10. MarkHasRun'
    BY <2>1, <2>4, <2>5 DEF MarkHasRun
  <2>11. TimerFieldIsLive'
    BY <2>3 DEF TimerFieldIsLive
  <2> QED BY <2>2, <2>7, <2>8, <2>9, <2>10, <2>11
<1>7. CASE UNCHANGED vars
  BY <1>7 DEF vars, TypeOK, SeqCountsCalls, OneRunPerKey, RunMarksEntry, MarkHasRun, InRun,
              TimerFieldIsLive, LiveTimer, WaitingIsOwned
<1> QED BY <1>1, <1>2, <1>3, <1>4, <1>5, <1>6, <1>7 DEF Next, Step

LEMMA Inductive == SafeSpec => []IInv
  BY InitIInv, StepIInv, PTL DEF SafeSpec

(* Type correctness of every reachable state.                              *)
THEOREM TypeCorrect == SafeSpec => []TypeOK
  BY Inductive, PTL DEF IInv

(* Two runs of one key never overlap (trailing_debouncer.go:81-146).       *)
THEOREM RunsNeverOverlap == SafeSpec => []OneRunPerKey
  BY Inductive, PTL DEF IInv

(* A waiting value always has a live timer or a run behind it, so that     *)
(* clearing entry.timer (line 94) never strands it.                        *)
THEOREM NothingStranded == SafeSpec => []PendingNotStranded
<1>1. IInv => PendingNotStranded
  BY DEF IInv, PendingNotStranded, WaitingIsOwned, TimerFieldIsLive, MarkHasRun
<1> QED BY <1>1, Inductive, PTL
-----------------------------------------------------------------------------
(* The refinement: what each step does to the mailbox and to the values in *)
(* hand.                                                                   *)

LEMMA SameInHand ==
  ASSUME \A x \in Timers, j \in Keys :
           /\ Handling(x, j)' <=> Handling(x, j)
           /\ Handling(x, j) => timers'[x].value = timers[x].value
  PROVE  InHand' = InHand
  BY DEF InHand

(* A timer that is not in the handler before and after a step that frees   *)
(* it leaves what is in hand alone.                                        *)
LEMMA FreedTimer ==
  ASSUME TypeOK, NEW t \in Timers, timers[t].stage # "handling",
         timers' = [timers EXCEPT ![t] = FreeTimer]
  PROVE  InHand' = InHand
<1>1. \A x \in Timers, j \in Keys :
        /\ Handling(x, j)' <=> Handling(x, j)
        /\ Handling(x, j) => timers'[x].value = timers[x].value
  BY FreeShape DEF Handling, TypeOK
<1> QED BY <1>1, SameInHand

LEMMA CallPuts ==
  ASSUME IInv, NEW k \in Keys, Call(k)
  PROVE  Promise!Put(k)
<1> USE DEF IInv
<1>1. PICK t \in Timers : CallOutcome(k, t)
  BY CallEffect
<1>2. Mailbox' = [Mailbox EXCEPT ![k] = calls[k] + 1]
  <2>1. /\ entries'[k] # NoEntry /\ entries'[k].pending = calls[k] + 1
        /\ \A j \in Keys \ {k} : entries'[j] = entries[j]
    BY <1>1 DEF CallOutcome
  <2> QED BY ONLY <2>1 DEF Mailbox
<1>3. \A x \in Timers, j \in Keys :
        /\ Handling(x, j)' <=> Handling(x, j)
        /\ Handling(x, j) => timers'[x].value = timers[x].value
  BY <1>1, FreeShape DEF Handling, CallOutcome
<1>4. InHand' = InHand
  BY <1>3, SameInHand
<1> QED BY <1>2, <1>4 DEF Promise!Put, Call

LEMMA TakeServes ==
  ASSUME IInv, NEW t \in Timers, TakeReady(t) \/ FinishRunAgain(t)
  PROVE  \E k \in Keys : Promise!Serve(k)
<1> USE DEF IInv
<1>1. PICK k \in Keys :
        /\ k = timers[t].key
        /\ entries[k] # NoEntry /\ entries[k].pending # NoValue
        /\ TakePending(t, entries[k])
        /\ calls' = calls
  BY TakeReadyEffect
<1>2. /\ entries'[k] # NoEntry /\ entries'[k].pending = NoValue
      /\ \A j \in Keys \ {k} : entries'[j] = entries[j]
      /\ timers'[t].stage = "handling" /\ timers'[t].key = k
      /\ timers'[t].value = entries[k].pending
      /\ \A x \in Timers \ {t} : timers'[x] = timers[x]
  BY <1>1, TakeEffect
<1>3. \A x \in Timers : ~Handling(x, k)
  <2>1. CASE TakeReady(t)
    BY <1>1, <2>1 DEF TakeReady, RunMarksEntry, InRun, Handling
  <2>2. CASE FinishRunAgain(t)
    BY <1>1, <2>2 DEF FinishRunAgain, OneRunPerKey, InRun, Handling
  <2> QED BY <2>1, <2>2
<1>4. Mailbox[k] = entries[k].pending /\ Mailbox[k] # NoValue
  BY <1>1 DEF Mailbox
<1>5. Mailbox' = [Mailbox EXCEPT ![k] = NoValue]
  BY <1>2 DEF Mailbox
<1>6. InHand[k] = {}
  BY <1>3 DEF InHand
<1>7. InHand' = [InHand EXCEPT ![k] = {Mailbox[k]}]
  <2>1. \A x \in Timers : Handling(x, k)' <=> x = t
    BY <1>2, <1>3 DEF Handling
  <2>2. \A x \in Timers, j \in Keys \ {k} :
          /\ Handling(x, j)' <=> Handling(x, j)
          /\ Handling(x, j) => timers'[x].value = timers[x].value
    BY <1>1, <1>2 DEF Handling
  <2>3. InHand'[k] = {Mailbox[k]}
    BY <1>2, <1>4, <2>1 DEF InHand
  <2>4. \A j \in Keys \ {k} : InHand'[j] = InHand[j]
    BY <2>2 DEF InHand
  <2> QED BY <2>3, <2>4 DEF InHand
<1> QED BY <1>1, <1>4, <1>5, <1>6, <1>7 DEF Promise!Serve

LEMMA ReturnCompletes ==
  ASSUME IInv, NEW t \in Timers, HandlerReturns(t)
  PROVE  \E k \in Keys : Promise!Complete(k)
<1> USE DEF IInv
<1>1. PICK k \in Keys : k = timers[t].key
  BY TimerShape DEF HandlerReturns
<1>2. /\ entries' = entries /\ calls' = calls
      /\ timers[t].stage = "handling" /\ timers'[t].stage = "returned"
      /\ \A x \in Timers \ {t} : timers'[x] = timers[x]
  BY StageEffect DEF HandlerReturns
<1>3. \A x \in Timers : Handling(x, k) <=> x = t
  BY <1>1, <1>2 DEF OneRunPerKey, InRun, Handling
<1>4. \A x \in Timers : ~Handling(x, k)'
  BY <1>2, <1>3 DEF Handling
<1>5. InHand[k] # {}
  BY <1>3 DEF InHand
<1>6. InHand' = [InHand EXCEPT ![k] = {}]
  <2>1. InHand'[k] = {}
    BY <1>4 DEF InHand
  <2>2. \A x \in Timers, j \in Keys \ {k} :
          /\ Handling(x, j)' <=> Handling(x, j)
          /\ Handling(x, j) => timers'[x].value = timers[x].value
    BY <1>1, <1>2 DEF Handling
  <2>3. \A j \in Keys \ {k} : InHand'[j] = InHand[j]
    BY <2>2 DEF InHand
  <2> QED BY <2>1, <2>3 DEF InHand
<1>7. Mailbox' = Mailbox
  BY <1>2 DEF Mailbox
<1> QED BY <1>2, <1>5, <1>6, <1>7 DEF Promise!Complete

(* The other steps change neither the mailbox nor what is in hand.         *)
LEMMA OthersStutter ==
  ASSUME IInv, NEW t \in Timers,
         Fire(t) \/ TakeReadyStale(t) \/ TakeReadyBusy(t) \/ FinishRun(t)
  PROVE  UNCHANGED Promise!vars
<1> USE DEF IInv
<1>1. CASE Fire(t)
  <2>0. entries' = entries /\ calls' = calls /\ timers[t].stage = "armed"
    BY <1>1 DEF Fire
  <2>1. /\ timers'[t].stage = "fired"
        /\ \A x \in Timers \ {t} : timers'[x] = timers[x]
    BY <1>1, <2>0, StageEffect
  <2>2. \A x \in Timers, j \in Keys :
          /\ Handling(x, j)' <=> Handling(x, j)
          /\ Handling(x, j) => timers'[x].value = timers[x].value
    BY <2>0, <2>1 DEF Handling
  <2> QED BY <2>0, <2>2, SameInHand DEF Mailbox, Promise!vars
<1>2. CASE TakeReadyStale(t)
  BY <1>2, FreedTimer DEF TakeReadyStale, Mailbox, Promise!vars
<1>3. CASE TakeReadyBusy(t)
  <2>1. \A j \in Keys : \/ entries'[j] = entries[j]
                       \/ /\ entries[j] # NoEntry /\ entries'[j] # NoEntry
                          /\ entries'[j].pending = entries[j].pending
    BY <1>3, BusyEffect
  <2>2. Mailbox' = Mailbox
    BY <2>1 DEF Mailbox
  <2> QED BY <1>3, <2>2, FreedTimer DEF TakeReadyBusy, Promise!vars
<1>4. CASE FinishRun(t)
  <2>1. PICK k \in Keys :
        /\ \A j \in Keys \ {k} : entries'[j] = entries[j]
        /\ \/ /\ entries'[k] = NoEntry
              /\ entries[k] = NoEntry \/ entries[k].pending = NoValue
           \/ /\ entries[k] # NoEntry /\ entries'[k] # NoEntry
              /\ entries'[k].pending = entries[k].pending
    BY <1>4, FinishEffect
  <2>2. Mailbox' = Mailbox
    BY <2>1 DEF Mailbox
  <2> QED BY <1>4, <2>2, FreedTimer DEF FinishRun, Promise!vars
<1> QED BY <1>1, <1>2, <1>3, <1>4

(* The debouncer keeps the promise of LatestWins: nothing is handled       *)
(* twice, nothing after a newer value, nothing dropped but what a later    *)
(* call replaced, and one run per key (trailing_debouncer.go:52-146).      *)
THEOREM PromiseKept == SafeSpec => KeepsPromise
<1>1. Init => Promise!Init
  BY FreeShape DEF Init, Promise!Init, Mailbox, InHand, Handling
<1>2. IInv /\ [Next]_vars => [Promise!Next]_(Promise!vars)
  <2> SUFFICES ASSUME IInv, [Next]_vars PROVE [Promise!Next]_(Promise!vars)
    OBVIOUS
  <2>1. ASSUME NEW k \in Keys, Call(k) PROVE Promise!Next
    BY <2>1, CallPuts DEF Promise!Next
  <2>2. ASSUME NEW t \in Timers, TakeReady(t) \/ FinishRunAgain(t) PROVE Promise!Next
    BY <2>2, TakeServes DEF Promise!Next
  <2>3. ASSUME NEW t \in Timers, HandlerReturns(t) PROVE Promise!Next
    BY <2>3, ReturnCompletes DEF Promise!Next
  <2>4. CASE UNCHANGED vars
    BY <2>4 DEF vars, Promise!vars, Mailbox, InHand, Handling
  <2> QED BY <2>1, <2>2, <2>3, <2>4, OthersStutter DEF Next, Step
<1> QED BY <1>1, <1>2, Inductive, PTL DEF SafeSpec, KeepsPromise, Promise!SafeSpec
-----------------------------------------------------------------------------
(* When the sentence "runs it after the window is quiet" is true: no entry *)
(* is deleted while a goroutine whose window closed still waits for the    *)
(* mutex. Then the timers of a key have numbers of their own, none newer   *)
(* than the entry's, and an open window is that of the latest call.        *)
Late(t, k) == timers[t].stage = "fired" /\ timers[t].key = k

Deleted(k) == entries[k] # NoEntry /\ entries'[k] = NoEntry
DeletesWithNoneLate == \A k \in Keys : Deleted(k) => \A t \in Timers : ~Late(t, k)
DeletesWhenNoneIsLate == [][DeletesWithNoneLate]_vars

Awaited(t, k) == timers[t].stage \in {"armed", "fired"} /\ timers[t].key = k

NumbersAreKnown ==
  \A k \in Keys, t \in Timers : Awaited(t, k) =>
    entries[k] # NoEntry /\ timers[t].seq <= entries[k].seq

NumbersDiffer ==
  \A k \in Keys, t, u \in Timers :
    Awaited(t, k) /\ Awaited(u, k) /\ timers[t].seq = timers[u].seq => t = u

OpenWindowIsLatest ==
  \A k \in Keys, t \in Timers : Awaited(t, k) /\ timers[t].stage = "armed" =>
    entries[k].timer = t /\ timers[t].seq = entries[k].seq

QuietInv == NumbersAreKnown /\ NumbersDiffer /\ OpenWindowIsLatest

(* A timer that is awaited after a step other than Call was so before, and *)
(* was armed if it is; its entry is the same but for what is listed.       *)
LEMMA QuietStays ==
  ASSUME TypeOK, QuietInv,
         \A k \in Keys, t \in Timers : Awaited(t, k)' =>
           /\ Awaited(t, k) /\ timers'[t].seq = timers[t].seq
           /\ timers'[t].stage = "armed" => timers[t].stage = "armed",
         \A k \in Keys, t \in Timers : Awaited(t, k)' =>
           entries'[k] # NoEntry /\ entries'[k].seq = entries[k].seq,
         \A k \in Keys, t \in Timers : Awaited(t, k)' /\ timers'[t].stage = "armed" =>
           entries'[k].timer = entries[k].timer
  PROVE  QuietInv'
<1>1. NumbersAreKnown'
  BY DEF QuietInv, NumbersAreKnown
<1>2. NumbersDiffer'
  <2> SUFFICES ASSUME NEW k \in Keys, NEW t \in Timers, NEW u \in Timers,
                      Awaited(t, k)', Awaited(u, k)', timers'[t].seq = timers'[u].seq
               PROVE  t = u
    BY DEF NumbersDiffer
  <2>1. Awaited(t, k) /\ Awaited(u, k) /\ timers[t].seq = timers[u].seq
    OBVIOUS
  <2> QED BY <2>1 DEF QuietInv, NumbersDiffer
<1>3. OpenWindowIsLatest'
  <2> SUFFICES ASSUME NEW k \in Keys, NEW t \in Timers,
                      Awaited(t, k)', timers'[t].stage = "armed"
               PROVE  entries'[k].timer = t /\ timers'[t].seq = entries'[k].seq
    BY DEF OpenWindowIsLatest
  <2>1. Awaited(t, k) /\ timers[t].stage = "armed" /\ timers'[t].seq = timers[t].seq
        /\ entries'[k].seq = entries[k].seq /\ entries'[k].timer = entries[k].timer
    OBVIOUS
  <2> QED BY <2>1 DEF QuietInv, OpenWindowIsLatest
<1> QED BY <1>1, <1>2, <1>3 DEF QuietInv

LEMMA QuietCall == ASSUME IInv, QuietInv, NEW k \in Keys, Call(k) PROVE QuietInv'
<1> USE DEF IInv
<1>1. PICK t \in Timers : CallOutcome(k, t)
  BY CallEffect
<1> DEFINE e == EntryOrFresh(k)
<1>2. /\ entries'[k] # NoEntry /\ entries'[k].timer = t /\ entries'[k].seq = e.seq + 1
      /\ \A j \in Keys \ {k} : entries'[j] = entries[j]
      /\ timers[t].stage = "free"
      /\ timers'[t].stage = "armed" /\ timers'[t].key = k /\ timers'[t].seq = e.seq + 1
      /\ \A x \in Timers \ {t} :
           \/ timers'[x] = timers[x]
           \/ x = e.timer /\ timers[x].stage = "armed" /\ timers'[x] = FreeTimer
  BY <1>1 DEF CallOutcome
<1>3. \A x \in Timers \ {t}, j \in Keys : Awaited(x, j)' => Awaited(x, j) /\ timers'[x] = timers[x]
  BY <1>2, FreeShape DEF Awaited
<1>4. \A j \in Keys : Awaited(t, j)' <=> j = k
  BY <1>2 DEF Awaited
<1>5. e.seq \in Nat
  <2>1. CASE entries[k] = NoEntry
    BY <2>1 DEF EntryOrFresh, FreshEntry
  <2>2. CASE entries[k] # NoEntry
    BY <2>2, EntryShape DEF EntryOrFresh
  <2> QED BY <2>1, <2>2
<1>6. \A x \in Timers : Awaited(x, k) =>
        /\ timers[x].seq \in Nat /\ timers[x].seq <= e.seq
        /\ timers[x].stage = "armed" => x = e.timer
  <2> SUFFICES ASSUME NEW x \in Timers, Awaited(x, k)
               PROVE  /\ timers[x].seq \in Nat /\ timers[x].seq <= e.seq
                      /\ timers[x].stage = "armed" => x = e.timer
    OBVIOUS
  <2>1. entries[k] # NoEntry /\ timers[x].seq <= entries[k].seq
    BY DEF QuietInv, NumbersAreKnown
  <2>2. e = entries[k]
    BY <2>1 DEF EntryOrFresh
  <2>3. timers[x].seq \in Nat
    BY TimerShape
  <2>4. timers[x].stage = "armed" => entries[k].timer = x
    BY DEF QuietInv, OpenWindowIsLatest
  <2> QED BY <2>1, <2>2, <2>3, <2>4
<1>0. \A x \in Timers \ {t} :
        x = e.timer /\ timers[x].stage = "armed" => timers'[x] = FreeTimer
  <2>1. PICK u \in Timers :
          /\ entries' = [entries EXCEPT ![k] =
               [e EXCEPT !.pending = calls[k] + 1, !.seq = e.seq + 1, !.timer = u]]
          /\ timers' = StopAndArm(e.timer, u, k, e.seq + 1)
    BY DEF Call
  <2>2. e \in Entry
    BY DEF EntryOrFresh, FreshEntry, Entry, TypeOK
  <2>3. entries'[k].timer = u
    BY <2>1, <2>2 DEF TypeOK, Entry
  <2>4. u = t
    BY <1>2, <2>3
  <2> QED BY <2>1, <2>4 DEF StopAndArm
<1> HIDE DEF e
<1>7. NumbersAreKnown'
  <2> SUFFICES ASSUME NEW j \in Keys, NEW x \in Timers, Awaited(x, j)'
               PROVE  entries'[j] # NoEntry /\ timers'[x].seq <= entries'[j].seq
    BY DEF NumbersAreKnown
  <2>1. CASE x = t
    BY <1>2, <1>4, <1>5, <2>1
  <2>2. CASE x # t /\ j = k
    <3>1. timers'[x].seq \in Nat /\ timers'[x].seq <= e.seq
      BY <1>3, <1>6, <2>2
    <3> QED BY <1>2, <1>5, <2>2, <3>1
  <2>3. CASE x # t /\ j # k
    BY <1>2, <1>3, <2>3 DEF QuietInv, NumbersAreKnown
  <2> QED BY <2>1, <2>2, <2>3
<1>8. NumbersDiffer'
  <2> SUFFICES ASSUME NEW j \in Keys, NEW x \in Timers, NEW y \in Timers,
                      Awaited(x, j)', Awaited(y, j)', timers'[x].seq = timers'[y].seq
               PROVE  x = y
    BY DEF NumbersDiffer
  <2>1. \A z \in Timers \ {t} : Awaited(z, k)' => timers'[z].seq # e.seq + 1
    BY <1>3, <1>5, <1>6
  <2>2. CASE x = t \/ y = t
    BY <1>2, <1>4, <2>1, <2>2
  <2>3. CASE x # t /\ y # t
    BY <1>3, <2>3 DEF QuietInv, NumbersDiffer
  <2> QED BY <2>2, <2>3
<1>9. OpenWindowIsLatest'
  <2> SUFFICES ASSUME NEW j \in Keys, NEW x \in Timers,
                      Awaited(x, j)', timers'[x].stage = "armed"
               PROVE  entries'[j].timer = x /\ timers'[x].seq = entries'[j].seq
    BY DEF OpenWindowIsLatest
  <2>1. CASE x = t
    BY <1>2, <1>4, <2>1
  <2>2. CASE x # t /\ j = k
    <3>1. Awaited(x, k) /\ timers[x].stage = "armed" /\ timers'[x] = timers[x]
      BY <1>3, <2>2
    <3> QED BY <1>0, <1>6, <2>2, <3>1, FreeShape
  <2>3. CASE x # t /\ j # k
    BY <1>2, <1>3, <2>3 DEF QuietInv, OpenWindowIsLatest
  <2> QED BY <2>1, <2>2, <2>3
<1> QED BY <1>7, <1>8, <1>9 DEF QuietInv

(* The goroutine of t ends, or is inside the handler: what is awaited then *)
(* was awaited before. The entry of its key keeps its number, and its      *)
(* timer unless no window of the key is open.                              *)
LEMMA QuietLeft ==
  ASSUME IInv, QuietInv, NEW t \in Timers, NEW k \in Keys,
         timers'[t].stage \notin {"armed", "fired"},
         \A x \in Timers \ {t} : timers'[x] = timers[x],
         \A j \in Keys \ {k} : entries'[j] = entries[j],
         \/ entries'[k] # NoEntry /\ entries'[k].seq = entries[k].seq
         \/ \A x \in Timers \ {t} : ~Awaited(x, k),
         \/ entries'[k] # NoEntry /\ entries'[k].timer = entries[k].timer
         \/ \A x \in Timers \ {t} : timers[x].stage = "armed" => timers[x].key # k
  PROVE  QuietInv'
<1>1. \A x \in Timers, j \in Keys : Awaited(x, j)' =>
        /\ x # t /\ Awaited(x, j) /\ timers'[x] = timers[x]
  BY DEF Awaited
<1>2. \A x \in Timers, j \in Keys : Awaited(x, j)' =>
        entries'[j] # NoEntry /\ entries'[j].seq = entries[j].seq
  BY <1>1 DEF QuietInv, NumbersAreKnown
<1>3. \A x \in Timers, j \in Keys : Awaited(x, j)' /\ timers'[x].stage = "armed" =>
        entries'[j].timer = entries[j].timer
  <2> SUFFICES ASSUME NEW x \in Timers, NEW j \in Keys, Awaited(x, j)',
                      timers'[x].stage = "armed"
               PROVE  entries'[j].timer = entries[j].timer
    OBVIOUS
  <2>1. CASE j = k
    BY <1>1, <2>1 DEF Awaited
  <2> QED BY <2>1
<1> QED BY <1>1, <1>2, <1>3, QuietStays DEF IInv

LEMMA QuietStep ==
  ASSUME IInv, QuietInv, DeletesWithNoneLate, NEW t \in Timers, Step(t)
  PROVE  QuietInv'
<1> USE DEF IInv
<1> DEFINE k == timers[t].key
<1>1. CASE Fire(t)
  <2>1. timers[t].stage = "armed" /\ timers'[t].stage = "fired"
    BY <1>1, StageEffect DEF Fire
  <2>2. /\ entries' = entries /\ timers'[t].key = timers[t].key
        /\ timers'[t].seq = timers[t].seq
        /\ \A x \in Timers \ {t} : timers'[x] = timers[x]
    BY <1>1, StageEffect
  <2>3. \A x \in Timers, j \in Keys : Awaited(x, j)' =>
          /\ Awaited(x, j) /\ timers'[x].seq = timers[x].seq
          /\ timers'[x].stage = "armed" => timers[x].stage = "armed"
    BY <2>1, <2>2 DEF Awaited
  <2>4. \A x \in Timers, j \in Keys : Awaited(x, j)' =>
          entries'[j] # NoEntry /\ entries'[j].seq = entries[j].seq
    BY <2>2, <2>3 DEF QuietInv, NumbersAreKnown
  <2> QED BY <2>2, <2>3, <2>4, QuietStays
<1>2. CASE TakeReadyStale(t)
  <2>1. timers' = [timers EXCEPT ![t] = FreeTimer] /\ entries' = entries
        /\ timers[t].stage = "fired"
    BY <1>2 DEF TakeReadyStale
  <2>2. k \in Keys /\ Awaited(t, k)
    BY <2>1, TimerShape DEF Awaited
  <2>3. entries[k] # NoEntry
    BY <2>2 DEF QuietInv, NumbersAreKnown
  <2> QED BY <2>1, <2>2, <2>3, FreeShape, QuietLeft DEF TypeOK
<1>3. CASE TakeReadyBusy(t) \/ TakeReady(t)
  <2>1. timers[t].stage = "fired" /\ SeqMatches(t)
    BY <1>3 DEF TakeReadyBusy, TakeReady
  <2>2. k \in Keys /\ Awaited(t, k)
    BY <2>1, TimerShape DEF Awaited
  <2>3. entries[k] # NoEntry /\ entries[k].seq = timers[t].seq
    BY <2>1 DEF SeqMatches
  <2>4. \A x \in Timers \ {t} : timers[x].stage = "armed" => timers[x].key # k
    BY <2>2, <2>3 DEF QuietInv, NumbersDiffer, OpenWindowIsLatest, Awaited
  <2>5. /\ entries'[k] # NoEntry /\ entries'[k].seq = entries[k].seq
        /\ \A j \in Keys \ {k} : entries'[j] = entries[j]
        /\ timers'[t].stage \notin {"armed", "fired"}
        /\ \A x \in Timers \ {t} : timers'[x] = timers[x]
    <3>1. CASE TakeReadyBusy(t)
      BY <3>1, BusyEffect, FreeShape DEF TypeOK
    <3>2. CASE TakeReady(t)
      BY <2>2, <2>3, <3>2, TakeEffect DEF TakeReady
    <3> QED BY <1>3, <3>1, <3>2
  <2> QED BY <2>2, <2>4, <2>5, QuietLeft
<1>4. CASE HandlerReturns(t)
  <2>1. /\ entries' = entries /\ timers'[t].stage = "returned"
        /\ \A x \in Timers \ {t} : timers'[x] = timers[x]
    BY <1>4, StageEffect DEF HandlerReturns
  <2>2. k \in Keys
    BY <1>4, TimerShape DEF HandlerReturns
  <2>3. entries[k] # NoEntry
    BY <1>4, <2>2 DEF HandlerReturns, RunMarksEntry, InRun
  <2> QED BY <2>1, <2>2, <2>3, QuietLeft
<1>5. CASE FinishRunAgain(t)
  <2>1. timers[t].stage = "returned" /\ entries[k] # NoEntry /\ entries[k].timer = NoTimer
        /\ TakePending(t, entries[k])
    BY <1>5 DEF FinishRunAgain, WaitsWithClosedWindow
  <2>2. k \in Keys
    BY <2>1, TimerShape
  <2>3. \A x \in Timers \ {t} : timers[x].stage = "armed" => timers[x].key # k
    BY <2>1, <2>2, SentinelAssumption DEF QuietInv, OpenWindowIsLatest, Awaited
  <2>4. /\ entries'[k] # NoEntry /\ entries'[k].seq = entries[k].seq
        /\ \A j \in Keys \ {k} : entries'[j] = entries[j]
        /\ timers'[t].stage = "handling"
        /\ \A x \in Timers \ {t} : timers'[x] = timers[x]
    BY <2>1, <2>2, TakeEffect
  <2> QED BY <2>2, <2>3, <2>4, QuietLeft
<1>6. CASE FinishRun(t)
  <2>1. /\ k \in Keys /\ timers[t].stage = "returned"
        /\ \A j \in Keys \ {k} : entries'[j] = entries[j]
        /\ \/ entries'[k] = NoEntry
           \/ /\ entries[k] # NoEntry /\ entries'[k] # NoEntry
              /\ entries'[k].timer = entries[k].timer /\ entries'[k].seq = entries[k].seq
        /\ timers' = [timers EXCEPT ![t] = FreeTimer]
    BY <1>6, FinishEffect
  <2>2. /\ timers'[t].stage \notin {"armed", "fired"}
        /\ \A x \in Timers \ {t} : timers'[x] = timers[x]
    BY <2>1, FreeShape DEF TypeOK
  <2>3. CASE entries'[k] # NoEntry
    BY <2>1, <2>2, <2>3, QuietLeft
  <2>4. CASE entries'[k] = NoEntry
    <3>1. entries[k] # NoEntry
      BY <2>1 DEF RunMarksEntry, InRun
    <3>2. entries[k].timer = NoTimer
      <4> DEFINE idle == entries[k] = NoEntry
                           \/ (entries[k].pending = NoValue /\ entries[k].timer = NoTimer)
                 busy == [entries[k] EXCEPT !.running = FALSE]
      <4>1. entries' = [entries EXCEPT ![k] = IF idle THEN NoEntry ELSE busy]
        BY <1>6 DEF FinishRun
      <4>2. busy \in Entry
        BY <2>1, <3>1, EntryShape DEF Entry
      <4>3. busy # NoEntry
        BY <4>2, SentinelAssumption
      <4> HIDE DEF busy
      <4>4. idle
        BY <2>1, <2>4, <4>1, <4>3 DEF TypeOK
      <4> QED BY <3>1, <4>4
    <3>3. \A x \in Timers : ~Late(x, k)
      BY <2>1, <2>4, <3>1 DEF DeletesWithNoneLate, Deleted
    <3>4. \A x \in Timers : ~Awaited(x, k)
      BY <2>1, <3>2, <3>3, SentinelAssumption
         DEF Awaited, Late, QuietInv, OpenWindowIsLatest
    <3>5. \A x \in Timers \ {t} : timers[x].stage = "armed" => timers[x].key # k
      BY <3>4 DEF Awaited
    <3> QED BY <2>1, <2>2, <3>4, <3>5, QuietLeft
  <2> QED BY <2>3, <2>4
<1> QED BY <1>1, <1>2, <1>3, <1>4, <1>5, <1>6 DEF Step

LEMMA QuietInductive ==
  IInv /\ QuietInv /\ [Next]_vars /\ [DeletesWithNoneLate]_vars => QuietInv'
<1> SUFFICES ASSUME IInv, QuietInv, [Next]_vars, [DeletesWithNoneLate]_vars
             PROVE  QuietInv'
  OBVIOUS
<1>1. CASE UNCHANGED vars
  BY <1>1 DEF vars, QuietInv, NumbersAreKnown, NumbersDiffer, OpenWindowIsLatest, Awaited
<1>2. ASSUME NEW k \in Keys, Call(k) PROVE QuietInv'
  BY <1>2, QuietCall
<1>3. ASSUME NEW t \in Timers, Step(t), DeletesWithNoneLate PROVE QuietInv'
  BY <1>3, QuietStep
<1> QED BY <1>1, <1>2, <1>3 DEF Next

(* A handler starts on a value only when no window of its key is open.     *)
StartsQuietly ==
  \A t, u \in Timers :
       /\ timers[t].stage # "handling" /\ timers'[t].stage = "handling"
       /\ timers[u].stage = "armed" /\ timers[u].key = timers[t].key
       => FALSE

LEMMA QuietStarts == IInv /\ QuietInv /\ [Next]_vars => [StartsQuietly]_vars
<1> SUFFICES ASSUME IInv, QuietInv, Next,
                    NEW t \in Timers, NEW u \in Timers,
                    timers[t].stage # "handling", timers'[t].stage = "handling",
                    timers[u].stage = "armed", timers[u].key = timers[t].key
             PROVE  FALSE
  BY DEF StartsQuietly, vars
<1> USE DEF IInv
<1> DEFINE k == timers[t].key
<1>1. k \in Keys /\ Awaited(u, k)
  BY TimerShape DEF Awaited
<1>2. entries[k].timer = u /\ timers[u].seq = entries[k].seq
  BY <1>1 DEF QuietInv, OpenWindowIsLatest
<1>3. ASSUME NEW x \in Timers, TakeReady(x) \/ FinishRunAgain(x), x = t PROVE FALSE
  <2>1. CASE TakeReady(t)
    <3>1. Awaited(t, k) /\ timers[t].seq = entries[k].seq /\ timers[t].stage = "fired"
      BY <2>1 DEF TakeReady, SeqMatches, Awaited
    <3> QED BY <1>1, <1>2, <3>1 DEF QuietInv, NumbersDiffer
  <2>2. CASE FinishRunAgain(t)
    BY <1>2, <2>2, SentinelAssumption DEF FinishRunAgain, WaitsWithClosedWindow
  <2> QED BY <1>3, <2>1, <2>2
<1>4. ASSUME NEW x \in Timers, Step(x) PROVE x = t /\ (TakeReady(x) \/ FinishRunAgain(x))
  <2>1. ASSUME Fire(x) \/ HandlerReturns(x) PROVE FALSE
    BY <2>1, StageEffect
  <2>2. ASSUME TakeReadyStale(x) \/ TakeReadyBusy(x) \/ FinishRun(x) PROVE FALSE
    BY <2>2, FreeShape DEF TakeReadyStale, TakeReadyBusy, FinishRun, TypeOK, FreeTimer
  <2>3. ASSUME TakeReady(x) \/ FinishRunAgain(x) PROVE x = t
    <3>1. timers[x].key \in Keys /\ entries[timers[x].key] # NoEntry
          /\ TakePending(x, entries[timers[x].key])
      BY <2>3, TimerShape
         DEF TakeReady, SeqMatches, FinishRunAgain, WaitsWithClosedWindow
    <3>2. \A y \in Timers \ {x} : timers'[y] = timers[y]
      BY <3>1, TakeEffect
    <3> QED BY <3>2
  <2> QED BY <1>4, <2>1, <2>2, <2>3 DEF Step
<1>5. ASSUME NEW j \in Keys, Call(j) PROVE FALSE
  <2>1. PICK x \in Timers : CallOutcome(j, x)
    BY <1>5, CallEffect
  <2> QED BY <2>1, FreeShape DEF CallOutcome, FreeTimer
<1> QED BY <1>3, <1>4, <1>5 DEF Next

(* RunsAfterQuiet fails in the code; this says what it takes. A handler    *)
(* starts while a window is open only after finishRun has deleted an entry *)
(* under a goroutine that still waits for the mutex (line 131), since the  *)
(* entry that a later call creates counts from 1 again (lines 62-72).      *)
THEOREM QuietUnlessDeletedLate ==
  SafeSpec /\ DeletesWhenNoneIsLate => RunsAfterQuiet
<1>1. Init => QuietInv
  BY FreeShape DEF Init, QuietInv, NumbersAreKnown, NumbersDiffer, OpenWindowIsLatest, Awaited
<1> QED BY <1>1, QuietInductive, QuietStarts, Inductive, PTL
        DEF SafeSpec, DeletesWhenNoneIsLate, RunsAfterQuiet, StartsQuietly
=============================================================================
