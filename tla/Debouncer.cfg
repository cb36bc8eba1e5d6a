SPECIFICATION Spec
CONSTANTS
  Keys = {k1, k2}
  Timers = {t1, t2, t3}
  MaxCalls = 4
  NoEntry = NoEntry
  NoValue = NoValue
  NoTimer = NoTimer
  NoKey = NoKey
INVARIANTS OneRunPerKey PendingNotStranded
PROPERTIES KeepsPromise KeepsLivePromise
CHECK_DEADLOCK FALSE
