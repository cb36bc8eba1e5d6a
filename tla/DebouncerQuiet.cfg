SPECIFICATION SafeSpec
CONSTANTS
  Keys = {k1}
  Timers = {t1, t2, t3}
  MaxCalls = 4
  NoEntry = NoEntry
  NoValue = NoValue
  NoTimer = NoTimer
  NoKey = NoKey
PROPERTY RunsAfterQuiet
CHECK_DEADLOCK FALSE
