CONSTANTS
  t1 = t1
  t2 = t2
  Texts = {t1}
  Id <- MCId
  Fingerprint <- MCPrint
  None = none
  StaleAfter = 1
  Lookback = 2
  MaxSkew = 1
  MaxSeen = 1
  MaxBurst = 1
  MaxTime = 0
  MaxCrashes = 0
  MaxFaults = 0
  Listener = listener
  Flushes = {f1}
  MaxTries = 1
  MaxRounds = 1
  MaxDeaths = 0
SPECIFICATION Spec
INVARIANT QueuedStays
CHECK_DEADLOCK FALSE
