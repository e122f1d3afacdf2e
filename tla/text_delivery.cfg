CONSTANTS
  t1 = t1
  t2 = t2
  Texts = {t1}
  Id <- MCId
  Fingerprint <- MCPrint
  None = none
  StaleAfter = 1
  Lookback = 1
  MaxSkew = 0
  MaxSeen = 1
  MaxBurst = 1
  MaxTime = 1
  MaxCrashes = 1
  MaxFaults = 1
  Listener = listener
  Flushes = {f1}
  MaxTries = 2
  MaxRounds = 1
  MaxDeaths = 1
SPECIFICATION Spec
INVARIANT AckedIsHandled
CHECK_DEADLOCK FALSE
