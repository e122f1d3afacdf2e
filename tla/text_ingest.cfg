CONSTANTS
  t1 = t1
  t2 = t2
  t3 = t3
  Texts = {t1, t2, t3}
  Id <- MCId
  Fingerprint <- MCPrint
  None = none
  StaleAfter = 1
  Lookback = 1
  MaxSkew = 0
  MaxSeen = 1
  MaxBurst = 1
  MaxTime = 1
  MaxCrashes = 1
  MaxFaults = 1
SPECIFICATION IngestSpec
INVARIANT AnnouncedOnce SeenIsHandled
CHECK_DEADLOCK FALSE
