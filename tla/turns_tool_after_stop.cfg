SPECIFICATION FairSpec
CONSTANTS
  m1 = m1  m2 = m2  f1 = f1  None = None  Phone = Phone
  Msg = {m1}
  Follow = {}
  Research = {}
  Outside = {}
  Picture = {}
  Kind = {"send"}
  Forced = {}
  Answers = {"allow", "skip"}
  Ink = {}
  AskIsGrant = TRUE
  OffAtStart = {}
  MaxCalls <- OneCall
  MaxStops = 1
  MaxLoads = 0
  MaxSyncs = 0
  MaxBus = 1
CHECK_DEADLOCK FALSE
PROPERTIES NoToolAfterStop
