SPECIFICATION FairSpec
CONSTANTS
  m1 = m1  m2 = m2  f1 = f1  None = None  Phone = Phone
  Msg = {m1}
  Follow = {f1}
  Research = {m1}
  Outside = {}
  Picture = {}
  Kind = {"free", "write"}
  Forced = {"write"}
  Answers = {"allow", "allow_turn", "allow_always", "skip"}
  Ink = {m1}
  AskIsGrant = TRUE
  OffAtStart = {}
  MaxCalls <- TwoCalls
  MaxStops = 1
  MaxLoads = 0
  MaxSyncs = 0
  MaxBus = 1
CHECK_DEADLOCK FALSE
INVARIANTS ToolNeedsItsAllow
PROPERTIES StoppedTurnWindsDown EveryInputEnds
