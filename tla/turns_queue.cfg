SPECIFICATION Spec
CONSTANTS
  m1 = m1  m2 = m2  f1 = f1  None = None  Phone = Phone
  Msg = {m1, m2}
  Follow = {f1}
  Research = {}
  Outside = {m1}
  Picture = {m2}
  Kind = {"free"}
  Forced = {}
  Answers = {"allow", "skip"}
  Ink = {}
  AskIsGrant = TRUE
  OffAtStart = {}
  MaxCalls <- OneCall
  MaxStops = 1
  MaxLoads = 1
  MaxSyncs = 1
  MaxBus = 1
CHECK_DEADLOCK FALSE
INVARIANTS OneTerminal AnswerSeesItsAsk NobodyIsStranded
PROPERTIES QuietOnlyUnanswered OneAtATime
