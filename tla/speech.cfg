SPECIFICATION FairSpec
CONSTANTS
  Texts <- Replies
  MaxTurns = 2
  MaxUpsets = 2
INVARIANTS SpokenWhole NothingIsStuck
PROPERTIES WithdrawnStaysSilent DoneIsLast EverySpeakCloses
CHECK_DEADLOCK FALSE
