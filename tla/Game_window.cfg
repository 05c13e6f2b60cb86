SPECIFICATION FairSpec
CONSTANTS
  PollMs = 1
  ResetMs = 1
  GiveUpMs = 2
  Faults = {"no_answer", "wrong_rid"}
  Companions = {TRUE}
  Saves = FALSE
  MaxStale = 1
  MaxOpens = 3
  MaxAbandoned = 1
  MaxInFlight = 2
CHECK_DEADLOCK FALSE
INVARIANTS
  ReplyIsOwn
  NobodyWaitsForNothing
  InFlightIsAccountedFor
PROPERTIES
  TerminalIsFinal
  ConversationEnds
