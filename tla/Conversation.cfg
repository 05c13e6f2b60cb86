SPECIFICATION FairSpec
CONSTANTS
  PollMs = 1
  ResetMs = 1
  GiveUpMs = 2
  DbFails = TRUE
  Campaign = Campaign
  Companion = Companion
  None = None
  MaxOpens = 2
  MaxTalks = 2
CHECK_DEADLOCK FALSE
INVARIANTS
  ShownIsKept
  OnlyTheShownIsRemembered
PROPERTIES
  ConfirmedIsRemembered
  ShownIsRemembered
