SPECIFICATION Spec
CONSTANTS
  PollMs = 1
  ResetMs = 2
  GiveUpMs = 3
  Faults = {"wrong_rid"}
  Companions = {FALSE}
  Saves = FALSE
  MaxStale = 0
  MaxOpens = 2
  MaxAbandoned = 1
  MaxInFlight = 2
CHECK_DEADLOCK FALSE
PROPERTIES
  OwnCallbackCompletes
