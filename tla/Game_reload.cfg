SPECIFICATION Spec
CONSTANTS
  PollMs = 1
  ResetMs = 0
  GiveUpMs = 1
  Faults = {}
  Companions = {FALSE}
  Saves = TRUE
  MaxStale = 0
  MaxOpens = 2
  MaxAbandoned = 0
  MaxInFlight = 2
CHECK_DEADLOCK FALSE
INVARIANTS
  StuckCanBeReset
