SPECIFICATION Spec
CONSTANTS
  Global <- MCGlobal
  Local = {"l"}
  Text <- MCText
  Id = {"trp_player", "trp_nobody"}
  Known = {"trp_player"}
  Stored <- MCStored
  Empty = ""
  Key = {"", "hi", "long", "long_a", "long_b"}
  Keys <- MCKeys
  Part <- MCPart
  Stages <- MCStages
  ScanOrder <- MCScanOrder
  Caught = {"dialogs"}
  Module <- MCModule
  Seed <- MCSeed
  Later <- MCLater
CHECK_DEADLOCK FALSE
INVARIANTS
  GlobalsHaveOneIndex
  TextsAreTheirOwn
  IndicesAreKept
