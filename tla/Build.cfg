SPECIFICATION FairSpec
CONSTANTS
  bat = bat
  code = code
  X = X
  Y = Y
  old = old
  new = new
  flip = flip
  loop = loop
  use = use
  stale = stale
  late = late
  File <- MCFile
  IdFile <- MCIdFile
  Bat = bat
  Bytes <- MCBytes
  Export <- MCExport
  Data <- MCData
  Stage = {"use", "gen_y", "line_correction", "gen_x", "append"}
  Excluded = {"line_correction"}
  Absent = Absent
  Foreign = Foreign
  Marker = Marker
  Lines <- MCLines
  StageOk <- MCStageOk
  StageTree <- MCStageTree
  StageExports <- MCStageExports
  MaxPasses = 4
  Source <- MCSource
  Leftover <- MCLeftover
  Edit <- MCEdit
  MaxEdits = 2
  MaxInterrupts = 1
INVARIANTS
  EveryStageSawTheFinalTree
  AcceptedIsAFixpoint
  PublishedAsAccepted
  MarkerNamesOwnFiles
  SyncedBuildsInOnePass
PROPERTIES
  EveryBuildEnds
