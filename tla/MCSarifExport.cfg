CONSTANTS
  Node <- MCNode
  VertexId <- MCNode
  DVar <- MCDVar
  DPath <- MCDPath
  DInsn <- MCDInsn
  DFunction <- MCDFunction
  DLabel <- MCDLabel
  DRegion <- MCDRegion
  DFile <- MCDFile
  Exports <- MCExports
SPECIFICATION ExportSpec
CHECK_DEADLOCK FALSE
INVARIANTS
  ExportTypeOK
  PoppedIsDiscovered
  PathsAreReal
  NothingLeft
  AllPathsFound
  EverySinkHasPath
  LeaksReported
  FlowsFollowExecution
  LocationsKnown
  LabelsCross
PROPERTIES
  NewPathsKeepAway
  ExportEnds
