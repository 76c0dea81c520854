CONSTANTS
  Node <- MCNode
  VertexId <- MCNode
  DVar <- MCDVar
  DPath <- MCDPath
  DInsn <- MCDInsn
  DFunction <- MCDFunction
  DLabel <- MCDLabel
  DRegion <- MCDRegion
  DFile <- MCDFile
  Databases <- MCDatabases
  Selections <- MCSelections
SPECIFICATION FindSpec
CHECK_DEADLOCK FALSE
INVARIANTS
  FindTypeOK
  TableShortest
  ConnectedHavePath
  ResultsAreReal
PROPERTY
  FindEnds
