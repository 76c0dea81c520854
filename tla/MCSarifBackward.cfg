CONSTANTS
  Node <- MCNode
  VertexId <- MCNode
  DVar <- MCDVar
  DPath <- MCDPath
  DInsn <- MCDInsn
  DFunction <- MCDFunction
  DLabel <- MCDLabel
  DRegion <- MCDRegion
  DFile <- MCDFile
  Exports <- BackwardExports
SPECIFICATION ExportSpec
CHECK_DEADLOCK FALSE
INVARIANT
  EveryPathHasFlow
