\* merge_assignment
SPECIFICATION MergeSpec
CONSTANTS
  Symbol   <- MCSymbol
  Relation <- MCRelation
  Column   <- MCColumn
  File     <- MCFile
  Omitted  = {"CTADLStats"}
  Config   = "CTADLConfig"
  Settings <- MCSettings
  Inputs   <- MCInputs
  Merges   <- MCMerges
PROPERTIES
  AssignmentSets
CHECK_DEADLOCK FALSE
