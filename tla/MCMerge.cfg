\* merge_indices
SPECIFICATION MergeSpec
CONSTANTS
  Symbol   <- MCSymbol
  Relation <- MCRelation
  Column   <- MCColumn
  File     <- MCFile
  Omitted  = {"CTADLStats"}
  Config   = "CTADLConfig"
  Settings <- MCSettings
  Inputs   <- MCInputs
  Merges   <- MCMerges
INVARIANTS
  MergeInv
PROPERTIES
  UnionSpec
CHECK_DEADLOCK FALSE
