\* model_generators
SPECIFICATION ModelsSpec
CONSTANTS
  Program <- MCProgram
  Matches <- MCMatches
  Inputs  <- MCInputs
INVARIANTS
  SelectionCorrect
  
  RoundTrip
  CompleteTranslated
CHECK_DEADLOCK FALSE
