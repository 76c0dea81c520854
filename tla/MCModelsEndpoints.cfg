\* models_endpoints
SPECIFICATION ModelsSpec
CONSTANTS
  Program <- MCProgram
  Matches <- MCMatches
  Inputs  <- MCInputs
INVARIANTS
  EndpointsApart
CHECK_DEADLOCK FALSE
