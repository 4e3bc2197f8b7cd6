CONSTANTS
  r1 = r1
  p1 = p1
  Role = {r1, r2, r3}
  Perm = {p1}
  Cond <- Tree
  Context <- Contexts
  Height <- Nesting
  Evaluate <- MCEvaluate
  Asking <- MCAsking
  Inputs <- MCInputs
SPECIFICATION DecideSpec
INVARIANTS
  TypeOK
  ReturnsReachable
  DecidesAsEngine
  SilenceGainsNothing
PROPERTIES
  VisitedOnce
  Terminates
CHECK_DEADLOCK FALSE
