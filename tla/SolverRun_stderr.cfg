CONSTANTS
  Directives = 1
  PipeCap = 1
  OutCap = 2
  ErrCap = 1
  MaxChatter = 2
  ChattyStderr = TRUE
  HelperMayStay = FALSE
SPECIFICATION Spec
INVARIANTS
  VerdictIsTruth
