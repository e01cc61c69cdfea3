CONSTANTS
  Directives = 2
  PipeCap = 1
  OutCap = 2
  ErrCap = 1
  MaxChatter = 2
  ChattyStderr = FALSE
  HelperMayStay = TRUE
SPECIFICATION Spec
INVARIANTS
  TypeOK
  VerdictIsTruth
  NothingLeaks
  CleanAnswerIsHeard
PROPERTIES
  ReturnsUnlessHeld
