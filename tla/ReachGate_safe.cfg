CONSTANTS
  Instances <- Questions
SPECIFICATION Spec
INVARIANTS
  WalkIsItsSummary
  ClosureVerified
  FullWalkIsNotFlagged
  ContractsHold
  NothingDropped
