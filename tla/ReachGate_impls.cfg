CONSTANTS
  Instances <- TwoImpls
SPECIFICATION Spec
INVARIANTS
  ClosureVerified
