CONSTANTS
  Instances <- PassedOn
SPECIFICATION Spec
INVARIANTS
  ContractsHold
