CONSTANTS
  NumObligations = 2
  Known = {"z3", "cvc5"}
  Configs <- MCConfigs
  Obligations <- MCHypotheses
  Abstentions = {"timeout"}
SPECIFICATION Spec
INVARIANTS
  TypeOK
  DischargeSound
  AcceptedMeansProven
  LedgerComplete
  IndependentVotes
  HonestSolversAgree
PROPERTIES
  ImplementsContract
