SPECIFICATION MCSpec
CONSTANTS
  Names = {"z3", "cvc5"}
  Pools <- MCPools
  MaxObligations = 2
  Thresholds = {1, 2}
  Timeouts = {1, 3}
  ReplayCap = 2
  Needs = {1, 2}
  Abstentions = {}
  Paths <- MCPaths
  Keys = {"none", "k1", "k2"}
  Policies = {FALSE, TRUE}
  MaxEdits = 2
INVARIANTS
  TypeOK
  PartialNeverPasses
  CleanReplayReproves
  SignedMeansUntouched
  GenuineReplays
