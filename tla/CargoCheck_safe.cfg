CONSTANTS
  Members = {"a", "b"}
  Deps <- MCDeps
  Program <- MCProgram
  Sections <- MCSections
  Defects <- MCDefects
  Obliging <- MCObliging
  MaxEdits = 2
  MaxChecks = 3
SPECIFICATION Spec
INVARIANTS
  TypeOK
  AcceptedWorkspaceVerified
  AcceptedMeansAnalyzed
  NothingWalkedIsFlagged
  BundleIsOfLastAnalysis
