CONSTANTS
  Members = {"a", "b"}
  Deps <- MCDeps
  Program <- MCProgram
  Sections <- MCSections
  Defects <- MCDefects
  Obliging <- MCObliging
  MaxEdits = 1
  MaxChecks = 2
SPECIFICATION Spec
INVARIANTS
  StrictReanalyzesAll
