SPECIFICATION Spec
CONSTANTS
  int_type_info <- IntTypes
  Callees <- Functions
  Bodies <- AllBodies
INVARIANTS
  TypeOK
  DischargedOperationsHold
  DischargedReturnsHold
  AcceptedBodyNeverFails
  ConstantCallsDecided
