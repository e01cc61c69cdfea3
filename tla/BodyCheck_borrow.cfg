SPECIFICATION Spec
CONSTANTS
  int_type_info <- IntTypes
  Callees <- Functions
  Bodies <- BorrowBodies
INVARIANT DischargedReturnsHold
