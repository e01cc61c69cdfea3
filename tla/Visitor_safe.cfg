SPECIFICATION Spec
CONSTANTS
  int_type_info <- SmallTypes
  depth <- Depth
  u64_max = 4095
  None <- MCNone
  Programs <- AllPrograms
  Configs <- MCConfigs
INVARIANTS
  TypeOK
  ReachableIsCovered
  RiskySitesReported
  OutsideIsReported
  AcceptedCastsKeepTheValue
  ContractsServeTheirBody
  StackLimitKept
PROPERTIES
  WalkEnds
CHECK_DEADLOCK FALSE
