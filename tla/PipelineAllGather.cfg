CONSTANTS
  MaxU64 = 63
  Second = 4
  Modulus = 5
  RankCounts = {1, 2, 3, 4}
  Descriptors <- MCDescriptors
  PlannerInputs <- MCPlannerInputs
  Buffers <- MCBuffers
SPECIFICATION Spec
INVARIANT SupportedKindsRun
CHECK_DEADLOCK FALSE
