CONSTANTS
  States <- SavedStates
  MaxCount = 3
  MaxField = 7
  Crc <- WeightedSum
SPECIFICATION Spec
INVARIANTS RecoveredNeedRevalidation
