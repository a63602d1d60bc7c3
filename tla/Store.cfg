CONSTANTS
  States <- SavedStates
  MaxCount = 3
  MaxField = 7
  Crc <- WeightedSum
SPECIFICATION Spec
INVARIANTS TypeOK SavesAreAtomic BrokenFilesRejected DamageNeverMisread DecodeIsStrict
PROPERTIES ImplementsKeeper
