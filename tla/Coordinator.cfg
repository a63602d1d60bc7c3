CONSTANTS
  First = {"A", "B"}
  Late = "A2"
  Fresh = {"A3", "B3"}
  Victim = "A"
  Mortal = {"A", "B", "A2", "A3", "B3"}
  CoordinatorMortal = TRUE
  BootOf <- TestBoots
  StallAfter <- AnyStall
SPECIFICATION Spec
INVARIANTS TypeOK ReductionIsOfThisRound MeasuredMeansDelivered
PROPERTIES CoordinatorEnds WorkersEnd RecoveryCompletes
CHECK_DEADLOCK FALSE
