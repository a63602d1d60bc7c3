CONSTANTS
  First = {"A", "B"}
  Late = "A2"
  Fresh = {"A3", "B3"}
  Victim = "A"
  Mortal = {}
  CoordinatorMortal = FALSE
  BootOf <- TestBoots
  StallAfter <- TestStall
SPECIFICATION Spec
INVARIANTS FreshCollectiveRan
CHECK_DEADLOCK FALSE
