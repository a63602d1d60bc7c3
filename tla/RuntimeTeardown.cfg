CONSTANTS
  Exec = {e1}
  Thread = {t1, t2}
  Gen = {1}
  Kind = {"ALL_REDUCE"}
  MaxRanks = 1
  MaxContributions = 1
  None = None
SPECIFICATION Spec
INVARIANTS TeardownClosesActive
