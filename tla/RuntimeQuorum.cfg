CONSTANTS
  Exec = {e1}
  Thread = {t1, t2}
  Gen = {1, 2}
  Kind = {"ALL_REDUCE", "ALL_GATHER", "HUGE_BARRIER"}
  MaxRanks = 2
  MaxContributions = 2
  None = None
SPECIFICATION FairSpec
INVARIANTS TypeOK QuorumBeforeSuccess InFlightHasExecutor AtMostOneRun
           SuccessIsDocumented AccountingConserved CleanTeardown
PROPERTIES NoResurrection InFlightEnds ImplementsQuorumCommit
