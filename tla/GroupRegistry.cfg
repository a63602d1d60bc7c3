CONSTANTS
  MaxId = 2
  Identity <- Identities
  MaxParticipants = 3
  Gen = {1, 2}
SPECIFICATION Spec
INVARIANTS TypeOK RanksDenseById RecoveryKeepsRanks
PROPERTIES MembershipImmutable
