CONSTANTS
  Sender = {t1, t2}
  Kind = {1}
  Payload <- MCPayload
  MaxKind = 2
  MaxPayload = 2
  ReadSize = 7
  Garbage = {0, 2}
  MaxFrames = 2
  MaxDamage = 1
  None = None
SPECIFICATION FairSpec
INVARIANTS TypeOK RejectedForCause
PROPERTIES ImplementsChannel EveryFrameArrives
CHECK_DEADLOCK FALSE
