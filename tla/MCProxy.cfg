CONSTANT
  MaxMsgs = 3
SPECIFICATION FairSpec
INVARIANTS
  TypeOK
  Relayed
  StuckWithoutStatus
PROPERTY
  EndsTogether
CHECK_DEADLOCK FALSE
