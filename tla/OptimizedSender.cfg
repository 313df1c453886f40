SPECIFICATION FairSpec
CONSTANTS
  Size = 2
  Workers = {w1, w2}
  MaxWrites = 3
INVARIANTS
  TypeOK
  NeverOvercounts
PROPERTIES
  RingIsQueue
  AcceptedWritesCounted
  SenderEnds
CHECK_DEADLOCK FALSE
