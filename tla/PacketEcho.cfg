SPECIFICATION FairSpec
CONSTANTS
  Updaters = {"ticker"}
  EchoLimit = 2
  MaxPackets = 3
  MaxDuplicates = 1
  MaxRestarts = 1
INVARIANTS
  TypeOK
  NegativeLossIsBounded
  ReceiverEndsForCause
  EchoesInOrder
PROPERTIES
  StatsAdvance
  StartReturns
CHECK_DEADLOCK FALSE
