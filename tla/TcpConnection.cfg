\* A TCP connection in either mode: four successful dials, peers that go away, one cancellation.
SPECIFICATION FairSpec
CONSTANTS
  MaxDials = 4
INVARIANTS
  OneSocket
  RetriesUntilCancelled
  ClosedIsReplaced
  LeaksPaidByReconnects
PROPERTIES
  StartReturns
CHECK_DEADLOCK FALSE
