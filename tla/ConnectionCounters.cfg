\* The three loops, with the ticker and a GetStats caller updating the statistics.
SPECIFICATION Spec
CONSTANTS
  Sizes = {1, 3}
  PacketSize = 2
  BatchSize = 3
  Updaters = {ticker, caller}
  MaxBytes = 7
SYMMETRY UpdaterSymmetry
INVARIANTS
  NothingLost
  DatagramsExact
  AtMostTwice
  PacketsHaveBytes
CHECK_DEADLOCK FALSE
