\* Are the sent bytes a connection reports never more than what it transmitted?
SPECIFICATION Spec
CONSTANTS
  Sizes = {1}
  PacketSize = 1
  BatchSize = 3
  Updaters = {caller}
  MaxBytes = 4
INVARIANT SentIsTransmitted
CHECK_DEADLOCK FALSE
