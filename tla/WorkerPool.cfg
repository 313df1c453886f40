SPECIFICATION FairSpec
CONSTANTS
  N = 4
  Workers = {w1, w2}
  Errors = {Canceled, Refused, TimedOut, NotFound}
  CtxErr = Canceled
  Nil = Nil
INVARIANTS
  SuccessIsReal
  TopErrorsAreFirst
PROPERTIES
  MapSpec
CHECK_DEADLOCK FALSE
