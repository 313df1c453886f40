\* `gosmesh server': two tests, API requests and a signal, the API server
\* goroutine in the wait group, reporters that read nt.ctx again at each tick.
SPECIFICATION Spec
CONSTANTS
  MaxTests = 2
  Requests = {r1}
  Main = main
  Mode = "server"
  ApiPorts = {TRUE}
  Timed = FALSE
  Watchers = {"reporter"}
INVARIANTS
  TypeOK
  FlagHasRunner
  NoSilentEnd
  NilServerNeedsStop
  SingleUseClosesOnce
CHECK_DEADLOCK FALSE
