\* `gosmesh run': one test, a duration, signals at any moment; without an API
\* port, or with one and then also POST /api/stop at any moment.
SPECIFICATION FairSpec
CONSTANTS
  MaxTests = 1
  Requests = {r1}
  Main = main
  Mode = "run"
  ApiPorts = {FALSE, TRUE}
  Timed = TRUE
  Watchers = {"conn", "reporter"}
INVARIANTS
  RunnerOutlivesWork
  DoneMeansOver
PROPERTIES
  RunEnds
  SignalEndsRun
CHECK_DEADLOCK FALSE
