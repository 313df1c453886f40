\* `gosmesh run' until its timer stops the test: is the report out when testDone closes?
SPECIFICATION Spec
CONSTANTS
  MaxTests = 1
  Requests = {}
  Main = main
  Mode = "run"
  ApiPorts = {FALSE}
  Timed = TRUE
  Watchers = {"conn", "reporter"}
INVARIANT ReportBeforeDone
CHECK_DEADLOCK FALSE
