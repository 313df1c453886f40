\* A library caller that reuses one tester: can the second test complete?
SPECIFICATION Spec
CONSTANTS
  MaxTests = 2
  Requests = {r1}
  Main = main
  Mode = "library"
  ApiPorts = {FALSE}
  Timed = TRUE
  Watchers = {"conn"}
INVARIANT ReusableTester
CHECK_DEADLOCK FALSE
