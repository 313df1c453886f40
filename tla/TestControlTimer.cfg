\* A caller that stops its first test early: does its timer leave the second alone?
SPECIFICATION Spec
CONSTANTS
  MaxTests = 2
  Requests = {r1}
  Main = main
  Mode = "library"
  ApiPorts = {FALSE}
  Timed = TRUE
  Watchers = {}
INVARIANT TimerStopsOwnTest
CHECK_DEADLOCK FALSE
