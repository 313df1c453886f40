SPECIFICATION FairSpec
CONSTANTS
  Nodes = {n1, n2}
  InitialHosts <- MCInitialHosts
  MaxCrashes = 1
  Servers = {s1, s2, s3}
  Reports <- MCReports
  Unbeaten = 3
INVARIANTS
  TypeOK
  StartNeedsAllDeployed
  CommandsFindTheirInputs
  StopReachesAll
  UninstallLeavesNothing
  StatsAddUp
  DisplayIsRanked
PROPERTIES
  CommandEnds
CHECK_DEADLOCK FALSE
