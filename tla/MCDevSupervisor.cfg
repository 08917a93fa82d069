CONSTANTS
  N = 3
  MayBeMissing <- LastTwo
SPECIFICATION FairSpec
INVARIANTS NormalExitLeavesNobody NothingLeftRunning
PROPERTIES OneEndsAllEnd SignalStopsAll
CHECK_DEADLOCK FALSE
