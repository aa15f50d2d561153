SPECIFICATION FairSpec
CONSTANTS
  MaxStarts = 2
  MaxOps = 2
  MaxFaults = 2
  MaxEvents = 1
INVARIANT ClosedStaysOffline
 
CHECK_DEADLOCK FALSE
