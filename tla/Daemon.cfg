SPECIFICATION FairSpec
CONSTANTS
  Vault = {v1, v2}
  MaxOps = 2
  MaxFaults = 2
  MaxEvents = 2
INVARIANTS DaemonTypeOK OneAttempt StopIsFinal
PROPERTIES Recovers StopEnds
CHECK_DEADLOCK FALSE
