SPECIFICATION Spec
CONSTANTS
  NoHash = NoHash
  NoPath = NoPath
  Fold <- MCFold
  CopyCandidates <- MCCopyCandidates
  PathOrder <- MCPathOrder
  Path = {"note", "note-copy"}
  Device = {1}
  Hash = {x, y}
  LargeHash = {x, y}
  ClientKinds = {"edit", "delete", "conflictCopy"}
  RenameSources = {}
  FolderCommits = FALSE
  RetentionVersions = 1
  RetentionDays = TRUE
  PutFailures = FALSE
  LogPruning = FALSE
  MaxVersions = 4
  MaxSeq = 4
  MaxSnapshots = 0
SYMMETRY HashSymmetry
INVARIANTS
  RefcountsExact
CHECK_DEADLOCK FALSE
