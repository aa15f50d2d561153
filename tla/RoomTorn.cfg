SPECIFICATION Spec
CONSTANTS
  NoHash = NoHash
  NoPath = NoPath
  Fold <- MCFold
  CopyCandidates <- MCCopyCandidates
  PathOrder <- MCPathOrder
  Path = {"note", "note-copy"}
  Device = {1, 2}
  Hash = {x, y}
  LargeHash = {}
  ClientKinds = {"edit", "delete", "rename"}
  RenameSources = {}
  FolderCommits = FALSE
  RetentionVersions = 0
  RetentionDays = FALSE
  PutFailures = TRUE
  LogPruning = FALSE
  MaxVersions = 3
  MaxSeq = 4
  MaxSnapshots = 0
SYMMETRY HashSymmetry
PROPERTIES
  RetryAnnounces
CHECK_DEADLOCK FALSE
