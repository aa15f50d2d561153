SPECIFICATION Spec
CONSTANTS
  NoHash = NoHash
  NoPath = NoPath
  Fold <- MCFold
  CopyCandidates <- MCCopyCandidates
  PathOrder <- MCPathOrder
  Path = {"note", "Note", "memo"}
  Device = {1}
  Hash = {x, y}
  LargeHash = {}
  ClientKinds = {"edit", "delete", "rename"}
  RenameSources = {"memo"}
  FolderCommits = TRUE
  RetentionVersions = 1
  RetentionDays = FALSE
  PutFailures = FALSE
  LogPruning = TRUE
  MaxVersions = 4
  MaxSeq = 4
  MaxSnapshots = 1
SYMMETRY HashSymmetry
INVARIANTS
  FoldKeysUnique
  HeadSeqMatchesLog
  PinnedVersionsKept
PROPERTIES
  RestoreReproducesSnapshot
CHECK_DEADLOCK FALSE
