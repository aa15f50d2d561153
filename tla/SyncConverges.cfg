SPECIFICATION FairSyncSpec
CONSTANTS
  NoHash = NoHash
  NoPath = NoPath
  Fold <- MCFold
  CopyCandidates <- MCCopyCandidates
  PathOrder <- MCPathOrder
  Parent <- MCParent
  Above <- MCAbove
  Base <- MCBase
  Ignored <- NoneIgnored
  MergeText3 <- NoMerges
  EmptyId <- EmptyVersion
  Path = {"dir", "note", "note-1", "note-2"}
  Device = {1, 2}
  Hash = {x, y}
  LargeHash = {}
  ClientKinds = {"edit", "delete", "conflictCopy", "restore"}
  RenameSources = {}
  FolderCommits = TRUE
  RetentionVersions = 0
  RetentionDays = FALSE
  PutFailures = FALSE
  LogPruning = TRUE
  MaxVersions = 5
  MaxSeq = 6
  MaxSnapshots = 0
  UserPaths = {"note"}
  UserDirs = {"dir"}
  Mergeable = {}
  PushConcurrency = 1
  EditsInWindow = FALSE
  WriteFailures = FALSE
  MaxEdits = 2
  MaxFaults = 0
PROPERTIES
  Convergence
CHECK_DEADLOCK FALSE
