SPECIFICATION SyncSpec
CONSTANTS
  NoHash = NoHash
  NoPath = NoPath
  Fold <- MCFold
  CopyCandidates <- MCCopyCandidates
  PathOrder <- MCPathOrder
  Parent <- MCParent
  Above <- MCAbove
  Base <- MCBase
  Ignored <- NoneIgnored
  MergeText3 <- MCMerge
  EmptyId <- EmptyVersion
  Path = {"note", "note-1", "note-2", "note-1b", "note-2b"}
  Device = {1, 2}
  Hash = {"x", "y", "z", "xyz"}
  LargeHash = {}
  ClientKinds = {"edit", "delete", "conflictCopy", "restore"}
  RenameSources = {}
  FolderCommits = FALSE
  RetentionVersions = 0
  RetentionDays = FALSE
  PutFailures = FALSE
  LogPruning = FALSE
  MaxVersions = 5
  MaxSeq = 6
  MaxSnapshots = 0
  UserPaths = {"note"}
  UserDirs = {}
  Mergeable = {"note"}
  PushConcurrency = 1
  EditsInWindow = FALSE
  WriteFailures = FALSE
  MaxEdits = 3
  MaxFaults = 0
INVARIANTS
  QuietMeansSynced
PROPERTIES
  ContentIsKept
CHECK_DEADLOCK FALSE
