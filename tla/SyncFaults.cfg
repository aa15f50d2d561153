SPECIFICATION SyncSpec
CONSTANTS
  NoHash = NoHash
  NoPath = NoPath
  Fold <- MCFold
  CopyCandidates <- MCCopyCandidates
  PathOrder <- MCPathOrder
  Parent <- MCParent
  Above <- MCAbove
  Base <- MCBase
  Ignored <- NoneIgnored
  MergeText3 <- NoMerges
  EmptyId <- EmptyVersion
  Path = {"note", "Note", "note-1", "note-2"}
  Device = {1, 2}
  Hash = {x, y}
  LargeHash = {}
  ClientKinds = {"edit", "conflictCopy", "restore", "delete", "rename"}
  RenameSources = {"note", "Note"}
  FolderCommits = FALSE
  RetentionVersions = 0
  RetentionDays = FALSE
  PutFailures = TRUE
  LogPruning = FALSE
  MaxVersions = 5
  MaxSeq = 6
  MaxSnapshots = 0
  UserPaths = {"note", "Note"}
  UserDirs = {}
  Mergeable = {}
  PushConcurrency = 2
  EditsInWindow = FALSE
  WriteFailures = TRUE
  MaxEdits = 2
  MaxFaults = 1
INVARIANTS
  SyncTypeOK
  SendsKnownParents
PROPERTIES
  ContentIsKept
CHECK_DEADLOCK FALSE
