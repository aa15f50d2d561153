SPECIFICATION Spec
CONSTANTS
  NoHash = NoHash
  NoPath = NoPath
  Fold <- MCFold
  CopyCandidates <- MCCopyCandidates
  PathOrder <- MCPathOrder
  Path = {"note", "memo", "note-copy"}
  Device = {1, 2}
  Hash = {x, y}
  LargeHash = {}
  ClientKinds = {"edit", "delete", "rename", "conflictCopy"}
  RenameSources = {"note", "memo"}
  FolderCommits = FALSE
  RetentionVersions = 0
  RetentionDays = FALSE
  PutFailures = FALSE
  LogPruning = FALSE
  MaxVersions = 4
  MaxSeq = 4
  MaxSnapshots = 0
SYMMETRY HashSymmetry
INVARIANTS
  HeadsAreRecorded
  ClocksFollowParents
  HeadSeqMatchesLog
  RefcountsExact
  LiveContentStored
PROPERTIES
  HeadClocksAdvance
  ReplacedHeadsSurvive
  RetryIsIdempotent
CHECK_DEADLOCK FALSE
