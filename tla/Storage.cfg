SPECIFICATION Spec
CONSTANTS
  Note = {n1}
  CopyName = {c1}
  Mine = {m1, m2}
  Theirs = {t1, t2}
  TrashSlots = 2
  Retries = 2
  Torn = Torn
  None = None
  Gone = Gone
  MaxPulls = 2
  MaxSaves = 2
  MaxEdits = 2
  MaxFaults = 2
SYMMETRY StorageSymmetry
INVARIANTS StorageTypeOK TornIsAnnounced
PROPERTIES StorageKeeps RecordedContentLanded PullsSpareDirtyNotes
CHECK_DEADLOCK FALSE
