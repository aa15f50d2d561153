SPECIFICATION Spec
CONSTANTS
  Wizard = {w1, w2}
  Setup = {s1}
  Account = {a1, a2}
  Visible = {a1, a2}
  Name = {n1}
  Asset = {"index", "app"}
  Release = "release"
  Bundle = {"release", "damaged", "long", "large", "malformed"}
  Content <- MCContent
  Bytes <- MCBytes
  Directory <- MCDirectory
  FieldMax = 4
  DownloadCap = 2
  EntryCap = 2
  ArchiveCap = 3
  None = None
  MaxFaults = 2
SYMMETRY ProvisioningSymmetry
INVARIANTS WorkersAreWhole OnlyTheRelease  SuccessIsComplete
CHECK_DEADLOCK FALSE
