SPECIFICATION Spec
CONSTANTS
  Browser = {b1, b2}
  Host = {app, cli}
  Plugins = {app}
  Code = {c1}
  Device = {d1}
  NoDevice = NoDevice
  RotationInterval = 0
  RotationGrace = 1
  PairTtl = 1
  SessionTtl = 2
  FailureWindow = 2
  FailureLimit = 1
  MaxTime = 2
  MaxTokens = 3
  MaxSecrets = 2
SYMMETRY Symmetry
INVARIANTS SavedTokenWorks RevokedStaysOut FailureBudget
PROPERTY ChangeEndsSessions
CHECK_DEADLOCK FALSE
