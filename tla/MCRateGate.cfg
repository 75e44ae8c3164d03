CONSTANTS
  collect = collect
  produce = produce
  Action <- MCAction
  Mode = "AUTO"
  MinuteWindow = 1
  FailureWindow = 4
  Retention = 4
  Cooldown = 2
  MaxPerMinute = 2
  MaxRetries = 2
  MinSamples = 4
  RateNum = 3
  RateDen = 10
  NoAction = NoAction
SPECIFICATION Spec
INVARIANTS RateCap RetryCap WindowsInv
PROPERTY GateReopens
