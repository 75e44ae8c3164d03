CONSTANTS
  Capacities <- MCCapacities
  Margin = 1
  Enough = 2
  AllowIncrease = TRUE
  Misreadings = {}
  NoBaseline = NoBaseline
  Environment <- Clearing
SPECIFICATION Spec
PROPERTY ManualClearRecovers
