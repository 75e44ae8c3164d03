CONSTANTS
  Capacities <- MCCapacities
  Margin = 1
  Enough = 2
  AllowIncrease = TRUE
  Misreadings <- AnyCount
  NoBaseline = NoBaseline
  Environment <- Everything
SPECIFICATION Spec
INVARIANTS TrueReadingsAccepted CollectFits
PROPERTY TrustReturns
