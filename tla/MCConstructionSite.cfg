CONSTANTS
  Width = 4
  Height = 2
  Building = {1, 2, 3}
  Movable = {1, 2}
  Blocked = {}
  Size <- MCSize
  Kind <- MCKind
  Baselines <- SmallCities
  MaxRounds = 2
  MaxConnector = 2
  MaxChanges = 2
SPECIFICATION Spec
INVARIANTS TargetIsSound PlanExecutesOffRoads CompleteIsTarget OneStepBlind ServedAllAlong SiteInv
PROPERTY SimpleCyclesEnd
