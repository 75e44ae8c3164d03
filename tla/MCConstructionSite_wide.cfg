CONSTANTS
  Width = 6
  Height = 2
  Building = {1, 2, 3}
  Movable = {1, 2, 3}
  Blocked = {}
  Size <- MCWideSize
  Kind <- MCKind
  Baselines <- WideCities
  MaxRounds = 1
  MaxConnector = 2
  MaxChanges = 0
SPECIFICATION Spec
PROPERTY PlanEnds
