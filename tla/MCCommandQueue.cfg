CONSTANTS
  a1 = a1
  a2 = a2
  b1 = b1
  ta = ta
  tb = tb
  Command <- MCCommand
  Client <- MCClient
  Owner <- MCOwner
  MaxSize = 2
  Poison = Poison
  NoCommand = NoCommand
SPECIFICATION Spec
INVARIANTS DrainedIsSettled IInv
PROPERTY ImplementsSerialWriter
CHECK_DEADLOCK FALSE
