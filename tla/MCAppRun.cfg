CONSTANTS
  c1 = c1
  c2 = c2
  main_thread = main_thread
  Command <- MCCommand
  Client <- MCClient
  Owner <- MCOwner
  MaxSize = 2
  Poison = Poison
  NoCommand = NoCommand
  MaxLoopErrors = 2
  MaxPresses = 2
SPECIFICATION AppSpec
INVARIANTS AppTypeOK NoLateWrite WorkerSurvives HaltedStaysCancelled LeaseCoversWrites LeaseGivenBack
PROPERTY EndsWhenTold
