CONSTANTS
  WakeOps = {wake1}
  SleepOps = {sleep1}
  RecoverOps = {}
  Workers = {worker1, worker2}
  Clients = {client1}
  WakeFrom <- ConsoleStatuses
  MaxEdits = 0
  LaterWakes = {}
  None = None
SPECIFICATION Spec
SYMMETRY WorkerSymmetry
INVARIANTS
  TypeOK
  TransitionsAreOwned
  StoredStateIsRecoverable
  ChargedOnlyAfterRelease
  FailedWakeIsCompensated
CHECK_DEADLOCK FALSE
