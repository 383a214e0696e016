CONSTANTS
  WakeOps = {wake1}
  SleepOps = {}
  RecoverOps = {}
  Workers = {worker1}
  Clients = {client1}
  WakeFrom <- ConsoleStatuses
  MaxEdits = 0
  LaterWakes = {}
  None = None
SPECIFICATION Spec
INVARIANTS
  LiveRuntimeIsRecorded
CHECK_DEADLOCK FALSE
