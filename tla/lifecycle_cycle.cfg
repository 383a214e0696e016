CONSTANTS
  WakeOps = {wake1, wake2}
  SleepOps = {sleep1}
  RecoverOps = {recover1, recover2, recover3, recover4}
  Workers = {worker1}
  Clients = {client1}
  WakeFrom <- ConsoleStatuses
  MaxEdits = 1
  LaterWakes = {wake2}
  None = None
SPECIFICATION Spec
CONSTRAINTS WakesAfterSleep RecoveriesApart
SYMMETRY RecoverySymmetry
INVARIANTS
  
  
  RecoveryIsBounded
PROPERTIES
  PlayedRuntimeReleasedSafely
  FollowsStateMachine
CHECK_DEADLOCK FALSE
