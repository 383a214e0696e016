SPECIFICATION Spec
CONSTANTS
  s1 = s1  s2 = s2
  States = {s1, s2}
  Keys = {k1}
  Calls = {c1}
  Allowance = 2
  GraceDays = 1
  DeletionDays = 1
  MaxBackups = 2
  None = None
INVARIANTS TypeOK LastCopyIsKept 
PROPERTIES ProtectedFirst  BlocksAreLifted UnpaidExcessEnds
