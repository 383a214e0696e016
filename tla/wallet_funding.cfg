CONSTANTS
  Contributions = {contribution1}
  Price <- PriceMax
  Sessions = {session1, session2}
  Worlds = {world1}
  WorldOf <- OneWorld
  Outages = {}
  Tickets = {}
  Callers = {caller1}
  MaxAmount = 2
  MaxMonth = 1
  None = None
SPECIFICATION Spec
CONSTRAINT NoBudgets
SYMMETRY SessionSymmetry
INVARIANTS
  TypeOK
  NeverOverdrawn
PROPERTIES
  FollowsPrepaidWallet
CHECK_DEADLOCK FALSE
