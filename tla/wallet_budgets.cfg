CONSTANTS
  Contributions = {}
  Price <- PriceMax
  Sessions = {session1, session2}
  Worlds = {world1}
  WorldOf <- OneWorld
  Outages = {outage1}
  Tickets = {ticket1}
  Callers = {}
  MaxAmount = 3
  MaxMonth = 2
  None = None
SPECIFICATION Spec
SYMMETRY SessionSymmetry
PROPERTIES
  BudgetBoundsCommitments
CHECK_DEADLOCK FALSE
