CONSTANTS
  Contributions = {contribution1}
  Price <- PriceOne
  Sessions = {}
  Worlds = {world1}
  WorldOf <- OneWorld
  Outages = {}
  Tickets = {}
  Callers = {caller1}
  MaxAmount = 1
  MaxMonth = 1
  None = None
SPECIFICATION Spec
CONSTRAINT NoBudgets
INVARIANTS
  CreditedOnce
CHECK_DEADLOCK FALSE
