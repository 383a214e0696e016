CONSTANTS
  Contributions = {contribution1}
  Price <- PriceMax
  Sessions = {}
  Worlds = {world1}
  WorldOf <- OneWorld
  Outages = {}
  Tickets = {ticket1,ticket2}
  Callers = {caller1, caller2}
  MaxAmount = 2
  MaxMonth = 1
  None = None
SPECIFICATION Spec
CONSTRAINT NoBudgets
INVARIANTS
  ReversalsAreCovered
PROPERTIES
  ReversalIsFinal
CHECK_DEADLOCK FALSE
