SPECIFICATION Spec
CONSTANTS
  MaxOps = 3
  MaxSends = 1
  MaxProgress = 2
  Partial = Partial
  None = None
INVARIANTS TypeOK PlaysOnWholeState
PROPERTY WhatWasPlayedIsStored
