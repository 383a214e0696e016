SPECIFICATION Spec
CONSTANTS
  m1 = m1  m2 = m2
  Monitors <- TwoMonitors
  AutoSleeps <- OneMinuteOrOff
  Horizon = 1
  MaxChecks = 1
  MaxEdits = 1
  LossesAllowed = TRUE
  None = None
INVARIANT TypeOK
PROPERTIES AutoSleepIsEarned IdleWorldSleeps UnfundedSessionEnds BegunSleepIsDispatched
