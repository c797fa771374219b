SPECIFICATION MCFairSpec
CONSTANTS
  Dests <- TwoDests
  MinSeverity = "high"
  Verdicts <- Readings
  ConfirmScans = 1
  MaxScans = 4
  MaxFaults = 1
INVARIANTS
  EveryOutcomeLogged
  OneNotificationPerKey
  CrossingNotified
PROPERTIES
  EscalationNeverSilent
  EveryJobSettles
CHECK_DEADLOCK FALSE
