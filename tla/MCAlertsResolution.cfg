SPECIFICATION Spec
CONSTANTS
  Dests <- TwoDests
  MinSeverity = "high"
  Verdicts <- Readings
  ConfirmScans = 2
  MaxScans = 3
  MaxFaults = 0
INVARIANTS
  ResolutionReported
CHECK_DEADLOCK FALSE
