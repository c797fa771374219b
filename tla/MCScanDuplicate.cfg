SPECIFICATION Spec
CONSTANTS
  a1 = a1
  a2 = a2
  server = server
  cli = cli
  Assets <- OneAsset
  Procs <- TwoProcesses
  Verdicts <- TwoVerdicts
  ConfirmScans = 2
  Retention = 1
  MaxScans = 2
  MaxFaults = 0
INVARIANTS
  OneOpenEvent
CHECK_DEADLOCK FALSE
