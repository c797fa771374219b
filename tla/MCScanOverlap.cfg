SPECIFICATION Spec
CONSTANTS
  a1 = a1
  a2 = a2
  server = server
  cli = cli
  Assets <- TwoAssets
  Procs <- OneProcess
  Verdicts <- TwoVerdicts
  ConfirmScans = 2
  Retention = 1
  MaxScans = 3
  MaxFaults = 1
SYMMETRY AssetSymmetry
INVARIANTS
  OneOpenEvent
  CompletedScanIsWhole
  GapOnlyAfterFailure
  LogNeverAhead
CHECK_DEADLOCK FALSE
