SPECIFICATION FairSpec
CONSTANTS
  a1 = a1
  a2 = a2
  server = server
  cli = cli
  Assets <- OneAsset
  Procs <- TwoProcesses
  Verdicts <- Anomalies
  ConfirmScans = 2
  Retention = 1
  MaxScans = 3
  MaxFaults = 0
INVARIANTS
  EvidenceBeforeClaim
PROPERTIES
  EventIdentityStable
  EveryRunFinishes
CHECK_DEADLOCK FALSE
