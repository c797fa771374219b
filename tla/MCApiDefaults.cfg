SPECIFICATION Spec
CONSTANTS
  a1 = a1
  a2 = a2
  Assets <- MCAssets
  Verdicts <- MCVerdicts
  ConfirmScans = 2
  MaxScans = 3
  GapOf <- MCGapOf
  SpreadOf <- MCSpreadOf
  Windows = {2, 9}
  MaxPoints = 3
  RowLimit = 4
  OverviewLimit = 2
  LiveFrom = 0
  BySymbol <- MCBySymbol
  Absent = Absent
  Garbled = Garbled
  ListDefault = 2
  HttpMax = 3
  StoreMax = 4
  PageLimit = 2
  ScanLimit = 3
  SearchLimit = 2
  MaxBody = 1
  DefaultWindow = 2
  PointsMin = 1
  PointsDefault = 2
INVARIANTS
  AbsentLimitIsDefault
CHECK_DEADLOCK FALSE
