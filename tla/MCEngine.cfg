SPECIFICATION MCSpec
CONSTANTS
  Tokens <- AllTokens
  References <- AllReferences
  Markets = {"open", "closed", "unknown"}
  Pairs = {"unknown"}
  Priors = {1}
  MaxTokens = 3
  Unit = 100
  Thresholds <- DefaultThresholds
  FreshSeconds = 1
  AgingSeconds = 2
  Venues <- OneVenue
  Keys = {k1}
  ReviewAges = {1, 3}
  MaxAge = 2
  GapTolerance = 2
  PriceTolerance = 1
  Changes = {1, 3}
  FirstDay <- StartOf2021
  LastYear = 2027
  SessionMinutes = {569, 570, 959, 960}
INVARIANTS
  VerdictWellFormed
  WorstBandReported
  OrderDecidesNothing
  IssuedReceiptAudits
  AlteredReceiptFails
  ReviewNamesOutlier
  SessionFollowsRules
PROPERTIES
  OutlierNeverMilder
  BetterOnlyAtOpening
CHECK_DEADLOCK FALSE
