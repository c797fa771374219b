SPECIFICATION Spec
CONSTANTS
  o1 = o1  o2 = o2
  Places = {"overview", "events", "asset", "watchlist"}
  Options = {o1, o2}
  Default = o1
  Nothing = Nothing
  Burst = 2
  MaxRev = 3
  MaxVersion = 3
  MaxAsks = 2
  MaxFlights = 2
INVARIANTS
  QuietMeansCurrent
CHECK_DEADLOCK FALSE
