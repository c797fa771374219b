SPECIFICATION FairSpec
CONSTANTS
  quotes = quotes
  info = info
  Callers = {1, 2}
  Endpoints = {quotes}
  MaxPerMinute = 2
  MaxRetries = 1
  Minute = 3
  Ttl = 2
  Delays <- ShortAndLong
INVARIANTS
  LimiterRemembers
  OnlyWaitersExceed
  ServedWithinTtl
PROPERTIES
  EveryCallSettles
CHECK_DEADLOCK FALSE
