\* Two first misses of a host.
SPECIFICATION Spec
CONSTANTS
  Scrapers = {s1, s2}
  Regens = {r1}
  Reporters = {}
  MaxAttempts = 3
  MaxDrifts = 1
  MaxReports = 0
  MaxQueue = 2
  MaxVersion = 2
  MaxFaults = 0
CHECK_DEADLOCK FALSE
INVARIANTS
  MissNeverFailsScrape
