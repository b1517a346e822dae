\* A scrape, reports and two regeneration slots, all fair.
SPECIFICATION FairSpec
CONSTANTS
  Scrapers = {s1}
  Regens = {r1, r2}
  Reporters = {u1}
  MaxAttempts = 2
  MaxDrifts = 1
  MaxReports = 2
  MaxQueue = 2
  MaxVersion = 2
  MaxFaults = 1
CHECK_DEADLOCK FALSE
INVARIANTS
  TypeOK
  CountersExact
PROPERTIES
  NeverWithdrawn
  ValidatedUntilDrift
  CatchesUpOrSpends
