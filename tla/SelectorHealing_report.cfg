\* A budget of one attempt and a late scrape commit.
SPECIFICATION Spec
CONSTANTS
  Scrapers = {s1, s2}
  Regens = {r1}
  Reporters = {u1}
  MaxAttempts = 1
  MaxDrifts = 2
  MaxReports = 1
  MaxQueue = 2
  MaxVersion = 2
  MaxFaults = 0
CHECK_DEADLOCK FALSE
PROPERTIES
  ReportClearsBudget
