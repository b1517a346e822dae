\* One scrape at a time, with faults and edits.
SPECIFICATION Spec
CONSTANTS
  sale = sale
  plain = plain
  Workers = {w1}
  Alerts = {a1, a2}
  Pages = {sale, plain}
  Readings <- MCReadings
  Thresholds = {2}
  MinFailures = 2
  MaxScrapes = 3
  MaxEdits = 1
  MaxFaults = 1
CHECK_DEADLOCK FALSE
INVARIANTS
  TypeOK
  FlaggedIffFailing
PROPERTIES
  LatestIsObserved
  KeepsCooldown
