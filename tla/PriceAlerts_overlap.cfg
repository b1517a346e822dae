\* Two scrapes of the product that overlap.
SPECIFICATION Spec
CONSTANTS
  sale = sale
  plain = plain
  Workers = {w1, w2}
  Alerts = {a1}
  Pages = {sale, plain}
  Readings <- MCReadings
  Thresholds = {2}
  MinFailures = 2
  MaxScrapes = 4
  MaxEdits = 1
  MaxFaults = 1
SYMMETRY MCSymmetry
CHECK_DEADLOCK FALSE
INVARIANTS
  NoticesBounded
  NeverSilenced
PROPERTIES
  CrossingNoticed
