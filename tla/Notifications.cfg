\* Two fair slots, two levels of retries, faults, a crash and an edit.
SPECIFICATION FairSpec
CONSTANTS
  Slots = {w1, w2}
  Notices = 1
  MaxRetries = 1
  MaxEdits = 1
  MaxCrashes = 1
  MaxFaults = 2
  MaxCount = 7
CHECK_DEADLOCK FALSE
INVARIANTS
  TypeOK
  NothingLeftPending
  SentIsDelivered
  RetriesBounded
PROPERTIES
  EveryNoticeSettles
