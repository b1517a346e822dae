\* One task id, two fair slots: a crash, a swallowed write, a refused send.
SPECIFICATION FairSpec
CONSTANTS
  Tasks = {t1}
  Slots = {w1, w2}
  Products = {p1}
  ProductOf <- MCProductOf
  MaxRetries = 2
  MaxCrashes = 1
  MaxDbFaults = 1
  MaxSendFaults = 1
CHECK_DEADLOCK FALSE
INVARIANTS
  TypeOK
  NoSilentStall
  VerdictIsAnAttempts
  AttemptsBounded
PROPERTIES
  RowMovesForward
  EverySendSettles
  EveryRowSettles
