\* A webhook that times out.
SPECIFICATION Spec
CONSTANTS
  Slots = {w1}
  Notices = 1
  MaxRetries = 3
  MaxEdits = 0
  MaxCrashes = 0
  MaxFaults = 0
  MaxCount = 15
CHECK_DEADLOCK FALSE
INVARIANTS
  RetryPolicyKept
