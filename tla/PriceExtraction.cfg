\* No proxy to three, no rotation to three, the code's three requests; every
\* page on a direct connection, four of them through proxies.
\* A call that is done stops.
SPECIFICATION ExtractionSpec
CONSTANTS
  ProxyCounts = {0, 1, 2, 3}
  Rotations = {0, 1, 2, 3}
  MaxRequests = 3
  Pages <- MCPages
  FewPages <- MCFewPages
  Matches <- MCMatches
CHECK_DEADLOCK FALSE
INVARIANTS
  TypeOK
  BlockedIsEarned
  UnreachableIsTried
  BlocksAreReported
  MissIsDrift
  RequestsBounded
  MissIsHealable
  OwnSourcesPrevail
PROPERTIES
  ImplementsFetch
