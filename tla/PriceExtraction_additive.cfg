\* One proxyless call: the question is what the call makes of its page.
SPECIFICATION ExtractionSpec
CONSTANTS
  ProxyCounts = {0}
  Rotations = {0}
  MaxRequests = 3
  Pages <- MCPages
  FewPages <- MCFewPages
  Matches <- MCMatches
CHECK_DEADLOCK FALSE
INVARIANT PurelyAdditive
