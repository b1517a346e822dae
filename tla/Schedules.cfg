\* Two requests and a starting worker on one product.
SPECIFICATION Spec
CONSTANTS
  generic = generic
  amazon = amazon
  Products = {p1}
  Requests = {r1, r2}
  Sources = {generic, amazon}
  QueueOf <- MCQueueOf
  CreatedAs = {TRUE, FALSE}
  MaxPatches = 3
  MaxSyncs = 2
  MaxFaults = 2
CHECK_DEADLOCK FALSE
INVARIANTS
  TypeOK
  EntriesFollowRows
  EntryBeforeOrAfter
