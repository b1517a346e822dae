\* Two overlapping requests, three writes, two edits of the environment.
SPECIFICATION Spec
CONSTANTS
  Requests = {q1, q2}
  Bodies <- MCBodies
  Environments <- MCEnvironments
  MaxWrites = 3
  MaxEdits = 2
CHECK_DEADLOCK FALSE
INVARIANTS
  TypeOK
  KeyGoesWhereItsOwnerSaid
  IncoherentNeverReachesSdk
  FailsLateOnlyByName
