\* A refused message and a user who keeps retrying it.
SPECIFICATION RetryingSpec
CONSTANTS
  Kinds = {"message"}
  Devices = {d1}
  Intents = {i1}
  Contents = {c1}
  None = None
  MaxQueue = 1
  MaxLosses = 0
  MaxBadSaves = 0
  MaxChanges = 2
CHECK_DEADLOCK FALSE
PROPERTIES
  FailedCanBeRetried
