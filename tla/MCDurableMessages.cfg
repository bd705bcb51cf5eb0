\* One device, two requests in its queue, which is either of the two queues.
SPECIFICATION FairSpec
CONSTANTS
  Kinds = {"message", "control"}
  Devices = {d1}
  Intents = {i1, i2}
  Contents = {c1}
  None = None
  MaxQueue = 3
  MaxLosses = 2
  MaxBadSaves = 1
  MaxChanges = 2
CHECK_DEADLOCK FALSE
INVARIANTS
  FailedNeverTakesEffect
  EffectsKeepOrder
PROPERTIES
  ExactlyOnceSpec
  PendingIsSettled
