\* Two devices of one user that use the same message intent.
SPECIFICATION Spec
CONSTANTS
  Kinds = {"message"}
  Devices = {d1, d2}
  Intents = {i1}
  Contents = {c1, c2}
  None = None
  MaxQueue = 2
  MaxLosses = 1
  MaxBadSaves = 0
  MaxChanges = 1
CHECK_DEADLOCK FALSE
INVARIANTS
  AtMostOneEffect
  ConfirmedTookEffect
