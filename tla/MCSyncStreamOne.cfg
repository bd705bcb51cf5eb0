\* One device, three events, two faults, room for one retransmission.  Faults and
\* events are bounded, so they end, and the device must converge.
SPECIFICATION FairSpec
CONSTANTS
  Devices = {d1}
  PageSize = 1
  MaxBurst = 2
  MaxLog = 3
  MaxFaults = 2
  MaxQueue = 2
CHECK_DEADLOCK FALSE
INVARIANTS
  TypeOK
  CursorIsContiguous
  ReadyIsCurrent
  ConfirmationsAreBacked
  NeverFails
  DeliveredWasApplied
PROPERTIES
  NeverBackwards
  ReplicationSpec
  EventuallyInSync
