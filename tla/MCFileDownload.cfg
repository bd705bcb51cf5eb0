\* A file of three units, read two at a time, three of them unacknowledged; three faults.
CONSTANTS
  Size = 3
  Chunk = 2
  Limit = 3
  MaxFaults = 3
SPECIFICATION FairSpec
CHECK_DEADLOCK FALSE
INVARIANTS
  StreamJoins
PROPERTIES
  DeliverySpec
  NothingIsUndone
  DownloadSettles
