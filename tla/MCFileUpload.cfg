\* A file of one and a half commits, and three faults.
CONSTANTS
  Size = 3
  Commit = 2
  MaxFaults = 3
SPECIFICATION FairSpec
CHECK_DEADLOCK FALSE
INVARIANTS
  PublishedIsWhole
  BytesAreInPlace
  LeaseAgrees
PROPERTIES
  DeliverySpec
  NothingIsUndone
  UploadSettles
