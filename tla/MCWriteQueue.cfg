\* Two connections and the sweeper share a queue of two operations and two bytes.
CONSTANTS
  Connections = {c1, c2}
  Sweeper = Sweeper
  MaxOperations = 2
  MaxPayload = 2
  MaxEvents = 2
  MaxSweeps = 1
SPECIFICATION FairSpec
CHECK_DEADLOCK FALSE
INVARIANTS
  HandledIsAPrefix
  AcceptedIsRun
PROPERTIES
  EverythingSettles
