\* Pages of one message; three logins, a restart, five signals under way.
CONSTANTS
  Streams <- SmallStreams
  MaxSeq = 3
  Page = 1
  MaxLogins = 3
  MaxRestarts = 1
  MaxChannel = 5
SPECIFICATION Spec
CHECK_DEADLOCK FALSE
INVARIANTS
  CacheIsItsEvents
  UnreadIsExact
  ViewShowsCache
