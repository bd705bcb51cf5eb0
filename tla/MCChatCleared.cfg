\* A recalled message that does not burn keeps its text.
CONSTANTS
    Users = {u1, u2}
    Titles = {t1}
    MaxMessages = 1
    MaxChanges = 0
    BatchSize = 1
SPECIFICATION FairSpec
CHECK_DEADLOCK FALSE
PROPERTIES
    RecalledTextIsCleared
