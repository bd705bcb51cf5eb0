\* A holder that left is not told of the recall.
CONSTANTS
    Users = {u1, u2}
    Titles = {t1}
    MaxMessages = 1
    MaxChanges = 1
    BatchSize = 1
SPECIFICATION Spec
CHECK_DEADLOCK FALSE
INVARIANTS
    HoldersHearOfTheEnd
