\* Two users and two messages, a sweep takes one row at a time; timers run out
\* (no symmetry, because of the temporal property).
CONSTANTS
    Users = {u1, u2}
    Titles = {t1}
    MaxMessages = 2
    MaxChanges = 1
    BatchSize = 1
SPECIFICATION FairSpec
CHECK_DEADLOCK FALSE
INVARIANTS
    TypeOK
    TextIsGone
    RecalledWhenNobodyHasIt
PROPERTIES
    TimersRunOut
    LifeSpec
