\* Three users and one message: members who come and go around it.
CONSTANTS
    Users = {u1, u2, u3}
    Titles = {t1}
    MaxMessages = 1
    MaxChanges = 5
    BatchSize = 2
SPECIFICATION Spec
CHECK_DEADLOCK FALSE
SYMMETRY Symmetric
INVARIANTS
    PositionsAgree
    CountsAgree
    MembersAreTold
PROPERTIES
    PositionNeverFalls
