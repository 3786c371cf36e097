SPECIFICATION Spec
CONSTANTS
    Service = {blog}
    User = {ann}
    Empty = empty
    Password = {p1, p2, empty}
    MaxCall = 4
    MayFail = FALSE
SYMMETRY Names
\* every call may be over
CHECK_DEADLOCK FALSE
INVARIANTS
    ServiceTakesItsUsers
    AuthIsEarned
    AddedCanLogIn
    ServiceStands
