SPECIFICATION Spec
CONSTANTS
    Service = {blog}
    User = {ann}
    Empty = empty
    Password = {p1}
    MaxCall = 4
    MayFail = TRUE
\* every call may be over
CHECK_DEADLOCK FALSE
INVARIANTS
    TypeOK
    DeletedUserStaysGone
    NamesAreUnique
