SPECIFICATION Spec
CONSTANTS
    Session = {ann, bob}
    MaxVideo = 2
    MaxTicket = 2
    MaxComment = 3
    COMMENTS_MAX = 2
    MaxTrouble = 1
SYMMETRY Sessions
\* every page may be closed
CHECK_DEADLOCK FALSE
INVARIANTS
    TypeOK
    TicketIsSpentOnce
    EncodedIsWatchable
    CountKeepsUp
    CommentsKeepTheirOrder
    SavedIsKept
