\* Deadlock is allowed: with the bounded number of connections and strokes used
\* up and every socket closed, the server only waits.
SPECIFICATION FairSpec
CONSTANTS
    MaxConn = 4
    MaxStrokes = 2
    Slow = {1, 2, 3}
INVARIANTS
    TypeOK
    AtMostOneWaiting
    StaleListenersAreDead
    RelaysAreMutual
    ConnectedMeansListening
    SurvivorIsLast
    CloseFollowsMessage
    StrokeGoesToOne
    AuthorsTakeTurns
PROPERTIES
    RoomSpec
    SurvivorIsReleased
CHECK_DEADLOCK FALSE
