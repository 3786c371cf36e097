SPECIFICATION FairSpec
CONSTANTS
    Name = {a, b}
    Page = {p1}
    Reader = {r1, r2}
    MaxVersion = 2
    MaxDelete = 1
    MayLose = TRUE
INVARIANTS
    TypeOK
    FoundIfThere
    EditTakesEffect
PROPERTIES
    StaleEntriesEnd
