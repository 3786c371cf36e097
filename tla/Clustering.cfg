SPECIFICATION Spec
CONSTANTS
    Feature <- MCFeature
    Threshold = 2
    MaxPattern = 3
    MaxClick = 3
    MaxArea = 1
    Junk = 7
    MayFail = TRUE
\* every pattern may be learned and every click made
CHECK_DEADLOCK FALSE
INVARIANTS
    TypeOK
    LabelNamesItsFounder
    ClustersHangTogether
    FoundersStandAlone
    DataWereAskedFor
PROPERTY LabelIsOfTheArea
