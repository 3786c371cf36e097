SPECIFICATION Spec
CONSTANTS
    Width = 4
    Height = 3
    MaxLabel = 6
    Junk = 7
    Input <- MCInput
INVARIANTS
    TypeOK
    ObjectsStayApart
    LabelsBeginWithOne
