SPECIFICATION Spec
CONSTANTS
    r1 = r1
    r2 = r2
    ann = ann
    bo = bo
    Req <- TwoReqs
    Nobody = Nobody
    Name <- TwoNames
    NoName = NoName
    Entry = Entry
    NoFile = NoFile
    MaxFaults = 2
    MaxRequests = 3
    MaxEdits = 1
SYMMETRY Symmetry
CHECK_DEADLOCK FALSE
INVARIANTS
    TypeOK
    FounderKept
    ResetForgets
PROPERTIES
    SetupCloses
