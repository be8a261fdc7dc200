\* five records, pages of two, two pages a part, parts of two ticks
SPECIFICATION Spec
CONSTANTS
    Endpoints <- MCEndpoints
    Records = {1, 2, 3, 4, 5}
    MaxTime = 4
    MaxLate = 2
    Contents <- MCContents
    Limit = 2
    MaxPages = 2
    SliceLength = 2
INVARIANTS
    TypeOK
    NoHoles
    CompleteMeansBooked
