\* every venue, with sessions that read between the fills of an order
SPECIFICATION Spec
CONSTANTS
    Venues <- MCVenues
    MaxFills = 4
    MaxLong = 2
    MaxShort = 1
    Held <- MCHeld
    Overlap = 2
INVARIANTS
    TypeOK
    RowsAreCycles
    ClosesAreStored
    OneRowPerOrder
PROPERTIES
    CleanupMerges
    CompleteRowsStay
