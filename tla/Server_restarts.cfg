\* an account of an earlier version, restarts at any moment of two buckets
SPECIFICATION Spec
CONSTANTS
    n1 = n1
    n2 = n2
    r1 = r1
    Names <- MCNames
    Enabled <- MCEnabled
    Requests <- MCRequests
    Recorded <- MCRecorded
    DayLength = 2
    Ahead = 1
    Lookback = 1
    Keep = 1
    History = 3
    MaxTime = 4
    MaxAccounts = 2
INVARIANTS
    TypeOK
    TracesStay
    DaysMovedOnce
    CurveHasEarlierBuckets
    Provisioned
PROPERTIES
    PointsKeepAccounts
