SPECIFICATION FairSpec
CONSTANTS
    Apps = {a1, a2}
    Names <- MCNames
    Chars = {1, 2}
    SampleSize = 2
    Slots = 2
    Limits = {0, 1, 2}
    MaxSends = 3
    MaxFailures = 1
INVARIANTS
    TypeOK
    DispatchedWasSent
PROPERTIES
    ChannelSpec
    TakenIsDispatched
    CheckReturns
    StopEnds
CHECK_DEADLOCK FALSE
