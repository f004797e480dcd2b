SPECIFICATION FairSpec
CONSTANTS
    u1 = u1
    u2 = u2
    Unit <- MCUnit
    W <- MCW
    Deltas <- MCDeltas
    Limits <- MCLimits
    SerialMembership = TRUE
    MaxOnline = 3
INVARIANTS
    TypeOK
    LimitRespected
    ReserveAccounted
    ReadWithinReserve
    LoadedIsCurrent
PROPERTIES
    RefusalExactAlone
    ImplementsLimitCounter
    CallsProgress
