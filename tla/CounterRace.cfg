SPECIFICATION Spec
CONSTANTS
    u1 = u1
    u2 = u2
    Unit <- MCUnit
    W <- MCW
    Deltas <- MCDeltas
    Limits <- MCLimits
    SerialMembership = FALSE
    MaxOnline = 3
INVARIANT
    NoMapRace
