\* Entity packets on, the event log off (the shipped vectora.cfg): the queue is
\* never emptied, so a few passes fill it.
SPECIFICATION Spec
CONSTANTS
    Id = {i1, i2, i3, i4, i5}
    Player = player
    MockA = mockA
    MockB = mockB
    NoUpdate = none
    Place = {0, 1}
    Radius = 0
    RegistryCap = 7
    EventCap = 9
    TrackedCap = 3
    MaxTracked = 2
    TargetMobs = 2
    RefillBatch = 2
    Starters = 1
    SpawnMax = 2
    HasMocks = TRUE
    Packets = TRUE
    LogEvents = FALSE
    CanExpire = TRUE
SYMMETRY IdSymmetry
INVARIANTS
    TypeOK
    FlagsMatchClient
    NothingLost
    ViewIsExact
    LimitEnforced
    RefillWithinLimits
