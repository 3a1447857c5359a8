\* The liveness properties, without symmetry, on a smaller instance.
SPECIFICATION FairSpec
CONSTANTS
    Id = {i1, i2}
    Player = player
    MockA = mockA
    MockB = mockB
    NoUpdate = none
    Place = {0, 1}
    Radius = 0
    RegistryCap = 5
    EventCap = 5
    TrackedCap = 2
    MaxTracked = 1
    TargetMobs = 1
    RefillBatch = 2
    Starters = 1
    SpawnMax = 2
    HasMocks = TRUE
    Packets = TRUE
    LogEvents = TRUE
    CanExpire = TRUE
PROPERTIES
    EveryPassEnds
    RemovedEntityDisappears
