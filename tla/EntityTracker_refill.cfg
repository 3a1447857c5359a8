\* vectora.cfg promises a number of mobs maintained: a full event queue ends that.
SPECIFICATION Spec
CONSTANTS
    Id = {i1, i2, i3, i4}
    Player = player
    MockA = mockA
    MockB = mockB
    NoUpdate = none
    Place = {0, 1}
    Radius = 0
    RegistryCap = 6
    EventCap = 9
    TrackedCap = 2
    MaxTracked = 1
    TargetMobs = 1
    RefillBatch = 2
    Starters = 1
    SpawnMax = 2
    HasMocks = TRUE
    Packets = TRUE
    LogEvents = FALSE
    CanExpire = TRUE
PROPERTY MobsMaintained
