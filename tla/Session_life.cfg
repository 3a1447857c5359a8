\* Every kind of client up to play; timers and the chat limit with clocks that are set once.
SPECIFICATION FairSpec
CONSTANTS
    ReplayPlaces <- MCReplayPlaces
    Fits = {"fits", "version", "name"}
    MaxExtra = 2
    MaxWild = 3
    KeepAlive = 2
    IdleLimits = {0, 3}
    Place = {0, 1, 2, 3}
    Epsilon = 1
    NoPlace = none
    MaxPass = 2
    ClockLeaps <- MCLeaps
    MaxLeapt = 2
    MaxMessages = 2
    Window = 2
    BlockBase = 2
    BlockMax = 5
    Decay = 6
    MaxStrikes = 4
    MaxShift = 2
    Leaps <- MCLeaps
    MaxLeaps = 1
    Slack = 2
    Numeral <- MCNumeral
    TextRoom = 3
    LineRoom = 8
    Configurations <- MCConfigurations
    Forgotten <- MCForgotten
INVARIANTS
    TypeOK
    RefusedForAReason
    StatesAgree
    KeepAliveInTime
    IdleExact
    RateBound
    StartsAsMeant
PROPERTIES
    LoginEnds
    WaitsGrow
