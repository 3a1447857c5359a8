\* A client that keeps to the protocol; play is not looked at.
SPECIFICATION Spec
CONSTANTS
    ReplayPlaces <- MCReplayPlaces
    Fits = {"fits"}
    MaxExtra = 0
    MaxWild = 0
    KeepAlive = 10
    IdleLimits = {0}
    Place = {0}
    Epsilon = 50
    NoPlace = none
    MaxPass = 1
    ClockLeaps = {}
    MaxLeapt = 0
    MaxMessages = 1
    Window = 1
    BlockBase = 1
    BlockMax = 1
    Decay = 1
    MaxStrikes = 1
    MaxShift = 0
    Leaps = {}
    MaxLeaps = 0
    Slack = 0
    Numeral <- MCNumeral
    TextRoom = 3
    LineRoom = 8
    Configurations <- MCBuiltIn
    Forgotten <- MCForgotten
INVARIANT OneByOneServed
