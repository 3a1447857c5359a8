\* Two thread slots, as many connections, one descriptor more, both builds.
SPECIFICATION Spec
CONSTANTS
    Worker = {w1, w2}
    Fd = {f1, f2, f3}
    Main = main
    Nobody = nobody
    MaxConnections = 2
    MaxChatSockets = 2
    Platforms = {"windows", "posix"}
    IdleTimeout = TRUE
    Stalls = TRUE
    MaxFaults = 1
SYMMETRY HubSymmetry
INVARIANTS
    TypeOK
    ConnectionLimit
    RegisteredAreInPlay
    OnlineCount
    NobodySkipped
    StraysAreNew
