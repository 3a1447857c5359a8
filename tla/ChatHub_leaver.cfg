\* No idle timeout, clients that stop reading, a full registry, both builds.
SPECIFICATION FairSpec
CONSTANTS
    Worker = {w1, w2}
    Fd = {f1, f2}
    Main = main
    Nobody = nobody
    MaxConnections = 2
    MaxChatSockets = 1
    Platforms = {"windows", "posix"}
    IdleTimeout = FALSE
    Stalls = TRUE
    MaxFaults = 0
PROPERTY LeaverEnds
