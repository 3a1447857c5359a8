\* Two workers that save to one region.
SPECIFICATION Spec
CONSTANTS
    c1 = c1
    c2 = c2
    Proc = {w1, w2}
    Chunk = {c1, c2}
    Size <- MCSizeTwo
    PacketBlocks = 1
    Nothing = nothing
    Broken = broken
    Hole = hole
    MaxCrashes = 0
PROPERTY Persisted
