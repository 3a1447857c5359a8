\* One worker, which may die at any point and be restarted, in two small worlds.
SPECIFICATION PathSpec
CONSTANTS
    c1 = c1
    c2 = c2
    c3 = c3
    Proc = {w1}
    Chunk = {c1, c2, c3}
    Size <- MCSize
    PacketBlocks = 3
    Nothing = nothing
    Broken = broken
    Hole = hole
    MaxCrashes = 2
    Side = 7
    TreeLine = 6
    World = {1, 2}
    Surface <- MCSurface
    Falls <- MCFalls
    Growth <- MCGrowth
    Cells = 196
    Columns = 49
    SectionY <- MCSectionY
    MinY <- MCMinY
    MaxY = 15
    LongBits = 64
    LeastWidth = 4
    MostWidth = 8
    MaxPalette = 256
    Garbled = garbled
    Position <- MCPosition
    SpawnPosition <- MCSpawnPosition
    StoredSea = 0
    SentSea = 0
    Foreign <- MCForeign
INVARIANTS
    TypeOK
    EntriesReadable
    SameWorld
    ForeignDrawn
    SpawnStands
PROPERTY KeepsPromise
