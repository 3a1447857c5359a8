\* A walk with broken blocks, caches smaller than the number of blocks.
SPECIFICATION Spec
CONSTANTS
    b1 = b1
    b2 = b2
    b3 = b3
    b4 = b4
    Centers <- MCCenters
    Spawn <- MCSpawn
    Radius = 1
    ClientRadius = 2
    Block = {b1, b2, b3, b4}
    ChunkOf <- MCChunkOf
    Near <- MCNear
    BrokenCapacity = 3
    DropCapacity = 2
    Window = 1
    ReplayMax = 1
    MaxTime = 3
    MaxDigs = 7
    MaxFailures = 1
SYMMETRY Neighbours
INVARIANTS
    TypeOK
    AreaHeld
    BrokenStaysBroken
    DropsCounted
PROPERTY DropsGiven
