\* The process may die in the middle of a save.
SPECIFICATION Spec
CONSTANTS
    ann = ann
    bob = bob
    BOB = BOB
    hash = hash
    w1 = w1
    w2 = w2
    Worker = {w1, w2}
    Name <- MCName
    Fold <- MCFold
    Comments = {hash}
    Commands <- MCCommands
    NoCommand = nocmd
    Capacity <- MCCapacity
    DiskErrors = FALSE
    CrashAnytime = TRUE
    MaxChanges = 2
    MaxCrashes = 1
PROPERTY FirstPlayerOnly
