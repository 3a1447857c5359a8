\* Two sessions, restarts between saves, files that may not open.
SPECIFICATION Spec
CONSTANTS
    ann = ann
    bob = bob
    BOB = BOB
    hash = hash
    w1 = w1
    w2 = w2
    Worker = {w1, w2}
    Name <- MCName
    Fold <- MCFold
    Comments = {hash}
    Commands <- MCCommands
    NoCommand = nocmd
    Capacity <- MCCapacity
    DiskErrors = TRUE
    CrashAnytime = FALSE
    MaxChanges = 3
    MaxCrashes = 1
SYMMETRY ModSymmetry
INVARIANTS
    TypeOK
    SavedWhenQuiet
    AuditAccounts
    LateAtMostOnce
PROPERTY ModeratorRemains
