CONSTANTS
    MaxDepth = 3
    RootIndices <- MCRoots
    MaxChildren = 2
    MaxEvents = 6
SPECIFICATION Spec
INVARIANT TypeOK
INVARIANT SpawnRefines
CHECK_DEADLOCK FALSE
