CONSTANTS
    MaxDepth = 2
    RootIndices <- MCRoots
    MaxChildren = 2
    MaxEvents = 5
SPECIFICATION Spec
INVARIANT Asymmetric
