CONSTANTS
    Width = 3
    Height = 3
    Footprints <- MCFootprints
    Positions <- MCPositions
    Offsets <- MCOffsets
    Ops = {"max", "min"}
SPECIFICATION Spec
INVARIANT TypeOK
INVARIANT TraceIsLine
INVARIANT ConvolveIsDilation
INVARIANT NeighborsAdjacent
INVARIANT MergeIsPlacement
CHECK_DEADLOCK FALSE
