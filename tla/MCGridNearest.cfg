CONSTANTS
    Width = 3
    Height = 3
    Footprints <- OneFootprint
    Positions <- MCPositions
    Offsets <- MCOffsets
    Ops = {"max", "min"}
SPECIFICATION Spec
INVARIANT NearestIsNearest
CHECK_DEADLOCK FALSE
