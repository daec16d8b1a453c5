CONSTANTS
    Ids <- MCIds
    Table <- MCTable
    Inputs <- Mismatched
SPECIFICATION Spec
INVARIANT RoundTrip
CHECK_DEADLOCK FALSE
