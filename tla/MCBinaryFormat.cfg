CONSTANTS
    Ids <- MCIds
    Table <- MCTable
    Inputs <- PlainValues
SPECIFICATION Spec
INVARIANT RoundTrip
CHECK_DEADLOCK FALSE
