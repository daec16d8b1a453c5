CONSTANTS
    Table <- MCTable
    Names <- MCNames
    Numbers <- MCNumbers
    Seqs <- MCSeqs
    MaxText = 4
    MaxCmds = 2
    SessionResponseId = 2
    MaxKeySize = 1
SPECIFICATION Spec
INVARIANT RoundTrip
INVARIANT TypedAsShown
INVARIANT ResponseReencodes
