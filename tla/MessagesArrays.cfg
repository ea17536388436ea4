SPECIFICATION Spec
CONSTANTS
    Identifiers <- MCIdentifiers
    Destinations <- MCDestinations
    Values <- MCArrayValues
    ForeignValues = {}
    Memory = {0, 77}
    MaxParameters = 2
    MaxDepth = 8
INVARIANT ReceivesWhatItSends
