SPECIFICATION Spec
CONSTANTS
    Identifiers <- MCIdentifiers
    Destinations <- MCDestinations
    Values <- MCValues
    ForeignValues <- MCForeignValues
    Memory = {0, 77}
    MaxParameters = 2
    MaxDepth = 8
INVARIANT TypeOK
INVARIANT WritesStandardForm
INVARIANT ReadsStandardForm
INVARIANT RoundTrip
INVARIANT HeaderSurvives
INVARIANT CutBodiesThrow
INVARIANT OneTypePerParameter
INVARIANT ReadingEnds
