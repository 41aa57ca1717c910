SPECIFICATION Spec
CONSTANTS
    Stops = {0, 1}
    MaxSecs = 2
    Numbers = {1, 2}
    MaxRows = 4
    MaxMixed = 3
    MaxReplace = 2
    SameLimit = 2
INVARIANTS
    AppendedTripMovesForward
    TimetravelCheckIsExact
    InterpolationMovesForward
    SameTimeReportsAreExact
