SPECIFICATION Spec
CONSTANTS
    Feeds <- MCFeeds
    Near = 2
    FarWarning = 3
    FarError = 5
    LongWarning = 2
    LongError = 6
    Grace = 1
    Walk = 1
    Minute = 2
    Speeds <- MCSpeeds
    Times <- MCTimes
    Headways = {0, 1, 2}
INVARIANTS
    NearbyReportsAreExact
    BlockReportsAreExact
    TripReportsAreExact
    RunsAreSeparate
    ExceptionsAreExplained
PROPERTY Termination
