SPECIFICATION BoundedSpec
CONSTANTS
    AgencyIds = {0}
    ServiceIds = {0}
    StopIds = {0}
    RouteIds = {0, 1}
    TripIds = {0}
    ShapeIds = {0}
    FareIds = {0}
    Zones = {z1}
    Toks = {1, 2}
    FeedToks = {f1}
    MaxRules = 1
    NoId = NoId
    IdBuiltin = IdBuiltin
    Absent = Absent
    NoObj = NoObj
    Agency1 = 0
    Tok1 = 1
    Route1 = 0
INVARIANTS
    RouteListsAreExact
    FareZonesAreExact
    FareRulesResolve
    RouteAgencyRegistered
    DefaultAgencyKnownOrStranded
PROPERTIES
    FailedCallKeepsTables
CHECK_DEADLOCK FALSE
