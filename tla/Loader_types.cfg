CONSTANTS
    Varied = {"calendar_dates", "stops"}
    ServiceIds = {"s1"}
    Dates = {"d1"}
    Accumulators = {"limit"}
    RaiseWarnings = FALSE
    LimitPerType = 2
    IgnoreTypes = {"UnknownFile"}
    MaxRows = 2
    MaxReports = 2
SPECIFICATION Spec
INVARIANTS
    TypesAreKept
