CONSTANTS
    Varied = {"calendar", "calendar_dates", "shapes", "stops"}
    ServiceIds = {s1, s2}
    Dates = {"d1"}
    Accumulators = {"raise", "limit", "console"}
    RaiseWarnings = FALSE
    LimitPerType = 1
    IgnoreTypes = {"UnknownFile"}
    MaxRows = 2
    MaxReports = 2
SPECIFICATION SmallSpec
SYMMETRY Symmetry
INVARIANTS
    ContextIsCurrentOrRejected
    RowsAreAccountedFor
    ListsAreExact
    ExitCodeIsExact
    PageIsExact
