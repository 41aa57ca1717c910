SPECIFICATION BoundedSpec
CONSTANTS
    MaxDate = 4
    Week = 1
    Weekend = {0}
    BadDates = {2}
    MaxPeriods = 2
    Days = {0, 1, 2, 3, 4}
    MaxInterval = 2
    Year = 3
    SixMonths = 2
    WarnDays = 2
    MaxEntries = 3
INVARIANTS
    ActiveDatesAreExact
    ScheduleRangeCoversService
    GapsAreReal
    GapsAreComplete
    PastGapsAreSilent
PROPERTIES
    ValidationEnds
    ValidateAddsNoService
VIEW View
CHECK_DEADLOCK FALSE
