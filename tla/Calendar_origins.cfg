SPECIFICATION Spec
CONSTANTS
    MaxDate = 2
    Week = 1
    Weekend = {}
    BadDates = {}
    MaxPeriods = 2
INVARIANTS
    OriginsAreRight
