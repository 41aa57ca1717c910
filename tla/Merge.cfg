SPECIFICATION Spec
CONSTANTS
    Inputs <- MCInputs
    Mergers <- MCMergers
INVARIANTS
    MergedTablesAreExact
    ReferencesResolve
    StatsAddUp
    ReportIsExact
PROPERTIES
    ImplementsUnion
    Termination
CHECK_DEADLOCK FALSE
