\* Signals reach the process at any point.
CONSTANTS
    MaxSignals = 2
SPECIFICATION FairSpec
CHECK_DEADLOCK FALSE
INVARIANTS
    ThreadsHaveTheirObjects
    PromiseSetOnce
    ZeroOnlyWhenAsked
    CatalogBeforeConsuming
PROPERTIES
    StartedWorkerStops
