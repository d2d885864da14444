\* One worker with its configuration, a message, and a task.
CONSTANTS
    IntValues = 1048576
    StdoutTailBytes = 4
    OutputFiles = {o1, o2}
    o1 = o1
    o2 = o2
    MaxAttempts = 2
    Scenarios <- AllScenarios
SPECIFICATION FairSpec
CHECK_DEADLOCK FALSE
INVARIANTS
    StartsConfigured
    SettingsUsable
    AccessesSafe
    InputsComplete
    VerdictTruthful
    TailIsText
    
    
    
PROPERTIES
    HandlerEnds
