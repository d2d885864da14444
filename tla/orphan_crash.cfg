\* One instance that may be killed once.
CONSTANTS
    Workers = {w1}
    Jobs = {j1}
    Unregistered = {}
    Malformed = {}
    Garbage = {}
    Undated = {}
    NoWorker = NoWorker
    NoMessage = NoMessage
    MaxRetry = 1
    MaxFaults = 1
    FaultKinds = {"crash"}
SPECIFICATION Spec
CHECK_DEADLOCK FALSE
INVARIANTS
    BacklogDrains
