\* A task outside the whitelist, no fault.
CONSTANTS
    Workers = {w1}
    Jobs = {j1, j2}
    Unregistered = {j2}
    Malformed = {}
    Garbage = {}
    Undated = {}
    NoWorker = NoWorker
    NoMessage = NoMessage
    MaxRetry = 1
    MaxFaults = 0
    FaultKinds = {}
SPECIFICATION Spec
CHECK_DEADLOCK FALSE
INVARIANTS
    UnregisteredRetried
