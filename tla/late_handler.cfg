\* Two instances; one handler outlives the visibility timeout.
CONSTANTS
    Workers = {w1, w2}
    Jobs = {j1}
    Unregistered = {}
    Malformed = {}
    Garbage = {}
    Undated = {}
    NoWorker = NoWorker
    NoMessage = NoMessage
    MaxRetry = 1
    MaxFaults = 1
    FaultKinds = {"late"}
SPECIFICATION Spec
CHECK_DEADLOCK FALSE
PROPERTIES
    TerminalStable
