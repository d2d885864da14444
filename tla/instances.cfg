\* Two instances whose handlers keep within the visibility timeout.
CONSTANTS
    Workers = {w1, w2}
    Jobs = {j1}
    Unregistered = {}
    Malformed = {}
    Garbage = {}
    Undated = {}
    NoWorker = NoWorker
    NoMessage = NoMessage
    MaxRetry = 2
    MaxFaults = 3
    FaultKinds = {"crash", "delete", "send", "send_timeout", "dedup", "dlq_write", "dlq_flush", "dlq_loss", "s3", "api"}
SPECIFICATION Spec
SYMMETRY Symmetry
CHECK_DEADLOCK FALSE
INVARIANTS
    RetryNeverLost
    FinishedDocReadable
PROPERTIES
    TerminalStable
