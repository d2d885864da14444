\* Redis forgets and fails, and handlers outlive the visibility timeout.
CONSTANTS
    Workers = {w1, w2}
    Jobs = {j1}
    Unregistered = {}
    Malformed = {}
    Garbage = {}
    Undated = {}
    NoWorker = NoWorker
    NoMessage = NoMessage
    MaxRetry = 2
    MaxFaults = 2
    FaultKinds = {"crash", "late", "delete", "send_timeout", "redis_get", "redis_set", "redis_loss", "dedup", "dlq_flush", "dlq_loss"}
SPECIFICATION Spec
SYMMETRY Symmetry
CHECK_DEADLOCK FALSE
INVARIANTS
    ContractFieldsPresent
    RetryBudget
PROPERTIES
    InitialNeverOverwrites
