\* One instance that is never killed.
CONSTANTS
    Workers = {w1}
    Jobs = {j1, j2, j3}
    Unregistered = {j2}
    Malformed = {}
    Garbage = {j3}
    Undated = {j2}
    NoWorker = NoWorker
    NoMessage = NoMessage
    MaxRetry = 1
    MaxFaults = 2
    FaultKinds = {"delete", "send", "send_timeout", "dedup", "dlq_flush", "dlq_loss", "s3", "api"}
SPECIFICATION Spec
CHECK_DEADLOCK FALSE
INVARIANTS
    BacklogDrains
