\* One instance, a valid and a malformed job, healthy Redis.
CONSTANTS
    Workers = {w1}
    Jobs = {j1, j2}
    Unregistered = {}
    Malformed = {j2}
    Garbage = {}
    Undated = {}
    NoWorker = NoWorker
    NoMessage = NoMessage
    MaxRetry = 2
    MaxFaults = 2
    FaultKinds = {"crash", "delete", "send", "send_timeout", "dedup", "dlq_write", "dlq_flush", "dlq_loss", "s3", "api"}
SPECIFICATION FairSpec
CHECK_DEADLOCK FALSE
INVARIANTS
    TypeOK
    NotStuck
PROPERTIES
    ImplementsContract
    FinishedNeverRuns
    SubmittedFinishes
