----------------------------- MODULE TaskForge ------------------------------
(***************************************************************************)
(* The whole system: REST services, request queue, Redis, S3, and worker   *)
(* instances with their dead-letter files, together with the faults of     *)
(* their environment.                                                      *)
(***************************************************************************)
EXTENDS TaskForgeWorker

vars == <<faults, queue, holder, dedup, doc, api, uploaded, dlq,
          pc, msg, try, upd, base, ret, outputs, runs>>

Init ==
    /\ faults = 0
    /\ QueueInit
    /\ StoreInit
    /\ ApiInit
    /\ DlqInit
    /\ WorkerInit

ServiceStep(j) ==
    /\ \/ PresignInputs(j) \/ RecordQueued(j) \/ PublishRequest(j)
       \/ PublishDirectly(j) \/ UploadInputs(j)
    /\ UNCHANGED <<dlq, workerVars>>

\* The message in flight becomes visible again: nobody works on it any more,
\* or its handler has taken longer than the visibility timeout.
VisibilityTimeout(w) ==
    /\ holder = w
    /\ \/ ~Busy(w) /\ NoFault
       \/ Busy(w) /\ Fault("late")
    /\ MakeVisible
    /\ UNCHANGED <<doc, apiVars, dlq, workerVars>>

DedupWindowEnds ==
    /\ Fault("dedup")
    /\ \E m \in dedup : Forget(m)
    /\ UNCHANGED <<doc, apiVars, dlq, workerVars>>

\* Redis keeps nothing on disk, so a restart loses every document; the TTL
\* of a document removes one.
RedisRestart ==
    /\ Fault("redis_loss")
    /\ doc' = [j \in Jobs |-> NoDoc]
    /\ UNCHANGED <<queueVars, apiVars, dlq, workerVars>>

TtlElapses(j) ==
    /\ Fault("redis_loss")
    /\ doc[j] # NoDoc
    /\ SetDoc(j, NoDoc)
    /\ UNCHANGED <<queueVars, apiVars, dlq, workerVars>>

DlqLost(w) ==
    /\ Fault("dlq_loss")
    /\ RemoveAllEntries(w)
    /\ UNCHANGED <<queueVars, doc, apiVars, workerVars>>

EnvironmentStep ==
    \/ DedupWindowEnds
    \/ RedisRestart
    \/ \E j \in Jobs : TtlElapses(j)
    \/ \E w \in Workers : VisibilityTimeout(w) \/ DlqLost(w) \/ Crash(w) \/ Restart(w)

Next ==
    \/ \E j \in Jobs : ServiceStep(j)
    \/ \E w \in Workers : HandlerStep(w)
    \/ EnvironmentStep

Spec == Init /\ [][Next]_vars

\* The consumer thread keeps running, the container is restarted when it
\* dies, and SQS makes an abandoned message visible again.
Fairness ==
    \A w \in Workers :
        /\ WF_vars(HandlerStep(w))
        /\ WF_vars(Restart(w))
        /\ WF_vars(VisibilityTimeout(w))

FairSpec == Spec /\ Fairness

-----------------------------------------------------------------------------
(* Properties.                                                             *)

TypeOK ==
    /\ faults \in Nat
    /\ QueueTypeOK
    /\ StoreTypeOK
    /\ ApiTypeOK
    /\ DlqTypeOK
    /\ WorkerTypeOK

\* The guard of process_job against redeliveries: the document of a finished
\* job is never changed by anyone; it can only disappear with its key.
TerminalStable ==
    [][\A j \in Jobs : Terminal(doc[j]) => doc'[j] \in {doc[j], NoDoc}]_vars

\* What that guard is for: from when a job is finished on, no handler ever
\* downloads, executes or uploads for it again, however often SQS delivers its
\* messages and whatever else fails.
FinishedNeverRuns ==
    \A j \in Jobs :
        [](Terminal(doc[j]) =>
              [](\A w \in Workers : pc[w] \in {"download", "execute", "upload"} => Job(w) # j))

\* CreateJob records the queued document before it publishes, so a document
\* the worker has written is never replaced by the initial one.
InitialNeverOverwrites ==
    [][\A j \in Jobs : doc[j] \notin {NoDoc, InitialDoc} => doc'[j] # InitialDoc]_vars

\* Accepted by the REST service with 202, or published directly.
Submitted(j) == api[j] \in {"accepted", "direct"} /\ j \notin Garbage

\* A submitted job that is not finished still has a message in the queue: no
\* path of the handler, no retry that SQS deduplicates away and no crash leaves
\* it without anybody to finish it.
NotStuck ==
    \A j \in Jobs : Submitted(j) /\ ~Terminal(doc[j]) => Queued(j)

\* Contract C-1: every status document of a valid request that carries task_name
\* and enqueued_at has them, whatever Redis has forgotten in between.
ContractFieldsPresent ==
    \A j \in Jobs \ (Malformed \cup Undated) : doc[j] # NoDoc => "contract" \in doc[j].fields

\* A client cannot misread a finished job: done comes with the results, which
\* are in S3, and without the failure of an earlier attempt; failed comes with
\* a reason and without results.
FinishedDocReadable ==
    \A j \in Jobs :
        /\ doc[j].status = "done" =>
              /\ "result_download_url" \in doc[j].fields
              /\ "failure_reason" \notin doc[j].fields
              /\ j \in outputs
        /\ doc[j].status = "failed" =>
              /\ "failure_reason" \in doc[j].fields
              /\ "result_download_url" \notin doc[j].fields

\* The retry cap of TaskDLQ: no message carries a count above the cap, and a
\* task runs at most once per allowed attempt, each fault (a redelivery, lost
\* files, a forgotten deduplication id) paying for at most one more execution.
RetryBudget ==
    /\ \A i \in 1..Len(queue) : queue[i].try <= MaxRetry
    /\ \A j \in Jobs : runs[j] <= MaxRetry + 1 + faults

\* When nothing is left to do, the dead-letter directory that the backlog
\* monitor counts is empty.
BacklogDrains ==
    queue = <<>> /\ (\A w \in Workers : ~Busy(w)) =>
        \A w \in Workers : PendingCount(w) = 0

\* README: a request for a task outside the whitelist is failed once its
\* retries are exhausted.
UnregisteredRetried ==
    \A j \in Unregistered : doc[j].status = "failed" => doc[j].retry > MaxRetry

Contract ==
    INSTANCE JobContract WITH
        status  <- [j \in Jobs |-> doc[j].status],
        retries <- [j \in Jobs |-> doc[j].retry]

\* The documents move as the abstract status machine allows.
ImplementsContract == Contract!Spec

\* Every submitted job is eventually finished.
SubmittedFinishes ==
    \A j \in Jobs : Submitted(j) ~> Terminal(doc[j])

=============================================================================
