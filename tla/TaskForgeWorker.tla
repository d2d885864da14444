-------------------------- MODULE TaskForgeWorker ---------------------------
(***************************************************************************)
(* The message handler of a worker instance, one action per call that      *)
(* leaves the process (queue, Redis, S3, the dead-letter file, the task),  *)
(* so that crashes and the steps of other instances fall between any two   *)
(* of them.  The handler always reports success, so the message is deleted *)
(* at the end of every path ("ack"); only a crash, a lost delete or an     *)
(* elapsed visibility timeout makes it come back.                          *)
(***************************************************************************)
EXTENDS JobService, TaskDLQ

CONSTANTS Unregistered,   \* jobs whose task is not in the whitelist
          NoMessage

VARIABLES pc,             \* where the handler of each instance is
          msg,            \* the message it handles
          try,            \* try_count returned by record_failure
          upd, base, ret, \* set_job_status: its argument, the document it
                          \* has read, and where it returns to
          outputs,        \* jobs whose outputs have been uploaded to S3
          runs            \* number of task executions of each job (history)

statusVars == <<upd, base, ret>>
localVars  == <<msg, try, upd, base, ret>>
workerVars == <<pc, msg, try, upd, base, ret, outputs, runs>>
effectVars == <<dlq, outputs, runs>>

Labels == {"down", "idle", "received", "check", "status_get", "status_set",
           "download", "execute", "upload", "record", "republish", "giveup",
           "cleanup", "ack"}

WorkerTypeOK ==
    /\ pc \in [Workers -> Labels]
    /\ msg \in [Workers -> Message \cup {NoMessage}]
    /\ \A w \in Workers : pc[w] \notin {"down", "idle"} => msg[w] \in Message
    /\ try \in [Workers -> Nat]
    /\ upd \in [Workers -> Update]
    /\ base \in [Workers -> Document]
    /\ ret \in [Workers -> {"idle", "download", "cleanup", "ack"}]
    /\ outputs \in SUBSET Jobs
    /\ runs \in [Jobs -> Nat]

WorkerInit ==
    /\ pc = [w \in Workers |-> "idle"]
    /\ msg = [w \in Workers |-> NoMessage]
    /\ try = [w \in Workers |-> 0]
    /\ upd = [w \in Workers |-> NoUpdate]
    /\ base = [w \in Workers |-> NoDoc]
    /\ ret = [w \in Workers |-> "idle"]
    /\ outputs = {}
    /\ runs = [j \in Jobs |-> 0]

Busy(w) == pc[w] \notin {"down", "idle"}

Job(w) == msg[w].job

At(w, l) == pc[w] = l

Goto(w, l) == pc' = [pc EXCEPT ![w] = l]

\* The handler's local variables do not outlive it.
EndHandler(w, l) ==
    /\ Goto(w, l)
    /\ msg' = [msg EXCEPT ![w] = NoMessage]
    /\ try' = [try EXCEPT ![w] = 0]
    /\ upd' = [upd EXCEPT ![w] = NoUpdate]
    /\ base' = [base EXCEPT ![w] = NoDoc]
    /\ ret' = [ret EXCEPT ![w] = "idle"]

-----------------------------------------------------------------------------
(* Status updates.                                                         *)

\* task_name and enqueued_at, restored from the message.  A message that
\* violates the schema is taken to lack one of them.
ContractFields(j) == IF j \in Malformed \cup Undated THEN {} ELSE {"contract"}

\* Mutant: the running transition does not restore the contract fields.
RunningUpdateBare(j) ==
    [status |-> "running", sets |-> {}, erases |-> {}, retry |-> 0]

RunningUpdate(j) ==
    [status |-> "running", sets |-> ContractFields(j), erases |-> {}, retry |-> 0]

\* Mutant: the reason of an earlier failure is kept.
DoneUpdateKeepsReason(j) ==
    [status |-> "done", sets |-> ContractFields(j) \cup {"result_download_url"},
     erases |-> {}, retry |-> 0]

DoneUpdate(j) ==
    [status |-> "done", sets |-> ContractFields(j) \cup {"result_download_url"},
     erases |-> {"failure_reason"}, retry |-> 0]

FailedUpdate(j, n) ==
    [status |-> "failed", sets |-> ContractFields(j) \cup {"failure_reason"},
     erases |-> {}, retry |-> n]

QueuedUpdate(j, n) ==
    [status |-> "queued", sets |-> ContractFields(j) \cup {"failure_reason"},
     erases |-> {}, retry |-> n]

\* Call set_job_status(u) and continue at l.
CallSetJobStatus(w, u, l) ==
    /\ Goto(w, "status_get")
    /\ upd' = [upd EXCEPT ![w] = u]
    /\ ret' = [ret EXCEPT ![w] = l]
    /\ base' = base

\* A GET that fails is treated like a key that does not exist.
StatusGet(w) ==
    /\ At(w, "status_get")
    /\ \/ NoFault /\ base' = [base EXCEPT ![w] = doc[Job(w)]]
       \/ Fault("redis_get") /\ base' = [base EXCEPT ![w] = NoDoc]
    /\ Goto(w, "status_set")
    /\ UNCHANGED <<queueVars, apiVars, doc, msg, try, upd, ret, effectVars>>

\* A SET that fails is logged, and the handler goes on.
StatusSet(w) ==
    /\ At(w, "status_set")
    /\ \/ NoFault /\ SetDoc(Job(w), Merged(base[w], upd[w]))
       \/ Fault("redis_set") /\ UNCHANGED doc
    /\ Goto(w, ret[w])
    /\ upd' = [upd EXCEPT ![w] = NoUpdate]
    /\ base' = [base EXCEPT ![w] = NoDoc]
    /\ ret' = [ret EXCEPT ![w] = "idle"]
    /\ UNCHANGED <<queueVars, apiVars, msg, try, effectVars>>


-----------------------------------------------------------------------------
(* handle_message and process_job.                                         *)

\* Mutant: the body of the message is not kept.
ReceiveNothing(w) ==
    /\ At(w, "idle")
    /\ ReceiveMessage(w)
    /\ Goto(w, "received")
    /\ NoFault
    /\ UNCHANGED <<apiVars, doc, localVars, effectVars>>

Receive(w) ==
    /\ At(w, "idle")
    /\ ReceiveMessage(w)
    /\ msg' = [msg EXCEPT ![w] = Head(queue)]
    /\ Goto(w, "received")
    /\ NoFault
    /\ UNCHANGED <<apiVars, doc, try, statusVars, effectVars>>

UsableJobId(j) == j \notin Garbage

ValidRequest(j) == j \notin Malformed \cup Garbage

\* Mutant: the handler reports an error for a message that violates the schema,
\* so that it is not deleted.
HandleMessageRefuses(w) ==
    /\ At(w, "received")
    /\ \/ ValidRequest(Job(w)) /\ Goto(w, "check") /\ UNCHANGED localVars
       \/ ~ValidRequest(Job(w)) /\ EndHandler(w, "idle")
    /\ NoFault
    /\ UNCHANGED <<queueVars, apiVars, doc, effectVars>>

\* Parse and validate.  Garbage is dropped, and a job whose message violates
\* the schema is failed without looking at its present status.
HandleMessage(w) ==
    /\ At(w, "received")
    /\ \/ /\ ~UsableJobId(Job(w))
          /\ Goto(w, "ack")
          /\ UNCHANGED statusVars
       \/ /\ UsableJobId(Job(w)) /\ ~ValidRequest(Job(w))
          /\ CallSetJobStatus(w, FailedUpdate(Job(w), 0), "ack")
       \/ /\ ValidRequest(Job(w))
          /\ Goto(w, "check")
          /\ UNCHANGED statusVars
    /\ NoFault
    /\ UNCHANGED <<queueVars, apiVars, doc, msg, try, effectVars>>

\* find_task
Registered(j) == j \notin Unregistered

\* The whitelist decides what follows the terminal-status guard.
BeginJob(w) ==
    IF Registered(Job(w))
      THEN CallSetJobStatus(w, RunningUpdate(Job(w)), "download")
      ELSE CallSetJobStatus(w, FailedUpdate(Job(w), 0), "cleanup")

\* Mutant: no guard against redeliveries.
CheckNothing(w) ==
    /\ At(w, "check")
    /\ BeginJob(w)
    /\ NoFault
    /\ UNCHANGED <<queueVars, apiVars, doc, msg, try, effectVars>>

\* Mutant: the message of every job that is not waiting is skipped.
SkipUnlessQueued(w) ==
    /\ At(w, "check")
    /\ \/ /\ doc[Job(w)].status \notin {"none", "queued"}
          /\ Goto(w, "ack")
          /\ UNCHANGED statusVars
       \/ /\ doc[Job(w)].status \in {"none", "queued"}
          /\ BeginJob(w)
    /\ NoFault
    /\ UNCHANGED <<queueVars, apiVars, doc, msg, try, effectVars>>

\* A redelivered message of a finished job is skipped.  When the GET fails
\* the job counts as not finished.
CheckTerminal(w) ==
    /\ At(w, "check")
    /\ \/ /\ Terminal(doc[Job(w)])
          /\ NoFault
          /\ Goto(w, "ack")
          /\ UNCHANGED statusVars
       \/ /\ ~Terminal(doc[Job(w)])
          /\ NoFault
          /\ BeginJob(w)
       \/ /\ Fault("redis_get")
          /\ BeginJob(w)
    /\ UNCHANGED <<queueVars, apiVars, doc, msg, try, effectVars>>

\* All attempts of all files: what counts is whether the objects are there at
\* the last attempt.
DownloadInputs(w) ==
    /\ At(w, "download")
    /\ \/ Job(w) \in uploaded /\ NoFault /\ Goto(w, "execute")
       \/ Job(w) \notin uploaded /\ NoFault /\ Goto(w, "record")
       \/ Fault("s3") /\ Goto(w, "record")
    /\ UNCHANGED <<queueVars, apiVars, doc, localVars, effectVars>>

\* TaskExecutor::execute starts the task once and waits for it.
Execute(j) == runs' = [runs EXCEPT ![j] = @ + 1]

\* The task exits with 0, or fails: other exit code, timeout, not executable.
ExecuteTask(w) ==
    /\ At(w, "execute")
    /\ Execute(Job(w))
    /\ Goto(w, "upload") \/ Goto(w, "record")
    /\ NoFault
    /\ UNCHANGED <<queueVars, apiVars, doc, localVars, dlq, outputs>>

UploadOutputs(w) ==
    /\ At(w, "upload")
    /\ \/ /\ NoFault
          /\ outputs' = outputs \cup {Job(w)}
          /\ CallSetJobStatus(w, DoneUpdate(Job(w)), "cleanup")
       \/ /\ Fault("s3")
          /\ Goto(w, "record")
          /\ UNCHANGED <<outputs, statusVars>>
    /\ UNCHANGED <<queueVars, apiVars, doc, msg, try, dlq, runs>>

\* TaskDLQ::remove after a job is done, or failed without retry.
Cleanup(w) ==
    /\ At(w, "cleanup")
    /\ RemoveEntry(w, Job(w))
    /\ Goto(w, "ack")
    /\ NoFault
    /\ UNCHANGED <<queueVars, apiVars, doc, localVars, outputs, runs>>

-----------------------------------------------------------------------------
(* handle_processing_failure.                                              *)

RecordFailure(w) ==
    /\ At(w, "record")
    /\ \/ LET n == TryCount(w, Job(w), msg[w].try)
          IN  /\ \/ NoFault /\ WriteEntry(w, Job(w), n)
                 \/ Fault("dlq_flush") /\ TruncateEntry(w, Job(w))
              /\ try' = [try EXCEPT ![w] = n]
              /\ Goto(w, IF CanRetry(n) THEN "republish" ELSE "giveup")
              /\ UNCHANGED statusVars
       \/ /\ Fault("dlq_write")
          /\ CallSetJobStatus(w, FailedUpdate(Job(w), 0), "ack")
          /\ UNCHANGED <<dlq, try>>
    /\ UNCHANGED <<queueVars, apiVars, doc, msg, outputs, runs>>

RetryMessage(w) == [job |-> Job(w), try |-> try[w]]

Republish(w) ==
    /\ At(w, "republish")
    /\ \/ /\ NoFault
          /\ SendMessage(RetryMessage(w))
          /\ CallSetJobStatus(w, QueuedUpdate(Job(w), try[w]), "ack")
       \/ /\ Fault("send")
          /\ Goto(w, "giveup")
          /\ UNCHANGED <<queueVars, statusVars>>
       \/ /\ Fault("send_timeout")
          /\ SendMessage(RetryMessage(w))
          /\ Goto(w, "giveup")
          /\ UNCHANGED statusVars
    /\ UNCHANGED <<apiVars, doc, msg, try, effectVars>>

\* Mutant: the dead-letter file of a job that is given up stays.
GiveUpKeepsEntry(w) ==
    /\ At(w, "giveup")
    /\ CallSetJobStatus(w, FailedUpdate(Job(w), try[w]), "ack")
    /\ NoFault
    /\ UNCHANGED <<queueVars, apiVars, doc, msg, try, effectVars>>

\* The retries are exhausted, or the retry could not be published.
GiveUp(w) ==
    /\ At(w, "giveup")
    /\ RemoveEntry(w, Job(w))
    /\ CallSetJobStatus(w, FailedUpdate(Job(w), try[w]), "ack")
    /\ NoFault
    /\ UNCHANGED <<queueVars, apiVars, doc, msg, try, outputs, runs>>

\* The handler has returned success: the consumer deletes the message.
Ack(w) ==
    /\ At(w, "ack")
    /\ \/ NoFault /\ DeleteMessage(w)
       \/ Fault("delete") /\ UNCHANGED queueVars
    /\ EndHandler(w, "idle")
    /\ UNCHANGED <<apiVars, doc, effectVars>>

HandlerStep(w) ==
    \/ Receive(w)        \/ HandleMessage(w)  \/ CheckTerminal(w)
    \/ StatusGet(w)      \/ StatusSet(w)      \/ DownloadInputs(w)
    \/ ExecuteTask(w)    \/ UploadOutputs(w)  \/ Cleanup(w)
    \/ RecordFailure(w)  \/ Republish(w)      \/ GiveUp(w)
    \/ Ack(w)

-----------------------------------------------------------------------------
(* The process around the handler.                                         *)

\* The process is killed in the middle of a handler.  Its files stay, and
\* record_failure may just have truncated the one it was about to write.
Crash(w) ==
    /\ Busy(w)
    /\ Fault("crash")
    /\ \/ UNCHANGED dlq
       \/ At(w, "record") /\ TruncateEntry(w, Job(w))
    /\ EndHandler(w, "down")
    /\ UNCHANGED <<queueVars, apiVars, doc, outputs, runs>>

Restart(w) ==
    /\ At(w, "down")
    /\ Goto(w, "idle")
    /\ NoFault
    /\ UNCHANGED <<queueVars, apiVars, doc, localVars, effectVars>>

=============================================================================
