--------------------------- MODULE DocumentProofs ---------------------------
(***************************************************************************)
(* The status documents of TaskForge, for any number of instances, jobs,   *)
(* retries and faults: what an update writes, who knows a job, and what    *)
(* follows for every document; and, when handlers keep within the          *)
(* visibility timeout, the documents of finished jobs.                     *)
(***************************************************************************)
EXTENDS TypeProofs

-----------------------------------------------------------------------------
(* The fields of documents and updates.                                    *)

\* The documents that have a name.
LEMMA DocumentFields ==
    /\ NoDoc.status = "none" /\ NoDoc.fields = {} /\ NoDoc.retry = 0
    /\ InitialDoc.status = "queued" /\ InitialDoc.fields = {"contract"} /\ InitialDoc.retry = 0
    /\ RejectedDoc.status = "failed" /\ RejectedDoc.fields = {"failure_reason"}
    /\ RejectedDoc.retry = 0
  BY DEF NoDoc, InitialDoc, RejectedDoc

\* A job that never ran has no results.
LEMMA NoResultsYet ==
    ASSUME NEW d \in {NoDoc, RejectedDoc}
    PROVE  "result_download_url" \notin d.fields
  BY DocumentFields

\* The document set_job_status writes.
LEMMA MergedFields ==
    ASSUME NEW d, NEW u
    PROVE  /\ Merged(d, u).status = u.status
           /\ Merged(d, u).fields = (d.fields \ u.erases) \cup u.sets
  BY DEF Merged

\* The updates set_job_status is called with.
LEMMA UpdateFields ==
    /\ \A j : /\ RunningUpdate(j).status = "running"
             /\ RunningUpdate(j).sets = ContractFields(j)
    /\ \A j : /\ DoneUpdate(j).status = "done"
             /\ DoneUpdate(j).sets = ContractFields(j) \cup {"result_download_url"}
    /\ \A j, n : /\ FailedUpdate(j, n).status = "failed"
                /\ FailedUpdate(j, n).sets = ContractFields(j) \cup {"failure_reason"}
                /\ FailedUpdate(j, n).erases = {} /\ FailedUpdate(j, n).retry = n
    /\ \A j, n : /\ QueuedUpdate(j, n).status = "queued"
                /\ QueuedUpdate(j, n).sets = ContractFields(j) \cup {"failure_reason"}
  BY DEF RunningUpdate, DoneUpdate, FailedUpdate, QueuedUpdate

\* In particular the statuses they set.
LEMMA UpdateStatus ==
    /\ \A j : RunningUpdate(j).status = "running" /\ DoneUpdate(j).status = "done"
    /\ \A j, n : FailedUpdate(j, n).status = "failed" /\ QueuedUpdate(j, n).status = "queued"
  BY UpdateFields

\* A failure is written as such, whatever was there.
LEMMA FailedFails ==
    ASSUME NEW d, NEW j, NEW n
    PROVE  Merged(d, FailedUpdate(j, n)).status = "failed"
  BY MergedFields, UpdateStatus

\* An update of job j with which set_job_status is called and then returns to l.
UpdateFits(j, u, l) ==
    /\ j \in Malformed \cup Undated \/ "contract" \in u.sets
    /\ l \in {"download", "cleanup", "ack"}
    /\ l = "download" => u.status = "running"
    /\ l = "cleanup" => u.status \in {"done", "failed"}
    /\ l = "ack" => u.status \in {"queued", "failed"}
    /\ u.status = "queued" => "failure_reason" \in u.sets

\* All calls of set_job_status have such arguments.
LEMMA UpdatesFit ==
    ASSUME NEW j, NEW n
    PROVE  /\ UpdateFits(j, RunningUpdate(j), "download")
           /\ UpdateFits(j, DoneUpdate(j), "cleanup")
           /\ UpdateFits(j, FailedUpdate(j, n), "cleanup")
           /\ UpdateFits(j, FailedUpdate(j, n), "ack")
           /\ UpdateFits(j, QueuedUpdate(j, n), "ack")
<1>1. j \in Malformed \cup Undated \/ "contract" \in ContractFields(j)
  BY DEF ContractFields
<1>2. UpdateFits(j, RunningUpdate(j), "download")
  BY <1>1, UpdateFields DEF UpdateFits
<1>3. UpdateFits(j, DoneUpdate(j), "cleanup")
  BY <1>1, UpdateFields DEF UpdateFits
<1>4. UpdateFits(j, FailedUpdate(j, n), "cleanup") /\ UpdateFits(j, FailedUpdate(j, n), "ack")
  BY <1>1, UpdateFields DEF UpdateFits
<1>5. UpdateFits(j, QueuedUpdate(j, n), "ack")
  BY <1>1, UpdateFields DEF UpdateFits
<1> QED
  BY <1>2, <1>3, <1>4, <1>5

\* An update makes a job finished exactly when its status is a final one.
LEMMA MergedTerminal ==
    ASSUME NEW d, NEW u
    PROVE  Terminal(Merged(d, u)) <=> u.status \in {"done", "failed"}
  BY MergedFields DEF Terminal

\* No update of the worker looks like the initial document.
LEMMA MergedNotInitial ==
    ASSUME NEW d, NEW u, u.status = "queued" => "failure_reason" \in u.sets
    PROVE  Merged(d, u) # InitialDoc
<1>1. CASE u.status = "queued"
  <2>1. "failure_reason" \in Merged(d, u).fields
    BY <1>1, MergedFields
  <2> QED
    BY <2>1, DocumentFields
<1>2. CASE u.status # "queued"
  BY <1>2, MergedFields, DocumentFields
<1> QED
  BY <1>1, <1>2

\* The document handle_message writes for a message that violates the schema
\* is always the same.
LEMMA RejectedAgain ==
    ASSUME NEW d \in {NoDoc, RejectedDoc}, NEW j \in Malformed
    PROVE  Merged(d, FailedUpdate(j, 0)) = RejectedDoc
<1> DEFINE u == FailedUpdate(j, 0)
<1>1. ContractFields(j) = {}
  BY DEF ContractFields
<1>2. u.status = "failed" /\ u.sets = {"failure_reason"} /\ u.erases = {} /\ u.retry = 0
  BY <1>1, UpdateFields
<1>3. d.fields \in {{}, {"failure_reason"}} /\ d.retry = 0
  BY DocumentFields
<1> HIDE DEF u
<1>4. (d.fields \ u.erases) \cup u.sets = {"failure_reason"}
  BY <1>2, <1>3
<1>5. Merged(d, u) = RejectedDoc
  BY <1>2, <1>3, <1>4 DEF Merged, RejectedDoc
<1> QED
  BY <1>5 DEF u

-----------------------------------------------------------------------------
(* The REST service is alone with a job until it has published it.         *)

\* PublicationInv holds initially.
LEMMA PublicationInit == Init => PublicationInv
<1> SUFFICES ASSUME Init PROVE PublicationInv
  OBVIOUS
<1>1. \A w \in Workers : ~Busy(w)
  BY DEF Init, WorkerInit, Busy
<1>2. dedup = {} /\ \A j \in Jobs : ~Queued(j)
  BY DEF Init, QueueInit, Queued
<1>3. \A j \in Jobs : doc[j] = NoDoc
  BY DEF Init, StoreInit
<1> QED
  BY <1>1, <1>2, <1>3 DEF PublicationInv

\* A step that sends nothing and at most begins a handler of a queued job.
LEMMA PublicationKept ==
    ASSUME PublicationInv, UNCHANGED <<dedup, api, doc>>, \A j \in Jobs : Queued(j)' => Queued(j),
           \A w \in Workers : Busy(w)' => \/ Busy(w) /\ Job(w)' = Job(w)
                                         \/ Queued(Job(w)')
    PROVE  PublicationInv'
<1>1. \A j \in Jobs : Unpublished(j)' = Unpublished(j)
  BY DEF Unpublished
<1> QED
  BY <1>1 DEF PublicationInv

\* A step that sends a message of a job it has published.
LEMMA PublicationSend ==
    ASSUME QueueTypeOK, PublicationInv, NEW m \in Message, SendMessage(m), UNCHANGED doc,
           ~Unpublished(m.job)', \A j \in Jobs : j = m.job \/ api'[j] = api[j],
           \A w \in Workers : Busy(w)' => Busy(w) /\ Job(w)' = Job(w)
    PROVE  PublicationInv'
<1>1. \A j \in Jobs : Unpublished(j)' => Unpublished(j) /\ j # m.job
  BY DEF Unpublished
<1>2. \A j \in Jobs : j # m.job /\ ~Queued(j) => ~Queued(j)'
  BY SendEffect DEF Queued
<1>3. \A d \in dedup' : d \in dedup \/ d = m
  BY SendEffect
<1>4. \A j \in Jobs : api'[j] \in {"new", "presigned"} => api[j] = api'[j]
  BY DEF Unpublished
<1> QED
  BY <1>1, <1>2, <1>3, <1>4 DEF PublicationInv

\* PublicationInv is inductive, whatever faults occur.
LEMMA PublicationStep ==
    ASSUME TypeOK, PublicationInv, [Next]_vars
    PROVE  PublicationInv'
<1> USE DEF PublicationInv, Unpublished, Queued
<1>1. ASSUME NEW j \in Jobs, ServiceStep(j) PROVE PublicationInv'
  <2>0. UNCHANGED <<pc, msg>>
    BY <1>1 DEF ServiceStep, workerVars
  <2> USE <2>0 DEF Busy, Job, ApiStep, TypeOK, ApiTypeOK, StoreTypeOK
  <2>1. CASE PresignInputs(j)
    BY <2>1 DEF PresignInputs, queueVars
  <2>2. CASE RecordQueued(j)
    BY <2>2 DEF RecordQueued, queueVars, SetDoc
  <2>3. CASE PublishRequest(j) /\ UNCHANGED queueVars
    BY <2>3 DEF PublishRequest, queueVars
  <2>4. CASE (PublishRequest(j) \/ PublishDirectly(j)) /\ SendMessage(FirstMessage(j))
    <3>1. FirstMessage(j) \in Message /\ FirstMessage(j).job = j
      BY MessageTypes DEF FirstMessage
    <3>2. doc' = doc /\ api'[j] \in {"accepted", "rejected", "direct"}
      BY <2>4 DEF PublishRequest, PublishDirectly
    <3>3. \A k \in Jobs : k = j \/ api'[k] = api[k]
      BY <2>4 DEF PublishRequest, PublishDirectly
    <3>4. ~Unpublished(j)'
      BY <3>2
    <3>5. \A w \in Workers : Busy(w)' => Busy(w) /\ Job(w)' = Job(w)
      OBVIOUS
    <3> HIDE DEF PublicationInv, Unpublished, Queued, Busy, Job
    <3> QED
      BY <2>4, <3>1, <3>2, <3>3, <3>4, <3>5, PublicationSend
  <2>5. CASE UploadInputs(j)
    BY <2>5 DEF UploadInputs, queueVars
  <2> QED
    <3>1. PublishRequest(j) => UNCHANGED queueVars \/ SendMessage(FirstMessage(j))
      BY DEF PublishRequest
    <3>2. PublishDirectly(j) => SendMessage(FirstMessage(j))
      BY DEF PublishDirectly
    <3> QED
      BY <1>1, <2>1, <2>2, <2>3, <2>4, <2>5, <3>1, <3>2 DEF ServiceStep
<1>2. ASSUME NEW w \in Workers, HandlerStep(w) PROVE PublicationInv'
  <2>0. Others(w)
    BY <1>2, OthersKept
  <2> USE DEF Others, Job
  <2>1. CASE Receive(w)
    <3>1. UNCHANGED <<queue, dedup, api, doc>> /\ msg'[w] = Head(queue)
      BY <2>1 DEF Receive, ReceiveMessage, apiVars, TypeOK, WorkerTypeOK
    <3>2. Queued(Job(w)')
      BY <2>1, <3>1, HeadTypes DEF Receive, ReceiveMessage, TypeOK
    <3>3. \A v \in Workers \ {w} : Busy(v)' => Busy(v) /\ Job(v)' = Job(v)
      BY <2>0 DEF Busy
    <3>4. \A j \in Jobs : Queued(j)' => Queued(j)
      BY <3>1
    <3> HIDE DEF PublicationInv, Unpublished, Queued, Job
    <3> QED
      BY <3>1, <3>2, <3>3, <3>4, PublicationKept
  <2>2. CASE QuietStep(w)
    <3>1. UNCHANGED <<queue, dedup, api, doc, msg>> /\ Busy(w)
      BY <2>2, QuietEffect DEF queueVars, apiVars
    <3> QED
      BY <2>0, <3>1 DEF Busy
  <2>3. CASE StatusSet(w)
    <3>1. UNCHANGED <<queue, dedup, api, msg>> /\ Busy(w)
      BY <2>3 DEF StatusSet, At, Busy, queueVars, apiVars
    <3>2. \A j \in Jobs : doc'[j] = doc[j] \/ j = Job(w)
      BY <2>3 DEF StatusSet, SetDoc, TypeOK, StoreTypeOK
    <3> QED
      BY <2>0, <3>1, <3>2 DEF Busy
  <2>4. CASE Republish(w)
    <3>1. UNCHANGED <<api, doc, msg>> /\ Busy(w)
      BY <2>4 DEF Republish, At, Busy, apiVars
    <3>2. RetryMessage(w) \in Message /\ RetryMessage(w).job = Job(w)
      BY <2>4, BusyTypes, MessageTypes DEF Republish, At, RetryMessage, TypeOK, WorkerTypeOK
    <3>3. CASE SendMessage(RetryMessage(w))
      <4>1. ~Unpublished(Job(w))' /\ Job(w) \in Jobs
        BY <2>4, <3>1, BusyTypes DEF TypeOK, Republish, At
      <4>2. \A v \in Workers : Busy(v)' => Busy(v) /\ Job(v)' = Job(v)
        BY <2>0, <3>1 DEF Busy
      <4> HIDE DEF PublicationInv, Unpublished, Queued, Job, Others
      <4> QED
        BY <3>1, <3>2, <3>3, <4>1, <4>2, PublicationSend DEF TypeOK, Job
    <3>4. CASE UNCHANGED queueVars
      BY <2>0, <3>1, <3>4 DEF Busy, queueVars
    <3> QED
      BY <2>4, <3>3, <3>4 DEF Republish
  <2>5. CASE Ack(w)
    <3>1. UNCHANGED <<dedup, api, doc>> /\ ~Busy(w)'
      BY <2>5 DEF Ack, EndHandler, Goto, Busy, DeleteMessage, queueVars, apiVars, TypeOK, WorkerTypeOK
    <3>2. queue' = queue \/ (queue # <<>> /\ queue' = Tail(queue))
      BY <2>5, QueueAssumption DEF Ack, DeleteMessage, queueVars, TypeOK, QueueTypeOK
    <3>3. \A j \in Jobs : Queued(j)' => Queued(j)
      <4>1. CASE queue' = queue
        BY <4>1
      <4>2. CASE queue # <<>> /\ queue' = Tail(queue)
        <5>1. \A i \in 1..Len(queue') : i + 1 \in 1..Len(queue) /\ queue'[i] = queue[i + 1]
          BY <4>2, TailEffect DEF TypeOK, QueueTypeOK
        <5> QED
          BY <5>1
      <4> QED
        BY <3>2, <4>1, <4>2
    <3>4. \A v \in Workers : Busy(v)' => Busy(v) /\ Job(v)' = Job(v)
      BY <2>0, <3>1 DEF Busy
    <3> HIDE DEF PublicationInv, Unpublished, Queued, Job, Others
    <3> QED
      BY <3>1, <3>3, <3>4, PublicationKept
  <2> QED
    BY <1>2, <2>1, <2>2, <2>3, <2>4, <2>5 DEF HandlerStep, QuietStep
<1>3. CASE EnvironmentStep
  <2> USE DEF Busy, Job, queueVars, apiVars, workerVars
  <2>1. CASE DedupWindowEnds
    BY <2>1 DEF DedupWindowEnds, Forget
  <2>2. CASE RedisRestart
    BY <2>2 DEF RedisRestart
  <2>3. ASSUME NEW j \in Jobs, TtlElapses(j) PROVE PublicationInv'
    BY <2>3 DEF TtlElapses, SetDoc, TypeOK, StoreTypeOK
  <2>4. ASSUME NEW w \in Workers, VisibilityTimeout(w) PROVE PublicationInv'
    BY <2>4 DEF VisibilityTimeout, MakeVisible
  <2>5. ASSUME NEW w \in Workers, DlqLost(w) PROVE PublicationInv'
    BY <2>5 DEF DlqLost
  <2>6. ASSUME NEW w \in Workers, Crash(w) PROVE PublicationInv'
    <3>1. UNCHANGED <<queue, dedup, api, doc>> /\ pc'[w] = "down"
      BY <2>6 DEF Crash, EndHandler, Goto, TypeOK, WorkerTypeOK
    <3>2. Others(w)
      BY <2>6, OthersKept
    <3>3. \A v \in Workers : Busy(v)' => Busy(v) /\ Job(v)' = Job(v)
      BY <3>1, <3>2 DEF Others
    <3>4. \A j \in Jobs : Queued(j)' => Queued(j)
      BY <3>1
    <3> HIDE DEF PublicationInv, Unpublished, Queued, Job, Busy
    <3> QED
      BY <3>1, <3>3, <3>4, PublicationKept
  <2>7. ASSUME NEW w \in Workers, Restart(w) PROVE PublicationInv'
    <3>1. UNCHANGED <<queue, dedup, api, doc>> /\ pc'[w] = "idle"
      BY <2>7 DEF Restart, Goto, TypeOK, WorkerTypeOK
    <3>2. Others(w)
      BY <2>7, OthersKept
    <3>3. \A v \in Workers : Busy(v)' => Busy(v) /\ Job(v)' = Job(v)
      BY <3>1, <3>2 DEF Others
    <3>4. \A j \in Jobs : Queued(j)' => Queued(j)
      BY <3>1
    <3> HIDE DEF PublicationInv, Unpublished, Queued, Job, Busy
    <3> QED
      BY <3>1, <3>3, <3>4, PublicationKept
  <2> QED
    BY <1>3, <2>1, <2>2, <2>3, <2>4, <2>5, <2>6, <2>7 DEF EnvironmentStep
<1>4. CASE UNCHANGED vars
  BY <1>4 DEF vars, Busy, Job
<1> QED
  BY <1>1, <1>2, <1>3, <1>4 DEF Next

-----------------------------------------------------------------------------
(* What set_job_status is called with.                                     *)

\* A call of set_job_status leaves its arguments in upd and ret.
LEMMA CallEffect ==
    ASSUME WorkerTypeOK, NEW w \in Workers, NEW u, NEW l, CallSetJobStatus(w, u, l)
    PROVE  pc'[w] = "status_get" /\ upd'[w] = u /\ ret'[w] = l
  BY DEF WorkerTypeOK, CallSetJobStatus, Goto

\* The handler's calls satisfy UpdateOK.
LEMMA CallsOK ==
    ASSUME WorkerTypeOK, NEW w \in Workers, UNCHANGED msg, NEW n,
           \/ CallSetJobStatus(w, RunningUpdate(Job(w)), "download")
           \/ CallSetJobStatus(w, DoneUpdate(Job(w)), "cleanup")
           \/ CallSetJobStatus(w, FailedUpdate(Job(w), n), "cleanup")
           \/ CallSetJobStatus(w, FailedUpdate(Job(w), n), "ack")
           \/ CallSetJobStatus(w, QueuedUpdate(Job(w), n), "ack")
    PROVE  UpdateOK(w)'
<1>1. ASSUME NEW u, NEW l, CallSetJobStatus(w, u, l), UpdateFits(Job(w), u, l) PROVE UpdateOK(w)'
  <2>1. upd'[w] = u /\ ret'[w] = l /\ Job(w)' = Job(w)
    BY <1>1, CallEffect DEF Job
  <2> QED
    BY <1>1, <2>1 DEF UpdateOK, UpdateFits
<1>2. /\ UpdateFits(Job(w), RunningUpdate(Job(w)), "download")
      /\ UpdateFits(Job(w), DoneUpdate(Job(w)), "cleanup")
      /\ UpdateFits(Job(w), FailedUpdate(Job(w), n), "cleanup")
      /\ UpdateFits(Job(w), FailedUpdate(Job(w), n), "ack")
      /\ UpdateFits(Job(w), QueuedUpdate(Job(w), n), "ack")
  BY UpdatesFit
<1> QED
  BY <1>1, <1>2

\* UpdateInv is inductive, whatever faults occur.
LEMMA UpdateStep ==
    ASSUME TypeOK, UpdateInv, [Next]_vars
    PROVE  UpdateInv'
<1> USE DEF UpdateInv, Updating
<1>1. CASE UNCHANGED <<pc, msg, upd, ret>>
  BY <1>1 DEF UpdateOK, Job
<1>2. ASSUME NEW w \in Workers, HandlerStep(w) PROVE UpdateInv'
  <2>0. Others(w)
    BY <1>2, OthersKept
  <2>1. SUFFICES ASSUME Updating(w)' PROVE UpdateOK(w)'
    <3>1. ASSUME NEW v \in Workers \ {w}
          PROVE  pc'[v] = pc[v] /\ msg'[v] = msg[v] /\ upd'[v] = upd[v] /\ ret'[v] = ret[v]
      BY <2>0 DEF Others
    <3>2. ASSUME NEW v \in Workers \ {w}, Updating(v)' PROVE UpdateOK(v)'
      BY <3>1, <3>2 DEF UpdateOK, Job
    <3> QED
      BY <3>2
  <2> USE DEF TypeOK, WorkerTypeOK, Goto
  <2>2. CASE StatusGet(w)
    BY <2>2 DEF StatusGet, At, UpdateOK, Job
  <2>3. CASE HandleMessage(w)
    BY <2>1, <2>3, CallsOK DEF HandleMessage
  <2>4. CASE CheckTerminal(w)
    BY <2>1, <2>4, CallsOK DEF CheckTerminal, BeginJob
  <2>5. CASE UploadOutputs(w)
    BY <2>1, <2>5, CallsOK DEF UploadOutputs
  <2>6. CASE RecordFailure(w)
    BY <2>1, <2>6, CallsOK DEF RecordFailure
  <2>7. CASE Republish(w)
    BY <2>1, <2>7, CallsOK DEF Republish
  <2>8. CASE GiveUp(w)
    BY <2>8, CallsOK DEF GiveUp
  <2>9. CASE StatusSet(w)
    BY <2>1, <2>9 DEF StatusSet
  <2>10. CASE Receive(w) \/ DownloadInputs(w) \/ ExecuteTask(w) \/ Cleanup(w) \/ Ack(w)
    BY <2>1, <2>10 DEF Receive, DownloadInputs, ExecuteTask, Cleanup, Ack, EndHandler
  <2> QED
    BY <1>2, <2>2, <2>3, <2>4, <2>5, <2>6, <2>7, <2>8, <2>9, <2>10 DEF HandlerStep
<1>3. ASSUME NEW w \in Workers, Crash(w) \/ Restart(w) PROVE UpdateInv'
  <2>1. Others(w) /\ pc'[w] \in {"idle", "down"}
    BY <1>3, OthersKept DEF Crash, Restart, EndHandler, Goto, TypeOK, WorkerTypeOK
  <2> QED
    BY <2>1 DEF Others, UpdateOK, Job
<1>4. \/ UNCHANGED <<pc, msg, upd, ret>>
      \/ \E w \in Workers : HandlerStep(w) \/ Crash(w) \/ Restart(w)
  BY DEF Next, ServiceStep, EnvironmentStep, DedupWindowEnds, RedisRestart, TtlElapses,
         VisibilityTimeout, DlqLost, workerVars, vars
<1> QED
  BY <1>1, <1>2, <1>3, <1>4

-----------------------------------------------------------------------------
(* Theorems that hold whatever faults occur.                               *)

\* The ways the documents change: some disappear, CreateJob records one, or a
\* handler completes an update.
LEMMA StoreChange ==
    ASSUME TypeOK, [Next]_vars
    PROVE  \/ UNCHANGED doc
           \/ /\ "redis_loss" \in FaultKinds
              /\ doc' = [k \in Jobs |-> NoDoc] \/ \E k \in Jobs : SetDoc(k, NoDoc)
           \/ \E k \in Jobs : api[k] = "presigned" /\ SetDoc(k, InitialDoc)
           \/ \E w \in Workers : StatusSet(w) /\ SetDoc(Job(w), Merged(base[w], upd[w]))
<1>1. ASSUME NEW k \in Jobs, ServiceStep(k)
      PROVE  UNCHANGED doc \/ (api[k] = "presigned" /\ SetDoc(k, InitialDoc))
  BY <1>1 DEF ServiceStep, PresignInputs, RecordQueued, PublishRequest, PublishDirectly,
              UploadInputs, ApiStep
<1>2. ASSUME NEW w \in Workers, HandlerStep(w)
      PROVE  UNCHANGED doc \/ (StatusSet(w) /\ SetDoc(Job(w), Merged(base[w], upd[w])))
  <2>1. CASE QuietStep(w)
    BY <2>1, QuietEffect
  <2>2. CASE Receive(w) \/ Republish(w) \/ Ack(w)
    BY <2>2 DEF Receive, Republish, Ack
  <2>3. CASE StatusSet(w)
    BY <2>3 DEF StatusSet
  <2> QED
    BY <1>2, <2>1, <2>2, <2>3 DEF HandlerStep, QuietStep
<1>3. EnvironmentStep =>
        \/ UNCHANGED doc
        \/ "redis_loss" \in FaultKinds /\ doc' = [k \in Jobs |-> NoDoc]
        \/ "redis_loss" \in FaultKinds /\ \E k \in Jobs : SetDoc(k, NoDoc)
  BY DEF EnvironmentStep, DedupWindowEnds, RedisRestart, TtlElapses, VisibilityTimeout,
         DlqLost, Crash, Restart, Fault
<1>4. UNCHANGED vars => UNCHANGED doc
  BY DEF vars
<1> QED
  BY <1>1, <1>2, <1>3, <1>4 DEF Next

\* In particular those of one document.
LEMMA DocChange ==
    ASSUME TypeOK, [Next]_vars, NEW j \in Jobs
    PROVE  \/ doc'[j] = doc[j]
           \/ "redis_loss" \in FaultKinds /\ doc'[j] = NoDoc
           \/ api[j] = "presigned" /\ doc'[j] = InitialDoc
           \/ \E w \in Workers : /\ StatusSet(w) /\ Job(w) = j
                                 /\ doc'[j] = Merged(base[w], upd[w])
<1> USE DEF TypeOK, StoreTypeOK, SetDoc
<1>1. CASE UNCHANGED doc
  BY <1>1
<1>2. CASE "redis_loss" \in FaultKinds /\ doc' = [k \in Jobs |-> NoDoc]
  BY <1>2
<1>3. ASSUME "redis_loss" \in FaultKinds, NEW k \in Jobs, SetDoc(k, NoDoc)
      PROVE  doc'[j] = doc[j] \/ doc'[j] = NoDoc
  BY <1>3
<1>4. ASSUME NEW k \in Jobs, api[k] = "presigned", SetDoc(k, InitialDoc)
      PROVE  doc'[j] = doc[j] \/ (api[j] = "presigned" /\ doc'[j] = InitialDoc)
  BY <1>4
<1>5. ASSUME NEW w \in Workers, SetDoc(Job(w), Merged(base[w], upd[w]))
      PROVE  doc'[j] = doc[j] \/ (Job(w) = j /\ doc'[j] = Merged(base[w], upd[w]))
  BY <1>5
<1> HIDE DEF SetDoc
<1> QED
  BY <1>1, <1>2, <1>3, <1>4, <1>5, StoreChange

\* Contract C-1 holds in every reachable state: whatever Redis forgets, and
\* however handlers overlap, a document of a valid request that carries
\* task_name and enqueued_at has them.
THEOREM ContractAlwaysPresent == Spec => []ContractFieldsPresent
<1>1. Init => UpdateInv /\ ContractFieldsPresent
  BY DEF Init, StoreInit, WorkerInit, UpdateInv, Updating, ContractFieldsPresent
<1>2. TypeOK /\ UpdateInv /\ ContractFieldsPresent /\ [Next]_vars =>
        UpdateInv' /\ ContractFieldsPresent'
  <2> SUFFICES ASSUME TypeOK, UpdateInv, ContractFieldsPresent, [Next]_vars,
                      NEW j \in Jobs \ (Malformed \cup Undated), doc'[j] # NoDoc
               PROVE  "contract" \in doc'[j].fields
    BY UpdateStep DEF ContractFieldsPresent
  <2>1. CASE doc'[j] \in {doc[j], NoDoc}
    BY <2>1 DEF ContractFieldsPresent
  <2>2. CASE doc'[j] = InitialDoc
    BY <2>2, DocumentFields
  <2>3. ASSUME NEW w \in Workers, StatusSet(w), Job(w) = j, doc'[j] = Merged(base[w], upd[w])
        PROVE  "contract" \in doc'[j].fields
    <3>1. "contract" \in upd[w].sets
      BY <2>3 DEF StatusSet, At, UpdateInv, Updating, UpdateOK
    <3> QED
      BY <2>3, <3>1, MergedFields
  <2> QED
    BY <2>1, <2>2, <2>3, DocChange
<1> QED
  BY <1>1, <1>2, TypeCorrect, PTL DEF Spec

\* A document that a worker has written is never replaced by the initial one,
\* whatever faults occur: CreateJob writes it before anybody else can know the
\* job, and no update of the worker looks like it.
THEOREM InitialDocFirst == Spec => InitialNeverOverwrites
<1>1. Init => UpdateInv /\ PublicationInv
  BY PublicationInit DEF Init, WorkerInit, UpdateInv, Updating
<1>2. TypeOK /\ UpdateInv /\ PublicationInv /\ [Next]_vars => UpdateInv' /\ PublicationInv'
  BY UpdateStep, PublicationStep
<1>3. TypeOK /\ UpdateInv /\ PublicationInv /\ [Next]_vars =>
        [\A j \in Jobs : doc[j] \notin {NoDoc, InitialDoc} => doc'[j] # InitialDoc]_vars
  <2> SUFFICES ASSUME TypeOK, UpdateInv, PublicationInv, [Next]_vars,
                      NEW j \in Jobs, doc[j] \notin {NoDoc, InitialDoc}
               PROVE  doc'[j] # InitialDoc
    OBVIOUS
  <2>1. CASE doc'[j] \in {doc[j], NoDoc}
    BY <2>1, DocumentFields
  <2>2. CASE api[j] = "presigned"
    BY <2>2 DEF PublicationInv
  <2>3. ASSUME NEW w \in Workers, StatusSet(w), doc'[j] = Merged(base[w], upd[w])
        PROVE  doc'[j] # InitialDoc
    <3>1. upd[w].status = "queued" => "failure_reason" \in upd[w].sets
      BY <2>3 DEF StatusSet, At, UpdateInv, Updating, UpdateOK
    <3> QED
      BY <2>3, <3>1, MergedNotInitial
  <2> QED
    BY <2>1, <2>2, <2>3, DocChange
<1> QED
  BY <1>1, <1>2, <1>3, TypeCorrect, PTL DEF Spec, InitialNeverOverwrites

-----------------------------------------------------------------------------
(* Messages that violate the schema.                                       *)

\* SchemaInv is inductive, whatever faults occur.
LEMMA SchemaStep ==
    ASSUME TypeOK, SchemaInv, [Next]_vars
    PROVE  SchemaInv'
<1> USE MessageKinds DEF SchemaInv
<1>1. \A j \in Malformed : (api[j] \in {"new", "direct"})'
  <2>1. CASE UNCHANGED api
    BY <2>1
  <2>2. ASSUME NEW k \in Jobs, ServiceStep(k) PROVE \A j \in Malformed : (api[j] \in {"new", "direct"})'
    BY <2>2 DEF ServiceStep, PresignInputs, RecordQueued, PublishRequest, PublishDirectly,
                UploadInputs, ApiStep, TypeOK, ApiTypeOK
  <2>3. ASSUME NEW w \in Workers, HandlerStep(w) PROVE UNCHANGED api
    <3>1. CASE QuietStep(w)
      BY <3>1, QuietEffect DEF apiVars
    <3>2. CASE Receive(w) \/ StatusSet(w) \/ Republish(w) \/ Ack(w)
      BY <3>2 DEF Receive, StatusSet, Republish, Ack, apiVars
    <3> QED
      BY <2>3, <3>1, <3>2 DEF HandlerStep, QuietStep
  <2>4. EnvironmentStep \/ UNCHANGED vars => UNCHANGED api
    BY DEF EnvironmentStep, DedupWindowEnds, RedisRestart, TtlElapses, VisibilityTimeout, DlqLost,
           Crash, Restart, apiVars, vars
  <2> QED
    BY <2>1, <2>2, <2>3, <2>4 DEF Next
<1>2. \A j \in Malformed : (doc[j] \in {NoDoc, RejectedDoc})'
  <2> SUFFICES ASSUME NEW j \in Malformed PROVE doc'[j] \in {NoDoc, RejectedDoc}
    OBVIOUS
  <2>1. ASSUME NEW w \in Workers, StatusSet(w), Job(w) = j, doc'[j] = Merged(base[w], upd[w])
        PROVE  doc'[j] = RejectedDoc
    <3>1. upd[w] = FailedUpdate(j, 0) /\ base[w] \in {NoDoc, RejectedDoc}
      BY <2>1 DEF StatusSet, At, Busy, Updating
    <3> QED
      BY <2>1, <3>1, RejectedAgain
  <2> QED
    BY <2>1, DocChange
<1>3. ASSUME NEW w \in Workers, Busy(w)', (Job(w) \in Malformed)'
      PROVE  /\ pc'[w] \in {"received", "status_get", "status_set", "ack"}
             /\ Updating(w)' => upd'[w] = FailedUpdate(Job(w), 0)' /\ ret'[w] = "ack"
             /\ pc'[w] = "status_set" => base'[w] \in {NoDoc, RejectedDoc}
  <2>1. CASE UNCHANGED <<pc, msg, upd, base, ret>>
    BY <1>3, <2>1 DEF Busy, Job, Updating, FailedUpdate, ContractFields
  <2>2. ASSUME NEW v \in Workers \ {w}, Others(v)
        PROVE  UNCHANGED <<pc[w], msg[w], upd[w], base[w], ret[w]>>
    BY <2>2 DEF Others
  <2>3. CASE UNCHANGED <<pc[w], msg[w], upd[w], base[w], ret[w]>>
    BY <1>3, <2>3 DEF Busy, Job, Updating, FailedUpdate, ContractFields
  <2>4. CASE HandlerStep(w)
    <3> USE DEF TypeOK, WorkerTypeOK, At, Goto
    <3>1. CASE Receive(w)
      BY <1>3, <3>1 DEF Receive, statusVars, Updating
    <3>2. CASE HandleMessage(w)
      <4>1. Job(w)' = Job(w) /\ Busy(w)
        BY <3>2 DEF HandleMessage, UsableJobId, ValidRequest, Job, Busy
      <4>2. FailedUpdate(Job(w), 0)' = FailedUpdate(Job(w), 0)
        BY <4>1 DEF FailedUpdate, ContractFields
      <4>3. CASE CallSetJobStatus(w, FailedUpdate(Job(w), 0), "ack")
        <5>1. pc'[w] = "status_get" /\ upd'[w] = FailedUpdate(Job(w), 0) /\ ret'[w] = "ack"
          BY <4>3 DEF CallSetJobStatus
        <5> QED
          BY <4>2, <5>1
      <4>4. CASE pc'[w] = "ack"
        BY <4>4 DEF Updating
      <4> QED
        BY <1>3, <3>2, <4>1, <4>3, <4>4 DEF HandleMessage, UsableJobId, ValidRequest
    <3>3. CASE StatusGet(w)
      BY <1>3, <3>3 DEF StatusGet, Busy, Job, Updating, FailedUpdate, ContractFields
    <3>4. CASE StatusSet(w)
      <4>1. Job(w)' = Job(w) /\ pc[w] = "status_set" /\ pc'[w] = ret[w]
        BY <3>4 DEF StatusSet, Job
      <4>2. ret[w] = "ack"
        BY <1>3, <4>1 DEF Busy, Updating
      <4> QED
        BY <4>1, <4>2 DEF Updating
    <3>5. CASE Ack(w)
      BY <1>3, <3>5 DEF Ack, EndHandler, Busy
    <3>6. CASE CheckTerminal(w) \/ DownloadInputs(w) \/ ExecuteTask(w) \/ UploadOutputs(w)
               \/ Cleanup(w) \/ RecordFailure(w) \/ Republish(w) \/ GiveUp(w)
      BY <1>3, <3>6 DEF CheckTerminal, DownloadInputs, ExecuteTask, UploadOutputs, Cleanup,
         RecordFailure, Republish, GiveUp, localVars, Busy, Job
    <3> QED
      BY <2>4, <3>1, <3>2, <3>3, <3>4, <3>5, <3>6 DEF HandlerStep
  <2>5. CASE Crash(w) \/ Restart(w)
    BY <1>3, <2>5 DEF Crash, Restart, EndHandler, Goto, Busy, TypeOK, WorkerTypeOK
  <2>6. \/ UNCHANGED <<pc, msg, upd, base, ret>>
        \/ \E v \in Workers : HandlerStep(v) \/ Crash(v) \/ Restart(v)
    BY DEF Next, ServiceStep, EnvironmentStep, DedupWindowEnds, RedisRestart, TtlElapses,
           VisibilityTimeout, DlqLost, workerVars, vars
  <2> QED
    BY <2>1, <2>2, <2>3, <2>4, <2>5, <2>6, OthersKept
<1> QED
  BY <1>1, <1>2, <1>3

-----------------------------------------------------------------------------
(* Handlers within the visibility timeout, and a Redis that answers.       *)

\* ExclusiveInv is inductive when no handler outlives the visibility timeout.
LEMMA ExclusiveStep ==
    ASSUME "late" \notin FaultKinds, TypeOK, ExclusiveInv, [Next]_vars
    PROVE  ExclusiveInv'
<1> USE QueueAssumption DEF ExclusiveInv
<1>0. \A w \in Workers : Busy(w) => queue # <<>>
  BY DEF TypeOK, QueueTypeOK
<1>1. ASSUME UNCHANGED <<pc, msg, holder>>, queue # <<>> => Head(queue') = Head(queue)
      PROVE  ExclusiveInv'
  BY <1>0, <1>1 DEF Busy
<1>2. ASSUME NEW j \in Jobs, ServiceStep(j) PROVE ExclusiveInv'
  <2>1. UNCHANGED <<pc, msg>>
    BY <1>2 DEF ServiceStep, workerVars
  <2>2. UNCHANGED queueVars \/ SendMessage(FirstMessage(j))
    BY <1>2 DEF ServiceStep, PresignInputs, RecordQueued, PublishRequest, PublishDirectly, UploadInputs
  <2> QED
    BY <1>1, <2>1, <2>2, SendEffect, MessageTypes DEF queueVars, TypeOK
<1>3. ASSUME NEW w \in Workers, HandlerStep(w) PROVE ExclusiveInv'
  <2>0. Others(w)
    BY <1>3, OthersKept
  <2>1. CASE Receive(w)
    <3>1. holder = NoWorker /\ holder' = w /\ queue' = queue /\ msg'[w] = Head(queue)
      BY <2>1 DEF Receive, ReceiveMessage, TypeOK, WorkerTypeOK
    <3>2. \A v \in Workers \ {w} : ~Busy(v)'
      BY <2>0, <3>1 DEF Others, Busy
    <3> QED
      BY <3>1, <3>2
  <2>2. CASE ~Receive(w)
    <3>1. holder = w /\ msg[w] = Head(queue) /\ \A v \in Workers \ {w} : ~Busy(v)'
      BY <1>3, <2>0, <2>2, StepOfBusy DEF Others, Busy
    <3>2. SUFFICES ASSUME Busy(w)' PROVE (holder = w /\ msg[w] = Head(queue))'
      BY <3>1
    <3>3. CASE QuietStep(w) \/ StatusSet(w)
      BY <3>1, <3>3, QuietEffect DEF StatusSet, queueVars
    <3>4. CASE Republish(w)
      <4>1. RetryMessage(w) \in Message
        BY <3>4, BusyTypes, MessageTypes DEF Republish, At, RetryMessage, TypeOK, WorkerTypeOK
      <4>2. queue # <<>>
        BY <3>1 DEF TypeOK, QueueTypeOK
      <4> QED
        BY <3>1, <3>4, <4>1, <4>2, SendEffect DEF Republish, queueVars, TypeOK
    <3>5. CASE Ack(w)
      BY <3>2, <3>5 DEF Ack, EndHandler, Goto, Busy, TypeOK, WorkerTypeOK
    <3> QED
      BY <1>3, <2>2, <3>3, <3>4, <3>5 DEF HandlerStep, QuietStep
  <2> QED
    BY <2>1, <2>2
<1>4. CASE EnvironmentStep
  <2>1. CASE DedupWindowEnds \/ RedisRestart \/ (\E j \in Jobs : TtlElapses(j)) \/ (\E w \in Workers : DlqLost(w))
    BY <1>1, <2>1 DEF DedupWindowEnds, Forget, RedisRestart, TtlElapses, DlqLost, queueVars, workerVars
  <2>2. ASSUME NEW w \in Workers, VisibilityTimeout(w) PROVE ExclusiveInv'
    <3>1. ~Busy(w) /\ holder = w /\ UNCHANGED <<pc, msg>>
      BY <2>2 DEF VisibilityTimeout, Fault, workerVars
    <3> QED
      BY <3>1 DEF Busy
  <2>3. ASSUME NEW w \in Workers, Crash(w) \/ Restart(w) PROVE ExclusiveInv'
    <3>1. Others(w) /\ ~Busy(w)' /\ UNCHANGED queueVars
      BY <2>3, OthersKept DEF Crash, Restart, EndHandler, Goto, Busy, TypeOK, WorkerTypeOK
    <3> QED
      BY <3>1 DEF Others, Busy, queueVars
  <2> QED
    BY <1>4, <2>1, <2>2, <2>3 DEF EnvironmentStep
<1>5. CASE UNCHANGED vars
  BY <1>1, <1>5 DEF vars
<1> QED
  BY <1>2, <1>3, <1>4, <1>5 DEF Next

\* While an instance is busy no other instance takes a step of its handler.
LEMMA OnlyStep ==
    ASSUME ExclusiveInv, NEW w \in Workers, Busy(w), NEW v \in Workers, HandlerStep(v) \/ Crash(v)
    PROVE  v = w
<1>1. CASE Receive(v)
  BY <1>1, QueueAssumption DEF ExclusiveInv, Receive, ReceiveMessage
<1>2. CASE ~Receive(v)
  BY <1>2, StepOfBusy DEF ExclusiveInv
<1> QED
  BY <1>1, <1>2

\* GuardInv is inductive when, moreover, no GET fails: the guard's answer is
\* still true when the handler writes.
LEMMA GuardStep ==
    ASSUME "late" \notin FaultKinds, "redis_get" \notin FaultKinds,
           TypeOK, UpdateInv, ExclusiveInv, GuardInv, [Next]_vars
    PROVE  GuardInv'
<1> SUFFICES ASSUME NEW w \in Workers, Working(w)', (Job(w) \notin Malformed)'
             PROVE  ~Terminal(doc[Job(w)])'
  BY DEF GuardInv
<1>1. Busy(w)'
  BY DEF Working, Updating, Busy
<1>2. ASSUME Working(w), UNCHANGED msg[w], \A v \in Workers : ~StatusSet(v)
      PROVE  ~Terminal(doc[Job(w)])'
  <2>1. Job(w)' = Job(w) /\ Job(w) \in Jobs
    BY <1>2, BusyTypes DEF Job, Working, Updating, TypeOK
  <2>2. ~Terminal(doc[Job(w)])
    BY <1>2, <2>1 DEF GuardInv
  <2>3. doc'[Job(w)] \in {doc[Job(w)], NoDoc, InitialDoc}
    BY <1>2, <2>1, DocChange
  <2> QED
    BY <2>1, <2>2, <2>3, DocumentFields DEF Terminal
<1>3. CASE HandlerStep(w)
  <2> USE DEF TypeOK, WorkerTypeOK, At, Goto
  <2>1. CASE StatusSet(w)
    <3>1. pc[w] = "status_set" /\ pc'[w] = ret[w] /\ Job(w)' = Job(w) /\ Job(w) \in Jobs
      BY <2>1, BusyTypes DEF StatusSet, Job
    <3>2. upd[w].status = "running"
      BY <3>1 DEF UpdateInv, UpdateOK, Updating, Working
    <3>3. CASE doc' = doc
      BY <3>1, <3>3 DEF GuardInv, Working, Updating
    <3>4. CASE SetDoc(Job(w), Merged(base[w], upd[w]))
      <4>1. doc'[Job(w)] = Merged(base[w], upd[w])
        BY <3>1, <3>4 DEF SetDoc, StoreTypeOK
      <4>2. ~Terminal(Merged(base[w], upd[w]))
        BY <3>2, MergedTerminal
      <4> QED
        BY <3>1, <4>1, <4>2
    <3> QED
      BY <2>1, <3>3, <3>4 DEF StatusSet
  <2>2. CASE CheckTerminal(w)
    <3>1. pc'[w] # "ack"
      BY DEF Working, Updating
    <3>2. ~Terminal(doc[Job(w)]) /\ UNCHANGED <<doc, msg>>
      BY <2>2, <3>1 DEF CheckTerminal, Fault
    <3> QED
      BY <3>2 DEF Job
  <2>3. CASE HandleMessage(w)
    <3>1. Job(w) \in Malformed
      BY <2>3 DEF HandleMessage, UsableJobId, ValidRequest, Working, Updating, CallSetJobStatus
    <3> QED
      BY <2>3, <3>1 DEF HandleMessage, Job
  <2>4. CASE Receive(w) \/ Cleanup(w) \/ Ack(w)
    BY <2>4 DEF Receive, Cleanup, Ack, EndHandler, Working, Updating
  <2>5. CASE StatusGet(w) \/ DownloadInputs(w) \/ ExecuteTask(w) \/ UploadOutputs(w)
             \/ RecordFailure(w) \/ Republish(w) \/ GiveUp(w)
    <3>1. Working(w) /\ msg' = msg /\ doc' = doc
      BY <2>5 DEF StatusGet, DownloadInputs, ExecuteTask, UploadOutputs, RecordFailure, Republish,
                  GiveUp, localVars, Working, Updating
    <3> QED
      BY <3>1 DEF GuardInv, Job
  <2> QED
    BY <1>3, <2>1, <2>2, <2>3, <2>4, <2>5 DEF HandlerStep
<1>4. CASE Crash(w) \/ Restart(w)
  BY <1>1, <1>4 DEF Crash, Restart, EndHandler, Goto, Busy, TypeOK, WorkerTypeOK
<1>5. ASSUME NEW v \in Workers \ {w}, HandlerStep(v) \/ Crash(v) PROVE FALSE
  <2>1. Busy(w)
    BY <1>1, <1>5, OthersKept DEF Others, Busy
  <2> QED
    BY <1>5, <2>1, OnlyStep
<1>6. ASSUME NEW v \in Workers \ {w}, Restart(v) PROVE ~Terminal(doc[Job(w)])'
  <2>1. Working(w) /\ msg'[w] = msg[w] /\ doc' = doc
    BY <1>6, OthersKept DEF Others, Working, Updating, Restart
  <2> QED
    BY <2>1 DEF GuardInv, Job
<1>7. ASSUME NEW j \in Jobs, ServiceStep(j) PROVE ~Terminal(doc[Job(w)])'
  <2>1. UNCHANGED <<pc, msg>>
    BY <1>7 DEF ServiceStep, workerVars
  <2>2. ASSUME NEW v \in Workers, StatusSet(v) PROVE FALSE
    BY <2>1, <2>2 DEF StatusSet, At, Goto, TypeOK, WorkerTypeOK
  <2> QED
    BY <1>2, <2>1, <2>2 DEF Working, Updating
<1>8. CASE \/ DedupWindowEnds \/ RedisRestart \/ UNCHANGED vars
           \/ \E j \in Jobs : TtlElapses(j)
           \/ \E v \in Workers : VisibilityTimeout(v) \/ DlqLost(v)
  <2>1. UNCHANGED <<pc, msg>>
    BY <1>8 DEF DedupWindowEnds, RedisRestart, TtlElapses, VisibilityTimeout, DlqLost, workerVars, vars
  <2>2. ASSUME NEW v \in Workers, StatusSet(v) PROVE FALSE
    BY <2>1, <2>2 DEF StatusSet, At, Goto, TypeOK, WorkerTypeOK
  <2> QED
    BY <1>2, <2>1, <2>2 DEF Working, Updating
<1> QED
  BY <1>3, <1>4, <1>5, <1>6, <1>7, <1>8 DEF Next, EnvironmentStep

\* The invariants that do not need NotStuck.
SafeInv == PublicationInv /\ UpdateInv /\ SchemaInv /\ ExclusiveInv /\ GuardInv

\* They hold initially.
LEMMA SafeInit == Init => SafeInv
<1> SUFFICES ASSUME Init PROVE SafeInv
  OBVIOUS
<1>1. \A w \in Workers : pc[w] = "idle"
  BY DEF Init, WorkerInit
<1>2. SchemaInv
  BY <1>1, MessageKinds DEF Init, ApiInit, StoreInit, SchemaInv, Busy
<1>3. UpdateInv /\ ExclusiveInv /\ GuardInv
  BY <1>1 DEF UpdateInv, ExclusiveInv, GuardInv, Busy, Working, Updating
<1> QED
  BY <1>2, <1>3, PublicationInit DEF SafeInv

\* A step that finds a job finished leaves its document, or Redis loses it.
LEMMA FinishedStep ==
    ASSUME TypeOK, SafeInv, SafeInv', [Next]_vars, NEW j \in Jobs, Terminal(doc[j])
    PROVE  doc'[j] = doc[j] \/ ("redis_loss" \in FaultKinds /\ doc'[j] = NoDoc)
<1>1. api[j] # "presigned"
  BY DocumentFields DEF SafeInv, PublicationInv, Terminal
<1>2. ASSUME NEW w \in Workers, StatusSet(w), Job(w) = j, doc'[j] = Merged(base[w], upd[w])
      PROVE  doc'[j] = doc[j]
  <2>1. Busy(w) /\ Updating(w) /\ Working(w)
    BY <1>2 DEF StatusSet, At, Busy, Working, Updating
  <2>2. j \in Malformed
    BY <1>2, <2>1 DEF SafeInv, GuardInv
  <2>3. doc[j] \in {NoDoc, RejectedDoc} /\ doc'[j] \in {NoDoc, RejectedDoc}
    BY <2>2 DEF SafeInv, SchemaInv
  <2>4. upd[w] = FailedUpdate(j, 0)
    BY <1>2, <2>1, <2>2 DEF SafeInv, SchemaInv
  <2>5. doc'[j].status = "failed"
    <3>1. doc'[j] = Merged(base[w], FailedUpdate(j, 0))
      BY <1>2, <2>4
    <3>2. Merged(base[w], FailedUpdate(j, 0)).status = "failed"
      BY Zenon, FailedFails
    <3> QED
      BY Zenon, <3>1, <3>2
  <2> QED
    BY <2>3, <2>5, DocumentFields DEF Terminal
<1> QED
  BY <1>1, <1>2, DocChange

\* A finished job stays finished, for any number of worker instances, as long
\* as handlers keep within the visibility timeout and GETs do not fail: no
\* crash, lost delete, republish or lost file makes a handler write over the
\* document of a job that is done or failed.
THEOREM FinishedStaysFinished ==
    ASSUME "late" \notin FaultKinds, "redis_get" \notin FaultKinds
    PROVE  Spec => TerminalStable
<1>1. TypeOK /\ SafeInv /\ [Next]_vars => SafeInv'
  BY PublicationStep, UpdateStep, SchemaStep, ExclusiveStep, GuardStep DEF SafeInv
<1>2. TypeOK /\ SafeInv /\ [Next]_vars =>
        [\A j \in Jobs : Terminal(doc[j]) => doc'[j] \in {doc[j], NoDoc}]_vars
  BY <1>1, FinishedStep
<1> QED
  BY <1>1, <1>2, SafeInit, TypeCorrect, PTL DEF Spec, TerminalStable

\* Nobody works on a finished job again, under the same assumptions and as long
\* as Redis does not lose its document: every redelivery ends at the guard of
\* process_job or before it.
THEOREM FinishedJobsRest ==
    ASSUME "late" \notin FaultKinds, "redis_get" \notin FaultKinds, "redis_loss" \notin FaultKinds
    PROVE  Spec => FinishedNeverRuns
<1> DEFINE Rests(j) ==
               \A w \in Workers : pc[w] \in {"download", "execute", "upload"} => Job(w) # j
<1>1. TypeOK /\ SafeInv /\ [Next]_vars => SafeInv'
  BY PublicationStep, UpdateStep, SchemaStep, ExclusiveStep, GuardStep DEF SafeInv
<1>2. ASSUME NEW j \in Jobs
      PROVE  Spec => [](Terminal(doc[j]) => []Rests(j))
  <2>1. TypeOK /\ SafeInv /\ Terminal(doc[j]) /\ [Next]_vars => Terminal(doc[j])'
    <3> SUFFICES ASSUME TypeOK, SafeInv, Terminal(doc[j]), [Next]_vars PROVE Terminal(doc[j])'
      OBVIOUS
    <3>1. doc'[j] = doc[j]
      BY <1>1, FinishedStep
    <3> QED
      BY <3>1 DEF Terminal
  <2>2. SafeInv /\ Terminal(doc[j]) => Rests(j)
    <3> SUFFICES ASSUME SafeInv, Terminal(doc[j]), NEW w \in Workers,
                        pc[w] \in {"download", "execute", "upload"}, Job(w) = j
                 PROVE  FALSE
      OBVIOUS
    <3>1. Busy(w) /\ Working(w)
      BY DEF Busy, Working
    <3>2. j \notin Malformed
      BY <3>1 DEF SafeInv, SchemaInv
    <3> QED
      BY <3>1, <3>2 DEF SafeInv, GuardInv
  <2> HIDE DEF Rests
  <2> QED
    BY <1>1, <2>1, <2>2, SafeInit, TypeCorrect, PTL DEF Spec
<1> QED
  BY <1>2 DEF FinishedNeverRuns

-----------------------------------------------------------------------------
(* What a finished document says.                                          *)

\* Uploaded outputs stay in S3.
LEMMA OutputsKept ==
    ASSUME [Next]_vars
    PROVE  outputs \subseteq outputs'
<1>1. ASSUME NEW w \in Workers, HandlerStep(w) PROVE outputs \subseteq outputs'
  BY <1>1 DEF HandlerStep, Receive, HandleMessage, CheckTerminal, StatusGet, StatusSet,
     DownloadInputs, ExecuteTask, UploadOutputs, Cleanup, RecordFailure, Republish, GiveUp, Ack,
     effectVars
<1>2. EnvironmentStep \/ UNCHANGED vars \/ (\E j \in Jobs : ServiceStep(j)) => UNCHANGED outputs
  BY DEF ServiceStep, EnvironmentStep, DedupWindowEnds, RedisRestart, TtlElapses,
         VisibilityTimeout, DlqLost, Crash, Restart, workerVars, effectVars, vars
<1> QED
  BY <1>1, <1>2 DEF Next

\* The handler's calls of set_job_status are honest; a job is reported done
\* after its outputs are in S3.
LEMMA CallsHonest ==
    ASSUME WorkerTypeOK, NEW w \in Workers, UNCHANGED msg, NEW n,
           \/ CallSetJobStatus(w, RunningUpdate(Job(w)), "download")
           \/ CallSetJobStatus(w, DoneUpdate(Job(w)), "cleanup") /\ Job(w) \in outputs'
           \/ CallSetJobStatus(w, FailedUpdate(Job(w), n), "cleanup")
           \/ CallSetJobStatus(w, FailedUpdate(Job(w), n), "ack")
           \/ CallSetJobStatus(w, QueuedUpdate(Job(w), n), "ack")
    PROVE  UpdateHonest(w)'
<1>1. Job(w)' = Job(w)
  BY DEF Job
<1>2. ContractFields(Job(w)) \subseteq {"contract"}
  BY DEF ContractFields
<1>3. CASE upd'[w] = DoneUpdate(Job(w)) /\ Job(w) \in outputs'
  <2> DEFINE u == DoneUpdate(Job(w))
  <2>1. u.status = "done" /\ u.erases = {"failure_reason"}
    BY DEF DoneUpdate
  <2>2. u.sets = ContractFields(Job(w)) \cup {"result_download_url"}
    BY DEF DoneUpdate
  <2>3. "result_download_url" \in u.sets /\ "failure_reason" \notin u.sets
    BY <1>2, <2>2
  <2>4. upd'[w] = u
    BY <1>3
  <2> HIDE DEF u
  <2> QED
    BY <1>1, <1>3, <2>1, <2>3, <2>4 DEF UpdateHonest
<1>4. CASE upd'[w] \in {RunningUpdate(Job(w)), FailedUpdate(Job(w), n), QueuedUpdate(Job(w), n)}
  <2> DEFINE Partial(u) ==
               /\ u.status \in {"running", "failed", "queued"}
               /\ u.status = "failed" => "failure_reason" \in u.sets
               /\ "result_download_url" \notin u.sets
  <2>1. Partial(RunningUpdate(Job(w)))
    BY <1>2 DEF RunningUpdate
  <2>2. Partial(FailedUpdate(Job(w), n))
    BY <1>2 DEF FailedUpdate
  <2>3. Partial(QueuedUpdate(Job(w), n))
    BY <1>2 DEF QueuedUpdate
  <2>4. Partial(upd'[w])
    BY <1>4, <2>1, <2>2, <2>3
  <2> QED
    BY <2>4 DEF UpdateHonest
<1> QED
  BY <1>3, <1>4, CallEffect

\* HonestInv is inductive, whatever faults occur.
LEMMA HonestStep ==
    ASSUME TypeOK, HonestInv, [Next]_vars
    PROVE  HonestInv'
<1> USE DEF HonestInv, Updating
<1>0. outputs \subseteq outputs'
  BY OutputsKept
<1>1. ASSUME NEW w \in Workers, UNCHANGED <<pc[w], msg[w], upd[w]>>, Updating(w)'
      PROVE  UpdateHonest(w)'
  BY <1>0, <1>1 DEF UpdateHonest, Job
<1>2. ASSUME NEW w \in Workers, HandlerStep(w), Updating(w)' PROVE UpdateHonest(w)'
  <2> USE DEF TypeOK, WorkerTypeOK, Goto
  <2>1. CASE StatusGet(w)
    BY <1>0, <2>1 DEF StatusGet, At, UpdateHonest, Job
  <2>2. CASE HandleMessage(w)
    BY <1>2, <2>2, CallsHonest DEF HandleMessage
  <2>3. CASE CheckTerminal(w)
    BY <1>2, <2>3, CallsHonest DEF CheckTerminal, BeginJob
  <2>4. CASE UploadOutputs(w)
    BY <1>2, <2>4, CallsHonest DEF UploadOutputs
  <2>5. CASE RecordFailure(w)
    BY <1>2, <2>5, CallsHonest DEF RecordFailure
  <2>6. CASE Republish(w)
    BY <1>2, <2>6, CallsHonest DEF Republish
  <2>7. CASE GiveUp(w)
    BY <2>7, CallsHonest DEF GiveUp
  <2>8. CASE StatusSet(w)
    BY <1>2, <2>8 DEF StatusSet
  <2>9. CASE Receive(w) \/ DownloadInputs(w) \/ ExecuteTask(w) \/ Cleanup(w) \/ Ack(w)
    BY <1>2, <2>9 DEF Receive, DownloadInputs, ExecuteTask, Cleanup, Ack, EndHandler
  <2> QED
    BY <1>2, <2>1, <2>2, <2>3, <2>4, <2>5, <2>6, <2>7, <2>8, <2>9 DEF HandlerStep
<1>3. ASSUME NEW w \in Workers, Crash(w) \/ Restart(w) PROVE ~Updating(w)'
  BY <1>3 DEF Crash, Restart, EndHandler, Goto, TypeOK, WorkerTypeOK
<1>4. \/ UNCHANGED <<pc, msg, upd>>
      \/ \E w \in Workers : HandlerStep(w) \/ Crash(w) \/ Restart(w)
  BY DEF Next, ServiceStep, EnvironmentStep, DedupWindowEnds, RedisRestart, TtlElapses,
         VisibilityTimeout, DlqLost, workerVars, vars
<1>5. ASSUME NEW w \in Workers, HandlerStep(w) \/ Crash(w) \/ Restart(w), NEW v \in Workers \ {w}
      PROVE  UNCHANGED <<pc[v], msg[v], upd[v]>>
  BY <1>5, OthersKept DEF Others
<1> QED
  BY <1>1, <1>2, <1>3, <1>4, <1>5

\* A handler that reads the document before an update finds no results in it.
LEMMA BaseStep ==
    ASSUME TypeOK, SafeInv, ReadableInv, [Next]_vars, NEW w \in Workers, pc'[w] = "status_set"
    PROVE  "result_download_url" \notin base'[w].fields
<1>1. CASE UNCHANGED <<pc[w], base[w]>>
  BY <1>1 DEF ReadableInv
<1>2. CASE StatusGet(w)
  <2>1. base'[w] \in {NoDoc, doc[Job(w)]} /\ pc[w] = "status_get"
    BY <1>2 DEF StatusGet, At, TypeOK, WorkerTypeOK
  <2>2. Job(w) \in Jobs /\ Busy(w)
    BY <2>1, BusyTypes DEF TypeOK, Busy
  <2>3. CASE Job(w) \in Malformed
    <3>1. base'[w] \in {NoDoc, RejectedDoc}
      BY <2>1, <2>3 DEF SafeInv, SchemaInv
    <3> QED
      BY <3>1, NoResultsYet
  <2>4. CASE Job(w) \notin Malformed
    BY <2>1, <2>2, <2>4, DocumentFields
       DEF SafeInv, GuardInv, Working, Updating, Terminal, ReadableInv
  <2> QED
    BY <2>3, <2>4
<1>3. CASE HandlerStep(w) /\ ~StatusGet(w)
  <2> USE DEF TypeOK, WorkerTypeOK, Goto, CallSetJobStatus
  <2>1. ret[w] # "status_set"
    OBVIOUS
  <2> QED
    BY <1>3, <2>1 DEF HandlerStep, Receive, HandleMessage, CheckTerminal, BeginJob, StatusSet,
       DownloadInputs, ExecuteTask, UploadOutputs, Cleanup, RecordFailure, Republish, GiveUp, Ack,
       EndHandler
<1>4. CASE Crash(w) \/ Restart(w)
  BY <1>4 DEF Crash, Restart, EndHandler, Goto, TypeOK, WorkerTypeOK
<1>5. \/ UNCHANGED <<pc, base>>
      \/ \E v \in Workers : HandlerStep(v) \/ Crash(v) \/ Restart(v)
  BY DEF Next, ServiceStep, EnvironmentStep, DedupWindowEnds, RedisRestart, TtlElapses,
         VisibilityTimeout, DlqLost, workerVars, vars
<1>6. ASSUME NEW v \in Workers \ {w}, HandlerStep(v) \/ Crash(v) \/ Restart(v)
      PROVE  UNCHANGED <<pc[w], base[w]>>
  BY <1>6, OthersKept DEF Others
<1> QED
  BY <1>1, <1>2, <1>3, <1>4, <1>5, <1>6

\* What FinishedDocReadable and ReadableInv say of one document.
Readable(d, uploadedOutputs) ==
    /\ d.status = "done" => /\ "result_download_url" \in d.fields
                            /\ "failure_reason" \notin d.fields
                            /\ uploadedOutputs
    /\ d.status = "failed" => "failure_reason" \in d.fields
    /\ d.status # "done" => "result_download_url" \notin d.fields

\* An honest update of a document without results is readable.
LEMMA MergedReadable ==
    ASSUME NEW w \in Workers, UpdateHonest(w), "result_download_url" \notin base[w].fields
    PROVE  Readable(Merged(base[w], upd[w]), Job(w) \in outputs)
<1> DEFINE d == Merged(base[w], upd[w])
<1>1. d.status = upd[w].status /\ d.fields = (base[w].fields \ upd[w].erases) \cup upd[w].sets
  BY MergedFields
<1> HIDE DEF d
<1>2. Readable(d, Job(w) \in outputs)
  BY <1>1 DEF UpdateHonest, Readable
<1> QED
  BY <1>2 DEF d

\* ReadableInv is inductive when handlers keep within the visibility timeout
\* and GETs do not fail.
LEMMA ReadableStep ==
    ASSUME TypeOK, SafeInv, HonestInv, ReadableInv, [Next]_vars
    PROVE  ReadableInv'
<1>1. ASSUME NEW j \in Jobs PROVE Readable(doc[j], j \in outputs)'
  <2>1. CASE doc'[j] = doc[j]
    BY <2>1, OutputsKept DEF Readable, ReadableInv, FinishedDocReadable
  <2>2. CASE doc'[j] \in {NoDoc, InitialDoc}
    <3>1. doc'[j].status \in {"none", "queued"} /\ "result_download_url" \notin doc'[j].fields
      BY <2>2, DocumentFields
    <3> QED
      BY <3>1 DEF Readable
  <2>3. ASSUME NEW w \in Workers, StatusSet(w), Job(w) = j, doc'[j] = Merged(base[w], upd[w])
        PROVE  Readable(doc[j], j \in outputs)'
    <3>1. UpdateHonest(w) /\ "result_download_url" \notin base[w].fields
      BY <2>3 DEF StatusSet, At, HonestInv, Updating, ReadableInv
    <3>2. Readable(Merged(base[w], upd[w]), Job(w) \in outputs)
      BY <3>1, MergedReadable
    <3>3. outputs \subseteq outputs'
      BY OutputsKept
    <3> QED
      BY <2>3, <3>2, <3>3 DEF Readable
  <2> QED
    BY <2>1, <2>2, <2>3, DocChange
<1> QED
  BY <1>1, BaseStep DEF ReadableInv, FinishedDocReadable, Readable

\* A client cannot misread a finished job, for any number of worker instances,
\* as long as handlers keep within the visibility timeout and GETs do not fail:
\* done means that the outputs are in S3 and the document has their URL and no
\* failure, failed means a reason and no results, whatever was retried before.
THEOREM FinishedAlwaysReadable ==
    ASSUME "late" \notin FaultKinds, "redis_get" \notin FaultKinds
    PROVE  Spec => []FinishedDocReadable
<1>1. Init => SafeInv /\ HonestInv /\ ReadableInv
  <2>1. Init => \A w \in Workers : pc[w] = "idle"
    BY DEF Init, WorkerInit
  <2>2. Init => \A j \in Jobs : doc[j] = NoDoc
    BY DEF Init, StoreInit
  <2>3. Init => HonestInv
    BY <2>1 DEF HonestInv, Updating
  <2>4. Init => ReadableInv
    BY <2>1, <2>2, DocumentFields DEF ReadableInv, FinishedDocReadable
  <2> QED
    BY <2>3, <2>4, SafeInit
<1>2. TypeOK /\ SafeInv /\ [Next]_vars => SafeInv'
  BY PublicationStep, UpdateStep, SchemaStep, ExclusiveStep, GuardStep DEF SafeInv
<1>3. TypeOK /\ SafeInv /\ HonestInv /\ ReadableInv /\ [Next]_vars => HonestInv' /\ ReadableInv'
  BY HonestStep, ReadableStep
<1>4. ReadableInv => FinishedDocReadable
  BY DEF ReadableInv
<1> QED
  BY <1>1, <1>2, <1>3, <1>4, TypeCorrect, PTL DEF Spec

=============================================================================
