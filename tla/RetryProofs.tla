---------------------------- MODULE RetryProofs -----------------------------
(***************************************************************************)
(* No job is left behind, and every job moves as the contract says: proofs *)
(* of NotStuck, RetryNeverLost and ImplementsContract for any number of    *)
(* instances, jobs, retries and faults other than a failing or forgetful   *)
(* Redis and handlers that outlive the visibility timeout; and, for one    *)
(* instance that does not crash, of BacklogDrains.                         *)
(***************************************************************************)
EXTENDS DocumentProofs, FiniteSetTheorems

\* The faults under which a job can be left behind.
Healthy == FaultKinds \cap {"late", "redis_get", "redis_set", "redis_loss"} = {}

StuckInv == DeletableInv /\ RetryNeverLost /\ NotStuck

\* Every message stays where it is.
Kept == \A i \in 1..Len(queue) : i \in 1..Len(queue') /\ queue'[i] = queue[i]

\* Only the end of a handler removes a message.
LEMMA MessagesKept ==
    ASSUME TypeOK, [Next]_vars, \A w \in Workers : ~Ack(w)
    PROVE  Kept
<1>1. CASE UNCHANGED queue
  BY <1>1 DEF Kept
<1>2. ASSUME NEW j \in Jobs, ServiceStep(j) PROVE Kept
  <2>1. UNCHANGED queue \/ SendMessage(FirstMessage(j))
    BY <1>2 DEF ServiceStep, PresignInputs, RecordQueued, PublishRequest, PublishDirectly,
                UploadInputs, queueVars
  <2> QED
    BY <1>1, <2>1, SendEffect, MessageTypes DEF Kept, TypeOK
<1>3. ASSUME NEW w \in Workers, HandlerStep(w) PROVE Kept
  <2>1. CASE QuietStep(w)
    BY <1>1, <2>1, QuietEffect DEF queueVars
  <2>2. CASE Receive(w) \/ StatusSet(w)
    BY <1>1, <2>2 DEF Receive, ReceiveMessage, StatusSet, queueVars
  <2>3. CASE Republish(w)
    <3>1. RetryMessage(w) \in Message
      BY <2>3, BusyTypes, MessageTypes DEF Republish, At, RetryMessage, TypeOK, WorkerTypeOK
    <3> QED
      BY <1>1, <2>3, <3>1, SendEffect DEF Republish, queueVars, Kept, TypeOK
  <2> QED
    BY <1>3, <2>1, <2>2, <2>3 DEF HandlerStep, QuietStep
<1>4. EnvironmentStep \/ UNCHANGED vars => UNCHANGED queue
  BY DEF EnvironmentStep, DedupWindowEnds, Forget, RedisRestart, TtlElapses, VisibilityTimeout,
         MakeVisible, DlqLost, Crash, Restart, queueVars, vars
<1> QED
  BY <1>1, <1>2, <1>3, <1>4 DEF Next

\* The end of a handler removes at most the message it has handled.
LEMMA AckRemovesOwn ==
    ASSUME TypeOK, ExclusiveInv, NEW w \in Workers, Ack(w)
    PROVE  \A i \in 1..Len(queue) : queue[i] = msg[w] \/ \E k \in 1..Len(queue') : queue'[k] = queue[i]
<1>1. queue \in Seq(Message) /\ queue # <<>> /\ msg[w] = Head(queue)
  BY QueueAssumption DEF Ack, At, Busy, ExclusiveInv, TypeOK, QueueTypeOK
<1>2. queue' = queue \/ queue' = Tail(queue)
  BY DEF Ack, DeleteMessage, queueVars
<1>3. CASE queue' = queue
  BY <1>3
<1>4. CASE queue' = Tail(queue)
  <2>1. \A i \in 1..Len(queue) : i = 1 \/ (i - 1 \in 1..Len(queue') /\ queue'[i - 1] = queue[i])
    BY <1>1, <1>4, TailEffect
  <2>2. msg[w] = queue[1]
    BY <1>1, TailEffect
  <2> QED
    BY <2>1, <2>2
<1> QED
  BY <1>2, <1>3, <1>4

\* With a healthy Redis a finished job stays finished and keeps its document.
LEMMA TerminalKept ==
    ASSUME Healthy, TypeOK, SafeInv, [Next]_vars, NEW j \in Jobs, Terminal(doc[j])
    PROVE  doc'[j] = doc[j]
<1>1. SafeInv'
  BY PublicationStep, UpdateStep, SchemaStep, ExclusiveStep, GuardStep DEF SafeInv, Healthy
<1>2. CASE api[j] = "presigned"
  BY <1>2, DocumentFields DEF SafeInv, PublicationInv, Terminal
<1>3. ASSUME NEW w \in Workers, StatusSet(w), Job(w) = j, doc'[j] = Merged(base[w], upd[w])
      PROVE  doc'[j] = doc[j]
  <2>1. j \in Malformed
    BY <1>3 DEF SafeInv, GuardInv, StatusSet, At, Working, Updating
  <2>2. doc[j] \in {NoDoc, RejectedDoc} /\ doc'[j] \in {NoDoc, RejectedDoc}
    BY <1>1, <2>1 DEF SafeInv, SchemaInv
  <2>3. upd[w] = FailedUpdate(j, 0)
    BY <1>3, <2>1 DEF SafeInv, SchemaInv, StatusSet, At, Busy, Updating
  <2> QED
    <3>1. Terminal(doc'[j])
      BY <1>3, <2>3, MergedTerminal, UpdateStatus
    <3>2. ~Terminal(NoDoc)
      BY DocumentFields DEF Terminal
    <3> QED
      BY <2>2, <3>1, <3>2
<1> QED
  BY <1>2, <1>3, DocChange DEF Healthy

\* A message of an unfinished job survives, or a later one of the same job does.
LEMMA CopySurvives ==
    ASSUME Healthy, TypeOK, SafeInv, StuckInv, [Next]_vars,
           NEW i \in 1..Len(queue), queue[i].job \notin Garbage, ~Terminal(doc[queue[i].job])
    PROVE  \E k \in 1..Len(queue') : queue'[k].job = queue[i].job /\ queue'[k].try >= queue[i].try
<1>0. queue[i] \in Message /\ queue[i].try \in Nat
  BY MessageTypes DEF TypeOK, QueueTypeOK
<1>1. CASE \A w \in Workers : ~Ack(w)
  BY <1>0, <1>1, MessagesKept DEF Kept
<1>2. ASSUME NEW w \in Workers, Ack(w)
      PROVE  \E k \in 1..Len(queue') : queue'[k].job = queue[i].job /\ queue'[k].try >= queue[i].try
  <2>1. CASE queue[i] # msg[w]
    <3>1. \E k \in 1..Len(queue') : queue'[k] = queue[i]
      BY <1>2, <2>1, AckRemovesOwn DEF SafeInv
    <3> QED
      BY <1>0, <3>1
  <2>2. CASE queue[i] = msg[w]
    <3>1. LaterCopy(w)
      BY <1>2, <2>2 DEF Ack, At, StuckInv, DeletableInv, Deletable, Job
    <3>2. PICK l \in 1..Len(queue) : queue[l].job = queue[i].job /\ queue[l].try > queue[i].try
      BY <2>2, <3>1 DEF LaterCopy, Job
    <3>3. queue[l] # msg[w] /\ queue[l] \in Message /\ queue[l].try \in Nat
      BY <1>0, <2>2, <3>2, MessageTypes DEF TypeOK, QueueTypeOK
    <3>4. PICK k \in 1..Len(queue') : queue'[k] = queue[l]
      BY <1>2, <3>3, AckRemovesOwn DEF SafeInv
    <3> QED
      BY <1>0, <3>2, <3>3, <3>4
  <2> QED
    BY <2>1, <2>2
<1> QED
  BY <1>1, <1>2

-----------------------------------------------------------------------------
(* The three parts of StuckInv.                                            *)

\* A deduplication id that SQS remembers still has a message.
LEMMA RetryStep ==
    ASSUME Healthy, TypeOK, TypeOK', SafeInv, StuckInv, [Next]_vars
    PROVE  RetryNeverLost'
<1> SUFFICES ASSUME NEW m \in dedup', m.job \notin Garbage, ~Terminal(doc'[m.job])
             PROVE  \E k \in 1..Len(queue') : queue'[k].job = m.job /\ queue'[k].try >= m.try
  BY DEF RetryNeverLost, Terminal
<1>1. m \in Message /\ m.job \in Jobs /\ m.try \in Nat
  BY MessageTypes DEF TypeOK, QueueTypeOK
<1>2. ~Terminal(doc[m.job])
  BY <1>1, TerminalKept
<1>3. CASE m \in dedup
  <2>1. PICK i \in 1..Len(queue) : queue[i].job = m.job /\ queue[i].try >= m.try
    BY <1>2, <1>3 DEF StuckInv, RetryNeverLost
  <2>2. PICK k \in 1..Len(queue') : queue'[k].job = m.job /\ queue'[k].try >= queue[i].try
    BY <1>2, <2>1, CopySurvives
  <2>3. queue[i].try \in Nat /\ queue'[k].try \in Nat
    BY MessageTypes DEF TypeOK, QueueTypeOK
  <2> QED
    BY <1>1, <2>1, <2>2, <2>3
<1>4. CASE m \notin dedup
  <2>1. \/ \E j \in Jobs : SendMessage(FirstMessage(j))
        \/ \E w \in Workers : At(w, "republish") /\ SendMessage(RetryMessage(w))
    BY <1>4, QuietEffect DEF Next, ServiceStep, PresignInputs, RecordQueued, PublishRequest,
       PublishDirectly, UploadInputs, HandlerStep, QuietStep, Receive, ReceiveMessage, StatusSet,
       Republish, Ack, DeleteMessage, EnvironmentStep, DedupWindowEnds, Forget, RedisRestart,
       TtlElapses, VisibilityTimeout, MakeVisible, DlqLost, Crash, Restart, queueVars, vars
  <2>2. PICK n \in Message : SendMessage(n)
    <3>1. ASSUME NEW w \in Workers, At(w, "republish") PROVE RetryMessage(w) \in Message
      BY <3>1, BusyTypes, MessageTypes DEF At, RetryMessage, TypeOK, WorkerTypeOK
    <3> QED
      BY <2>1, <3>1, MessageTypes
  <2>3. m = n /\ \E k \in 1..Len(queue') : queue'[k] = m
    BY <1>4, <2>2, SendEffect DEF TypeOK
  <2> QED
    BY <1>1, <2>3
<1> QED
  BY <1>3, <1>4

\* A submitted job that is not finished keeps a message.
LEMMA NotStuckStep ==
    ASSUME Healthy, TypeOK, SafeInv, StuckInv, [Next]_vars
    PROVE  NotStuck'
<1> SUFFICES ASSUME NEW j \in Jobs, Submitted(j)', ~Terminal(doc'[j]) PROVE Queued(j)'
  BY DEF NotStuck, Terminal
<1>1. ~Terminal(doc[j]) /\ j \notin Garbage
  BY TerminalKept DEF Submitted
<1>2. CASE Submitted(j)
  <2>1. PICK i \in 1..Len(queue) : queue[i].job = j
    BY <1>1, <1>2 DEF StuckInv, NotStuck, Queued
  <2> QED
    BY <1>1, <2>1, CopySurvives DEF Queued
<1>3. CASE ~Submitted(j)
  <2>1. SendMessage(FirstMessage(j)) /\ Unpublished(j)
    BY <1>3, QuietEffect DEF Submitted, Unpublished, Next, ServiceStep, ApiStep, PresignInputs,
       RecordQueued, PublishRequest, PublishDirectly, UploadInputs, HandlerStep, QuietStep,
       Receive, StatusSet, Republish, Ack, EnvironmentStep, DedupWindowEnds, RedisRestart,
       TtlElapses, VisibilityTimeout, DlqLost, Crash, Restart, apiVars, vars, TypeOK, ApiTypeOK
  <2>2. FirstMessage(j) \notin dedup /\ FirstMessage(j) \in Message /\ FirstMessage(j).job = j
    BY Zenon, <2>1, MessageTypes DEF SafeInv, PublicationInv, FirstMessage
  <2> QED
    BY <2>1, <2>2, SendEffect DEF TypeOK, Queued
<1> QED
  BY <1>2, <1>3

\* A step that leaves an instance's handler and all messages alone keeps its
\* message deletable.
LEMMA DeletableKept ==
    ASSUME Healthy, TypeOK, SafeInv, StuckInv, [Next]_vars, NEW w \in Workers, Kept,
           pc'[w] = pc[w], msg'[w] = msg[w], try'[w] = try[w], upd'[w] = upd[w]
    PROVE  Deletable(w)'
<1>1. Deletable(w)
  BY DEF StuckInv, DeletableInv
<1>2. LaterCopy(w) => LaterCopy(w)'
  BY Zenon DEF LaterCopy, Job, Kept
<1>3. Busy(w) /\ Terminal(doc[Job(w)]) => Terminal(doc[Job(w)])'
  <2>1. Busy(w) => Job(w) \in Jobs
    BY BusyTypes DEF TypeOK, Busy
  <2> QED
    BY <2>1, TerminalKept DEF Job, Terminal
<1> QED
  BY Zenon, <1>1, <1>2, <1>3 DEF Deletable, Busy, Job, Updating

\* A published retry has a higher count than the message it replaces, and
\* when SQS drops it as a duplicate its predecessor is still there.
LEMMA RepublishCopies ==
    ASSUME Healthy, TypeOK, SafeInv, StuckInv, NEW w \in Workers, Republish(w),
           SendMessage(RetryMessage(w))
    PROVE  LaterCopy(w)'
<1>1. pc[w] = "republish" /\ Busy(w) /\ Working(w) /\ msg' = msg
  BY DEF Republish, At, Busy, Working
<1>2. msg[w] \in Message /\ msg[w].try \in Nat /\ Job(w) \in Jobs /\ try[w] \in Nat
  BY <1>1, BusyTypes, MessageTypes DEF TypeOK, WorkerTypeOK, Busy
<1>3. RetryMessage(w) \in Message /\ RetryMessage(w).job = Job(w) /\ RetryMessage(w).try = try[w]
  BY <1>2, MessageTypes DEF RetryMessage
<1>4. try[w] > msg[w].try /\ Job(w) \notin Garbage
  BY <1>1 DEF StuckInv, DeletableInv, Deletable
<1>5. ~Terminal(doc[Job(w)])
  <2>1. Job(w) \notin Malformed
    BY <1>1 DEF SafeInv, SchemaInv
  <2> QED
    BY <1>1, <2>1 DEF SafeInv, GuardInv
<1>6. CASE RetryMessage(w) \in dedup
  <2>1. PICK i \in 1..Len(queue) : queue[i].job = Job(w) /\ queue[i].try >= try[w]
    BY <1>3, <1>4, <1>5, <1>6 DEF StuckInv, RetryNeverLost
  <2>2. queue[i].try \in Nat /\ i \in 1..Len(queue') /\ queue'[i] = queue[i]
    BY <1>3, SendEffect, MessageTypes DEF TypeOK, QueueTypeOK
  <2>3. queue'[i].job = Job(w) /\ queue'[i].try > msg[w].try
    BY <1>2, <1>4, <2>1, <2>2
  <2> QED
    BY Zenon, <1>1, <2>2, <2>3 DEF LaterCopy, Job
<1>7. CASE RetryMessage(w) \notin dedup
  <2>1. PICK i \in 1..Len(queue') : queue'[i] = RetryMessage(w)
    BY <1>3, <1>7, SendEffect DEF TypeOK
  <2> QED
    BY <1>1, <1>3, <1>4, <2>1 DEF LaterCopy, Job
<1> QED
  BY <1>6, <1>7

\* The steps of an instance's own handler.
LEMMA DeletableOwn ==
    ASSUME Healthy, TypeOK, SafeInv, StuckInv, NEW w \in Workers, HandlerStep(w)
    PROVE  Deletable(w)'
<1> USE DEF TypeOK, WorkerTypeOK, At, Goto, Updating, Busy
<1>0. Deletable(w) /\ (pc[w] \notin {"idle", "down"} => Job(w) \in Jobs /\ msg[w].try \in Nat)
  BY BusyTypes, MessageTypes DEF StuckInv, DeletableInv
<1>1. CASE Receive(w)
  BY <1>1 DEF Receive, Deletable
<1>2. CASE HandleMessage(w)
  <2>1. UNCHANGED msg /\ pc'[w] \in {"ack", "status_get", "check"}
    BY <1>2 DEF HandleMessage, UsableJobId, ValidRequest, CallSetJobStatus
  <2>2. pc'[w] = "ack" <=> Job(w) \in Garbage
    BY <1>2 DEF HandleMessage, UsableJobId, ValidRequest, CallSetJobStatus
  <2>3. pc'[w] = "status_get" => upd'[w].status = "failed"
    BY <1>2 DEF HandleMessage, UsableJobId, ValidRequest, CallSetJobStatus, FailedUpdate
  <2> QED
    BY <2>1, <2>2, <2>3 DEF Deletable, Job
<1>3. CASE CheckTerminal(w)
  <2>1. UNCHANGED <<msg, doc>> /\ pc'[w] \in {"ack", "status_get"} /\ Job(w) \notin Garbage
    BY <1>0, <1>3 DEF CheckTerminal, BeginJob, CallSetJobStatus, Deletable
  <2>2. pc'[w] = "ack" => Terminal(doc[Job(w)])
    BY <1>3 DEF CheckTerminal, BeginJob, CallSetJobStatus
  <2>3. pc'[w] = "status_get" => upd'[w].status \in {"failed", "running"}
    <3>1. pc'[w] = "status_get" => upd'[w] \in {FailedUpdate(Job(w), 0), RunningUpdate(Job(w))}
      BY <1>3 DEF CheckTerminal, BeginJob, CallSetJobStatus
    <3> HIDE DEF TypeOK, WorkerTypeOK, At, Goto, Busy, Updating
    <3> QED
      BY <3>1, UpdateStatus
  <2> QED
    BY <2>1, <2>2, <2>3 DEF Deletable, Job
<1>4. CASE StatusGet(w)
  <2>1. pc[w] = "status_get" /\ pc'[w] = "status_set" /\ UNCHANGED <<msg, queue, upd>>
    BY <1>4 DEF StatusGet, queueVars
  <2> QED
    BY <1>0, <2>1 DEF Deletable, Job, LaterCopy
<1>5. CASE StatusSet(w)
  <2>1. pc[w] = "status_set" /\ pc'[w] = ret[w] /\ UNCHANGED <<msg, queue>> /\ Job(w) \notin Garbage
    BY <1>0, <1>5 DEF StatusSet, queueVars, Deletable
  <2>2. doc'[Job(w)] = Merged(base[w], upd[w])
    BY <1>0, <1>5, <2>1 DEF StatusSet, SetDoc, Fault, Healthy, StoreTypeOK
  <2>3. upd[w].status \in {"done", "failed"} => Terminal(doc'[Job(w)])
    BY <2>2, MergedTerminal
  <2>4. UpdateOK(w)
    BY <2>1 DEF SafeInv, UpdateInv
  <2>5. upd[w].status = "queued" => LaterCopy(w)'
    BY <1>0, <2>1 DEF Deletable, LaterCopy, Job
  <2> QED
    BY <2>1, <2>3, <2>4, <2>5 DEF UpdateOK, Deletable, Job, Terminal
<1>6. CASE DownloadInputs(w) \/ ExecuteTask(w)
  <2>1. UNCHANGED msg /\ pc[w] \in {"download", "execute"} /\ pc'[w] \in {"execute", "upload", "record"}
    BY <1>6 DEF DownloadInputs, ExecuteTask, Execute, localVars
  <2> QED
    BY <1>0, <2>1 DEF Deletable, Job
<1>7. CASE UploadOutputs(w)
  <2>1. UNCHANGED msg /\ pc[w] = "upload" /\ pc'[w] \in {"record", "status_get"}
    BY <1>7 DEF UploadOutputs, CallSetJobStatus
  <2>2. pc'[w] = "status_get" => upd'[w].status = "done"
    BY <1>7 DEF UploadOutputs, CallSetJobStatus, DoneUpdate
  <2> QED
    BY <1>0, <2>1, <2>2 DEF Deletable, Job
<1>8. CASE Cleanup(w)
  <2>1. UNCHANGED <<msg, doc>> /\ pc[w] = "cleanup" /\ pc'[w] = "ack"
    BY <1>8 DEF Cleanup, localVars
  <2> QED
    BY <1>0, <2>1 DEF Deletable, Job
<1>9. CASE RecordFailure(w)
  <2>1. UNCHANGED msg /\ pc[w] = "record" /\ pc'[w] \in {"republish", "giveup", "status_get"}
    BY <1>9 DEF RecordFailure, CallSetJobStatus
  <2>2. pc'[w] = "status_get" => upd'[w].status = "failed"
    <3>1. pc'[w] = "status_get" => upd'[w] = FailedUpdate(Job(w), 0)
      BY <1>9 DEF RecordFailure, CallSetJobStatus
    <3> HIDE DEF TypeOK, WorkerTypeOK, At, Goto, Busy, Updating
    <3> QED
      BY Zenon, <3>1, UpdateStatus
  <2>3. pc'[w] # "status_get" => try'[w] = TryCount(w, Job(w), msg[w].try)
    BY <1>9 DEF RecordFailure, CallSetJobStatus
  <2>4. TryCount(w, Job(w), msg[w].try) > msg[w].try
    BY <1>0, <2>1, TryCountAbove
  <2> QED
    BY Zenon, <1>0, <2>1, <2>2, <2>3, <2>4 DEF Deletable, Job
<1>10. CASE Republish(w)
  <2>1. UNCHANGED <<msg, try>> /\ pc[w] = "republish" /\ pc'[w] \in {"giveup", "status_get"}
    BY <1>10 DEF Republish, CallSetJobStatus
  <2>2. pc'[w] = "status_get" => LaterCopy(w)'
    BY <1>10, RepublishCopies DEF Republish
  <2> QED
    BY Zenon, <1>0, <2>1, <2>2 DEF Deletable, Job
<1>11. CASE GiveUp(w)
  <2>1. UNCHANGED msg /\ pc[w] = "giveup" /\ pc'[w] = "status_get" /\ upd'[w].status = "failed"
    BY <1>11 DEF GiveUp, CallSetJobStatus, FailedUpdate
  <2> QED
    BY Zenon, <1>0, <2>1 DEF Deletable, Job
<1>12. CASE Ack(w)
  BY <1>12 DEF Ack, EndHandler, Deletable
<1> QED
  BY <1>1, <1>2, <1>3, <1>4, <1>5, <1>6, <1>7, <1>8, <1>9, <1>10, <1>11, <1>12 DEF HandlerStep

\* DeletableInv is preserved.
LEMMA DeletableStep ==
    ASSUME Healthy, TypeOK, SafeInv, StuckInv, [Next]_vars
    PROVE  DeletableInv'
<1> SUFFICES ASSUME NEW w \in Workers PROVE Deletable(w)'
  BY DEF DeletableInv
<1>1. CASE HandlerStep(w)
  BY <1>1, DeletableOwn
<1>2. CASE ~Busy(w)'
  BY <1>2 DEF Deletable, Busy, Updating
<1>3. CASE Busy(w)' /\ ~HandlerStep(w)
  <2>1. pc'[w] = pc[w] /\ msg'[w] = msg[w] /\ try'[w] = try[w] /\ upd'[w] = upd[w]
    <3>1. CASE Crash(w) \/ Restart(w)
      BY <1>3, <3>1 DEF Crash, Restart, EndHandler, Goto, Busy, TypeOK, WorkerTypeOK
    <3>2. ASSUME NEW v \in Workers \ {w}, HandlerStep(v) \/ Crash(v) \/ Restart(v)
          PROVE  pc'[w] = pc[w] /\ msg'[w] = msg[w] /\ try'[w] = try[w] /\ upd'[w] = upd[w]
      BY Zenon, <3>2, OthersKept DEF Others
    <3> QED
      BY <1>3, <3>1, <3>2 DEF Next, ServiceStep, EnvironmentStep, DedupWindowEnds, RedisRestart,
         TtlElapses, VisibilityTimeout, DlqLost, workerVars, vars
  <2>2. \A v \in Workers : ~Ack(v)
    BY <1>3, <2>1, OnlyStep DEF SafeInv, HandlerStep, Busy
  <2> QED
    BY Zenon, <2>1, <2>2, MessagesKept, DeletableKept
<1> QED
  BY <1>1, <1>2, <1>3

-----------------------------------------------------------------------------
\* All parts of the argument are preserved together, and hold initially.
LEMMA StuckInductive ==
    ASSUME Healthy
    PROVE  /\ Init => SafeInv /\ StuckInv
           /\ TypeOK /\ TypeOK' /\ SafeInv /\ StuckInv /\ [Next]_vars => SafeInv' /\ StuckInv'
<1>1. Init => SafeInv /\ StuckInv
  BY SafeInit DEF Init, QueueInit, ApiInit, WorkerInit, StuckInv, DeletableInv, Deletable,
     RetryNeverLost, NotStuck, Submitted, Busy, Updating
<1>2. TypeOK /\ TypeOK' /\ SafeInv /\ StuckInv /\ [Next]_vars => SafeInv' /\ StuckInv'
  BY PublicationStep, UpdateStep, SchemaStep, ExclusiveStep, GuardStep, DeletableStep, RetryStep,
     NotStuckStep DEF SafeInv, StuckInv, Healthy
<1> QED
  BY <1>1, <1>2

\* No job is left behind, for any number of instances, jobs, retries, crashes,
\* lost deletes, failing or timed-out sends, ended deduplication windows, failing
\* S3 calls and lost dead-letter files: a submitted job that is not finished
\* has a message in the queue.
THEOREM NoJobLeftBehind ==
    ASSUME Healthy
    PROVE  Spec => []NotStuck
<1>1. StuckInv => NotStuck
  BY DEF StuckInv
<1> QED
  BY <1>1, StuckInductive, TypeCorrect, PTL DEF Spec

\* A retry that SQS drops as a duplicate still has its predecessor in the queue.
THEOREM RetriesSurviveDedup ==
    ASSUME Healthy
    PROVE  Spec => []RetryNeverLost
<1>1. StuckInv => RetryNeverLost
  BY DEF StuckInv
<1> QED
  BY <1>1, StuckInductive, TypeCorrect, PTL DEF Spec

-----------------------------------------------------------------------------
(* The documents follow the job contract.                                  *)

\* Nobody but its handler writes the document of the job in hand.
LEMMA DocInHand ==
    ASSUME Healthy, TypeOK, SafeInv, [Next]_vars, NEW w \in Workers, Busy(w), ~StatusSet(w)
    PROVE  doc'[Job(w)] = doc[Job(w)]
<1>1. Job(w) \in Jobs
  BY Zenon, BusyTypes DEF TypeOK, Busy
<1>2. api[Job(w)] # "presigned"
  BY <1>1 DEF SafeInv, PublicationInv, Unpublished
<1>3. ASSUME NEW v \in Workers, StatusSet(v) PROVE FALSE
  <2>1. v = w
    BY <1>3, OnlyStep DEF SafeInv, HandlerStep
  <2> QED
    BY <1>3, <2>1
<1> QED
  BY Zenon, <1>1, <1>2, <1>3, DocChange DEF Healthy

\* A call of set_job_status with an update that fits the stage of the job.
LEMMA CallStaged ==
    ASSUME WorkerTypeOK, NEW w \in Workers, UNCHANGED <<msg, doc>>, NEW u, NEW l,
           CallSetJobStatus(w, u, l),
           u.status \in {"queued", "done"} => doc[Job(w)].status = "running",
           u.status = "queued" => u.retry \in 1..MaxRetry,
           u.status \in {"running", "done"} => u.retry = 0
    PROVE  Staged(w)'
<1>1. pc'[w] = "status_get" /\ upd'[w] = u
  BY CallEffect
<1>2. Job(w)' = Job(w)
  BY DEF Job
<1> QED
  BY <1>1, <1>2 DEF Staged, Started, Updating

\* The retry counts of the updates.
LEMMA UpdateRetries ==
    /\ \A j : RunningUpdate(j).retry = 0 /\ DoneUpdate(j).retry = 0
    /\ \A j, n : QueuedUpdate(j, n).retry = n
  BY DEF RunningUpdate, DoneUpdate, QueuedUpdate

\* The handler's own steps keep its stage.
LEMMA StagedOwn ==
    ASSUME Healthy, TypeOK, SafeInv, NEW w \in Workers, Staged(w), HandlerStep(w)
    PROVE  Staged(w)'
<1> USE DEF TypeOK, WorkerTypeOK, At, Goto
<1>1. CASE Receive(w)
  BY Zenon, <1>1 DEF Receive, Staged, Started, Updating
<1>2. CASE HandleMessage(w)
  <2>1. CASE CallSetJobStatus(w, FailedUpdate(Job(w), 0), "ack")
    BY Zenon, <1>2, <2>1, CallStaged, UpdateStatus DEF HandleMessage
  <2>2. CASE pc'[w] \in {"check", "ack"}
    BY <2>2 DEF Staged, Started, Updating
  <2> QED
    BY <1>2, <2>1, <2>2 DEF HandleMessage
<1>3. CASE CheckTerminal(w)
  <2>1. CASE CallSetJobStatus(w, RunningUpdate(Job(w)), "download")
    BY Zenon, <1>3, <2>1, CallStaged, UpdateStatus, UpdateRetries DEF CheckTerminal
  <2>2. CASE CallSetJobStatus(w, FailedUpdate(Job(w), 0), "cleanup")
    BY Zenon, <1>3, <2>2, CallStaged, UpdateStatus DEF CheckTerminal
  <2>3. CASE pc'[w] = "ack"
    BY Zenon, <2>3 DEF Staged, Started, Updating
  <2> QED
    BY <1>3, <2>1, <2>2, <2>3 DEF CheckTerminal, BeginJob
<1>4. CASE StatusGet(w)
  <2>1. pc[w] = "status_get" /\ pc'[w] = "status_set" /\ Job(w)' = Job(w)
    BY <1>4 DEF StatusGet, Job
  <2>2. upd'[w] = upd[w] /\ doc' = doc /\ base'[w] = doc[Job(w)]
    BY <1>4 DEF StatusGet, Fault, Healthy
  <2> QED
    BY Zenon, <2>1, <2>2 DEF Staged, Started, Updating
<1>5. CASE StatusSet(w)
  <2>1. pc[w] = "status_set" /\ pc'[w] = ret[w] /\ Job(w)' = Job(w) /\ Job(w) \in Jobs
    BY <1>5, BusyTypes DEF StatusSet, Job
  <2>2. UpdateOK(w)
    BY <2>1 DEF SafeInv, UpdateInv, Updating
  <2>3. doc'[Job(w)] = Merged(base[w], upd[w])
    BY <1>5, <2>1 DEF StatusSet, SetDoc, Fault, Healthy, StoreTypeOK
  <2>4. ret[w] = "download" => doc'[Job(w)].status = "running"
    <3>1. Merged(base[w], upd[w]).status = upd[w].status
      BY MergedFields
    <3>2. ret[w] = "download" => upd[w].status = "running"
      BY <2>2 DEF UpdateOK
    <3> QED
      BY <2>3, <3>1, <3>2
  <2> QED
    BY Zenon, <2>1, <2>2, <2>4 DEF UpdateOK, Staged, Started, Updating
<1>6. CASE DownloadInputs(w) \/ ExecuteTask(w)
  <2>1. pc[w] \in {"download", "execute"} /\ pc'[w] \in {"execute", "upload", "record"}
    BY <1>6 DEF DownloadInputs, ExecuteTask
  <2>2. doc' = doc /\ msg' = msg
    BY <1>6 DEF DownloadInputs, ExecuteTask, localVars
  <2> QED
    BY Zenon, <2>1, <2>2 DEF Staged, Started, Updating, Job
<1>7. CASE UploadOutputs(w)
  <2>1. pc[w] = "upload" /\ doc' = doc /\ msg' = msg /\ doc[Job(w)].status = "running"
    BY Zenon, <1>7 DEF UploadOutputs, Staged, Started
  <2>2. CASE CallSetJobStatus(w, DoneUpdate(Job(w)), "cleanup")
    BY Zenon, <2>1, <2>2, CallStaged, UpdateStatus, UpdateRetries
  <2>3. CASE pc'[w] = "record"
    BY Zenon, <2>1, <2>3 DEF Staged, Started, Updating, Job
  <2> QED
    BY <1>7, <2>2, <2>3 DEF UploadOutputs
<1>8. CASE Cleanup(w) \/ Ack(w)
  BY Zenon, <1>8 DEF Cleanup, Ack, EndHandler, Staged, Started, Updating
<1>9. CASE RecordFailure(w)
  <2>1. pc[w] = "record" /\ doc' = doc /\ msg' = msg /\ doc[Job(w)].status = "running"
    BY Zenon, <1>9 DEF RecordFailure, Staged, Started
  <2>2. CASE CallSetJobStatus(w, FailedUpdate(Job(w), 0), "ack")
    BY Zenon, <2>1, <2>2, CallStaged, UpdateStatus
  <2>3. CASE /\ try' = [try EXCEPT ![w] = TryCount(w, Job(w), msg[w].try)]
             /\ Goto(w, IF CanRetry(TryCount(w, Job(w), msg[w].try)) THEN "republish" ELSE "giveup")
    <3> DEFINE n == TryCount(w, Job(w), msg[w].try)
    <3>1. msg[w] \in Message /\ Job(w) \in Jobs /\ msg[w].try \in Nat
      BY Zenon, <2>1, BusyTypes, MessageTypes
    <3>2. n \in Nat /\ n > msg[w].try
      BY <3>1, TryCountAbove
    <3>3. try'[w] = n /\ pc'[w] = IF CanRetry(n) THEN "republish" ELSE "giveup"
      BY <2>3
    <3> HIDE DEF n
    <3>4. pc'[w] = "republish" => try'[w] \in 1..MaxRetry
      <4>1. CanRetry(n) => n \in 1..MaxRetry
        BY <3>1, <3>2, MaxRetryAssumption DEF CanRetry
      <4>2. pc'[w] = "republish" => CanRetry(n)
        BY <3>3
      <4> QED
        BY <3>3, <4>1, <4>2
    <3>5. pc'[w] \in {"republish", "giveup"}
      BY <3>3
    <3> QED
      BY Zenon, <2>1, <3>4, <3>5 DEF Staged, Started, Updating, Job
  <2> QED
    BY <1>9, <2>2, <2>3 DEF RecordFailure
<1>10. CASE Republish(w)
  <2>1. pc[w] = "republish" /\ doc' = doc /\ msg' = msg /\ doc[Job(w)].status = "running"
    BY Zenon, <1>10 DEF Republish, Staged, Started
  <2>2. CASE CallSetJobStatus(w, QueuedUpdate(Job(w), try[w]), "ack")
    <3>1. try[w] \in 1..MaxRetry
      BY <2>1 DEF Staged
    <3> DEFINE u == QueuedUpdate(Job(w), try[w])
    <3>2. u.status = "queued" /\ u.retry = try[w]
      BY UpdateStatus, UpdateRetries
    <3>3. CallSetJobStatus(w, u, "ack")
      BY <2>2
    <3> HIDE DEF u
    <3> QED
      BY Zenon, <2>1, <3>1, <3>2, <3>3, CallStaged
  <2>3. CASE pc'[w] = "giveup"
    BY <2>1, <2>3 DEF Staged, Started, Updating, Job
  <2> QED
    BY <1>10, <2>2, <2>3 DEF Republish
<1>11. CASE GiveUp(w)
  BY Zenon, <1>11, CallStaged, UpdateStatus DEF GiveUp
<1> QED
  BY <1>1, <1>2, <1>3, <1>4, <1>5, <1>6, <1>7, <1>8, <1>9, <1>10, <1>11 DEF HandlerStep

\* StageInv is inductive.
LEMMA StageStep ==
    ASSUME Healthy, TypeOK, SafeInv, StageInv, [Next]_vars
    PROVE  StageInv'
<1> SUFFICES ASSUME NEW w \in Workers PROVE Staged(w)'
  BY DEF StageInv
<1>1. CASE HandlerStep(w)
  BY <1>1, StagedOwn DEF StageInv
<1>2. CASE Crash(w) \/ Restart(w)
  BY Zenon, <1>2 DEF Crash, Restart, EndHandler, Goto, Staged, Started, Updating, TypeOK, WorkerTypeOK
<1>3. CASE UNCHANGED <<pc[w], msg[w], try[w], upd[w], base[w]>> /\ ~StatusSet(w)
  <2>1. CASE Busy(w)
    BY Zenon, <1>3, <2>1, DocInHand DEF StageInv, Staged, Started, Updating, Job
  <2>2. CASE ~Busy(w)
    BY <1>3, <2>2 DEF Busy, Staged, Started, Updating
  <2> QED
    BY <2>1, <2>2
<1>4. \/ UNCHANGED <<pc, msg, try, upd, base>>
      \/ \E v \in Workers : HandlerStep(v) \/ Crash(v) \/ Restart(v)
  BY DEF Next, ServiceStep, EnvironmentStep, DedupWindowEnds, RedisRestart, TtlElapses,
         VisibilityTimeout, DlqLost, workerVars, vars
<1>5. ASSUME NEW v \in Workers \ {w}, HandlerStep(v) \/ Crash(v) \/ Restart(v)
      PROVE  UNCHANGED <<pc[w], msg[w], try[w], upd[w], base[w]>>
  BY Zenon, <1>5, OthersKept DEF Others
<1> QED
  BY Zenon, <1>1, <1>2, <1>3, <1>4, <1>5 DEF HandlerStep

\* The statuses and retry counts before and after a step that sets the
\* document of j to d.
LEMMA MoveOf ==
    ASSUME StoreTypeOK, NEW j \in Jobs, NEW d, SetDoc(j, d)
    PROVE  /\ [k \in Jobs |-> doc'[k].status] = [[k \in Jobs |-> doc[k].status] EXCEPT ![j] = d.status]
           /\ [k \in Jobs |-> doc'[k].retry] = [[k \in Jobs |-> doc[k].retry] EXCEPT ![j] = d.retry]
           /\ [k \in Jobs |-> doc'[k].retry][j] = d.retry
           /\ d.retry = doc[j].retry => [k \in Jobs |-> doc'[k].retry] = [k \in Jobs |-> doc[k].retry]
           /\ d.status = doc[j].status => [k \in Jobs |-> doc'[k].status] = [k \in Jobs |-> doc[k].status]
<1>1. doc'[j] = d /\ \A k \in Jobs \ {j} : doc'[k] = doc[k]
  BY DEF SetDoc, StoreTypeOK
<1> QED
  BY Zenon, <1>1

\* Every step of the system is a step of the job contract or leaves statuses
\* and retry counts alone.
LEMMA ContractStep ==
    ASSUME Healthy, TypeOK, SafeInv, StageInv, [Next]_vars
    PROVE  [Contract!Next]_<<[j \in Jobs |-> doc[j].status], [j \in Jobs |-> doc[j].retry]>>
<1> DEFINE status == [j \in Jobs |-> doc[j].status]
           retries == [j \in Jobs |-> doc[j].retry]
           Goal == [Contract!Next]_<<status, retries>>
<1>0. StoreTypeOK /\ \A j \in Jobs : doc[j].status \in Statuses /\ status[j] = doc[j].status
  BY DEF TypeOK, StoreTypeOK, Document
<1>n. ASSUME NEW j \in Jobs, \/ Contract!Accept(j) \/ Contract!Start(j) \/ Contract!Requeue(j)
                              \/ Contract!Finish(j) \/ Contract!Fail(j)
      PROVE  Goal
  <2>1. Contract!Next
    BY <1>n DEF Contract!Next
  <2> QED
    BY <2>1
<1>1. CASE UNCHANGED doc
  BY <1>1
<1>2. ASSUME NEW j \in Jobs, api[j] = "presigned", SetDoc(j, InitialDoc) PROVE Goal
  <2>1. doc[j].status = "none" /\ doc[j].retry = 0
    BY <1>2, DocumentFields DEF SafeInv, PublicationInv
  <2>2. status' = [status EXCEPT ![j] = "queued"] /\ retries' = retries
    <3>1. /\ status' = [status EXCEPT ![j] = InitialDoc.status]
          /\ InitialDoc.retry = doc[j].retry => retries' = retries
      BY Zenon, <1>0, <1>2, MoveOf
    <3> QED
      BY <2>1, <3>1, DocumentFields
  <2>3. Contract!Accept(j)
    BY <1>0, <2>1, <2>2 DEF Contract!Accept, Contract!Move
  <2> QED
    BY <1>n, <2>3
<1>3. ASSUME NEW w \in Workers, StatusSet(w), SetDoc(Job(w), Merged(base[w], upd[w])) PROVE Goal
  <2>0. pc[w] = "status_set" /\ Job(w) \in Jobs
    BY Zenon, <1>3, BusyTypes DEF StatusSet, At, TypeOK
  <2>j. PICK j \in Jobs : j = Job(w)
    BY <2>0
  <2> DEFINE u == upd[w]
             d == Merged(base[w], upd[w])
  <2>1. Busy(w) /\ Updating(w) /\ Working(w)
    BY <2>0 DEF Busy, Updating, Working
  <2>2. base[w] = doc[j] /\ Staged(w)
    BY <2>0, <2>j DEF StageInv, Staged
  <2>3. d.status = u.status /\ d.retry = IF u.retry = 0 THEN doc[j].retry ELSE u.retry
    BY <2>2 DEF Merged
  <2>4. u.status \in {"running", "done", "queued", "failed"}
    BY <2>1 DEF SafeInv, UpdateInv, UpdateOK
  <2>5. j \in Malformed => u.status = "failed" /\ u.retry = 0 /\ doc[j] \in {NoDoc, RejectedDoc}
    <3>1. j \in Malformed => u = FailedUpdate(j, 0) /\ doc[j] \in {NoDoc, RejectedDoc}
      BY <2>1, <2>j DEF SafeInv, SchemaInv
    <3>2. FailedUpdate(j, 0).status = "failed" /\ FailedUpdate(j, 0).retry = 0
      BY DEF FailedUpdate
    <3> QED
      BY <3>1, <3>2
  <2>6. j \notin Malformed => doc[j].status \in {"none", "queued", "running"}
    BY <1>0, <2>1, <2>j DEF SafeInv, GuardInv, Terminal, Statuses
  <2>7. /\ status' = [status EXCEPT ![j] = d.status]
        /\ retries' = [retries EXCEPT ![j] = d.retry] /\ retries'[j] = d.retry
        /\ d.retry = doc[j].retry => retries' = retries
        /\ d.status = doc[j].status => status' = status
    BY Zenon, <1>0, <1>3, <2>j, MoveOf
  <2>8. CASE u.status = "running"
    <3>1. retries' = retries /\ doc[j].status \in {"none", "queued", "running"}
      BY Zenon, <2>1, <2>2, <2>3, <2>5, <2>6, <2>7, <2>8 DEF Staged
    <3>2. CASE doc[j].status = "running"
      BY Zenon, <2>3, <2>7, <2>8, <3>1, <3>2
    <3>3. CASE doc[j].status \in {"none", "queued"}
      <4>1. Contract!Start(j)
        BY Zenon, <1>0, <2>3, <2>7, <2>8, <3>1, <3>3 DEF Contract!Start, Contract!Move
      <4> QED
        BY Zenon, <1>n, <4>1
    <3> QED
      BY <3>1, <3>2, <3>3
  <2>9. CASE u.status = "done"
    <3>1. retries' = retries /\ doc[j].status = "running"
      BY Zenon, <2>1, <2>2, <2>3, <2>7, <2>9, <2>j DEF Staged, Started
    <3>2. Contract!Finish(j)
      BY Zenon, <1>0, <2>3, <2>7, <2>9, <3>1 DEF Contract!Finish, Contract!Move
    <3> QED
      BY Zenon, <1>n, <3>2
  <2>10. CASE u.status = "queued"
    <3>1. u.retry \in 1..MaxRetry /\ doc[j].status = "running"
      BY <2>1, <2>2, <2>10, <2>j DEF Staged, Started
    <3>2. d.retry \in 1..MaxRetry
      <4>1. u.retry # 0
        BY <3>1, MaxRetryAssumption
      <4>2. d.retry = u.retry
        BY <2>3, <4>1
      <4> QED
        BY <3>1, <4>2
    <3>3. Contract!Requeue(j)
      BY Zenon, <1>0, <2>3, <2>7, <2>10, <3>1, <3>2 DEF Contract!Requeue, Contract!Move
    <3> QED
      BY Zenon, <1>n, <3>3
  <2>11. CASE u.status = "failed"
    <3>1. CASE doc[j].status \in {"none", "queued", "running"}
      <4>1. Contract!Fail(j)
        BY Zenon, <1>0, <2>3, <2>7, <2>11, <3>1 DEF Contract!Fail, Contract!Move
      <4> QED
        BY <1>n, <4>1
    <3>2. CASE doc[j] = RejectedDoc
      <4>1. d.status = doc[j].status /\ d.retry = doc[j].retry
        BY Zenon, <2>3, <2>5, <2>6, <2>11, <3>2, DocumentFields
      <4> QED
        BY Zenon, <2>7, <4>1
    <3> QED
      BY <2>5, <2>6, <3>1, <3>2, DocumentFields
  <2> QED
    BY <2>4, <2>8, <2>9, <2>10, <2>11
<1> QED
  BY <1>1, <1>2, <1>3, StoreChange DEF Healthy

\* The documents follow the job contract, for any number of instances, jobs,
\* retries, crashes, lost deletes, failing sends, ended deduplication windows,
\* failing S3 calls and lost files: clients see every job move only as the
\* abstract status machine allows.
THEOREM DocumentsFollowContract ==
    ASSUME Healthy
    PROVE  Spec => ImplementsContract
<1>1. Init => SafeInv /\ StageInv /\ Contract!Init
  <2>1. Init => StageInv
    BY Zenon DEF Init, WorkerInit, StageInv, Staged, Started, Updating
  <2>2. Init => Contract!Init
    BY DocumentFields DEF Init, StoreInit, Contract!Init
  <2> QED
    BY <2>1, <2>2, SafeInit
<1>2. TypeOK /\ SafeInv /\ [Next]_vars => SafeInv'
  BY PublicationStep, UpdateStep, SchemaStep, ExclusiveStep, GuardStep DEF SafeInv, Healthy
<1>3. TypeOK /\ SafeInv /\ StageInv /\ [Next]_vars => StageInv'
  BY StageStep
<1>4. TypeOK /\ SafeInv /\ StageInv /\ [Next]_vars =>
        [Contract!Next]_<<[j \in Jobs |-> doc[j].status], [j \in Jobs |-> doc[j].retry]>>
  BY ContractStep
<1> QED
  BY <1>1, <1>2, <1>3, <1>4, TypeCorrect, PTL DEF Spec, ImplementsContract, Contract!Spec

-----------------------------------------------------------------------------
(* The dead-letter directory of a single instance.                         *)

\* The deployment and the faults under which no file is left behind.
Orderly ==
    /\ Healthy
    /\ FaultKinds \cap {"crash", "dlq_write"} = {}
    /\ \A v, w \in Workers : v = w

\* Only record_failure makes a file appear.
LEMMA FileAppears ==
    ASSUME Orderly, TypeOK, [Next]_vars, NEW w \in Workers, NEW j \in Jobs, dlq'[w][j].exists
    PROVE  dlq[w][j].exists \/ (RecordFailure(w) /\ Job(w) = j)
<1> USE DEF TypeOK, DlqTypeOK
<1>0. ~NoEntry.exists
  BY DEF NoEntry
<1>1. CASE UNCHANGED dlq
  BY <1>1
<1>2. ASSUME NEW v \in Workers, HandlerStep(v)
      PROVE  dlq[w][j].exists \/ (RecordFailure(w) /\ Job(w) = j)
  <2>1. CASE RecordFailure(v)
    <3>1. \/ UNCHANGED dlq
          \/ \E e : dlq' = [dlq EXCEPT ![v][Job(v)] = e]
      BY Zenon, <2>1 DEF RecordFailure, WriteEntry, TruncateEntry
    <3>2. dlq'[w][j] = dlq[w][j] \/ (v = w /\ Job(v) = j)
      BY <3>1
    <3> QED
      BY <1>0, <2>1, <3>2
  <2>2. CASE Cleanup(v) \/ GiveUp(v)
    <3>1. dlq' = [dlq EXCEPT ![v][Job(v)] = NoEntry]
      BY <2>2 DEF Cleanup, GiveUp, RemoveEntry
    <3>2. dlq'[w][j] \in {dlq[w][j], NoEntry}
      BY <3>1
    <3> QED
      BY <1>0, <3>2
  <2>3. CASE ~RecordFailure(v) /\ ~Cleanup(v) /\ ~GiveUp(v)
    BY Zenon, <1>1, <1>2, <2>3 DEF HandlerStep, Receive, HandleMessage, CheckTerminal, StatusGet,
       StatusSet, DownloadInputs, ExecuteTask, UploadOutputs, Republish, Ack, effectVars
  <2> QED
    BY <2>1, <2>2, <2>3
<1>3. ASSUME NEW v \in Workers, DlqLost(v) PROVE dlq[w][j].exists
  BY <1>3 DEF DlqLost, RemoveAllEntries, NoEntry
<1>4. \/ UNCHANGED dlq
      \/ \E v \in Workers : HandlerStep(v) \/ DlqLost(v)
  BY DEF Next, ServiceStep, EnvironmentStep, DedupWindowEnds, RedisRestart, TtlElapses,
         VisibilityTimeout, Crash, Restart, Fault, Orderly, effectVars, vars
<1> QED
  BY <1>1, <1>2, <1>3, <1>4

\* Where the single handler is after a step of anybody else.
LEMMA HandlerKept ==
    ASSUME Orderly, TypeOK, [Next]_vars, NEW w \in Workers, Busy(w), ~HandlerStep(w)
    PROVE  UNCHANGED <<pc, msg, upd, ret>>
  BY DEF Next, ServiceStep, EnvironmentStep, DedupWindowEnds, RedisRestart, TtlElapses,
         VisibilityTimeout, DlqLost, Crash, Restart, At, Busy, Fault, Orderly, workerVars, vars

\* The job whose failure is recorded is valid, unfinished and in the queue.
LEMMA RecordedJob ==
    ASSUME Orderly, TypeOK, SafeInv, StuckInv, NEW w \in Workers, RecordFailure(w)
    PROVE  /\ Job(w) \in Jobs /\ Job(w) \notin Malformed \cup Garbage
           /\ ~Terminal(doc[Job(w)]) /\ Queued(Job(w))
           /\ UNCHANGED <<queue, doc>>
<1>1. pc[w] = "record" /\ Busy(w) /\ Working(w)
  BY Zenon DEF RecordFailure, At, Busy, Working
<1>2. Job(w) \in Jobs /\ Job(w) \notin Malformed /\ Job(w) \notin Garbage
  BY Zenon, <1>1, BusyTypes DEF TypeOK, SafeInv, SchemaInv, StuckInv, DeletableInv, Deletable
<1>3. queue # <<>> /\ msg[w] = Head(queue)
  BY Zenon, <1>1, QueueAssumption DEF SafeInv, ExclusiveInv, TypeOK, QueueTypeOK
<1>4. Queued(Job(w))
  BY <1>3, HeadTypes DEF Queued, Job, TypeOK
<1>5. ~Terminal(doc[Job(w)])
  BY <1>1, <1>2 DEF SafeInv, GuardInv
<1> QED
  BY <1>2, <1>4, <1>5 DEF RecordFailure, queueVars

\* The file of a finished job is the one its handler is about to remove.
LEMMA FileOfFinished ==
    ASSUME Orderly, TypeOK, SafeInv, StuckInv, FileInv, [Next]_vars,
           NEW w \in Workers, NEW j \in Jobs, dlq'[w][j].exists, Terminal(doc'[j])
    PROVE  pc'[w] = "cleanup" /\ Job(w)' = j
<1> USE DEF TypeOK, WorkerTypeOK, Goto
<1>1. dlq[w][j].exists
  BY Zenon, FileAppears, RecordedJob
<1>2. CASE Terminal(doc[j])
  <2>1. pc[w] = "cleanup" /\ Job(w) = j
    BY Zenon, <1>1, <1>2 DEF FileInv
  <2>2. ~Cleanup(w)
    <3> SUFFICES ASSUME Cleanup(w) PROVE FALSE
      OBVIOUS
    <3>1. dlq' = [dlq EXCEPT ![w][j] = NoEntry]
      BY <2>1 DEF Cleanup, RemoveEntry
    <3>2. dlq'[w][j] = NoEntry
      BY <3>1 DEF DlqTypeOK
    <3>3. ~NoEntry.exists
      BY DEF NoEntry
    <3> QED
      BY Zenon, <3>2, <3>3
  <2>3. ~HandlerStep(w)
    BY Zenon, <2>1, <2>2 DEF HandlerStep, Receive, HandleMessage, CheckTerminal, StatusGet, StatusSet,
       DownloadInputs, ExecuteTask, UploadOutputs, RecordFailure, Republish, GiveUp, Ack, At
  <2> QED
    BY Zenon, <2>1, <2>3, HandlerKept DEF Busy, Job
<1>3. CASE ~Terminal(doc[j])
  <2>1. api[j] # "presigned" \/ doc'[j] # InitialDoc
    BY Zenon, DocumentFields DEF Terminal
  <2>2. PICK v \in Workers : StatusSet(v) /\ Job(v) = j /\ doc'[j] = Merged(base[v], upd[v])
    BY Zenon, <1>3, <2>1, DocChange DEF Orderly, Healthy
  <2>3. v = w /\ pc[w] = "status_set" /\ pc'[w] = ret[w] /\ Job(w)' = j
    BY Zenon, <2>2 DEF Orderly, StatusSet, At, Job
  <2>4. upd[w].status \in {"done", "failed"}
    BY Zenon, <2>2, <2>3, MergedTerminal
  <2>5. ret[w] \in {"cleanup", "ack"} /\ (ret[w] = "ack" => upd[w].status = "failed")
    BY Zenon, <2>3, <2>4 DEF SafeInv, UpdateInv, UpdateOK, Updating
  <2>6. ret[w] # "ack"
    BY Zenon, <1>1, <2>2, <2>3, <2>5 DEF FileInv, Updating
  <2> QED
    BY Zenon, <2>3, <2>5, <2>6
<1> QED
  BY <1>2, <1>3

\* A job that is being given up has no file.
LEMMA FileOfGivenUp ==
    ASSUME Orderly, TypeOK, SafeInv, StuckInv, FileInv, [Next]_vars, NEW w \in Workers,
           Updating(w)', upd'[w].status = "failed", ret'[w] = "ack"
    PROVE  ~dlq'[w][Job(w)'].exists
<1> USE DEF TypeOK, WorkerTypeOK, Goto, At
<1>1. CASE Updating(w) /\ ~StatusSet(w)
  <2>1. UNCHANGED <<msg[w], upd[w], ret[w]>>
    <3>1. CASE HandlerStep(w)
      <4>1. StatusGet(w)
        BY Zenon, <1>1, <3>1 DEF Updating, HandlerStep, Receive, HandleMessage, CheckTerminal,
           DownloadInputs, ExecuteTask, UploadOutputs, Cleanup, RecordFailure, Republish, GiveUp, Ack
      <4> QED
        BY <4>1 DEF StatusGet
    <3>2. CASE ~HandlerStep(w)
      BY <1>1, <3>2, HandlerKept DEF Updating, Busy
    <3> QED
      BY Zenon, <3>1, <3>2
  <2>2. Job(w)' = Job(w) /\ Job(w) \in Jobs /\ ~dlq[w][Job(w)].exists
    BY Zenon, <1>1, <2>1, BusyTypes DEF FileInv, Job, Updating
  <2>3. ~RecordFailure(w)
    BY Zenon, <1>1 DEF RecordFailure, Updating
  <2> QED
    BY Zenon, <2>2, <2>3, FileAppears
<1>2. CASE HandleMessage(w)
  <2>1. Job(w)' = Job(w) /\ pc[w] = "received" /\ Job(w) \in Malformed /\ dlq' = dlq
    BY <1>2 DEF HandleMessage, UsableJobId, ValidRequest, Updating, Job, effectVars
  <2> QED
    BY Zenon, <2>1, MessageKinds DEF FileInv
<1>3. CASE GiveUp(w)
  <2>1. Job(w)' = Job(w) /\ Job(w) \in Jobs
    BY Zenon, <1>3, BusyTypes DEF GiveUp, Job
  <2> QED
    BY Zenon, <1>3, <2>1 DEF GiveUp, RemoveEntry, NoEntry, DlqTypeOK
<1>4. CASE CheckTerminal(w)
  <2>1. ret'[w] \in {"download", "cleanup"}
    BY <1>4 DEF CheckTerminal, BeginJob, CallSetJobStatus, Updating
  <2> QED
    BY <2>1
<1>5. CASE UploadOutputs(w) \/ Republish(w)
  <2>1. upd'[w] \in {DoneUpdate(Job(w)), QueuedUpdate(Job(w), try[w])}
    BY Zenon, <1>5, CallEffect DEF UploadOutputs, Republish, Updating
  <2> QED
    BY Zenon, <2>1, UpdateStatus
<1>6. CASE StatusSet(w) \/ RecordFailure(w) \/ Receive(w) \/ DownloadInputs(w) \/ ExecuteTask(w)
           \/ Cleanup(w) \/ Ack(w)
  <2>1. StatusSet(w) => pc'[w] \in {"idle", "download", "cleanup", "ack"}
    BY DEF StatusSet
  <2>2. RecordFailure(w) => pc'[w] \in {"republish", "giveup"}
    BY Zenon DEF RecordFailure, Orderly, Fault
  <2>3. Receive(w) \/ DownloadInputs(w) \/ ExecuteTask(w) \/ Cleanup(w) \/ Ack(w) =>
          pc'[w] \in {"received", "execute", "upload", "record", "ack", "idle"}
    BY Zenon DEF Receive, DownloadInputs, ExecuteTask, Cleanup, Ack, EndHandler
  <2> QED
    BY Zenon, <1>6, <2>1, <2>2, <2>3 DEF Updating
<1>7. CASE ~Updating(w) /\ ~HandlerStep(w)
  <2>1. pc'[w] \in {pc[w], "idle"}
    BY Zenon, <1>7 DEF Next, ServiceStep, EnvironmentStep, DedupWindowEnds, RedisRestart, TtlElapses,
       VisibilityTimeout, DlqLost, Crash, Restart, Fault, Orderly, workerVars, vars
  <2> QED
    BY Zenon, <1>7, <2>1 DEF Updating
<1> QED
  BY Zenon, <1>1, <1>2, <1>3, <1>4, <1>5, <1>6, <1>7 DEF HandlerStep, StatusGet, Updating

\* FileInv is inductive.
LEMMA FileStep ==
    ASSUME Orderly, TypeOK, SafeInv, StuckInv, FileInv, [Next]_vars
    PROVE  FileInv'
<1>1. ASSUME NEW w \in Workers, NEW j \in Jobs, dlq'[w][j].exists
      PROVE  j \notin Malformed \cup Garbage /\ (Terminal(doc[j]) \/ Queued(j))'
  <2>1. CASE RecordFailure(w) /\ Job(w) = j
    BY Zenon, <2>1, RecordedJob DEF Queued
  <2>2. CASE dlq[w][j].exists
    <3>1. j \notin Malformed \cup Garbage /\ (Terminal(doc[j]) \/ Queued(j))
      BY <2>2 DEF FileInv
    <3>2. CASE Terminal(doc[j])
      BY <3>1, <3>2, TerminalKept DEF Orderly, Terminal
    <3>3. CASE Queued(j) /\ ~Terminal(doc[j])
      BY <3>1, <3>3, CopySurvives DEF Orderly, Queued
    <3> QED
      BY <3>1, <3>2, <3>3
  <2> QED
    BY <1>1, <2>1, <2>2, FileAppears
<1> QED
  BY Zenon, <1>1, FileOfFinished, FileOfGivenUp DEF FileInv, Terminal

\* When nothing is left to do, the dead-letter directory is empty, for any
\* number of jobs, retries and faults other than crashes and files that cannot
\* be written, with a healthy Redis and one instance: the alert on the backlog
\* that the monitor counts then has a cause.
THEOREM BacklogAlwaysDrains ==
    ASSUME Orderly
    PROVE  Spec => []BacklogDrains
<1>1. Init => FileInv
  <2> SUFFICES ASSUME Init, NEW w \in Workers
               PROVE  pc[w] = "idle" /\ \A j \in Jobs : ~dlq[w][j].exists
    BY Zenon DEF FileInv, Updating
  <2>1. pc[w] = "idle"
    BY DEF Init, WorkerInit
  <2>2. dlq[w] = [j \in Jobs |-> NoEntry]
    BY DEF Init, DlqInit
  <2>3. \A j \in Jobs : dlq[w][j] = NoEntry
    BY <2>2
  <2>4. ~NoEntry.exists
    BY DEF NoEntry
  <2> QED
    BY <2>1, <2>3, <2>4
<1>2. TypeOK /\ SafeInv /\ StuckInv /\ FileInv /\ [Next]_vars => FileInv'
  BY FileStep
<1>3. FileInv => BacklogDrains
  <2> SUFFICES ASSUME FileInv, queue = <<>>, \A w \in Workers : ~Busy(w), NEW w \in Workers
               PROVE  PendingCount(w) = 0
    BY Zenon DEF BacklogDrains
  <2>1. \A j \in Jobs : ~Queued(j)
    BY DEF Queued
  <2>2. {j \in Jobs : dlq[w][j].exists} = {}
    BY <2>1 DEF FileInv, Busy
  <2> QED
    BY Zenon, <2>2, FS_EmptySet DEF PendingCount
<1>4. Healthy
  BY DEF Orderly
<1> QED
  BY <1>1, <1>2, <1>3, <1>4, StuckInductive, TypeCorrect, PTL DEF Spec

=============================================================================
