----------------------------- MODULE TypeProofs ------------------------------
(***************************************************************************)
(* Type correctness of TaskForge, for any number of instances, jobs,       *)
(* retries and faults, the effects of its steps that the other proofs rest *)
(* on, and the invariants that hold whatever faults occur.                 *)
(***************************************************************************)
EXTENDS TaskForgeInvariants, TLAPS

-----------------------------------------------------------------------------
(* Types of what the components' operators produce.                        *)

\* What the variables hold at first.
LEMMA InitialTypes == NoDoc \in Document /\ NoUpdate \in Update /\ NoEntry \in Entry
<1>1. NoDoc \in Document
  BY DEF NoDoc, Document, Statuses
<1>2. NoUpdate \in Update
  BY DEF NoUpdate, Update, Statuses
<1>3. NoEntry \in Entry
  BY DEF NoEntry, Entry
<1> QED
  BY <1>1, <1>2, <1>3

\* SendMessage keeps the queue well-typed, whether or not it deduplicates.
LEMMA SendTypes ==
    ASSUME NEW m \in Message, QueueTypeOK, SendMessage(m)
    PROVE  QueueTypeOK'
  BY DEF QueueTypeOK, SendMessage

\* The messages the services and the worker send.
LEMMA MessageTypes ==
    /\ \A j \in Jobs : FirstMessage(j) \in Message
    /\ \A j \in Jobs, n \in Nat : [job |-> j, try |-> n] \in Message
    /\ \A m \in Message : m.job \in Jobs /\ m.try \in Nat
  BY DEF FirstMessage, Message

\* The arguments the handler passes to set_job_status.
LEMMA UpdateTypes ==
    ASSUME NEW j \in Jobs, NEW n \in Nat
    PROVE  /\ RunningUpdate(j) \in Update
           /\ DoneUpdate(j) \in Update
           /\ FailedUpdate(j, n) \in Update
           /\ QueuedUpdate(j, n) \in Update
           /\ NoUpdate \in Update
  BY DEF RunningUpdate, DoneUpdate, FailedUpdate, QueuedUpdate, NoUpdate, Update,
         Statuses, Fields, ContractFields

\* The documents the services and the worker write.
LEMMA DocumentTypes ==
    /\ NoDoc \in Document
    /\ InitialDoc \in Document
    /\ \A d \in Document, u \in Update : Merged(d, u) \in Document
  BY DEF NoDoc, InitialDoc, Document, Statuses, Fields, Merged, Update

\* record_failure returns a natural number above the count of the message.
LEMMA TryCountAbove ==
    ASSUME DlqTypeOK, NEW w \in Workers, NEW j \in Jobs, NEW n \in Nat
    PROVE  TryCount(w, j, n) \in Nat /\ TryCount(w, j, n) > n
<1>1. dlq[w][j].count \in Nat
  BY DEF DlqTypeOK, Entry
<1> QED
  BY <1>1 DEF TryCount

\* The dead-letter store stays well-formed when a file is written, truncated
\* or removed.
LEMMA EntryTypes ==
    ASSUME DlqTypeOK, NEW w \in Workers
    PROVE  /\ NoEntry \in Entry
           /\ \A j \in Jobs, n \in Nat : WriteEntry(w, j, n) => DlqTypeOK'
           /\ \A j \in Jobs : TruncateEntry(w, j) \/ RemoveEntry(w, j) => DlqTypeOK'
           /\ RemoveAllEntries(w) => DlqTypeOK'
<1>1. NoEntry \in Entry /\ \A n \in Nat : [exists |-> TRUE, count |-> n] \in Entry
  BY DEF NoEntry, Entry
<1>2. ASSUME NEW j \in Jobs, NEW e \in Entry, dlq' = [dlq EXCEPT ![w][j] = e] PROVE DlqTypeOK'
  BY <1>2 DEF DlqTypeOK
<1>3. RemoveAllEntries(w) => DlqTypeOK'
  BY <1>1 DEF RemoveAllEntries, DlqTypeOK
<1> QED
  BY <1>1, <1>2, <1>3 DEF WriteEntry, TruncateEntry, RemoveEntry

\* Calling set_job_status changes the program counter, its arguments and
\* nothing else of the handler.
LEMMA CallTypes ==
    ASSUME WorkerTypeOK, NEW w \in Workers, msg[w] \in Message,
           NEW u \in Update, NEW l \in {"download", "cleanup", "ack"},
           CallSetJobStatus(w, u, l), UNCHANGED msg,
           (try \in [Workers -> Nat])', (outputs \in SUBSET Jobs)', (runs \in [Jobs -> Nat])'
    PROVE  WorkerTypeOK'
  BY DEF WorkerTypeOK, CallSetJobStatus, Goto, Labels

\* A step that only moves the program counter within the handler.
LEMMA GotoTypes ==
    ASSUME WorkerTypeOK, NEW w \in Workers, msg[w] \in Message,
           NEW l \in Labels, Goto(w, l), UNCHANGED <<msg, statusVars>>,
           (try \in [Workers -> Nat])', (outputs \in SUBSET Jobs)', (runs \in [Jobs -> Nat])'
    PROVE  WorkerTypeOK'
  BY DEF WorkerTypeOK, Goto, statusVars

\* The end of a handler, regular or by a crash.
LEMMA EndTypes ==
    ASSUME WorkerTypeOK, NEW w \in Workers, NEW l \in {"idle", "down"},
           EndHandler(w, l), UNCHANGED <<outputs, runs>>
    PROVE  WorkerTypeOK'
<1>1. NoUpdate \in Update /\ NoDoc \in Document
  BY DEF NoUpdate, Update, Statuses, Fields, NoDoc, Document
<1> QED
  BY <1>1 DEF WorkerTypeOK, EndHandler, Goto, Labels

\* A handler in progress has a message.
LEMMA BusyTypes ==
    ASSUME WorkerTypeOK, NEW w \in Workers, pc[w] \notin {"down", "idle"}
    PROVE  msg[w] \in Message /\ Job(w) \in Jobs /\ msg[w].try \in Nat
  BY MessageTypes DEF WorkerTypeOK, Job

-----------------------------------------------------------------------------
(* Type correctness.                                                       *)

\* Every step of the REST services preserves the types.
LEMMA ServiceTypes ==
    ASSUME TypeOK, NEW j \in Jobs, ServiceStep(j)
    PROVE  TypeOK'
<1>0. UNCHANGED <<dlq, workerVars>>
  BY DEF ServiceStep
<1>a. DlqTypeOK' /\ WorkerTypeOK'
  BY <1>0 DEF TypeOK, DlqTypeOK, WorkerTypeOK, workerVars
<1> USE DEF TypeOK, ApiTypeOK, ApiStep, ApiStates, Fault, NoFault
<1>1. CASE PresignInputs(j)
  BY <1>a, <1>1 DEF PresignInputs, queueVars, QueueTypeOK, StoreTypeOK
<1>2. CASE RecordQueued(j)
  <2>1. StoreTypeOK'
    BY <1>2, DocumentTypes DEF RecordQueued, StoreTypeOK, SetDoc
  <2> QED
    BY <1>a, <1>2, <2>1 DEF RecordQueued, queueVars, QueueTypeOK
<1>3. CASE PublishRequest(j)
  <2>1. QueueTypeOK'
    BY <1>3, SendTypes, MessageTypes DEF PublishRequest, queueVars, QueueTypeOK
  <2> QED
    BY <1>a, <1>3, <2>1 DEF PublishRequest, StoreTypeOK
<1>4. CASE PublishDirectly(j)
  <2>1. QueueTypeOK'
    BY <1>4, SendTypes, MessageTypes DEF PublishDirectly
  <2> QED
    BY <1>a, <1>4, <2>1 DEF PublishDirectly, StoreTypeOK
<1>5. CASE UploadInputs(j)
  BY <1>a, <1>5 DEF UploadInputs, queueVars, QueueTypeOK, StoreTypeOK
<1> QED
  BY <1>1, <1>2, <1>3, <1>4, <1>5 DEF ServiceStep

\* Every step of a message handler preserves the types.
LEMMA HandlerTypes ==
    ASSUME TypeOK, NEW w \in Workers, HandlerStep(w)
    PROVE  TypeOK'
<1> USE DEF TypeOK, Fault, NoFault, apiVars, effectVars
<1>0. pc[w] \notin {"down", "idle"} =>
        msg[w] \in Message /\ Job(w) \in Jobs /\ msg[w].try \in Nat
  BY BusyTypes
<1>1. CASE Receive(w)
  <2>1. queue \in Seq(Message) /\ queue # <<>> => Head(queue) \in Message
    OBVIOUS
  <2> QED
    BY <1>1, <2>1 DEF Receive, ReceiveMessage, At, Goto, statusVars, Labels, QueueTypeOK,
                      StoreTypeOK, ApiTypeOK, DlqTypeOK, WorkerTypeOK
<1>2. CASE HandleMessage(w)
  <2>1. UNCHANGED <<faults, queueVars, apiVars, doc, dlq, msg, try, outputs, runs>>
    BY <1>2 DEF HandleMessage
  <2>2. WorkerTypeOK'
    <3>1. msg[w] \in Message /\ Job(w) \in Jobs
      BY <1>0, <1>2 DEF HandleMessage, At
    <3>2. CASE Goto(w, "ack") /\ UNCHANGED statusVars
      BY <2>1, <3>1, <3>2, GotoTypes DEF Labels, WorkerTypeOK
    <3>3. CASE CallSetJobStatus(w, FailedUpdate(Job(w), 0), "ack")
      BY <2>1, <3>1, <3>3, CallTypes, UpdateTypes DEF WorkerTypeOK
    <3>4. CASE Goto(w, "check") /\ UNCHANGED statusVars
      BY <2>1, <3>1, <3>4, GotoTypes DEF Labels, WorkerTypeOK
    <3> QED
      BY <1>2, <3>2, <3>3, <3>4 DEF HandleMessage
  <2> QED
    BY <2>1, <2>2 DEF queueVars, QueueTypeOK, StoreTypeOK, ApiTypeOK, DlqTypeOK
<1>3. CASE CheckTerminal(w)
  <2>1. UNCHANGED <<queueVars, apiVars, doc, dlq, msg, try, outputs, runs>> /\ faults' \in Nat
    BY <1>3 DEF CheckTerminal
  <2>2. WorkerTypeOK'
    <3>1. msg[w] \in Message /\ Job(w) \in Jobs
      BY <1>0, <1>3 DEF CheckTerminal, At
    <3>2. CASE Goto(w, "ack") /\ UNCHANGED statusVars
      BY <2>1, <3>1, <3>2, GotoTypes DEF Labels, WorkerTypeOK
    <3>3. CASE BeginJob(w)
      BY <2>1, <3>1, <3>3, CallTypes, UpdateTypes DEF BeginJob, WorkerTypeOK
    <3> QED
      BY <1>3, <3>2, <3>3 DEF CheckTerminal
  <2> QED
    BY <2>1, <2>2 DEF queueVars, QueueTypeOK, StoreTypeOK, ApiTypeOK, DlqTypeOK
<1>4. CASE StatusGet(w)
  <2>1. Job(w) \in Jobs
    BY <1>0, <1>4 DEF StatusGet, At
  <2>2. (base \in [Workers -> Document])'
    BY <1>4, <2>1, DocumentTypes DEF StatusGet, StoreTypeOK, WorkerTypeOK
  <2>3. WorkerTypeOK'
    BY <1>4, <2>2 DEF StatusGet, At, Goto, Labels, WorkerTypeOK
  <2> QED
    BY <1>4, <2>3 DEF StatusGet, queueVars, QueueTypeOK, StoreTypeOK, ApiTypeOK, DlqTypeOK
<1>5. CASE StatusSet(w)
  <2>1. Job(w) \in Jobs /\ msg[w] \in Message
    BY <1>0, <1>5 DEF StatusSet, At
  <2>2. StoreTypeOK'
    <3>1. Merged(base[w], upd[w]) \in Document
      BY DocumentTypes DEF WorkerTypeOK
    <3> QED
      BY <1>5, <2>1, <3>1 DEF StatusSet, SetDoc, StoreTypeOK
  <2>3. WorkerTypeOK'
    <3>1. NoUpdate \in Update /\ NoDoc \in Document
      BY <2>1, UpdateTypes, DocumentTypes
    <3> QED
      BY <1>5, <2>1, <3>1 DEF StatusSet, At, Goto, Labels, WorkerTypeOK
  <2> QED
    BY <1>5, <2>2, <2>3 DEF StatusSet, queueVars, QueueTypeOK, ApiTypeOK, DlqTypeOK
<1>6. CASE DownloadInputs(w)
  <2>1. WorkerTypeOK'
    BY <1>0, <1>6, GotoTypes DEF DownloadInputs, At, Labels, localVars, statusVars, WorkerTypeOK
  <2> QED
    BY <1>6, <2>1 DEF DownloadInputs, queueVars, QueueTypeOK, StoreTypeOK, ApiTypeOK, DlqTypeOK
<1>7. CASE ExecuteTask(w)
  <2>1. (runs \in [Jobs -> Nat])'
    BY <1>0, <1>7 DEF ExecuteTask, Execute, At, WorkerTypeOK
  <2>2. WorkerTypeOK'
    BY <1>0, <1>7, <2>1, GotoTypes DEF ExecuteTask, At, Labels, localVars, statusVars, WorkerTypeOK
  <2> QED
    BY <1>7, <2>2 DEF ExecuteTask, queueVars, QueueTypeOK, StoreTypeOK, ApiTypeOK, DlqTypeOK
<1>8. CASE UploadOutputs(w)
  <2>1. msg[w] \in Message /\ Job(w) \in Jobs
    BY <1>0, <1>8 DEF UploadOutputs, At
  <2>2. (outputs \in SUBSET Jobs)' /\ UNCHANGED <<msg, try, runs>>
    BY <1>8, <2>1 DEF UploadOutputs, WorkerTypeOK
  <2>3. WorkerTypeOK'
    <3>1. CASE CallSetJobStatus(w, DoneUpdate(Job(w)), "cleanup")
      BY <2>1, <2>2, <3>1, CallTypes, UpdateTypes DEF WorkerTypeOK
    <3>2. CASE Goto(w, "record") /\ UNCHANGED statusVars
      BY <2>1, <2>2, <3>2, GotoTypes DEF Labels, WorkerTypeOK
    <3> QED
      BY <1>8, <3>1, <3>2 DEF UploadOutputs
  <2> QED
    BY <1>8, <2>3 DEF UploadOutputs, queueVars, QueueTypeOK, StoreTypeOK, ApiTypeOK, DlqTypeOK
<1>9. CASE Cleanup(w)
  <2>1. WorkerTypeOK'
    BY <1>0, <1>9, GotoTypes DEF Cleanup, At, Labels, localVars, statusVars, WorkerTypeOK
  <2>2. DlqTypeOK'
    BY <1>0, <1>9, EntryTypes DEF Cleanup, At
  <2> QED
    BY <1>9, <2>1, <2>2 DEF Cleanup, queueVars, QueueTypeOK, StoreTypeOK, ApiTypeOK
<1>10. CASE RecordFailure(w)
  <2>1. msg[w] \in Message /\ Job(w) \in Jobs /\ msg[w].try \in Nat
    BY <1>0, <1>10 DEF RecordFailure, At
  <2>2. TryCount(w, Job(w), msg[w].try) \in Nat
    BY <2>1, TryCountAbove
  <2>3. DlqTypeOK' /\ (try \in [Workers -> Nat])'
    <3>1. UNCHANGED dlq => DlqTypeOK'
      BY DEF DlqTypeOK
    <3>2. DlqTypeOK'
      BY <1>10, <2>1, <2>2, <3>1, EntryTypes DEF RecordFailure
    <3>3. (try \in [Workers -> Nat])'
      BY <1>10, <2>2 DEF RecordFailure, WorkerTypeOK
    <3> QED
      BY <3>2, <3>3
  <2>4. WorkerTypeOK'
    <3>1. CASE CallSetJobStatus(w, FailedUpdate(Job(w), 0), "ack")
      BY <1>10, <2>1, <2>3, <3>1, CallTypes, UpdateTypes DEF RecordFailure, WorkerTypeOK
    <3>2. ASSUME NEW n, Goto(w, IF CanRetry(n) THEN "republish" ELSE "giveup"), UNCHANGED statusVars
          PROVE  WorkerTypeOK'
      BY <1>10, <2>1, <2>3, <3>2, GotoTypes DEF RecordFailure, Labels, WorkerTypeOK
    <3> QED
      BY <1>10, <3>1, <3>2 DEF RecordFailure
  <2> QED
    BY <1>10, <2>3, <2>4 DEF RecordFailure, queueVars, QueueTypeOK, StoreTypeOK, ApiTypeOK
<1>11. CASE Republish(w)
  <2>1. msg[w] \in Message /\ Job(w) \in Jobs /\ try[w] \in Nat
    BY <1>0, <1>11 DEF Republish, At, WorkerTypeOK
  <2>2. QueueTypeOK'
    BY <1>11, <2>1, SendTypes, MessageTypes DEF Republish, RetryMessage, queueVars, QueueTypeOK
  <2>3. WorkerTypeOK'
    <3>1. CASE CallSetJobStatus(w, QueuedUpdate(Job(w), try[w]), "ack")
      BY <1>11, <2>1, <3>1, CallTypes, UpdateTypes DEF Republish, WorkerTypeOK
    <3>2. CASE Goto(w, "giveup") /\ UNCHANGED statusVars
      BY <1>11, <2>1, <3>2, GotoTypes DEF Republish, Labels, WorkerTypeOK
    <3> QED
      BY <1>11, <3>1, <3>2 DEF Republish
  <2> QED
    BY <1>11, <2>2, <2>3 DEF Republish, StoreTypeOK, ApiTypeOK, DlqTypeOK
<1>12. CASE GiveUp(w)
  <2>1. msg[w] \in Message /\ Job(w) \in Jobs /\ try[w] \in Nat
    BY <1>0, <1>12 DEF GiveUp, At, WorkerTypeOK
  <2>2. WorkerTypeOK'
    BY <1>12, <2>1, CallTypes, UpdateTypes DEF GiveUp, WorkerTypeOK
  <2>3. DlqTypeOK'
    BY <1>12, <2>1, EntryTypes DEF GiveUp
  <2> QED
    BY <1>12, <2>2, <2>3 DEF GiveUp, queueVars, QueueTypeOK, StoreTypeOK, ApiTypeOK
<1>13. CASE Ack(w)
  <2>1. WorkerTypeOK'
    BY <1>13, EndTypes DEF Ack
  <2>2. QueueTypeOK'
    <3>1. CASE DeleteMessage(w)
      <4>1. holder = w => queue # <<>>
        BY QueueAssumption DEF QueueTypeOK
      <4>2. holder = w => Tail(queue) \in Seq(Message)
        BY <4>1 DEF QueueTypeOK
      <4> QED
        BY <3>1, <4>2 DEF DeleteMessage, QueueTypeOK
    <3>2. CASE UNCHANGED queueVars
      BY <3>2 DEF queueVars, QueueTypeOK
    <3> QED
      BY <1>13, <3>1, <3>2 DEF Ack
  <2> QED
    BY <1>13, <2>1, <2>2 DEF Ack, StoreTypeOK, ApiTypeOK, DlqTypeOK
<1> QED
  BY <1>1, <1>2, <1>3, <1>4, <1>5, <1>6, <1>7, <1>8, <1>9, <1>10, <1>11, <1>12, <1>13
     DEF HandlerStep

\* Every step of the environment preserves the types.
LEMMA EnvironmentTypes ==
    ASSUME TypeOK, EnvironmentStep
    PROVE  TypeOK'
<1> USE DEF TypeOK, Fault, NoFault, apiVars, effectVars, workerVars, queueVars, StoreTypeOK
<1>1. CASE DedupWindowEnds
  BY <1>1 DEF DedupWindowEnds, Forget, QueueTypeOK, ApiTypeOK, DlqTypeOK, WorkerTypeOK
<1>2. CASE RedisRestart
  BY <1>2, DocumentTypes DEF RedisRestart, QueueTypeOK, ApiTypeOK, DlqTypeOK, WorkerTypeOK
<1>3. ASSUME NEW j \in Jobs, TtlElapses(j) PROVE TypeOK'
  BY <1>3, DocumentTypes DEF TtlElapses, SetDoc, QueueTypeOK, ApiTypeOK, DlqTypeOK, WorkerTypeOK
<1>4. ASSUME NEW w \in Workers, VisibilityTimeout(w) PROVE TypeOK'
  BY <1>4 DEF VisibilityTimeout, MakeVisible, QueueTypeOK, ApiTypeOK, DlqTypeOK, WorkerTypeOK
<1>5. ASSUME NEW w \in Workers, DlqLost(w) PROVE TypeOK'
  BY <1>5, EntryTypes DEF DlqLost, QueueTypeOK, ApiTypeOK, WorkerTypeOK
<1>6. ASSUME NEW w \in Workers, Crash(w) PROVE TypeOK'
  <2>1. WorkerTypeOK'
    BY <1>6, EndTypes DEF Crash
  <2>2. DlqTypeOK'
    BY <1>6, BusyTypes, EntryTypes DEF Crash, At, DlqTypeOK
  <2> QED
    BY <1>6, <2>1, <2>2 DEF Crash, QueueTypeOK, ApiTypeOK
<1>7. ASSUME NEW w \in Workers, Restart(w) PROVE TypeOK'
  BY <1>7 DEF Restart, At, Goto, Labels, localVars, QueueTypeOK, ApiTypeOK, DlqTypeOK, WorkerTypeOK
<1> QED
  BY <1>1, <1>2, <1>3, <1>4, <1>5, <1>6, <1>7 DEF EnvironmentStep

\* The variables of the services, the queue, Redis, the dead-letter files and
\* the handlers always have their types; in particular a handler in progress
\* always has a message.
THEOREM TypeCorrect == Spec => []TypeOK
<1>1. Init => TypeOK
  <2> SUFFICES ASSUME Init PROVE TypeOK
    OBVIOUS
  <2>1. QueueTypeOK
    BY DEF Init, QueueInit, QueueTypeOK
  <2>2. StoreTypeOK /\ ApiTypeOK
    BY InitialTypes DEF Init, StoreInit, StoreTypeOK, ApiInit, ApiTypeOK, ApiStates
  <2>3. DlqTypeOK
    BY InitialTypes DEF Init, DlqInit, DlqTypeOK
  <2>4. WorkerTypeOK
    BY InitialTypes DEF Init, WorkerInit, WorkerTypeOK, Labels
  <2> QED
    BY <2>1, <2>2, <2>3, <2>4 DEF Init, TypeOK
<1>2. TypeOK /\ [Next]_vars => TypeOK'
  <2> SUFFICES ASSUME TypeOK, [Next]_vars PROVE TypeOK'
    OBVIOUS
  <2>1. CASE Next
    BY <2>1, ServiceTypes, HandlerTypes, EnvironmentTypes DEF Next
  <2>2. CASE UNCHANGED vars
    BY <2>2 DEF vars, TypeOK, QueueTypeOK, StoreTypeOK, ApiTypeOK, DlqTypeOK, WorkerTypeOK
  <2> QED
    BY <2>1, <2>2
<1> QED
  BY <1>1, <1>2, PTL DEF Spec

-----------------------------------------------------------------------------
(* Effects of the queue's operations and of the handler's steps.           *)

\* SendMessage keeps every message in its place and adds at most the new one,
\* which is left out only when SQS remembers its deduplication id.
LEMMA SendEffect ==
    ASSUME QueueTypeOK, NEW m \in Message, SendMessage(m)
    PROVE  /\ \A i \in 1..Len(queue) : i \in 1..Len(queue') /\ queue'[i] = queue[i]
           /\ \A i \in 1..Len(queue') : i \in 1..Len(queue) \/ queue'[i] = m
           /\ m \in dedup \/ \E i \in 1..Len(queue') : queue'[i] = m
           /\ queue # <<>> => queue' # <<>> /\ Head(queue') = Head(queue)
           /\ dedup' = dedup \cup {m} /\ holder' = holder
<1>1. CASE m \in dedup
  BY <1>1 DEF SendMessage
<1>2. CASE m \notin dedup
  <2>1. queue' = Append(queue, m) /\ queue \in Seq(Message)
    BY <1>2 DEF SendMessage, QueueTypeOK
  <2>2. Len(queue') = Len(queue) + 1 /\ Len(queue) \in Nat
    BY <2>1
  <2>3. \A i \in 1..Len(queue) : i \in 1..Len(queue') /\ queue'[i] = queue[i]
    BY <2>1, <2>2
  <2>4. Len(queue') \in 1..Len(queue') /\ queue'[Len(queue')] = m
    BY <2>1, <2>2
  <2>5. queue # <<>> => queue' # <<>> /\ Head(queue') = Head(queue)
    BY <2>1, <2>2, <2>3
  <2> QED
    BY <2>2, <2>3, <2>4, <2>5 DEF SendMessage
<1> QED
  BY <1>1, <1>2

\* Deleting the message in flight removes the first message and no other.
LEMMA TailEffect ==
    ASSUME NEW q \in Seq(Message), q # <<>>
    PROVE  /\ \A i \in 1..Len(q) : i = 1 \/ (i - 1 \in 1..Len(Tail(q)) /\ Tail(q)[i - 1] = q[i])
           /\ \A i \in 1..Len(Tail(q)) : i + 1 \in 1..Len(q) /\ Tail(q)[i] = q[i + 1]
           /\ 1 \in 1..Len(q) /\ Head(q) = q[1]
  OBVIOUS

\* The local state of the handlers of the instances other than w.
Others(w) ==
    \A v \in Workers \ {w} :
        /\ pc'[v] = pc[v]
        /\ msg'[v] = msg[v]
        /\ try'[v] = try[v]
        /\ upd'[v] = upd[v]
        /\ base'[v] = base[v]
        /\ ret'[v] = ret[v]

\* A handler leaves the local state of other handlers alone.
LEMMA OthersKept ==
    ASSUME TypeOK, NEW w \in Workers, HandlerStep(w) \/ Crash(w) \/ Restart(w)
    PROVE  Others(w)
<1> USE DEF TypeOK, WorkerTypeOK, Others, Goto, CallSetJobStatus, statusVars, localVars
<1>1. CASE Receive(w)
  BY <1>1 DEF Receive
<1>2. CASE HandleMessage(w)
  BY <1>2 DEF HandleMessage
<1>3. CASE CheckTerminal(w)
  BY <1>3 DEF CheckTerminal, BeginJob
<1>4. CASE StatusGet(w)
  BY <1>4 DEF StatusGet
<1>5. CASE StatusSet(w)
  BY <1>5 DEF StatusSet
<1>6. CASE DownloadInputs(w)
  BY <1>6 DEF DownloadInputs
<1>7. CASE ExecuteTask(w)
  BY <1>7 DEF ExecuteTask
<1>8. CASE UploadOutputs(w)
  BY <1>8 DEF UploadOutputs
<1>9. CASE Cleanup(w)
  BY <1>9 DEF Cleanup
<1>10. CASE RecordFailure(w)
  BY <1>10 DEF RecordFailure
<1>11. CASE Republish(w)
  BY <1>11 DEF Republish
<1>12. CASE GiveUp(w)
  BY <1>12 DEF GiveUp
<1>13. CASE Ack(w)
  BY <1>13 DEF Ack, EndHandler
<1>14. CASE Crash(w)
  BY <1>14 DEF Crash, EndHandler
<1>15. CASE Restart(w)
  BY <1>15 DEF Restart
<1> QED
  BY <1>1, <1>2, <1>3, <1>4, <1>5, <1>6, <1>7, <1>8, <1>9, <1>10, <1>11, <1>12, <1>13,
     <1>14, <1>15 DEF HandlerStep

\* The steps of a handler that change no state outside the worker except its
\* dead-letter file and S3.
QuietStep(w) ==
    \/ HandleMessage(w)   \/ CheckTerminal(w)  \/ StatusGet(w)
    \/ DownloadInputs(w)  \/ ExecuteTask(w)    \/ UploadOutputs(w)
    \/ Cleanup(w)         \/ RecordFailure(w)  \/ GiveUp(w)

\* They leave queue, documents and requests alone and stay within the handler.
LEMMA QuietEffect ==
    ASSUME TypeOK, NEW w \in Workers, QuietStep(w)
    PROVE  UNCHANGED <<queueVars, apiVars, doc, msg>> /\ Busy(w) /\ Busy(w)'
<1> USE DEF TypeOK, WorkerTypeOK, At, Goto, CallSetJobStatus, Busy, localVars
<1>1. CASE HandleMessage(w)
  BY <1>1 DEF HandleMessage
<1>2. CASE CheckTerminal(w)
  BY <1>2 DEF CheckTerminal, BeginJob
<1>3. CASE StatusGet(w)
  BY <1>3 DEF StatusGet
<1>4. CASE DownloadInputs(w)
  BY <1>4 DEF DownloadInputs
<1>5. CASE ExecuteTask(w)
  BY <1>5 DEF ExecuteTask
<1>6. CASE UploadOutputs(w)
  BY <1>6 DEF UploadOutputs
<1>7. CASE Cleanup(w)
  BY <1>7 DEF Cleanup
<1>8. CASE RecordFailure(w)
  BY <1>8 DEF RecordFailure
<1>9. CASE GiveUp(w)
  BY <1>9 DEF GiveUp
<1> QED
  BY <1>1, <1>2, <1>3, <1>4, <1>5, <1>6, <1>7, <1>8, <1>9 DEF QuietStep

\* The job of every message in the queue is a job.
LEMMA HeadTypes ==
    ASSUME QueueTypeOK, queue # <<>>
    PROVE  Head(queue) \in Message /\ 1 \in 1..Len(queue) /\ Head(queue) = queue[1]
  BY TailEffect DEF QueueTypeOK

\* Every step of a handler but the first is taken by a busy instance.
LEMMA StepOfBusy ==
    ASSUME NEW w \in Workers, HandlerStep(w) \/ Crash(w), ~Receive(w)
    PROVE  Busy(w)
  BY DEF HandlerStep, HandleMessage, CheckTerminal, StatusGet, StatusSet, DownloadInputs,
         ExecuteTask, UploadOutputs, Cleanup, RecordFailure, Republish, GiveUp, Ack, Crash, At, Busy

-----------------------------------------------------------------------------
(* The messages in the queue.                                              *)

\* What a step does to the queue: nothing; a service or a handler sends a
\* message within the cap; or the holder of the first message deletes it.
Sends(m) == m \in Message /\ m.try <= MaxRetry /\ SendMessage(m)

\* The services send messages without a count.
LEMMA ServiceSends ==
    ASSUME TypeOK, NEW j \in Jobs, ServiceStep(j)
    PROVE  UNCHANGED queueVars \/ Sends(FirstMessage(j))
<1>1. FirstMessage(j) \in Message /\ FirstMessage(j).try <= MaxRetry
  BY MessageTypes, MaxRetryAssumption DEF FirstMessage
<1>2. UNCHANGED queueVars \/ SendMessage(FirstMessage(j))
  BY DEF ServiceStep, PresignInputs, RecordQueued, PublishRequest, PublishDirectly, UploadInputs
<1> QED
  BY <1>1, <1>2 DEF Sends

\* A retry is within the cap.
LEMMA RepublishSends ==
    ASSUME TypeOK, CapInv, NEW w \in Workers, Republish(w)
    PROVE  UNCHANGED queueVars \/ Sends(RetryMessage(w))
<1>1. pc[w] = "republish" /\ try[w] \in Nat /\ try[w] <= MaxRetry
  BY DEF Republish, At, CapInv, TypeOK, WorkerTypeOK
<1>2. RetryMessage(w) \in Message /\ RetryMessage(w).try = try[w]
  BY <1>1, BusyTypes, MessageTypes DEF RetryMessage, TypeOK
<1>3. UNCHANGED queueVars \/ SendMessage(RetryMessage(w))
  BY DEF Republish
<1> QED
  BY <1>1, <1>2, <1>3 DEF Sends

\* CapInv is inductive, whatever faults occur.
LEMMA CapStep ==
    ASSUME TypeOK, CapInv, [Next]_vars
    PROVE  CapInv'
<1> USE DEF CapInv
<1>1. ASSUME UNCHANGED queue PROVE (\A i \in 1..Len(queue) : queue[i].try <= MaxRetry)'
  BY <1>1
<1>2. ASSUME NEW m, Sends(m) PROVE (\A i \in 1..Len(queue) : queue[i].try <= MaxRetry)'
  BY <1>2, SendEffect DEF Sends, TypeOK
<1>3. ASSUME NEW w \in Workers, Ack(w) PROVE (\A i \in 1..Len(queue) : queue[i].try <= MaxRetry)'
  <2>1. CASE UNCHANGED queue
    BY <1>1, <2>1
  <2>2. CASE queue' = Tail(queue) /\ queue # <<>>
    BY <2>2, TailEffect DEF TypeOK, QueueTypeOK
  <2> QED
    BY <1>3, <2>1, <2>2, QueueAssumption DEF Ack, DeleteMessage, queueVars, TypeOK, QueueTypeOK
<1>4. ASSUME UNCHANGED <<pc, try>>
      PROVE  (\A w \in Workers : pc[w] = "republish" => try[w] <= MaxRetry)'
  BY <1>4
<1>5. ASSUME NEW w \in Workers, HandlerStep(w) \/ Crash(w) \/ Restart(w)
      PROVE  (\A v \in Workers : pc[v] = "republish" => try[v] <= MaxRetry)'
  <2>1. pc'[w] = "republish" => try'[w] <= MaxRetry
    <3> USE DEF TypeOK, WorkerTypeOK, Goto
    <3>1. CASE RecordFailure(w)
      BY <3>1 DEF RecordFailure, CallSetJobStatus, CanRetry
    <3>2. CASE Receive(w) \/ HandleMessage(w) \/ CheckTerminal(w) \/ StatusGet(w)
      BY <3>2 DEF Receive, HandleMessage, CheckTerminal, BeginJob, StatusGet, CallSetJobStatus
    <3>3. CASE StatusSet(w)
      BY <3>3 DEF StatusSet
    <3>4. CASE DownloadInputs(w) \/ ExecuteTask(w) \/ UploadOutputs(w) \/ Cleanup(w)
      BY <3>4 DEF DownloadInputs, ExecuteTask, UploadOutputs, Cleanup, CallSetJobStatus
    <3>5. CASE Republish(w) \/ GiveUp(w)
      BY <3>5 DEF Republish, GiveUp, CallSetJobStatus
    <3>6. CASE Ack(w) \/ Crash(w) \/ Restart(w)
      BY <3>6 DEF Ack, Crash, Restart, EndHandler
    <3> QED
      BY <1>5, <3>1, <3>2, <3>3, <3>4, <3>5, <3>6 DEF HandlerStep
  <2>2. Others(w)
    BY <1>5, OthersKept
  <2> QED
    BY <2>1, <2>2 DEF Others
<1>6. ASSUME NEW w \in Workers, HandlerStep(w) PROVE CapInv'
  <2>1. CASE Republish(w)
    BY <1>1, <1>2, <1>5, <1>6, <2>1, RepublishSends DEF queueVars
  <2>2. CASE Ack(w)
    BY <1>3, <1>5, <1>6, <2>2
  <2>3. CASE ~Republish(w) /\ ~Ack(w)
    <3>1. UNCHANGED queue
      BY <1>6, <2>3, QuietEffect
         DEF HandlerStep, QuietStep, Receive, ReceiveMessage, StatusSet, queueVars
    <3> QED
      BY <1>1, <1>5, <1>6, <3>1
  <2> QED
    BY <2>1, <2>2, <2>3
<1>7. ASSUME NEW j \in Jobs, ServiceStep(j) PROVE CapInv'
  BY <1>1, <1>2, <1>4, <1>7, ServiceSends DEF ServiceStep, workerVars, queueVars
<1>8. CASE EnvironmentStep
  <2>1. UNCHANGED queue
    BY <1>8 DEF EnvironmentStep, DedupWindowEnds, Forget, RedisRestart, TtlElapses,
                VisibilityTimeout, MakeVisible, DlqLost, Crash, Restart, queueVars
  <2>2. UNCHANGED <<pc, try>> \/ \E w \in Workers : Crash(w) \/ Restart(w)
    BY <1>8 DEF EnvironmentStep, DedupWindowEnds, RedisRestart, TtlElapses,
                VisibilityTimeout, DlqLost, workerVars
  <2> QED
    BY <1>1, <1>4, <1>5, <2>1, <2>2
<1>9. CASE UNCHANGED vars
  BY <1>1, <1>4, <1>9 DEF vars
<1> QED
  BY <1>6, <1>7, <1>8, <1>9 DEF Next

\* ReturnInv is inductive, whatever faults occur.
LEMMA ReturnStep ==
    ASSUME TypeOK, ReturnInv, [Next]_vars
    PROVE  ReturnInv'
<1> USE DEF ReturnInv, Updating
<1>1. ASSUME UNCHANGED <<pc, ret>> PROVE ReturnInv'
  BY <1>1
<1>2. ASSUME NEW w \in Workers, HandlerStep(w) \/ Crash(w) \/ Restart(w) PROVE ReturnInv'
  <2>1. Updating(w)' => ret'[w] # "idle"
    <3> USE DEF TypeOK, WorkerTypeOK, At, Goto, CallSetJobStatus
    <3>1. CASE Receive(w) \/ HandleMessage(w) \/ CheckTerminal(w)
      BY <3>1 DEF Receive, HandleMessage, CheckTerminal, BeginJob
    <3>2. CASE StatusGet(w)
      BY <3>2 DEF StatusGet
    <3>3. CASE StatusSet(w)
      BY <3>3 DEF StatusSet
    <3>4. CASE DownloadInputs(w) \/ ExecuteTask(w) \/ UploadOutputs(w) \/ Cleanup(w)
      BY <3>4 DEF DownloadInputs, ExecuteTask, UploadOutputs, Cleanup
    <3>5. CASE RecordFailure(w) \/ Republish(w) \/ GiveUp(w)
      BY <3>5 DEF RecordFailure, Republish, GiveUp
    <3>6. CASE Ack(w) \/ Crash(w) \/ Restart(w)
      BY <3>6 DEF Ack, Crash, Restart, EndHandler
    <3> QED
      BY <1>2, <3>1, <3>2, <3>3, <3>4, <3>5, <3>6 DEF HandlerStep
  <2> QED
    BY <1>2, <2>1, OthersKept DEF Others
<1> QED
  BY <1>1, <1>2 DEF Next, ServiceStep, EnvironmentStep, DedupWindowEnds, RedisRestart,
                    TtlElapses, VisibilityTimeout, DlqLost, workerVars, vars

\* HeldInv is inductive, whatever faults occur: only the holder of the first
\* message removes it.
LEMMA HeldStep ==
    ASSUME TypeOK, CapInv, HeldInv, [Next]_vars
    PROVE  HeldInv'
<1> USE QueueAssumption DEF HeldInv
<1>0. \A w \in Workers : holder = w => queue # <<>>
  BY DEF TypeOK, QueueTypeOK
<1>1. ASSUME UNCHANGED queueVars \/ (\E m : Sends(m))
      PROVE  holder' = holder /\ (queue # <<>> => Head(queue') = Head(queue))
  BY <1>1, SendEffect DEF Sends, queueVars, TypeOK
<1>2. ASSUME UNCHANGED <<pc, msg, holder>>, queue # <<>> => Head(queue') = Head(queue)
      PROVE  HeldInv'
  BY <1>0, <1>2 DEF Busy
<1>3. ASSUME NEW j \in Jobs, ServiceStep(j) PROVE HeldInv'
  BY <1>1, <1>2, <1>3, ServiceSends DEF ServiceStep, workerVars
<1>4. ASSUME NEW w \in Workers, HandlerStep(w) PROVE HeldInv'
  <2>0. Others(w)
    BY <1>4, OthersKept
  <2>1. CASE Receive(w)
    <3>1. holder' = w /\ queue' = queue /\ msg'[w] = Head(queue)
      BY <2>1 DEF Receive, ReceiveMessage, TypeOK, WorkerTypeOK
    <3> QED
      BY <3>1
  <2>2. CASE Ack(w)
    <3>1. ~Busy(w)'
      BY <2>2 DEF Ack, EndHandler, Goto, Busy, TypeOK, WorkerTypeOK
    <3>2. holder # w => UNCHANGED <<queue, holder>>
      BY <2>2 DEF Ack, DeleteMessage, queueVars
    <3>3. holder = w => holder' \in {w, NoWorker}
      BY <2>2 DEF Ack, DeleteMessage, queueVars
    <3> QED
      BY <2>0, <3>1, <3>2, <3>3 DEF Others, Busy
  <2>3. CASE ~Receive(w) /\ ~Ack(w)
    <3>1. Busy(w)
      BY <1>4, <2>3, StepOfBusy
    <3>2. msg'[w] = msg[w] /\ (UNCHANGED queueVars \/ \E m : Sends(m))
      BY <1>4, <2>3, QuietEffect, RepublishSends
         DEF HandlerStep, QuietStep, StatusSet, Republish
    <3> QED
      BY <1>0, <1>1, <2>0, <3>1, <3>2 DEF Others, Busy
  <2> QED
    BY <2>1, <2>2, <2>3
<1>5. CASE EnvironmentStep
  <2>1. CASE DedupWindowEnds \/ RedisRestart \/ (\E j \in Jobs : TtlElapses(j)) \/ (\E w \in Workers : DlqLost(w))
    BY <1>2, <2>1 DEF DedupWindowEnds, Forget, RedisRestart, TtlElapses, DlqLost, queueVars, workerVars
  <2>2. ASSUME NEW w \in Workers, VisibilityTimeout(w) PROVE HeldInv'
    BY <2>2 DEF VisibilityTimeout, MakeVisible
  <2>3. ASSUME NEW w \in Workers, Crash(w) \/ Restart(w) PROVE HeldInv'
    <3>1. Others(w) /\ ~Busy(w)' /\ UNCHANGED queueVars
      BY <2>3, OthersKept DEF Crash, Restart, EndHandler, Goto, Busy, TypeOK, WorkerTypeOK
    <3> QED
      BY <3>1 DEF Others, Busy, queueVars
  <2> QED
    BY <1>5, <2>1, <2>2, <2>3 DEF EnvironmentStep
<1>6. CASE UNCHANGED vars
  BY <1>2, <1>6 DEF vars
<1> QED
  BY <1>3, <1>4, <1>5, <1>6 DEF Next

=============================================================================
