---------------------------- MODULE BudgetProofs ----------------------------
(***************************************************************************)
(* How often a task runs: proof of RetryBudget for any number of           *)
(* instances, jobs and retries, whatever faults occur.                     *)
(***************************************************************************)
EXTENDS TypeProofs, FiniteSetTheorems, FunctionTheorems

-----------------------------------------------------------------------------
(* Counting.                                                               *)

\* The set T has at most n elements more than S.
Gains(T, S, n) == IsFiniteSet(T) /\ Cardinality(T) <= Cardinality(S) + n

\* A subset has no more elements.
LEMMA Subsets ==
    ASSUME NEW S, IsFiniteSet(S), NEW T, T \subseteq S
    PROVE  /\ IsFiniteSet(T) /\ Cardinality(S) \in Nat /\ Cardinality(T) \in Nat
           /\ Cardinality(T) <= Cardinality(S)
  BY FS_Subset, FS_CardinalityType

\* The same as a gain.
LEMMA NoMore ==
    ASSUME NEW S, IsFiniteSet(S), NEW T, T \subseteq S
    PROVE  Gains(T, S, 0)
  BY Subsets DEF Gains

\* One more element counts for at most one.
LEMMA OneMore ==
    ASSUME NEW S, IsFiniteSet(S), NEW x, NEW T, T \subseteq S \cup {x}
    PROVE  Gains(T, S, 1)
<1> DEFINE R == S \cup {x}
<1>1. Cardinality(S) \in Nat
  BY FS_CardinalityType
<1>2. IsFiniteSet(R) /\ (Cardinality(R) = Cardinality(S) \/ Cardinality(R) = Cardinality(S) + 1)
  BY FS_AddElement
<1> HIDE DEF R
<1>3. IsFiniteSet(T) /\ Cardinality(T) \in Nat /\ Cardinality(T) <= Cardinality(R)
  BY <1>2, Subsets DEF R
<1> QED
  BY <1>1, <1>2, <1>3 DEF Gains

\* The two in one.
LEMMA AtMostOneMore ==
    ASSUME NEW S, IsFiniteSet(S), NEW x, NEW T, T \subseteq S \cup {x},
           NEW n \in {0, 1}, n = 0 => T \subseteq S
    PROVE  Gains(T, S, n)
  BY NoMore, OneMore

\* One element less counts for one.
LEMMA OneLess ==
    ASSUME NEW S, IsFiniteSet(S), NEW x \in S, NEW T, T \subseteq S \ {x}
    PROVE  Gains(T, S, -1)
<1>1. IsFiniteSet(S \ {x}) /\ Cardinality(S \ {x}) = Cardinality(S) - 1 /\ Cardinality(S) \in Nat
  BY FS_RemoveElement, FS_CardinalityType
<1>2. /\ IsFiniteSet(T) /\ Cardinality(T) \in Nat
      /\ Cardinality(T) <= Cardinality(S \ {x})
  BY <1>1, Subsets
<1> QED
  BY <1>1, <1>2 DEF Gains

\* Deleting the first message moves all others up by one place.
LEMMA ShiftedPlaces ==
    ASSUME NEW S, IsFiniteSet(S), S \subseteq Nat, NEW T, T = {i \in Nat : i + 1 \in S}, 0 \notin S
    PROVE  Gains(T, S, 0)
<1> DEFINE f == [i \in S |-> i - 1]
<1>1. f \in [S -> T]
  OBVIOUS
<1>2. \A a, b \in S : f[a] = f[b] => a = b
  OBVIOUS
<1>3. \A t \in T : \E s \in S : f[s] = t
  <2> SUFFICES ASSUME NEW t \in T PROVE t + 1 \in S /\ f[t + 1] = t
    OBVIOUS
  <2> QED
    OBVIOUS
<1> HIDE DEF f
<1>4. f \in Bijection(S, T)
  BY Zenon, <1>1, <1>2, <1>3, Fun_IsBij
<1>5. IsFiniteSet(T) /\ Cardinality(T) = Cardinality(S) /\ Cardinality(S) \in Nat
  BY <1>4, FS_Bijection, FS_CardinalityType DEF ExistsBijection
<1> QED
  BY <1>5 DEF Gains

\* The chances of a job can be counted.
ChancesFinite ==
    /\ faults \in Nat
    /\ \A j \in Jobs :
          /\ IsFiniteSet(Unsent(j)) /\ Cardinality(Unsent(j)) \in Nat
          /\ IsFiniteSet(Waiting(j)) /\ Cardinality(Waiting(j)) \in Nat
          /\ runs[j] \in Nat

\* The places of the queue and the counts within the cap are finitely many.
LEMMA ChancesTypes == TypeOK => ChancesFinite
<1> SUFFICES ASSUME TypeOK, NEW j \in Jobs
             PROVE  /\ IsFiniteSet(Unsent(j)) /\ Cardinality(Unsent(j)) \in Nat
                    /\ IsFiniteSet(Waiting(j)) /\ Cardinality(Waiting(j)) \in Nat
                    /\ runs[j] \in Nat
  BY DEF ChancesFinite, TypeOK
<1>1. Len(queue) \in Nat /\ runs[j] \in Nat /\ faults \in Nat
  BY DEF TypeOK, QueueTypeOK, WorkerTypeOK
<1>2. IsFiniteSet(0..MaxRetry) /\ IsFiniteSet(1..Len(queue))
  BY <1>1, FS_Interval, MaxRetryAssumption
<1>3. Unsent(j) \subseteq 0..MaxRetry /\ Waiting(j) \subseteq 1..Len(queue)
  BY DEF Unsent, Waiting
<1> QED
  BY <1>1, <1>2, <1>3, Subsets

\* The same for one job.
LEMMA JobChances ==
    ASSUME TypeOK, NEW j \in Jobs, Budgeted(j)
    PROVE  IsFiniteSet(Unsent(j)) /\ IsFiniteSet(Waiting(j)) /\ IsFiniteSet(Detached(j))
  BY ChancesTypes DEF ChancesFinite, Budgeted

\* At first no message is in the queue and no handler has one, and each id may be
\* sent once.
LEMMA InitialChances ==
    ASSUME Init
    PROVE  CapInv /\ ReturnInv /\ HeldInv /\ \A j \in Jobs : Budgeted(j)
<1>1. /\ \A w \in Workers : pc[w] = "idle"
      /\ queue = <<>> /\ dedup = {} /\ faults = 0 /\ \A j \in Jobs : runs[j] = 0
  BY DEF Init, WorkerInit, QueueInit
<1>2. \A w \in Workers : ~Busy(w) /\ ~BeforeRun(w) /\ ~Updating(w)
  BY <1>1 DEF Busy, BeforeRun, Updating
<1>3. Len(queue) = 0
  BY <1>1
<1>4. CapInv
  BY <1>1, <1>2, <1>3 DEF CapInv
<1>5. ReturnInv
  BY <1>1, <1>2 DEF ReturnInv
<1>6. HeldInv
  BY <1>1, <1>2 DEF HeldInv
<1>7. ASSUME NEW j \in Jobs PROVE Budgeted(j)
  <2>1. Unsent(j) = 0..MaxRetry
    BY <1>1 DEF Unsent
  <2>2. Waiting(j) = {} /\ Detached(j) = {}
    BY <1>2, <1>3 DEF Waiting, Detached
  <2>3. Cardinality(Unsent(j)) = MaxRetry + 1
    BY <2>1, FS_Interval, MaxRetryAssumption
  <2>4. IsFiniteSet(Detached(j)) /\ Cardinality(Waiting(j)) = 0 /\ Cardinality(Detached(j)) = 0
    BY <2>2, FS_EmptySet
  <2> QED
    BY <1>1, <2>3, <2>4, MaxRetryAssumption DEF Budgeted, Chances
<1> QED
  BY <1>4, <1>5, <1>6, <1>7

-----------------------------------------------------------------------------
(* The faults.                                                             *)

\* Faults are counted one by one.
FaultsGrow == faults' \in {faults, faults + 1}

\* Every step is a fault or none.
LEMMA FaultsStep ==
    ASSUME [Next]_vars
    PROVE  FaultsGrow
<1> USE DEF FaultsGrow, Fault, NoFault
<1>1. ASSUME NEW j \in Jobs, ServiceStep(j) PROVE FaultsGrow
  <2>1. CASE PresignInputs(j) \/ UploadInputs(j)
    BY <2>1 DEF PresignInputs, UploadInputs
  <2>2. CASE RecordQueued(j)
    BY <2>2 DEF RecordQueued
  <2>3. CASE PublishRequest(j) \/ PublishDirectly(j)
    BY <2>3 DEF PublishRequest, PublishDirectly
  <2> QED
    BY <1>1, <2>1, <2>2, <2>3 DEF ServiceStep
<1>2. ASSUME NEW w \in Workers, HandlerStep(w) PROVE FaultsGrow
  <2>1. CASE Receive(w) \/ HandleMessage(w) \/ CheckTerminal(w)
    BY <2>1 DEF Receive, HandleMessage, CheckTerminal
  <2>2. CASE StatusGet(w) \/ StatusSet(w)
    BY <2>2 DEF StatusGet, StatusSet
  <2>3. CASE DownloadInputs(w) \/ ExecuteTask(w)
    BY <2>3 DEF DownloadInputs, ExecuteTask
  <2>4. CASE UploadOutputs(w) \/ Cleanup(w)
    BY <2>4 DEF UploadOutputs, Cleanup
  <2>5. CASE RecordFailure(w) \/ Republish(w)
    BY <2>5 DEF RecordFailure, Republish
  <2>6. CASE GiveUp(w) \/ Ack(w)
    BY <2>6 DEF GiveUp, Ack
  <2> QED
    BY <1>2, <2>1, <2>2, <2>3, <2>4, <2>5, <2>6 DEF HandlerStep
<1>3. CASE EnvironmentStep
  <2>1. CASE DedupWindowEnds \/ RedisRestart \/ \E j \in Jobs : TtlElapses(j)
    BY <2>1 DEF DedupWindowEnds, RedisRestart, TtlElapses
  <2>2. ASSUME NEW w \in Workers, VisibilityTimeout(w) \/ DlqLost(w) \/ Crash(w) \/ Restart(w)
        PROVE  FaultsGrow
    BY <2>2 DEF VisibilityTimeout, DlqLost, Crash, Restart
  <2> QED
    BY <1>3, <2>1, <2>2 DEF EnvironmentStep
<1>4. CASE UNCHANGED vars
  BY <1>4 DEF vars
<1> QED
  BY <1>1, <1>2, <1>3, <1>4 DEF Next

-----------------------------------------------------------------------------
(* What may still make a task run.                                         *)

\* A step gives a job u unsent ids, q messages and d handlers more, and what they
\* and the executions of the step add up to is paid for by faults.
Paid(j, u, q, d) == runs'[j] + u + q + d + faults <= runs[j] + faults'

\* The account of a job.
LEMMA Balance ==
    ASSUME TypeOK, TypeOK', NEW j \in Jobs, Budgeted(j),
           NEW u \in Int, Gains(Unsent(j)', Unsent(j), u),
           NEW q \in Int, Gains(Waiting(j)', Waiting(j), q),
           NEW d \in Int, Gains(Detached(j)', Detached(j), d),
           Paid(j, u, q, d)
    PROVE  Budgeted(j)'
<1>0. ChancesFinite /\ ChancesFinite'
  BY ChancesTypes, PTL
<1>1. Cardinality(Unsent(j)) \in Nat /\ Cardinality(Waiting(j)) \in Nat /\ runs[j] \in Nat /\ faults \in Nat
  BY <1>0 DEF ChancesFinite
<1>2. Cardinality(Unsent(j)') \in Nat /\ Cardinality(Waiting(j)') \in Nat /\ runs'[j] \in Nat /\ faults' \in Nat
  BY <1>0 DEF ChancesFinite
<1>3. Cardinality(Detached(j)) \in Nat /\ Cardinality(Detached(j)') \in Nat
  BY FS_CardinalityType DEF Budgeted, Gains
<1> QED
  BY <1>1, <1>2, <1>3, MaxRetryAssumption DEF Budgeted, Chances, Gains, Paid

\* An execution is paid for by a chance.
LEMMA Payment ==
    ASSUME TypeOK, NEW j \in Jobs, FaultsGrow, NEW u \in Int, NEW q \in Int, NEW d \in Int,
           NEW e \in Int, runs'[j] = runs[j] + e, u + q + d + e <= 0
    PROVE  Paid(j, u, q, d)
<1>1. runs[j] \in Nat /\ faults \in Nat
  BY ChancesTypes DEF ChancesFinite
<1> QED
  BY <1>1 DEF Paid, FaultsGrow

\* A step that runs no task need not pay.
LEMMA NothingToPay ==
    ASSUME TypeOK, NEW j \in Jobs, FaultsGrow, runs'[j] = runs[j]
    PROVE  Paid(j, 0, 0, 0)
<1>1. runs[j] \in Nat /\ faults \in Nat
  BY ChancesTypes DEF ChancesFinite
<1> QED
  BY <1>1 DEF Paid, FaultsGrow

\* A step that adds no chance and runs no task.
LEMMA NoneAdded ==
    ASSUME TypeOK, TypeOK', NEW j \in Jobs, Budgeted(j),
           Unsent(j)' \subseteq Unsent(j), Waiting(j)' \subseteq Waiting(j),
           Detached(j)' \subseteq Detached(j), runs'[j] = runs[j], FaultsGrow
    PROVE  Budgeted(j)'
<1>1. Gains(Unsent(j)', Unsent(j), 0) /\ Gains(Waiting(j)', Waiting(j), 0)
  BY JobChances, NoMore
<1>2. Gains(Detached(j)', Detached(j), 0)
  BY JobChances, NoMore
<1>3. Paid(j, 0, 0, 0)
  BY NothingToPay
<1> QED
  BY <1>1, <1>2, <1>3, Balance

\* A fault may add one chance.
LEMMA OneAdded ==
    ASSUME TypeOK, TypeOK', NEW j \in Jobs, Budgeted(j), NEW x,
           \/ /\ Unsent(j)' \subseteq Unsent(j) \cup {x}
              /\ Waiting(j)' \subseteq Waiting(j) /\ Detached(j)' \subseteq Detached(j)
           \/ /\ Unsent(j)' \subseteq Unsent(j)
              /\ Waiting(j)' \subseteq Waiting(j) \cup {x} /\ Detached(j)' \subseteq Detached(j)
           \/ /\ Unsent(j)' \subseteq Unsent(j)
              /\ Waiting(j)' \subseteq Waiting(j) /\ Detached(j)' \subseteq Detached(j) \cup {x},
           runs'[j] = runs[j], faults' = faults + 1
    PROVE  Budgeted(j)'
<1>1. PICK u \in {0, 1}, q \in {0, 1}, d \in {0, 1} :
        /\ Unsent(j)' \subseteq Unsent(j) \cup {x} /\ (u = 0 => Unsent(j)' \subseteq Unsent(j))
        /\ Waiting(j)' \subseteq Waiting(j) \cup {x} /\ (q = 0 => Waiting(j)' \subseteq Waiting(j))
        /\ Detached(j)' \subseteq Detached(j) \cup {x} /\ (d = 0 => Detached(j)' \subseteq Detached(j))
        /\ u + q + d <= 1
  OBVIOUS
<1>2. Gains(Unsent(j)', Unsent(j), u)
  BY Zenon, <1>1, JobChances, AtMostOneMore
<1>3. Gains(Waiting(j)', Waiting(j), q)
  BY Zenon, <1>1, JobChances, AtMostOneMore
<1>4. Gains(Detached(j)', Detached(j), d)
  BY Zenon, <1>1, JobChances, AtMostOneMore
<1>5. Paid(j, u, q, d)
  <2>1. runs[j] \in Nat /\ faults \in Nat
    BY ChancesTypes DEF ChancesFinite
  <2> QED
    BY <1>1, <2>1 DEF Paid
<1>6. u \in Int /\ q \in Int /\ d \in Int
  BY <1>1
<1> QED
  BY <1>2, <1>3, <1>4, <1>5, <1>6, Balance

\* A message that SQS accepts is one that had not been sent before.
LEMMA SendBudgeted ==
    ASSUME TypeOK, TypeOK', NEW j \in Jobs, Budgeted(j), NEW m, Sends(m),
           HeadIsSpent => HeadIsSpent', Detached(j)' \subseteq Detached(j),
           runs'[j] = runs[j], FaultsGrow
    PROVE  Budgeted(j)'
<1>0. dedup' = dedup \cup {m} /\ m \in Message /\ m.try \in 0..MaxRetry
  BY DEF Sends, SendMessage, Message
<1>1. Unsent(j)' \subseteq Unsent(j)
  BY <1>0 DEF Unsent
<1>2. CASE m \in dedup
  <2>1. queue' = queue
    BY <1>2 DEF Sends, SendMessage
  <2>2. Waiting(j)' \subseteq Waiting(j)
    BY <2>1 DEF Waiting
  <2> QED
    BY <1>1, <2>2, NoneAdded
<1>3. ASSUME m \notin dedup
      PROVE  /\ Len(queue) \in Nat /\ Len(queue') = Len(queue) + 1
             /\ \A i \in 1..Len(queue) : queue'[i] = queue[i]
             /\ queue'[Len(queue) + 1] = m
  BY <1>0, <1>3 DEF Sends, SendMessage, TypeOK, QueueTypeOK
<1>4. ASSUME m \notin dedup, NEW i \in Waiting(j)', i # Len(queue) + 1
      PROVE  i \in Waiting(j)
  <2>1. i \in 1..Len(queue) /\ queue'[i].job = j /\ ~(i = 1 /\ HeadIsSpent')
    BY <1>3, <1>4 DEF Waiting
  <2> QED
    BY <1>3, <1>4, <2>1 DEF Waiting
<1>5. CASE m \notin dedup /\ m.job # j
  <2>1. Len(queue) + 1 \notin Waiting(j)'
    BY <1>3, <1>5 DEF Waiting
  <2>2. Waiting(j)' \subseteq Waiting(j)
    BY <1>4, <1>5, <2>1
  <2> QED
    BY <1>1, <2>2, NoneAdded
<1>6. CASE m \notin dedup /\ m.job = j
  <2>1. m = [job |-> j, try |-> m.try]
    BY <1>0, <1>6 DEF Message
  <2>2. m.try \in Unsent(j) /\ Unsent(j)' \subseteq Unsent(j) \ {m.try}
    BY <1>0, <1>1, <1>6, <2>1 DEF Unsent
  <2>3. Gains(Unsent(j)', Unsent(j), -1)
    BY <2>2, JobChances, OneLess
  <2>4. Waiting(j)' \subseteq Waiting(j) \cup {Len(queue) + 1}
    BY <1>4, <1>6
  <2>5. Gains(Waiting(j)', Waiting(j), 1)
    BY <2>4, JobChances, OneMore
  <2>6. Gains(Detached(j)', Detached(j), 0)
    BY JobChances, NoMore
  <2>7. Paid(j, -1, 1, 0)
    <3>1. runs[j] \in Nat /\ faults \in Nat
      BY ChancesTypes DEF ChancesFinite
    <3> QED
      BY <3>1 DEF Paid, FaultsGrow
  <2> QED
    BY <2>3, <2>5, <2>6, <2>7, Balance
<1> QED
  BY <1>2, <1>5, <1>6

-----------------------------------------------------------------------------
(* The steps of a handler.                                                 *)

\* A handler that is past its task stays past it.
LEMMA GoesOn ==
    ASSUME TypeOK, ReturnInv, NEW w \in Workers, QuietStep(w) \/ StatusSet(w) \/ Republish(w)
    PROVE  /\ Busy(w) /\ Busy(w)' /\ (BeforeRun(w)' => BeforeRun(w))
           /\ holder' = holder /\ msg'[w] = msg[w]
<1> USE DEF TypeOK, WorkerTypeOK, At, Goto, CallSetJobStatus, Busy, BeforeRun, Updating, localVars
<1>1. CASE HandleMessage(w)
  BY <1>1 DEF HandleMessage, queueVars
<1>2. CASE CheckTerminal(w)
  BY <1>2 DEF CheckTerminal, BeginJob, queueVars
<1>3. CASE StatusGet(w)
  BY <1>3 DEF StatusGet, queueVars
<1>4. CASE StatusSet(w)
  BY <1>4 DEF StatusSet, ReturnInv, queueVars
<1>5. CASE DownloadInputs(w)
  BY <1>5 DEF DownloadInputs, queueVars
<1>6. CASE ExecuteTask(w)
  BY <1>6 DEF ExecuteTask, queueVars
<1>7. CASE UploadOutputs(w)
  BY <1>7 DEF UploadOutputs, statusVars, queueVars
<1>8. CASE Cleanup(w)
  BY <1>8 DEF Cleanup, queueVars
<1>9. CASE RecordFailure(w)
  BY <1>9 DEF RecordFailure, statusVars, queueVars
<1>10. CASE Republish(w)
  BY <1>10 DEF Republish, SendMessage, statusVars, queueVars
<1>11. CASE GiveUp(w)
  BY <1>11 DEF GiveUp, queueVars
<1> QED
  BY <1>1, <1>2, <1>3, <1>4, <1>5, <1>6, <1>7, <1>8, <1>9, <1>10, <1>11 DEF QuietStep

\* So none of these steps adds a chance by the place of a handler.
LEMMA GoesOnChances ==
    ASSUME TypeOK, ReturnInv, NEW w \in Workers, QuietStep(w) \/ StatusSet(w) \/ Republish(w),
           NEW j \in Jobs
    PROVE  (HeadIsSpent => HeadIsSpent') /\ Detached(j)' \subseteq Detached(j)
<1>1. Others(w)
  BY OthersKept DEF QuietStep, HandlerStep
<1>2. /\ Busy(w) /\ Busy(w)' /\ (BeforeRun(w)' => BeforeRun(w))
      /\ holder' = holder /\ msg'[w] = msg[w]
  BY GoesOn
<1>3. \A v \in Workers \ {w} :
        /\ Busy(v)' = Busy(v) /\ BeforeRun(v)' = BeforeRun(v) /\ Job(v)' = Job(v)
  BY <1>1 DEF Others, Busy, BeforeRun, Updating, Job
<1>4. HeadIsSpent => HeadIsSpent'
  BY Zenon, <1>2, <1>3 DEF HeadIsSpent
<1>5. Job(w)' = Job(w)
  BY <1>2 DEF Job
<1>6. Detached(j)' \subseteq Detached(j)
  BY <1>2, <1>3, <1>5 DEF Detached
<1> QED
  BY <1>4, <1>6

\* Nothing outside happens: the documents and the files do not count.
LEMMA QuietBudgeted ==
    ASSUME TypeOK, TypeOK', ReturnInv, NEW j \in Jobs, Budgeted(j),
           NEW w \in Workers, QuietStep(w) \/ StatusSet(w), ~ExecuteTask(w), FaultsGrow
    PROVE  Budgeted(j)'
<1>1. UNCHANGED <<queue, dedup, runs>>
  <2>1. UNCHANGED queueVars
    BY QuietEffect DEF StatusSet
  <2>2. UNCHANGED runs
    <3> USE DEF effectVars
    <3>1. CASE HandleMessage(w) \/ CheckTerminal(w) \/ StatusGet(w) \/ StatusSet(w)
      BY <3>1 DEF HandleMessage, CheckTerminal, StatusGet, StatusSet
    <3>2. CASE DownloadInputs(w) \/ UploadOutputs(w) \/ Cleanup(w)
      BY <3>2 DEF DownloadInputs, UploadOutputs, Cleanup
    <3>3. CASE RecordFailure(w) \/ GiveUp(w)
      BY <3>3 DEF RecordFailure, GiveUp
    <3> QED
      BY <3>1, <3>2, <3>3 DEF QuietStep
  <2> QED
    BY <2>1, <2>2 DEF queueVars
<1>2. Unsent(j)' = Unsent(j)
  BY <1>1 DEF Unsent
<1>3. (HeadIsSpent => HeadIsSpent') /\ Detached(j)' \subseteq Detached(j)
  BY GoesOnChances
<1>4. Waiting(j)' \subseteq Waiting(j)
  BY <1>1, <1>3 DEF Waiting
<1> QED
  BY <1>1, <1>2, <1>3, <1>4, NoneAdded

\* An execution uses up the handler's message, or the handler itself when
\* others have got its message.
LEMMA ExecuteBudgeted ==
    ASSUME TypeOK, TypeOK', ReturnInv, HeldInv, NEW j \in Jobs, Budgeted(j),
           NEW w \in Workers, ExecuteTask(w)
    PROVE  Budgeted(j)'
<1>1. pc[w] = "execute" /\ pc'[w] \in {"upload", "record"} /\ UNCHANGED queueVars
  BY DEF ExecuteTask, At, Goto, TypeOK, WorkerTypeOK
<1>0. FaultsGrow /\ (IF Job(w) = j THEN runs'[j] = runs[j] + 1 ELSE runs'[j] = runs[j])
  BY DEF ExecuteTask, Execute, NoFault, FaultsGrow, TypeOK, WorkerTypeOK
<1>2. Busy(w) /\ BeforeRun(w) /\ Busy(w)' /\ ~BeforeRun(w)' /\ holder' = holder
  BY <1>1 DEF Busy, BeforeRun, Updating, queueVars
<1>3. Unsent(j)' \subseteq Unsent(j)
  BY <1>1 DEF Unsent, queueVars
<1>4. (HeadIsSpent => HeadIsSpent') /\ Detached(j)' \subseteq Detached(j)
  BY GoesOnChances DEF QuietStep
<1>5. Waiting(j)' \subseteq Waiting(j)
  BY <1>1, <1>4 DEF Waiting, queueVars
<1>6. CASE Job(w) # j
  BY <1>0, <1>3, <1>4, <1>5, <1>6, NoneAdded
<1>7. CASE Job(w) = j /\ holder = w
  <2>1. ~HeadIsSpent /\ HeadIsSpent'
    BY <1>2, <1>7 DEF HeadIsSpent
  <2>2. 1 \in 1..Len(queue) /\ queue[1] = msg[w]
    BY <1>2, <1>7, HeadTypes, QueueAssumption DEF HeldInv, TypeOK, QueueTypeOK
  <2>3. 1 \in Waiting(j) /\ Waiting(j)' \subseteq Waiting(j) \ {1}
    BY <1>1, <1>5, <1>7, <2>1, <2>2 DEF Waiting, Job, queueVars
  <2>4. Gains(Waiting(j)', Waiting(j), -1)
    BY <2>3, JobChances, OneLess
  <2>5. Gains(Unsent(j)', Unsent(j), 0) /\ Gains(Detached(j)', Detached(j), 0)
    BY <1>3, <1>4, JobChances, NoMore
  <2>6. Paid(j, 0, -1, 0)
    BY <1>0, <1>7, Payment
  <2> QED
    BY <2>4, <2>5, <2>6, Balance
<1>8. CASE Job(w) = j /\ holder # w
  <2>1. w \in Detached(j) /\ w \notin Detached(j)'
    BY <1>2, <1>8 DEF Detached
  <2>2. Detached(j)' \subseteq Detached(j) \ {w}
    BY <1>4, <2>1
  <2>3. Gains(Detached(j)', Detached(j), -1)
    BY <2>1, <2>2, JobChances, OneLess
  <2>4. Gains(Unsent(j)', Unsent(j), 0) /\ Gains(Waiting(j)', Waiting(j), 0)
    BY <1>3, <1>5, JobChances, NoMore
  <2>5. Paid(j, 0, 0, -1)
    BY <1>0, <1>8, Payment
  <2> QED
    BY <2>3, <2>4, <2>5, Balance
<1> QED
  BY <1>6, <1>7, <1>8

\* The places of the other handlers do not change.
LEMMA OthersChances ==
    ASSUME NEW w \in Workers, Others(w), NEW v \in Workers, v # w
    PROVE  Busy(v)' = Busy(v) /\ BeforeRun(v)' = BeforeRun(v) /\ Job(v)' = Job(v)
  BY DEF Others, Busy, BeforeRun, Updating, Job

\* A message that is received is in the hands of a handler before its task.
LEMMA ReceiveBudgeted ==
    ASSUME TypeOK, TypeOK', NEW j \in Jobs, Budgeted(j), NEW w \in Workers, Receive(w),
           FaultsGrow
    PROVE  Budgeted(j)'
<1>1. /\ UNCHANGED <<queue, dedup, runs>>
      /\ holder = NoWorker /\ holder' = w /\ pc'[w] = "received"
  BY DEF Receive, ReceiveMessage, Goto, effectVars, TypeOK, WorkerTypeOK
<1>2. ~HeadIsSpent /\ ~HeadIsSpent'
  BY <1>1, QueueAssumption DEF HeadIsSpent, BeforeRun
<1>3. Unsent(j)' \subseteq Unsent(j) /\ Waiting(j)' \subseteq Waiting(j)
  BY <1>1, <1>2 DEF Unsent, Waiting
<1>4. Others(w)
  BY OthersKept DEF HandlerStep
<1>5. Detached(j)' \subseteq Detached(j)
  BY <1>1, <1>4, OthersChances, QueueAssumption DEF Detached
<1> QED
  BY <1>1, <1>3, <1>5, NoneAdded

\* Deleting a message takes nothing away: its handler was past the task.  A
\* delete that is lost brings the message back.
LEMMA AckBudgeted ==
    ASSUME TypeOK, TypeOK', NEW j \in Jobs, Budgeted(j), NEW w \in Workers, Ack(w), FaultsGrow
    PROVE  Budgeted(j)'
<1>1. pc[w] = "ack" /\ pc'[w] = "idle" /\ dedup' = dedup /\ runs' = runs
  BY DEF Ack, At, EndHandler, Goto, DeleteMessage, queueVars, effectVars, TypeOK, WorkerTypeOK
<1>2. Busy(w) /\ ~BeforeRun(w) /\ ~BeforeRun(w)'
  BY <1>1 DEF Busy, BeforeRun, Updating
<1>3. Others(w)
  BY OthersKept DEF HandlerStep
<1>4. Unsent(j)' \subseteq Unsent(j)
  BY <1>1 DEF Unsent
<1>5. CASE holder # w
  <2>1. UNCHANGED <<queue, holder>>
    BY <1>5 DEF Ack, DeleteMessage, queueVars
  <2>2. HeadIsSpent => HeadIsSpent'
    BY <1>3, <1>5, <2>1, OthersChances DEF HeadIsSpent
  <2>3. Waiting(j)' \subseteq Waiting(j)
    BY <2>1, <2>2 DEF Waiting
  <2>4. Detached(j)' \subseteq Detached(j)
    BY <1>2, <1>3, <2>1, OthersChances DEF Detached
  <2> QED
    BY <1>1, <1>4, <2>3, <2>4, NoneAdded
<1>6. ASSUME holder = w PROVE Detached(j)' \subseteq Detached(j)
  BY <1>2, <1>3, <1>6, OthersChances DEF Detached
<1>7. CASE holder = w /\ NoFault /\ DeleteMessage(w)
  <2>1. queue # <<>> /\ queue' = Tail(queue) /\ holder' = NoWorker
    BY <1>7, QueueAssumption DEF DeleteMessage, TypeOK, QueueTypeOK
  <2>2. HeadIsSpent /\ ~HeadIsSpent'
    BY <1>2, <1>7, <2>1, QueueAssumption DEF HeadIsSpent
  <2>3. /\ \A i \in 1..Len(queue) : i = 1 \/ (i - 1 \in 1..Len(queue') /\ queue'[i - 1] = queue[i])
        /\ \A i \in 1..Len(queue') : i + 1 \in 1..Len(queue) /\ queue'[i] = queue[i + 1]
    BY <2>1, TailEffect DEF TypeOK, QueueTypeOK
  <2>4. Waiting(j) \subseteq Nat /\ 0 \notin Waiting(j)
    BY DEF Waiting
  <2>5. ASSUME NEW i \in Nat PROVE i \in Waiting(j)' <=> i + 1 \in Waiting(j)
    <3>1. ASSUME i \in Waiting(j)' PROVE i + 1 \in Waiting(j)
      <4>1. i \in 1..Len(queue') /\ queue'[i].job = j
        BY <3>1 DEF Waiting
      <4>2. i + 1 \in 1..Len(queue) /\ queue[i + 1].job = j /\ i + 1 # 1
        BY <2>3, <4>1
      <4> QED
        BY <4>2 DEF Waiting
    <3>2. ASSUME i + 1 \in Waiting(j) PROVE i \in Waiting(j)'
      <4>1. i + 1 \in 1..Len(queue) /\ queue[i + 1].job = j /\ i + 1 # 1 /\ (i + 1) - 1 = i
        BY <2>2, <3>2 DEF Waiting
      <4>2. i \in 1..Len(queue') /\ queue'[i].job = j
        BY <2>3, <4>1
      <4> QED
        BY <2>2, <4>2 DEF Waiting
    <3> QED
      BY <3>1, <3>2
  <2>6. Waiting(j)' = {i \in Nat : i + 1 \in Waiting(j)}
    <3>1. Waiting(j)' \subseteq Nat
      BY DEF Waiting
    <3> QED
      BY <2>5, <3>1
  <2>7. Gains(Waiting(j)', Waiting(j), 0)
    BY <2>4, <2>6, JobChances, ShiftedPlaces
  <2>8. Gains(Unsent(j)', Unsent(j), 0) /\ Gains(Detached(j)', Detached(j), 0)
    BY <1>4, <1>6, <1>7, JobChances, NoMore
  <2>9. Paid(j, 0, 0, 0)
    BY <1>1, NothingToPay
  <2> QED
    BY <2>7, <2>8, <2>9, Balance
<1>8. CASE holder = w /\ Fault("delete") /\ UNCHANGED queueVars
  <2>1. Waiting(j)' \subseteq Waiting(j) \cup {1}
    BY <1>8 DEF Waiting, queueVars
  <2>2. faults' = faults + 1
    BY <1>8 DEF Fault
  <2> QED
    BY <1>1, <1>4, <1>6, <1>8, <2>1, <2>2, OneAdded
<1> QED
  BY <1>5, <1>7, <1>8 DEF Ack

\* All steps of a handler.
LEMMA HandlerBudgeted ==
    ASSUME TypeOK, TypeOK', CapInv, ReturnInv, HeldInv, NEW j \in Jobs, Budgeted(j),
           NEW w \in Workers, HandlerStep(w), FaultsGrow
    PROVE  Budgeted(j)'
<1>1. CASE Republish(w)
  <2>1. runs' = runs
    BY <1>1 DEF Republish, effectVars
  <2>2. (HeadIsSpent => HeadIsSpent') /\ Detached(j)' \subseteq Detached(j)
    BY <1>1, GoesOnChances
  <2>3. CASE UNCHANGED queueVars
    <3>1. Unsent(j)' \subseteq Unsent(j) /\ Waiting(j)' \subseteq Waiting(j)
      BY <2>2, <2>3 DEF Unsent, Waiting, queueVars
    <3> QED
      BY <2>1, <2>2, <3>1, NoneAdded
  <2>4. CASE Sends(RetryMessage(w))
    BY <2>1, <2>2, <2>4, SendBudgeted
  <2> QED
    BY <1>1, <2>3, <2>4, RepublishSends
<1> QED
  BY <1>1, ReceiveBudgeted, QuietBudgeted, ExecuteBudgeted, AckBudgeted DEF HandlerStep, QuietStep

-----------------------------------------------------------------------------
(* The services and the environment.                                       *)

\* A service sends each job's first message once.
LEMMA ServiceBudgeted ==
    ASSUME TypeOK, TypeOK', NEW j \in Jobs, Budgeted(j), NEW k \in Jobs, ServiceStep(k),
           FaultsGrow
    PROVE  Budgeted(j)'
<1>1. UNCHANGED <<pc, msg, ret, runs>>
  BY DEF ServiceStep, PresignInputs, RecordQueued, PublishRequest, PublishDirectly, UploadInputs,
         workerVars
<1>2. holder' = holder
  BY DEF ServiceStep, PresignInputs, RecordQueued, PublishRequest, PublishDirectly, UploadInputs,
         SendMessage, queueVars
<1>3. (HeadIsSpent => HeadIsSpent') /\ Detached(j)' \subseteq Detached(j)
  BY <1>1, <1>2 DEF HeadIsSpent, Detached, Busy, BeforeRun, Updating, Job
<1>4. CASE UNCHANGED queueVars
  <2>1. Unsent(j)' \subseteq Unsent(j) /\ Waiting(j)' \subseteq Waiting(j)
    BY <1>3, <1>4 DEF Unsent, Waiting, queueVars
  <2> QED
    BY <1>1, <1>3, <2>1, NoneAdded
<1>5. CASE Sends(FirstMessage(k))
  BY <1>1, <1>3, <1>5, SendBudgeted
<1> QED
  BY <1>4, <1>5, ServiceSends

\* A message that becomes visible under a live handler leaves that handler with
\* its chance, or brings the message back that it has done with.
LEMMA TimeoutBudgeted ==
    ASSUME TypeOK, TypeOK', NEW j \in Jobs, Budgeted(j), NEW w \in Workers, VisibilityTimeout(w),
           FaultsGrow
    PROVE  Budgeted(j)'
<1>1. /\ holder = w /\ holder' = NoWorker
      /\ UNCHANGED <<queue, dedup, pc, msg, ret, runs>>
      /\ (~Busy(w) /\ faults' = faults) \/ (Busy(w) /\ faults' = faults + 1)
  BY DEF VisibilityTimeout, MakeVisible, Fault, NoFault, workerVars
<1>2. \A v \in Workers : Busy(v)' = Busy(v) /\ BeforeRun(v)' = BeforeRun(v) /\ Job(v)' = Job(v)
  BY <1>1 DEF Busy, BeforeRun, Updating, Job
<1>3. Unsent(j)' \subseteq Unsent(j)
  BY <1>1 DEF Unsent
<1>4. Waiting(j)' \subseteq Waiting(j) \cup {1}
  BY <1>1 DEF Waiting
<1>5. ASSUME ~Busy(w) \/ BeforeRun(w) PROVE Waiting(j)' \subseteq Waiting(j)
  <2>1. ~HeadIsSpent
    BY <1>1, <1>5 DEF HeadIsSpent
  <2> QED
    BY <1>1, <2>1 DEF Waiting
<1>6. Detached(j)' \subseteq Detached(j) \cup {w}
  BY <1>1, <1>2 DEF Detached
<1>7. ASSUME ~BeforeRun(w) PROVE Detached(j)' \subseteq Detached(j)
  BY <1>2, <1>6, <1>7 DEF Detached
<1>8. CASE ~Busy(w)
  <2>1. ~BeforeRun(w)
    BY <1>8 DEF Busy, BeforeRun, Updating
  <2> QED
    BY <1>1, <1>3, <1>5, <1>7, <1>8, <2>1, NoneAdded
<1>9. CASE Busy(w) /\ BeforeRun(w)
  BY <1>1, <1>3, <1>5, <1>6, <1>9, OneAdded
<1>10. CASE Busy(w) /\ ~BeforeRun(w)
  BY <1>1, <1>3, <1>4, <1>7, <1>10, OneAdded
<1> QED
  BY <1>8, <1>9, <1>10

\* A crash may bring the message back; a restart and losses of documents and
\* files do not.
LEMMA ProcessBudgeted ==
    ASSUME TypeOK, TypeOK', NEW j \in Jobs, Budgeted(j), NEW w \in Workers, Crash(w) \/ Restart(w),
           FaultsGrow
    PROVE  Budgeted(j)'
<1>1. UNCHANGED queueVars /\ runs' = runs /\ ~BeforeRun(w)'
  BY DEF Crash, Restart, EndHandler, Goto, BeforeRun, Updating, effectVars, TypeOK, WorkerTypeOK
<1>2. Others(w)
  BY OthersKept
<1>3. Unsent(j)' \subseteq Unsent(j)
  BY <1>1 DEF Unsent, queueVars
<1>4. Detached(j)' \subseteq Detached(j)
  BY <1>1, <1>2, OthersChances DEF Detached, queueVars
<1>5. CASE Crash(w)
  <2>1. faults' = faults + 1
    BY <1>5 DEF Crash, Fault
  <2>2. Waiting(j)' \subseteq Waiting(j) \cup {1}
    BY <1>1 DEF Waiting, queueVars
  <2> QED
    BY <1>1, <1>3, <1>4, <2>1, <2>2, OneAdded
<1>6. CASE Restart(w)
  <2>1. ~Busy(w)
    BY <1>6 DEF Restart, At, Busy
  <2>2. HeadIsSpent => HeadIsSpent'
    BY <1>1, <1>2, <2>1, OthersChances DEF HeadIsSpent, queueVars
  <2>3. Waiting(j)' \subseteq Waiting(j)
    BY <1>1, <2>2 DEF Waiting, queueVars
  <2> QED
    BY <1>1, <1>3, <1>4, <2>3, NoneAdded
<1> QED
  BY <1>5, <1>6

\* A deduplication id that is forgotten may be sent once more.
LEMMA EnvironmentBudgeted ==
    ASSUME TypeOK, TypeOK', NEW j \in Jobs, Budgeted(j), EnvironmentStep, FaultsGrow
    PROVE  Budgeted(j)'
<1>1. ASSUME UNCHANGED <<queue, holder, workerVars>>
      PROVE  Waiting(j)' \subseteq Waiting(j) /\ Detached(j)' \subseteq Detached(j) /\ runs' = runs
  BY <1>1 DEF Waiting, Detached, HeadIsSpent, Busy, BeforeRun, Updating, Job, workerVars
<1>2. CASE DedupWindowEnds
  <2>1. PICK m \in dedup : Forget(m)
    BY <1>2 DEF DedupWindowEnds
  <2>2. faults' = faults + 1 /\ UNCHANGED <<queue, holder, workerVars>> /\ dedup' = dedup \ {m}
    BY <1>2, <2>1 DEF DedupWindowEnds, Fault, Forget
  <2>3. Unsent(j)' \subseteq Unsent(j) \cup {m.try}
    BY <2>2 DEF Unsent
  <2> QED
    BY <1>1, <2>2, <2>3, OneAdded
<1>3. CASE RedisRestart \/ (\E k \in Jobs : TtlElapses(k)) \/ (\E w \in Workers : DlqLost(w))
  <2>1. UNCHANGED <<queueVars, workerVars>>
    BY <1>3 DEF RedisRestart, TtlElapses, DlqLost
  <2>2. Unsent(j)' \subseteq Unsent(j)
    BY <2>1 DEF Unsent, queueVars
  <2> QED
    BY <1>1, <2>1, <2>2, NoneAdded DEF queueVars
<1> QED
  BY <1>2, <1>3, TimeoutBudgeted, ProcessBudgeted DEF EnvironmentStep

-----------------------------------------------------------------------------
(* The theorem.                                                            *)

\* Whatever faults occur, and however handlers and redeliveries interleave: no
\* message carries a count above dlq_max_retry_count, and the task of a job is
\* executed at most once for each allowed attempt and once for each fault.
THEOREM RetriesWithinBudget == Spec => []RetryBudget
<1> DEFINE Inv == CapInv /\ ReturnInv /\ HeldInv /\ ChancesInv
<1>1. Init => Inv
  BY InitialChances DEF ChancesInv
<1>2. TypeOK /\ TypeOK' /\ Inv /\ [Next]_vars => Inv'
  <2> SUFFICES ASSUME TypeOK, TypeOK', Inv, [Next]_vars PROVE Inv'
    OBVIOUS
  <2>1. CapInv' /\ ReturnInv' /\ HeldInv'
    BY CapStep, ReturnStep, HeldStep
  <2>2. ASSUME NEW j \in Jobs, UNCHANGED vars PROVE Budgeted(j)'
    BY <2>2 DEF ChancesInv, Budgeted, Chances, Unsent, Waiting, Detached, HeadIsSpent, Busy,
                BeforeRun, Updating, Job, vars
  <2>3. ASSUME NEW j \in Jobs PROVE Budgeted(j)'
    BY <2>2, <2>3, FaultsStep, ServiceBudgeted, HandlerBudgeted, EnvironmentBudgeted
       DEF ChancesInv, Next
  <2> QED
    BY <2>1, <2>3 DEF ChancesInv
<1>3. TypeOK /\ Inv => RetryBudget
  <2> SUFFICES ASSUME TypeOK, Inv, NEW j \in Jobs PROVE runs[j] <= MaxRetry + 1 + faults
    BY DEF RetryBudget, CapInv
  <2>1. ChancesFinite /\ Budgeted(j) /\ Cardinality(Detached(j)) \in Nat
    BY ChancesTypes, FS_CardinalityType DEF ChancesInv, Budgeted
  <2> QED
    BY <2>1, MaxRetryAssumption DEF ChancesFinite, Budgeted, Chances
<1> QED
  BY <1>1, <1>2, <1>3, TypeCorrect, PTL DEF Spec

=============================================================================
