---------------------------- MODULE AttemptProofs ---------------------------
(***************************************************************************)
(* Proofs about one job's handler: JobAttempt.                             *)
(***************************************************************************)
EXTENDS JobAttempt, TLAPS

(* The configuration.                                                      *)

\* The conversion to int stays within an int, and keeps what is within it.
LEMMA ToIntRange ==
    ASSUME NEW n \in Int
    PROVE  /\ ToInt(n) \in -(IntValues \div 2) .. IntValues \div 2 - 1
           /\ n \in 0 .. IntValues \div 2 - 1 => ToInt(n) = n
<1> DEFINE half == IntValues \div 2
<1>1. half \in Nat /\ IntValues = 2 * half /\ half > 0
  BY IntValuesAssumption DEF MaxPort
<1>2. (n + half) % IntValues \in 0 .. IntValues - 1
  BY <1>1
<1>3. ASSUME n \in 0 .. half - 1  PROVE (n + half) % IntValues = n + half
  BY <1>1, <1>3
<1> QED
  BY <1>1, <1>2, <1>3 DEF ToInt

\* An int setting is what the file gives, or its default, or, where that is not
\* valid, its default again.
LEMMA ConstructedInts ==
    ASSUME NEW f, NEW a, NEW k \in IntKeys
    PROVE  LET n == IF f.readable THEN ReadInt(f, k, DefaultInts[k]) ELSE DefaultInts[k]
           IN  Constructed(f, a).ints[k] = IF Valid(k, n) THEN n ELSE DefaultInts[k]
<1> DEFINE n == IF f.readable THEN ReadInt(f, k, DefaultInts[k]) ELSE DefaultInts[k]
           c == Parse(Load(Defaults, f), a)
<1>1. c.ints[k] = n
  BY DEF Load, Parse, Defaults
<1>2. ValidateConfiguration(c).ints[k] = IF Valid(k, c.ints[k]) THEN c.ints[k] ELSE DefaultInts[k]
  BY DEF ValidateConfiguration
<1> QED
  BY <1>1, <1>2 DEF Constructed

\* The bucket and the tasks come from a file that was read.
LEMMA ConstructedRequired ==
    ASSUME NEW f, IsFile(f), NEW a, IsArguments(a), ValidateRequired(Constructed(f, a))
    PROVE  /\ f.readable
           /\ Given(f, "s3_bucket", "string")
           /\ \E i \in DOMAIN f.task_whitelist : f.task_whitelist[i].defines
<1> DEFINE c == Load(Defaults, f)
           d == Parse(c, a)
<1>1. "s3_bucket" \in StringKeys /\ "s3_bucket" \notin DOMAIN a /\ DefaultStrings["s3_bucket"] = ""
  BY DEF StringKeys, DefaultStrings, IsArguments, ArgumentKeys
<1>2. d.strings["s3_bucket"] = c.strings["s3_bucket"] /\ d.task_whitelist = c.task_whitelist
  BY <1>1 DEF Parse
<1>3. DOMAIN d.strings = StringKeys
  BY DEF Parse
<1>4. c.strings["s3_bucket"] # "" /\ c.task_whitelist # {}
  BY <1>1, <1>2, <1>3 DEF ValidateRequired, Constructed, ValidateConfiguration
<1>5. f.readable
  BY <1>1, <1>4 DEF Load, Defaults
<1>6. c.strings["s3_bucket"] = ReadString(f, "s3_bucket", "") /\ c.task_whitelist = ReadWhitelist(f)
  BY <1>1, <1>5 DEF Load, Defaults
<1> QED
  BY <1>4, <1>5, <1>6 DEF ReadString, ReadWhitelist

\* A checked setting is usable, and what the file gives of it is used.
LEMMA ConstructedUsable ==
    ASSUME NEW f, IsFile(f), NEW a,
           NEW k \in IntKeys \ {"redis_db_index", "redis_ttl_sec", "dlq_backlog_alert_count"}
    PROVE  /\ Constructed(f, a).ints[k] \in Usable(k)
           /\ f.readable /\ Given(f, k, "int64") /\ f.keys[k][2] \in Usable(k) =>
                  Constructed(f, a).ints[k] = f.keys[k][2]
<1> DEFINE half == IntValues \div 2
           n    == IF f.readable THEN ReadInt(f, k, DefaultInts[k]) ELSE DefaultInts[k]
<1>1. half \in Nat /\ MaxPort \in Nat /\ half > MaxPort /\ MaxPort > 6379
  BY IntValuesAssumption DEF MaxPort
<1> DEFINE u == Usable(k)
<1>2. /\ DefaultInts[k] \in u
      /\ u \subseteq 0 .. half - 1
      /\ \A m \in -half .. half - 1 : Valid(k, m) <=> m \in u
  <2>1. CASE k = "redis_port"
    <3>1. u = 1..MaxPort /\ \A m : Valid(k, m) <=> m > 0 /\ m <= MaxPort
      BY <2>1 DEF Usable, Valid
    <3>2. DefaultInts[k] = 6379
      BY <2>1 DEF DefaultInts
    <3> HIDE DEF u, half
    <3> QED
      BY <1>1, <3>1, <3>2
  <2>2. CASE k = "sqs_wait_time_seconds"
    <3>1. u = 0..20 /\ \A m : Valid(k, m) <=> m >= 0 /\ m <= 20
      BY <2>2 DEF Usable, Valid
    <3>2. DefaultInts[k] = 5
      BY <2>2 DEF DefaultInts
    <3> HIDE DEF u, half
    <3> QED
      BY <1>1, <3>1, <3>2
  <2>3. CASE k = "sqs_max_number_of_messages"
    <3>1. u = 1..10 /\ \A m : Valid(k, m) <=> m > 0 /\ m <= 10
      BY <2>3 DEF Usable, Valid
    <3>2. DefaultInts[k] = 1
      BY <2>3 DEF DefaultInts
    <3> HIDE DEF u, half
    <3> QED
      BY <1>1, <3>1, <3>2
  <2>4. CASE k \in {"sqs_visibility_timeout", "presign_ttl_sec", "default_timeout_sec"}
    <3>1. u = 1 .. half - 1 /\ \A m : Valid(k, m) <=> m > 0
      BY <2>4 DEF Usable, Valid
    <3>2. DefaultInts[k] \in {60, 600, 30}
      BY <2>4 DEF DefaultInts
    <3> HIDE DEF u, half
    <3> QED
      BY <1>1, <3>1, <3>2
  <2>5. CASE k \in {"high_priority_count", "normal_priority_count", "low_priority_count",
                     "dlq_max_retry_count"}
    <3>1. u = 0 .. half - 1
      BY <2>5 DEF Usable
    <3>2. ASSUME NEW m  PROVE Valid(k, m) <=> m >= 0
      BY <2>5 DEF Valid
    <3>3. DefaultInts[k] \in 1..3
      BY <2>5 DEF DefaultInts
    <3> HIDE DEF u, half
    <3> QED
      BY <1>1, <3>1, <3>2, <3>3
  <2> QED
    BY <2>1, <2>2, <2>3, <2>4, <2>5 DEF IntKeys, DefaultInts
<1> HIDE DEF u
<1>3. Given(f, k, "int64") => f.keys[k][2] \in Int
  BY DEF Given, IsFile, Json
<1>4. n \in -half .. half - 1
  <2>1. CASE f.readable /\ Given(f, k, "int64")
    <3>1. n = ToInt(f.keys[k][2])
      BY <2>1 DEF ReadInt
    <3> QED
      BY <1>3, <2>1, <3>1, ToIntRange
  <2>2. CASE ~(f.readable /\ Given(f, k, "int64"))
    <3>1. n = DefaultInts[k]
      BY <2>2 DEF ReadInt
    <3>2. n \in u /\ u \subseteq 0 .. half - 1
      BY <1>2, <3>1
    <3> HIDE DEF n, half
    <3> QED
      BY <1>1, <3>2
  <2> QED
    BY <2>1, <2>2
<1>5. Constructed(f, a).ints[k] = IF Valid(k, n) THEN n ELSE DefaultInts[k]
  BY ConstructedInts
<1>6. ASSUME f.readable, Given(f, k, "int64"), f.keys[k][2] \in u
      PROVE  n = f.keys[k][2]
  BY <1>2, <1>3, <1>6, ToIntRange DEF ReadInt
<1> HIDE DEF n, half
<1> QED
  BY <1>2, <1>4, <1>5, <1>6 DEF u

-----------------------------------------------------------------------------
(* Where a step leads to, and what it reads again.                         *)

\* Only the constructor sets the configuration, only Receive begins a handler,
\* and a handler ends beyond the start of the worker.
LEMMA Moves ==
    ASSUME [Next]_vars
    PROVE  /\ scenario' = scenario
           /\ \/ Boot
              \/ Receive /\ cfg' = cfg
              \/ cfg' = cfg /\ pc' = pc
              \/ cfg' = cfg /\ pc \in Working /\ pc' \in Points \ {"boot", "aborted"}
              \/ cfg' = cfg /\ pc = "down" /\ pc' = "idle"
<1> USE DEF Working, Stopped, Points
<1>1. CASE Boot
  BY <1>1 DEF Boot, Goto
<1>2. CASE Receive
  BY <1>2 DEF Receive, Goto, envVars
<1>3. CASE BeginJob
  BY <1>3 DEF BeginJob, Goto
<1>4. CASE FailWithoutRetry
  BY <1>4 DEF FailWithoutRetry, Goto, envVars
<1>5. CASE DownloadInputs /\ DownloadSucceeds
  BY <1>5 DEF DownloadInputs, DownloadSucceeds, envVars
<1>6. CASE DownloadInputs /\ DownloadFails
  BY <1>6 DEF DownloadInputs, DownloadFails, FailJob, Goto, envVars
<1>7. CASE ExecuteTask
  BY <1>7 DEF ExecuteTask, Goto, envVars
<1>8. CASE ExecutorStep
  BY <1>8 DEF ExecutorStep, envVars
<1>9. CASE TaskDone
  BY <1>9 DEF TaskDone, FailJob, Goto, envVars
<1>10. CASE UploadOutput
  BY <1>10 DEF UploadOutput, envVars
<1>11. CASE UploadFails
  BY <1>11 DEF UploadFails, FailJob, Goto, envVars
<1>12. CASE FinishJob
  BY <1>12 DEF FinishJob, Goto, envVars
<1>13. CASE HandleProcessingFailure
  BY <1>13 DEF HandleProcessingFailure, Goto
<1>14. CASE TaskWrites
  BY <1>14 DEF TaskWrites, envVars
<1>15. CASE TaskForks
  BY <1>15 DEF TaskForks
<1>16. CASE TaskEnds
  BY <1>16 DEF TaskEnds, envVars
<1>17. CASE BackgroundWrites
  BY <1>17 DEF BackgroundWrites, envVars
<1>18. CASE Crash
  BY <1>18 DEF Crash
<1>19. CASE Restart
  BY <1>19 DEF Restart, Goto, envVars
<1>20. CASE UNCHANGED vars
  BY <1>20 DEF vars
<1> QED
  BY <1>1, <1>2, <1>3, <1>4, <1>5, <1>6, <1>7, <1>8, <1>9, <1>10, <1>11, <1>12, <1>13, <1>14, <1>15,
     <1>16, <1>17, <1>18, <1>19, <1>20
     DEF Next, HandlerStep, ProcessJob, TaskStep, DownloadInputs

\* What the scenario determines stays.
LEMMA Fixed ==
    ASSUME scenario' = scenario
    PROVE  message' = message /\ entries' = entries /\ Filenames' = Filenames
BY DEF message, entries, Filenames

\* What the message of a scenario is made of.
LEMMA Entries ==
    ASSUME scenario \in Scenarios
    PROVE  /\ IsMessage(message) /\ IsFile(scenario.file) /\ IsArguments(scenario.arguments)
           /\ Len(entries) \in Nat /\ DOMAIN entries = 1 .. Len(entries)
           /\ scenario.texts \subseteq Seq(Bytes)
<1>1. IsMessage(message) /\ IsFile(scenario.file) /\ IsArguments(scenario.arguments)
      /\ scenario.texts \subseteq Seq(Bytes)
  BY ScenariosAssumption DEF IsScenario, message
<1>2. ASSUME NEW S, entries \in Seq(S)
      PROVE  Len(entries) \in Nat /\ DOMAIN entries = 1 .. Len(entries)
  BY <1>2
<1> QED
  BY <1>1, <1>2 DEF entries, IsMessage

-----------------------------------------------------------------------------
(* The start of the worker, and the validation of the message.             *)

\* The configuration is the constructed one, and complete once the worker runs.
THEOREM ConfigurationKept == Spec => []CfgInv
<1>1. Init => CfgInv
  BY DEF Init, CfgInv
<1>2. CfgInv /\ [Next]_vars => CfgInv'
  <2> SUFFICES ASSUME CfgInv, [Next]_vars  PROVE CfgInv'
    OBVIOUS
  <2>1. scenario' = scenario
    BY Moves
  <2>2. CASE Boot
    BY <2>1, <2>2 DEF CfgInv, Boot, Goto
  <2>3. CASE Receive /\ cfg' = cfg
    BY <2>1, <2>3 DEF CfgInv, Receive, Goto
  <2>4. CASE cfg' = cfg /\ pc' = pc
    BY <2>1, <2>4 DEF CfgInv
  <2>5. CASE cfg' = cfg /\ pc \in Working \cup {"down"} /\ pc' \in Points \ {"boot", "aborted"}
    BY <2>1, <2>5 DEF CfgInv, Working
  <2> QED
    BY <2>2, <2>3, <2>4, <2>5, Moves DEF Points
<1> QED
  BY <1>1, <1>2, PTL DEF Spec

\* The worker that gets past validate_required has a file that names the bucket
\* and a task.
THEOREM WorkerConfigured == Spec => []StartsConfigured
<1>1. CfgInv => StartsConfigured
  <2> SUFFICES ASSUME CfgInv, pc \notin {"boot", "aborted"}
               PROVE  StartsConfigured
    BY DEF StartsConfigured
  <2>1. ValidateRequired(Constructed(scenario.file, scenario.arguments))
    BY DEF CfgInv
  <2> QED
    BY <2>1, Entries, ConstructedRequired DEF StartsConfigured, CfgInv
<1> QED
  BY <1>1, ConfigurationKept, PTL

\* The settings of a worker are usable, whatever its file and its command line.
THEOREM SettingsAlwaysUsable == Spec => []SettingsUsable
<1>1. CfgInv => SettingsUsable
  <2> SUFFICES ASSUME CfgInv, pc # "boot",
                      NEW k \in IntKeys \ {"redis_db_index", "redis_ttl_sec", "dlq_backlog_alert_count"}
               PROVE  /\ cfg.ints[k] \in Usable(k)
                      /\ /\ scenario.file.readable
                         /\ Given(scenario.file, k, "int64")
                         /\ scenario.file.keys[k][2] \in Usable(k)
                         => cfg.ints[k] = scenario.file.keys[k][2]
    BY DEF SettingsUsable
  <2>1. cfg = Constructed(scenario.file, scenario.arguments)
    BY DEF CfgInv
  <2>2. IsFile(scenario.file)
    BY Entries DEF CfgInv
  <2> QED
    BY <2>1, <2>2, ConstructedUsable
<1> QED
  BY <1>1, ConfigurationKept, PTL

\* No accessor of process_job throws, whatever message the queue brings.
THEOREM AccessesNeverThrow == Spec => []AccessesSafe
<1>1. Init => MessageInv
  BY DEF Init, MessageInv, Working
<1>2. MessageInv /\ [Next]_vars => MessageInv'
  <2> SUFFICES ASSUME MessageInv, [Next]_vars  PROVE MessageInv'
    OBVIOUS
  <2>1. message' = message
    BY Moves, Fixed
  <2>2. CASE Boot
    BY <2>2 DEF MessageInv, Boot, Goto, Working
  <2>3. CASE Receive
    BY <2>1, <2>3 DEF MessageInv, Receive, Goto, Working
  <2>4. CASE pc' = pc \/ pc \in Working \/ pc' = "idle"
    BY <2>1, <2>4 DEF MessageInv, Working
  <2> QED
    BY <2>2, <2>3, <2>4, Moves
<1>3. MessageInv => AccessesSafe
  BY DEF MessageInv, AccessesSafe, Working, ValidateRequest, IsValidJobId, ValidTask, ValidDownloads,
         NameAccess, DownloadsAccess, EntryAccess, TaskAccess, PrefixAccess, entries
<1> QED
  BY <1>1, <1>2, <1>3, PTL DEF Spec

-----------------------------------------------------------------------------
(* The delays.                                                             *)

\* The powers of two that a shift of at most 16 gives.
LEMMA Powers ==
    /\ 2^0 = 1 /\ 2^1 = 2 /\ 2^2 = 4
    /\ \A k \in 3..16 : 2^k \in Nat /\ 2^k >= 8
OBVIOUS

\* The longest delays of the retry.
LEMMA RetryDelay ==
    ASSUME NEW n \in Nat
    PROVE  /\ Capped(n, RetryBase, RetryMax) \in Nat
           /\ MaxDelay(n, RetryBase, RetryMax) =
                  IF n <= 1 THEN 6 ELSE IF n = 2 THEN 12 ELSE IF n = 3 THEN 24 ELSE 48
<1> DEFINE p == 2^Shift(n)
           c == Capped(n, RetryBase, RetryMax)
<1>1. c = IF n <= 1 THEN 4 ELSE IF n = 2 THEN 8 ELSE IF n = 3 THEN 16 ELSE 32
  <2>0. c = IF 4 * p > 32 THEN 32 ELSE 4 * p
    BY DEF Capped, RetryBase, RetryMax
  <2>1. CASE n <= 1
    <3>1. Shift(n) = 0
      BY <2>1 DEF Shift
    <3>2. p = 1
      BY <3>1, Powers
    <3> HIDE DEF p, c
    <3> QED
      BY <2>1, <2>0, <3>2
  <2>2. CASE n = 2
    <3>1. Shift(n) = 1
      BY <2>2 DEF Shift
    <3>2. p = 2
      BY <3>1, Powers
    <3> HIDE DEF p, c
    <3> QED
      BY <2>2, <2>0, <3>2
  <2>3. CASE n = 3
    <3>1. Shift(n) = 2
      BY <2>3 DEF Shift
    <3>2. p = 4
      BY <3>1, Powers
    <3> HIDE DEF p, c
    <3> QED
      BY <2>3, <2>0, <3>2
  <2>4. CASE n > 3
    <3>1. Shift(n) \in 3..16
      BY <2>4 DEF Shift
    <3>2. p \in Nat /\ p >= 8
      BY <3>1, Powers
    <3> HIDE DEF p, c
    <3> QED
      BY <2>4, <2>0, <3>2
  <2> QED
    BY <2>1, <2>2, <2>3, <2>4
<1> HIDE DEF c
<1>2. MaxDelay(n, RetryBase, RetryMax) = c + (c \div 2)
  BY DEF MaxDelay, c
<1> QED
  BY <1>1, <1>2 DEF c

\* The longest delays of the three downloads of an input.
LEMMA DownloadDelay ==
    /\ MaxDelay(1, DownloadBase, DownloadMax) = 3
    /\ MaxDelay(2, DownloadBase, DownloadMax) = 6
    /\ MaxDelay(3, DownloadBase, DownloadMax) = 12
    /\ \A n \in 1..3 : Capped(n, DownloadBase, DownloadMax) \in Nat
<1> DEFINE c(n) == Capped(n, DownloadBase, DownloadMax)
<1>1. Shift(1) = 0 /\ Shift(2) = 1 /\ Shift(3) = 2
  BY DEF Shift
<1>2. 2^Shift(1) = 1 /\ 2^Shift(2) = 2 /\ 2^Shift(3) = 4
  BY <1>1, Powers
<1>3. c(1) = 2 /\ c(2) = 4 /\ c(3) = 8
  BY <1>2 DEF Capped, DownloadBase, DownloadMax
<1>4. \A n : MaxDelay(n, DownloadBase, DownloadMax) = c(n) + (c(n) \div 2)
  BY DEF MaxDelay
<1> HIDE DEF c
<1>5. c(1) + (c(1) \div 2) = 3 /\ c(2) + (c(2) \div 2) = 6 /\ c(3) + (c(3) \div 2) = 12
  BY <1>3
<1>6. \A n \in 1..3 : c(n) \in Nat
  BY <1>3
<1> QED
  BY <1>4, <1>5, <1>6 DEF c

\* A delay that the backoff draws.
LEMMA DelaysDrawn ==
    /\ \A n \in Nat : BackoffWithJitter(n, RetryBase, RetryMax) \subseteq
                          0 .. MaxDelay(n, RetryBase, RetryMax)
    /\ \A n \in 1..3 : BackoffWithJitter(n, DownloadBase, DownloadMax) \subseteq
                          0 .. MaxDelay(n, DownloadBase, DownloadMax)
BY RetryDelay, DownloadDelay DEF BackoffWithJitter

\* The settings that the waits depend on.
LEMMA WaitSettings ==
    ASSUME CfgInv, pc # "boot"
    PROVE  /\ Batch \in 1..10
           /\ cfg.ints.default_timeout_sec \in Nat \ {0}
           /\ cfg.ints.dlq_max_retry_count \in Nat
<1>1. ASSUME NEW k \in {"sqs_max_number_of_messages", "default_timeout_sec", "dlq_max_retry_count"}
      PROVE  cfg.ints[k] \in Usable(k)
  <2>1. k \in IntKeys \ {"redis_db_index", "redis_ttl_sec", "dlq_backlog_alert_count"}
    BY DEF IntKeys, DefaultInts
  <2> QED
    BY <2>1, Entries, ConstructedUsable DEF CfgInv
<1>2. IntValues \div 2 \in Nat
  BY IntValuesAssumption
<1>3. /\ Usable("sqs_max_number_of_messages") = 1..10
      /\ Usable("default_timeout_sec") \subseteq Nat \ {0}
      /\ Usable("dlq_max_retry_count") \subseteq Nat
  BY <1>2 DEF Usable
<1> QED
  BY <1>1, <1>3 DEF Batch

\* The budget of a handler, in figures.
LEMMA BudgetFigures ==
    ASSUME CfgInv, pc # "boot"
    PROVE  /\ Len(entries) \in Nat /\ TaskWait \in Nat /\ RetryWait \in Nat
           /\ HandlerBudget = Len(entries) * 9 + (IF TaskWait > 12 THEN TaskWait ELSE 12) + RetryWait
           /\ HandlerBudget \in Nat
<1>1. Len(entries) \in Nat
  BY Entries DEF CfgInv
<1>2. RetryWait \in Nat
  BY WaitSettings, RetryDelay DEF RetryWait
<1>3. TaskWait \in Nat
  BY WaitSettings DEF TaskWait, Second
<1>4. PerInput = 9 /\ DownloadWait(3) = 12
  BY DownloadDelay DEF DownloadWait, PerInput
<1> QED
  BY <1>1, <1>2, <1>3, <1>4 DEF HandlerBudget

-----------------------------------------------------------------------------
(* Types.                                                                  *)


\* The executor that is reset has its types.
LEMMA ResetTypes ==
    ASSUME ExecutorReset, now' \in Nat
    PROVE  ExecutorTypeOK'
<1>1. stdout' \in Seq(Bytes)
  BY DEF ExecutorReset
<1>2. executed'.outcome = "none"
  BY DEF ExecutorReset, NotExecuted
<1>3. exit_code' \in Int /\ deadline' \in Nat
  BY DEF ExecutorReset
<1>4. timed_out' \in BOOLEAN /\ waited' \in BOOLEAN
  BY Zenon DEF ExecutorReset
<1> QED
  BY <1>1, <1>2, <1>3, <1>4, Zenon DEF ExecutorReset, ExecutorTypeOK

\* The clock counts in naturals.
LEMMA ClockTypes ==
    ASSUME TypeOK, CfgInv, [Next]_vars
    PROVE  now' \in Nat
<1> USE DEF TypeOK, ExecutorTypeOK
<1>1. CASE Receive
  <2>1. HandlerBudget \in Nat /\ Batch \in 1..10
    BY <1>1, BudgetFigures, WaitSettings DEF Receive, Goto
  <2>2. PICK k \in 0 .. Batch - 1 : now' = k * HandlerBudget
    BY <1>1 DEF Receive
  <2> QED
    BY <2>1, <2>2
<1>2. CASE DownloadFails
  <2>1. PICK d \in BackoffWithJitter(tries, DownloadBase, DownloadMax) : now' = now + d
    BY <1>2 DEF DownloadFails
  <2>2. d \in Nat
    BY <2>1, DownloadDelay, DelaysDrawn
  <2> QED
    BY <2>1, <2>2
<1>3. CASE HandleProcessingFailure
  <2>1. CASE now' = now
    BY <2>1
  <2>2. CASE \E d \in BackoffWithJitter(retries + 1, RetryBase, RetryMax) : now' = now + d
    <3>1. PICK d \in BackoffWithJitter(retries + 1, RetryBase, RetryMax) : now' = now + d
      BY <2>2
    <3>2. d \in Nat
      BY <3>1, RetryDelay, DelaysDrawn
    <3> QED
      BY <3>1, <3>2
  <2> QED
    BY <1>3, <2>1, <2>2 DEF HandleProcessingFailure
<1>4. CASE TimePasses
  BY <1>4 DEF TimePasses
<1>5. CASE now' = now \/ now' = 0
  BY <1>5
<1> QED
  BY <1>1, <1>2, <1>3, <1>4, <1>5
     DEF Next, HandlerStep, Boot, ProcessJob, BeginJob, FailWithoutRetry, DownloadInputs, DownloadSucceeds,
         ExecuteTask, StartProcess, CannotExecute, ExecutorStep, TimerExpires, TimerHandler, ExitHandler,
         ExecuteReturns, TaskDone, UploadOutput, UploadFails, FinishJob, TaskStep, TaskWrites, TaskForks,
         TaskEnds, TaskExits, BackgroundWrites, Crash, Restart, vars

\* A timeout that was asked for, as process_job reads it.
LEMMA TimeoutIsInt ==
    ASSUME scenario \in Scenarios
    PROVE  TimeoutSec \in Int
<1> DEFINE t == message.timeout_sec
<1>1. t \in {<<"absent", 0>>, <<"not_int64", 0>>} \cup ({"int64"} \X Int)
  BY Entries DEF IsMessage
<1> HIDE DEF t
<1>2. t[1] = "int64" => t[2] \in Int
  BY <1>1
<1>3. ASSUME NEW n \in Int  PROVE ToInt(n) \in Int
  <2>1. IntValues \div 2 \in Nat
    BY IntValuesAssumption
  <2> QED
    BY <2>1, ToIntRange
<1> QED
  BY <1>2, <1>3 DEF TimeoutSec, t

\* The step of an executor keeps its types.
LEMMA ExecutorTypes ==
    ASSUME TypeOK, CfgInv, [Next]_vars
    PROVE  ExecutorTypeOK'
<1>1. now' \in Nat /\ ExecutorTypeOK
  BY ClockTypes DEF TypeOK
<1>2. CASE UNCHANGED <<execVars, executed>>
  BY <1>1, <1>2, Zenon DEF ExecutorTypeOK, execVars
<1>3. CASE ExecutorReset
  BY <1>1, <1>3, ResetTypes
<1>4. CASE ExecuteTask
  <2>1. pc # "boot"
    BY <1>4 DEF ExecuteTask, Goto
  <2>2. EffectiveTimeout(TimeoutSec, cfg.ints.default_timeout_sec) \in Nat
    BY <2>1, WaitSettings, TimeoutIsInt DEF CfgInv, EffectiveTimeout
  <2>3. CASE StartProcess(TimeoutSec, cfg.ints.default_timeout_sec)
    <3>1. deadline' \in Nat
      BY <1>1, <2>2, <2>3 DEF StartProcess, Second, ExecutorTypeOK
    <3> QED
      BY <1>1, <2>3, <3>1, Zenon DEF StartProcess, ExecutorTypeOK
  <2>4. CASE CannotExecute
    <3>1. executed'.outcome = "error"
      BY <2>4 DEF CannotExecute, NotExecuted
    <3> QED
      BY <1>1, <2>4, <3>1, Zenon DEF CannotExecute, execVars, ExecutorTypeOK
  <2> QED
    BY <1>4, <2>3, <2>4 DEF ExecuteTask
<1>5. CASE ExecutorStep
  <2>1. CASE TimePasses
    BY <1>1, <2>1, Zenon DEF TimePasses, execVars, ExecutorTypeOK
  <2>2. CASE TimerExpires
    BY <1>1, <2>2, Zenon DEF TimerExpires, ExecutorTypeOK
  <2>3. CASE TimerHandler
    <3>1. exit_code' \in Int /\ process' \in {"none", "running", "exited", "killed"}
      BY <1>1, <2>3 DEF TimerHandler, Killed, ExecutorTypeOK
    <3> QED
      BY <1>1, <2>3, <3>1, Zenon DEF TimerHandler, ExecutorTypeOK
  <2>4. CASE ExitHandler
    <3>1. timer' \in {"none", "armed", "expired", "cancelled", "done"}
      BY <1>1, <2>4 DEF ExitHandler, ExecutorTypeOK
    <3> QED
      BY <1>1, <2>4, <3>1, Zenon DEF ExitHandler, ExecutorTypeOK
  <2>5. CASE ExecuteReturns
    <3>1. executed'.outcome \in {"exited", "timed_out"}
      BY <2>5 DEF ExecuteReturns
    <3> QED
      BY <1>1, <2>5, <3>1, Zenon DEF ExecuteReturns, execVars, ExecutorTypeOK
  <2> QED
    BY <1>5, <2>1, <2>2, <2>3, <2>4, <2>5 DEF ExecutorStep
<1>6. CASE TaskEnds
  <2>1. stdout' \in Seq(Bytes)
    <3>1. stdout' \in scenario.texts
      BY <1>6 DEF TaskEnds, TaskExits
    <3> QED
      BY <3>1, Entries DEF CfgInv
  <2>2. exit_code' \in Int
    BY <1>6 DEF TaskEnds, TaskExits
  <2> QED
    BY <1>1, <1>6, <2>1, <2>2, Zenon DEF TaskEnds, TaskExits, ExecutorTypeOK
<1>7. \/ UNCHANGED <<execVars, executed>> \/ ExecutorReset
      \/ ExecuteTask \/ ExecutorStep \/ TaskEnds
  BY DEF Next, HandlerStep, Boot, Receive, ProcessJob, BeginJob, FailWithoutRetry, DownloadInputs,
         DownloadSucceeds, DownloadFails, FailJob, ForgetLocals, TaskDone, UploadOutput, UploadFails,
         FinishJob, HandleProcessingFailure, TaskStep, TaskWrites, TaskForks, BackgroundWrites, Crash,
         Restart, vars
<1> QED
  BY <1>2, <1>3, <1>4, <1>5, <1>6, <1>7

\* A handler that fails leaves the types.
LEMMA FailTypes ==
    ASSUME TypeOK, ExecutorTypeOK', Filenames' = Filenames, NEW from, FailJob(from)
    PROVE  TypeOK'
<1>1. pc' \in Points
  BY DEF FailJob, Goto, Points, Working
<1>2. DOMAIN inputs' = Filenames' /\ \A f \in Filenames' : inputs'[f] \in Nat
  BY DEF FailJob, RemoveDir, Nobody
<1>3. outputs' \in [OutputFiles -> Nat] /\ results' \in [OutputFiles -> Nat]
  BY DEF FailJob, RemoveDir, ForgetLocals, Nobody
<1>4. file' \in Nat /\ tries' \in 1..3
  BY DEF FailJob, ForgetLocals
<1>5. dir' \in BOOLEAN /\ left' \subseteq OutputFiles
  BY Zenon DEF FailJob, RemoveDir, ForgetLocals
<1> QED
  BY <1>1, <1>2, <1>3, <1>4, <1>5, Zenon DEF FailJob, TypeOK, envVars

\* Types.
LEMMA Types ==
    ASSUME TypeOK, CfgInv, [Next]_vars
    PROVE  TypeOK'
<1>1. scenario' = scenario /\ Filenames' = Filenames
  BY Moves, Fixed
<1>2. ExecutorTypeOK'
  BY ExecutorTypes
<1>a. pc' \in Points
  <2>1. CASE Boot \/ Receive
    BY <2>1 DEF Boot, Receive, Goto, Points, Working, Stopped
  <2> QED
    BY <2>1, Moves DEF TypeOK, Points
<1> USE <1>1, <1>2, <1>a DEF TypeOK, Nobody
<1>3. CASE Boot
  BY <1>3 DEF Boot, Goto, execVars, dirVars
<1>4. CASE Receive
  BY <1>4 DEF Receive, envVars, dirVars
<1>5. CASE BeginJob
  BY <1>5 DEF BeginJob, Goto, execVars
<1>6. CASE FailWithoutRetry
  BY <1>6 DEF FailWithoutRetry, Goto, envVars, execVars, dirVars
<1>7. CASE DownloadInputs /\ DownloadSucceeds
  <2>1. DOMAIN inputs' = Filenames' /\ \A f \in Filenames' : inputs'[f] \in Nat
    BY <1>7 DEF DownloadSucceeds
  <2>2. file' \in Nat /\ tries' \in 1..3
    BY <1>7 DEF DownloadSucceeds
  <2> QED
    BY <1>7, <2>1, <2>2, Zenon DEF DownloadSucceeds, envVars
<1>8. CASE DownloadInputs /\ DownloadFails
  <2>1. CASE tries < Attempts /\ tries' = tries + 1
    <3>1. tries # Attempts /\ tries' \in 1..3
      BY <2>1 DEF Attempts
    <3>2. UNCHANGED <<pc, envVars, file, dirVars, left, results>>
      BY <1>8, <3>1, Zenon DEF DownloadFails
    <3> QED
      BY <3>1, <3>2, Zenon DEF envVars, dirVars
  <2>2. CASE FailJob("download")
    BY <2>2, FailTypes
  <2> QED
    BY <1>8, <2>1, <2>2 DEF DownloadFails
<1>9. CASE ExecuteTask
  BY <1>9 DEF ExecuteTask, Goto, envVars, dirVars
<1>10. CASE ExecutorStep
  BY <1>10 DEF ExecutorStep, envVars, dirVars
<1>11. CASE TaskDone
  <2>1. CASE pc' = "upload"
    BY <1>11, <2>1 DEF TaskDone, FailJob, Goto, envVars, dirVars
  <2>2. CASE FailJob("execute")
    BY <2>2, FailTypes
  <2> QED
    BY <1>11, <2>1, <2>2 DEF TaskDone, Goto
<1>12. CASE UploadOutput
  BY <1>12 DEF UploadOutput, envVars, execVars, dirVars
<1>13. CASE UploadFails
  BY <1>13, FailTypes DEF UploadFails
<1>14. CASE FinishJob
  BY <1>14 DEF FinishJob, Goto, envVars, execVars, RemoveDir
<1>15. CASE HandleProcessingFailure
  <2>1. retries' \in Nat
    BY <1>15 DEF HandleProcessingFailure
  <2> QED
    BY <1>15, <2>1, Zenon DEF HandleProcessingFailure, dirVars
<1>16. CASE TaskWrites
  BY <1>16 DEF TaskWrites, envVars, execVars, WriteOutput
<1>17. CASE TaskForks
  BY <1>17 DEF TaskForks, execVars, dirVars
<1>18. CASE TaskEnds
  BY <1>18 DEF TaskEnds, envVars, dirVars
<1>19. CASE BackgroundWrites
  BY <1>19 DEF BackgroundWrites, envVars, execVars, WriteOutput
<1>20. CASE Crash
  <2>1. crashes' \in Nat /\ file' \in Nat /\ tries' \in 1..3 /\ left' \subseteq OutputFiles
    BY <1>20 DEF Crash, ForgetLocals
  <2>2. results' \in [OutputFiles -> Nat]
    BY <1>20 DEF Crash, ForgetLocals
  <2>3. background' \subseteq Nat
    BY <1>20 DEF Crash
  <2> QED
    BY <1>20, <2>1, <2>2, <2>3, Zenon DEF Crash, dirVars
<1>21. CASE Restart
  BY <1>21 DEF Restart, Goto, envVars, execVars, dirVars
<1>22. CASE UNCHANGED vars
  BY <1>22 DEF vars, execVars, dirVars
<1> QED
  BY <1>3, <1>4, <1>5, <1>6, <1>7, <1>8, <1>9, <1>10, <1>11, <1>12, <1>13, <1>14, <1>15, <1>16,
     <1>17, <1>18, <1>19, <1>20, <1>21, <1>22
     DEF Next, HandlerStep, ProcessJob, TaskStep, DownloadInputs

\* All variables keep their types.
THEOREM TypeCorrect == Spec => []TypeOK
<1>1. Init => TypeOK
  <2> SUFFICES ASSUME Init  PROVE TypeOK
    OBVIOUS
  <2>1. ExecutorTypeOK
    <3>1. stdout \in Seq(Bytes) /\ executed.outcome = "none" /\ now \in Nat /\ exit_code \in Int
          /\ deadline \in Nat
      BY DEF Init, ExecutorInit, NotExecuted
    <3>2. timed_out \in BOOLEAN /\ waited \in BOOLEAN
      BY Zenon DEF Init, ExecutorInit
    <3> QED
      BY <3>1, <3>2, Zenon DEF Init, ExecutorInit, ExecutorTypeOK
  <2>2. attempt \in Nat /\ retries \in Nat /\ crashes \in Nat /\ file \in Nat /\ tries \in 1..3
    BY DEF Init
  <2>3. /\ DOMAIN inputs = Filenames /\ \A f \in Filenames : inputs[f] \in Nat
        /\ outputs \in [OutputFiles -> Nat] /\ results \in [OutputFiles -> Nat]
    BY DEF Init, Nobody
  <2> QED
    BY <2>1, <2>2, <2>3, Zenon DEF Init, TypeOK, Points
<1> QED
  BY <1>1, Types, ConfigurationKept, PTL DEF Spec

-----------------------------------------------------------------------------
(* The tail of a text.                                                     *)

\* A character of a text ends where another begins, or with the text.
LEMMA NextBegins ==
    ASSUME NEW bytes \in Seq(Bytes), IsText(bytes), NEW b \in DOMAIN bytes, bytes[b] > 0,
           b + bytes[b] <= Len(bytes)
    PROVE  bytes[b + bytes[b]] # 0
<1> DEFINE e == b + bytes[b]
<1>1. \A i \in DOMAIN bytes : i \in 1 .. Len(bytes) /\ bytes[i] \in 0..4
  BY DEF Bytes
<1>2. b \in Nat /\ bytes[b] \in 0..4 /\ e \in DOMAIN bytes /\ e \in Nat /\ b < e
  BY <1>1
<1> SUFFICES ASSUME bytes[e] = 0 PROVE FALSE
  OBVIOUS
<1>3. PICK c \in 1 .. e - 1 : c + bytes[c] > e
  BY <1>2 DEF IsText
<1>4. c \in DOMAIN bytes /\ bytes[c] \in 0..4 /\ bytes[c] > 0
  BY <1>1, <1>2, <1>3
<1>5. CASE c < b
  <2>1. b \in c + 1 .. c + bytes[c] - 1
    BY <1>1, <1>2, <1>3, <1>4, <1>5
  <2> QED
    BY <1>4, <2>1 DEF IsText
<1>6. CASE c > b
  <2>1. c \in b + 1 .. b + bytes[b] - 1
    BY <1>2, <1>6
  <2> QED
    BY <1>4, <2>1 DEF IsText
<1> QED
  BY <1>1, <1>2, <1>3, <1>4, <1>5, <1>6

\* From any place within a text, at most three bytes continue a character that
\* begins before it.
LEMMA CutIsNear ==
    ASSUME NEW bytes \in Seq(Bytes), IsText(bytes), NEW first \in 1 .. Len(bytes) + 1
    PROVE  \E e \in first .. Len(bytes) + 1 :
              /\ e <= first + 3
              /\ e <= Len(bytes) => bytes[e] # 0
              /\ \A k \in first .. e - 1 : bytes[k] = 0
<1> DEFINE n == Len(bytes)
           Near(e) == /\ e <= first + 3
                      /\ e <= n => bytes[e] # 0
                      /\ \A k \in first .. e - 1 : bytes[k] = 0
<1>1. n \in Nat /\ first \in Nat /\ DOMAIN bytes = 1..n /\ \A i \in 1..n : bytes[i] \in 0..4
  BY DEF Bytes
<1>2. CASE first <= n => bytes[first] # 0
  <2>1. first \in first .. n + 1 /\ Near(first)
    BY <1>1, <1>2
  <2> QED
    BY <2>1
<1>3. CASE first <= n /\ bytes[first] = 0
  <2>1. PICK b \in 1 .. first - 1 : b + bytes[b] > first
    BY <1>1, <1>3 DEF IsText
  <2>2. b \in DOMAIN bytes /\ bytes[b] \in 0..4 /\ bytes[b] > 0
    BY <1>1, <1>3, <2>1
  <2> DEFINE e == b + bytes[b]
  <2>3. e - 1 <= n /\ \A k \in b + 1 .. e - 1 : bytes[k] = 0
    BY <2>2 DEF IsText
  <2>4. e <= n => bytes[e] # 0
    BY <2>2, NextBegins
  <2>5. e \in first .. n + 1 /\ e <= first + 3
    BY <1>1, <2>1, <2>2, <2>3
  <2>6. \A k \in first .. e - 1 : bytes[k] = 0
    BY <1>1, <2>1, <2>3
  <2> QED
    BY <2>4, <2>5, <2>6
<1> QED
  BY <1>1, <1>2, <1>3

\* What is left of a text from the beginning of a character on is a text.
LEMMA SuffixIsText ==
    ASSUME NEW bytes \in Seq(Bytes), IsText(bytes), NEW from \in 1 .. Len(bytes) + 1,
           from <= Len(bytes) => bytes[from] # 0
    PROVE  IsText(SubSeq(bytes, from, Len(bytes)))
<1> DEFINE n == Len(bytes)
           tail == SubSeq(bytes, from, n)
<1>1. n \in Nat /\ from \in Nat /\ DOMAIN bytes = 1..n /\ \A i \in 1..n : bytes[i] \in 0..4
  BY DEF Bytes
<1>2. /\ tail \in Seq(Bytes) /\ Len(tail) = n - from + 1 /\ DOMAIN tail = 1 .. n - from + 1
      /\ \A i \in 1 .. n - from + 1 : tail[i] = bytes[from + i - 1]
  BY <1>1
<1> SUFFICES IsText(tail)
  OBVIOUS
<1> HIDE DEF n, tail
<1> SUFFICES ASSUME NEW i \in 1 .. n - from + 1
             PROVE  /\ tail[i] > 0 => /\ i + tail[i] - 1 <= Len(tail)
                                      /\ \A k \in i + 1 .. i + tail[i] - 1 : tail[k] = 0
                    /\ tail[i] = 0 => \E b \in 1 .. i - 1 : b + tail[b] > i
  BY <1>2 DEF IsText
<1> DEFINE p == from + i - 1
<1>3. p \in 1..n /\ from <= n /\ tail[i] = bytes[p] /\ bytes[p] \in 0..4
  BY <1>1, <1>2
<1>4. ASSUME tail[i] > 0
      PROVE  i + tail[i] - 1 <= Len(tail) /\ \A k \in i + 1 .. i + tail[i] - 1 : tail[k] = 0
  <2>1. p + bytes[p] - 1 <= n /\ \A k \in p + 1 .. p + bytes[p] - 1 : bytes[k] = 0
    BY <1>1, <1>3, <1>4 DEF IsText, n
  <2>2. ASSUME NEW k \in i + 1 .. i + tail[i] - 1 PROVE tail[k] = 0
    <3>1. k \in 1 .. n - from + 1 /\ from + k - 1 \in p + 1 .. p + bytes[p] - 1
      BY <1>1, <1>3, <2>1
    <3> QED
      BY <1>2, <2>1, <3>1
  <2>3. i + tail[i] - 1 <= Len(tail)
    <3>1. p + tail[i] - 1 <= n /\ Len(tail) = n - from + 1
      BY <1>2, <1>3, <2>1
    <3>2. n \in Nat /\ from \in Nat /\ i \in Nat /\ tail[i] \in Nat
      BY <1>1, <1>3
    <3> QED
      BY ONLY <3>1, <3>2
  <2> QED
    BY <2>2, <2>3
<1>5. ASSUME tail[i] = 0 PROVE \E b \in 1 .. i - 1 : b + tail[b] > i
  <2>1. PICK c \in 1 .. p - 1 : c + bytes[c] > p
    <3>1. p \in DOMAIN bytes /\ bytes[p] = 0
      BY <1>1, <1>3, <1>5
    <3> QED
      BY <3>1 DEF IsText
  <2>2. c \in 1..n /\ bytes[c] \in 0..4 /\ bytes[c] > 0
    BY <1>1, <1>3, <2>1
  <2>3. CASE c < from
    <3>1. from \in c + 1 .. c + bytes[c] - 1
      BY <1>1, <2>1, <2>2, <2>3
    <3>2. bytes[from] = 0
      BY <1>1, <2>2, <3>1 DEF IsText
    <3> QED
      BY <1>3, <3>2 DEF n
  <2>4. CASE c >= from
    <3> DEFINE b == c - from + 1
    <3>1. b \in 1 .. i - 1 /\ b \in 1 .. n - from + 1 /\ from + b - 1 = c
      BY <1>1, <1>3, <2>1, <2>2, <2>4
    <3>2. tail[b] = bytes[c]
      BY <1>2, <3>1
    <3>3. b + tail[b] > i
      BY <1>1, <2>1, <2>2, <3>2
    <3> QED
      BY <3>1, <3>3
  <2> QED
    BY <1>1, <2>1, <2>3, <2>4
<1> QED
  BY <1>4, <1>5

\* What read_stdout_tail returns of a text: whole characters, the last ones, and
\* no fewer than fit but for one.
LEMMA TailOfText ==
    ASSUME NEW bytes \in Seq(Bytes), IsText(bytes)
    PROVE  LET tail == ReadStdoutTail(bytes)
           IN  /\ tail \in Seq(Bytes)
               /\ IsText(tail)
               /\ Len(tail) <= StdoutTailBytes
               /\ tail = SubSeq(bytes, Len(bytes) - Len(tail) + 1, Len(bytes))
               /\ Len(tail) > StdoutTailBytes - 4 \/ Len(tail) = Len(bytes)
<1> DEFINE n     == Len(bytes)
           first == n - StdoutTailBytes + 1
           Cut(i) == /\ i <= n => bytes[i] # 0
                     /\ \A k \in first .. i - 1 : bytes[k] = 0
           from  == CHOOSE i \in first .. n + 1 : Cut(i)
           tail  == ReadStdoutTail(bytes)
<1>1. n \in Nat /\ StdoutTailBytes \in Nat
  BY TailAssumption
<1>2. CASE n <= StdoutTailBytes
  <2>1. tail = bytes
    BY <1>1, <1>2 DEF ReadStdoutTail
  <2>2. SubSeq(bytes, 1, n) = bytes
    OBVIOUS
  <2> QED
    BY <1>1, <1>2, <2>1, <2>2
<1>3. CASE n > StdoutTailBytes
  <2>1. first \in 1 .. n + 1
    BY <1>1, <1>3
  <2>2. PICK e \in first .. n + 1 : e <= first + 3 /\ Cut(e)
    BY <2>1, CutIsNear
  <2>3. from \in first .. n + 1 /\ Cut(from)
    <3> HIDE DEF Cut, first, n
    <3> QED
      BY <2>2
  <2>4. tail = SubSeq(bytes, from, n)
    BY <1>3, Zenon DEF ReadStdoutTail
  <2> HIDE DEF from, tail
  <2>5. from <= first + 3
    <3> SUFFICES ASSUME from > e PROVE FALSE
      BY <1>1, <2>1, <2>2, <2>3
    <3>1. e <= n /\ e \in first .. from - 1
      BY <1>1, <2>1, <2>2, <2>3
    <3> QED
      BY <2>2, <2>3, <3>1
  <2>6. from \in 1 .. n + 1
    BY <1>1, <2>1, <2>3
  <2>7. IsText(tail)
    BY <2>3, <2>4, <2>6, SuffixIsText
  <2>8. tail \in Seq(Bytes) /\ Len(tail) = n - from + 1
    BY <1>1, <2>4, <2>6
  <2>9. n - Len(tail) + 1 = from /\ Len(tail) <= StdoutTailBytes /\ Len(tail) > StdoutTailBytes - 4
    BY <1>1, <2>3, <2>5, <2>6, <2>8
  <2> QED
    BY <2>4, <2>7, <2>8, <2>9 DEF tail
<1> QED
  BY <1>1, <1>2, <1>3

=============================================================================
