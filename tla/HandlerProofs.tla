---------------------------- MODULE HandlerProofs ---------------------------
(***************************************************************************)
(* Proofs about one job's handler: what it has done when it reports.       *)
(***************************************************************************)
EXTENDS AttemptProofs

(* The executor.                                                           *)

\* The executor is not in use at first.
LEMMA ExecStart == Init => ExecInv
  BY DEF Init, ExecutorInit, NotExecuted, ExecInv

\* The executor's invariant is inductive.
LEMMA ExecStep ==
    ASSUME TypeOK, ExecInv, [Next]_vars
    PROVE  ExecInv'
<1> USE DEF TypeOK, ExecutorTypeOK, ExecInv
<1>1. CASE Boot
  BY <1>1 DEF Boot, Goto, execVars, dirVars
<1>2. CASE Receive
  BY <1>2 DEF Receive, Goto, envVars, execVars
<1>3. CASE BeginJob
  BY <1>3 DEF BeginJob, Goto, execVars
<1>4. CASE FailWithoutRetry
  BY <1>4 DEF FailWithoutRetry, Goto, envVars, execVars, dirVars
<1>5. CASE DownloadInputs /\ DownloadSucceeds
  BY <1>5 DEF DownloadInputs, DownloadSucceeds, envVars, execVars
<1>6. CASE DownloadInputs /\ DownloadFails
  BY <1>6
     DEF DownloadInputs, DownloadFails, FailJob, Goto, envVars, execVars, dirVars, RemoveDir,
         ForgetLocals, ExecutorReset, NotExecuted, Attempts
<1>7. CASE ExecuteTask
  BY <1>7 DEF ExecuteTask, Goto, envVars, dirVars, StartProcess, CannotExecute, NotExecuted, execVars
<1>8. CASE ExecutorStep
  BY <1>8
     DEF ExecutorStep, envVars, dirVars, TimePasses, TimerExpires, TimerHandler, ExitHandler,
         ExecuteReturns, execVars, Killed
<1>9. CASE TaskDone
  BY <1>9
     DEF TaskDone, FailJob, Goto, envVars, dirVars, execVars, RemoveDir, ForgetLocals,
         ExecutorReset, NotExecuted
<1>10. CASE UploadOutput
  BY <1>10 DEF UploadOutput, envVars, execVars, dirVars
<1>11. CASE UploadFails
  BY <1>11 DEF UploadFails, FailJob, Goto, envVars, RemoveDir, ForgetLocals, ExecutorReset, NotExecuted
<1>12. CASE FinishJob
  BY <1>12 DEF FinishJob, Goto, envVars, execVars, RemoveDir
<1>13. CASE HandleProcessingFailure
  BY <1>13 DEF HandleProcessingFailure, Goto, execVars, dirVars
<1>14. CASE TaskWrites
  BY <1>14 DEF TaskWrites, envVars, execVars, WriteOutput
<1>15. CASE TaskForks
  BY <1>15 DEF TaskForks, execVars, dirVars
<1>16. CASE TaskEnds
  BY <1>16 DEF TaskEnds, envVars, dirVars, TaskExits
<1>17. CASE BackgroundWrites
  BY <1>17 DEF BackgroundWrites, envVars, execVars, WriteOutput
<1>18. CASE Crash
  BY <1>18 DEF Crash, dirVars, ForgetLocals, ExecutorReset, NotExecuted
<1>19. CASE Restart
  BY <1>19 DEF Restart, Goto, envVars, execVars, dirVars
<1>20. CASE UNCHANGED vars
  BY <1>20 DEF vars, execVars, dirVars
<1> QED
  BY <1>1, <1>2, <1>3, <1>4, <1>5, <1>6, <1>7, <1>8, <1>9, <1>10, <1>11, <1>12, <1>13, <1>14, <1>15,
     <1>16, <1>17, <1>18, <1>19, <1>20
     DEF Next, HandlerStep, ProcessJob, TaskStep, DownloadInputs

\* What execute() reports is what happened, in any order of the two handlers.
THEOREM VerdictAlwaysTruthful == Spec => []VerdictTruthful
<1>1. Init => ExecInv
  BY ExecStart
<1>2. TypeOK /\ ExecInv => VerdictTruthful
  BY DEF TypeOK, ExecutorTypeOK, ExecInv, VerdictTruthful
<1> QED
  BY <1>1, <1>2, ExecStep, TypeCorrect, PTL DEF Spec

-----------------------------------------------------------------------------
(* What the task has printed.                                              *)

\* What was printed is a text, and the tail stays that of it.
LEMMA TextStep ==
    ASSUME TypeOK, ExecInv, TextInv, [Next]_vars
    PROVE  TextInv'
<1>1. CASE UNCHANGED <<stdout, executed>>
  BY <1>1 DEF TextInv, IsText, ReadStdoutTail
<1>2. CASE ExecutorReset
  BY <1>2 DEF ExecutorReset, NotExecuted, TextInv, IsText
<1>3. CASE ExecuteTask
  <2>1. stdout' = stdout /\ (executed' = executed \/ executed'.outcome = "error")
    BY <1>3 DEF ExecuteTask, StartProcess, CannotExecute, NotExecuted, execVars
  <2> QED
    BY <1>1, <2>1 DEF TextInv, IsText
<1>4. CASE ExecutorStep
  <2>1. CASE ExecuteReturns
    <3>1. stdout' = stdout /\ executed'.stdout_tail \in {ReadStdoutTail(stdout), <<>>}
      BY <2>1 DEF ExecuteReturns, execVars
    <3> QED
      BY <3>1 DEF TextInv, IsText, ReadStdoutTail
  <2> QED
    BY <1>1, <1>4, <2>1
       DEF ExecutorStep, TimePasses, TimerExpires, TimerHandler, ExitHandler, execVars
<1>5. CASE TaskEnds
  <2>1. stdout' \in scenario.texts /\ process = "running" /\ executed' = executed
    BY <1>5 DEF TaskEnds, TaskExits
  <2>2. \A t \in scenario.texts : IsText(t)
    BY ScenariosAssumption DEF TypeOK, IsScenario
  <2>3. IsText(stdout')
    BY <2>1, <2>2
  <2>4. executed.outcome # "exited"
    BY <2>1 DEF ExecInv
  <2> QED
    BY <2>1, <2>3, <2>4 DEF TextInv
<1>6. \/ UNCHANGED <<stdout, executed>> \/ ExecutorReset
      \/ ExecuteTask \/ ExecutorStep \/ TaskEnds
  BY DEF Next, HandlerStep, Boot, Receive, ProcessJob, BeginJob, FailWithoutRetry, DownloadInputs,
         DownloadSucceeds, DownloadFails, FailJob, ForgetLocals, TaskDone, UploadOutput, UploadFails,
         FinishJob, HandleProcessingFailure, TaskStep, TaskWrites, TaskForks, BackgroundWrites, Crash,
         Restart, vars, execVars
<1> QED
  BY <1>1, <1>2, <1>3, <1>4, <1>5, <1>6

\* The tail of stdout in the report is whole characters, whatever the task
\* prints and wherever the limit falls.
THEOREM TailAlwaysText == Spec => []TailIsText
<1>1. Init => ExecInv /\ TextInv
  <2> SUFFICES ASSUME Init PROVE TextInv
    BY ExecStart
  <2>1. stdout = <<>> /\ executed.outcome = "none"
    BY DEF Init, ExecutorInit, NotExecuted
  <2> QED
    BY <2>1 DEF TextInv, IsText
<1>2. TypeOK /\ TextInv => TailIsText
  <2> SUFFICES ASSUME TypeOK, TextInv PROVE TailIsText
    OBVIOUS
  <2>1. executed.outcome = "exited" /\ executed.stdout_tail # <<>> =>
            executed.stdout_tail = ReadStdoutTail(stdout)
    BY DEF TextInv
  <2>2. stdout \in Seq(Bytes) /\ IsText(stdout)
    BY DEF TextInv, TypeOK, ExecutorTypeOK
  <2> DEFINE tail == ReadStdoutTail(stdout)
  <2>3. /\ IsText(tail)
        /\ Len(tail) <= StdoutTailBytes
        /\ tail = SubSeq(stdout, Len(stdout) - Len(tail) + 1, Len(stdout))
        /\ Len(tail) > StdoutTailBytes - 4 \/ Len(tail) = Len(stdout)
    BY <2>2, TailOfText
  <2> HIDE DEF tail
  <2> QED
    BY <2>1, <2>3, Zenon DEF TailIsText, tail
<1> QED
  BY <1>1, <1>2, ExecStep, TextStep, TypeCorrect, PTL DEF Spec

-----------------------------------------------------------------------------
(* The inputs.                                                             *)

\* The inputs' invariant is inductive.
LEMMA InputsStep ==
    ASSUME TypeOK, ExecInv, InputsInv, [Next]_vars
    PROVE  InputsInv'
<1>a. entries' = entries /\ Filenames' = Filenames
  BY Moves, Fixed
<1>b. Len(entries) \in Nat /\ DOMAIN entries = 1 .. Len(entries)
  BY Entries DEF TypeOK
<1> USE <1>a, <1>b DEF TypeOK, InputsInv
<1>1. CASE Boot
  BY <1>1 DEF Boot, Goto, execVars, dirVars
<1>2. CASE Receive
  BY <1>2 DEF Receive, Goto, envVars, execVars
<1>3. CASE BeginJob
  BY <1>3 DEF BeginJob, Goto, execVars
<1>4. CASE FailWithoutRetry
  BY <1>4 DEF FailWithoutRetry, Goto, envVars, execVars, dirVars
<1>5. CASE DownloadInputs /\ DownloadSucceeds
  <2>1. pc = "download" /\ pc' = "download" /\ attempt' = attempt /\ file' = file + 1
    BY <1>5 DEF DownloadInputs, DownloadSucceeds, envVars
  <2>2. ASSUME NEW i \in DOMAIN entries, i < file'
        PROVE  inputs'[entries[i].filename] = attempt
    <3>1. entries[i].filename \in DOMAIN inputs
      BY DEF Filenames
    <3>2. CASE entries[i].filename = entries[file].filename
      BY <1>5, <3>1, <3>2 DEF DownloadSucceeds
    <3>3. CASE entries[i].filename # entries[file].filename
      <4>1. i < file
        BY <2>1, <2>2, <3>3
      <4> QED
        BY <1>5, <2>1, <3>1, <3>3, <4>1 DEF DownloadSucceeds
    <3> QED
      BY <3>2, <3>3
  <2> QED
    BY <2>1, <2>2
<1>6. CASE DownloadInputs /\ DownloadFails
  <2>1. CASE UNCHANGED <<pc, envVars, file, dirVars>>
    BY <2>1 DEF envVars, dirVars
  <2>2. CASE FailJob("download")
    BY <2>2 DEF FailJob, Goto, ForgetLocals
  <2> QED
    BY <1>6, <2>1, <2>2 DEF DownloadFails
<1>7. CASE ExecuteTask
  <2>1. \A f \in Filenames : inputs[f] = attempt
    BY <1>7 DEF ExecuteTask, Goto, Filenames
  <2> QED
    BY <1>7, <2>1 DEF ExecuteTask, Goto, envVars, dirVars
<1>8. CASE ExecutorStep
  BY <1>8
     DEF ExecutorStep, envVars, dirVars, TimePasses, TimerExpires, TimerHandler, ExitHandler,
         ExecuteReturns, execVars
<1>9. CASE TaskDone
  BY <1>9 DEF TaskDone, FailJob, Goto, envVars, dirVars, execVars, RemoveDir, ForgetLocals, ExecutorReset
<1>10. CASE UploadOutput
  BY <1>10 DEF UploadOutput, envVars, execVars, dirVars
<1>11. CASE UploadFails
  BY <1>11 DEF UploadFails, FailJob, Goto, envVars, RemoveDir, ForgetLocals, ExecutorReset
<1>12. CASE FinishJob
  BY <1>12 DEF FinishJob, Goto, envVars, execVars, RemoveDir
<1>13. CASE HandleProcessingFailure
  BY <1>13 DEF HandleProcessingFailure, Goto, execVars, dirVars
<1>14. CASE TaskWrites
  BY <1>14 DEF TaskWrites, envVars, execVars, WriteOutput
<1>15. CASE TaskForks
  BY <1>15 DEF TaskForks, execVars, dirVars
<1>16. CASE TaskEnds
  BY <1>16 DEF TaskEnds, envVars, dirVars, TaskExits
<1>17. CASE BackgroundWrites
  BY <1>17 DEF BackgroundWrites, envVars, execVars, WriteOutput
<1>18. CASE Crash
  BY <1>18 DEF Crash, dirVars, ForgetLocals, ExecutorReset
<1>19. CASE Restart
  BY <1>19 DEF Restart, Goto, envVars, execVars, dirVars
<1>20. CASE UNCHANGED vars
  BY <1>20 DEF vars, execVars, dirVars
<1> QED
  BY <1>1, <1>2, <1>3, <1>4, <1>5, <1>6, <1>7, <1>8, <1>9, <1>10, <1>11, <1>12, <1>13, <1>14, <1>15,
     <1>16, <1>17, <1>18, <1>19, <1>20
     DEF Next, HandlerStep, ProcessJob, TaskStep, DownloadInputs

\* The task runs only with every input that this attempt has downloaded.
THEOREM InputsAlwaysComplete == Spec => []InputsComplete
<1>1. Init => ExecInv /\ InputsInv
  BY ExecStart DEF Init, InputsInv
<1>2. ExecInv /\ InputsInv => InputsComplete
  BY DEF ExecInv, InputsInv, InputsComplete
<1> QED
  BY <1>1, <1>2, ExecStep, InputsStep, TypeCorrect, PTL DEF Spec

-----------------------------------------------------------------------------
(* The results.                                                            *)

\* The uploads' invariant is inductive.
LEMMA UploadStep ==
    ASSUME TypeOK, ExecInv, UploadInv, [Next]_vars
    PROVE  UploadInv'
<1> USE DEF TypeOK, UploadInv, ExecInv, Nobody
<1>1. CASE Boot
  BY <1>1 DEF Boot, Goto, execVars, dirVars
<1>2. CASE Receive
  BY <1>2 DEF Receive, Goto, envVars, execVars
<1>3. CASE BeginJob
  BY <1>3 DEF BeginJob, Goto, execVars
<1>4. CASE FailWithoutRetry
  BY <1>4 DEF FailWithoutRetry, Goto, envVars, execVars, dirVars
<1>5. CASE DownloadInputs /\ DownloadSucceeds
  BY <1>5 DEF DownloadInputs, DownloadSucceeds, envVars, execVars
<1>6. CASE DownloadInputs /\ DownloadFails
  <2>1. CASE UNCHANGED <<pc, envVars, dirVars, left, results>>
    BY <2>1 DEF envVars, dirVars
  <2>2. CASE FailJob("download")
    BY <2>2 DEF FailJob, Goto, ForgetLocals
  <2> QED
    BY <1>6, <2>1, <2>2 DEF DownloadFails
<1>7. CASE ExecuteTask
  BY <1>7 DEF ExecuteTask, Goto, envVars, dirVars, StartProcess, CannotExecute, execVars
<1>8. CASE ExecutorStep
  BY <1>8
     DEF ExecutorStep, envVars, dirVars, TimePasses, TimerExpires, TimerHandler, ExitHandler,
         ExecuteReturns, execVars
<1>9. CASE TaskDone
  BY <1>9 DEF TaskDone, FailJob, Goto, envVars, dirVars, execVars, RemoveDir, ForgetLocals, ExecutorReset
<1>10. CASE UploadOutput
  BY <1>10 DEF UploadOutput, envVars, execVars, dirVars
<1>11. CASE UploadFails
  BY <1>11 DEF UploadFails, FailJob, Goto, envVars, RemoveDir, ForgetLocals, ExecutorReset
<1>12. CASE FinishJob
  BY <1>12 DEF FinishJob, Goto, envVars, execVars, RemoveDir
<1>13. CASE HandleProcessingFailure
  BY <1>13 DEF HandleProcessingFailure, Goto, execVars, dirVars
<1>14. CASE TaskWrites
  BY <1>14 DEF TaskWrites, envVars, execVars, WriteOutput
<1>15. CASE TaskForks
  BY <1>15 DEF TaskForks, execVars, dirVars
<1>16. CASE TaskEnds
  BY <1>16 DEF TaskEnds, envVars, dirVars, TaskExits
<1>17. CASE BackgroundWrites
  BY <1>17 DEF BackgroundWrites, envVars, execVars, WriteOutput
<1>18. CASE Crash
  BY <1>18 DEF Crash, dirVars, ForgetLocals, ExecutorReset
<1>19. CASE Restart
  BY <1>19 DEF Restart, Goto, envVars, execVars, dirVars
<1>20. CASE UNCHANGED vars
  BY <1>20 DEF vars, execVars, dirVars
<1> QED
  BY <1>1, <1>2, <1>3, <1>4, <1>5, <1>6, <1>7, <1>8, <1>9, <1>10, <1>11, <1>12, <1>13, <1>14, <1>15,
     <1>16, <1>17, <1>18, <1>19, <1>20
     DEF Next, HandlerStep, ProcessJob, TaskStep, DownloadInputs

\* The invariant of what the outputs come from is inductive.
LEMMA FreshStep ==
    ASSUME TypeOK, ExecInv, UploadInv, FreshInv, [Next]_vars
    PROVE  FreshInv'
<1> USE DEF TypeOK, FreshInv, UploadInv, ExecInv, Nobody
<1>1. CASE Boot
  BY <1>1 DEF Boot, Goto, execVars, dirVars
<1>2. CASE Receive
  BY <1>2 DEF Receive, Goto, envVars, dirVars
<1>3. CASE BeginJob
  BY <1>3 DEF BeginJob, Goto, execVars
<1>4. CASE FailWithoutRetry
  BY <1>4 DEF FailWithoutRetry, Goto, envVars, execVars, dirVars
<1>5. CASE DownloadInputs /\ DownloadSucceeds
  BY <1>5 DEF DownloadInputs, DownloadSucceeds, envVars, execVars
<1>6. CASE DownloadInputs /\ DownloadFails
  <2>1. CASE UNCHANGED <<pc, envVars, dirVars, results>>
    BY <2>1 DEF envVars, dirVars
  <2>2. CASE FailJob("download")
    BY <2>2 DEF FailJob, Goto, envVars, RemoveDir, ForgetLocals
  <2> QED
    BY <1>6, <2>1, <2>2 DEF DownloadFails
<1>7. CASE ExecuteTask
  BY <1>7 DEF ExecuteTask, Goto, envVars, dirVars, StartProcess, CannotExecute, execVars
<1>8. CASE ExecutorStep
  BY <1>8
     DEF ExecutorStep, envVars, dirVars, TimePasses, TimerExpires, TimerHandler, ExitHandler,
         ExecuteReturns, execVars
<1>9. CASE TaskDone
  <2>1. CASE FailJob("execute")
    BY <2>1 DEF FailJob, Goto, envVars, RemoveDir, ForgetLocals
  <2>2. CASE Goto("execute", "upload") /\ UNCHANGED <<envVars, dirVars, results>>
    BY <2>2 DEF Goto, envVars, dirVars
  <2> QED
    BY <1>9, <2>1, <2>2 DEF TaskDone
<1>10. CASE UploadOutput
  BY <1>10 DEF UploadOutput, envVars, execVars, dirVars
<1>11. CASE UploadFails
  BY <1>11 DEF UploadFails, FailJob, Goto, envVars, RemoveDir, ForgetLocals, ExecutorReset
<1>12. CASE FinishJob
  BY <1>12 DEF FinishJob, Goto, envVars, execVars, RemoveDir
<1>13. CASE HandleProcessingFailure
  BY <1>13 DEF HandleProcessingFailure, Goto, execVars, dirVars
<1>14. CASE TaskWrites
  BY <1>14 DEF TaskWrites, envVars, execVars, WriteOutput
<1>15. CASE TaskForks
  BY <1>15 DEF TaskForks, execVars, dirVars
<1>16. CASE TaskEnds
  BY <1>16 DEF TaskEnds, envVars, dirVars, TaskExits
<1>17. CASE BackgroundWrites
  BY <1>17 DEF BackgroundWrites, envVars, execVars, WriteOutput
<1>18. CASE Crash
  <2>1. crashes' = crashes + 1 /\ crashes \in Nat
    BY <1>18 DEF Crash
  <2>2. crashes' # 0
    BY ONLY <2>1
  <2> QED
    BY <2>2
<1>19. CASE Restart
  BY <1>19 DEF Restart, Goto, envVars, execVars, dirVars
<1>20. CASE UNCHANGED vars
  BY <1>20 DEF vars, execVars, dirVars
<1> QED
  BY <1>1, <1>2, <1>3, <1>4, <1>5, <1>6, <1>7, <1>8, <1>9, <1>10, <1>11, <1>12, <1>13, <1>14, <1>15,
     <1>16, <1>17, <1>18, <1>19, <1>20
     DEF Next, HandlerStep, ProcessJob, TaskStep, DownloadInputs

\* A job that is done has all outputs of its task, and no others but those that
\* a crash or surviving processes explain.
LEMMA ResultsRight == Spec => [](ResultsFresh /\ ResultsComplete)
<1>1. Init => ExecInv /\ UploadInv /\ FreshInv
  BY ExecStart DEF Init, UploadInv, FreshInv, Nobody
<1>2. TypeOK /\ UploadInv /\ FreshInv => ResultsFresh /\ ResultsComplete
  <2>1. ASSUME TypeOK, FreshInv  PROVE ResultsFresh
    BY <2>1 DEF TypeOK, FreshInv, ResultsFresh
  <2>2. ASSUME TypeOK, UploadInv  PROVE ResultsComplete
    BY <2>2 DEF TypeOK, UploadInv, ResultsComplete
  <2> QED
    BY <2>1, <2>2
<1> QED
  BY <1>1, <1>2, ExecStep, UploadStep, FreshStep, TypeCorrect, PTL DEF Spec

\* A job is done with outputs of its own attempt, unless the worker crashed in an
\* earlier one or a task has left processes behind.
THEOREM ResultsAlwaysFresh == Spec => []ResultsFresh
  BY ResultsRight, PTL

\* A job is done with all the outputs that its task has written.
THEOREM ResultsAlwaysComplete == Spec => []ResultsComplete
  BY ResultsRight, PTL

-----------------------------------------------------------------------------
(* The time.                                                               *)

\* The budget does not change with the state of the handler.
LEMMA FixedBudget ==
    ASSUME cfg' = cfg, scenario' = scenario
    PROVE  /\ HandlerBudget' = HandlerBudget /\ Others' = Others /\ Downloaded' = Downloaded
           /\ TaskWait' = TaskWait /\ RetryWait' = RetryWait
BY Fixed DEF HandlerBudget, Others, Downloaded, TaskWait, RetryWait, Batch

\* What the messages before this one in the batch have waited for.
LEMMA BatchBudget ==
    ASSUME CfgInv, pc # "boot"
    PROVE  /\ Others \in Nat
           /\ Downloaded = Others + Len(entries) * 9
           /\ \A k \in 0 .. Batch - 1 : k * HandlerBudget <= Others
           /\ Others + HandlerBudget = Batch * HandlerBudget
<1>1. Batch \in 1..10 /\ HandlerBudget \in Nat /\ Len(entries) \in Nat
  BY WaitSettings, BudgetFigures
<1>2. PerInput = 9
  BY DownloadDelay DEF DownloadWait, PerInput
<1>3. Downloaded = Others + Len(entries) * 9
  BY <1>1, <1>2 DEF Downloaded
<1>4. ASSUME NEW b \in Nat, NEW h \in Nat, NEW k \in 0 .. b  PROVE k * h <= b * h
  OBVIOUS
<1>5. Others \in Nat /\ \A k \in 0 .. Batch - 1 : k * HandlerBudget <= Others
  BY <1>1, <1>4 DEF Others
<1>6. ASSUME NEW b \in Int, NEW h \in Nat  PROVE (b - 1) * h + h = b * h
  OBVIOUS
<1> QED
  BY <1>1, <1>3, <1>5, <1>6 DEF Others

\* The steps that take no time, and leave the handler where it is.
LEMMA BudgetIdle ==
    ASSUME BudgetInv, UNCHANGED <<scenario, cfg, pc, file, tries, now, process, deadline>>
    PROVE  BudgetInv'
<1>1. entries' = entries
  BY Fixed
<1>2. Spent' = Spent
  BY FixedBudget DEF Spent
<1> QED
  BY <1>1, <1>2, FixedBudget DEF BudgetInv

\* The invariant of the time is inductive.
LEMMA BudgetStep ==
    ASSUME TypeOK, CfgInv, ExecInv, BudgetInv, [Next]_vars
    PROVE  BudgetInv'
<1>1. CASE Boot
  BY <1>1 DEF BudgetInv, Boot, Goto
<1>2. CASE \/ UNCHANGED vars \/ TaskWrites \/ TaskForks \/ BackgroundWrites
           \/ UploadOutput
  BY <1>2, BudgetIdle DEF vars, TaskWrites, TaskForks, BackgroundWrites, UploadOutput, envVars, execVars
<1>3. SUFFICES ASSUME Next, ~Boot, ~TaskWrites, ~TaskForks, ~BackgroundWrites, ~UploadOutput
               PROVE  BudgetInv'
  BY <1>1, <1>2
<1>4. pc # "boot"
  BY <1>3 DEF Next, HandlerStep, TaskStep, Receive, ProcessJob, BeginJob, FailWithoutRetry, DownloadInputs,
              ExecuteTask, ExecutorStep, TaskDone, FailJob, UploadFails, FinishJob, HandleProcessingFailure,
              TaskEnds, TaskExits, Crash, Restart, Goto, Working, ExecInv
<1>5. cfg' = cfg /\ scenario' = scenario
  BY <1>3, <1>4, Moves DEF Boot, Goto
<1>6. /\ HandlerBudget' = HandlerBudget /\ Others' = Others /\ Downloaded' = Downloaded
      /\ TaskWait' = TaskWait /\ RetryWait' = RetryWait /\ entries' = entries
  BY <1>5, Fixed, FixedBudget
<1>7. /\ Len(entries) \in Nat /\ TaskWait \in Nat /\ RetryWait \in Nat /\ Others \in Nat
      /\ HandlerBudget = Len(entries) * 9 + (IF TaskWait > 12 THEN TaskWait ELSE 12) + RetryWait
      /\ Downloaded = Others + Len(entries) * 9
  BY <1>4, BudgetFigures, BatchBudget
<1>8. now \in Nat /\ file \in Nat /\ tries \in 1..3 /\ deadline \in Nat
  BY DEF TypeOK, ExecutorTypeOK
<1>9. /\ Spent = Others + (file - 1) * 9 + (IF tries = 1 THEN 0 ELSE IF tries = 2 THEN 3 ELSE 9)
      /\ Spent' = Others' + (file' - 1) * 9 + (IF tries' = 1 THEN 0 ELSE IF tries' = 2 THEN 3 ELSE 9)
  BY DownloadDelay DEF Spent, PerInput, DownloadWait
<1>10. CASE Receive
  <2>1. now' <= Others
    BY <1>4, <1>10, BatchBudget DEF Receive
  <2> QED
    BY <1>6, <1>10, <2>1 DEF BudgetInv, Receive, Goto
<1>11. CASE BeginJob
  <2>1. pc = "process" /\ pc' = "download" /\ file' = 1 /\ tries' = 1 /\ now' = now /\ now <= Others
    BY <1>11 DEF BudgetInv, BeginJob, Goto
  <2>2. Spent' = Others
    BY <1>6, <1>7, <1>9, <2>1
  <2> QED
    BY <1>6, <1>7, <2>1, <2>2 DEF BudgetInv
<1>12. CASE FailWithoutRetry
  BY <1>6, <1>12 DEF BudgetInv, FailWithoutRetry, Goto
<1>13. CASE DownloadInputs /\ DownloadSucceeds
  <2>1. /\ pc = "download" /\ pc' = "download" /\ file <= Len(entries) /\ now <= Spent
        /\ file' = file + 1 /\ tries' = 1 /\ now' = now
    BY <1>13 DEF BudgetInv, DownloadInputs, DownloadSucceeds
  <2>2. Spent <= Spent' /\ Spent \in Int /\ Spent' \in Int
    BY <1>6, <1>7, <1>8, <1>9, <2>1
  <2>3. file' <= Len(entries) + 1 /\ now' <= Spent'
    BY <1>7, <1>8, <2>1, <2>2
  <2> QED
    BY <1>6, <2>1, <2>3 DEF BudgetInv
<1>14. CASE DownloadInputs /\ DownloadFails
  <2>1. pc = "download" /\ file <= Len(entries) /\ now <= Spent
    BY <1>14 DEF BudgetInv, DownloadInputs
  <2>2. PICK d \in BackoffWithJitter(tries, DownloadBase, DownloadMax) : now' = now + d
    BY <1>14 DEF DownloadFails
  <2>3. d \in Nat /\ d <= IF tries = 1 THEN 3 ELSE IF tries = 2 THEN 6 ELSE 12
    BY <1>8, <2>2, DelaysDrawn, DownloadDelay
  <2>4. CASE tries < Attempts /\ tries' = tries + 1 /\ UNCHANGED <<pc, file>>
    <3>1. Spent + d <= Spent' /\ Spent \in Int /\ Spent' \in Int
      BY <1>6, <1>7, <1>8, <1>9, <2>3, <2>4 DEF Attempts
    <3>2. now' <= Spent'
      BY <1>8, <2>1, <2>2, <2>3, <3>1
    <3>3. pc' = "download" /\ file' <= Len(entries) + 1 /\ ~(file' > Len(entries))
      BY <1>7, <1>8, <2>1, <2>4
    <3> QED
      BY <1>6, <3>2, <3>3 DEF BudgetInv
  <2>5. CASE tries = Attempts /\ FailJob("download")
    <3>1. pc' = "retry" /\ file' = 1 /\ tries' = 1
      BY <2>5 DEF FailJob, Goto, ForgetLocals
    <3>2. now' <= Others + HandlerBudget - RetryWait
      BY <1>7, <1>8, <1>9, <2>1, <2>2, <2>3, <2>5 DEF Attempts
    <3> QED
      BY <1>6, <3>1, <3>2 DEF BudgetInv
  <2> QED
    BY <1>14, <2>4, <2>5 DEF DownloadFails
<1>15. CASE ExecuteTask
  <2>1. pc = "download" /\ pc' = "execute" /\ now' = now /\ file > Len(entries)
    BY <1>15 DEF ExecuteTask, Goto, StartProcess, CannotExecute
  <2>2. file = Len(entries) + 1 /\ now <= Spent /\ tries = 1
    BY <1>7, <1>8, <2>1 DEF BudgetInv
  <2>3. now <= Downloaded
    BY <1>7, <1>8, <1>9, <2>2
  <2>4. CASE StartProcess(TimeoutSec, cfg.ints.default_timeout_sec)
    <3> DEFINE t == EffectiveTimeout(TimeoutSec, cfg.ints.default_timeout_sec)
    <3>1. cfg.ints.default_timeout_sec \in Nat /\ TimeoutSec \in Int
      BY <1>4, WaitSettings, TimeoutIsInt DEF CfgInv
    <3>2. t \in Nat /\ t <= cfg.ints.default_timeout_sec
      BY <3>1 DEF EffectiveTimeout
    <3>3. deadline' = now + 4 * t /\ process' = "running" /\ TaskWait = 4 * cfg.ints.default_timeout_sec
      BY <2>4 DEF StartProcess, TaskWait, Second
    <3> HIDE DEF t
    <3>4. now' <= deadline' /\ deadline' <= Downloaded + TaskWait
      <4> DEFINE m == cfg.ints.default_timeout_sec
      <4> HIDE DEF m
      <4>1. m \in Nat /\ t \in Nat /\ t <= m /\ TaskWait = 4 * m
        BY <3>1, <3>2, <3>3 DEF m
      <4>2. Downloaded \in Nat
        BY <1>7
      <4>3. 4 * t \in Nat /\ 4 * t <= TaskWait
        BY <4>1
      <4>4. now' \in Nat /\ now' <= Downloaded /\ deadline' = now' + 4 * t
        BY <1>8, <2>1, <2>3, <3>3
      <4>5. TaskWait \in Nat
        BY <1>7
      <4> QED
        BY <4>2, <4>3, <4>4, <4>5
    <3> QED
      BY <1>6, <2>1, <3>3, <3>4 DEF BudgetInv
  <2>5. CASE CannotExecute
    <3>1. process' = "none"
      BY <2>1, <2>5 DEF CannotExecute, execVars, ExecInv
    <3> QED
      BY <1>6, <2>1, <2>3, <3>1 DEF BudgetInv
  <2> QED
    BY <1>15, <2>4, <2>5 DEF ExecuteTask
<1>16. CASE ExecutorStep
  <2>1. pc = "execute" /\ pc' = "execute"
    BY <1>16 DEF ExecutorStep
  <2>2. CASE TimePasses
    <3>1. process # "none" /\ now' <= deadline /\ UNCHANGED <<process, deadline>>
      BY <1>8, <2>2 DEF TimePasses, execVars
    <3> QED
      BY <1>6, <2>1, <3>1 DEF BudgetInv
  <2>3. CASE TimerExpires \/ ExitHandler \/ ExecuteReturns
    <3>1. UNCHANGED <<now, process, deadline>>
      BY <2>3 DEF TimerExpires, ExitHandler, ExecuteReturns, execVars
    <3> QED
      BY <1>6, <2>1, <3>1 DEF BudgetInv
  <2>4. CASE TimerHandler
    <3>1. UNCHANGED <<now, deadline>> /\ (process' = "none") = (process = "none")
      BY <2>4 DEF TimerHandler
    <3> QED
      BY <1>6, <2>1, <3>1 DEF BudgetInv
  <2> QED
    BY <1>16, <2>2, <2>3, <2>4 DEF ExecutorStep
<1>17. CASE TaskEnds
  BY <1>6, <1>17 DEF BudgetInv, TaskEnds, TaskExits, ExecInv
<1>18. CASE TaskDone
  <2>1. pc = "execute" /\ now' = now /\ pc' \in {"upload", "retry"}
    BY <1>18 DEF TaskDone, FailJob, Goto
  <2>2. pc' = "retry" => file' = 1 /\ tries' = 1
    BY <1>18 DEF TaskDone, FailJob, Goto, ForgetLocals
  <2>3. now <= Downloaded + TaskWait
    BY <1>7, <1>8, <2>1 DEF BudgetInv
  <2>4. Downloaded + TaskWait <= Others + HandlerBudget - RetryWait
    BY <1>7
  <2>5. now' <= Others + HandlerBudget - RetryWait
    BY <1>7, <1>8, <2>1, <2>3, <2>4
  <2> QED
    BY <1>6, <2>1, <2>2, <2>5 DEF BudgetInv
<1>19. CASE UploadFails
  BY <1>6, <1>19 DEF BudgetInv, UploadFails, FailJob, Goto, ForgetLocals
<1>20. CASE FinishJob
  BY <1>6, <1>20 DEF BudgetInv, FinishJob, Goto
<1>21. CASE HandleProcessingFailure
  <2>1. pc = "retry" /\ UNCHANGED <<file, tries>> /\ now <= Others + HandlerBudget - RetryWait
    BY <1>21 DEF BudgetInv, HandleProcessingFailure, Goto
  <2>2. CASE CanRetry(retries + 1) /\ pc' = "idle"
    <3> DEFINE m == cfg.ints.dlq_max_retry_count
               w == MaxDelay(retries + 1, RetryBase, RetryMax)
    <3>1. PICK d \in BackoffWithJitter(retries + 1, RetryBase, RetryMax) : now' = now + d
      BY <1>21, <2>2 DEF HandleProcessingFailure, Goto
    <3>2. retries + 1 \in Nat /\ m \in Nat /\ retries + 1 <= m
      BY <1>4, <2>2, WaitSettings DEF TypeOK, CanRetry
    <3>3. d \in 0 .. w
      BY <3>1, <3>2, DelaysDrawn
    <3>4. /\ w = IF retries + 1 <= 1 THEN 6 ELSE IF retries + 1 = 2 THEN 12
                 ELSE IF retries + 1 = 3 THEN 24 ELSE 48
          /\ RetryWait = IF m <= 1 THEN 6 ELSE IF m = 2 THEN 12 ELSE IF m = 3 THEN 24 ELSE 48
      BY <3>2, RetryDelay DEF RetryWait
    <3> HIDE DEF m, w
    <3>5. w \in Nat /\ w <= RetryWait
      BY <3>2, <3>4
    <3>6. now' <= Others + HandlerBudget
      BY <1>7, <1>8, <2>1, <3>1, <3>3, <3>5
    <3> QED
      BY <1>6, <2>1, <2>2, <3>6 DEF BudgetInv
  <2>3. CASE pc' = "failed" /\ now' = now
    BY <1>6, <2>1, <2>3 DEF BudgetInv
  <2> QED
    BY <1>21, <2>2, <2>3 DEF HandleProcessingFailure, Goto
<1>22. CASE Crash
  BY <1>22 DEF BudgetInv, Crash, ForgetLocals
<1>23. CASE Restart
  BY <1>6, <1>23 DEF BudgetInv, Restart, Goto
<1> QED
  BY <1>3, <1>10, <1>11, <1>12, <1>13, <1>14, <1>15, <1>16, <1>17, <1>18, <1>19, <1>20, <1>21, <1>22, <1>23
     DEF Next, HandlerStep, ProcessJob, TaskStep, DownloadInputs

\* The waits of the handlers of a batch keep within their budget, whatever
\* fails, is retried, or times out.
THEOREM AlwaysWithinBudget == Spec => []WithinBudget
<1>1. Init => ExecInv /\ BudgetInv
  BY ExecStart DEF Init, ExecutorInit, BudgetInv
<1>2. TypeOK /\ CfgInv /\ BudgetInv => WithinBudget
  <2> SUFFICES ASSUME TypeOK, CfgInv, BudgetInv, pc # "boot"
               PROVE  now <= Batch * HandlerBudget
    BY DEF WithinBudget
  <2>1. /\ Len(entries) \in Nat /\ TaskWait \in Nat /\ RetryWait \in Nat /\ Others \in Nat
        /\ HandlerBudget = Len(entries) * 9 + (IF TaskWait > 12 THEN TaskWait ELSE 12) + RetryWait
        /\ Downloaded = Others + Len(entries) * 9
        /\ Others + HandlerBudget = Batch * HandlerBudget
    BY BudgetFigures, BatchBudget
  <2>2. now \in Nat /\ file \in Nat /\ tries \in 1..3 /\ deadline \in Nat /\ pc \in Points
    BY DEF TypeOK, ExecutorTypeOK
  <2>3. CASE pc = "download"
    <3>1. Spent = Others + (file - 1) * 9 + (IF tries = 1 THEN 0 ELSE IF tries = 2 THEN 3 ELSE 9)
      BY DownloadDelay DEF Spent, PerInput, DownloadWait
    <3>2. file <= Len(entries) + 1 /\ now <= Spent /\ (file > Len(entries) => tries = 1)
      BY <2>3 DEF BudgetInv
    <3>3. now <= Others + HandlerBudget
      BY <2>1, <2>2, <3>1, <3>2
    <3> QED
      BY <2>1, <3>3
  <2>4. CASE pc = "execute"
    <3>1. now <= Downloaded + TaskWait
      BY <2>1, <2>2, <2>4 DEF BudgetInv
    <3>2. now <= Others + HandlerBudget
      BY <2>1, <2>2, <3>1
    <3> QED
      BY <2>1, <3>2
  <2>5. CASE pc \notin {"download", "execute"}
    <3>1. now = 0 \/ now <= Others \/ now <= Others + HandlerBudget - RetryWait \/ now <= Others + HandlerBudget
      BY <2>2, <2>5 DEF BudgetInv, Points, Working, Stopped
    <3>2. now <= Others + HandlerBudget
      BY <2>1, <2>2, <3>1
    <3> QED
      BY <2>1, <3>2
  <2> QED
    BY <2>3, <2>4, <2>5
<1> QED
  BY <1>1, <1>2, ExecStep, BudgetStep, ConfigurationKept, TypeCorrect, PTL DEF Spec

=============================================================================
