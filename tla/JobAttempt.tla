------------------------------ MODULE JobAttempt ----------------------------
(***************************************************************************)
(* One worker and one job, from the message to the end of its handler, for *)
(* as many attempts as the handler makes of it: the steps that             *)
(* TaskForgeWorker takes as one (the downloads, the execution, the         *)
(* uploads) are taken apart here, with the local directory they share and  *)
(* the time they take.                                                     *)
(*                                                                         *)
(* What other instances, Redis and the dead-letter files do to the job is  *)
(* TaskForge's subject; here the queue brings the message back after a     *)
(* retry or a crash.                                                       *)
(***************************************************************************)
EXTENDS Configurations, MessageValidation, TaskExecutor

CONSTANTS Scenarios,     \* what a worker is started with and meets
          OutputFiles,   \* names of files that tasks write
          MaxAttempts    \* bound on the attempts

\* The file and the command line it starts with, the message, the texts its
\* task may print, whether that task leaves processes behind, and a bound on
\* the worker's crashes.
IsScenario(s) ==
    /\ IsFile(s.file)
    /\ IsArguments(s.arguments)
    /\ IsMessage(s.message)
    /\ s.texts \subseteq Seq(Bytes) /\ \A t \in s.texts : IsText(t)
    /\ s.forks \in BOOLEAN /\ s.crashes \in Nat

ASSUME ScenariosAssumption == \A s \in Scenarios : IsScenario(s)
ASSUME BoundsAssumption == MaxAttempts \in Nat

VARIABLES scenario,      \* fixed
          cfg,           \* configurations_
          pc,            \* where the worker is
          attempt,       \* number of the attempt (history)
          retries,       \* try_count
          file, tries,   \* the input in progress, and its attempt
          dir,           \* the job's directory exists
          inputs,        \* the attempt that downloaded each file in it
          outputs,       \* the attempt whose task wrote each output in it
          left,          \* outputs still to be uploaded
          results,       \* the attempt that wrote each uploaded output
          background,    \* attempts whose task has left processes behind
          crashes

dirVars == <<dir, inputs, outputs>>
envVars == <<scenario, cfg, attempt, retries, background, crashes>>
vars    == <<scenario, cfg, pc, attempt, retries, file, tries, dirVars, left, results,
             background, crashes, now, execVars, executed>>

message   == scenario.message
entries   == message.download_s3.entries
Filenames == {entries[i].filename : i \in DOMAIN entries}

Working == {"process", "download", "execute", "upload", "retry"}
Stopped == {"refused", "done", "failed", "aborted"}
Points  == Working \cup Stopped \cup {"boot", "idle", "down"}

\* "none" where no attempt has written.
Nobody == 0

TypeOK ==
    /\ ExecutorTypeOK
    /\ scenario \in Scenarios
    /\ pc \in Points
    /\ attempt \in Nat /\ retries \in Nat /\ crashes \in Nat
    /\ file \in Nat /\ tries \in 1..3
    /\ dir \in BOOLEAN
    /\ DOMAIN inputs = Filenames /\ \A f \in Filenames : inputs[f] \in Nat
    /\ outputs \in [OutputFiles -> Nat]
    /\ left \subseteq OutputFiles
    /\ results \in [OutputFiles -> Nat]
    /\ background \subseteq Nat

Init ==
    /\ scenario \in Scenarios
    /\ cfg = Defaults
    /\ pc = "boot"
    /\ attempt = 0 /\ retries = 0
    /\ file = 1 /\ tries = 1
    /\ dir = FALSE
    /\ inputs = [f \in Filenames |-> Nobody]
    /\ outputs = [f \in OutputFiles |-> Nobody]
    /\ left = {}
    /\ results = [f \in OutputFiles |-> Nobody]
    /\ background = {}
    /\ crashes = 0
    /\ ExecutorInit

Goto(from, to) == pc = from /\ pc' = to

-----------------------------------------------------------------------------
(* Delays.                                                                 *)

RetryBase    == 4       \* retry_base_delay_ms
RetryMax     == 32      \* retry_max_delay_ms
DownloadBase == 2       \* download_base_delay_ms
DownloadMax  == 16      \* download_max_delay_ms
Attempts     == 3       \* s3_download_attempts

Shift(n) == IF n > 17 THEN 16 ELSE IF n > 1 THEN n - 1 ELSE 0

Capped(n, base, max) == IF base * 2^Shift(n) > max THEN max ELSE base * 2^Shift(n)

\* The jitter adds up to a half.
MaxDelay(n, base, max) == Capped(n, base, max) + (Capped(n, base, max) \div 2)

BackoffWithJitter(n, base, max) == Capped(n, base, max) .. MaxDelay(n, base, max)

-----------------------------------------------------------------------------
(* The worker starts, and receives the message.                            *)

\* The constructor of Configurations, then validate_required in start().
Boot ==
    /\ cfg' = Constructed(scenario.file, scenario.arguments)
    /\ Goto("boot", IF ValidateRequired(cfg') THEN "idle" ELSE "aborted")
    /\ UNCHANGED <<scenario, attempt, retries, file, tries, dirVars, left, results,
                   background, crashes, now, execVars, executed>>

\* The longest waits: for a download, the task, and the retry.
DownloadWait(n) == MaxDelay(n, DownloadBase, DownloadMax)
PerInput        == DownloadWait(1) + DownloadWait(2)
TaskWait        == Second * cfg.ints.default_timeout_sec
RetryWait       == MaxDelay(cfg.ints.dlq_max_retry_count, RetryBase, RetryMax)

\* What the waits of one handler add up to at most: of every input two
\* downloads fail, then the task runs until its timeout, or the last input
\* fails a third time, and the retry waits.
HandlerBudget ==
    Len(entries) * PerInput
    + (IF TaskWait > DownloadWait(3) THEN TaskWait ELSE DownloadWait(3)) + RetryWait

\* The handlers of a batch run one after the other, while all its messages have
\* become invisible at once: this one may have waited for the others.
Batch == cfg.ints.sqs_max_number_of_messages

\* handle_message; a message that is refused is not tried again.
Receive ==
    /\ attempt < MaxAttempts
    /\ Goto("idle", IF ValidateRequest(message) THEN "process" ELSE "refused")
    /\ now' \in {k * HandlerBudget : k \in 0 .. Batch - 1}
    /\ UNCHANGED <<envVars, file, tries, dirVars, left, results, execVars, executed>>

\* process_job up to the directory of the job, which is created unless it is
\* there: TempDirGuard clears it at its end only.
BeginJob ==
    /\ message.name[2] \in cfg.task_whitelist
    /\ Goto("process", "download")
    /\ attempt' = attempt + 1
    /\ dir' = TRUE
    /\ UNCHANGED <<scenario, cfg, retries, file, tries, inputs, outputs, left, results,
                   background, crashes, now, execVars, executed>>

FailWithoutRetry ==
    /\ message.name[2] \notin cfg.task_whitelist
    /\ Goto("process", "refused")
    /\ UNCHANGED <<envVars, file, tries, dirVars, left, results, now, execVars, executed>>

ProcessJob == BeginJob \/ FailWithoutRetry

\* The locals of the handler do not outlive it.
ForgetLocals ==
    /\ file' = 1 /\ tries' = 1
    /\ left' = {}
    /\ results' = [f \in OutputFiles |-> Nobody]
    /\ ExecutorReset

\* process_job returns: the guard removes the directory.
RemoveDir ==
    /\ dir' = FALSE
    /\ inputs' = [f \in Filenames |-> Nobody]
    /\ outputs' = [f \in OutputFiles |-> Nobody]

\* Mutant: the guard leaves the directory of a job that failed.
FailJobKeepsDir(from) ==
    /\ Goto(from, "retry")
    /\ UNCHANGED dirVars
    /\ ForgetLocals
    /\ UNCHANGED envVars

FailJob(from) ==
    /\ Goto(from, "retry")
    /\ RemoveDir
    /\ ForgetLocals
    /\ UNCHANGED envVars

-----------------------------------------------------------------------------
(* download_inputs.                                                        *)

DownloadSucceeds ==
    /\ inputs' = [inputs EXCEPT ![entries[file].filename] = attempt]
    /\ file' = file + 1 /\ tries' = 1
    /\ UNCHANGED <<pc, envVars, dir, outputs, left, results, now, execVars, executed>>

\* Mutant: the input is skipped after its last attempt.
DownloadFailsOn ==
    /\ now' \in {now + d : d \in BackoffWithJitter(tries, DownloadBase, DownloadMax)}
    /\ \/ /\ tries < Attempts
          /\ tries' = tries + 1
          /\ UNCHANGED file
       \/ /\ tries = Attempts
          /\ file' = file + 1 /\ tries' = 1
    /\ UNCHANGED <<pc, envVars, dirVars, left, results, execVars, executed>>

\* The worker sleeps after the last attempt too.
DownloadFails ==
    /\ now' \in {now + d : d \in BackoffWithJitter(tries, DownloadBase, DownloadMax)}
    /\ \/ /\ tries < Attempts
          /\ tries' = tries + 1
          /\ UNCHANGED <<pc, envVars, file, dirVars, left, results, execVars, executed>>
       \/ /\ tries = Attempts
          /\ FailJob("download")

DownloadInputs ==
    /\ pc = "download"
    /\ file <= Len(entries)
    /\ DownloadSucceeds \/ DownloadFails

-----------------------------------------------------------------------------
(* The execution.                                                          *)

\* (int) of task.timeout_sec, 0 without one.
TimeoutSec == IF message.timeout_sec[1] = "int64" THEN ToInt(message.timeout_sec[2]) ELSE 0

ExecuteTask ==
    /\ file > Len(entries)
    /\ Goto("download", "execute")
    /\ StartProcess(TimeoutSec, cfg.ints.default_timeout_sec) \/ CannotExecute
    /\ UNCHANGED <<envVars, file, tries, dirVars, left, results>>

ExecutorStep ==
    /\ pc = "execute"
    /\ \/ TimePasses   \/ TimerExpires  \/ TimerHandler
       \/ ExitHandler  \/ ExecuteReturns
    /\ UNCHANGED <<pc, envVars, file, tries, dirVars, left, results>>

WriteOutput(a, f) == outputs' = [outputs EXCEPT ![f] = a]

\* The task writes outputs, leaves processes behind, and may hang.
TaskWrites ==
    /\ process = "running"
    /\ \E f \in OutputFiles : WriteOutput(attempt, f)
    /\ UNCHANGED <<pc, envVars, file, tries, dir, inputs, left, results, now, execVars, executed>>

TaskForks ==
    /\ process = "running" /\ scenario.forks
    /\ background' = background \cup {attempt}
    /\ UNCHANGED <<scenario, cfg, pc, attempt, retries, file, tries, dirVars, left, results,
                   crashes, now, execVars, executed>>

TaskEnds ==
    /\ TaskExits(scenario.texts)
    /\ UNCHANGED <<pc, envVars, file, tries, dirVars, left, results>>

TaskStep == TaskWrites \/ TaskForks \/ TaskEnds

\* A process that a task has left behind writes by name, into whatever
\* directory is there.
BackgroundWrites ==
    /\ dir
    /\ \E a \in background, f \in OutputFiles : WriteOutput(a, f)
    /\ UNCHANGED <<pc, envVars, file, tries, dir, inputs, left, results, now, execVars, executed>>

\* Back in process_job.
TaskDone ==
    /\ executed.outcome # "none"
    /\ \/ /\ executed.outcome = "exited" /\ executed.exit_code = 0
          /\ Goto("execute", "upload")
          /\ left' = {f \in OutputFiles : outputs[f] # Nobody}
          /\ ExecutorReset
          /\ UNCHANGED <<envVars, file, tries, dirVars, results, now>>
       \/ /\ executed.outcome # "exited" \/ executed.exit_code # 0
          /\ FailJob("execute")
          /\ UNCHANGED now

-----------------------------------------------------------------------------
(* upload_outputs, and the end of the job.                                 *)

UploadOutput ==
    /\ pc = "upload"
    /\ \E f \in left :
           /\ left' = left \ {f}
           /\ results' = [results EXCEPT ![f] = outputs[f]]
    /\ UNCHANGED <<pc, envVars, file, tries, dirVars, now, execVars, executed>>

\* Mutant: an output that cannot be uploaded is skipped.
UploadFailsOn ==
    /\ pc = "upload"
    /\ \E f \in left : left' = left \ {f}
    /\ UNCHANGED <<pc, envVars, file, tries, dirVars, results, now, execVars, executed>>

\* S3, the URL, or the directory; what is uploaded stays in S3.
UploadFails ==
    /\ FailJob("upload")
    /\ UNCHANGED now

FinishJob ==
    /\ left = {}
    /\ Goto("upload", "done")
    /\ RemoveDir
    /\ UNCHANGED <<envVars, file, tries, left, results, now, execVars, executed>>

CanRetry(n) == n <= cfg.ints.dlq_max_retry_count

\* handle_processing_failure: the retry is published after the backoff.
HandleProcessingFailure ==
    /\ \/ /\ CanRetry(retries + 1)
          /\ Goto("retry", "idle")
          /\ retries' = retries + 1
          /\ now' \in {now + d : d \in BackoffWithJitter(retries', RetryBase, RetryMax)}
       \/ /\ ~CanRetry(retries + 1)
          /\ Goto("retry", "failed")
          /\ UNCHANGED <<retries, now>>
    /\ UNCHANGED <<scenario, cfg, attempt, file, tries, dirVars, left, results, background,
                   crashes, execVars, executed>>

-----------------------------------------------------------------------------
(* The process around it.                                                  *)

\* The directory stays, and a task that runs may go on.
Crash ==
    /\ crashes < scenario.crashes
    /\ pc \in Working /\ pc' = "down"
    /\ crashes' = crashes + 1
    /\ background' \in IF process = "running" THEN {background, background \cup {attempt}}
                                              ELSE {background}
    /\ now' = 0
    /\ ForgetLocals
    /\ UNCHANGED <<scenario, cfg, attempt, retries, dirVars>>

Restart ==
    /\ Goto("down", "idle")
    /\ UNCHANGED <<envVars, file, tries, dirVars, left, results, now, execVars, executed>>

HandlerStep ==
    \/ ProcessJob    \/ DownloadInputs  \/ ExecuteTask  \/ ExecutorStep  \/ TaskDone
    \/ UploadOutput  \/ UploadFails     \/ FinishJob    \/ HandleProcessingFailure

Next == Boot \/ Receive \/ HandlerStep \/ TaskStep \/ BackgroundWrites \/ Crash \/ Restart

Spec == Init /\ [][Next]_vars

\* The worker and the clock go on; a task need not end by itself.
FairSpec == Spec /\ WF_vars(HandlerStep)

-----------------------------------------------------------------------------
(* Properties.                                                             *)

\* A worker gets past validate_required only with a file that was read and that
\* names the bucket and at least one task: no default makes up for them.
StartsConfigured ==
    pc \notin {"boot", "aborted"} =>
        /\ scenario.file.readable
        /\ Given(scenario.file, "s3_bucket", "string")
        /\ \E i \in DOMAIN scenario.file.task_whitelist : scenario.file.task_whitelist[i].defines

\* The values of a setting that Redis, SQS, S3 and the executor accept.
Usable(k) ==
    CASE k = "redis_port"                 -> 1..MaxPort
      [] k = "sqs_wait_time_seconds"      -> 0..20
      [] k = "sqs_max_number_of_messages" -> 1..10
      [] k \in {"sqs_visibility_timeout", "presign_ttl_sec", "default_timeout_sec"} ->
             1 .. IntValues \div 2 - 1
      [] OTHER                            -> 0 .. IntValues \div 2 - 1

\* The settings are usable, whatever the file and the command line say; and what
\* the file gives within these bounds, and within an int, is used.
SettingsUsable ==
    LET given(k) == scenario.file.keys[k][2]
    IN  pc # "boot" => \A k \in IntKeys \ {"redis_db_index", "redis_ttl_sec", "dlq_backlog_alert_count"} :
            /\ cfg.ints[k] \in Usable(k)
            /\ scenario.file.readable /\ Given(scenario.file, k, "int64") /\ given(k) \in Usable(k) =>
                  cfg.ints[k] = given(k)

\* process_job reads the message with accessors that throw, and nothing catches
\* that: whatever validate_request lets pass has the values it reads.
AccessesSafe ==
    /\ pc = "process" => NameAccess(message)
    /\ pc = "download" => /\ DownloadsAccess(message)
                          /\ file \in DOMAIN entries => EntryAccess(entries[file])
                          /\ file > Len(entries) => TaskAccess(message)
    /\ pc = "execute" => PrefixAccess(message)

\* The task runs only when this attempt has downloaded every input, however
\* often the single downloads failed and whatever an earlier attempt left.
InputsComplete == process = "running" => \A f \in Filenames : inputs[f] = attempt

\* What execute() reports is what happened, in whichever order the timer's and
\* the exit's handlers ran: an exit only of a task that ended by itself, with
\* its exit code; a timeout only when the timeout has passed.
VerdictTruthful ==
    /\ executed.outcome = "exited" => process = "exited" /\ executed.exit_code = exit_code
    /\ executed.outcome = "timed_out" => process \in {"exited", "killed"} /\ now >= deadline

\* The tail of a text is a text, a suffix of it within the limit, and short of
\* the limit by less than a character.
TailIsText ==
    LET tail == executed.stdout_tail
        all  == Len(stdout)
    IN  executed.outcome = "exited" /\ tail # <<>> =>
            /\ IsText(tail)
            /\ Len(tail) <= StdoutTailBytes
            /\ tail = SubSeq(stdout, all - Len(tail) + 1, all)
            /\ Len(tail) > StdoutTailBytes - 4 \/ Len(tail) = all

\* A job is done with the outputs of this attempt.  Those of an earlier one can
\* be among them only when the worker crashed in it, and so did not clear the
\* directory, or its task has left processes behind, which terminate() does not
\* reach.
ResultsFresh ==
    pc = "done" => \A f \in OutputFiles :
                      results[f] \in {Nobody, attempt} \/ crashes > 0 \/ results[f] \in background

\* A job is done with all the outputs that its task has written (while no
\* process is left behind that writes more).
ResultsComplete == pc = "upload" /\ left = {} /\ background = {} => results = outputs

\* The waits of a handler, and of those before it in its batch, keep within what
\* the configuration allows; the visibility timeout must not be less.
WithinBudget == pc # "boot" => now <= Batch * HandlerBudget

\* A handler ends, also when its task hangs.
HandlerEnds == pc \in Working ~> pc \notin Working

-----------------------------------------------------------------------------
(* Inductive invariants.                                                   *)

\* The worker has the configuration it was started with, and it is complete.
CfgInv ==
    /\ scenario \in Scenarios
    /\ pc # "boot" => cfg = Constructed(scenario.file, scenario.arguments)
    /\ pc \notin {"boot", "aborted"} => ValidateRequired(cfg)

\* The handler has validated its message.
MessageInv == pc \in Working => ValidateRequest(message)

\* The executor is in use only while its caller waits, and what it reports has
\* its cause: a timeout the expired timer, a killed process the timeout.
ExecInv ==
    /\ process # "none" \/ executed.outcome # "none" => pc = "execute"
    /\ process = "none" => ~waited /\ ~timed_out /\ timer = "none"
    /\ timer = "expired" \/ timed_out => now >= deadline /\ process # "none"
    /\ timed_out => process # "running" /\ timer = "done"
    /\ process = "killed" => timed_out
    /\ waited => process \in {"exited", "killed"}
    /\ executed.outcome \in {"exited", "timed_out"} => waited /\ timer = "done"
    /\ executed.outcome = "exited" => ~timed_out /\ executed.exit_code = exit_code
    /\ executed.outcome = "timed_out" => timed_out

\* What is printed is whole characters, and the tail that is reported is that of
\* what was printed: nothing is printed after the end of the task.
TextInv ==
    /\ IsText(stdout)
    /\ executed.outcome = "exited" => executed.stdout_tail \in {ReadStdoutTail(stdout), <<>>}

\* The inputs before the one in progress are there.
InputsInv ==
    /\ pc \in {"boot", "idle", "process", "retry", "down"} => file = 1
    /\ pc = "download" => \A i \in DOMAIN entries : i < file => inputs[entries[i].filename] = attempt
    /\ pc = "execute" => \A f \in Filenames : inputs[f] = attempt

\* Before the uploads there are no results, and then those that are not left.
UploadInv ==
    /\ pc \in {"boot", "idle", "process", "download", "execute", "retry", "down"} =>
           results = [f \in OutputFiles |-> Nobody]
    /\ pc = "upload" /\ background = {} => \A f \in OutputFiles \ left : results[f] = outputs[f]

\* Without a crash the directory exists only within a handler, and what is in it
\* was written by this attempt's task or by processes that others left.
FreshInv ==
    crashes = 0 =>
        /\ dir <=> pc \in {"download", "execute", "upload"}
        /\ ~dir => outputs = [f \in OutputFiles |-> Nobody]
        /\ \A f \in OutputFiles : outputs[f] \in {Nobody, attempt} \cup background
        /\ \A f \in OutputFiles : results[f] \in {Nobody, attempt} \cup background

\* What has been waited for, by where the handler is.
Others     == (Batch - 1) * HandlerBudget
Downloaded == Others + Len(entries) * PerInput
Spent      == Others + (file - 1) * PerInput
              + (IF tries = 1 THEN 0 ELSE IF tries = 2 THEN DownloadWait(1) ELSE PerInput)

BudgetInv ==
    /\ pc \in {"boot", "idle", "process", "retry", "down"} => file = 1 /\ tries = 1
    /\ pc \in {"boot", "aborted"} => now = 0
    /\ pc \in {"process", "refused"} => now <= Others
    /\ pc = "download" =>
           file <= Len(entries) + 1 /\ now <= Spent /\ (file > Len(entries) => tries = 1)
    /\ pc = "execute" /\ process = "none" => now <= Downloaded
    /\ pc = "execute" /\ process # "none" => now <= deadline /\ deadline <= Downloaded + TaskWait
    /\ pc \in {"upload", "done", "retry", "failed"} => now <= Others + HandlerBudget - RetryWait
    /\ pc \in {"idle", "down"} => now = 0 \/ now <= Others + HandlerBudget

=============================================================================
