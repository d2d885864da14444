# yirang-taskforge: TLA+ models, model checking and proofs

This directory specifies the task system of the repository in TLA+, checks the
specifications with TLC on small instances and proves the main properties with
TLAPS for every value of the constants. `PROJECT.json` is the index: components,
runs, the source lines behind every definition, the hazards the properties are
aimed at, the findings and the theorems.

## 1. The system

A client posts a job to one of three REST services (Go, Python, TypeScript). The
service presigns the uploads, writes a `queued` document to Redis, publishes a
request to an SQS FIFO queue and answers 202. The client uploads its inputs to S3
and polls the document. A C++ worker consumes the queue: it validates the request,
skips jobs that are finished, downloads the inputs, runs a whitelisted task, uploads
the outputs and writes the status. A failed attempt is counted in a file
(dead-letter store), published again with a higher `dlq_try_count`, and after
`dlq_max_retry_count` retries settled as `failed`.

| Part | State | Operations | Interacts with | Hard behaviour |
|---|---|---|---|---|
| Job service | one request | presign, record, publish, reply | S3, Redis, queue | a call given up on that took effect |
| Services side by side | replies | validate, create, get | Redis, queue | three validators, three error mappings |
| Request queue (external) | messages, receipt, dedup ids | send, receive, delete, reappear, forget | services, workers | redelivery, duplicates dropped silently, one group blocks |
| Status store | document per job | initial SET, GET-merge-SET, expiry, restart | services, workers | no transaction, no persistence |
| Message handler | program counter, message, update | one per remote call | all | crash between any two calls, other instances |
| Dead-letter store | file per job and instance | record, remove, can_retry, pending_count | handler, monitor | instances disagree, truncated files, orphans |
| Worker process | main, stop(), threads, objects | start steps, stop steps, signal | handler, monitor | signals anywhere, release order, exit code |
| One attempt | directory, inputs, outputs, clock | download, execute, upload, backoff | S3, executor | what an earlier attempt, a crash or a task's child leaves; time |
| Task executor | process, timer, two handlers | execute, stdout tail | attempt | timer against exit, UTF-8 boundary |
| Worker configuration | settings | defaults, file, command line, repair | all of the worker | wrap-around of int, a default that hides a missing setting |
| Message schema | a message | `validate_request` | handler | a check that lets pass what an access throws on |
| Task catalog | one document | worker's upload, GET /tasks | Redis | consumed before it is stored |
| Health endpoints, routing, envelopes | none that lasts | probe, format | | |

Section 7 says what of this is not modelled.

## 2. Modules

    Deployment                     instances, jobs, fault budget
      RequestQueue                 SQS FIFO queue (external)
      StatusStore                  Redis documents
      TaskDLQ                      dead-letter files
        JobService                 = RequestQueue + StatusStore + POST /jobs
          TaskForgeWorker          = JobService + TaskDLQ + message handler
            TaskForge              the composition, properties, refinement
              TaskForgeInvariants  inductive invariants
    JobContract                    abstract status machine of a job
    Configurations                 settings of the worker
    MessageValidation              schema of a request message
    TaskExecutor                   process, timer and their handlers
      JobAttempt                   = the three + one job's handler in detail
    WorkerLifecycle                the worker process
    Interfaces                     the three services side by side
    MCTaskForge, MCJobAttempt, MCInterfaces                 instances for TLC
    TypeProofs, DocumentProofs, BudgetProofs, RetryProofs   theorems of TaskForge
    AttemptProofs, HandlerProofs                            theorems of JobAttempt
    LifecycleProofs, InterfaceProofs                        theorems of the other two

**Deployment** bounds the environment. Everything the code has to survive is a step
that spends one unit of `MaxFaults`; `FaultKinds` says which kinds a run allows
(listed in the module). Both are constants, and the theorems hold for any budget.

**RequestQueue** is modelled from its use: all messages have one group id, so the
message in flight is the head of the queue. A message is its job and its
`dlq_try_count`, which together determine the deduplication id
(`<job_id>-retry-<n>`; for the first message the hash of a body with a fresh job id).
`holder` is the instance whose receipt is the latest.

**StatusStore** keeps of a document the status, which optional fields it has, and
`retry_count`. `contract` stands for `task_name` and `enqueued_at`. `Merged` is the
merge of `set_job_status`: keys of the update replace, null removes.

**TaskDLQ** has a record per instance and job: whether the file exists and its count.
The file is truncated before it is written and the write is not checked, so a file
may exist with count 0. `TryCount` takes the larger of the message's and the file's count.

**JobService** follows one POST per job: `PresignInputs`, `RecordQueued`,
`PublishRequest`; each can fail, and a failing call may have taken effect. Requests
published directly to the queue (`PublishDirectly`) are the only ones that can be
malformed, unparsable or without `enqueued_at`.

**TaskForgeWorker** has one action per call that leaves the process. `pc[w]` is the
place in `handle_message`/`process_job`/`handle_processing_failure`:

| pc | code | next |
|---|---|---|
| received | parse, `validate_request` | check, status_get (failed), ack |
| check | `is_terminal_status`, `find_task` | ack, status_get |
| status_get, status_set | the GET and the SET of `set_job_status` | `ret[w]` |
| download, execute, upload | the three stages, with all their attempts | next stage or record |
| record | `record_failure`, `can_retry` | republish, giveup, status_get |
| republish | publish with count and dedup id | status_get (queued), giveup |
| giveup | `remove`, then failed | status_get |
| cleanup | `remove` after done, or failed without retry | ack |
| ack | the consumer's delete | idle |

The handler returns success on every path, so `ack` deletes the message always.
`Crash` may fall between any two of these; local variables are lost, files stay.

**TaskForge** adds the environment (visibility timeout, end of the deduplication
window, Redis restart, expiry, loss of an instance's files) and states the properties.
**JobContract** is what a client may observe of a job: none → queued → running →
queued (with a retry count within the budget) | done | failed, and nothing after the last
two. A request published directly starts at running; a refused one goes straight to failed.
`TaskForge` refines it with `status` and `retries` read off the documents.

**Configurations** is the constructor of the worker's `Configurations` as a function of
the file and the command line: defaults, what the file gives with the right JSON type
(integers wrap to the width of `int`, `IntValues`), overrides, and the repair of values
out of range; `ValidateRequired` is what `start()` asks of the result.
**MessageValidation** is `validate_request`, check by check, over the classes of values
that it or a later access tells apart; the `...Access` operators say when an accessor of
`process_job` finds the type it reads and does not throw.

**TaskExecutor** is `execute()`: the task's process, the timer, and the completion
handlers of both, which `io_context.run()` may call in either order once they are due.
Time is counted in ticks of 250 ms, of which every delay in the code is a multiple.
`ReadStdoutTail` works on the bytes of a text, of which only the length of the
character they begin (or that they continue one) is kept.

**JobAttempt** takes the stages apart that are one step in `TaskForgeWorker`: `Boot`
(configure or abort), `Receive` and `ProcessJob`, one `DownloadInputs` step per attempt
of a file with its backoff, `ExecuteTask` and the executor's steps, `UploadOutput` file
by file, `FinishJob`, `FailJob` with the removal of the directory, and the backoff
before the retry. The job's directory (`dir`, `inputs`, `outputs`) outlives an attempt
when the worker crashes, and a task may leave processes behind that write into it.
`inputs[f]`, `outputs[f]` and `results[f]` are the number of the attempt that wrote the
file. Redis, the dead-letter files and other instances are `TaskForge`'s subject; here
the message comes back after a retry or a crash. The two modules are tied by their
control: every path of `JobAttempt` from `process` to `done`, `retry` or `refused` is
a path check → download → execute → upload → done, record or failed of the table above.

**WorkerLifecycle** has `main` (where `main()`/`start()` is), `stop` (where `stop()`
is), the objects that exist, the consumer thread with its handler, the monitor, the
promise, whether the catalog is in Redis, and at which points signals have arrived. A
signal interrupts the main thread (on Linux a signal sent to a process is delivered to
its main thread when that one does not block it), so `main()` moves only while
`stop = "none"`. The callback disarms the signals; a second signal has its default
effect. A step of `start()` that needs an object that has been released ends the
process, as the null pointer would.

**Interfaces** sends one request body to all three services, with the same outcomes of
their remote calls, and lets each be asked for any key and for the catalog, before and
after the worker has stored it. A body is a record of classes of values, the ones some
validator distinguishes: null, zero, too many, too long in bytes but not in characters,
an unknown field.

## 3. Runs

Passing runs:

| Run | Instance | Shows |
|---|---|---|
| `single` | 1 worker, a valid and a schema-violating job, 2 retries, any 2 faults, healthy Redis, fairness | `TypeOK`; no job is left without a message (`NotStuck`); the documents implement `JobContract` (`ImplementsContract`); nobody works on a finished job again (`FinishedNeverRuns`); every submitted job is finished (`SubmittedFinishes`) |
| `instances` | 2 workers (symmetric), 1 job, 2 retries, any 3 faults, healthy Redis | retries survive deduplication (`RetryNeverLost`), finished documents can be read without misunderstanding (`FinishedDocReadable`), a finished job stays untouched (`TerminalStable`) |
| `amnesia` | 2 workers, 1 job, Redis fails and forgets, handlers outlive the timeout, any 2 faults | `ContractFieldsPresent`, `RetryBudget` (at most one execution per allowed attempt and one per fault), `InitialNeverOverwrites` hold even so |
| `backlog` | 1 worker, 3 jobs of which one is unregistered (and lacks `enqueued_at`) and one unparsable, no crash and no unwritable file | the directory the monitor counts is empty at rest (`BacklogDrains`) |
| `lifecycle` | up to 2 signals at any point of `main()`, fairness | threads have their objects (`ThreadsHaveTheirObjects`, for a worker that is not interrupted within `start()`), `PromiseSetOnce`, `ZeroOnlyWhenAsked`, `CatalogBeforeConsuming`; a worker asked to stop once it has started ends (`StartedWorkerStops`) |
| `attempt` | 20 configurations, 37 messages, texts of up to 6 bytes, 2 attempts, a crash, tasks that hang or leave processes behind, a batch of 2, fairness | a worker runs only when configured (`StartsConfigured`) with usable settings (`SettingsUsable`); no message makes a handler throw (`AccessesSafe`); the task runs with its inputs (`InputsComplete`); `execute()` reports what happened (`VerdictTruthful`) with a tail that is a text (`TailIsText`); the outputs of a finished job are its own and complete (`ResultsFresh`, `ResultsComplete`); the waits keep within the settings' sum (`WithinBudget`) and the handler ends (`HandlerEnds`) |
| `interfaces` | 16 bodies that differ from a plain one in one field, all outcomes of the remote calls, the catalog stored or not | `AcceptedIsSubmitted`, `RefusedLeavesNothing`, `AcceptedKnownToAll` |

Runs that exhibit a disagreement between the code and what the repository says of it
(section 6): `readme_unregistered`, `orphan_crash`, `late_handler`, `lost_signal`,
`null_timeout`.

**Bounds.** Two retries let a count be published, repeated and exhausted; two instances
are what it takes for files to disagree; two or three faults allow the combinations
that matter (a crash and a lost delete; a lost file, a failed send and a forgotten
dedup id). Faults are interchangeable in time, so every order is explored. Two signals
cover a callback and a second signal; a third one finds nothing new, since the second
kills the process. In `attempt` an `int` has 2^20 values, enough for wrap-around on both
sides of every limit without slowing TLC's arithmetic; the tail has 4 bytes, so that
texts of 6 put every kind of character across the cut; the default timeout is 2 s, so
that the clock has few ticks and a request can still ask for less or for more; messages
and files differ from the deployed ones in one place, since the checks look at one
place each; two attempts are what a stale file needs. The theorems cover what the
bounds leave open.

**Deadlock** is not checked where the system really stops: when all jobs are finished,
or when the process has ended. In `interfaces` it is checked.

**Fairness.** `single`: weak fairness of each instance's handler (the consumer thread
runs, every stage is bounded by attempts and a timeout), of the restart
(`restart: unless-stopped`) and of the visibility timeout of an abandoned message. The
client's upload is not assumed: without inputs the job fails. `lifecycle`: weak
fairness of the main thread, of the end of a handler and of the monitor, which looks at
`running_` every five seconds; that a handler ends is what `HandlerEnds` shows. `attempt`: weak
fairness of the handler, in which the clock goes on while a task runs; the task itself
need not end. No fairness is assumed of new requests, handlers beginning, or faults.

**Mutants.** Next to the definitions stand the forms a plausible mistake would give
them (comments "Mutant: ..."). They are part of no specification: each shows that one
property notices that mistake.

## 4. Proofs

| Theorem | Statement | Assumes |
|---|---|---|
| `TypeCorrect` | `[]TypeOK` | |
| `ContractAlwaysPresent` | `[]ContractFieldsPresent` | nothing about faults |
| `InitialDocFirst` | `InitialNeverOverwrites` | nothing about faults |
| `RetriesWithinBudget` | `[]RetryBudget` | nothing about faults |
| `FinishedStaysFinished` | `TerminalStable` | no `late`, no `redis_get` |
| `FinishedJobsRest` | `FinishedNeverRuns` | no `late`, no `redis_get`, no `redis_loss` |
| `FinishedAlwaysReadable` | `[]FinishedDocReadable` | no `late`, no `redis_get` |
| `NoJobLeftBehind` | `[]NotStuck` | `Healthy`: no `late`, `redis_get`, `redis_set`, `redis_loss` |
| `RetriesSurviveDedup` | `[]RetryNeverLost` | `Healthy` |
| `DocumentsFollowContract` | `ImplementsContract`, the refinement of `JobContract` | `Healthy` |
| `BacklogAlwaysDrains` | `[]BacklogDrains` | `Orderly`: `Healthy`, no `crash`, no `dlq_write`, one instance |
| `LifecycleTypeCorrect`, `PromiseNeverSetTwice`, `ExitCodeTruthful`, `CatalogFirst` | `[]LifecycleTypeOK`, `[]PromiseSetOnce`, `[]ZeroOnlyWhenAsked`, `[]CatalogBeforeConsuming` | signals anywhere, any number |
| `ThreadsNeverStranded` | `[]ThreadsHaveTheirObjects` | the same; the property is about workers not interrupted within `start()` |
| `AcceptanceIsHonest`, `RefusalLeavesNothing`, `AcceptedNeverDenied` | `[]AcceptedIsSubmitted`, `[]RefusedLeavesNothing`, `[]AcceptedKnownToAll` | any request bodies |
| `WorkerConfigured`, `SettingsAlwaysUsable`, `AccessesNeverThrow` | `[]StartsConfigured`, `[]SettingsUsable`, `[]AccessesSafe` | any file, command line, message and width of `int` |
| `TailAlwaysText` | `[]TailIsText` | any texts, any `StdoutTailBytes` |
| `VerdictAlwaysTruthful`, `InputsAlwaysComplete`, `ResultsAlwaysFresh`, `ResultsAlwaysComplete`, `AlwaysWithinBudget` | `[]VerdictTruthful`, `[]InputsComplete`, `[]ResultsFresh`, `[]ResultsComplete`, `[]WithinBudget` | the same, any number of inputs, outputs, attempts and crashes |

They hold for any number of jobs, retries, signals and faults, and all but
`BacklogAlwaysDrains` for any number of instances.
`TypeProofs` also has what the operations leave alone and what holds of messages whatever
faults occur, which the others use.
`DocumentProofs` has the theorems about documents and finished jobs, `BudgetProofs` the one
about the number of executions, `RetryProofs` (which extends `DocumentProofs`) those about
retries, the contract and the backlog.

*Type correctness* includes that a handler in progress has a message and that a message
in flight is in the queue, without which `Head(queue)` and `msg[w].job` mean nothing.

*Contract fields and the initial document.* `PublicationInv`: until the service has
published a job, neither queue nor workers know it, and before it is recorded it has no
document; so the initial SET comes first. `UpdateInv`: every update in progress
restores the contract fields, whatever the GET returned, so losing documents is harmless.

*Finished jobs.* `ExclusiveInv`: handlers that keep within the visibility timeout
exclude each other, since the message of the only busy one is the one in flight.
`GuardInv`: past the guard the job of a well-formed message is not finished; this needs
exclusion, as the guard is a check that is acted on later. `SchemaInv`: a malformed
message is failed without the guard, but always with the same document.

`FinishedNeverRuns` adds that a finished document stays, and so whoever is past the guard
works on another job. It needs all three assumptions: without its document a job is
executed again when its message comes back.

*The number of executions.* `RetryBudget` compares two counters, and nothing in it says
why they move together. `ChancesInv` does: what a job has been executed, and the *chances*
it has of being executed again, are together at most `MaxRetry + 1 + faults`. A chance is a
deduplication id within the cap that SQS does not remember (`Unsent`), a message in the
queue, unless it is the one in flight and its handler is past the task (`Waiting`), or a
handler that has lost its message and is not past the task (`Detached`). An execution uses
its handler's chance up; a send turns an id into a message; a receipt changes nothing. A
fault adds at most one chance: a visibility timeout under a live handler detaches it or brings a
spent message back, so does a crash, and the end of the deduplication window frees one id.
`CapInv` (counts within the cap), `ReturnInv` and `HeldInv` (whose handler the message in
flight belongs to) make the sets change as described. The sets of queue places shift when the
head is deleted, so the step of a delete counts along a bijection (`ShiftedPlaces`).

*Readable documents.* `HonestInv`: an update in progress to done carries the URL, erases
the failure and comes after the upload; one to failed carries a reason; none but done
carries a URL. That is not enough, since the merge keeps the fields of the document
it read: `ReadableInv` adds that no update starts from a document with results, which
holds because past the guard the job is not finished.

*The contract.* The refinement mapping reads status and retry count off the documents.
The abstract steps have guards, so it must be known what the document says when an
update is written: `StageInv` states it for each place of the handler (running from the
download on, what was read is still what is there, the count of a retry is within the
cap). That nobody else writes meanwhile follows from `ExclusiveInv` and `PublicationInv`
(`DocInHand`). Writing running over running and rejecting again are stutters.

*No job left behind.* `NotStuck` is not inductive: it must be known at the delete that
the job has another message. `DeletableInv` says at each place of the handler what
that rests on: a count above the message's when it is about to republish, a later copy
once it has, a terminal document after any other update. The republish is the hard
case: SQS may drop it as a duplicate. `RetryNeverLost` closes it: while a job is not
finished, each id SQS remembers still has a message with the same or a higher count in
the queue, so a dropped retry has a copy. It is preserved because the retry's count is
above the count of the message being handled, which is why the message's count and not
only the file's has to be read (`TaskForgeWorker.cpp` 663).

*The backlog.* `FileInv`: a file belongs to a job that has a message, or to the one its
handler has just finished and is about to clean up after; a job being given up has none.
The first part rests on `DeletableInv`, which keeps a message for every unfinished job. With
two instances it is false: the retry may be settled by the one that does not have the file.

*The process.* `StopInv`: `running_` is true only before a call of `stop()` has won, and
`start()` sets it only once. `AskedInv`: what leads to a regular end began with a signal
or with a failed start. `StartInv` and `ThreadInv`: what `start()` has created is
there, a thread that runs has its objects, and `stop()` has joined it before it releases them.

*The catalog.* `CatalogInv`: `start()` reaches the consumer only past the upload.

*The services.* `SubmitInv`: where a service is in `CreateJob` tells what it has done.

*Configuration and messages.* `CfgInv` and `MessageInv` (which values a running worker
and a handler have) reduce these theorems to facts about the functions: every repair
leaves its setting in range, every check is at least as strong as the access behind it.

*An attempt.* `ExecInv`: each state of timer and process that leads to a verdict has
its cause. `TextInv`: what was printed is a text, and the tail in the report is the tail of
that, since nothing is printed after the end of the task; the rest is about `ReadStdoutTail`:
a byte that continues a character has its beginning at most three bytes before it, so
the first byte that begins one is near the cut (`CutIsNear`), and what
follows it is a text again (`SuffixIsText`). `InputsInv`: the inputs before the one in progress are this attempt's, so that
all are when the task starts, also when two have the same name. `UploadInv` and
`FreshInv`: what is uploaded is what is in the directory, and without a crash the
directory begins empty. `BudgetInv`: how much the handler has waited so far, by its place; it grows by
at most `PerInput` with every input, which keeps it a sum with one product.

## 5. Checked, not proved

- Liveness (`SubmittedFinishes`, `StartedWorkerStops`, `HandlerEnds`): the prover has
  no rules for fairness.
- Everything in the runs that exhibit a disagreement.

## 6. Findings

- `readme_unregistered`: a task outside the whitelist fails at once; README and the
  end-to-end test say after its retries.
- `orphan_crash`: a dead-letter file stays for ever, and the backlog alert with it,
  after a crash between the terminal status and the removal.
- `late_handler`: the terminal guard is check-then-act; a handler that outlives the
  visibility timeout overwrites a finished job.
- `lost_signal`: a signal before `running_` is set, or between two steps of `start()`,
  does not end the worker.
- `null_timeout`: `timeout_sec: null` is accepted by all services, but the message of
  the TypeScript service is refused by the worker.

Three assumptions of the passing runs are there because the property fails without
them (for the first two, add the fault kind to the run and TLC shows how):

- `BacklogDrains` without `dlq_write`: a failure that cannot be recorded settles the job
  and leaves the file of its earlier failure (`TaskForgeWorker.cpp` 675);
- `NotStuck` without `redis_set`: a SET that fails is only logged, the message is
  deleted, and the job stays unfinished (775);
- `ContractFieldsPresent` leaves out `Undated` jobs: `validate_request` accepts requests
  without `enqueued_at`, and `contract_fields` has none to restore (51).

`ThreadsHaveTheirObjects` leaves out workers that a signal interrupts within `start()`:
there `stop()` releases Redis and the pool while `start()` goes on to create a consumer,
whose handlers then have no Redis client. Without that condition TLC shows it.

`HandlerBudget` puts a number on the assumption `late` stands for. With the deployed
settings (30 s timeout, 3 retries) the waits of one handler add up to at most 36 s and
2.25 s per input file, S3's own transfer times not counted: within the 46 s of the
comment in `docker-compose.yml` up to 4 files, within the visibility timeout of 60 s up
to 10. In a batch of two or more messages the last handler's waits can exceed 60 s with
no file at all, since the batch is handled one by one but becomes invisible at once.

`InputsComplete` says that every named file was downloaded by this attempt, not that
every entry has a file of its own: two keys with the same last component are written to the
same name, and the later one stays (`key_filename`). `ResultsFresh` names the two ways an
older output can be uploaded: after a crash, as the directory is reused and cleared only
at the end, and from a process a task has left behind, which `terminate()` does not reach.

The services also differ in what they refuse: zero `timeout_sec` (Go accepts), null
lists (Python refuses), more than 64 arguments or 32 files and unknown fields
(TypeScript refuses), file names beyond 255 bytes (Go refuses). `SameBehaviour` fails for each of these too.

## 7. Not modelled, and limits

- Health endpoints: sequential probes that keep and change no state.
- Configuration and bootstrap of the services, routing, middleware and envelopes: wiring
  and formatting. Of the worker's configuration the log settings, credentials and
  paths of executables: no step depends on them.
- In `TaskForge` one message is received at a time (the default); batches occur in
  `JobAttempt`, as the time the earlier handlers of a batch may take.
- In `TaskForge` all attempts of a stage are one step, and time is the fault `late`;
  `JobAttempt` has the attempts and the delays but one worker and no Redis. The two are
  not composed: the product would multiply two large state spaces that share only the
  handler's control.
- `WorkerLifecycle` is not composed with `TaskForge` either: a regular stop lets the
  handler end, which in `TaskForge` is no event at all; a kill is `Crash`.
- Contents and sizes of S3 objects, URLs, and the JSON text are left out.
- The catalog's loss with Redis after `start()` is noticed by no code and not modelled.
