------------------------ MODULE TaskForgeInvariants -------------------------
(***************************************************************************)
(* The inductive invariants behind the safety properties of TaskForge.     *)
(***************************************************************************)
EXTENDS TaskForge

Updating(w) == pc[w] \in {"status_get", "status_set"}

\* The handler is between the terminal-status guard and its last update.
Working(w) ==
    Updating(w) \/ pc[w] \in {"download", "execute", "upload", "record", "republish", "giveup"}

\* Nobody but the REST service knows a job that is not yet published, and
\* before it is recorded it has no document.
Unpublished(j) == api[j] \in {"new", "presigned", "recorded"}

PublicationInv ==
    /\ \A j \in Jobs : Unpublished(j) =>
          /\ \A m \in dedup : m.job # j
          /\ ~Queued(j)
          /\ \A w \in Workers : Busy(w) => Job(w) # j
    /\ \A j \in Jobs : api[j] \in {"new", "presigned"} => doc[j] = NoDoc

\* What an update in progress will write, and where it returns to.
UpdateOK(w) ==
    /\ Job(w) \in Malformed \cup Undated \/ "contract" \in upd[w].sets
    /\ ret[w] \in {"download", "cleanup", "ack"}
    /\ ret[w] = "download" => upd[w].status = "running"
    /\ ret[w] = "cleanup" => upd[w].status \in {"done", "failed"}
    /\ ret[w] = "ack" => upd[w].status \in {"queued", "failed"}
    /\ upd[w].status = "queued" => "failure_reason" \in upd[w].sets

UpdateInv == \A w \in Workers : Updating(w) => UpdateOK(w)

\* A job whose message violates the schema has no document or the one that
\* handle_message writes, and every update writes that one again.
RejectedDoc == [status |-> "failed", fields |-> {"failure_reason"}, retry |-> 0]

SchemaInv ==
    /\ \A j \in Malformed : api[j] \in {"new", "direct"} /\ doc[j] \in {NoDoc, RejectedDoc}
    /\ \A w \in Workers : Busy(w) /\ Job(w) \in Malformed =>
          /\ pc[w] \in {"received", "status_get", "status_set", "ack"}
          /\ Updating(w) => upd[w] = FailedUpdate(Job(w), 0) /\ ret[w] = "ack"
          /\ pc[w] = "status_set" => base[w] \in {NoDoc, RejectedDoc}

\* Handlers that keep within the visibility timeout exclude each other: the
\* message of the only one in progress is the one in flight.
ExclusiveInv ==
    \A w \in Workers : Busy(w) => holder = w /\ msg[w] = Head(queue)

\* Past the guard, the job of a well-formed message is not finished.
GuardInv ==
    \A w \in Workers : Working(w) /\ Job(w) \notin Malformed => ~Terminal(doc[Job(w)])

\* A message of the same job with a higher count than the one being handled.
LaterCopy(w) ==
    \E i \in 1..Len(queue) : queue[i].job = Job(w) /\ queue[i].try > msg[w].try

\* When the message is about to be deleted its job is finished or has a later
\* message.
Deletable(w) ==
    /\ Busy(w) /\ Job(w) \in Garbage => pc[w] \in {"received", "ack"}
    /\ pc[w] \in {"republish", "giveup"} => try[w] > msg[w].try
    /\ Updating(w) /\ upd[w].status = "queued" => LaterCopy(w)
    /\ pc[w] = "cleanup" => Terminal(doc[Job(w)])
    /\ pc[w] = "ack" => Job(w) \in Garbage \/ Terminal(doc[Job(w)]) \/ LaterCopy(w)

DeletableInv == \A w \in Workers : Deletable(w)

\* A retry that SQS would drop as a duplicate is not lost: while the job is not
\* finished, the queue still holds a message with the same or a higher count
\* for every deduplication id that SQS remembers.
RetryNeverLost ==
    \A m \in dedup : m.job \in Garbage \/ Terminal(doc[m.job]) \/
        \E i \in 1..Len(queue) : queue[i].job = m.job /\ queue[i].try >= m.try

\* What an update in progress says of the job's results is true, and will stay.
UpdateHonest(w) ==
    /\ upd[w].status = "done" =>
          /\ "result_download_url" \in upd[w].sets
          /\ "failure_reason" \in upd[w].erases /\ "failure_reason" \notin upd[w].sets
          /\ Job(w) \in outputs
    /\ upd[w].status = "failed" => "failure_reason" \in upd[w].sets
    /\ upd[w].status # "done" => "result_download_url" \notin upd[w].sets

HonestInv == \A w \in Workers : Updating(w) => UpdateHonest(w)

\* No update starts from a document with results, and only done ones have them.
ReadableInv ==
    /\ \A w \in Workers : pc[w] = "status_set" => "result_download_url" \notin base[w].fields
    /\ \A j \in Jobs : doc[j].status # "done" => "result_download_url" \notin doc[j].fields
    /\ FinishedDocReadable

\* The handler has recorded the start of the job's task.
Started(w) ==
    \/ pc[w] \in {"download", "execute", "upload", "record", "republish", "giveup"}
    \/ Updating(w) /\ upd[w].status \in {"queued", "done"}

\* What the document of the job in hand says at each point of its handler, when
\* nobody but the handler writes it.
Staged(w) ==
    /\ Started(w) => doc[Job(w)].status = "running"
    /\ pc[w] = "status_set" => base[w] = doc[Job(w)]
    /\ pc[w] = "republish" => try[w] \in 1..MaxRetry
    /\ Updating(w) /\ upd[w].status = "queued" => upd[w].retry \in 1..MaxRetry
    /\ Updating(w) /\ upd[w].status \in {"running", "done"} => upd[w].retry = 0

StageInv == \A w \in Workers : Staged(w)

\* A dead-letter file belongs to a job that is waiting for another attempt, or
\* that the handler has just finished; a job that is given up has none.
FileInv ==
    \A w \in Workers :
        /\ \A j \in Jobs : dlq[w][j].exists =>
              /\ j \notin Malformed \cup Garbage
              /\ Terminal(doc[j]) \/ Queued(j)
              /\ Terminal(doc[j]) => pc[w] = "cleanup" /\ Job(w) = j
        /\ Updating(w) /\ upd[w].status = "failed" /\ ret[w] = "ack" => ~dlq[w][Job(w)].exists

\* No count above the cap is published; a status update returns into its
\* handler; a handler whose receipt is the latest one has the message in flight.
CapInv ==
    /\ \A i \in 1..Len(queue) : queue[i].try <= MaxRetry
    /\ \A w \in Workers : pc[w] = "republish" => try[w] <= MaxRetry

ReturnInv == \A w \in Workers : Updating(w) => ret[w] # "idle"

HeldInv == \A w \in Workers : Busy(w) /\ holder = w => msg[w] = Head(queue)

\* The handler has not started its task, and may still do so.
BeforeRun(w) ==
    \/ pc[w] \in {"received", "check", "download", "execute"}
    \/ Updating(w) /\ ret[w] = "download"

\* What may still make the task of a job run: a message that SQS would accept,
\* one in the queue (unless its handler is past the task and goes on to delete
\* it), and a handler before the task that has lost its message to others.
Unsent(j) == {n \in 0..MaxRetry : [job |-> j, try |-> n] \notin dedup}

HeadIsSpent == \E w \in Workers : holder = w /\ Busy(w) /\ ~BeforeRun(w)

Waiting(j) == {i \in 1..Len(queue) : queue[i].job = j /\ ~(i = 1 /\ HeadIsSpent)}

Detached(j) == {w \in Workers : BeforeRun(w) /\ holder # w /\ Job(w) = j}

\* Every execution uses up one of them, and only a fault brings one back.
Chances(j) == Cardinality(Unsent(j)) + Cardinality(Waiting(j)) + Cardinality(Detached(j))

Budgeted(j) == IsFiniteSet(Detached(j)) /\ runs[j] + Chances(j) <= MaxRetry + 1 + faults

ChancesInv == \A j \in Jobs : Budgeted(j)

=============================================================================
