---------------------------- MODULE RequestQueue ----------------------------
(***************************************************************************)
(* The request queue: an SQS FIFO queue in which every message carries the *)
(* same message group id.  SQS and the consumer of the toolkit library are *)
(* not part of the repository; this is what the worker and the REST        *)
(* services rely on:                                                       *)
(*   - messages of one group are handed out in order, and none is handed   *)
(*     out while an earlier one is in flight, so the message in flight is  *)
(*     always the head of the queue;                                       *)
(*   - a message in flight that is not deleted becomes visible again when  *)
(*     its visibility timeout elapses, and a receipt that is not the       *)
(*     latest one deletes nothing;                                         *)
(*   - a message whose deduplication id was used within the last five      *)
(*     minutes is dropped while the sender is told that it was sent.       *)
(* A message is its job id and its dlq_try_count.  The pair is also its    *)
(* deduplication id: "<job_id>-retry-<n>" for a retry, and for the first   *)
(* message the hash of a body that holds a fresh job id and no count.      *)
(***************************************************************************)
EXTENDS Sequences, Deployment

CONSTANT NoWorker      \* "no message is in flight"

ASSUME QueueAssumption == NoWorker \notin Workers

VARIABLES queue,       \* messages, oldest first, the one in flight included
          holder,      \* whose receipt for Head(queue) is the latest
          dedup        \* deduplication ids SQS remembers

queueVars == <<queue, holder, dedup>>

Message == [job : Jobs, try : Nat]

QueueTypeOK ==
    /\ queue \in Seq(Message)
    /\ holder \in Workers \cup {NoWorker}
    /\ holder # NoWorker => queue # <<>>
    /\ dedup \in SUBSET Message

QueueInit ==
    /\ queue = <<>>
    /\ holder = NoWorker
    /\ dedup = {}

SendMessage(m) ==
    /\ queue' = IF m \in dedup THEN queue ELSE Append(queue, m)
    /\ dedup' = dedup \cup {m}
    /\ holder' = holder

ReceiveMessage(w) ==
    /\ queue # <<>>
    /\ holder = NoWorker
    /\ holder' = w
    /\ UNCHANGED <<queue, dedup>>

DeleteMessage(w) ==
    /\ queue' = IF holder = w THEN Tail(queue) ELSE queue
    /\ holder' = IF holder = w THEN NoWorker ELSE holder
    /\ dedup' = dedup

MakeVisible ==
    /\ holder' = NoWorker
    /\ UNCHANGED <<queue, dedup>>

Forget(m) ==
    /\ m \in dedup
    /\ dedup' = dedup \ {m}
    /\ UNCHANGED <<queue, holder>>

Queued(j) == \E i \in 1..Len(queue) : queue[i].job = j

=============================================================================
