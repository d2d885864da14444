------------------------------- MODULE TaskDLQ ------------------------------
(***************************************************************************)
(* The file-based dead-letter store of a worker instance: one file per     *)
(* failing job, holding the number of failures recorded so far.  The file  *)
(* is truncated before it is written, and nobody looks whether the write   *)
(* succeeds, so a file may also exist and hold no count (0).               *)
(***************************************************************************)
EXTENDS Deployment, FiniteSets

CONSTANT MaxRetry      \* dlq_max_retry_count

ASSUME MaxRetryAssumption == MaxRetry \in Nat

VARIABLE dlq

Entry == [exists : BOOLEAN, count : Nat]

NoEntry == [exists |-> FALSE, count |-> 0]

DlqTypeOK == dlq \in [Workers -> [Jobs -> Entry]]

DlqInit == dlq = [w \in Workers |-> [j \in Jobs |-> NoEntry]]

\* Mutant: the count of the message is not read.
TryCountFileOnly(w, j, inbound) == dlq[w][j].count + 1

\* The count record_failure writes and returns: one more than the larger of
\* the count of the message and the count of the file.
TryCount(w, j, inbound) ==
    (IF dlq[w][j].count > inbound THEN dlq[w][j].count ELSE inbound) + 1

WriteEntry(w, j, n) == dlq' = [dlq EXCEPT ![w][j] = [exists |-> TRUE, count |-> n]]

TruncateEntry(w, j) == WriteEntry(w, j, 0)

RemoveEntry(w, j) == dlq' = [dlq EXCEPT ![w][j] = NoEntry]

RemoveAllEntries(w) == dlq' = [dlq EXCEPT ![w] = [j \in Jobs |-> NoEntry]]

\* Mutant: one retry too many.
CanRetryOnceMore(n) == n <= MaxRetry + 1

CanRetry(n) == n <= MaxRetry

PendingCount(w) == Cardinality({j \in Jobs : dlq[w][j].exists})

=============================================================================
