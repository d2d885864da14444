----------------------------- MODULE Deployment -----------------------------
(***************************************************************************)
(* The deployment the components run in: its worker instances, the jobs it *)
(* is asked to run, and its budget of faults.  A failure the code has to   *)
(* survive (a killed process, a lost delete, a Redis error ...) is a step  *)
(* that spends one unit of the budget, so every behaviour has finitely     *)
(* many of them and TLC's state space is finite.  FaultKinds selects the   *)
(* kinds a run allows:                                                     *)
(*                                                                         *)
(*   crash         a worker process is killed in the middle of a handler   *)
(*   late          the visibility timeout elapses under a live handler     *)
(*   delete        the DeleteMessage request of a finished handler is lost *)
(*   send          SendMessage fails and the message is not enqueued       *)
(*   send_timeout  SendMessage reports an error but the message is enqueued *)
(*   dedup         SQS forgets a deduplication id (its 5 minutes are over) *)
(*   redis_get     a Redis GET of the worker fails                         *)
(*   redis_set     a Redis SET of the worker fails                         *)
(*   redis_loss    Redis restarts empty, or the TTL of a key elapses       *)
(*   dlq_write     the dead-letter file of a job cannot be opened          *)
(*   dlq_flush     the content of a dead-letter file does not reach the disk *)
(*   dlq_loss      the dead-letter files of an instance disappear          *)
(*   s3            a download or an upload fails although the object exists *)
(*   api           a step of the REST service fails                        *)
(***************************************************************************)
EXTENDS Naturals

CONSTANTS Workers,     \* worker instances
          Jobs,        \* job ids
          FaultKinds, MaxFaults

ASSUME FaultsAssumption == MaxFaults \in Nat

VARIABLE faults        \* faults spent so far

Fault(kind) ==
    /\ kind \in FaultKinds
    /\ faults < MaxFaults
    /\ faults' = faults + 1

NoFault == faults' = faults

=============================================================================
