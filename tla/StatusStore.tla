----------------------------- MODULE StatusStore ----------------------------
(***************************************************************************)
(* The status documents in Redis, one per job id, written by the REST      *)
(* services (first document) and by the worker (every transition).  A      *)
(* document is abstracted to its status, the set of optional fields it     *)
(* contains and its retry_count (0 when absent).  "contract" stands for    *)
(* the pair task_name and enqueued_at that the API contract promises in    *)
(* every document.  A key that does not exist is NoDoc.                    *)
(***************************************************************************)
EXTENDS Deployment

VARIABLE doc

Statuses == {"none", "queued", "running", "done", "failed"}

Fields == {"contract", "failure_reason", "result_download_url"}

Document == [status : Statuses, fields : SUBSET Fields, retry : Nat]

\* What set_job_status is called with: a status, fields to set, fields whose
\* update is null, and retry_count (0 when the update does not carry it).
Update == [status : Statuses, sets : SUBSET Fields, erases : SUBSET Fields, retry : Nat]

NoDoc == [status |-> "none", fields |-> {}, retry |-> 0]

NoUpdate == [status |-> "none", sets |-> {}, erases |-> {}, retry |-> 0]

\* The document CreateJob writes before it publishes the request.
InitialDoc == [status |-> "queued", fields |-> {"contract"}, retry |-> 0]

StoreTypeOK == doc \in [Jobs -> Document]

StoreInit == doc = [j \in Jobs |-> NoDoc]

Terminal(d) == d.status \in {"done", "failed"}

Merged(d, u) ==
    [status |-> u.status,
     fields |-> (d.fields \ u.erases) \cup u.sets,
     retry  |-> IF u.retry = 0 THEN d.retry ELSE u.retry]

SetDoc(j, d) == doc' = [doc EXCEPT ![j] = d]

=============================================================================
