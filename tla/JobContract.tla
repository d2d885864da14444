---------------------------- MODULE JobContract -----------------------------
(***************************************************************************)
(* What a client may observe of a job while Redis is healthy: the status   *)
(* machine of its document.  A finished job never changes again, a retry   *)
(* goes back to queued with a retry_count within the budget, and only a    *)
(* running job can become done.                                            *)
(***************************************************************************)
EXTENDS Naturals

CONSTANTS Jobs, MaxRetry

VARIABLES status,      \* status of each job, "none" when it has no document
          retries      \* retry_count of each job, 0 when absent

Init ==
    /\ status = [j \in Jobs |-> "none"]
    /\ retries = [j \in Jobs |-> 0]

Move(j, from, to) ==
    /\ status[j] \in from
    /\ status' = [status EXCEPT ![j] = to]

Accept(j) == Move(j, {"none"}, "queued") /\ UNCHANGED retries

Start(j) == Move(j, {"none", "queued"}, "running") /\ UNCHANGED retries

Requeue(j) ==
    /\ Move(j, {"running"}, "queued")
    /\ \E n \in 1..MaxRetry : retries' = [retries EXCEPT ![j] = n]

Finish(j) == Move(j, {"running"}, "done") /\ UNCHANGED retries

Fail(j) ==
    /\ Move(j, {"none", "queued", "running"}, "failed")
    /\ retries' = [retries EXCEPT ![j] = retries'[j]]

Next == \E j \in Jobs : Accept(j) \/ Start(j) \/ Requeue(j) \/ Finish(j) \/ Fail(j)

Spec == Init /\ [][Next]_<<status, retries>>

=============================================================================
