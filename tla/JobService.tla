----------------------------- MODULE JobService -----------------------------
(***************************************************************************)
(* Job creation in the REST services.  The Go, Python and TypeScript       *)
(* services run the same four steps for POST /api/v1/jobs, each of which   *)
(* ends the request with an error when it fails: presign the uploads,      *)
(* record the queued document, publish the request, answer 202.  A failed  *)
(* remote call may still have taken effect (it timed out).                 *)
(*                                                                         *)
(* Requests may also be published to the queue without the REST service;   *)
(* only those can violate the message schema, or leave out enqueued_at,    *)
(* which the schema does not require.                                      *)
(***************************************************************************)
EXTENDS RequestQueue, StatusStore

CONSTANTS Malformed,   \* jobs whose message violates the schema
          Garbage,     \* "jobs" whose message carries no usable job id
          Undated      \* jobs whose valid message has no enqueued_at

ASSUME MessageKinds == Malformed \subseteq Jobs /\ Garbage \subseteq Jobs

VARIABLES api,         \* progress of the request that creates a job
          uploaded     \* jobs all of whose input objects are in S3

apiVars == <<api, uploaded>>

ApiStates == {"new", "presigned", "recorded", "accepted", "rejected", "direct"}

FirstMessage(j) == [job |-> j, try |-> 0]

ApiTypeOK ==
    /\ api \in [Jobs -> ApiStates]
    /\ uploaded \in SUBSET Jobs

ApiInit ==
    /\ api = [j \in Jobs |-> "new"]
    /\ uploaded = {}

ApiStep(j, from, to) ==
    /\ api[j] = from
    /\ api' = [api EXCEPT ![j] = to]
    /\ UNCHANGED uploaded

PresignInputs(j) ==
    /\ j \notin Malformed \cup Garbage \cup Undated
    /\ \/ ApiStep(j, "new", "presigned") /\ NoFault
       \/ ApiStep(j, "new", "rejected") /\ Fault("api")
    /\ UNCHANGED <<queueVars, doc>>

RecordQueued(j) ==
    /\ \/ ApiStep(j, "presigned", "recorded") /\ NoFault /\ SetDoc(j, InitialDoc)
       \/ /\ ApiStep(j, "presigned", "rejected") /\ Fault("api")
          /\ SetDoc(j, InitialDoc) \/ UNCHANGED doc
    /\ UNCHANGED queueVars

\* Mutant: the request is published before the queued document is recorded.
PublishBeforeRecord(j) ==
    /\ api[j] = "presigned"
    /\ SendMessage(FirstMessage(j))
    /\ NoFault
    /\ UNCHANGED <<doc, apiVars>>

PublishRequest(j) ==
    /\ \/ ApiStep(j, "recorded", "accepted") /\ NoFault /\ SendMessage(FirstMessage(j))
       \/ /\ ApiStep(j, "recorded", "rejected") /\ Fault("api")
          /\ SendMessage(FirstMessage(j)) \/ UNCHANGED queueVars
    /\ UNCHANGED doc

\* A producer that bypasses the REST service.
PublishDirectly(j) ==
    /\ ApiStep(j, "new", "direct")
    /\ SendMessage(FirstMessage(j))
    /\ NoFault
    /\ UNCHANGED doc

\* The client PUTs its input files to the presigned URLs of the 202 answer.
UploadInputs(j) ==
    /\ api[j] \in {"accepted", "direct"}
    /\ j \notin uploaded
    /\ uploaded' = uploaded \cup {j}
    /\ NoFault
    /\ UNCHANGED <<queueVars, doc, api>>

=============================================================================
