--------------------------- MODULE InterfaceProofs --------------------------
(***************************************************************************)
(* The promises of POST /jobs for every set of request bodies.             *)
(***************************************************************************)
EXTENDS Interfaces, TLAPS

\* The functions of the state have the services as their domain.
Shape ==
    /\ pc \in [Impls -> Points]
    /\ doc \in [Impls -> BOOLEAN]
    /\ sent \in [Impls -> {NotSent, "absent", "int", "null"}]
    /\ DOMAIN reply = Impls /\ reply = [i \in Impls |-> reply[i]]

\* A message carries one of three forms of timeout_sec, and is a message.
LEMMA TimeoutForms ==
    ASSUME NEW i \in Impls, NEW b
    PROVE  Timeout(i, b) \in {"absent", "int", "null"}
  BY DEF Impls, Timeout, GoTimeout, PythonTimeout, JsTimeout

\* A failed call is never blamed on the request, nor taken for success.
LEMMA FailureIs500 ==
    ASSUME NEW i \in Impls
    PROVE  /\ Failure(i).status = 500 /\ Failure(i) # Accepted
           /\ EnqueueFailure.status = 500 /\ EnqueueFailure # Accepted
  BY DEF Impls, Failure, GoFailure, PythonFailure, JsFailure, EnqueueFailure, Reply, Accepted

\* A refusal is not an acceptance.
LEMMA RefusalIsNo ==
    ASSUME NEW i \in Impls, NEW b, NEW r \in Refusal(i, b)
    PROVE  r # Accepted
  BY DEF Impls, Refusal, GoRefusal, GoValidFilename, PythonRefusal, JsRefusal, Reply, Accepted

\* One service's step of CreateJob keeps Shape and SubmitInv.
LEMMA CreateStep ==
    ASSUME Shape, SubmitInv, NEW i \in Impls, CreateJob(i)
    PROVE  Shape' /\ SubmitInv'
  <1> USE DEF Shape, SubmitInv, At, GoOn, ReplyWith, Points, NotSent, NoReply
  <1>1. CASE Validate(i)
    <2>1. CASE GoOn(i, "presign")
      BY <1>1, <2>1 DEF Validate
    <2>2. CASE \E r \in Refusal(i, body) : ReplyWith(i, r)
      BY <1>1, <2>2, RefusalIsNo DEF Validate
    <2> QED
      BY <1>1, <2>1, <2>2 DEF Validate
  <1>2. CASE PresignInputs(i)
    BY <1>2, FailureIs500 DEF PresignInputs
  <1>3. CASE RecordQueued(i)
    <2>1. doc' \in [Impls -> BOOLEAN] /\ \A k \in Impls \ {i} : doc'[k] = doc[k]
      BY <1>3 DEF RecordQueued
    <2>2. CASE outcome.set = "ok"
      <3>1. doc'[i]
        BY <1>3, <2>2 DEF RecordQueued
      <3> QED
        BY <1>3, <2>1, <2>2, <3>1 DEF RecordQueued, Accepted
    <2>3. CASE outcome.set # "ok"
      BY <1>3, <2>1, <2>3, FailureIs500 DEF RecordQueued
    <2> QED
      BY <2>2, <2>3
  <1>4. CASE PublishRequest(i)
    <2>1. Timeout(i, body) \in {"absent", "int", "null"}
      BY TimeoutForms
    <2>2. CASE outcome.send = "ok"
      <3>1. Accepted.status = 202
        BY DEF Accepted
      <3>2. sent' = [sent EXCEPT ![i] = Timeout(i, body)] /\ doc' = doc
        BY <1>4, <2>2 DEF PublishRequest
      <3>3. pc[i] = "publish" /\ ReplyWith(i, Accepted)
        BY <1>4, <2>2 DEF PublishRequest
      <3>4. Shape'
        BY <2>1, <3>2, <3>3
      <3>5. SubmitInv'
        BY <2>1, <3>1, <3>2, <3>3
      <3> QED
        BY <3>4, <3>5
    <2>3. CASE outcome.send # "ok"
      BY <1>4, <2>1, <2>3, FailureIs500 DEF PublishRequest
    <2> QED
      BY <2>2, <2>3
  <1> QED
    BY <1>1, <1>2, <1>3, <1>4 DEF CreateJob

\* Where a service is in CreateJob tells what it has done.
LEMMA Submission == Spec => []SubmitInv
  <1>1. Init => Shape /\ SubmitInv
    BY DEF Init, Shape, SubmitInv, Points, NotSent, NoReply, Accepted
  <1>2. Shape /\ SubmitInv /\ [Next]_vars => (Shape /\ SubmitInv)'
    <2> SUFFICES ASSUME Shape, SubmitInv, [Next]_vars PROVE (Shape /\ SubmitInv)'
      OBVIOUS
    <2>1. ASSUME NEW i \in Impls, CreateJob(i) PROVE (Shape /\ SubmitInv)'
      BY <2>1, CreateStep
    <2>2. ASSUME NEW i \in Impls, NEW key \in Keys, GetJob(i, key) PROVE (Shape /\ SubmitInv)'
      BY <2>2 DEF GetJob, Answer, Shape, SubmitInv
    <2>3. ASSUME NEW i \in Impls, GetTaskCatalog(i) PROVE (Shape /\ SubmitInv)'
      BY <2>3 DEF GetTaskCatalog, Answer, Shape, SubmitInv
    <2>4. CASE UploadTaskCatalog \/ UNCHANGED vars
      BY <2>4 DEF UploadTaskCatalog, vars, Shape, SubmitInv
    <2> QED
      BY <2>1, <2>2, <2>3, <2>4 DEF Next
  <1> QED
    BY <1>1, <1>2, PTL DEF Spec

\* 202 is replied only for jobs that are recorded and published.
THEOREM AcceptanceIsHonest == Spec => []AcceptedIsSubmitted
  <1>1. SubmitInv => AcceptedIsSubmitted
    BY DEF SubmitInv, AcceptedIsSubmitted
  <1> QED
    BY <1>1, Submission, PTL

\* A refused request has left neither a document nor a message.
THEOREM RefusalLeavesNothing == Spec => []RefusedLeavesNothing
  <1>1. SubmitInv => RefusedLeavesNothing
    BY DEF SubmitInv, RefusedLeavesNothing
  <1> QED
    BY <1>1, Submission, PTL

\* A job that one service has accepted, and the catalog that the worker has
\* stored, are denied by none, whichever is asked.
THEOREM AcceptedNeverDenied == Spec => []AcceptedKnownToAll
  <1>1. Init => AcceptedKnownToAll
    BY DEF Init, AcceptedKnownToAll
  <1>2. SubmitInv /\ AcceptedKnownToAll /\ [Next]_vars => AcceptedKnownToAll'
    <2> SUFFICES ASSUME SubmitInv, AcceptedKnownToAll, [Next]_vars  PROVE AcceptedKnownToAll'
      OBVIOUS
    <2>1. CASE lookup' = lookup
      BY <2>1 DEF AcceptedKnownToAll
    <2>2. ASSUME NEW i \in Impls, NEW key \in Keys, GetJob(i, key)  PROVE AcceptedKnownToAll'
      <3>1. PICK r : Answer(key, r) /\ (key \in Impls /\ doc[key] => r.status \in {200, 500})
        BY <2>2 DEF GetJob, GetFailure, Reply, IsJobId, Stored, Impls
      <3>2. lookup'.reply = r /\ (lookup'.known => key \in Impls /\ doc[key])
        BY <3>1 DEF Answer, Known, Keys, Impls, SubmitInv
      <3>3. \A n \in {200, 500} : n \notin 400..499
        OBVIOUS
      <3> QED
        BY <3>1, <3>2, <3>3 DEF AcceptedKnownToAll
    <2>3. ASSUME NEW i \in Impls, GetTaskCatalog(i)  PROVE AcceptedKnownToAll'
      <3>1. PICK r : Answer("/tasks", r) /\ (catalog => r.status \in {200, 500})
        BY <2>3 DEF GetTaskCatalog, CatalogFailure, Reply, Stored
      <3>2. lookup'.reply = r /\ (lookup'.known => catalog)
        BY <3>1 DEF Answer, Known, Impls
      <3>3. \A n \in {200, 500} : n \notin 400..499
        OBVIOUS
      <3> QED
        BY <3>1, <3>2, <3>3 DEF AcceptedKnownToAll
    <2>4. ASSUME NEW i \in Impls, CreateJob(i)  PROVE lookup' = lookup
      BY <2>4 DEF CreateJob, Validate, PresignInputs, RecordQueued, PublishRequest, GoOn, ReplyWith
    <2> QED
      BY <2>1, <2>2, <2>3, <2>4 DEF Next, UploadTaskCatalog, vars
  <1> QED
    BY <1>1, <1>2, Submission, PTL DEF Spec

=============================================================================
