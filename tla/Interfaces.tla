----------------------------- MODULE Interfaces -----------------------------
(***************************************************************************)
(* The three implementations of the REST service, in Go, Python and        *)
(* TypeScript, side by side.  Each is sent the same POST /jobs request     *)
(* while its remote calls have the same outcomes, and each may be asked    *)
(* for any document and for the catalog of tasks.  They share Redis and    *)
(* the queue.                                                              *)
(*                                                                         *)
(* A request body is a record of classes of values: the ones that some     *)
(* validator tells apart.                                                  *)
(***************************************************************************)
EXTENDS Naturals

CONSTANT Requests      \* request bodies that clients send

Impls == {"go", "python", "js"}

\* "wide" names are within 255 characters and beyond 255 bytes; "many" is more
\* arguments or files than the TypeScript service allows.
RequestBodies ==
    [task_name   : {"ok", "empty", "long"},
     arguments   : {"absent", "ok", "null", "many"},
     input_files : {"absent", "ok", "null", "many", "bad", "wide"},
     timeout_sec : {"absent", "ok", "null", "zero", "over"},
     unknown     : BOOLEAN]

ASSUME RequestsAssumption == Requests \subseteq RequestBodies

\* What the remote calls of POST /jobs answer.  "late": the call takes effect
\* although the service has given up on it.
Outcomes ==
    [presign : {"ok", "fail"}, set : {"ok", "fail", "late"}, send : {"ok", "fail", "late"}]

VARIABLES body,      \* the request all implementations are sent
          outcome,   \* the answers of their remote calls
          pc,        \* where each implementation is in serving it
          doc,       \* the status document of the job each has created
          sent,      \* timeout_sec of the message each has published
          reply,     \* the reply of each to POST /jobs
          catalog,   \* the worker has stored its catalog of tasks in Redis
          lookup     \* the last GET that was answered

vars == <<body, outcome, pc, doc, sent, reply, catalog, lookup>>

Points      == {"validate", "presign", "record", "publish", "replied"}
NotSent     == "none"
NoReply     == [status |-> 0, code |-> "none"]
Accepted    == [status |-> 202, code |-> "none"]
Reply(s, c) == [status |-> s, code |-> c]

Init ==
    /\ body \in Requests
    /\ outcome \in Outcomes
    /\ pc = [i \in Impls |-> "validate"]
    /\ doc = [i \in Impls |-> FALSE]
    /\ sent = [i \in Impls |-> NotSent]
    /\ reply = [i \in Impls |-> NoReply]
    /\ catalog = FALSE
    /\ lookup = [path |-> "none", reply |-> NoReply, known |-> FALSE]

-----------------------------------------------------------------------------
(* Validation.  Each service names its refusals in its own way.            *)

\* The length is in bytes.
GoValidFilename(b) == b.input_files \notin {"bad", "wide"}

\* A zero timeout_sec counts as absent (omitempty), and so does null.
GoRefusal(b) ==
    CASE b.task_name # "ok" \/ b.timeout_sec = "over" -> {Reply(400, "invalid_request")}
      [] ~GoValidFilename(b)                          -> {Reply(400, "invalid_filename")}
      [] OTHER                                        -> {}

\* null is no list; it is an absent timeout_sec.
PythonRefusal(b) ==
    CASE b.input_files = "bad" -> {Reply(422, "invalid_filename")}
      [] \/ b.task_name # "ok"
         \/ b.arguments = "null" \/ b.input_files = "null"
         \/ b.timeout_sec \in {"zero", "over"} -> {Reply(422, "invalid_request")}
      [] OTHER -> {}

\* null passes every optional field; fields that are not declared do not pass.
JsRefusal(b) ==
    IF \/ b.task_name # "ok"
       \/ b.arguments = "many" \/ b.input_files \in {"bad", "many"}
       \/ b.timeout_sec \in {"zero", "over"}
       \/ b.unknown
    THEN {Reply(400, "invalid_request")}
    ELSE {}

Refusal(i, b) ==
    CASE i = "go"     -> GoRefusal(b)
      [] i = "python" -> PythonRefusal(b)
      [] i = "js"     -> JsRefusal(b)

\* task.timeout_sec of the published message.
GoTimeout(b)     == IF b.timeout_sec = "ok" THEN "int" ELSE "absent"
PythonTimeout(b) == IF b.timeout_sec = "ok" THEN "int" ELSE "absent"

\* Only undefined is left out: null is serialised.
JsTimeout(b) ==
    CASE b.timeout_sec = "absent" -> "absent"
      [] b.timeout_sec = "null"   -> "null"
      [] OTHER                    -> "int"

Timeout(i, b) ==
    CASE i = "go"     -> GoTimeout(b)
      [] i = "python" -> PythonTimeout(b)
      [] i = "js"     -> JsTimeout(b)

\* A presign or a SET that fails: Go has one error for all of CreateJob, the
\* others have no domain error for it.
GoFailure     == Reply(500, "create_failed")
PythonFailure == Reply(500, "internal_error")
JsFailure     == Reply(500, "internal_error")

Failure(i) ==
    CASE i = "go"     -> GoFailure
      [] i = "python" -> PythonFailure
      [] i = "js"     -> JsFailure

EnqueueFailure == Reply(500, "create_failed")

-----------------------------------------------------------------------------
(* POST /jobs.                                                             *)

At(i, point) == pc[i] = point

GoOn(i, point) ==
    /\ pc' = [pc EXCEPT ![i] = point]
    /\ UNCHANGED <<body, outcome, reply, catalog, lookup>>

ReplyWith(i, r) ==
    /\ pc' = [pc EXCEPT ![i] = "replied"]
    /\ reply' = [reply EXCEPT ![i] = r]
    /\ UNCHANGED <<body, outcome, catalog, lookup>>

Validate(i) ==
    /\ At(i, "validate")
    /\ \/ Refusal(i, body) = {} /\ GoOn(i, "presign")
       \/ \E r \in Refusal(i, body) : ReplyWith(i, r)
    /\ UNCHANGED <<doc, sent>>

\* Without input files there is nothing to presign.
PresignInputs(i) ==
    LET fails == body.input_files \notin {"absent", "null"} /\ outcome.presign = "fail"
    IN  /\ At(i, "presign")
        /\ \/ ~fails /\ GoOn(i, "record")
           \/ fails /\ ReplyWith(i, Failure(i))
        /\ UNCHANGED <<doc, sent>>

\* Mutant: the outcome of the SET is not looked at.
RecordQueuedUnchecked(i) ==
    /\ At(i, "record")
    /\ doc' = [doc EXCEPT ![i] = outcome.set # "fail"]
    /\ GoOn(i, "publish")
    /\ UNCHANGED sent

RecordQueued(i) ==
    /\ At(i, "record")
    /\ doc' = [doc EXCEPT ![i] = outcome.set # "fail"]
    /\ \/ outcome.set = "ok" /\ GoOn(i, "publish")
       \/ outcome.set # "ok" /\ ReplyWith(i, Failure(i))
    /\ UNCHANGED sent

\* Mutant: a failed send is blamed on the request.
PublishRequestBlamesClient(i) ==
    /\ At(i, "publish")
    /\ sent' = [sent EXCEPT ![i] = IF outcome.send = "fail" THEN NotSent ELSE Timeout(i, body)]
    /\ \/ outcome.send = "ok" /\ ReplyWith(i, Accepted)
       \/ outcome.send # "ok" /\ ReplyWith(i, Reply(400, "invalid_request"))
    /\ UNCHANGED doc

PublishRequest(i) ==
    /\ At(i, "publish")
    /\ sent' = [sent EXCEPT ![i] = IF outcome.send = "fail" THEN NotSent ELSE Timeout(i, body)]
    /\ \/ outcome.send = "ok" /\ ReplyWith(i, Accepted)
       \/ outcome.send # "ok" /\ ReplyWith(i, EnqueueFailure)
    /\ UNCHANGED doc

CreateJob(i) ==
    Validate(i) \/ PresignInputs(i) \/ RecordQueued(i) \/ PublishRequest(i)

-----------------------------------------------------------------------------
(* GET /jobs/{job_id} and GET /tasks.                                      *)

\* Keys of Redis: the job that i has created is known by i's name, and the
\* catalog of the worker is a key among them.
Keys == Impls \cup {"task_catalog"}

\* The worker stores the catalog when it starts, before it consumes.
UploadTaskCatalog ==
    /\ catalog' = TRUE
    /\ UNCHANGED <<body, outcome, pc, doc, sent, reply, lookup>>

Stored(key) == IF key = "task_catalog" THEN catalog ELSE doc[key]

\* Mutant: the form is narrower than the ids one of the services issues.
IsJobIdOfTwo(key) == key \in {"go", "python"}

\* A job id has the form of a UUID.
IsJobId(key) == key \in Impls

\* Each service refuses what is not a job id in its own way ...
GoInvalidId     == Reply(404, "job_not_found")
PythonInvalidId == Reply(422, "invalid_request")
JsInvalidId     == Reply(404, "job_not_found")

InvalidId(i) ==
    CASE i = "go"     -> GoInvalidId
      [] i = "python" -> PythonInvalidId
      [] i = "js"     -> JsInvalidId

\* ... and has its own reply to a GET that fails or finds no JSON.
GetFailure(i) == IF i = "go" THEN Reply(500, "get_failed") ELSE Reply(500, "internal_error")

\* What is asked for, by a path, and has been announced.
Known(path) ==
    \/ path \in Impls /\ reply[path] = Accepted
    \/ path = "/tasks" /\ catalog

Answer(path, r) ==
    /\ lookup' = [path |-> path, reply |-> r, known |-> Known(path)]
    /\ UNCHANGED <<body, outcome, pc, doc, sent, reply, catalog>>

GetJob(i, key) ==
    \/ ~IsJobId(key) /\ Answer(key, InvalidId(i))
    \/ IsJobId(key) /\ Answer(key, GetFailure(i))
    \/ IsJobId(key) /\ Stored(key) /\ Answer(key, Reply(200, "none"))
    \/ IsJobId(key) /\ ~Stored(key) /\ Answer(key, Reply(404, "job_not_found"))

CatalogFailure(i) == IF i = "go" THEN Reply(500, "catalog_failed") ELSE Reply(500, "internal_error")

GetTaskCatalog(i) ==
    \/ Answer("/tasks", CatalogFailure(i))
    \/ Stored("task_catalog") /\ Answer("/tasks", Reply(200, "none"))
    \/ ~Stored("task_catalog") /\ Answer("/tasks", Reply(404, "catalog_not_found"))

Next ==
    \/ \E i \in Impls : CreateJob(i) \/ GetTaskCatalog(i) \/ \E key \in Keys : GetJob(i, key)
    \/ UploadTaskCatalog

Spec == Init /\ [][Next]_vars

-----------------------------------------------------------------------------
(* Properties.                                                             *)

\* 202 is replied only for a job that is recorded and published, whichever of
\* the remote calls failed or was given up on.
AcceptedIsSubmitted ==
    \A i \in Impls : reply[i] = Accepted => doc[i] /\ sent[i] # NotSent

\* A refusal, a reply that blames the request, leaves neither a document nor a
\* message: the client may correct the request and send it again.
RefusedLeavesNothing ==
    \A i \in Impls : reply[i].status \in 400..499 => ~doc[i] /\ sent[i] = NotSent

\* Once one service has accepted a job, no service says it does not exist; nor
\* does one of the catalog once the worker has stored it.
AcceptedKnownToAll == lookup.known => lookup.reply.status \notin 400..499

\* The services behave alike: they accept the same requests, and the worker
\* finds their messages equally valid (validate_request wants an integer where
\* there is a timeout_sec).
SameBehaviour ==
    \A i, k \in Impls :
        reply[i] # NoReply /\ reply[k] # NoReply =>
            (reply[i] = Accepted) = (reply[k] = Accepted) /\ (sent[i] = "null") = (sent[k] = "null")

\* Inductive: what a service has done of CreateJob, by where it is.
SubmitInv ==
    \A i \in Impls :
        /\ pc[i] \in {"validate", "presign", "record"} => ~doc[i] /\ sent[i] = NotSent
        /\ pc[i] = "publish" => doc[i] /\ sent[i] = NotSent
        /\ pc[i] # "replied" => reply[i] = NoReply
        /\ reply[i] = Accepted => doc[i] /\ sent[i] # NotSent
        /\ reply[i].status \in 400..499 => ~doc[i] /\ sent[i] = NotSent

=============================================================================
