----------------------------- MODULE MCJobAttempt ---------------------------
(***************************************************************************)
(* The deployed configuration and a plain message, and scenarios that      *)
(* differ from them in one place.                                          *)
(***************************************************************************)
EXTENDS JobAttempt

Str(s) == <<"string", s>>
I64(n) == <<"int64", n>>

NoArguments == [k \in {} |-> ""]

DeployedFile ==
    [readable |-> TRUE,
     keys |-> [sqs_request_queue_url |-> Str("queue"), s3_bucket |-> Str("bucket"),
               sqs_visibility_timeout |-> I64(60), sqs_max_number_of_messages |-> I64(1),
               dlq_max_retry_count |-> I64(3), default_timeout_sec |-> I64(2)],
     task_whitelist |-> <<[defines |-> TRUE, name |-> "echo"]>>]

Entry(f) == [form |-> "ok", filename |-> f]

PlainMessage ==
    [job_id |-> "valid", mode |-> "execute", task |-> "object", name |-> Str("echo"),
     arguments |-> "absent", timeout_sec |-> I64(1),
     download_s3 |-> [type |-> "array", entries |-> <<>>], output_prefix |-> "string"]

Scenario(f, a, m, printed) ==
    [file |-> f, arguments |-> a, message |-> m, texts |-> printed, forks |-> FALSE, crashes |-> 0]

Plain(m) == Scenario(DeployedFile, NoArguments, m, {<<1>>})

With(entries_) == [PlainMessage EXCEPT !.download_s3.entries = entries_]

Downloads ==
    {Plain(With(<<Entry("a")>>)), Plain(With(<<Entry("a"), Entry("b")>>)),
     Plain(With(<<Entry("a"), Entry("a")>>)),
     Plain([With(<<Entry("a")>>) EXCEPT !.timeout_sec = <<"absent", 0>>])}

Messages == {Plain(m) : m \in
    {[PlainMessage EXCEPT !.job_id = v] : v \in {"absent", "not_string", "empty", "invalid"}} \cup
    {[PlainMessage EXCEPT !.mode = v] : v \in {"absent", "not_string", "unsupported"}} \cup
    {[PlainMessage EXCEPT !.task = v] : v \in {"absent", "not_object"}} \cup
    {[PlainMessage EXCEPT !.name = v] :
        v \in {<<"absent", "">>, <<"not_string", "">>, Str(""), Str("other")}} \cup
    {[PlainMessage EXCEPT !.arguments = v] : v \in {"not_array", "not_strings", "strings"}} \cup
    {[PlainMessage EXCEPT !.timeout_sec = v] :
        v \in {<<"not_int64", 0>>, I64(0), I64(-1), I64(20), I64(IntValues + 2), I64(IntValues \div 2)}} \cup
    {[PlainMessage EXCEPT !.download_s3.type = v] : v \in {"absent", "not_array"}} \cup
    {With(<<[form |-> v, filename |-> "a"]>>) :
        v \in {"not_object", "no_bucket", "no_key", "no_method", "empty"}} \cup
    {[PlainMessage EXCEPT !.output_prefix = v] : v \in {"absent", "not_string", "empty"}}}

Set(k, v) == [DeployedFile EXCEPT !.keys = [x \in DOMAIN @ \cup {k} |-> IF x = k THEN v ELSE @[x]]]

Files ==
    {[DeployedFile EXCEPT !.readable = FALSE], [DeployedFile EXCEPT !.task_whitelist = <<>>],
     [DeployedFile EXCEPT !.task_whitelist = <<[defines |-> FALSE, name |-> "echo"]>>],
     Set("s3_bucket", Str("")), Set("s3_bucket", <<"other", 0>>), Set("sqs_request_queue_url", I64(1)),
     Set("redis_port", I64(65536)), Set("redis_ttl_sec", I64(IntValues)),
     Set("default_timeout_sec", I64(IntValues + 1)), Set("default_timeout_sec", I64(0)),
     Set("default_timeout_sec", Str("1")),
     Set("dlq_max_retry_count", I64(0)), Set("dlq_max_retry_count", I64(-1)), Set("sqs_max_number_of_messages", I64(11))}

Arguments == {[sqs_request_queue_url |-> "other"], [sqs_request_queue_url |-> ""]}

Configured ==
    {Scenario(f, NoArguments, PlainMessage, {<<1>>}) : f \in Files} \cup
    {Scenario(f, a, PlainMessage, {<<1>>}) :
        f \in {DeployedFile, [DeployedFile EXCEPT !.readable = FALSE]}, a \in Arguments}

\* Batches of two, with a short timeout.
Batches ==
    {Scenario([Set("sqs_max_number_of_messages", I64(2)) EXCEPT !.keys.default_timeout_sec = I64(1)],
              NoArguments, PlainMessage, {<<1>>})}

Texts == {t \in UNION {[1..n -> Bytes] : n \in 0..6} : IsText(t)}

Printing == {Scenario(Set("dlq_max_retry_count", I64(0)), NoArguments, PlainMessage, Texts)}

Faulty ==
    {[Plain(With(<<Entry("a")>>)) EXCEPT !.forks = f, !.crashes = c] : f \in BOOLEAN, c \in 0..1}

AllScenarios == Faulty \cup Downloads \cup Messages \cup Configured \cup Batches \cup Printing

=============================================================================
