--------------------------- MODULE Configurations ---------------------------
(***************************************************************************)
(* The worker's settings: the defaults, overridden by what the             *)
(* configuration file gives with the right type, overridden by the         *)
(* command line, and repaired where a value is out of range.               *)
(***************************************************************************)
EXTENDS Integers, Sequences

CONSTANT IntValues   \* number of values of an int (2^32 in the build)

MaxPort == 65535

ASSUME IntValuesAssumption ==
    IntValues \in Nat /\ IntValues > 2 * MaxPort /\ IntValues % 2 = 0

\* A value of the file as the readers tell it apart.
Json == ({"int64"} \X Int) \cup ({"string"} \X STRING) \cup {<<"other", 0>>}

DefaultInts ==
    [high_priority_count |-> 1, normal_priority_count |-> 2, low_priority_count |-> 1,
     redis_port |-> 6379, redis_db_index |-> 0, redis_ttl_sec |-> 3600,
     sqs_wait_time_seconds |-> 5, sqs_visibility_timeout |-> 60,
     sqs_max_number_of_messages |-> 1, presign_ttl_sec |-> 600,
     dlq_max_retry_count |-> 3, dlq_backlog_alert_count |-> 10, default_timeout_sec |-> 30]

DefaultStrings ==
    [redis_host |-> "127.0.0.1", aws_region |-> "us-east-1", aws_endpoint |-> "",
     sqs_request_queue_url |-> "", sqs_message_group_id |-> "request",
     s3_bucket |-> "", dlq_path |-> ""]

IntKeys    == DOMAIN DefaultInts
StringKeys == DOMAIN DefaultStrings

\* Settings that the command line may override.
ArgumentKeys == {"redis_host", "aws_endpoint", "sqs_request_queue_url"}

\* A file that cannot be opened, read or parsed, or is no object, is not
\* readable.  An entry of its whitelist defines a task when it is an object
\* with a name and an executable; the others are ignored.
WhitelistEntry == [defines : BOOLEAN, name : STRING]

IsFile(f) ==
    /\ f.readable \in BOOLEAN
    /\ DOMAIN f.keys \subseteq IntKeys \cup StringKeys
    /\ \A k \in DOMAIN f.keys : f.keys[k] \in Json
    /\ f.task_whitelist \in Seq(WhitelistEntry)

IsArguments(a) ==
    /\ DOMAIN a \subseteq ArgumentKeys
    /\ \A k \in DOMAIN a : a[k] \in STRING

Defaults == [ints |-> DefaultInts, strings |-> DefaultStrings, task_whitelist |-> {}]

-----------------------------------------------------------------------------
(* load().                                                                 *)

\* (int) of an int64.
ToInt(n) == ((n + IntValues \div 2) % IntValues) - IntValues \div 2

Given(f, k, type) == k \in DOMAIN f.keys /\ f.keys[k][1] = type

\* read_long keeps the value, read_int converts it.
ReadInt(f, k, default) ==
    IF ~Given(f, k, "int64")    THEN default
    ELSE IF k = "redis_ttl_sec" THEN f.keys[k][2]
    ELSE ToInt(f.keys[k][2])

ReadString(f, k, default) == IF Given(f, k, "string") THEN f.keys[k][2] ELSE default

\* The names of the tasks that the whitelist defines.
ReadWhitelist(f) ==
    {f.task_whitelist[i].name : i \in {j \in DOMAIN f.task_whitelist : f.task_whitelist[j].defines}}

Load(c, f) ==
    IF f.readable
      THEN [ints           |-> [k \in IntKeys |-> ReadInt(f, k, c.ints[k])],
            strings        |-> [k \in StringKeys |-> ReadString(f, k, c.strings[k])],
            task_whitelist |-> ReadWhitelist(f)]
      ELSE c

-----------------------------------------------------------------------------
(* parse(), validate_configuration() and validate_required().              *)

Parse(c, a) ==
    [ints           |-> c.ints,
     strings        |-> [k \in StringKeys |-> IF k \in DOMAIN a THEN a[k] ELSE c.strings[k]],
     task_whitelist |-> c.task_whitelist]

Valid(k, n) ==
    CASE k = "redis_port"                 -> n > 0 /\ n <= MaxPort
      [] k = "sqs_wait_time_seconds"      -> n >= 0 /\ n <= 20
      [] k = "sqs_max_number_of_messages" -> n > 0 /\ n <= 10
      [] k \in {"sqs_visibility_timeout", "presign_ttl_sec", "default_timeout_sec"} -> n > 0
      [] k \in {"redis_db_index", "dlq_backlog_alert_count"} -> TRUE
      [] OTHER                            -> n >= 0

\* What is out of range falls back to the figure that is also the default.
ValidateConfiguration(c) ==
    [ints           |-> [k \in IntKeys |-> IF Valid(k, c.ints[k]) THEN c.ints[k] ELSE DefaultInts[k]],
     strings        |-> [c.strings EXCEPT !.dlq_path = IF @ = "" THEN "root/dlq" ELSE @],
     task_whitelist |-> c.task_whitelist]

\* Mutant: the defaults are validated, and then the file is loaded.
ConstructedUnchecked(f, a) == Parse(Load(ValidateConfiguration(Defaults), f), a)

\* The constructor.
Constructed(f, a) == ValidateConfiguration(Parse(Load(Defaults, f), a))

\* Mutant: the whitelist may be empty.
ValidateRequiredNoTasks(c) ==
    c.strings.sqs_request_queue_url # "" /\ c.strings.s3_bucket # ""

ValidateRequired(c) ==
    c.strings.sqs_request_queue_url # "" /\ c.strings.s3_bucket # "" /\ c.task_whitelist # {}

=============================================================================
