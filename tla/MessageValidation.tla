-------------------------- MODULE MessageValidation -------------------------
(***************************************************************************)
(* Request messages by the classes of values that validate_request, or an  *)
(* access of process_job, tells apart.                                     *)
(***************************************************************************)
EXTENDS Integers, Sequences

\* Where task is no object, name, arguments and timeout_sec have no meaning.
IsMessage(m) ==
    /\ m.job_id \in {"absent", "not_string", "empty", "invalid", "valid"}
    /\ m.mode \in {"absent", "not_string", "unsupported", "execute"}
    /\ m.task \in {"absent", "not_object", "object"}
    /\ m.name \in {<<"absent", "">>, <<"not_string", "">>} \cup ({"string"} \X STRING)
    /\ m.arguments \in {"absent", "not_array", "not_strings", "strings"}
    /\ m.timeout_sec \in {<<"absent", 0>>, <<"not_int64", 0>>} \cup ({"int64"} \X Int)
    /\ m.download_s3.type \in {"absent", "not_array", "array"}
    /\ m.download_s3.entries \in
           Seq([form     : {"not_object", "no_bucket", "no_key", "no_method", "empty", "ok"},
                filename : STRING])
    /\ m.output_prefix \in {"absent", "not_string", "empty", "string"}

\* The characters, and at most 64 of them.
IsValidJobId(m) == m.job_id = "valid"

\* Mutant: only the type of arguments is checked, not its elements.
ValidTaskShallow(m) ==
    /\ m.task = "object"
    /\ m.name[1] = "string" /\ m.name[2] # ""
    /\ m.arguments # "not_array"
    /\ m.timeout_sec[1] # "not_int64"

ValidTask(m) ==
    /\ m.task = "object"
    /\ m.name[1] = "string" /\ m.name[2] # ""
    /\ m.arguments \in {"absent", "strings"}
    /\ m.timeout_sec[1] # "not_int64"

ValidDownloads(m) ==
    /\ m.download_s3.type = "array"
    /\ \A i \in DOMAIN m.download_s3.entries : m.download_s3.entries[i].form = "ok"

ValidateRequest(m) ==
    /\ IsValidJobId(m)
    /\ m.mode = "execute"
    /\ ValidTask(m)
    /\ ValidDownloads(m)
    /\ m.output_prefix = "string"

-----------------------------------------------------------------------------
(* The accesses of process_job, .at(...) and as_...: they throw when the   *)
(* value is missing or has another type, and nothing catches that.         *)

NameAccess(m) ==
    /\ m.job_id \notin {"absent", "not_string"}
    /\ m.task = "object"
    /\ m.name[1] = "string"

DownloadsAccess(m) == m.download_s3.type = "array"

EntryAccess(e) == e.form \notin {"not_object", "no_bucket", "no_key"}

TaskAccess(m) == m.arguments \in {"absent", "strings"} /\ m.timeout_sec[1] # "not_int64"

PrefixAccess(m) == m.output_prefix \notin {"absent", "not_string"}

=============================================================================
