---------------------------- MODULE MCInterfaces ----------------------------
EXTENDS Interfaces

Plain ==
    [task_name |-> "ok", arguments |-> "ok", input_files |-> "ok",
     timeout_sec |-> "ok", unknown |-> FALSE]

\* A request every service accepts, and the ones that differ from it in a field.
OneFieldApart ==
    {b \in RequestBodies :
        \E f \in DOMAIN Plain : \A g \in DOMAIN Plain \ {f} : b[g] = Plain[g]}

\* Requests whose optional fields are left out or null.
NullFields ==
    {b \in RequestBodies :
        /\ b.task_name = "ok" /\ ~b.unknown
        /\ b.arguments \in {"absent", "ok"} /\ b.input_files \in {"absent", "ok"}
        /\ b.timeout_sec \in {"absent", "ok", "null"}}

=============================================================================
