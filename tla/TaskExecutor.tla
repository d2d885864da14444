----------------------------- MODULE TaskExecutor ---------------------------
(***************************************************************************)
(* TaskExecutor::execute: the task's process, the timer, and the two       *)
(* completion handlers that io_context.run() calls in either order.        *)
(*                                                                         *)
(* Time is counted in ticks of 250 ms, of which all delays of the code are *)
(* multiples.  It passes while the task runs and while the worker sleeps;  *)
(* handlers that are due run without delay.                                *)
(***************************************************************************)
EXTENDS Integers, Sequences

CONSTANT StdoutTailBytes    \* stdout_tail_bytes

ASSUME TailAssumption == StdoutTailBytes \in Nat

VARIABLES now,         \* ticks since the message was received
          process,     \* the task's process
          exit_code,   \* its exit code
          stdout,      \* what it has printed
          timer,       \* timeout_timer: "expired" and "cancelled" when its
                       \* handler is due, without and with an error
          deadline,    \* when it expires
          timed_out,   \* result.timed_out
          waited,      \* the handler of process.async_wait has run
          executed     \* what execute() has returned

execVars == <<process, exit_code, stdout, timer, deadline, timed_out, waited>>

Second == 4
Killed == 9            \* exit_code() of a process that SIGKILL has ended

NotExecuted == [outcome |-> "none", exit_code |-> 0, stdout_tail |-> <<>>]

\* A byte of UTF-8 is 0 when it continues a character, and otherwise the length
\* of the character it begins.
Bytes == 0..4

ExecutorTypeOK ==
    /\ now \in Nat
    /\ process \in {"none", "running", "exited", "killed"}
    /\ exit_code \in Int
    /\ stdout \in Seq(Bytes)
    /\ timer \in {"none", "armed", "expired", "cancelled", "done"}
    /\ deadline \in Nat
    /\ timed_out \in BOOLEAN
    /\ waited \in BOOLEAN
    /\ executed.outcome \in {"none", "exited", "timed_out", "error"}

ExecutorInit ==
    /\ now = 0
    /\ process = "none" /\ exit_code = 0 /\ stdout = <<>>
    /\ timer = "none" /\ deadline = 0
    /\ timed_out = FALSE /\ waited = FALSE
    /\ executed = NotExecuted

\* The handler is done with the task: what is left of it is forgotten.
ExecutorReset ==
    /\ process' = "none" /\ exit_code' = 0 /\ stdout' = <<>>
    /\ timer' = "none" /\ deadline' = 0
    /\ timed_out' = FALSE /\ waited' = FALSE
    /\ executed' = NotExecuted

-----------------------------------------------------------------------------
(* read_stdout_tail.                                                       *)

\* A text is made of whole characters: what begins one is followed by the rest
\* of it, and what continues one has such a beginning.
IsText(bytes) ==
    \A i \in DOMAIN bytes :
        /\ bytes[i] > 0 => /\ i + bytes[i] - 1 <= Len(bytes)
                           /\ \A k \in i + 1 .. i + bytes[i] - 1 : bytes[k] = 0
        /\ bytes[i] = 0 => \E b \in 1 .. i - 1 : b + bytes[b] > i

\* Mutant: the bytes are cut wherever the limit falls.
ReadStdoutTailRaw(bytes) ==
    IF Len(bytes) > StdoutTailBytes
      THEN SubSeq(bytes, Len(bytes) - StdoutTailBytes + 1, Len(bytes))
      ELSE bytes

\* The last bytes, from the first one on that continues no character.
ReadStdoutTail(bytes) ==
    LET first == Len(bytes) - StdoutTailBytes + 1
        from  == CHOOSE i \in first .. Len(bytes) + 1 :
                    /\ i <= Len(bytes) => bytes[i] # 0
                    /\ \A k \in first .. i - 1 : bytes[k] = 0
    IN  IF Len(bytes) > StdoutTailBytes THEN SubSeq(bytes, from, Len(bytes)) ELSE bytes

-----------------------------------------------------------------------------
(* execute().                                                              *)

\* Mutant: a request may ask for more than the configured timeout.
EffectiveTimeoutUncapped(timeout_sec, default) ==
    IF timeout_sec > 0 THEN timeout_sec ELSE default

EffectiveTimeout(timeout_sec, default) ==
    IF timeout_sec > 0 /\ timeout_sec <= default THEN timeout_sec ELSE default

\* Mutant: the timer is not started.
StartProcessNoTimer(timeout_sec, default) ==
    /\ process' = "running"
    /\ deadline' = now + Second * EffectiveTimeout(timeout_sec, default)
    /\ timer' = "none"
    /\ UNCHANGED <<now, exit_code, stdout, timed_out, waited, executed>>

StartProcess(timeout_sec, default) ==
    /\ process' = "running"
    /\ deadline' = now + Second * EffectiveTimeout(timeout_sec, default)
    /\ timer' = "armed"
    /\ UNCHANGED <<now, exit_code, stdout, timed_out, waited, executed>>

\* No executable, no file to capture stdout in, or no process.
CannotExecute ==
    /\ executed' = [NotExecuted EXCEPT !.outcome = "error"]
    /\ UNCHANGED <<now, execVars>>

TaskExits(texts) ==
    /\ process = "running"
    /\ process' = "exited"
    /\ exit_code' \in {0, 1}
    /\ stdout' \in texts
    /\ UNCHANGED <<now, timer, deadline, timed_out, waited, executed>>

TimePasses ==
    /\ process = "running"
    /\ now < deadline
    /\ now' \in now + 1 .. deadline
    /\ UNCHANGED <<execVars, executed>>

TimerExpires ==
    /\ timer = "armed"
    /\ now >= deadline
    /\ timer' = "expired"
    /\ UNCHANGED <<now, process, exit_code, stdout, deadline, timed_out, waited, executed>>

\* Mutant: the handler does not look at timer_error.
TimerHandlerAlways ==
    /\ timer \in {"expired", "cancelled"}
    /\ timed_out' = TRUE
    /\ process' = IF process = "running" THEN "killed" ELSE process
    /\ exit_code' = IF process = "running" THEN Killed ELSE exit_code
    /\ timer' = "done"
    /\ UNCHANGED <<now, stdout, deadline, waited, executed>>

\* terminate() has no effect on a process that has ended.
TimerHandler ==
    /\ \/ /\ timer = "expired"
          /\ timed_out' = TRUE
          /\ process' = IF process = "running" THEN "killed" ELSE process
          /\ exit_code' = IF process = "running" THEN Killed ELSE exit_code
       \/ /\ timer = "cancelled"
          /\ UNCHANGED <<timed_out, process, exit_code>>
    /\ timer' = "done"
    /\ UNCHANGED <<now, stdout, deadline, waited, executed>>

\* cancel() comes too late for a timer whose handler is due already.
ExitHandler ==
    /\ process \in {"exited", "killed"} /\ ~waited
    /\ waited' = TRUE
    /\ timer' = IF timer = "armed" THEN "cancelled" ELSE timer
    /\ UNCHANGED <<now, process, exit_code, stdout, deadline, timed_out, executed>>

\* run() returns when no handler is left.  (A capture file that cannot be read
\* gives an empty tail.)
ExecuteReturns ==
    /\ waited /\ timer = "done" /\ executed.outcome = "none"
    /\ \E tail \in {ReadStdoutTail(stdout), <<>>} :
           executed' = [outcome |-> IF timed_out THEN "timed_out" ELSE "exited",
                        exit_code |-> exit_code, stdout_tail |-> tail]
    /\ UNCHANGED <<now, execVars>>

=============================================================================
