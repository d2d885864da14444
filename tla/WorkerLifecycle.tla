--------------------------- MODULE WorkerLifecycle --------------------------
(***************************************************************************)
(* The worker process from main() to its exit code: start(), stop(), the   *)
(* signal callback, and the two threads that start() creates (the          *)
(* consumer, which runs handlers, and the backlog monitor).                *)
(*                                                                         *)
(* A signal is delivered to the main thread, so the callback interrupts    *)
(* main() wherever it is, and main() goes on only when the callback's      *)
(* stop() has returned.  The callback disarms all signals first; another   *)
(* one then has its default effect and kills the process.                  *)
(***************************************************************************)
EXTENDS Naturals

CONSTANT MaxSignals      \* bound on the signals sent to the process

ASSUME SignalsAssumption == MaxSignals \in Nat

VARIABLES main,           \* where main() is
          stop, caller,   \* where stop() is, and who has called it
          running,        \* running_
          alive,          \* objects that exist
          consumer,       \* the consumer thread
          handler,        \* the handler it runs
          monitor,        \* the backlog monitor's thread
          catalog,        \* the task catalog is in Redis
          promise,        \* number of times stop_promise_ was set
          failed,         \* exit_code
          armed,          \* signal_callback is registered
          signals,        \* signals sent so far
          arrivals        \* where main() was when they arrived (history)

threadVars == <<consumer, handler, monitor>>
stopVars   == <<stop, caller, running, promise>>
signalVars == <<signals, arrivals>>
vars       == <<main, stopVars, alive, threadVars, catalog, failed, armed, signalVars>>

StartPoints == {"pool", "redis", "connect", "catalog", "aws", "consume", "monitor"}

MainPoints ==
    {"register", "construct", "start", "wait", "abort", "reset", "tools", "join",
     "members", "deregister", "exited", "killed"} \cup StartPoints

\* The worker has started, or its start has failed.
AfterStart == {"wait", "abort", "reset", "tools", "join", "members", "deregister"}

Objects == {"worker", "tools", "pool", "redis", "s3", "publisher", "consumer"}

\* What a handler uses.
HandlerObjects == {"tools", "redis", "s3", "publisher"}

ControlTypeOK ==
    /\ main \in MainPoints
    /\ stop \in {"none", "consumer", "join", "clients", "pool", "redis", "promise"}
    /\ caller \in {"none", "main", "signal"}
    /\ alive \in SUBSET Objects
    /\ consumer \in {"off", "consuming", "draining"}
    /\ handler \in {"idle", "busy"}
    /\ monitor \in {"none", "running", "done"}
    /\ promise \in Nat
    /\ signals \in Nat

FlagsTypeOK ==
    /\ running \in BOOLEAN
    /\ catalog \in BOOLEAN
    /\ failed \in BOOLEAN
    /\ armed \in BOOLEAN

LifecycleTypeOK == ControlTypeOK /\ FlagsTypeOK /\ arrivals \subseteq MainPoints

Init ==
    /\ main = "register"
    /\ stop = "none" /\ caller = "none"
    /\ running = FALSE
    /\ alive = {}
    /\ consumer = "off" /\ handler = "idle" /\ monitor = "none"
    /\ catalog = FALSE
    /\ promise = 0
    /\ failed = FALSE
    /\ armed = FALSE
    /\ signals = 0
    /\ arrivals = {}

-----------------------------------------------------------------------------
(* stop().                                                                 *)

\* Mutant: every call of stop() runs its whole body.
CallStopAlways(by) ==
    /\ running' = FALSE
    /\ stop' = "consumer"
    /\ caller' = by
    /\ promise' = promise

\* Only the call that changes running_ from true to false has an effect.
CallStop(by) ==
    /\ \/ /\ running
          /\ running' = FALSE
          /\ stop' = "consumer"
          /\ caller' = by
       \/ /\ ~running
          /\ UNCHANGED <<running, stop, caller>>
    /\ promise' = promise

StopGoto(from, to) ==
    /\ stop = from
    /\ stop' = to
    /\ UNCHANGED <<main, caller, running, handler, monitor, catalog, failed, armed, signalVars>>

Release(objects) == alive' = alive \ objects

\* stop_consume(): no new handler begins.
StopConsuming ==
    /\ StopGoto("consumer", IF "consumer" \in alive THEN "join" ELSE "clients")
    /\ consumer' = IF consumer = "consuming" THEN "draining" ELSE consumer
    /\ UNCHANGED <<alive, promise>>

\* Mutant: the consumer is released while its handler runs.
ReleaseConsumerAtOnce ==
    /\ StopGoto("join", "clients")
    /\ consumer' = "off"
    /\ Release({"consumer"})
    /\ UNCHANGED promise

\* stop() of the consumer joins its thread, which finishes its handler first.
ReleaseConsumer ==
    /\ handler = "idle"
    /\ StopGoto("join", "clients")
    /\ consumer' = "off"
    /\ Release({"consumer"})
    /\ UNCHANGED promise

ReleaseClients ==
    /\ StopGoto("clients", "pool")
    /\ Release({"publisher", "s3"})
    /\ UNCHANGED <<consumer, promise>>

\* thread_pool_->stop(true) joins the pool's threads.
ReleasePool ==
    /\ monitor # "running"
    /\ StopGoto("pool", "redis")
    /\ Release({"pool"})
    /\ UNCHANGED <<consumer, promise>>

ReleaseRedis ==
    /\ StopGoto("redis", "promise")
    /\ Release({"redis"})
    /\ UNCHANGED <<consumer, promise>>

SetPromise ==
    /\ stop = "promise"
    /\ stop' = "none" /\ caller' = "none"
    /\ promise' = promise + 1
    /\ UNCHANGED <<main, running, alive, threadVars, catalog, failed, armed, signalVars>>

StopStep ==
    \/ StopConsuming  \/ ReleaseConsumer  \/ ReleaseClients
    \/ ReleasePool    \/ ReleaseRedis     \/ SetPromise

-----------------------------------------------------------------------------
(* main() and start().                                                     *)

\* main() runs unless it is inside stop(), its own or the callback's.
Goto(from, to) ==
    /\ stop = "none"
    /\ main = from
    /\ main' = to

Create(objects) == alive' = alive \cup objects

\* A step of start(): it continues at the next one, returns an error, or, when
\* an object it uses is gone, dereferences a null pointer.
StartStep(from, to, uses) ==
    /\ \/ uses \subseteq alive /\ (Goto(from, to) \/ Goto(from, "abort"))
       \/ ~(uses \subseteq alive) /\ Goto(from, "killed")
    /\ UNCHANGED <<stopVars, handler, failed, armed, signalVars>>

RegisterSignal ==
    /\ Goto("register", "construct")
    /\ armed' = TRUE
    /\ UNCHANGED <<stopVars, alive, threadVars, catalog, failed, signalVars>>

Construct ==
    /\ Goto("construct", "start")
    /\ Create({"worker"})
    /\ UNCHANGED <<stopVars, threadVars, catalog, failed, armed, signalVars>>

\* validate_required, then running_ is set and the executor and the
\* dead-letter store are created.
Start ==
    /\ \/ Goto("start", "pool") /\ running' = TRUE /\ Create({"tools"})
       \/ Goto("start", "abort") /\ UNCHANGED <<running, alive>>
    /\ UNCHANGED <<stop, caller, promise, threadVars, catalog, failed, armed, signalVars>>

CreateThreadPool ==
    /\ Goto("pool", "redis") \/ Goto("pool", "abort")
    /\ Create({"pool"})
    /\ UNCHANGED <<stopVars, threadVars, catalog, failed, armed, signalVars>>

MakeRedisClient ==
    /\ Goto("redis", "connect")
    /\ Create({"redis"})
    /\ UNCHANGED <<stopVars, threadVars, catalog, failed, armed, signalVars>>

\* All attempts of connect_redis.
ConnectRedis ==
    /\ StartStep("connect", "catalog", {"redis"})
    /\ UNCHANGED <<alive, consumer, monitor, catalog>>

\* Mutant: a catalog that cannot be uploaded is ignored.
UploadTaskCatalogMaybe ==
    /\ StartStep("catalog", "aws", {"redis"})
    /\ catalog' \in BOOLEAN
    /\ UNCHANGED <<alive, consumer, monitor>>

UploadTaskCatalog ==
    /\ StartStep("catalog", "aws", {"redis"})
    /\ catalog' = (main' = "aws")
    /\ UNCHANGED <<alive, consumer, monitor>>

ConnectAwsService ==
    /\ Goto("aws", "consume")
    /\ Create({"s3", "publisher", "consumer"})
    /\ UNCHANGED <<stopVars, threadVars, catalog, failed, armed, signalVars>>

StartConsume ==
    /\ StartStep("consume", "monitor", {"consumer"})
    /\ consumer' = IF main' = "monitor" THEN "consuming" ELSE consumer
    /\ UNCHANGED <<alive, monitor, catalog>>

StartDlqBacklogMonitor ==
    /\ StartStep("monitor", "wait", {"pool"})
    /\ monitor' = IF main' = "wait" THEN "running" ELSE monitor
    /\ UNCHANGED <<alive, consumer, catalog>>

WaitStop ==
    /\ Goto("wait", "reset")
    /\ promise > 0
    /\ UNCHANGED <<stopVars, alive, threadVars, catalog, failed, armed, signalVars>>

\* Mutant: a failed start is not told apart from a stop.
StartFailedSilently ==
    /\ stop = "none" /\ main = "abort" /\ main' = "reset"
    /\ CallStop("main")
    /\ UNCHANGED <<alive, threadVars, catalog, failed, armed, signalVars>>

StartFailed ==
    /\ stop = "none" /\ main = "abort" /\ main' = "reset"
    /\ CallStop("main")
    /\ failed' = TRUE
    /\ UNCHANGED <<alive, threadVars, catalog, armed, signalVars>>

\* worker_.reset(): the destructor calls stop() once more ...
ResetWorker ==
    /\ stop = "none" /\ main = "reset" /\ main' = "tools"
    /\ CallStop("main")
    /\ Release({"worker"})
    /\ UNCHANGED <<threadVars, catalog, failed, armed, signalVars>>

\* ... and then destroys the members, in the reverse order of declaration.
DestroyTools ==
    /\ Goto("tools", "join")
    /\ Release({"tools", "publisher"})
    /\ UNCHANGED <<stopVars, threadVars, catalog, failed, armed, signalVars>>

DestroyConsumer ==
    /\ Goto("join", "members")
    /\ handler = "idle"
    /\ consumer' = "off"
    /\ Release({"consumer"})
    /\ UNCHANGED <<stopVars, handler, monitor, catalog, failed, armed, signalVars>>

DestroyMembers ==
    /\ Goto("members", "deregister")
    /\ monitor # "running"
    /\ alive' = {}
    /\ UNCHANGED <<stopVars, threadVars, catalog, failed, armed, signalVars>>

Exit ==
    /\ Goto("deregister", "exited")
    /\ armed' = FALSE
    /\ UNCHANGED <<stopVars, alive, threadVars, catalog, failed, signalVars>>

MainStep ==
    \/ RegisterSignal     \/ Construct          \/ Start              \/ CreateThreadPool
    \/ MakeRedisClient    \/ ConnectRedis       \/ UploadTaskCatalog  \/ ConnectAwsService
    \/ StartConsume       \/ StartDlqBacklogMonitor                   \/ WaitStop
    \/ StartFailed        \/ ResetWorker        \/ DestroyTools       \/ DestroyConsumer
    \/ DestroyMembers     \/ Exit

-----------------------------------------------------------------------------
(* Signals and the other threads.                                          *)

Ended == main \in {"exited", "killed"}

Signalled ==
    /\ signals < MaxSignals
    /\ signals' = signals + 1
    /\ arrivals' = arrivals \cup {main}

SignalCallback ==
    /\ armed
    /\ armed' = FALSE
    /\ \/ "worker" \in alive /\ CallStop("signal")
       \/ "worker" \notin alive /\ UNCHANGED stopVars
    /\ UNCHANGED <<main, alive, threadVars, catalog, failed>>

DefaultAction ==
    /\ ~armed
    /\ main' = "killed"
    /\ UNCHANGED <<stopVars, alive, threadVars, catalog, failed, armed>>

Signal == Signalled /\ ~Ended /\ (SignalCallback \/ DefaultAction)

BeginHandler ==
    /\ consumer = "consuming" /\ handler = "idle"
    /\ handler' = "busy"

EndHandler ==
    /\ handler = "busy"
    /\ handler' = "idle"

HandlerStep ==
    /\ ~Ended
    /\ BeginHandler \/ EndHandler
    /\ UNCHANGED <<main, stopVars, alive, consumer, monitor, catalog, failed, armed, signalVars>>

\* Mutant: the monitor's loop does not look at running_.
MonitorStepEndless ==
    /\ ~Ended
    /\ monitor = "running"
    /\ UNCHANGED vars

\* The monitor's loop ends when it finds running_ false.
MonitorStep ==
    /\ ~Ended
    /\ monitor = "running" /\ ~running
    /\ monitor' = "done"
    /\ UNCHANGED <<main, stopVars, alive, consumer, handler, catalog, failed, armed, signalVars>>

ProcessStep == ~Ended /\ (MainStep \/ StopStep)

Next == ProcessStep \/ Signal \/ HandlerStep \/ MonitorStep

Spec == Init /\ [][Next]_vars

\* Threads are scheduled, and every handler ends: the task has a timeout and
\* all retries are bounded.
Fairness ==
    /\ WF_vars(ProcessStep)
    /\ WF_vars(HandlerStep /\ EndHandler)
    /\ WF_vars(MonitorStep)

FairSpec == Spec /\ Fairness

-----------------------------------------------------------------------------
(* Properties.                                                             *)

\* stop() releases the clients only after the consumer thread, which finishes
\* its handler first, is joined: a handler never runs without the objects it
\* uses, nor does the monitor without the dead-letter store.  (It takes a worker
\* that is not interrupted within start(), which does not look at running_.)
ThreadsHaveTheirObjects ==
    ~Ended /\ arrivals \cap StartPoints = {} =>
        /\ handler = "busy" => HandlerObjects \subseteq alive
        /\ monitor = "running" => "tools" \in alive

\* The promise is fulfilled at most once, however the calls of stop() by the
\* callback, by main() and by the destructor interleave (a second set_value
\* would throw).
PromiseSetOnce == promise <= 1

\* main() returns 0 only when the worker was asked to stop; a failed start
\* never looks like a regular end to the restart policy.
ZeroOnlyWhenAsked == main = "exited" /\ ~failed => signals > 0

\* Requests are consumed only once the catalog of tasks is in Redis.
CatalogBeforeConsuming == consumer = "consuming" => catalog

\* A worker that is asked to stop once it has started ends: neither its handler
\* in progress, nor the monitor, nor another signal keeps it from that.
StartedWorkerStops == signals > 0 /\ arrivals \subseteq AfterStart ~> Ended

\* A worker that is asked to stop ends, within the grace period that is sized
\* for the handler in progress.
StopRequestHonoured == signals > 0 ~> Ended

-----------------------------------------------------------------------------
(* Inductive invariants.                                                   *)

\* stop_promise_ is untouched until a call of stop() has won, and a call wins
\* only once; until start() sets running_ no call can.
StopInv ==
    /\ main \in {"register", "construct", "start"} => ~running /\ promise = 0 /\ stop = "none"
    /\ running => promise = 0 /\ stop = "none"
    /\ stop # "none" => promise = 0
    /\ promise \in {0, 1}

\* Whatever leads to a regular end began with a signal.
AskedInv ==
    failed \/ signals > 0 \/
        ~(stop # "none" \/ promise > 0 \/
          main \in {"reset", "tools", "join", "members", "deregister", "exited"})

\* start() uploads the catalog before it consumes, and never again.
CatalogInv ==
    /\ main \in {"register", "construct", "start", "pool", "redis", "connect", "catalog"} =>
           consumer = "off"
    /\ main \in {"aws", "consume"} => catalog
    /\ consumer # "off" => catalog

\* While start() runs nothing is released, and what it has created is there.
StartInv ==
  arrivals \cap StartPoints = {} =>
    /\ main \in StartPoints => running /\ "tools" \in alive
    /\ main \in {"catalog", "connect", "aws", "consume"} => "redis" \in alive
    /\ main = "consume" => HandlerObjects \cup {"consumer"} \subseteq alive

\* A thread that runs has its objects; it has ended when stop() releases them.
ThreadInv ==
  arrivals \cap StartPoints = {} =>
    /\ handler = "busy" => consumer # "off"
    /\ consumer # "off" => HandlerObjects \cup {"consumer"} \subseteq alive
    /\ monitor = "running" => "tools" \in alive
    /\ stop \in {"clients", "pool", "redis", "promise"} => consumer = "off"
    /\ stop \in {"redis", "promise"} => monitor # "running"
    /\ stop = "none" /\ ~running => consumer = "off" /\ monitor # "running"
    /\ main \in {"tools", "join", "members", "deregister"} => ~running

=============================================================================
