--------------------------- MODULE LifecycleProofs --------------------------
(***************************************************************************)
(* The worker process for any number of signals: its promise is set at     *)
(* most once and its exit code tells the truth wherever signals arrive;    *)
(* its threads have their objects when no signal interrupts start().       *)
(***************************************************************************)
EXTENDS WorkerLifecycle, TLAPS

USE DEF StartPoints, MainPoints

\* Where the threads are, and what exists, stays in its type.
LEMMA ControlStep == ControlTypeOK /\ [Next]_vars => ControlTypeOK'
  <1> SUFFICES ASSUME ControlTypeOK, [Next]_vars PROVE ControlTypeOK'
    OBVIOUS
  <1> USE DEF ControlTypeOK, vars, stopVars, signalVars, threadVars, Objects, Goto, Create, Release
  <1>1. ASSUME StopStep PROVE ControlTypeOK'
    <2>1. CASE StopConsuming
      BY <2>1 DEF StopGoto, StopConsuming
    <2>2. CASE ReleaseConsumer \/ ReleaseClients
      BY <2>2 DEF StopGoto, ReleaseConsumer, ReleaseClients
    <2>3. CASE ReleasePool \/ ReleaseRedis
      BY <2>3 DEF StopGoto, ReleasePool, ReleaseRedis
    <2>4. CASE SetPromise
      BY <2>4 DEF SetPromise
    <2> QED
      BY <1>1, <2>1, <2>2, <2>3, <2>4 DEF StopStep
  <1>2. ASSUME RegisterSignal \/ Construct \/ Start \/ CreateThreadPool \/ MakeRedisClient
        PROVE  ControlTypeOK'
    <2>1. CASE RegisterSignal \/ Construct
      BY <2>1, Zenon DEF RegisterSignal, Construct
    <2>2. CASE Start
      BY <2>2, Zenon DEF Start
    <2>3. CASE CreateThreadPool \/ MakeRedisClient
      BY <2>3, Zenon DEF CreateThreadPool, MakeRedisClient
    <2> QED
      BY <1>2, <2>1, <2>2, <2>3
  <1>3. ASSUME ConnectRedis \/ UploadTaskCatalog \/ ConnectAwsService
               \/ StartConsume \/ StartDlqBacklogMonitor
        PROVE  ControlTypeOK'
    <2>1. CASE ConnectRedis \/ UploadTaskCatalog
      BY <2>1, Zenon DEF ConnectRedis, UploadTaskCatalog, StartStep
    <2>2. CASE ConnectAwsService
      BY <2>2, Zenon DEF ConnectAwsService
    <2>3. CASE StartConsume \/ StartDlqBacklogMonitor
      BY <2>3, Zenon DEF StartConsume, StartDlqBacklogMonitor, StartStep
    <2> QED
      BY <1>3, <2>1, <2>2, <2>3
  <1>4. ASSUME WaitStop \/ StartFailed \/ ResetWorker PROVE ControlTypeOK'
    <2>1. CASE WaitStop
      BY <2>1 DEF WaitStop
    <2>2. CASE StartFailed
      BY <2>2 DEF StartFailed, CallStop
    <2>3. CASE ResetWorker
      BY <2>3 DEF ResetWorker, CallStop
    <2> QED
      BY <1>4, <2>1, <2>2, <2>3
  <1>5. ASSUME DestroyTools \/ DestroyConsumer \/ DestroyMembers \/ Exit PROVE ControlTypeOK'
    BY <1>5 DEF DestroyTools, DestroyConsumer, DestroyMembers, Exit
  <1>6. ASSUME Signal PROVE ControlTypeOK'
    <2>1. signals' \in Nat
      BY <1>6 DEF Signal, Signalled
    <2>2. CASE SignalCallback
      BY <2>1, <2>2 DEF SignalCallback, CallStop
    <2>3. CASE DefaultAction
      BY <2>1, <2>3 DEF DefaultAction
    <2> QED
      BY <1>6, <2>2, <2>3 DEF Signal
  <1>7. ASSUME HandlerStep \/ MonitorStep PROVE ControlTypeOK'
    <2>1. CASE HandlerStep
      <3>1. handler' \in {"idle", "busy"}
        BY <2>1, Zenon DEF HandlerStep, BeginHandler, EndHandler
      <3>2. UNCHANGED <<main, stop, caller, promise, alive, consumer, monitor, signals>>
        BY <2>1, Zenon DEF HandlerStep
      <3> QED
        BY <3>1, <3>2
    <2>2. CASE MonitorStep
      <3>1. monitor' = "done"
        BY <2>2, Zenon DEF MonitorStep
      <3>2. UNCHANGED <<main, stop, caller, promise, alive, consumer, handler, signals>>
        BY <2>2, Zenon DEF MonitorStep
      <3> QED
        BY <3>1, <3>2
    <2> QED
      BY <1>7, <2>1, <2>2
  <1>8. CASE UNCHANGED vars
    BY <1>8
  <1> QED
    BY <1>1, <1>2, <1>3, <1>4, <1>5, <1>6, <1>7, <1>8 DEF Next, ProcessStep, MainStep

\* The flags stay Boolean.
LEMMA FlagsStep == FlagsTypeOK /\ [Next]_vars => FlagsTypeOK'
  <1> SUFFICES ASSUME FlagsTypeOK, [Next]_vars PROVE FlagsTypeOK'
    OBVIOUS
  <1> USE DEF FlagsTypeOK, vars, stopVars, signalVars
  <1>1. ASSUME StopStep PROVE FlagsTypeOK'
    BY <1>1, Zenon DEF StopStep, StopGoto, StopConsuming, ReleaseConsumer, ReleaseClients,
                       ReleasePool, ReleaseRedis, SetPromise
  <1>2. ASSUME RegisterSignal \/ Construct \/ Start \/ CreateThreadPool \/ MakeRedisClient
        PROVE  FlagsTypeOK'
    BY <1>2, Zenon DEF RegisterSignal, Construct, Start, CreateThreadPool, MakeRedisClient
  <1>3. ASSUME ConnectRedis \/ ConnectAwsService \/ StartConsume \/ StartDlqBacklogMonitor
        PROVE  FlagsTypeOK'
    BY <1>3, Zenon DEF ConnectRedis, ConnectAwsService, StartStep,
                       StartConsume, StartDlqBacklogMonitor
  <1>4. ASSUME UploadTaskCatalog PROVE FlagsTypeOK'
    BY <1>4, Zenon DEF UploadTaskCatalog, StartStep
  <1>5. ASSUME WaitStop \/ StartFailed \/ ResetWorker PROVE FlagsTypeOK'
    BY <1>5, Zenon DEF WaitStop, StartFailed, ResetWorker, CallStop
  <1>6. ASSUME DestroyTools \/ DestroyConsumer \/ DestroyMembers \/ Exit PROVE FlagsTypeOK'
    BY <1>6, Zenon DEF DestroyTools, DestroyConsumer, DestroyMembers, Exit
  <1>7. ASSUME Signal PROVE FlagsTypeOK'
    BY <1>7, Zenon DEF Signal, Signalled, SignalCallback, DefaultAction, CallStop
  <1>8. ASSUME HandlerStep \/ MonitorStep PROVE FlagsTypeOK'
    BY <1>8, Zenon DEF HandlerStep, MonitorStep
  <1>9. CASE UNCHANGED vars
    BY <1>9, Zenon
  <1> QED
    BY <1>1, <1>2, <1>3, <1>4, <1>5, <1>6, <1>7, <1>8, <1>9 DEF Next, ProcessStep, MainStep

\* Only a signal adds to the arrivals.
LEMMA ArrivalsStep == [Next]_vars => arrivals' \in {arrivals, arrivals \cup {main}}
  <1> SUFFICES ASSUME [Next]_vars PROVE arrivals' = arrivals \/ arrivals' = arrivals \cup {main}
    BY Zenon
  <1> USE DEF vars, signalVars
  <1>1. ASSUME StopStep PROVE arrivals' = arrivals
    BY <1>1, Zenon DEF StopStep, StopGoto, StopConsuming, ReleaseConsumer, ReleaseClients,
                       ReleasePool, ReleaseRedis, SetPromise
  <1>2. ASSUME MainStep PROVE arrivals' = arrivals
    BY <1>2, Zenon DEF MainStep, RegisterSignal, Construct, Start, CreateThreadPool,
                       MakeRedisClient, ConnectRedis, UploadTaskCatalog, ConnectAwsService,
                       StartConsume, StartDlqBacklogMonitor, StartStep, WaitStop, StartFailed,
                       ResetWorker, DestroyTools, DestroyConsumer, DestroyMembers, Exit
  <1>3. ASSUME Signal PROVE arrivals' = arrivals \cup {main}
    BY <1>3, Zenon DEF Signal, Signalled
  <1>4. ASSUME HandlerStep \/ MonitorStep PROVE arrivals' = arrivals
    BY <1>4, Zenon DEF HandlerStep, MonitorStep
  <1> QED
    BY <1>1, <1>2, <1>3, <1>4, Zenon DEF Next, ProcessStep

\* The type invariant of the worker process.
THEOREM LifecycleTypeCorrect == Spec => []LifecycleTypeOK
  <1>1. Init => ControlTypeOK
    BY DEF Init, ControlTypeOK
  <1>2. Init => FlagsTypeOK
    BY Zenon DEF Init, FlagsTypeOK
  <1>3. Init => arrivals \subseteq MainPoints
    BY DEF Init
  <1>4. ControlTypeOK /\ arrivals \subseteq MainPoints /\ [Next]_vars =>
            (arrivals \subseteq MainPoints)'
    <2> SUFFICES ASSUME ControlTypeOK, arrivals \subseteq MainPoints, [Next]_vars
                 PROVE  (arrivals \subseteq MainPoints)'
      OBVIOUS
    <2>1. main \in MainPoints
      BY DEF ControlTypeOK
    <2> HIDE DEF MainPoints
    <2>2. arrivals' \in {arrivals, arrivals \cup {main}}
      BY Zenon, ArrivalsStep
    <2> QED
      BY <2>1, <2>2
  <1> QED
    BY <1>1, <1>2, <1>3, <1>4, ControlStep, FlagsStep, PTL DEF Spec, LifecycleTypeOK

\* StopInv is inductive: before running_ is set no call of stop() gets past the
\* exchange, and the one that does leaves running_ false for good.
LEMMA StopInductive == StopInv /\ [Next]_vars => StopInv'
  <1> SUFFICES ASSUME StopInv, [Next]_vars PROVE StopInv'
    OBVIOUS
  <1> USE DEF StopInv, vars, stopVars, signalVars, threadVars, Goto
  <1>1. ASSUME StopStep PROVE StopInv'
    BY <1>1 DEF StopStep, StopGoto, StopConsuming, ReleaseConsumer, ReleaseClients,
                ReleasePool, ReleaseRedis, SetPromise
  <1>2. ASSUME RegisterSignal \/ Construct \/ Start \/ CreateThreadPool \/ MakeRedisClient
        PROVE  StopInv'
    BY <1>2 DEF RegisterSignal, Construct, Start, CreateThreadPool, MakeRedisClient
  <1>3. ASSUME ConnectRedis \/ UploadTaskCatalog \/ ConnectAwsService
               \/ StartConsume \/ StartDlqBacklogMonitor
        PROVE  StopInv'
    BY <1>3 DEF ConnectRedis, UploadTaskCatalog, ConnectAwsService, StartStep,
                StartConsume, StartDlqBacklogMonitor
  <1>4. ASSUME WaitStop \/ StartFailed \/ ResetWorker PROVE StopInv'
    BY <1>4 DEF WaitStop, StartFailed, ResetWorker, CallStop
  <1>5. ASSUME DestroyTools \/ DestroyConsumer \/ DestroyMembers \/ Exit PROVE StopInv'
    BY <1>5 DEF DestroyTools, DestroyConsumer, DestroyMembers, Exit
  <1>6. ASSUME Signal PROVE StopInv'
    BY <1>6 DEF Signal, Signalled, SignalCallback, DefaultAction, CallStop, Ended
  <1>7. ASSUME HandlerStep \/ MonitorStep PROVE StopInv'
    BY <1>7 DEF HandlerStep, BeginHandler, EndHandler, MonitorStep, Ended
  <1>8. CASE UNCHANGED vars
    BY <1>8
  <1> QED
    BY <1>1, <1>2, <1>3, <1>4, <1>5, <1>6, <1>7, <1>8 DEF Next, ProcessStep, MainStep

\* However many signals arrive, and wherever they do, the calls of stop() by the
\* callback, by main() and by the destructor set the promise at most once.
THEOREM PromiseNeverSetTwice == Spec => []PromiseSetOnce
  <1>1. Init => StopInv
    BY DEF Init, StopInv
  <1>2. StopInv => PromiseSetOnce
    BY DEF StopInv, PromiseSetOnce
  <1> QED
    BY <1>1, <1>2, StopInductive, PTL DEF Spec

\* AskedInv is inductive: without a signal stop() runs only after a failed
\* start, and main() gets past wait_stop() only when stop() has run.
LEMMA AskedStep == ControlTypeOK /\ AskedInv /\ [Next]_vars => AskedInv'
  <1> SUFFICES ASSUME ControlTypeOK, AskedInv, [Next]_vars PROVE AskedInv'
    OBVIOUS
  <1> USE DEF ControlTypeOK, AskedInv, vars, stopVars, signalVars, threadVars, Goto
  <1>1. ASSUME StopStep PROVE AskedInv'
    BY <1>1 DEF StopStep, StopGoto, StopConsuming, ReleaseConsumer, ReleaseClients,
                ReleasePool, ReleaseRedis, SetPromise
  <1>2. ASSUME RegisterSignal \/ Construct \/ Start \/ CreateThreadPool \/ MakeRedisClient
        PROVE  AskedInv'
    BY <1>2 DEF RegisterSignal, Construct, Start, CreateThreadPool, MakeRedisClient
  <1>3. ASSUME ConnectRedis \/ UploadTaskCatalog \/ ConnectAwsService
               \/ StartConsume \/ StartDlqBacklogMonitor
        PROVE  AskedInv'
    BY <1>3 DEF ConnectRedis, UploadTaskCatalog, ConnectAwsService, StartStep,
                StartConsume, StartDlqBacklogMonitor
  <1>4. ASSUME WaitStop \/ StartFailed \/ ResetWorker PROVE AskedInv'
    BY <1>4 DEF WaitStop, StartFailed, ResetWorker, CallStop
  <1>5. ASSUME DestroyTools \/ DestroyConsumer \/ DestroyMembers \/ Exit PROVE AskedInv'
    BY <1>5 DEF DestroyTools, DestroyConsumer, DestroyMembers, Exit
  <1>6. ASSUME Signal PROVE AskedInv'
    BY <1>6 DEF Signal, Signalled
  <1>7. ASSUME HandlerStep \/ MonitorStep PROVE AskedInv'
    BY <1>7 DEF HandlerStep, MonitorStep
  <1>8. CASE UNCHANGED vars
    BY <1>8
  <1> QED
    BY <1>1, <1>2, <1>3, <1>4, <1>5, <1>6, <1>7, <1>8 DEF Next, ProcessStep, MainStep

\* The process returns 0 only when a signal asked it to stop.
THEOREM ExitCodeTruthful == Spec => []ZeroOnlyWhenAsked
  <1>1. Init => AskedInv
    BY DEF Init, AskedInv
  <1>2. AskedInv => ZeroOnlyWhenAsked
    BY DEF AskedInv, ZeroOnlyWhenAsked
  <1>3. LifecycleTypeOK => ControlTypeOK
    BY DEF LifecycleTypeOK
  <1> QED
    BY <1>1, <1>2, <1>3, AskedStep, LifecycleTypeCorrect, PTL DEF Spec

\* Requests are consumed only when start() has uploaded the catalog, whatever
\* signals interrupt it.
THEOREM CatalogFirst == Spec => []CatalogBeforeConsuming
  <1>1. Init => CatalogInv
    BY DEF Init, CatalogInv
  <1>2. CatalogInv /\ [Next]_vars => CatalogInv'
    <2> SUFFICES ASSUME CatalogInv, [Next]_vars PROVE CatalogInv'
      OBVIOUS
    <2> USE DEF CatalogInv, vars, stopVars, signalVars, threadVars, Goto
    <2>1. ASSUME StopStep PROVE CatalogInv'
      BY <2>1 DEF StopStep, StopGoto, StopConsuming, ReleaseConsumer, ReleaseClients,
                  ReleasePool, ReleaseRedis, SetPromise
    <2>2. ASSUME RegisterSignal \/ Construct \/ Start \/ CreateThreadPool \/ MakeRedisClient
          PROVE  CatalogInv'
      BY <2>2 DEF RegisterSignal, Construct, Start, CreateThreadPool, MakeRedisClient
    <2>3. ASSUME ConnectRedis \/ UploadTaskCatalog \/ ConnectAwsService PROVE CatalogInv'
      BY <2>3 DEF ConnectRedis, UploadTaskCatalog, ConnectAwsService, StartStep
    <2>4. ASSUME StartConsume \/ StartDlqBacklogMonitor PROVE CatalogInv'
      BY <2>4 DEF StartConsume, StartDlqBacklogMonitor, StartStep
    <2>5. ASSUME WaitStop \/ StartFailed \/ ResetWorker PROVE CatalogInv'
      BY <2>5 DEF WaitStop, StartFailed, ResetWorker, CallStop
    <2>6. ASSUME DestroyTools \/ DestroyConsumer \/ DestroyMembers \/ Exit PROVE CatalogInv'
      BY <2>6 DEF DestroyTools, DestroyConsumer, DestroyMembers, Exit
    <2>7. ASSUME Signal PROVE CatalogInv'
      BY <2>7 DEF Signal, Signalled, SignalCallback, DefaultAction
    <2>8. ASSUME HandlerStep \/ MonitorStep PROVE CatalogInv'
      BY <2>8 DEF HandlerStep, MonitorStep
    <2>9. CASE UNCHANGED vars
      BY <2>9
    <2> QED
      BY <2>1, <2>2, <2>3, <2>4, <2>5, <2>6, <2>7, <2>8, <2>9 DEF Next, ProcessStep, MainStep
  <1>3. CatalogInv => CatalogBeforeConsuming
    BY DEF CatalogInv, CatalogBeforeConsuming
  <1> QED
    BY <1>1, <1>2, <1>3, PTL DEF Spec

\* While start() is not interrupted, no call of stop() runs within it.
LEMMA StartStays ==
    ASSUME StopInv, StartInv, [Next]_vars
    PROVE  StartInv'
  <1> USE DEF StartInv, StopInv, vars, stopVars, signalVars, threadVars, Goto, Create, Release, HandlerObjects
  <1>1. ASSUME StopStep PROVE StartInv'
    BY <1>1 DEF StopStep, StopGoto, StopConsuming, ReleaseConsumer, ReleaseClients,
                ReleasePool, ReleaseRedis, SetPromise
  <1>2. ASSUME RegisterSignal \/ Construct \/ Start \/ CreateThreadPool \/ MakeRedisClient
        PROVE  StartInv'
    BY <1>2 DEF RegisterSignal, Construct, Start, CreateThreadPool, MakeRedisClient
  <1>3. ASSUME ConnectRedis \/ UploadTaskCatalog \/ ConnectAwsService
               \/ StartConsume \/ StartDlqBacklogMonitor
        PROVE  StartInv'
    BY <1>3 DEF ConnectRedis, UploadTaskCatalog, ConnectAwsService, StartStep,
                StartConsume, StartDlqBacklogMonitor
  <1>4. ASSUME WaitStop \/ StartFailed \/ ResetWorker PROVE StartInv'
    BY <1>4 DEF WaitStop, StartFailed, ResetWorker, CallStop
  <1>5. ASSUME DestroyTools \/ DestroyConsumer \/ DestroyMembers \/ Exit PROVE StartInv'
    BY <1>5 DEF DestroyTools, DestroyConsumer, DestroyMembers, Exit
  <1>6. ASSUME Signal PROVE StartInv'
    BY <1>6 DEF Signal, Signalled, SignalCallback, DefaultAction, CallStop
  <1>7. ASSUME HandlerStep \/ MonitorStep PROVE StartInv'
    BY <1>7 DEF HandlerStep, MonitorStep
  <1>8. CASE UNCHANGED vars
    BY <1>8
  <1> QED
    BY <1>1, <1>2, <1>3, <1>4, <1>5, <1>6, <1>7, <1>8 DEF Next, ProcessStep, MainStep

\* ThreadInv is inductive: stop() joins each thread before it releases what the
\* thread uses, and the destructor finds both threads ended.
LEMMA ThreadStep ==
    ASSUME StopInv, StartInv, ThreadInv, [Next]_vars
    PROVE  ThreadInv'
  <1> USE DEF ThreadInv, StartInv, StopInv, vars, stopVars, signalVars, threadVars,
              Goto, Create, Release, HandlerObjects
  <1>1. ASSUME StopConsuming \/ ReleaseConsumer \/ ReleaseClients PROVE ThreadInv'
    BY <1>1 DEF StopGoto, StopConsuming, ReleaseConsumer, ReleaseClients
  <1>2. ASSUME ReleasePool \/ ReleaseRedis \/ SetPromise PROVE ThreadInv'
    BY <1>2 DEF StopGoto, ReleasePool, ReleaseRedis, SetPromise
  <1>3. ASSUME RegisterSignal \/ Construct \/ Start \/ CreateThreadPool \/ MakeRedisClient
        PROVE  ThreadInv'
    BY <1>3 DEF RegisterSignal, Construct, Start, CreateThreadPool, MakeRedisClient
  <1>4. ASSUME ConnectRedis \/ UploadTaskCatalog \/ ConnectAwsService PROVE ThreadInv'
    BY <1>4 DEF ConnectRedis, UploadTaskCatalog, ConnectAwsService, StartStep
  <1>5. ASSUME StartConsume PROVE ThreadInv'
    BY <1>5 DEF StartConsume, StartStep
  <1>6. ASSUME StartDlqBacklogMonitor PROVE ThreadInv'
    BY <1>6 DEF StartDlqBacklogMonitor, StartStep
  <1>7. ASSUME WaitStop \/ StartFailed \/ ResetWorker PROVE ThreadInv'
    BY <1>7 DEF WaitStop, StartFailed, ResetWorker, CallStop
  <1>8. ASSUME DestroyTools \/ DestroyConsumer \/ DestroyMembers \/ Exit PROVE ThreadInv'
    BY <1>8 DEF DestroyTools, DestroyConsumer, DestroyMembers, Exit
  <1>9. ASSUME Signal PROVE ThreadInv'
    BY <1>9 DEF Signal, Signalled, SignalCallback, DefaultAction, CallStop
  <1>10. ASSUME HandlerStep \/ MonitorStep PROVE ThreadInv'
    BY <1>10 DEF HandlerStep, BeginHandler, EndHandler, MonitorStep
  <1>11. CASE UNCHANGED vars
    BY <1>11
  <1> QED
    BY <1>1, <1>2, <1>3, <1>4, <1>5, <1>6, <1>7, <1>8, <1>9, <1>10, <1>11
       DEF Next, ProcessStep, MainStep, StopStep

\* A handler has its clients and the monitor its store until they end, when no
\* signal interrupts start(): stop() and the destructors release nothing early.
THEOREM ThreadsNeverStranded == Spec => []ThreadsHaveTheirObjects
  <1> DEFINE Inv == StopInv /\ StartInv /\ ThreadInv
  <1>1. Init => Inv
    BY DEF Init, StopInv, StartInv, ThreadInv
  <1>2. Inv /\ [Next]_vars => Inv'
    BY StopInductive, StartStays, ThreadStep
  <1>3. Inv => ThreadsHaveTheirObjects
    BY DEF ThreadInv, ThreadsHaveTheirObjects
  <1> QED
    BY <1>1, <1>2, <1>3, PTL DEF Spec

=============================================================================
