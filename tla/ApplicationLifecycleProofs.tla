--------------------- MODULE ApplicationLifecycleProofs ---------------------
(***************************************************************************)
(* Proofs about ApplicationLifecycle, for every finite set of requests and *)
(* every set of calls that may fail.                                       *)
(***************************************************************************)
EXTENDS ApplicationLifecycle, FiniteSetTheorems, TLAPS

LEMMA UnsettledFinite == IsFiniteSet(Unsettled)
  BY RequestsAssumption, FS_Subset, Unsettled \subseteq Requests DEF Unsettled

\* What the tracker's four state-changing handlers do to the counter, stated
\* once: it stays the number of unsettled requests, and no waiter is left asleep.
LEMMA TrackerStep ==
    ASSUME NEW r \in Requests, TrackerTypeOK, ResponseExists, ActiveCountExact,
           WaiterIsCounted,
           \/ \E gone \in BOOLEAN : handler[r] = "none" /\ Track(r, gone)
           \/ \E gone \in BOOLEAN : handler[r] = "none" /\ Refuse(r, gone)
           \/ HandlerFinishes(r)
           \/ ResponseOver(r)
    PROVE  /\ TrackerTypeOK'
           /\ ResponseExists'
           /\ ActiveCountExact'
           /\ WaiterIsCounted'
           /\ idleWaiter' = idleWaiter \/ (idleWaiter = "waiting" /\ idleWaiter' = "resolved" /\ active' = 0)
           /\ draining' = draining
           /\ draining => active' <= active
<1> USE DEF TrackerTypeOK, HandlerStates, ResponseStates, WaiterStates
<1>1. IsFiniteSet(Unsettled) /\ active = Cardinality(Unsettled) /\ active \in Nat
  BY UnsettledFinite DEF ActiveCountExact
<1>2. CASE \E gone \in BOOLEAN : handler[r] = "none" /\ Track(r, gone)
  <2>1. PICK gone \in BOOLEAN : handler[r] = "none" /\ Track(r, gone)
    BY <1>2
  <2>2. Unsettled' = Unsettled \union {r} /\ r \notin Unsettled
    BY <2>1 DEF Track, Unsettled
  <2>3. Cardinality(Unsettled') = active + 1
    BY <1>1, <2>2, FS_AddElement
  <2>4. ResponseExists'
    BY <2>1 DEF Track, ResponseExists
  <2> QED
    BY <1>1, <2>1, <2>3, <2>4 DEF Track, ActiveCountExact, WaiterIsCounted
<1>3. CASE \E gone \in BOOLEAN : handler[r] = "none" /\ Refuse(r, gone)
  <2>1. PICK gone \in BOOLEAN : handler[r] = "none" /\ Refuse(r, gone)
    BY <1>3
  <2>2. Unsettled' = Unsettled
    BY <2>1 DEF Refuse, Unsettled
  <2>3. ResponseExists'
    BY <2>1 DEF Refuse, ResponseExists
  <2> QED
    BY <1>1, <2>1, <2>2, <2>3 DEF Refuse, ActiveCountExact, WaiterIsCounted
<1>4. ASSUME NEW h, NEW p, SettleIfReady(h, p), draining' = draining,
             Unsettled' = IF BothFinished(h, p) THEN Unsettled \ {r} ELSE Unsettled,
             BothFinished(h, p) => r \in Unsettled
      PROVE  /\ ActiveCountExact' /\ WaiterIsCounted'
             /\ active' \in Nat /\ active' <= active
             /\ idleWaiter' \in WaiterStates
             /\ idleWaiter' = idleWaiter
                \/ (idleWaiter = "waiting" /\ idleWaiter' = "resolved" /\ active' = 0)
  <2>1. CASE BothFinished(h, p)
    <3>1. Cardinality(Unsettled') = active - 1 /\ active # 0
      BY <1>1, <1>4, <2>1, FS_RemoveElement, FS_EmptySet
    <3> QED
      BY <1>1, <1>4, <2>1, <3>1
         DEF SettleIfReady, NotifyIfIdle, ActiveCountExact, WaiterIsCounted
  <2>2. CASE ~BothFinished(h, p)
    BY <1>1, <1>4, <2>2 DEF SettleIfReady, ActiveCountExact, WaiterIsCounted
  <2> QED
    BY <2>1, <2>2
<1>5. CASE HandlerFinishes(r)
  <2>1. response[r] # "none"
    BY <1>5 DEF HandlerFinishes, ResponseExists
  <2>2. /\ Unsettled' = IF BothFinished("finished", response[r]) THEN Unsettled \ {r} ELSE Unsettled
        /\ BothFinished("finished", response[r]) => r \in Unsettled
    BY <1>5, <2>1 DEF HandlerFinishes, Unsettled, BothFinished
  <2>3. ResponseExists'
    BY <1>5, <2>1 DEF HandlerFinishes, ResponseExists
  <2> QED
    BY <1>4, <1>5, <2>2, <2>3 DEF HandlerFinishes
<1>6. CASE ResponseOver(r)
  <2>1. /\ Unsettled' = IF BothFinished(handler[r], "over") THEN Unsettled \ {r} ELSE Unsettled
        /\ BothFinished(handler[r], "over") => r \in Unsettled
    BY <1>6 DEF ResponseOver, Unsettled, BothFinished
  <2>2. ResponseExists'
    BY <1>6 DEF ResponseOver, ResponseExists
  <2> QED
    BY <1>4, <1>6, <2>1, <2>2 DEF ResponseOver
<1> QED
  BY <1>2, <1>3, <1>5, <1>6

\* The same for the actions of clients and handlers, and what follows for the
\* facts that link the tracker to the shutdown.
LEMMA RequestStep ==
    ASSUME NEW r \in Requests, LifecycleInv, RequestNext(r)
    PROVE  LifecycleInv'
<1> USE DEF LifecycleInv
<1>1. TrackerTypeOK /\ GracefulTypeOK /\ CoordinatorTypeOK
  BY DEF TypeOK
<1>2. /\ UNCHANGED <<coordinatorVars, lifecycleVars, listening, gsState, gsTimer, gsResult>>
      /\ conn' \in [Conns -> ConnStates]
      /\ ~listening => Live' \subseteq Live
  <2>1. r \in Conns
    BY OneRequestPerConnection
  <2> QED
    BY <1>1, <2>1
       DEF RequestNext, ClientConnects, RequestArrives, ResponseFinishes, ResponseCloses,
           HandlerReturns, ClientLeaves, SeveredConnectionEnds, Accept, ConnectionEnds,
           gracefulVars, GracefulTypeOK, ConnStates, Live
<1>3. \/ UNCHANGED trackerVars
      \/ \E gone \in BOOLEAN : handler[r] = "none" /\ Track(r, gone)
      \/ \E gone \in BOOLEAN : handler[r] = "none" /\ Refuse(r, gone)
      \/ HandlerFinishes(r)
      \/ ResponseOver(r)
  BY DEF RequestNext, ClientConnects, RequestArrives, ResponseFinishes, ResponseCloses,
         HandlerReturns, ClientLeaves, SeveredConnectionEnds
<1>4. /\ TrackerTypeOK' /\ ResponseExists' /\ ActiveCountExact' /\ WaiterIsCounted'
      /\ \/ idleWaiter' = idleWaiter
         \/ idleWaiter = "waiting" /\ idleWaiter' = "resolved" /\ active' = 0
      /\ draining' = draining
      /\ draining => active' <= active
  <2>1. CASE UNCHANGED trackerVars
    <3>1. Unsettled' = Unsettled
      BY <2>1 DEF trackerVars, Unsettled
    <3> QED
      BY <1>1, <2>1, <3>1
         DEF trackerVars, TrackerTypeOK, ResponseExists, ActiveCountExact, WaiterIsCounted
  <2>2. CASE ~UNCHANGED trackerVars
    BY <1>1, <1>3, <2>2, TrackerStep
  <2> QED
    BY <2>1, <2>2
<1>5. IdleIsFinal'
  BY <1>1, <1>2, <1>4 DEF IdleIsFinal, TrackerTypeOK, coordinatorVars
<1>6. ClosureIsFinal'
  BY <1>2 DEF ClosureIsFinal, coordinatorVars
<1>7. TypeOK'
  BY <1>1, <1>2, <1>4 DEF TypeOK, GracefulTypeOK, CoordinatorTypeOK, coordinatorVars, lifecycleVars
<1>8. SafetyIsEarned'
  BY <1>2 DEF SafetyIsEarned, SafeForDatabaseClose, coordinatorVars
<1>9. OutcomesAgree'
  BY <1>1, <1>2, <1>4 DEF OutcomesAgree, SafeForDatabaseClose, coordinatorVars, lifecycleVars
<1> QED
  BY <1>4, <1>5, <1>6, <1>7, <1>8, <1>9

\* What remains of the tracker's facts when a step leaves the tracker alone.
LEMMA TrackerUntouched ==
    ASSUME LifecycleInv, UNCHANGED trackerVars
    PROVE  TrackerTypeOK' /\ ResponseExists' /\ ActiveCountExact' /\ WaiterIsCounted'
<1>1. Unsettled' = Unsettled
  BY DEF trackerVars, Unsettled
<1> QED
  BY <1>1 DEF LifecycleInv, TypeOK, TrackerTypeOK, ResponseExists, ActiveCountExact,
              WaiterIsCounted, trackerVars

LEMMA SignalStep ==
    ASSUME LifecycleInv, NEW idle \in SUBSET IdleConnections, Signal(idle)
    PROVE  LifecycleInv'
<1> USE DEF LifecycleInv
<1>1. TrackerTypeOK /\ GracefulTypeOK /\ CoordinatorTypeOK
  BY DEF TypeOK
<1>2. CASE Resolve("timer-setup-failed") /\ UNCHANGED <<trackerVars, gracefulVars>>
  <2>1. TrackerTypeOK' /\ ResponseExists' /\ ActiveCountExact' /\ WaiterIsCounted'
    BY <1>2, TrackerUntouched
  <2>2. Live' = Live
    BY <1>2 DEF gracefulVars, Live
  <2>3. TypeOK'
    BY <1>1, <1>2, <2>1 DEF Signal, Resolve, gracefulVars, TypeOK, GracefulTypeOK,
                            CoordinatorTypeOK, UnsafeReasons
  <2>4. IdleIsFinal' /\ ClosureIsFinal'
    BY <1>2, <2>2 DEF Signal, IdleIsFinal, ClosureIsFinal, trackerVars, gracefulVars
  <2>5. SafetyIsEarned' /\ OutcomesAgree'
    BY <1>2 DEF Signal, Resolve, SafetyIsEarned, OutcomesAgree, SafeForDatabaseClose,
                SafeReason, trackerVars, gracefulVars, Ended
  <2> QED
    BY <2>1, <2>3, <2>4, <2>5
<1>3. CASE /\ BeginDrain /\ Shutdown(idle) /\ WhenIdle /\ ArmDeadline
           /\ UNCHANGED <<scResult, handler, response, active>>
  <2>1. /\ TrackerTypeOK' /\ ResponseExists' /\ WaiterIsCounted'
    BY <1>1, <1>3 DEF BeginDrain, WhenIdle, TrackerTypeOK, ResponseExists, WaiterIsCounted,
                      WaiterStates
  <2>2. Unsettled' = Unsettled /\ ActiveCountExact'
    BY <1>3 DEF Unsettled, ActiveCountExact
  <2>3. Live' = Live
    BY <1>1, <1>3 DEF Shutdown, Live, IdleConnections, GracefulTypeOK
  <2>4. GracefulTypeOK'
    BY <1>1, <1>3 DEF Shutdown, Finish, GracefulTypeOK, ConnStates, ClosedReasons, FailedReasons
  <2>5. TypeOK'
    BY <1>1, <1>3, <2>1, <2>4 DEF Signal, ArmDeadline, TypeOK, CoordinatorTypeOK
  <2>6. IdleIsFinal'
    BY <1>3 DEF Signal, BeginDrain, WhenIdle, IdleIsFinal, OutcomesAgree
  <2>7. ClosureIsFinal'
    BY <1>3, <2>3 DEF Signal, Shutdown, Finish, ClosureIsFinal, ClosedReasons
  <2>8. SafetyIsEarned' /\ OutcomesAgree'
    BY <1>3 DEF Signal, ArmDeadline, SafetyIsEarned, OutcomesAgree, SafeForDatabaseClose,
                SafeReason, Ended
  <2> QED
    BY <2>1, <2>2, <2>5, <2>6, <2>7, <2>8
<1> QED
  BY <1>2, <1>3 DEF Signal, Start

LEMMA TimerStep ==
    ASSUME LifecycleInv, ShutdownTimers
    PROVE  LifecycleInv'
<1> USE DEF LifecycleInv
<1>1. TrackerTypeOK /\ GracefulTypeOK /\ CoordinatorTypeOK
  BY DEF TypeOK
<1>2. TrackerTypeOK' /\ ResponseExists' /\ ActiveCountExact' /\ WaiterIsCounted'
  BY TrackerUntouched DEF ShutdownTimers
<1>3. /\ gsState \in {"stopping", "cleaning-up"} /\ gsResult = "none"
      /\ Live' = Live /\ listening' = listening
  BY <1>1 DEF ShutdownTimers, BeginCleanup, CleanupExpires, ServerClosed, ClosureIsFinal,
              Live, GracefulTypeOK
<1>4. GracefulTypeOK'
  BY <1>1 DEF ShutdownTimers, BeginCleanup, CleanupExpires, ServerClosed, Finish,
              GracefulTypeOK, ConnStates, ClosedReasons, FailedReasons
<1>5. TypeOK'
  BY <1>1, <1>2, <1>4 DEF ShutdownTimers, TypeOK, CoordinatorTypeOK, coordinatorVars, lifecycleVars
<1>6. ClosureIsFinal'
  BY <1>1, <1>3 DEF ShutdownTimers, BeginCleanup, CleanupExpires, ServerClosed, Finish,
              ServerDrained, ClosureIsFinal, ClosedReasons, coordinatorVars, GracefulTypeOK
<1>7. IdleIsFinal' /\ SafetyIsEarned'
  BY DEF ShutdownTimers, IdleIsFinal, SafetyIsEarned, SafeForDatabaseClose, trackerVars,
         coordinatorVars
<1>8. OutcomesAgree'
  BY <1>3 DEF ShutdownTimers, OutcomesAgree, SafeForDatabaseClose, trackerVars,
              coordinatorVars, lifecycleVars
<1> QED
  BY <1>2, <1>5, <1>6, <1>7, <1>8

LEMMA CallbackStep ==
    ASSUME LifecycleInv, CoordinatorCallbacks
    PROVE  LifecycleInv'
<1> USE DEF LifecycleInv
<1>1. TrackerTypeOK /\ GracefulTypeOK /\ CoordinatorTypeOK
  BY DEF TypeOK
<1>2. TrackerTypeOK' /\ ResponseExists' /\ ActiveCountExact' /\ WaiterIsCounted'
  BY TrackerUntouched DEF CoordinatorCallbacks
<1>3. /\ scResult = "none" /\ loState # "idle"
      /\ CoordinatorTypeOK'
      /\ SafetyIsEarned'
      /\ httpResult' = "completed" => gsResult \in ClosedReasons
      /\ requestsIdle' => idleWaiter = "resolved"
  <2> USE <1>1 DEF CoordinatorTypeOK, UnsafeReasons, SafeReason, SafetyIsEarned, SafeForDatabaseClose
  <2>1. CASE HttpSettled
    <3>1. loState # "idle"
      BY <2>1 DEF HttpSettled, OutcomesAgree, ClosureIsFinal
    <3>2. httpResult' \in {"completed", "incomplete"} /\ requestsIdle' = requestsIdle
          /\ (httpResult' = "completed" => gsResult \in ClosedReasons)
      BY <2>1 DEF HttpSettled
    <3>3. \/ scResult' = "http-shutdown-incomplete" /\ deadline' = FALSE
          \/ scResult' = SafeReason /\ deadline' = FALSE /\ httpResult' = "completed" /\ requestsIdle
          \/ scResult' = scResult /\ deadline' = deadline
      BY <2>1 DEF HttpSettled, CheckCompletion, Qualifies, Resolve
    <3>4. scResult = "none"
      BY <2>1 DEF HttpSettled
    <3>5. requestsIdle => idleWaiter = "resolved"
      BY DEF IdleIsFinal
    <3>6. CoordinatorTypeOK'
      BY <3>2, <3>3
    <3>7. SafetyIsEarned'
      BY <3>2, <3>3, <3>4
    <3> QED
      BY <3>1, <3>2, <3>4, <3>5, <3>6, <3>7
  <2>2. CASE IdleReached
    <3>1. loState # "idle"
      BY <2>2 DEF IdleReached, OutcomesAgree
    <3>2. \/ scResult' = "http-shutdown-incomplete" /\ deadline' = FALSE
          \/ scResult' = SafeReason /\ deadline' = FALSE /\ httpResult = "completed"
          \/ scResult' = scResult /\ deadline' = deadline
      BY <2>2 DEF IdleReached, CheckCompletion, Qualifies, Resolve
    <3>3. /\ scResult = "none" /\ idleWaiter = "resolved"
          /\ requestsIdle' = TRUE /\ httpResult' = httpResult
      BY <2>2 DEF IdleReached
    <3>4. httpResult = "completed" => gsResult \in ClosedReasons
      BY DEF ClosureIsFinal
    <3>5. CoordinatorTypeOK'
      BY <3>2, <3>3
    <3>6. SafetyIsEarned'
      BY <3>2, <3>3
    <3> QED
      BY <3>1, <3>3, <3>4, <3>5, <3>6
  <2>3. CASE DeadlineExpires
    <3>1. deadline /\ scResult' = "shutdown-deadline-expired" /\ deadline' = FALSE
          /\ httpResult' = httpResult /\ requestsIdle' = requestsIdle
      BY <2>3 DEF DeadlineExpires, Resolve
    <3>2. loState # "idle" /\ scResult = "none"
      BY <3>1 DEF OutcomesAgree
    <3>3. /\ requestsIdle => idleWaiter = "resolved"
          /\ httpResult = "completed" => gsResult \in ClosedReasons
      BY DEF IdleIsFinal, ClosureIsFinal
    <3> QED
      BY <3>1, <3>2, <3>3
  <2> QED
    BY <2>1, <2>2, <2>3 DEF CoordinatorCallbacks
<1>4. Live' = Live
  BY DEF CoordinatorCallbacks, gracefulVars, Live
<1>5. TypeOK'
  BY <1>1, <1>2, <1>3 DEF CoordinatorCallbacks, TypeOK, GracefulTypeOK, gracefulVars, lifecycleVars
<1>6. IdleIsFinal' /\ ClosureIsFinal'
  BY <1>3, <1>4 DEF CoordinatorCallbacks, IdleIsFinal, ClosureIsFinal, trackerVars, gracefulVars
<1>7. OutcomesAgree'
  BY <1>3 DEF CoordinatorCallbacks, OutcomesAgree, SafeForDatabaseClose, SafeReason, trackerVars,
              gracefulVars, lifecycleVars
<1> QED
  BY <1>2, <1>3, <1>5, <1>6, <1>7

LEMMA OrchestratorStep ==
    ASSUME LifecycleInv,
           CoordinatorSettled \/ CloseDatabase \/ CleanupSettled \/ Report
    PROVE  LifecycleInv'
<1> USE DEF LifecycleInv
<1>1. UNCHANGED <<trackerVars, gracefulVars, coordinatorVars>>
  BY DEF CoordinatorSettled, CloseDatabase, CleanupSettled, Report
<1>2. TrackerTypeOK' /\ ResponseExists' /\ ActiveCountExact' /\ WaiterIsCounted'
  BY <1>1, TrackerUntouched
<1>3. Live' = Live
  BY <1>1 DEF gracefulVars, Live
<1>4. TypeOK'
  <2>1. GracefulTypeOK' /\ CoordinatorTypeOK'
    BY <1>1 DEF TypeOK, GracefulTypeOK, CoordinatorTypeOK, gracefulVars, coordinatorVars
  <2>2. /\ loState' \in {"idle", "stopping-http", "closing-database"} \union Ended
        /\ dbState' \in {"open", "closing", "closed", "incomplete"}
        /\ reported' \in BOOLEAN
        /\ exitCode' \in {0, 1}
    BY DEF CoordinatorSettled, CloseDatabase, CleanupSettled, Report, TypeOK, Ended
  <2> QED
    BY <1>2, <2>1, <2>2 DEF TypeOK
<1>5. IdleIsFinal' /\ ClosureIsFinal' /\ SafetyIsEarned'
  BY <1>1, <1>3 DEF IdleIsFinal, ClosureIsFinal, SafetyIsEarned, SafeForDatabaseClose,
     trackerVars, gracefulVars, coordinatorVars
<1>6. OutcomesAgree'
  BY <1>1 DEF CoordinatorSettled, CloseDatabase, CleanupSettled, Report, Qualified, OutcomesAgree,
     SafeForDatabaseClose, Ended, TypeOK, trackerVars, gracefulVars, coordinatorVars
<1> QED
  BY <1>2, <1>4, <1>5, <1>6

\* The inductive invariant of the whole shutdown.
THEOREM LifecycleInvariant == Spec => []LifecycleInv
<1>1. Init => LifecycleInv
  <2> SUFFICES ASSUME Init PROVE LifecycleInv
    OBVIOUS
  <2> USE DEF Init, TrackerInit, GracefulInit, CoordinatorInit
  <2>1. Unsettled = {}
    BY DEF Unsettled
  <2>2. ActiveCountExact /\ Live = {}
    BY <2>1, FS_EmptySet DEF ActiveCountExact, Live
  <2>3. TypeOK
    BY DEF TypeOK, TrackerTypeOK, GracefulTypeOK, CoordinatorTypeOK, HandlerStates,
           ResponseStates, WaiterStates, ConnStates, Ended
  <2> QED
    BY <2>2, <2>3 DEF LifecycleInv, ResponseExists, WaiterIsCounted, IdleIsFinal, ClosureIsFinal,
       SafetyIsEarned, OutcomesAgree, SafeForDatabaseClose, SafeReason, ClosedReasons, Ended
<1>2. LifecycleInv /\ [Next]_vars => LifecycleInv'
  <2> SUFFICES ASSUME LifecycleInv, [Next]_vars PROVE LifecycleInv'
    OBVIOUS
  <2>1. CASE UNCHANGED vars
    <3>1. Unsettled' = Unsettled /\ Live' = Live
      BY <2>1 DEF vars, trackerVars, gracefulVars, Unsettled, Live
    <3> QED
      BY <2>1, <3>1 DEF vars, trackerVars, gracefulVars, coordinatorVars, lifecycleVars,
         LifecycleInv, TypeOK, TrackerTypeOK, GracefulTypeOK, CoordinatorTypeOK,
         ResponseExists, ActiveCountExact, WaiterIsCounted, IdleIsFinal, ClosureIsFinal,
         SafetyIsEarned, OutcomesAgree, SafeForDatabaseClose
  <2>2. CASE Next
    BY <2>2, RequestStep, SignalStep, TimerStep, CallbackStep, OrchestratorStep DEF Next
  <2> QED
    BY <2>1, <2>2
<1> QED
  BY <1>1, <1>2, PTL DEF Spec

\* Every variable keeps its type.
THEOREM TypesCorrect == Spec => []TypeOK
  BY LifecycleInvariant, PTL DEF LifecycleInv

\* A database that cleanup has taken has no running handler, no unsettled request
\* and no connection left, for any number of requests and any failing calls.
THEOREM DatabaseIsLast == Spec => []DatabaseIsTakenLast
<1>1. LifecycleInv => DatabaseIsTakenLast
  <2> SUFFICES ASSUME LifecycleInv, dbState # "open"
               PROVE  Unsettled = {} /\ ~listening /\ Live = {}
    BY DEF DatabaseIsTakenLast
  <2>1. httpResult = "completed" /\ requestsIdle
    BY DEF LifecycleInv, OutcomesAgree, SafetyIsEarned
  <2>2. ~listening /\ Live = {}
    BY <2>1 DEF LifecycleInv, ClosureIsFinal
  <2>3. Cardinality(Unsettled) = 0
    BY <2>1 DEF LifecycleInv, IdleIsFinal, ActiveCountExact
  <2>4. Unsettled = {}
    BY <2>3, UnsettledFinite, FS_EmptySet
  <2> QED
    BY <2>2, <2>4
<1> QED
  BY <1>1, LifecycleInvariant, PTL

\* The tracker's counter is exact and whoever waits for it is woken.
THEOREM TrackerIsExact == Spec => [](ActiveCountExact /\ NoLostWakeup)
<1>1. LifecycleInv => ActiveCountExact /\ NoLostWakeup
  BY FS_EmptySet DEF LifecycleInv, ActiveCountExact, WaiterIsCounted, NoLostWakeup
<1> QED
  BY <1>1, LifecycleInvariant, PTL

\* The exit code the process reports is 0 exactly when the database was closed.
THEOREM ExitCodeIsTruthful == Spec => []ExitCodeTruthful
<1>1. LifecycleInv => ExitCodeTruthful
  BY DEF LifecycleInv, TypeOK, OutcomesAgree, ExitCodeTruthful, Ended
<1> QED
  BY <1>1, LifecycleInvariant, PTL

\* After a completed shutdown nothing is left that would keep the process alive.
THEOREM ExitIsFree == Spec => []ProcessMayExit
<1>1. LifecycleInv => ProcessMayExit
  <2> SUFFICES ASSUME LifecycleInv, loState = "completed"
               PROVE  gsTimer = "none" /\ ~deadline /\ ~listening /\ Live = {}
    BY DEF ProcessMayExit
  <2>1. scResult = SafeReason /\ httpResult = "completed"
    BY DEF LifecycleInv, OutcomesAgree, SafetyIsEarned, SafeForDatabaseClose
  <2>2. gsResult \in ClosedReasons /\ ~listening /\ Live = {}
    BY <2>1 DEF LifecycleInv, ClosureIsFinal
  <2>3. gsTimer = "none"
    BY <2>2 DEF LifecycleInv, ClosureIsFinal, ClosedReasons
  <2>4. ~deadline
    BY <2>1 DEF LifecycleInv, SafetyIsEarned, SafeReason
  <2> QED
    BY <2>2, <2>3, <2>4
<1> QED
  BY <1>1, LifecycleInvariant, PTL

-----------------------------------------------------------------------------
(* The refinement.                                                         *)

\* Steps outside the tracker and the database's fate are invisible to the promise.
LEMMA Invisible ==
    ASSUME LifecycleInv, Running' = Running, draining' = draining, dbState' = dbState,
           loState = "incomplete" <=> loState' = "incomplete"
    PROVE  UNCHANGED Promise!vars
  BY DEF Promise!vars

LEMMA RequestRefines ==
    ASSUME LifecycleInv, NEW r \in Requests, RequestNext(r)
    PROVE  [Promise!Next]_(Promise!vars)
<1>1. handler \in [Requests -> HandlerStates] /\ UNCHANGED <<loState, dbState>>
  BY DEF LifecycleInv, TypeOK, TrackerTypeOK, RequestNext, ClientConnects, RequestArrives,
         ResponseFinishes, ResponseCloses, HandlerReturns, ClientLeaves,
         SeveredConnectionEnds, lifecycleVars
<1>2. CASE handler' = handler /\ draining' = draining
  <2>1. Running' = Running
    BY <1>2 DEF Running
  <2> QED
    BY <1>1, <1>2, <2>1, Invisible
<1>3. CASE \E gone \in BOOLEAN : RequestArrives(r, gone)
  <2>1. CASE ~draining
    <3>1. /\ handler[r] = "none"
          /\ handler' = [handler EXCEPT ![r] = "running"]
          /\ draining' = draining
      BY <1>3, <2>1 DEF RequestArrives, Track, Refuse
    <3>2. r \notin Running /\ Running' = Running \union {r}
      BY <1>1, <3>1 DEF Running
    <3>3. Promise!Enter(r)
      BY <1>1, <2>1, <3>1, <3>2 DEF Promise!Enter
    <3> QED
      BY <3>3 DEF Promise!Next
  <2>2. CASE draining
    <3>1. Running' = Running /\ draining' = draining
      BY <1>1, <1>3, <2>2 DEF RequestArrives, Track, Refuse, Running
    <3> QED
      BY <1>1, <3>1, Invisible
  <2> QED
    BY <2>1, <2>2
<1>4. CASE HandlerReturns(r)
  <2>1. /\ handler[r] = "running"
        /\ handler' = [handler EXCEPT ![r] = "finished"]
        /\ draining' = draining
    BY <1>4 DEF HandlerReturns, HandlerFinishes
  <2>2. r \in Running /\ Running' = Running \ {r}
    BY <1>1, <2>1 DEF Running
  <2>3. Promise!Leave(r)
    BY <1>1, <2>1, <2>2 DEF Promise!Leave
  <2> QED
    BY <2>3 DEF Promise!Next
<1> QED
  BY <1>2, <1>3, <1>4
     DEF RequestNext, ClientConnects, ResponseFinishes, ResponseCloses, ClientLeaves,
         SeveredConnectionEnds, ResponseOver, trackerVars

LEMMA ShutdownRefines ==
    ASSUME LifecycleInv,
           \/ \E idle \in SUBSET IdleConnections : Signal(idle)
           \/ ShutdownTimers \/ CoordinatorCallbacks
           \/ CoordinatorSettled \/ CloseDatabase \/ CleanupSettled \/ Report
    PROVE  [Promise!Next]_(Promise!vars)
<1>1. OutcomesAgree
  BY DEF LifecycleInv
<1>2. Running' = Running
  BY DEF Signal, Start, ShutdownTimers, CoordinatorCallbacks, CoordinatorSettled, CloseDatabase,
         CleanupSettled, Report, trackerVars, Running
<1>3. CASE \E idle \in SUBSET IdleConnections : Signal(idle)
  <2>1. /\ loState = "idle" /\ loState' = "stopping-http" /\ dbState' = dbState
        /\ ~draining /\ dbState = "open"
    BY <1>1, <1>3 DEF Signal, OutcomesAgree
  <2>2. CASE draining' = draining
    BY <1>2, <2>1, <2>2, Invisible
  <2>3. CASE draining' = TRUE
    <3>1. Promise!Shut
      BY <1>2, <2>1, <2>3 DEF Promise!Shut
    <3> QED
      BY <3>1 DEF Promise!Next
  <2> QED
    BY <1>3, <2>2, <2>3 DEF Signal, Start, BeginDrain, trackerVars
<1>4. CASE ShutdownTimers \/ CoordinatorCallbacks
  BY <1>2, <1>4, Invisible DEF ShutdownTimers, CoordinatorCallbacks, trackerVars, lifecycleVars
<1>5. CASE CoordinatorSettled
  <2>1. loState = "stopping-http" /\ dbState = "open" /\ draining' = draining
    BY <1>1, <1>5 DEF CoordinatorSettled, OutcomesAgree, trackerVars
  <2>2. CASE Qualified
    BY <1>2, <1>5, <2>1, <2>2 DEF CoordinatorSettled, Promise!vars
  <2>3. CASE ~Qualified
    <3>1. Promise!GiveUp
      BY <1>2, <1>5, <2>1, <2>3 DEF CoordinatorSettled, Promise!GiveUp
    <3> QED
      BY <3>1 DEF Promise!Next
  <2> QED
    BY <2>2, <2>3
<1>6. CASE CloseDatabase
  <2>1. /\ dbState = "closing" /\ loState = "closing-database" /\ loState' = loState
        /\ draining' = draining
    BY <1>1, <1>6 DEF CloseDatabase, OutcomesAgree, trackerVars
  <2>2. draining /\ Unsettled = {}
    <3>1. requestsIdle /\ idleWaiter = "resolved" /\ active = 0
      BY <1>1, <2>1 DEF LifecycleInv, OutcomesAgree, SafetyIsEarned, IdleIsFinal
    <3>2. Cardinality(Unsettled) = 0
      BY <3>1 DEF LifecycleInv, ActiveCountExact
    <3> QED
      BY <3>1, <3>2, UnsettledFinite, FS_EmptySet DEF LifecycleInv, IdleIsFinal
  <2>3. Running = {}
    BY <2>2 DEF Running, Unsettled
  <2>4. CASE dbState' = "closed"
    <3>1. Promise!Close
      BY <1>2, <2>1, <2>2, <2>3, <2>4 DEF Promise!Close
    <3> QED
      BY <3>1 DEF Promise!Next
  <2>5. CASE dbState' = "incomplete"
    <3>1. Promise!GiveUp
      BY <1>2, <2>1, <2>5 DEF Promise!GiveUp
    <3> QED
      BY <3>1 DEF Promise!Next
  <2> QED
    BY <1>6, <2>4, <2>5 DEF CloseDatabase
<1>7. CASE CleanupSettled
  BY <1>2, <1>7 DEF CleanupSettled, trackerVars, Promise!vars
<1>8. CASE Report
  BY <1>2, <1>8, Invisible DEF Report, trackerVars
<1> QED
  BY <1>3, <1>4, <1>5, <1>6, <1>7, <1>8

\* The shutdown chain implements the abstract promise: work enters only before
\* the drain, and the database is closed once, after it, with nothing inside.
THEOREM LifecycleKeepsPromise == Spec => KeepsPromise
<1>1. Init => Promise!Init
  BY DEF Init, TrackerInit, Promise!Init, Running
<1>2. LifecycleInv /\ [Next]_vars => [Promise!Next]_(Promise!vars)
  <2> SUFFICES ASSUME LifecycleInv, [Next]_vars PROVE [Promise!Next]_(Promise!vars)
    OBVIOUS
  <2>1. CASE UNCHANGED vars
    <3>1. Running' = Running
      BY <2>1 DEF vars, trackerVars, Running
    <3> QED
      BY <2>1, <3>1, Invisible DEF vars, trackerVars, lifecycleVars
  <2>2. CASE Next
    BY <2>2, RequestRefines, ShutdownRefines DEF Next
  <2> QED
    BY <2>1, <2>2
<1> QED
  BY <1>1, <1>2, LifecycleInvariant, PTL DEF Spec, KeepsPromise, Promise!Spec
=============================================================================
