------------------------ MODULE ApplicationLifecycle ------------------------
(***************************************************************************)
(* The shutdown of the application as server.js runs it: clients, tracked  *)
(* requests, a signal, the shutdown coordinator, and above it              *)
(* core/lifecycle-orchestrator.js, core/database-cleanup.js and            *)
(* core/application-lifecycle.js, which close the database and set the     *)
(* exit code but never force an exit.                                      *)
(*                                                                         *)
(* A request and the connection it arrives on share one name.  Promise     *)
(* callbacks are actions of their own: anything may run between the        *)
(* resolution of a promise and its callback.                               *)
(***************************************************************************)
EXTENDS ShutdownCoordinator

ASSUME OneRequestPerConnection == Conns = Requests

VARIABLES
    loState,     \* the orchestrator's `state'
    dbState,     \* the database cleanup's `state'
    reported,    \* application-lifecycle's notification has run
    exitCode     \* process.exitCode: 0 (unset) or 1

lifecycleVars == <<loState, dbState, reported, exitCode>>
vars == <<trackerVars, gracefulVars, coordinatorVars, lifecycleVars>>

Ended == {"completed", "incomplete"}

TypeOK ==
    /\ TrackerTypeOK
    /\ GracefulTypeOK
    /\ CoordinatorTypeOK
    /\ loState \in {"idle", "stopping-http", "closing-database"} \union Ended
    /\ dbState \in {"open", "closing", "closed", "incomplete"}
    /\ reported \in BOOLEAN
    /\ exitCode \in {0, 1}

\* The server listens and the signal handlers are installed.
Init ==
    /\ TrackerInit
    /\ GracefulInit
    /\ CoordinatorInit
    /\ loState = "idle"
    /\ dbState = "open"
    /\ reported = FALSE
    /\ exitCode = 0

-----------------------------------------------------------------------------
(* The clients and the request handlers.                                   *)

ClientConnects(r) ==
    /\ Accept(r)
    /\ UNCHANGED <<trackerVars, coordinatorVars, lifecycleVars>>

\* A request arrives on an open connection, perhaps one whose peer is already
\* gone; an open connection outlives server.close().
RequestArrives(r, gone) ==
    /\ conn[r] = "open"
    /\ handler[r] = "none"
    /\ Track(r, gone) \/ Refuse(r, gone)
    /\ conn' = IF gone THEN [conn EXCEPT ![r] = "ended"] ELSE conn
    /\ UNCHANGED <<listening, gsState, gsTimer, gsResult, coordinatorVars, lifecycleVars>>

\* The whole response has been handed to the connection.
ResponseFinishes(r) ==
    /\ conn[r] = "open"
    /\ ResponseOver(r)
    /\ UNCHANGED <<gracefulVars, coordinatorVars, lifecycleVars>>

\* The response's 'close' event after its connection ended.
ResponseCloses(r) ==
    /\ conn[r] = "ended"
    /\ ResponseOver(r)
    /\ UNCHANGED <<gracefulVars, coordinatorVars, lifecycleVars>>

HandlerReturns(r) ==
    /\ HandlerFinishes(r)
    /\ UNCHANGED <<gracefulVars, coordinatorVars, lifecycleVars>>

ClientLeaves(r) ==
    /\ conn[r] = "open"
    /\ ConnectionEnds(r)
    /\ UNCHANGED <<trackerVars, coordinatorVars, lifecycleVars>>

SeveredConnectionEnds(r) ==
    /\ conn[r] = "destroyed"
    /\ ConnectionEnds(r)
    /\ UNCHANGED <<trackerVars, coordinatorVars, lifecycleVars>>

-----------------------------------------------------------------------------
(* The shutdown.                                                           *)

\* SIGINT or SIGTERM: the first one starts everything in one synchronous run
\* down to server.close(); every later one finds the same promise.
Signal(idle) ==
    /\ loState = "idle"
    /\ loState' = "stopping-http"
    /\ Start(idle)
    /\ UNCHANGED <<httpResult, requestsIdle, dbState, reported, exitCode>>

ShutdownTimers ==
    /\ BeginCleanup \/ CleanupExpires \/ ServerClosed
    /\ UNCHANGED <<trackerVars, coordinatorVars, lifecycleVars>>

CoordinatorCallbacks ==
    /\ HttpSettled \/ IdleReached \/ DeadlineExpires
    /\ UNCHANGED <<trackerVars, gracefulVars, lifecycleVars>>

\* The test that both execute() and cleanup() apply to the result.
Qualified == SafeForDatabaseClose

\* execute() resumes with the coordinator's result; a qualified one is handed to
\* cleanup(), which defers db.close() to a later microtask.
CoordinatorSettled ==
    /\ loState = "stopping-http"
    /\ scResult # "none"
    /\ \/ /\ Qualified
          /\ loState' = "closing-database"
          /\ dbState' = "closing"
       \/ /\ ~Qualified
          /\ loState' = "incomplete"
          /\ UNCHANGED dbState
    /\ UNCHANGED <<trackerVars, gracefulVars, coordinatorVars, reported, exitCode>>

\* The microtask of cleanup(): db.close() succeeds or throws.
CloseDatabase ==
    /\ dbState = "closing"
    /\ \/ dbState' = "closed"
       \/ "dbClose" \in MayFail /\ dbState' = "incomplete"
    /\ UNCHANGED <<trackerVars, gracefulVars, coordinatorVars, loState, reported, exitCode>>

\* execute() resumes with the cleanup's result.
CleanupSettled ==
    /\ loState = "closing-database"
    /\ \/ dbState = "closed" /\ loState' = "completed"
       \/ dbState = "incomplete" /\ loState' = "incomplete"
    /\ UNCHANGED <<trackerVars, gracefulVars, coordinatorVars, dbState, reported, exitCode>>

\* A report that leaves the exit code to the default.
FaultyReport ==
    /\ loState \in Ended
    /\ ~reported
    /\ reported' = TRUE
    /\ UNCHANGED <<trackerVars, gracefulVars, coordinatorVars, loState, dbState, exitCode>>

\* application-lifecycle's continuation: the exit code tells; no exit is forced.
Report ==
    /\ loState \in Ended
    /\ ~reported
    /\ reported' = TRUE
    /\ exitCode' = IF loState = "completed" THEN exitCode ELSE 1
    /\ UNCHANGED <<trackerVars, gracefulVars, coordinatorVars, loState, dbState>>

IdleConnections == {c \in Conns : conn[c] = "open" /\ response[c] # "open"}

RequestNext(r) ==
    \/ ClientConnects(r)
    \/ \E gone \in BOOLEAN : RequestArrives(r, gone)
    \/ ResponseFinishes(r)
    \/ ResponseCloses(r)
    \/ HandlerReturns(r)
    \/ ClientLeaves(r)
    \/ SeveredConnectionEnds(r)

Next ==
    \/ \E r \in Requests : RequestNext(r)
    \/ \E idle \in SUBSET IdleConnections : Signal(idle)
    \/ ShutdownTimers
    \/ CoordinatorCallbacks
    \/ CoordinatorSettled
    \/ CloseDatabase
    \/ CleanupSettled
    \/ Report

\* Node delivers what is due: timers, promise callbacks, the close event of a
\* destroyed socket.  Nothing obliges a handler to return or a client to leave.
Fairness ==
    /\ WF_vars(BeginCleanup /\ ShutdownTimers)
    /\ WF_vars(CleanupExpires /\ ShutdownTimers)
    /\ WF_vars(ServerClosed /\ ShutdownTimers)
    /\ WF_vars(HttpSettled /\ CoordinatorCallbacks)
    /\ WF_vars(IdleReached /\ CoordinatorCallbacks)
    /\ WF_vars(DeadlineExpires /\ CoordinatorCallbacks)
    /\ WF_vars(CoordinatorSettled)
    /\ WF_vars(CloseDatabase)
    /\ WF_vars(CleanupSettled)
    /\ WF_vars(Report)
    /\ \A r \in Requests : WF_vars(ResponseCloses(r))
    /\ \A r \in Requests : WF_vars(SeveredConnectionEnds(r))

Spec == Init /\ [][Next]_vars /\ Fairness

-----------------------------------------------------------------------------
(* Properties.                                                             *)

\* Once cleanup has taken the database, no handler is running, none of the
\* tracker's requests is unsettled, nothing listens and nothing is connected: no
\* handler ever meets a closed database, although sockets are severed under
\* handlers that keep running, and no client is served by code that lost it.
DatabaseIsTakenLast == dbState # "open" => Unsettled = {} /\ ~listening /\ Live = {}

\* No lost wake-up: a caller of whenIdle() still waits only while a request is
\* really inside, whose end is then bound to wake it: the waiter is not queued too
\* late, and no interleaving of handler ends, response ends and severed sockets
\* leaves the counter too high.
NoLostWakeup == idleWaiter = "waiting" => Unsettled # {}

\* The reported exit code is 0 exactly when the database was closed.
ExitCodeTruthful == reported => (exitCode = 0 <=> dbState = "closed")

\* After a completed shutdown nothing keeps the process alive: no timer is
\* armed, nothing listens, nothing is connected (the code never forces exit).
ProcessMayExit ==
    loState = "completed" => gsTimer = "none" /\ ~deadline /\ ~listening /\ Live = {}

\* Every signalled shutdown is eventually reported, whatever handlers, clients
\* and failing calls do.
ShutdownIsReported == loState # "idle" ~> reported

-----------------------------------------------------------------------------
(* The inductive invariant behind the safety properties.                   *)

\* A request that reached the tracker has a response.
ResponseExists == \A r \in Requests : handler[r] # "none" => response[r] # "none"

\* The counter is the number of entered, unsettled requests, and a waiter waits for
\* it to fall.
ActiveCountExact == active = Cardinality(Unsettled)
WaiterIsCounted == idleWaiter = "waiting" => active > 0

\* A waiter exists only after the drain, and a resolved one means: idle for good.
IdleIsFinal ==
    /\ idleWaiter # "none" => draining
    /\ idleWaiter = "resolved" => active = 0
    /\ requestsIdle => idleWaiter = "resolved"

\* A server that reported its closure has no connection and never gets one again.
ClosureIsFinal ==
    /\ gsState = "idle" => gsResult = "none"
    /\ gsTimer # "none" => gsState \in {"stopping", "cleaning-up"}
    /\ gsState \in {"stopping", "cleaning-up"} => ~listening /\ gsResult = "none"
    /\ gsResult \in ClosedReasons => ~listening /\ Live = {}
    /\ httpResult = "completed" => gsResult \in ClosedReasons

\* A safe result was given with both halves in place.
SafetyIsEarned ==
    /\ deadline => scResult = "none"
    /\ SafeForDatabaseClose => httpResult = "completed" /\ requestsIdle

\* The orchestrator's state, the database's and the exit code tell one story.
OutcomesAgree ==
    /\ loState \in {"idle", "stopping-http"} => dbState = "open"
    /\ loState = "idle" => scResult = "none" /\ gsState = "idle" /\ ~draining
                            /\ idleWaiter = "none" /\ ~deadline
    /\ dbState # "open" => SafeForDatabaseClose
    /\ dbState = "closing" => loState = "closing-database"
    /\ loState = "closing-database" => dbState # "open"
    /\ loState = "completed" => dbState = "closed"
    /\ loState = "incomplete" => dbState \in {"open", "incomplete"}
    /\ reported => loState \in Ended
    /\ exitCode = IF reported /\ loState = "incomplete" THEN 1 ELSE 0

LifecycleInv ==
    /\ TypeOK
    /\ ResponseExists
    /\ ActiveCountExact
    /\ WaiterIsCounted
    /\ IdleIsFinal
    /\ ClosureIsFinal
    /\ SafetyIsEarned
    /\ OutcomesAgree

-----------------------------------------------------------------------------
\* The whole chain implements the promise of DrainThenClose.
Promise == INSTANCE DrainThenClose WITH
    Work   <- Requests,
    inside <- Running,
    doors  <- IF draining THEN "shut" ELSE "open",
    db     <- IF dbState = "closed" THEN "closed"
              ELSE IF loState = "incomplete" \/ dbState = "incomplete" THEN "given-up"
              ELSE "open"

KeepsPromise == Promise!Spec
=============================================================================
