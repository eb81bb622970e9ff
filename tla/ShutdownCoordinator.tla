------------------------- MODULE ShutdownCoordinator -------------------------
(***************************************************************************)
(* core/shutdown-coordinator.js: one shutdown operation that drains the    *)
(* request tracker, closes the HTTP server and, under one deadline, waits  *)
(* for both.  It alone says whether the database may be closed.            *)
(*                                                                         *)
(* beginDrain(), gracefulShutdown.shutdown() and whenIdle() are called in  *)
(* one synchronous run, so Start is one action; the two `then' callbacks   *)
(* and the deadline are actions of their own.  The catch branches for      *)
(* those three calls and for getActiveCount() are not modelled: the        *)
(* tracker and the shutdown controller of this program cannot throw or     *)
(* reject there.                                                           *)
(***************************************************************************)
EXTENDS RequestTracker, GracefulShutdown

VARIABLES
    deadline,      \* the deadline timer is armed
    httpResult,    \* what the http promise's callback stored
    requestsIdle,  \* what the idle promise's callback stored
    scResult       \* the reason the operation resolved with, or "none"

coordinatorVars == <<deadline, httpResult, requestsIdle, scResult>>

SafeReason == "http-closed-and-requests-idle"
UnsafeReasons == {"http-shutdown-incomplete", "shutdown-deadline-expired",
                  "timer-setup-failed"}

CoordinatorTypeOK ==
    /\ deadline \in BOOLEAN
    /\ httpResult \in {"none", "completed", "incomplete"}
    /\ requestsIdle \in BOOLEAN
    /\ scResult \in {"none", SafeReason} \union UnsafeReasons

CoordinatorInit ==
    /\ deadline = FALSE
    /\ httpResult = "none"
    /\ requestsIdle = FALSE
    /\ scResult = "none"

\* The result's safeForDatabaseClose (and its completed, always equal to it).
SafeForDatabaseClose == scResult = SafeReason

-----------------------------------------------------------------------------
\* finish(): resolves the operation and clears the deadline.
Resolve(reason) ==
    /\ scResult' = reason
    /\ deadline' = FALSE

\* A completion check that does not wait for the requests.
FaultyQualifies(http, idle) == http = "completed"

\* The condition of checkCompletion() for a qualified result.
Qualifies(http, idle) == http = "completed" /\ idle /\ active = 0

\* checkCompletion(), on the values the calling callback has just stored.
CheckCompletion(http, idle) ==
    IF http = "incomplete" THEN Resolve("http-shutdown-incomplete")
    ELSE IF Qualifies(http, idle) THEN Resolve(SafeReason)
    ELSE UNCHANGED <<scResult, deadline>>

FaultyArmDeadline == deadline' = FALSE

ArmDeadline == deadline' = TRUE

\* shutdown(), first call.  If the deadline cannot be armed nothing is drained.
Start(idle) ==
    \/ /\ "deadlineTimer" \in MayFail
       /\ Resolve("timer-setup-failed")
       /\ UNCHANGED <<trackerVars, gracefulVars>>
    \/ /\ BeginDrain
       /\ Shutdown(idle)
       /\ WhenIdle
       /\ ArmDeadline
       /\ UNCHANGED <<scResult, handler, response, active>>

\* The http promise's callback.  Once the operation is settled it does nothing.
HttpSettled ==
    /\ scResult = "none"
    /\ gsResult # "none"
    /\ httpResult = "none"
    /\ httpResult' = IF gsResult \in ClosedReasons THEN "completed" ELSE "incomplete"
    /\ CheckCompletion(httpResult', requestsIdle)
    /\ UNCHANGED requestsIdle

\* The idle promise's callback.
IdleReached ==
    /\ scResult = "none"
    /\ idleWaiter = "resolved"
    /\ ~requestsIdle
    /\ requestsIdle' = TRUE
    /\ CheckCompletion(httpResult, TRUE)
    /\ UNCHANGED httpResult

\* The deadline fires.
DeadlineExpires ==
    /\ deadline
    /\ Resolve("shutdown-deadline-expired")
    /\ UNCHANGED <<httpResult, requestsIdle>>
=============================================================================
