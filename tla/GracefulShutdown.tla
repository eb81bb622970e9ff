-------------------------- MODULE GracefulShutdown --------------------------
(***************************************************************************)
(* core/graceful-shutdown.js: stop accepting, wait a grace period, sever   *)
(* the remaining connections, wait a bounded time for the server's close   *)
(* callback, and report.  Beside it, the parts of Node's http.Server that  *)
(* it drives: whether the server listens and its connections (external).   *)
(*                                                                         *)
(* Time is not modelled: an armed timer may fire at any moment, so the     *)
(* grace, cleanup and deadline durations are arbitrary, as they are        *)
(* parameters of the code that nothing compares with each other.           *)
(***************************************************************************)
CONSTANTS
    Conns,    \* the connections clients may open
    MayFail   \* the outside calls that may fail (see FaultNames)

VARIABLES
    listening,   \* external: the http.Server accepts connections
    conn,        \* external: the state of each connection
    gsState,     \* `state', as getState() returns it
    gsTimer,     \* which timer `timer' holds
    gsResult     \* the reason the promise resolved with, or "none"

gracefulVars == <<listening, conn, gsState, gsTimer, gsResult>>

\* Calls outside this program that the code guards with try/catch, or whose
\* error result it handles.
FaultNames == {"deadlineTimer", "graceTimer", "cleanupTimer", "close",
               "closeCallback", "closeAll", "dbClose"}

ASSUME MayFailAssumption == MayFail \subseteq FaultNames

ConnStates == {"none", "open", "destroyed", "ended"}
ClosedReasons == {"server-closed", "server-closed-after-cleanup"}
FailedReasons ==
    {"server-close-error", "cleanup-confirmation-expired", "timer-setup-failed",
     "connection-cleanup-error", "server-close-threw"}

GracefulTypeOK ==
    /\ listening \in BOOLEAN
    /\ conn \in [Conns -> ConnStates]
    /\ gsState \in {"idle", "stopping", "cleaning-up", "stopped", "incomplete"}
    /\ gsTimer \in {"none", "grace", "cleanup"}
    /\ gsResult \in {"none"} \union ClosedReasons \union FailedReasons

GracefulInit ==
    /\ listening = TRUE
    /\ conn = [c \in Conns |-> "none"]
    /\ gsState = "idle"
    /\ gsTimer = "none"
    /\ gsResult = "none"

Live == {c \in Conns : conn[c] \in {"open", "destroyed"}}

-----------------------------------------------------------------------------
\* External: the server accepts a connection only while it listens.
Accept(c) ==
    /\ listening
    /\ conn[c] = "none"
    /\ conn' = [conn EXCEPT ![c] = "open"]
    /\ UNCHANGED <<listening, gsState, gsTimer, gsResult>>

\* External: the socket is gone, because the peer left or because it was destroyed.
ConnectionEnds(c) ==
    /\ conn[c] \in {"open", "destroyed"}
    /\ conn' = [conn EXCEPT ![c] = "ended"]
    /\ UNCHANGED <<listening, gsState, gsTimer, gsResult>>

-----------------------------------------------------------------------------
\* A finish() that forgets clearCurrentTimer().
FaultyFinish(reason) ==
    /\ gsResult' = reason
    /\ gsState' = IF reason \in ClosedReasons THEN "stopped" ELSE "incomplete"
    /\ UNCHANGED gsTimer

\* finish(): every caller has checked that the shutdown is not settled.
Finish(reason) ==
    /\ gsResult' = reason
    /\ gsState' = IF reason \in ClosedReasons THEN "stopped" ELSE "incomplete"
    /\ gsTimer' = "none"

\* shutdown(): arm the grace timer, then server.close(), which also drops the
\* connections in `idle' (external).  A close() that throws leaves the server
\* listening.  A second call returns the same promise.
Shutdown(idle) ==
    /\ gsState = "idle"
    /\ \/ /\ "graceTimer" \in MayFail
          /\ Finish("timer-setup-failed")
          /\ UNCHANGED <<listening, conn>>
       \/ /\ "close" \in MayFail
          /\ Finish("server-close-threw")
          /\ UNCHANGED <<listening, conn>>
       \/ /\ gsState' = "stopping"
          /\ gsTimer' = "grace"
          /\ listening' = FALSE
          /\ conn' = [c \in Conns |-> IF c \in idle THEN "destroyed" ELSE conn[c]]
          /\ UNCHANGED gsResult

\* External: what must be true for the server to call back without an error.
ServerDrained == ~listening /\ Live = {}

\* onServerClosed(): the close callback, with an error or without.
ServerClosed ==
    /\ gsState \in {"stopping", "cleaning-up"}
    /\ \/ /\ "closeCallback" \in MayFail
          /\ Finish("server-close-error")
       \/ /\ ServerDrained
          /\ Finish(IF gsState = "cleaning-up" THEN "server-closed-after-cleanup"
                                               ELSE "server-closed")
    /\ UNCHANGED <<listening, conn>>

\* The grace timer fires: beginCleanup() arms the confirmation timer before it
\* severs the connections; the sockets' own 'close' events come later.
BeginCleanup ==
    /\ gsTimer = "grace"
    /\ \/ "cleanupTimer" \in MayFail /\ Finish("timer-setup-failed") /\ UNCHANGED conn
       \/ "closeAll" \in MayFail /\ Finish("connection-cleanup-error") /\ UNCHANGED conn
       \/ /\ gsState' = "cleaning-up"
          /\ gsTimer' = "cleanup"
          /\ conn' = [c \in Conns |-> IF conn[c] = "open" THEN "destroyed" ELSE conn[c]]
          /\ UNCHANGED gsResult
    /\ UNCHANGED listening

\* The confirmation timer fires before the server's callback.
CleanupExpires ==
    /\ gsTimer = "cleanup"
    /\ Finish("cleanup-confirmation-expired")
    /\ UNCHANGED <<listening, conn>>
=============================================================================
