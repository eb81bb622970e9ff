--------------------------- MODULE RequestTracker ---------------------------
(***************************************************************************)
(* core/request-tracker.js: which requests are inside the server.          *)
(*                                                                         *)
(* A request is entered when its handler is called and leaves when the     *)
(* handler has finished AND its response is over (finished or closed), in  *)
(* either order.  The counter `active' is kept beside the per-request      *)
(* flags exactly as the code keeps it: it is not derived from them.        *)
(*                                                                         *)
(* The module declares the tracker's own state and operations.  Who calls  *)
(* them (the HTTP server, the shutdown coordinator) is in                  *)
(* ApplicationLifecycle.                                                   *)
(***************************************************************************)
EXTENDS Naturals, FiniteSets

CONSTANT Requests    \* every request that may reach the server

ASSUME RequestsAssumption == IsFiniteSet(Requests)

VARIABLES
    handler,     \* per request: the promise returned by the handler
    response,    \* per request: its ServerResponse
    active,      \* the closure variable `active'
    draining,    \* the closure variable `draining'
    idleWaiter   \* the promise whenIdle() gave to its (only) caller

trackerVars == <<handler, response, active, draining, idleWaiter>>

HandlerStates  == {"none", "running", "finished", "refused"}
ResponseStates == {"none", "open", "over"}
WaiterStates   == {"none", "waiting", "resolved"}

TrackerTypeOK ==
    /\ handler  \in [Requests -> HandlerStates]
    /\ response \in [Requests -> ResponseStates]
    /\ active   \in Nat
    /\ draining \in BOOLEAN
    /\ idleWaiter \in WaiterStates

TrackerInit ==
    /\ handler  = [r \in Requests |-> "none"]
    /\ response = [r \in Requests |-> "none"]
    /\ active = 0
    /\ draining = FALSE
    /\ idleWaiter = "none"

\* The requests that have been entered and have not settled.
Unsettled ==
    {r \in Requests : \/ handler[r] = "running"
                      \/ handler[r] = "finished" /\ response[r] = "open"}

Running == {r \in Requests : handler[r] = "running"}

-----------------------------------------------------------------------------
\* notifyIfIdle(), called with the counter's new value.
NotifyIfIdle(n) ==
    idleWaiter' = IF n = 0 /\ idleWaiter = "waiting" THEN "resolved" ELSE idleWaiter

\* The condition of settleIfReady(), of a request's new handler state h and
\* response state p.
BothFinished(h, p) == h = "finished" /\ p = "over"

\* settleIfReady(): runs after each of the two halves of a request.  `settled'
\* is implied: the pair of flags becomes "both" exactly once.
SettleIfReady(h, p) ==
    IF BothFinished(h, p)
    THEN /\ active' = active - 1
         /\ NotifyIfIdle(active - 1)
    ELSE UNCHANGED <<active, idleWaiter>>

\* trackedHandler() while serving.  The response may already be destroyed when
\* the handler is entered (over = TRUE): its flag is then set from the start.
Track(r, over) ==
    /\ ~draining
    /\ handler' = [handler EXCEPT ![r] = "running"]
    /\ response' = [response EXCEPT ![r] = IF over THEN "over" ELSE "open"]
    /\ active' = active + 1
    /\ UNCHANGED <<draining, idleWaiter>>

\* trackedHandler() while draining: 503, unless the response is already gone.
\* A refused request is never counted.
Refuse(r, over) ==
    /\ draining
    /\ handler' = [handler EXCEPT ![r] = "refused"]
    /\ response' = [response EXCEPT ![r] = IF over THEN "over" ELSE "open"]
    /\ UNCHANGED <<active, draining, idleWaiter>>

\* The handler's promise resolves or rejects; both continuations do the same.
HandlerFinishes(r) ==
    /\ handler[r] = "running"
    /\ handler' = [handler EXCEPT ![r] = "finished"]
    /\ SettleIfReady("finished", response[r])
    /\ UNCHANGED <<response, draining>>

\* The response's 'finish' or 'close' event.  A refused response has no listener.
ResponseOver(r) ==
    /\ response[r] = "open"
    /\ response' = [response EXCEPT ![r] = "over"]
    /\ SettleIfReady(handler[r], "over")
    /\ UNCHANGED <<handler, draining>>

\* A beginDrain() that forgets its flag.
FaultyBeginDrain == UNCHANGED draining

\* beginDrain().  It is called before whenIdle() in this program, so there is
\* never a waiter to notify here.
BeginDrain == draining' = TRUE

\* A whenIdle() that always queues: nobody is left to wake it.
FaultyWhenIdle == idleWaiter' = "waiting"

\* whenIdle(): an already idle tracker answers at once.
WhenIdle == idleWaiter' = IF active = 0 THEN "resolved" ELSE "waiting"
=============================================================================
