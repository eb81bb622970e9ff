---------------------------- MODULE AdminMonitor ----------------------------
(***************************************************************************)
(* The monitoring card of one administrator's page (public/                *)
(* admin-monitor.js), its route in server.js and the sampler that all      *)
(* administrators share (core/admin-telemetry.js).                         *)
(*                                                                         *)
(* The page polls, one request after the other; it is paused, hidden and   *)
(* closed while a request is in flight.  The server checks the session     *)
(* before it collects a sample and again after.  Samples are numbered in   *)
(* the order in which they are completed, as their sampledAt is.           *)
(***************************************************************************)
EXTENDS Naturals, Sequences

CONSTANTS
    MaxRows,    \* the readings the page keeps: 12 in the code
    MaxSamples  \* a bound on the samples of a run

ASSUME MonitorAssumption == MaxRows \in Nat \ {0} /\ MaxSamples \in Nat

VARIABLES
    poll,       \* the request in flight (inFlight), and how far it got
    sample,     \* the observation in the response of a request that was served
    current,    \* generation === epoch: nothing was suspended since poll() began
    armed,      \* the timer of the next poll
    paused, hidden, stopped,
    rows,       \* history
    authorized, \* the page's session is an administrator's
    granted,    \* history variable: the last sample completed while it was
    cached,     \* the sampler's last sample, 0 before the first
    fresh,      \* cached is less than five seconds old
    pending     \* a collection is in flight

pageVars == <<poll, sample, current, armed, paused, hidden, stopped, rows>>
samplerVars == <<cached, fresh, pending>>
vars == <<pageVars, authorized, granted, samplerVars>>

TypeOK ==
    /\ poll \in {"none", "asked", "collecting", "served", "refused"}
    /\ sample \in Nat
    /\ current \in BOOLEAN
    /\ armed \in BOOLEAN
    /\ paused \in BOOLEAN /\ hidden \in BOOLEAN /\ stopped \in BOOLEAN
    /\ rows \in Seq(Nat) /\ Len(rows) <= MaxRows
    /\ authorized \in BOOLEAN
    /\ granted \in Nat
    /\ cached \in Nat
    /\ fresh \in BOOLEAN
    /\ pending \in BOOLEAN

Watching == ~paused /\ ~stopped /\ ~hidden

-----------------------------------------------------------------------------
(* The page.                                                               *)

\* The page is loaded, perhaps in a tab behind, and has called poll().
Init ==
    /\ hidden \in BOOLEAN
    /\ poll = IF hidden THEN "none" ELSE "asked"
    /\ sample = 0
    /\ current = TRUE
    /\ armed = FALSE
    /\ paused = FALSE /\ stopped = FALSE
    /\ rows = <<>>
    /\ authorized = TRUE
    /\ granted = 0
    /\ cached = 0 /\ fresh = FALSE /\ pending = FALSE

\* poll() of a page that watches, with nothing in flight: elsewhere it returns at once.
BeginPoll ==
    /\ poll' = "asked"
    /\ current' = TRUE
    /\ armed' = FALSE
    /\ UNCHANGED sample

TimerFires ==
    /\ armed
    /\ IF Watching /\ poll = "none" THEN BeginPoll
       ELSE armed' = FALSE /\ UNCHANGED <<poll, sample, current>>
    /\ UNCHANGED <<paused, hidden, stopped, rows, authorized, granted, samplerVars>>

\* suspend(), and poll() if the page watches now.  An aborted request that has not
\* come back yet is still in flight.
SuspendThenPoll ==
    IF Watching' /\ poll = "none" THEN BeginPoll
    ELSE armed' = FALSE /\ current' = FALSE /\ UNCHANGED <<poll, sample>>

Toggle ==
    /\ paused' = ~paused
    /\ UNCHANGED <<hidden, stopped, rows, authorized, granted, samplerVars>>
    /\ SuspendThenPoll

VisibilityChanges ==
    /\ hidden' = ~hidden
    /\ UNCHANGED <<paused, stopped, rows, authorized, granted, samplerVars>>
    /\ SuspendThenPoll

\* The request in flight is left to itself.
FaultyDispose ==
    /\ ~stopped
    /\ stopped' = TRUE
    /\ armed' = FALSE
    /\ rows' = <<>>
    /\ UNCHANGED <<poll, sample, current, paused, hidden, authorized, granted, samplerVars>>

\* pagehide: the page does not watch now.
Dispose ==
    /\ stopped' = TRUE
    /\ rows' = <<>>
    /\ UNCHANGED <<paused, hidden, authorized, granted, samplerVars>>
    /\ SuspendThenPoll

\* `finally': the next poll is forgotten after a suspend.
FaultyFinally ==
    /\ poll' = "none"
    /\ armed' = (current /\ ~paused /\ ~stopped' /\ ~hidden)
    /\ UNCHANGED <<current, paused, hidden, authorized, granted, samplerVars>>

Finally ==
    /\ poll' = "none"
    /\ armed' = (~paused /\ ~stopped' /\ ~hidden)
    /\ UNCHANGED <<current, paused, hidden, authorized, granted, samplerVars>>

\* Every answer makes a row.
FaultyWithReading(s) ==
    LET longer == Append(rows, s)
    IN  IF Len(longer) > MaxRows THEN Tail(longer) ELSE longer

\* history.push and slice(-12), if the sample is not the last one again.
WithReading(s) ==
    LET longer == Append(rows, s)
    IN  IF rows # <<>> /\ rows[Len(rows)] = s THEN rows
        ELSE IF Len(longer) > MaxRows THEN Tail(longer)
        ELSE longer

SampleArrives ==
    /\ poll = "served"
    /\ rows' = IF current /\ ~hidden /\ ~paused THEN WithReading(sample) ELSE rows
    /\ sample' = 0
    /\ UNCHANGED stopped
    /\ Finally

\* 401 or 403.
RefusalArrives ==
    /\ poll = "refused"
    /\ stopped' = (stopped \/ current)
    /\ rows' = IF current THEN <<>> ELSE rows
    /\ UNCHANGED sample
    /\ Finally

\* Aborted by suspend() or after eight seconds, a network error, another status.
PollFails ==
    /\ poll # "none"
    /\ sample' = 0
    /\ UNCHANGED <<stopped, rows>>
    /\ Finally

-----------------------------------------------------------------------------
(* The route and the sampler.                                              *)

\* sample(), for any administrator: the cached one, or the collection in flight.
Collect ==
    /\ pending' = TRUE
    /\ UNCHANGED <<cached, fresh>>

RequestReaches ==
    /\ poll = "asked"
    /\ IF ~authorized
       THEN poll' = "refused" /\ UNCHANGED <<sample, samplerVars>>
       ELSE IF fresh
       THEN poll' = "served" /\ sample' = cached /\ UNCHANGED samplerVars
       ELSE poll' = "collecting" /\ Collect /\ UNCHANGED sample
    /\ UNCHANGED <<current, armed, paused, hidden, stopped, rows, authorized, granted>>

OtherPageAsks ==
    /\ ~fresh
    /\ Collect
    /\ UNCHANGED <<pageVars, authorized, granted>>

\* Who may begin may end.
FaultyHandlerResumes ==
    IF poll = "collecting"
    THEN poll' = "served" /\ sample' = cached'
    ELSE UNCHANGED <<poll, sample>>

\* After the await: the session is looked up again.
HandlerResumes ==
    IF poll = "collecting"
    THEN IF authorized THEN poll' = "served" /\ sample' = cached'
         ELSE poll' = "refused" /\ UNCHANGED sample
    ELSE UNCHANGED <<poll, sample>>

CollectionEnds ==
    /\ pending
    /\ cached < MaxSamples
    /\ cached' = cached + 1
    /\ fresh' = TRUE
    /\ pending' = FALSE
    /\ granted' = IF authorized THEN cached' ELSE granted
    /\ HandlerResumes
    /\ UNCHANGED <<current, armed, paused, hidden, stopped, rows, authorized>>

FreshnessExpires ==
    /\ fresh
    /\ fresh' = FALSE
    /\ UNCHANGED <<pageVars, authorized, granted, cached, pending>>

\* Logout, expiry, another login, a reset, or the role was taken away.
SessionEnds ==
    /\ authorized
    /\ authorized' = FALSE
    /\ UNCHANGED <<pageVars, granted, samplerVars>>

-----------------------------------------------------------------------------
Next ==
    \/ TimerFires
    \/ Toggle
    \/ VisibilityChanges
    \/ Dispose
    \/ SampleArrives
    \/ RefusalArrives
    \/ PollFails
    \/ RequestReaches
    \/ OtherPageAsks
    \/ CollectionEnds
    \/ FreshnessExpires
    \/ SessionEnds

\* A timer fires, and a request in flight comes to an end: eight seconds at most.
Fairness ==
    /\ WF_vars(TimerFires)
    /\ WF_vars(SampleArrives \/ RefusalArrives \/ PollFails)

Spec == Init /\ [][Next]_vars /\ Fairness

-----------------------------------------------------------------------------
(* Properties.                                                             *)

\* "Polling is sequential" (docs/admin-monitoring.md:29), and it does not stall: a
\* page that watches has a request in flight or the timer of the next one, and
\* never both, however often it was paused, hidden and shown while an aborted
\* request was on its way back; a page that does not watch has no timer.
PollingIsSequential == armed <=> Watching /\ poll = "none"

\* No sample that was completed after the session lost its rights is shown: not
\* one the page's request was waiting for when it lost them, and not one that
\* another administrator's request put into the shared cache.
NothingNewAfterRevocation == \A i \in 1..Len(rows) : rows[i] <= granted

\* "401/403 clears history and stops polling. Page exit aborts and clears": what
\* was in flight then does not fill the card again.
StoppedShowsNothing == stopped => rows = <<>>

\* The history is of distinct samples in their order, although the cache answers
\* several polls with the same one and polls are abandoned on their way.
ReadingsInOrder == \A i \in 1..Len(rows) - 1 : rows[i] < rows[i + 1]

\* If requests get through again and again, a page that goes on watching after its
\* session has lost its rights stops and clears.
RevokedPageStops ==
    SF_vars(RequestReaches) /\ SF_vars(RefusalArrives) =>
        (~authorized /\ Watching ~> ~Watching)
=============================================================================
