------------------------------ MODULE Supervisor ------------------------------
(***************************************************************************)
(* The process supervisor, release/rc1/supervisor/supervisor.cjs: main()   *)
(* from the creation of the lease to its removal, over two brokers.        *)
(*                                                                         *)
(* Each member of Runs is one `--run' process.  Runs meet only in two      *)
(* files: supervisor.lease, created with `wx' and removed by a clean end   *)
(* only, and stop.request, written by `--stop' and polled by the run.      *)
(***************************************************************************)
EXTENDS ProcessBroker, Naturals

CONSTANTS
    Runs,               \* processes started with --run
    RecoveryLaunches,   \* recovery.cjs: replacements within one window
    LogMayFail          \* whether a write to state/ (events, status) may fail

ASSUME SupervisorAssumption ==
    /\ Runs \intersect {"free", "none"} = {}
    /\ RecoveryLaunches \in Nat
    /\ LogMayFail \in BOOLEAN

VARIABLES
    lease,      \* supervisor.lease: the run that created it, or "free"
    stopFile,   \* "none", or stop.request: the lease when it was written (the
                \* file itself says only "stop")
    stopCmd,    \* the `--stop' command: "checked" has seen a lease
    pc,         \* where main() of each run is
    signalled,  \* stopRequested of each run
    me          \* the locals of the latest run that took the lease

supervisorVars == <<lease, stopFile, stopCmd, pc, signalled, me>>
vars == <<supervisorVars, brokerVars>>

Labels == {"off", "app-check", "observe", "connecting", "starting", "waiting",
           "status", "replacing", "backoff", "monitor", "poll", "polling",
           "recovering", "backoff-round", "stopping", "stop-sent", "stop-quit",
           "blocked", "tidy", "ended", "crashed"}

Locals == [run : Runs \union {"none"},
           service : Services,              \* whose turn it is
           todo : SUBSET Services,          \* left in this round of the monitor
           inRound : BOOLEAN,               \* ensure() was called by the monitor
           owned : SUBSET Services,
           external : SUBSET Services,
           attempts : [Services -> 0..RecoveryLaunches],
           suppressed : SUBSET Services,    \* budgets that are suppressed
           giveUp : BOOLEAN,                \* the budget answered null
           inCatch : BOOLEAN]               \* main() is in its catch block

SupervisorTypeOK ==
    /\ BrokerTypeOK
    /\ lease \in Runs \union {"free"}
    /\ stopFile \in Runs \union {"free", "none"}
    /\ stopCmd \in {"none", "checked"}
    /\ pc \in [Runs -> Labels]
    /\ signalled \in [Runs -> BOOLEAN]
    /\ me \in Locals

Fresh(p) == [run |-> p, service |-> "backend", todo |-> {}, inRound |-> FALSE,
             owned |-> {}, external |-> {}, attempts |-> [s \in Services |-> 0],
             suppressed |-> {}, giveUp |-> FALSE, inCatch |-> FALSE]

SupervisorInit ==
    /\ BrokerInit
    /\ lease = "free"
    /\ stopFile = "none"
    /\ stopCmd = "none"
    /\ pc = [p \in Runs |-> "off"]
    /\ signalled = [p \in Runs |-> FALSE]
    /\ me = Fresh("none")

Stopping(p) == signalled[p] \/ stopFile # "none"

Goto(p, label) == pc' = [pc EXCEPT ![p] = label]

\* What most of main() leaves alone: the files and the signals.
Outside == <<lease, stopFile, stopCmd, signalled>>

\* The run goes on without a word to its brokers.
Quietly == UNCHANGED <<Outside, brokerVars>>

-----------------------------------------------------------------------------
(* Exceptions, requests and their answers.                                 *)

\* A throw in the try block ends in the catch block, whose first statement is a
\* log that may fail too; a throw of stopOwned() in the catch block is swallowed.
Throw(p, locals) ==
    /\ me' = [locals EXCEPT !.inCatch = TRUE]
    /\ \/ Goto(p, "blocked")
       \/ LogMayFail /\ ~me.inCatch /\ Goto(p, "ended")

\* A statement that writes a file of state/: it throws when the write fails.
MayThrow(p, locals) == LogMayFail /\ Throw(p, locals)

\* request() to the service whose turn it is, up to its await.
Requests(p, command, label) ==
    /\ Send(me.service, command)
    /\ Goto(p, label)
    /\ UNCHANGED <<Outside, channel, reply, processVars>>

\* The answer of that service, when the run does nothing but look at it.
Hears(statuses) ==
    /\ Receive(me.service, statuses)
    /\ UNCHANGED <<Outside, channel, awaited, pipe, processVars>>

\* A service that no longer answers is started again.
FaultyLost(p) ==
    /\ pc[p] = "polling"
    /\ channel[me.service] = "revoked"
    /\ me' = [me EXCEPT !.owned = @ \ {me.service}, !.inRound = TRUE]
    /\ Goto(p, "observe")
    /\ Quietly

\* A request, pending or about to be made, on a channel that is revoked.
Lost(p) ==
    /\ pc[p] \in {"connecting", "starting", "waiting", "status", "replacing",
                  "polling", "recovering", "stop-sent", "stop-quit"}
    /\ channel[me.service] = "revoked"
    /\ Throw(p, me)
    /\ Quietly

\* budget.next(): launches that left the window are forgotten before it decides.
Budget(s) ==
    IF s \in me.suppressed
    THEN me' = [me EXCEPT !.giveUp = TRUE]
    ELSE \E remembered \in 0..me.attempts[s] :
             LET exhausted == remembered >= RecoveryLaunches
             IN  me' = [me EXCEPT
                     !.giveUp = exhausted,
                     !.attempts[s] = IF exhausted THEN remembered ELSE remembered + 1]

\* An owned child has exited: the budget is asked, then the broker is dismissed.
Dismiss(p, label) ==
    /\ Receive(me.service, {"exited"})
    /\ Budget(me.service)
    /\ Send(me.service, "QUIT")
    /\ Goto(p, label)
    /\ UNCHANGED <<Outside, channel, processVars>>

\* The broker has quit: it is owned no longer.  The monitor logs the backoff.
Dismissed(p, from, label) ==
    /\ pc[p] = from
    /\ channel[me.service] = "closed"
    /\ LET locals == [me EXCEPT !.owned = @ \ {me.service}, !.todo = @ \ {me.service}, !.giveUp = FALSE]
       IN  \/ ~me.giveUp /\ me' = locals /\ Goto(p, label)
           \/ me.giveUp /\ Throw(p, locals)
           \/ from = "recovering" /\ MayThrow(p, locals)
    /\ Quietly

-----------------------------------------------------------------------------
(* Startup: main() up to its monitor, and ensure().                        *)

\* Lines 59-67: the gate has passed, and `wx' admits one run; a member of Runs may
\* be a process again and again.
TakeLease(p) ==
    /\ pc[p] \in {"off", "ended", "crashed"}
    /\ lease = "free"
    /\ lease' = p
    /\ me' = Fresh(p)
    /\ Goto(p, "app-check")
    /\ UNCHANGED <<stopFile, stopCmd, signalled, brokerVars>>

\* An application that runs already is preserved if it is healthy.
AppCheck(p) ==
    /\ pc[p] = "app-check"
    /\ \/ /\ \E found \in SUBSET {"application"} : me' = [me EXCEPT !.external = found]
          /\ Goto(p, "observe")
       \/ Throw(p, me)
    /\ Quietly

\* The end of ensure(): the application's turn, the round, or the monitor.
EnsureReturns(p, external) ==
    \/ /\ me.inRound
       /\ me' = [me EXCEPT !.external = external]
       /\ Goto(p, "poll")
    \/ /\ ~me.inRound /\ me.service = "backend" /\ "application" \notin external
       /\ me' = [me EXCEPT !.external = external, !.service = "application"]
       /\ Goto(p, "observe")
    \/ /\ ~me.inRound /\ (me.service = "application" \/ "application" \in external)
       /\ me' = [me EXCEPT !.external = external]
       /\ Goto(p, "monitor")

\* ensure() up to its connect(): the service is preserved, launched or refused.
Observe(p) ==
    /\ pc[p] = "observe"
    /\ \/ EnsureReturns(p, me.external \union {me.service}) /\ Quietly
       \/ Open(me.service) /\ Goto(p, "connecting") /\ UNCHANGED <<Outside, me>>
       \/ Throw(p, me) /\ Quietly

\* The broker is started, and never put into the map.
FaultyConnected(p) ==
    /\ pc[p] = "connecting"
    /\ Requests(p, "START", "starting")
    /\ UNCHANGED me

\* The broker is owned before it is asked to start anything.  The monitor that
\* iterates over the map of owned brokers will visit this one as well.
Connected(p) ==
    /\ pc[p] = "connecting"
    /\ Requests(p, "START", "starting")
    /\ me' = [me EXCEPT !.owned = @ \union {me.service}, !.todo = @ \union {me.service}]

Started(p) ==
    /\ pc[p] = "starting"
    /\ Hears(Statuses)
    /\ Goto(p, "waiting")
    /\ UNCHANGED me

\* waitReady(): cancelled or late, or another STATUS.
AskReady(p) ==
    /\ pc[p] = "waiting"
    /\ \/ ~Stopping(p) /\ Requests(p, "STATUS", "status") /\ UNCHANGED me
       \/ Throw(p, me) /\ Quietly

ReadyAnswer(p) ==
    /\ pc[p] = "status"
    /\ \/ Dismiss(p, "replacing")
       \/ Hears({"owned"}) /\ Goto(p, "waiting") /\ UNCHANGED me
       \/ Hears({"owned"}) /\ EnsureReturns(p, me.external)
       \/ Hears(Statuses) /\ Throw(p, me)

\* backoff() within ensure(), and after it a new ensure().
Replace(p) ==
    /\ pc[p] = "backoff"
    /\ \/ ~Stopping(p) /\ Goto(p, "observe") /\ UNCHANGED me
       \/ Stopping(p) /\ Throw(p, me)
    /\ Quietly

-----------------------------------------------------------------------------
(* The monitor.                                                            *)

\* The top of a round.
Monitor(p) ==
    /\ pc[p] = "monitor"
    /\ me' = [me EXCEPT !.todo = me.owned, !.inRound = TRUE]
    /\ Goto(p, IF Stopping(p) THEN "stopping" ELSE "poll")
    /\ Quietly

\* One owned service after the other, in any order; then the external ones are
\* compared with what they were and status.json is written.
Poll(p) ==
    /\ pc[p] = "poll"
    /\ \/ \E s \in me.todo :
              /\ me' = [me EXCEPT !.service = s, !.todo = @ \ {s}]
              /\ Send(s, "STATUS")
              /\ Goto(p, "polling")
              /\ UNCHANGED <<Outside, channel, reply, processVars>>
       \/ /\ \E s \in me.todo : channel[s] = "revoked"
          /\ Throw(p, me)
          /\ Quietly
       \/ /\ me.todo = {}
          /\ \/ Goto(p, "monitor") /\ UNCHANGED me
             \/ me.external # {} /\ Throw(p, me)
             \/ MayThrow(p, me)
          /\ Quietly

\* An unhealthy service that lives is left alone; its key may be refused, though.
PollAnswer(p) ==
    /\ pc[p] = "polling"
    /\ \/ Dismiss(p, "recovering")
       \/ Hears({"owned", "exit-pending"}) /\ Goto(p, "poll") /\ UNCHANGED me
       \/ Hears(Statuses \ {"exited", "exit-pending"}) /\ Throw(p, me)

\* backoff() within a round; a run that stops goes on with the round.
Recover(p) ==
    /\ pc[p] = "backoff-round"
    /\ Goto(p, IF Stopping(p) THEN "poll" ELSE "observe")
    /\ UNCHANGED me
    /\ Quietly

-----------------------------------------------------------------------------
(* stopOwned(), the catch block and the finally block.                     *)

\* The backend first.
FaultyNextToStop == IF "backend" \in me.owned THEN "backend" ELSE "application"

\* The application goes before the backend it talks to.
NextToStop == IF "application" \in me.owned THEN "application" ELSE "backend"

StopNext(p) ==
    /\ pc[p] = "stopping"
    /\ me.owned # {}
    /\ LET s == NextToStop
           locals == [me EXCEPT !.service = s, !.suppressed = @ \union {s}]
       IN  \/ /\ me' = locals
              /\ Send(s, "STOP")
              /\ Goto(p, "stop-sent")
              /\ UNCHANGED <<Outside, channel, reply, processVars>>
           \/ /\ channel[s] = "revoked"
              /\ Throw(p, locals)
              /\ Quietly

\* A stop that is not complete is tried again, by the monitor or by the catch block.
StopAnswer(p) ==
    /\ pc[p] = "stop-sent"
    /\ \/ /\ Receive(me.service, {"exited", "graceful-complete"})
          /\ Send(me.service, "QUIT")
          /\ Goto(p, "stop-quit")
          /\ UNCHANGED <<Outside, me, channel, processVars>>
       \/ /\ Hears(Statuses \ {"exited", "graceful-complete"})
          /\ \/ Goto(p, IF me.inCatch THEN "blocked" ELSE "monitor") /\ UNCHANGED me
             \/ ~me.inCatch /\ MayThrow(p, me)

Stopped(p) ==
    /\ pc[p] = "stop-quit"
    /\ channel[me.service] = "closed"
    /\ me' = [me EXCEPT !.owned = @ \ {me.service}]
    /\ Goto(p, "stopping")
    /\ Quietly

\* The catch block without its loop.
FaultyBlocked(p) ==
    /\ pc[p] = "blocked"
    /\ lease' = "free"
    /\ Goto(p, "tidy")
    /\ UNCHANGED <<stopFile, stopCmd, signalled, me, brokerVars>>

\* The catch block does not look for a stop.
DeafBlocked(p) ==
    /\ pc[p] = "blocked"
    /\ me.owned = {}
    /\ Goto(p, "ended")
    /\ UNCHANGED me
    /\ Quietly

\* The catch block stays the owner until it is told to stop, or owns nothing.  An
\* end without a stop leaves the lease behind.
Blocked(p) ==
    /\ pc[p] = "blocked"
    /\ \/ me.owned = {} /\ Goto(p, "ended")
       \/ me.owned # {} /\ Stopping(p) /\ Goto(p, "stopping")
    /\ UNCHANGED me
    /\ Quietly

\* A clean end: signals are no longer heard, the lease goes first, ...
Release(p) ==
    /\ pc[p] = "stopping"
    /\ me.owned = {}
    /\ signalled' = [signalled EXCEPT ![p] = FALSE]
    /\ lease' = "free"
    /\ Goto(p, "tidy")
    /\ UNCHANGED <<stopFile, stopCmd, me, brokerVars>>

\* ... the request, if there is one, after it.
Tidy(p) ==
    /\ pc[p] = "tidy"
    /\ stopFile' = "none"
    /\ Goto(p, "ended")
    /\ UNCHANGED <<lease, stopCmd, signalled, me, brokerVars>>

-----------------------------------------------------------------------------
(* The surroundings.                                                       *)

\* SIGINT or SIGTERM while main() listens for them.
Signal(p) ==
    /\ pc[p] \notin {"off", "tidy", "ended", "crashed"}
    /\ signalled' = [signalled EXCEPT ![p] = TRUE]
    /\ UNCHANGED <<lease, stopFile, stopCmd, pc, me, brokerVars>>

\* `--stop' looks for a lease, then creates the request unless there is one.
AskStop ==
    /\ \/ stopCmd = "none" /\ lease # "free" /\ stopCmd' = "checked" /\ UNCHANGED stopFile
       \/ /\ stopCmd = "checked"
          /\ stopCmd' = "none"
          /\ stopFile' = IF stopFile = "none" THEN lease ELSE stopFile
    /\ UNCHANGED <<lease, pc, signalled, me, brokerVars>>

\* The process dies, or is killed: also one that has left main(), which its open
\* brokers keep alive.  Its memory is gone, what it wrote to a pipe is not.
Crash(p) ==
    /\ pc[p] \notin {"off", "crashed"}
    /\ Goto(p, "crashed")
    /\ signalled' = [signalled EXCEPT ![p] = FALSE]
    /\ \/ /\ me.run = p
          /\ me' = Fresh(p)
          /\ ClientsVanish
          /\ UNCHANGED pipe
       \/ /\ me.run # p
          /\ UNCHANGED <<me, clientVars>>
    /\ UNCHANGED <<lease, stopFile, stopCmd, processVars>>

\* The pipes to the brokers end with the process.
Orphaned(s) ==
    /\ me.run # "none" /\ pc[me.run] = "crashed"
    /\ PipeBreaks(s)

Works(p) ==
    \/ AppCheck(p)
    \/ Observe(p)
    \/ Connected(p)
    \/ Started(p)
    \/ AskReady(p)
    \/ ReadyAnswer(p)
    \/ Dismissed(p, "replacing", "backoff")
    \/ Replace(p)
    \/ Monitor(p)
    \/ Poll(p)
    \/ PollAnswer(p)
    \/ Dismissed(p, "recovering", "backoff-round")
    \/ Recover(p)
    \/ StopNext(p)
    \/ StopAnswer(p)
    \/ Stopped(p)
    \/ Lost(p)
    \/ Blocked(p)
    \/ Release(p)
    \/ Tidy(p)

SupervisorNext ==
    \/ \E p \in Runs : TakeLease(p) \/ Works(p) \/ Signal(p) \/ Crash(p)
    \/ AskStop
    \/ \E s \in Services : (BrokerMoves(s) \/ Orphaned(s)) /\ UNCHANGED supervisorVars

\* Code that runs goes on; nobody has to stop a run, and no child has to exit.
SupervisorFairness ==
    /\ \A p \in Runs : WF_vars(Works(p))
    /\ \A s \in Services :
           /\ WF_vars(BrokerTalks(s) /\ UNCHANGED supervisorVars)
           /\ WF_vars(Orphaned(s) /\ UNCHANGED supervisorVars)

SupervisorSpec == SupervisorInit /\ [][SupervisorNext]_vars /\ SupervisorFairness

-----------------------------------------------------------------------------
(* Properties.                                                             *)

Holds(p) == lease = p /\ pc[p] \notin {"ended", "crashed"}

\* The lease is what keeps a second run away: it is given back only when no child
\* of the run is left, whatever broke on the way (supervisor.cjs: lines 109, 137-144).
NothingLeftWithoutLease ==
    lease = "free" => Alive = {}

\* A run that still works knows every child that lives, from before its launch until
\* after the end of its broker: a child it forgot would never be asked to stop
\* (lines 76, 83, 97 and 116).
OwnedIsKept ==
    \A p \in Runs : Holds(p) => Alive \subseteq me.owned

\* The backend is not asked to stop while an application launched by the supervisor
\* still uses it, on any path through the monitor or the catch block (line 92).
BackendOutlivesApplication ==
    [][ (awaited["backend"] # "STOP" /\ awaited'["backend"] = "STOP")
            => "application" \notin Alive ]_vars

\* A second broker is not opened for a service whose child may still live; a child
\* that cannot be reached is no reason to replace it (line 136).
NeverReplacedAlive ==
    [][ \A s \in Services :
            (channel[s] # "hello" /\ channel'[s] = "hello") => Unburdened(s) ]_vars

-----------------------------------------------------------------------------
\* SIGTERM ends the run from wherever it is, in the middle of a launch, a backoff, a
\* round or the catch block (lines 64-67, 82-86, 108 and 138), if no request times out
\* and a child that was told to stop does exit.  There is one exception: a child that
\* exited on its own, and was then looked at or asked to stop.  Its broker may fail over
\* it, and always does when a status has told of the exit before (broker.cpp, lines
\* 206-208, 118 and 111).  QUIT cannot reach that broker, and the run stays for ever.
StopIsHonoured ==
    (/\ \A s \in Services : [](channel[s] = "revoked" => broker[s] = "failed")
     /\ \A s \in Services : []<>(child[s] # "told"))
        => \A p \in Runs : signalled[p] ~>
               \/ pc[p] \in {"ended", "crashed"}
               \/ \E s \in me.owned : broker[s] = "failed" /\ child[s] \in {"dead", "released"}

\* When the supervisor dies with children, their brokers ask them to stop
\* (broker.cpp, lines 257-265).
CrashStopsChildren ==
    \A p \in Runs :
        (pc[p] = "crashed" /\ lease = p) ~> \A s \in Services : child[s] # "running"

-----------------------------------------------------------------------------
\* supervisor.cjs, line 54: "Only the running owner consumes this request."  So a
\* request made of one run is never removed by another.
OnlyTheOwnerConsumes ==
    [][ \A p \in Runs : (pc[p] = "tidy" /\ pc'[p] = "ended")
            => stopFile \in {p, "free", "none"} ]_vars

\* supervisor.cjs, line 136: "Remain owner for manual cooperative stop."  So main()
\* does not leave while it owns a broker.
RemainsOwner ==
    \A p \in Runs : (pc[p] = "ended" /\ lease = p) => me.owned = {}
=============================================================================
