--------------------------- MODULE LifecyclePolicy ---------------------------
(***************************************************************************)
(* core/lifecycle-policy.js: the engine that decides when a model process  *)
(* may be launched, stopped and relaunched, from observations that may be  *)
(* stale.  It acts in dispatch(event, observation) only.                   *)
(*                                                                         *)
(* `world' is the simulated process that the engine's effects act on and   *)
(* that its caller samples: the engine sees only the sample.  Operation    *)
(* ids, reasons and outcomes are left out.                                 *)
(***************************************************************************)
EXTENDS Naturals, FiniteSets, Sequences

CONSTANTS
    StartupMs, ShutdownMs, HealthFailures,      \* the policy options
    RecoveryLaunches, RecoveryWindowMs, BackoffMs, AutoRecovery, MaxObservationAgeMs,
    MaxTime                                     \* bound on the clock

ASSUME PolicyAssumption ==
    /\ {StartupMs, ShutdownMs, HealthFailures, RecoveryLaunches,
        RecoveryWindowMs, MaxObservationAgeMs} \subseteq Nat \ {0}
    /\ BackoffMs \in Seq(Nat \ {0}) /\ BackoffMs # <<>>
    /\ AutoRecovery \in BOOLEAN
    /\ MaxTime \in Nat

VARIABLES
    now,        \* what the caller's clock says
    policy,     \* the variables of the engine
    world,      \* the process and its listener
    sample,     \* the caller's latest observation
    recoveries, \* when recovery launches were made (history only)
    deliberate  \* the last accepted request was a stop (history only)

vars == <<now, policy, world, sample, recoveries, deliberate>>

Transitions == [
    stopped  |-> {"starting", "failed", "blocked"},
    starting |-> {"ready", "failed", "blocked", "stopping"},
    ready    |-> {"degraded", "stopping", "stopped", "failed", "blocked"},
    degraded |-> {"ready", "stopping", "stopped", "failed", "blocked"},
    stopping |-> {"stopped", "failed", "blocked"},
    backoff  |-> {"starting", "stopped", "blocked", "failed"},
    failed   |-> {"starting", "stopping", "stopped", "backoff", "blocked"},
    blocked  |-> {}]
Requests == {"start", "stop", "restart"}

States == {"stopped", "starting", "ready", "degraded", "stopping", "backoff", "failed",
           "blocked"}

\* The variables of one engine.
Engines ==
    [state : States, operation : Requests \union {"none", "recovery"}, deadline : Nat,
     owned : BOOLEAN, unresolved : BOOLEAN, suppressed : BOOLEAN,
     failures : 0..HealthFailures, launches : SUBSET (0..MaxTime),
     due : Nat, effectAt : Nat,
     shutdown : {"none", "clean", "forced", "incomplete"},
     threw : BOOLEAN]

TypeOK ==
    /\ now \in 0..MaxTime
    /\ policy \in Engines
    /\ world \in [process : {"none", "launching", "alive", "exited"}, listening : BOOLEAN]
    /\ sample \in [at : 0..MaxTime, used : BOOLEAN, alive : BOOLEAN, listening : BOOLEAN,
                   retained : BOOLEAN, healthy : BOOLEAN]
    /\ recoveries \subseteq 0..MaxTime
    /\ deliberate \in BOOLEAN

Init ==
    /\ now = 0
    /\ policy = [state |-> "stopped", operation |-> "none", deadline |-> 0, owned |-> FALSE,
                 unresolved |-> FALSE, suppressed |-> FALSE, failures |-> 0, launches |-> {},
                 due |-> 0, effectAt |-> 0, shutdown |-> "none", threw |-> FALSE]
    /\ world = [process |-> "none", listening |-> FALSE]
    /\ sample = [at |-> 0, used |-> FALSE, alive |-> FALSE, listening |-> FALSE,
                 retained |-> FALSE, healthy |-> TRUE]
    /\ recoveries = {}
    /\ deliberate = FALSE

-----------------------------------------------------------------------------
(* The caller and its process (outside the engine).                        *)

ClockAdvances ==
    /\ now < MaxTime
    /\ now' = now + 1
    /\ UNCHANGED <<policy, world, sample, recoveries, deliberate>>

ProcessChanges ==
    /\ \/ world.process = "launching" /\ world' = [world EXCEPT !.process = "alive"]
       \/ world.process = "alive" /\ ~world.listening /\ world' = [world EXCEPT !.listening = TRUE]
       \/ world.process = "alive" /\ world' = [world EXCEPT !.process = "exited"]
       \/ world.process = "exited" /\ world.listening /\ world' = [world EXCEPT !.listening = FALSE]
    /\ UNCHANGED <<now, policy, sample, recoveries, deliberate>>

\* An observation carries the retained handle if the caller had it then.
Observe ==
    /\ \E healthy \in BOOLEAN :
           sample' = [at |-> now, used |-> FALSE, alive |-> world.process = "alive",
                      listening |-> world.listening, retained |-> policy.owned,
                      healthy |-> healthy]
    /\ UNCHANGED <<now, policy, world, recoveries, deliberate>>

-----------------------------------------------------------------------------
(* The helpers of the engine, on its variables p.                          *)

\* An illegal move throws; `threw' remembers it.
Move(p, next) ==
    [p EXCEPT !.state = next,
              !.threw = @ \/ next \notin Transitions[p.state] \union {p.state}]

Block(p) == [Move(p, "blocked") EXCEPT !.due = 0]

Begin(p, type) == [p EXCEPT !.operation = type, !.deadline = 0, !.shutdown = "none"]

Done(p) == [p EXCEPT !.operation = "none", !.deadline = 0]

Recent(p) == {t \in p.launches : now - t < RecoveryWindowMs}

\* A launch by hand that forgets the recent recovery launches.
FaultyLaunch(p) ==
    [Move(p, "starting") EXCEPT !.deadline = now + StartupMs, !.unresolved = TRUE,
                                !.due = 0, !.failures = 0, !.effectAt = now, !.launches = {}]

Launch(p) ==
    [Move(p, "starting") EXCEPT !.deadline = now + StartupMs, !.unresolved = TRUE,
                                !.due = 0, !.failures = 0, !.effectAt = now]

RecoveryLaunch(p) ==
    LET q == [p EXCEPT !.launches = Recent(p)] IN
    IF Cardinality(Recent(p)) >= RecoveryLaunches
    THEN [Done(Move(q, "failed")) EXCEPT !.due = 0]
    ELSE Launch([q EXCEPT !.launches = @ \union {now}])

Least(i, j) == IF i < j THEN i ELSE j

Schedule(p) ==
    LET q == [Done(p) EXCEPT !.launches = Recent(p)]
        n == Cardinality(Recent(p))
    IN  IF ~AutoRecovery \/ p.suppressed THEN Done(p)
        ELSE IF n >= RecoveryLaunches THEN q
        ELSE [Move(q, "backoff") EXCEPT !.due = now + BackoffMs[Least(n, Len(BackoffMs) - 1) + 1]]

Stop(p, how) ==
    [Move(p, "stopping") EXCEPT !.deadline = now + ShutdownMs, !.shutdown = how,
                                !.effectAt = now]

\* An observation that is believed although it is older than the last effect or
\* was taken without the handle.
FaultyEvidence ==
    /\ now - sample.at <= MaxObservationAgeMs
    /\ sample.listening => policy.owned /\ sample.alive

\* evidence(): fresh, later than the last effect, never used, with the handle.
Evidence ==
    /\ ~sample.used
    /\ sample.at >= policy.effectAt
    /\ now - sample.at <= MaxObservationAgeMs
    /\ policy.owned => sample.retained
    /\ ~policy.owned => ~sample.alive
    /\ sample.listening => policy.owned /\ sample.alive

Absent == ~sample.alive /\ ~sample.listening

Launches(p) == p.unresolved /\ ~policy.unresolved

\* The engine's variables become p; a launch effect reaches the process, and an
\* observation of an earlier process never carries the handle of the new one.
Become(p) ==
    /\ policy' = p
    /\ world' = IF Launches(p) THEN [world EXCEPT !.process = "launching"] ELSE world
    /\ recoveries' = IF Launches(p) /\ p.operation = "recovery"
                     THEN recoveries \union {now} ELSE recoveries
    /\ UNCHANGED now

BecomeOn(p) ==
    /\ Become(p)
    /\ sample' = [sample EXCEPT !.used = TRUE, !.retained = @ /\ ~Launches(p)]

-----------------------------------------------------------------------------
(* dispatch(): a blocked engine ignores everything.                        *)

\* A request on verified absence that restarts straight from a running state.
FaultyOnAbsence(p, type) ==
    LET q == [p EXCEPT !.owned = FALSE] IN
    IF type = "stop" THEN Done([Move(q, "stopped") EXCEPT !.due = 0]) ELSE Launch(q)

\* A stop request that leaves a scheduled recovery alone.
LazyOnAbsence(p, type) ==
    LET q == [p EXCEPT !.owned = FALSE]
        r == IF q.state \in {"ready", "degraded"} THEN Move(q, "stopped") ELSE q
    IN  IF type = "stop"
        THEN Done(IF q.state = "backoff" THEN q ELSE [Move(q, "stopped") EXCEPT !.due = 0])
        ELSE Launch(r)

\* A start, stop or restart when the process is verified to be gone.
OnAbsence(p, type) ==
    LET q == [p EXCEPT !.owned = FALSE]
        r == IF q.state \in {"ready", "degraded"} THEN Move(q, "stopped") ELSE q
    IN  IF type = "stop" THEN Done([Move(q, "stopped") EXCEPT !.due = 0]) ELSE Launch(r)

\* start, stop, restart; a request during an operation or a backoff is `busy'.
Request(type) ==
    LET p == Begin([policy EXCEPT !.suppressed = (type = "stop")], type) IN
    /\ policy.state # "blocked"
    /\ policy.operation = "none"
    /\ policy.state = "backoff" => type = "stop"
    /\ Evidence
    /\ IF policy.unresolved THEN BecomeOn(Block(policy))
       ELSE IF Absent THEN BecomeOn(OnAbsence(p, type))
       ELSE IF policy.owned /\ sample.alive
       THEN BecomeOn(IF type = "start" THEN Done(p) ELSE Stop(p, "clean"))
       ELSE BecomeOn(Block(p))
    /\ deliberate' = (type = "stop")

\* observe or tick while a recovery is scheduled.
BackoffObserved ==
    /\ policy.state = "backoff"
    /\ Evidence
    /\ BecomeOn(IF ~Absent THEN Block(policy)
                ELSE IF now >= policy.due THEN RecoveryLaunch(Begin(policy, "recovery"))
                ELSE policy)
    /\ UNCHANGED deliberate

\* ... while the process is starting.
StartingObserved ==
    /\ policy.state = "starting"
    /\ Evidence
    /\ BecomeOn(
           IF now >= policy.deadline
           THEN IF policy.unresolved THEN Block(Move(policy, "failed"))
                ELSE Done(Move(policy, "failed"))
           ELSE IF policy.unresolved THEN policy
           ELSE IF Absent THEN Schedule(Move([policy EXCEPT !.owned = FALSE], "failed"))
           ELSE IF sample.listening /\ sample.healthy THEN Done(Move(policy, "ready"))
           ELSE policy)
    /\ UNCHANGED deliberate

\* ... while it is stopping, on request or to be recovered.
StoppingObserved ==
    LET gone == Done(Move([policy EXCEPT !.owned = FALSE,
                      !.shutdown = IF @ = "forced" THEN "forced" ELSE "clean"], "stopped"))
    IN  /\ policy.state = "stopping"
        /\ Evidence
        /\ BecomeOn(
               IF Absent
               THEN CASE policy.operation = "restart"  -> Launch(Begin(gone, "restart"))
                      [] policy.operation = "recovery" -> Schedule(Move(gone, "failed"))
                      [] OTHER -> gone
               ELSE IF now >= policy.deadline
               THEN [Move(policy, "failed") EXCEPT !.shutdown = "incomplete"]
               ELSE policy)
        /\ UNCHANGED deliberate

TooManyFailures(n) == n >= HealthFailures

\* ... while it is running: too many health failures in a row end it.
RunningObserved ==
    LET worse == [Move(policy, "degraded") EXCEPT !.failures = @ + 1] IN
    /\ policy.state \in {"ready", "degraded"}
    /\ Evidence
    /\ BecomeOn(
           IF Absent THEN Schedule(Move([policy EXCEPT !.owned = FALSE], "failed"))
           ELSE IF sample.healthy /\ sample.listening
           THEN [Move(policy, "ready") EXCEPT !.failures = 0]
           ELSE IF ~TooManyFailures(worse.failures) THEN worse
           ELSE IF AutoRecovery /\ ~policy.suppressed
           THEN Stop(Begin(worse, "recovery"), "clean")
           ELSE Move(worse, "failed"))
    /\ UNCHANGED deliberate

\* ... while nothing is expected: the observation is used up.
IdleObserved ==
    /\ policy.state \in {"stopped", "failed"}
    /\ Evidence
    /\ BecomeOn(policy)
    /\ UNCHANGED deliberate

\* Evidence or a clock that cannot be verified, a foreign listener, a lost handle,
\* an authentication, configuration or security failure.
Unverifiable ==
    /\ policy.state # "blocked"
    /\ Become(Block(policy))
    /\ UNCHANGED <<sample, deliberate>>

\* The simulated launch returns the handle.
Launched ==
    /\ policy.state = "starting"
    /\ policy.unresolved
    /\ world.process \in {"alive", "exited"}
    /\ LET p == [policy EXCEPT !.owned = TRUE, !.unresolved = FALSE] IN
       Become(IF now >= p.deadline THEN Done(Move(p, "failed")) ELSE p)
    /\ UNCHANGED <<sample, deliberate>>

\* A cancellation that lets go of the process.
FaultyCancel ==
    /\ policy.operation # "none"
    /\ policy.state # "blocked"
    /\ Become(Done(Move([policy EXCEPT !.suppressed = TRUE, !.owned = FALSE], "failed")))
    /\ UNCHANGED <<sample, deliberate>>

Cancel ==
    LET p == [policy EXCEPT !.suppressed = TRUE] IN
    /\ policy.state # "blocked"
    /\ policy.operation # "none"
    /\ Become(IF p.unresolved \/ p.state = "stopping" THEN Block(p)
              ELSE Done(Move(p, IF p.owned THEN "failed" ELSE "stopped")))
    /\ UNCHANGED <<sample, deliberate>>

\* An approved force-stop after a shutdown that did not complete.
ForceStop ==
    /\ policy.operation # "none"
    /\ policy.state = "failed"
    /\ policy.shutdown = "incomplete"
    /\ policy.owned
    /\ Evidence
    /\ sample.alive
    /\ BecomeOn(Stop(policy, "forced"))
    /\ UNCHANGED deliberate

Next ==
    \/ ClockAdvances
    \/ ProcessChanges
    \/ Observe
    \/ \E type \in Requests : Request(type)
    \/ BackoffObserved
    \/ StartingObserved
    \/ StoppingObserved
    \/ RunningObserved
    \/ IdleObserved
    \/ Unverifiable
    \/ Launched
    \/ Cancel
    \/ ForceStop

Spec == Init /\ [][Next]_vars

-----------------------------------------------------------------------------
(* Properties.                                                             *)

\* A launch is only ever asked for when the previous process is really gone and
\* its listener released, although the engine knows of it by old samples only.
NoLaunchOverALiveProcess ==
    [][policy'.unresolved /\ ~policy.unresolved =>
          world.process \in {"none", "exited"} /\ ~world.listening]_vars

\* Unless it is blocked, the engine never loses sight of a living process.
NoForgottenProcess ==
    world.process = "alive" =>
        policy.owned \/ policy.unresolved \/ policy.state = "blocked"

\* No window holds more recovery launches than the budget, whatever is started
\* by hand in between.
RecoveryBudgetHolds ==
    Cardinality({t \in recoveries : now - t < RecoveryWindowMs}) <= RecoveryLaunches

\* "Deliberate stop suppresses recovery until an accepted explicit start/restart."
DeliberateStopSuppresses ==
    [][recoveries' # recoveries => ~deliberate]_vars

\* dispatch() never throws `Illegal transition', which would leave it half done.
NeverAnIllegalTransition == ~policy.threw
=============================================================================
