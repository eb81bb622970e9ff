------------------------ MODULE LifecyclePolicyProofs ------------------------
(***************************************************************************)
(* Theorems about LifecyclePolicy, for all options and any length of time. *)
(*                                                                         *)
(* The engine's helpers take a record and return one.  The first part says *)
(* what each returns; the second what a change of the record does to the   *)
(* invariant; the third has one lemma per action, which names the record   *)
(* the action produces and the cases of its definition.                    *)
(***************************************************************************)
EXTENDS LifecyclePolicy, FiniteSetTheorems, TLAPS

\* The engine's variables tell one story: which states have an operation under way,
\* which a handle, and where the handle of a launch is still awaited.
Coherent(p) ==
    /\ ~p.threw
    /\ p.state \in {"starting", "stopping"} => p.operation # "none"
    /\ p.state \in {"stopped", "backoff", "ready", "degraded"} => p.operation = "none"
    /\ p.state = "failed" /\ p.operation # "none" => p.owned
    /\ p.state \in {"stopped", "backoff"} => ~p.owned
    /\ p.state \in {"ready", "degraded", "stopping"} => p.owned
    /\ p.state = "starting" => (p.owned <=> ~p.unresolved)
    /\ p.unresolved => p.state \in {"starting", "blocked"}
    /\ p.state = "backoff" => ~p.suppressed
    /\ p.state = "starting" => p.failures = 0
    /\ p.state \in {"ready", "degraded"} => p.failures < HealthFailures

\* The rows of the table that the lemmas below look up.
LEMMA LegalMoves ==
    /\ {"starting", "failed", "blocked"} \subseteq Transitions["stopped"]
    /\ {"ready", "failed", "blocked", "stopping"} \subseteq Transitions["starting"]
    /\ {"degraded", "stopping", "stopped", "failed", "blocked"} \subseteq Transitions["ready"]
    /\ {"ready", "stopping", "stopped", "failed", "blocked"} \subseteq Transitions["degraded"]
    /\ {"stopped", "failed", "blocked"} \subseteq Transitions["stopping"]
    /\ {"starting", "stopped", "blocked", "failed"} \subseteq Transitions["backoff"]
    /\ {"starting", "stopping", "stopped", "backoff", "blocked"} \subseteq Transitions["failed"]
  BY DEF Transitions

\* The options are numbers.
LEMMA Options ==
    /\ StartupMs \in Nat /\ ShutdownMs \in Nat /\ HealthFailures \in Nat \ {0}
    /\ RecoveryLaunches \in Nat /\ RecoveryWindowMs \in Nat /\ RecoveryLaunches > 0
    /\ MaxTime \in Nat
  BY PolicyAssumption

\* A launch over nothing leaves a coherent engine that awaits its handle.
LEMMA LaunchIs ==
    ASSUME NEW p \in Engines, now \in 0..MaxTime, ~p.threw, ~p.owned,
           p.state \in {"stopped", "failed", "backoff"}, p.operation # "none"
    PROVE  /\ Launch(p) \in Engines
           /\ Coherent(Launch(p))
           /\ Launch(p).unresolved /\ ~Launch(p).owned
           /\ Launch(p).state = "starting"
           /\ Launch(p).operation = p.operation
           /\ Launch(p).suppressed = p.suppressed
           /\ Launch(p).launches = p.launches
  <1>1. Launch(p) \in Engines
    <2>1. now \in Nat /\ now + StartupMs \in Nat /\ 0 \in 0..HealthFailures
      BY Options
    <2>2. Move(p, "starting") \in Engines
      BY DEF Engines, States, Move
    <2> QED
      BY <2>1, <2>2 DEF Engines, Launch
  <1>2. Coherent(Launch(p))
    BY LegalMoves, Options DEF Engines, Launch, States, Coherent, Move
  <1> QED
    BY <1>1, <1>2 DEF Engines, Launch, Move

\* Blocking is legal everywhere and keeps whatever handle there is.
LEMMA BlockIs ==
    ASSUME NEW p \in Engines, ~p.threw
    PROVE  /\ Block(p) \in Engines
           /\ Coherent(Block(p))
           /\ Block(p).unresolved = p.unresolved /\ Block(p).owned = p.owned
           /\ Block(p).state = "blocked"
           /\ Block(p).launches = p.launches
           /\ Block(p).suppressed = p.suppressed
  BY LegalMoves, Options DEF Engines, Block, States, Coherent, Move

\* Stopping keeps the handle.
LEMMA StopIs ==
    ASSUME NEW p \in Engines, now \in 0..MaxTime, ~p.threw, p.owned, ~p.unresolved,
           p.state \in {"ready", "degraded", "failed"}, p.operation # "none",
           NEW how \in {"clean", "forced"}
    PROVE  /\ Stop(p, how) \in Engines
           /\ Coherent(Stop(p, how))
           /\ ~Stop(p, how).unresolved /\ Stop(p, how).owned
           /\ Stop(p, how).launches = p.launches
           /\ Stop(p, how).suppressed = p.suppressed
  <1>1. Stop(p, how) \in Engines
    <2>1. now \in Nat /\ now + ShutdownMs \in Nat
      BY Options
    <2>2. Move(p, "stopping") \in Engines
      BY DEF Engines, States, Move
    <2> QED
      BY <2>1, <2>2 DEF Engines, Stop
  <1>2. Coherent(Stop(p, how))
    BY LegalMoves, Options DEF Engines, Stop, States, Coherent, Move
  <1> QED
    BY <1>1, <1>2 DEF Engines, Stop, Move

\* The index into the backoffs never leaves the tuple.
LEMMA BackoffIs ==
    ASSUME NEW n \in Nat
    PROVE  BackoffMs[Least(n, Len(BackoffMs) - 1) + 1] \in Nat
  BY PolicyAssumption DEF Least

\* The launches of a window are finitely many.
LEMMA RecentIs ==
    ASSUME NEW p \in Engines, now \in 0..MaxTime
    PROVE  Recent(p) \in SUBSET (0..MaxTime) /\ IsFiniteSet(Recent(p)) /\ Cardinality(Recent(p)) \in Nat
  <1>1. Recent(p) \in SUBSET (0..MaxTime)
    BY DEF Recent, Engines
  <1>2. IsFiniteSet(0..MaxTime)
    BY FS_Interval, Options
  <1>3. IsFiniteSet(Recent(p))
    BY <1>1, <1>2, FS_Subset
  <1> QED
    BY <1>1, <1>3, FS_CardinalityType

\* A failed engine that has let go of its process stays coherent when it is scheduled.
LEMMA ScheduleIs ==
    ASSUME NEW p \in Engines, now \in 0..MaxTime, ~p.threw, ~p.owned, ~p.unresolved,
           p.state = "failed"
    PROVE  /\ Schedule(p) \in Engines
           /\ Coherent(Schedule(p))
           /\ ~Schedule(p).unresolved /\ ~Schedule(p).owned
           /\ Schedule(p).launches \in {p.launches, Recent(p)}
           /\ Schedule(p).suppressed = p.suppressed
  <1> DEFINE n == Cardinality(Recent(p))
             b == BackoffMs[Least(n, Len(BackoffMs) - 1) + 1]
  <1>1. b \in Nat /\ n \in Nat /\ Recent(p) \in SUBSET (0..MaxTime)
    BY BackoffIs, RecentIs
  <1>2. Schedule(p) = IF ~AutoRecovery \/ p.suppressed THEN Done(p)
        ELSE IF n >= RecoveryLaunches THEN [Done(p) EXCEPT !.launches = Recent(p)]
        ELSE [Move([Done(p) EXCEPT !.launches = Recent(p)], "backoff") EXCEPT !.due = now + b]
    BY DEF Schedule
  <1> DEFINE d == Done(p)
             q == [d EXCEPT !.launches = Recent(p)]
  <1>3. /\ d \in Engines /\ q \in Engines
        /\ d.state = "failed" /\ d.operation = "none" /\ d.launches = p.launches
        /\ d.suppressed = p.suppressed /\ ~d.owned /\ ~d.unresolved /\ ~d.threw
        /\ q.state = "failed" /\ q.operation = "none" /\ q.launches = Recent(p)
        /\ q.suppressed = p.suppressed /\ ~q.owned /\ ~q.unresolved /\ ~q.threw
    BY <1>1 DEF Engines, Done
  <1> HIDE DEF n, b, d, q
  <1>4. CASE ~AutoRecovery \/ p.suppressed
    BY <1>2, <1>3, <1>4 DEF d, Coherent
  <1>5. CASE ~(~AutoRecovery \/ p.suppressed) /\ n >= RecoveryLaunches
    BY <1>2, <1>3, <1>5 DEF d, q, Coherent
  <1>6. CASE ~(~AutoRecovery \/ p.suppressed) /\ ~(n >= RecoveryLaunches)
    <2>1. Schedule(p) = [Move(q, "backoff") EXCEPT !.due = now + b]
      BY <1>2, <1>6 DEF d, q
    <2>2. ~q.suppressed
      BY <1>3, <1>6
    <2> QED
      <3>1. Move(q, "backoff") \in Engines
        BY <1>3 DEF Engines, States, Move
      <3>2. /\ Move(q, "backoff").state = "backoff" /\ ~Move(q, "backoff").threw
            /\ Move(q, "backoff").operation = "none" /\ ~Move(q, "backoff").owned
            /\ ~Move(q, "backoff").unresolved /\ ~Move(q, "backoff").suppressed
            /\ Move(q, "backoff").suppressed = p.suppressed
            /\ Move(q, "backoff").launches = Recent(p)
        BY <1>3, <2>2, LegalMoves DEF Engines, States, Move
      <3>3. now + b \in Nat
        BY <1>1
      <3> DEFINE m == Move(q, "backoff")
      <3> HIDE DEF m
      <3>4. Schedule(p) = [m EXCEPT !.due = now + b]
        BY <2>1 DEF m
      <3> QED
        BY <3>1, <3>2, <3>3, <3>4 DEF Engines, Coherent, m
  <1> QED
    BY <1>4, <1>5, <1>6

\* A recovery launch is made inside the budget and recorded, or not made.
LEMMA RecoveryLaunchIs ==
    ASSUME NEW p \in Engines, now \in 0..MaxTime, ~p.threw, ~p.owned, ~p.unresolved,
           p.state = "backoff", p.operation = "recovery", NEW q, q = RecoveryLaunch(p)
    PROVE  /\ q \in Engines
           /\ Coherent(q)
           /\ ~q.owned
           /\ q.suppressed = p.suppressed
           /\ q.unresolved => q.operation = "recovery" /\ q.launches = Recent(p) \union {now}
                    /\ Cardinality(Recent(p)) < RecoveryLaunches
           /\ ~q.unresolved => q.launches = Recent(p)
  <1> DEFINE n == Cardinality(Recent(p))
             a == [p EXCEPT !.launches = Recent(p)]
             b == [p EXCEPT !.launches = Recent(p) \union {now}]
  <1>1. n \in Nat /\ Recent(p) \in SUBSET (0..MaxTime)
    BY RecentIs
  <1>2. q = IF n >= RecoveryLaunches THEN [Done(Move(a, "failed")) EXCEPT !.due = 0]
            ELSE Launch(b)
    BY DEF RecoveryLaunch, Engines
  <1>3. /\ a \in Engines /\ b \in Engines
        /\ b.launches = Recent(p) \union {now} /\ a.launches = Recent(p)
        /\ a.operation = "recovery" /\ b.operation = "recovery"
        /\ a.suppressed = p.suppressed /\ b.suppressed = p.suppressed
        /\ a.state = "backoff" /\ b.state = "backoff"
        /\ ~a.threw /\ ~b.threw /\ ~a.owned /\ ~b.owned /\ ~a.unresolved
    BY <1>1 DEF Engines
  <1> HIDE DEF n, a, b
  <1>4. CASE n >= RecoveryLaunches
    <2> DEFINE m == Move(a, "failed")
    <2>1. /\ m \in Engines /\ m.state = "failed" /\ ~m.threw
          /\ ~m.owned /\ ~m.unresolved
          /\ m.launches = Recent(p) /\ m.suppressed = p.suppressed
      BY <1>3, LegalMoves DEF Engines, States, Move
    <2> HIDE DEF m
    <2>2. q = [Done(m) EXCEPT !.due = 0]
      BY <1>2, <1>4 DEF m
    <2>3. q \in Engines
      <3>1. Done(m) \in Engines
        BY <2>1 DEF Engines, Done
      <3> QED
        BY <2>2, <3>1 DEF Engines
    <2>4. /\ q.state = "failed" /\ q.operation = "none" /\ ~q.threw /\ ~q.owned
          /\ ~q.unresolved /\ q.launches = Recent(p) /\ q.suppressed = p.suppressed
      BY <2>1, <2>2 DEF Engines, Done
    <2> QED
      BY <2>3, <2>4 DEF Coherent
  <1>5. CASE ~(n >= RecoveryLaunches)
    BY <1>1, <1>2, <1>3, <1>5, LaunchIs, Options DEF n
  <1> QED
    BY <1>4, <1>5

-----------------------------------------------------------------------------

\* What the engine may conclude from its handle and its sample: a living process is
\* known of, and a sample that counts and shows nothing is still true.
WorldInv ==
    /\ policy.owned => world.process \in {"alive", "exited"} /\ ~policy.unresolved
    /\ world.process \in {"launching", "alive"} =>
          policy.owned \/ policy.unresolved \/ policy.state = "blocked"
    /\ policy.unresolved => ~sample.retained
    /\ Absent /\ ~policy.unresolved /\ policy.state # "blocked" /\
       (policy.owned => sample.retained) =>
          world.process \in {"none", "exited"} /\ ~world.listening

\* The engine has recorded every recovery launch of the window, and not too many.
BudgetInv ==
    /\ {t \in recoveries : now - t < RecoveryWindowMs} \subseteq policy.launches
    /\ Cardinality(Recent(policy)) <= RecoveryLaunches

\* A stop is remembered by the engine too.
DeliberateInv == deliberate => policy.suppressed \/ policy.state = "blocked"

IInv ==
    /\ TypeOK
    /\ Coherent(policy)
    /\ WorldInv
    /\ BudgetInv
    /\ DeliberateInv

\* What dispatch() may make of the engine's variables.
Sound(p) ==
    /\ p \in Engines
    /\ Coherent(p)
    /\ \/ p.owned = policy.owned /\ p.unresolved = policy.unresolved
       \/ ~p.owned /\ Absent /\ ~policy.unresolved
    /\ \/ p.launches \in {policy.launches, Recent(policy)}
          /\ ~(Launches(p) /\ p.operation = "recovery")
       \/ /\ p.operation = "recovery" /\ Launches(p)
          /\ p.launches = Recent(policy) \union {now}
          /\ Cardinality(Recent(policy)) < RecoveryLaunches
          /\ ~policy.suppressed

\* The type invariant, with its constants in sight.
LEMMA TypeIs == TypeOK <=>
    /\ now \in 0..MaxTime
    /\ policy \in Engines
    /\ world \in [process : {"none", "launching", "alive", "exited"}, listening : BOOLEAN]
    /\ sample \in [at : 0..MaxTime, used : BOOLEAN, alive : BOOLEAN, listening : BOOLEAN,
                   retained : BOOLEAN, healthy : BOOLEAN]
    /\ recoveries \subseteq 0..MaxTime
    /\ deliberate \in BOOLEAN
  BY DEF TypeOK

\* A sound change keeps the account of recovery launches.
LEMMA BudgetStep ==
    ASSUME IInv, NEW p, Sound(p), Become(p)
    PROVE  BudgetInv'
  <1>1. /\ policy' = p /\ now' = now /\ policy \in Engines /\ now \in 0..MaxTime
        /\ now \in Int /\ RecoveryLaunches \in Nat /\ RecoveryWindowMs \in Nat
        /\ recoveries \subseteq 0..MaxTime /\ p \in Engines
    BY TypeIs, Options DEF IInv, Become, Sound
  <1>2. /\ IsFiniteSet(Recent(policy)) /\ Cardinality(Recent(policy)) \in Nat
        /\ Cardinality(Recent(p)) \in Nat
    BY <1>1, RecentIs
  <1>3. Recent(p)' = Recent(p)
    BY <1>1 DEF Recent
  <1>4. Recent(policy)' = Recent(p)
    BY <1>1 DEF Recent
  <1>5. CASE /\ p.launches \in {policy.launches, Recent(policy)}
             /\ ~(Launches(p) /\ p.operation = "recovery")
    <2>1. recoveries' = recoveries
      BY <1>5 DEF Become
    <2>2. Recent(p) \subseteq Recent(policy)
      BY <1>5 DEF Recent
    <2>3. Cardinality(Recent(p)) <= Cardinality(Recent(policy))
      BY <1>2, <2>2, FS_Subset
    <2>4. {t \in recoveries : now - t < RecoveryWindowMs} \subseteq p.launches
      BY <1>5 DEF IInv, BudgetInv, Recent
    <2> QED
      BY <1>1, <1>2, <1>4, <2>1, <2>3, <2>4 DEF IInv, BudgetInv
  <1>6. CASE /\ p.operation = "recovery" /\ Launches(p)
             /\ p.launches = Recent(policy) \union {now}
             /\ Cardinality(Recent(policy)) < RecoveryLaunches
    <2>1. recoveries' = recoveries \union {now}
      BY <1>6 DEF Become
    <2>2. Recent(p) \subseteq Recent(policy) \union {now}
      BY <1>6 DEF Recent
    <2>3. /\ IsFiniteSet(Recent(policy) \union {now})
          /\ Cardinality(Recent(policy) \union {now}) <= Cardinality(Recent(policy)) + 1
      BY <1>2, FS_AddElement
    <2>4. Cardinality(Recent(p)) <= Cardinality(Recent(policy) \union {now})
      BY <2>2, <2>3, FS_Subset
    <2>5. Cardinality(Recent(policy) \union {now}) \in Nat
      BY <2>3, FS_CardinalityType
    <2>6. Cardinality(Recent(p)) <= RecoveryLaunches
      BY <1>1, <1>2, <1>6, <2>3, <2>4, <2>5
    <2>7. {t \in recoveries' : now - t < RecoveryWindowMs} \subseteq p.launches
      BY <1>6, <2>1 DEF IInv, BudgetInv, Recent
    <2> QED
      BY <1>1, <1>4, <2>6, <2>7 DEF BudgetInv
  <1> QED
    BY <1>5, <1>6 DEF Sound

\* What every step owes: the invariant, and the two action properties.
StepOK ==
    /\ IInv'
    /\ policy'.unresolved /\ ~policy.unresolved =>
          world.process \in {"none", "exited"} /\ ~world.listening
    /\ recoveries' # recoveries => ~deliberate

\* A sound change on evidence is a good step: absence that was sampled is absence.
LEMMA Sampled ==
    ASSUME IInv, policy.state # "blocked", Evidence, NEW p, Sound(p), BecomeOn(p),
           deliberate' \in BOOLEAN, deliberate' => p.suppressed \/ p.state = "blocked"
    PROVE  StepOK
  <1>1. /\ policy' = p /\ now' = now
        /\ world' = IF Launches(p) THEN [world EXCEPT !.process = "launching"] ELSE world
        /\ sample' = [sample EXCEPT !.used = TRUE, !.retained = @ /\ ~Launches(p)]
        /\ recoveries' = IF Launches(p) /\ p.operation = "recovery"
                         THEN recoveries \union {now} ELSE recoveries
    BY DEF BecomeOn, Become
  <1>2. TypeOK'
    <2>1. /\ now' \in 0..MaxTime /\ policy' \in Engines
          /\ world' \in [process : {"none", "launching", "alive", "exited"},
                         listening : BOOLEAN]
          /\ recoveries' \subseteq 0..MaxTime
      BY <1>1, TypeIs DEF IInv, Sound
    <2>2. sample' \in [at : 0..MaxTime, used : BOOLEAN, alive : BOOLEAN, listening : BOOLEAN,
                       retained : BOOLEAN, healthy : BOOLEAN]
      BY <1>1, TypeIs DEF IInv
    <2> QED
      BY <2>1, <2>2 DEF TypeOK
  <1>3. ~p.owned /\ Absent /\ ~policy.unresolved =>
            world.process \in {"none", "exited"} /\ ~world.listening
    BY DEF IInv, WorldInv, Evidence
  <1>4. WorldInv'
    <2>1. /\ sample'.retained = (sample.retained /\ ~Launches(p))
          /\ sample'.alive = sample.alive /\ sample'.listening = sample.listening
      BY <1>1, TypeIs DEF IInv
    <2>2. CASE p.owned = policy.owned /\ p.unresolved = policy.unresolved
      <3>1. world' = world /\ sample'.retained = sample.retained
        BY <1>1, <2>1, <2>2, TypeIs DEF Launches, IInv
      <3> QED
        BY <1>1, <2>1, <2>2, <3>1 DEF IInv, WorldInv, Absent
    <2>3. CASE ~p.owned /\ Absent /\ ~policy.unresolved
      <3>1. CASE p.unresolved
        BY <1>1, <2>1, <2>3, <3>1, TypeIs DEF Launches, IInv, WorldInv, Absent
      <3>2. CASE ~p.unresolved
        BY <1>1, <1>3, <2>1, <2>3, <3>2, TypeIs DEF Launches, IInv, WorldInv, Absent
      <3> QED
        BY <3>1, <3>2
    <2> QED
      BY <2>2, <2>3 DEF Sound
  <1>5. BudgetInv'
    BY BudgetStep DEF BecomeOn
  <1>6. Coherent(policy)' /\ DeliberateInv'
    BY <1>1 DEF Sound, DeliberateInv, Coherent
  <1>7. policy'.unresolved /\ ~policy.unresolved =>
            world.process \in {"none", "exited"} /\ ~world.listening
    BY <1>1, <1>3 DEF Sound
  <1>8. recoveries' # recoveries => ~deliberate
    BY <1>1 DEF Sound, IInv, DeliberateInv
  <1> QED
    BY <1>2, <1>4, <1>5, <1>6, <1>7, <1>8 DEF StepOK, IInv

-----------------------------------------------------------------------------

\* So is a sound change without evidence that keeps the handle.
LEMMA Unsampled ==
    ASSUME IInv, policy.state # "blocked", NEW p, Sound(p), Become(p),
           p.owned = policy.owned, p.unresolved = policy.unresolved,
           p.suppressed \/ p.state = "blocked" \/ p.suppressed = policy.suppressed,
           UNCHANGED <<sample, deliberate>>
    PROVE  StepOK
  <1>1. /\ policy' = p /\ now' = now /\ world' = world /\ recoveries' = recoveries
        /\ sample' = sample /\ deliberate' = deliberate
    BY DEF Become, Launches
  <1>2. TypeOK'
    BY <1>1, TypeIs DEF IInv, Sound, TypeOK
  <1>3. WorldInv'
    BY <1>1 DEF IInv, WorldInv, Absent
  <1>4. BudgetInv'
    BY BudgetStep
  <1>5. Coherent(policy)' /\ DeliberateInv'
    BY <1>1 DEF Sound, IInv, DeliberateInv, Coherent
  <1> QED
    BY <1>1, <1>2, <1>3, <1>4, <1>5 DEF StepOK, IInv

\* Time passes: launches leave the window, none enters it.
LEMMA ClockStep ==
    ASSUME IInv, ClockAdvances
    PROVE  StepOK
  <1>1. /\ now' = now + 1 /\ policy' = policy /\ world' = world /\ sample' = sample
        /\ recoveries' = recoveries /\ deliberate' = deliberate
        /\ policy \in Engines /\ now \in 0..MaxTime /\ now + 1 \in 0..MaxTime
        /\ recoveries \subseteq 0..MaxTime
        /\ RecoveryWindowMs \in Nat /\ RecoveryLaunches \in Nat
    BY TypeIs, Options DEF ClockAdvances, IInv
  <1>2. TypeOK' /\ WorldInv' /\ Coherent(policy)' /\ DeliberateInv'
    BY <1>1 DEF IInv, TypeOK, WorldInv, Absent, Coherent, DeliberateInv
  <1>3. BudgetInv'
    <2>1. \A t \in 0..MaxTime : now + 1 - t < RecoveryWindowMs => now - t < RecoveryWindowMs
      BY <1>1
    <2>2. Recent(policy)' \subseteq Recent(policy)
      BY <1>1, <2>1 DEF Recent, Engines
    <2>3. /\ IsFiniteSet(Recent(policy)) /\ Cardinality(Recent(policy)) \in Nat
          /\ Cardinality(Recent(policy)') <= Cardinality(Recent(policy))
          /\ Cardinality(Recent(policy)') \in Nat
      BY <1>1, <2>2, RecentIs, FS_Subset, FS_CardinalityType
    <2>4. {t \in recoveries : now + 1 - t < RecoveryWindowMs} \subseteq policy.launches
      BY <1>1, <2>1 DEF IInv, BudgetInv
    <2>5. Cardinality(Recent(policy)') <= RecoveryLaunches
      BY <1>1, <2>3 DEF IInv, BudgetInv
    <2> QED
      BY <1>1, <2>4, <2>5 DEF BudgetInv
  <1> QED
    BY <1>1, <1>2, <1>3 DEF StepOK, IInv

\* The account depends on three variables only.
LEMMA BudgetKept ==
    ASSUME BudgetInv, UNCHANGED <<now, policy, recoveries>>
    PROVE  BudgetInv'
  BY DEF BudgetInv, Recent

\* The process changes: one that was seen to be gone stays gone.
LEMMA ProcessStep ==
    ASSUME IInv, ProcessChanges
    PROVE  StepOK
  <1>1. /\ now' = now /\ policy' = policy /\ sample' = sample
        /\ recoveries' = recoveries /\ deliberate' = deliberate
    BY DEF ProcessChanges
  <1>2. TypeOK'
    BY <1>1 DEF IInv, TypeOK, ProcessChanges
  <1>3. WorldInv'
    <2>1. world \in [process : {"none", "launching", "alive", "exited"}, listening : BOOLEAN]
      BY DEF IInv, TypeOK
    <2>2. \/ world.process = "launching" /\ world'.process = "alive"
          \/ world.process = "alive" /\ world'.process \in {"alive", "exited"}
          \/ /\ world.process = "exited" /\ world'.process = "exited" /\ ~world'.listening
      BY <2>1 DEF ProcessChanges
    <2> QED
      BY <1>1, <2>1, <2>2 DEF IInv, WorldInv, Absent
  <1>4. BudgetInv'
    BY <1>1, BudgetKept DEF IInv
  <1> QED
    BY <1>1, <1>2, <1>3, <1>4 DEF StepOK, IInv, Coherent, DeliberateInv

\* A new sample says what is the case now.
LEMMA ObserveStep ==
    ASSUME IInv, Observe
    PROVE  StepOK
  <1>1. /\ now' = now /\ policy' = policy /\ world' = world
        /\ recoveries' = recoveries /\ deliberate' = deliberate
    BY DEF Observe
  <1>2. PICK healthy \in BOOLEAN :
           sample' = [at |-> now, used |-> FALSE, alive |-> world.process = "alive",
                      listening |-> world.listening, retained |-> policy.owned,
                      healthy |-> healthy]
    BY DEF Observe
  <1>3. /\ policy.owned \in BOOLEAN /\ world.listening \in BOOLEAN
        /\ world.process \in {"none", "launching", "alive", "exited"}
    BY TypeIs DEF IInv, Engines
  <1>4. TypeOK'
    BY <1>1, <1>2, <1>3 DEF IInv, TypeOK
  <1>5. /\ sample'.retained = policy.owned
        /\ sample'.alive = (world.process = "alive")
        /\ sample'.listening = world.listening
    BY <1>2
  <1>6. WorldInv'
    BY <1>1, <1>3, <1>5 DEF IInv, WorldInv, Absent
  <1>7. BudgetInv'
    BY <1>1, BudgetKept DEF IInv
  <1> QED
    BY <1>1, <1>4, <1>6, <1>7 DEF StepOK, IInv, Coherent, DeliberateInv

\* Blocking, at any time.
LEMMA UnverifiableStep ==
    ASSUME IInv, Unverifiable
    PROVE  StepOK
  <1>1. policy \in Engines /\ ~policy.threw
    BY TypeIs DEF IInv, Coherent
  <1>2. Sound(Block(policy))
    BY <1>1, BlockIs DEF Sound, Launches
  <1> QED
    BY <1>1, <1>2, BlockIs, Unsampled DEF Unverifiable

\* A cancelled operation keeps the handle; nothing is cancelled without one.
LEMMA CancelStep ==
    ASSUME IInv, Cancel
    PROVE  StepOK
  <1> DEFINE q == [policy EXCEPT !.suppressed = TRUE]
             p == IF q.unresolved \/ q.state = "stopping" THEN Block(q)
                  ELSE Done(Move(q, IF q.owned THEN "failed" ELSE "stopped"))
  <1>1. policy \in Engines /\ Coherent(policy)
    BY TypeIs DEF IInv
  <1>2. /\ q \in Engines /\ q.suppressed /\ ~q.threw
        /\ q.state = policy.state /\ q.owned = policy.owned
        /\ q.unresolved = policy.unresolved /\ q.operation = policy.operation
        /\ q.launches = policy.launches
    BY <1>1 DEF Engines, Coherent
  <1>3. /\ q.state \notin {"blocked", "stopped", "backoff", "ready", "degraded"}
        /\ q.state = "starting" /\ ~q.unresolved => q.owned
        /\ q.state = "failed" => q.owned
    <2>1. policy.state # "blocked" /\ policy.operation # "none"
      BY DEF Cancel
    <2> HIDE DEF q, p
    <2> QED
      BY <1>1, <1>2, <2>1 DEF Coherent
  <1> HIDE DEF q
  <1>4. Sound(p) /\ p.owned = policy.owned /\ p.unresolved = policy.unresolved /\ p.suppressed
    <2>1. CASE q.unresolved \/ q.state = "stopping"
      BY <1>2, <2>1, BlockIs DEF Sound, Launches
    <2>2. CASE ~(q.unresolved \/ q.state = "stopping")
      <3>1. q.owned /\ ~q.unresolved /\ q.state \in {"starting", "failed"}
        BY <1>2, <1>3, <2>2 DEF Engines, States
      <3> DEFINE m == Move(q, "failed")
      <3>2. /\ m \in Engines /\ m.state = "failed" /\ ~m.threw /\ m.owned /\ ~m.unresolved
            /\ m.suppressed /\ m.launches = q.launches
        BY <1>2, <3>1, LegalMoves DEF Engines, States, Move
      <3> HIDE DEF m
      <3>3. p = Done(m)
        <4>1. (IF q.owned THEN "failed" ELSE "stopped") = "failed"
          BY <3>1
        <4> QED
          BY <2>2, <4>1 DEF m
      <3> HIDE DEF p
      <3>4. /\ p \in Engines /\ p.state = "failed" /\ ~p.threw /\ p.owned /\ ~p.unresolved
            /\ p.suppressed /\ p.launches = q.launches /\ p.operation = "none"
        BY <3>2, <3>3 DEF Engines, Done
      <3> QED
        <4>1. p.owned = q.owned /\ p.unresolved = q.unresolved
          BY <1>2, <3>1, <3>4 DEF Engines
        <4>2. Coherent(p) /\ ~Launches(p)
          BY <3>4 DEF Coherent, Launches
        <4> QED
          BY <1>2, <3>4, <4>1, <4>2 DEF Sound
    <2> QED
      BY <2>1, <2>2
  <1>5. Become(p) /\ UNCHANGED <<sample, deliberate>>
    BY DEF Cancel, q
  <1> HIDE DEF p
  <1> QED
    BY <1>4, <1>5, Unsampled DEF Cancel

\* The facts every step of dispatch() starts from.
LEMMA Before ==
    ASSUME IInv
    PROVE  /\ policy \in Engines /\ Coherent(policy) /\ ~policy.threw
           /\ now \in 0..MaxTime /\ deliberate \in BOOLEAN
  BY TypeIs DEF IInv, Coherent

\* Done after a move that is legal.
LEMMA SettledIs ==
    ASSUME NEW p \in Engines, NEW next \in {"ready", "failed", "stopped"}, ~p.threw,
           next \in Transitions[p.state] \union {p.state}
    PROVE  /\ Done(Move(p, next)) \in Engines
           /\ Done(Move(p, next)).state = next
           /\ Done(Move(p, next)).operation = "none"
           /\ ~Done(Move(p, next)).threw
           /\ \A f \in {"owned", "unresolved", "suppressed", "launches", "failures"} :
                 Done(Move(p, next))[f] = p[f]
  <1> DEFINE m == Move(p, next)
  <1>1. /\ m \in Engines /\ m.state = next /\ ~m.threw
        /\ m.owned = p.owned /\ m.unresolved = p.unresolved /\ m.suppressed = p.suppressed
        /\ m.launches = p.launches /\ m.failures = p.failures
    BY DEF Engines, States, Move
  <1> HIDE DEF m
  <1>2. /\ Done(m) \in Engines /\ Done(m).state = next /\ ~Done(m).threw
        /\ Done(m).operation = "none"
        /\ Done(m).owned = p.owned /\ Done(m).unresolved = p.unresolved
        /\ Done(m).suppressed = p.suppressed
        /\ Done(m).launches = p.launches /\ Done(m).failures = p.failures
    BY <1>1 DEF Engines, Done
  <1> QED
    BY <1>2 DEF m

\* An observation that is only used up.
LEMMA IdleStep ==
    ASSUME IInv, IdleObserved
    PROVE  StepOK
  <1>1. Sound(policy)
    BY Before DEF Sound, Launches
  <1>2. deliberate' \in BOOLEAN /\ (deliberate' => policy.suppressed)
    BY Before DEF IdleObserved, IInv, DeliberateInv
  <1> QED
    BY <1>1, <1>2, Sampled DEF IdleObserved

\* The second stop, of a process that outlived the first.
LEMMA ForceStopStep ==
    ASSUME IInv, ForceStop
    PROVE  StepOK
  <1>1. /\ policy.state = "failed" /\ policy.operation # "none" /\ policy.owned
        /\ ~policy.unresolved
    BY Before DEF ForceStop, Coherent
  <1> DEFINE p == Stop(policy, "forced")
  <1>2. /\ p \in Engines /\ Coherent(p) /\ ~p.unresolved /\ p.owned
        /\ p.launches = policy.launches /\ p.suppressed = policy.suppressed
    BY <1>1, Before, StopIs
  <1>3. BecomeOn(p) /\ deliberate' = deliberate /\ Evidence
    BY DEF ForceStop
  <1> HIDE DEF p
  <1>4. p.owned = policy.owned /\ p.unresolved = policy.unresolved
    BY <1>1, <1>2, Before DEF Engines
  <1>5. Sound(p)
    BY <1>2, <1>4 DEF Sound, Launches
  <1>6. deliberate' \in BOOLEAN /\ (deliberate' => p.suppressed)
    BY <1>1, <1>2, <1>3, Before DEF IInv, DeliberateInv
  <1> QED
    BY <1>1, <1>3, <1>5, <1>6, Sampled

\* The scheduled recovery, when its time has come.
LEMMA BackoffStep ==
    ASSUME IInv, BackoffObserved
    PROVE  StepOK
  <1>1. /\ policy.state = "backoff" /\ policy.operation = "none" /\ ~policy.owned
        /\ ~policy.unresolved /\ ~policy.suppressed
    BY Before DEF BackoffObserved, Coherent
  <1> DEFINE b == Begin(policy, "recovery")
             p == IF ~Absent THEN Block(policy)
                  ELSE IF now >= policy.due THEN RecoveryLaunch(b) ELSE policy
  <1>2. BecomeOn(p) /\ deliberate' = deliberate /\ Evidence
    BY DEF BackoffObserved
  <1>3. /\ b \in Engines /\ ~b.threw /\ ~b.owned /\ ~b.unresolved /\ b.state = "backoff"
        /\ b.operation = "recovery" /\ b.launches = policy.launches
        /\ b.suppressed = policy.suppressed
    BY <1>1, Before DEF Begin, Engines
  <1> HIDE DEF b
  <1>4. Sound(p) /\ p.suppressed = policy.suppressed
    <2>1. CASE ~Absent
      BY <2>1, BlockIs, Before DEF Sound, Launches
    <2>2. CASE Absent /\ now >= policy.due
      <3>1. Recent(b) = Recent(policy)
        BY <1>3 DEF Recent
      <3> DEFINE r == RecoveryLaunch(b)
      <3>2. /\ r \in Engines /\ Coherent(r) /\ ~r.owned /\ r.suppressed = b.suppressed
            /\ r.unresolved => r.operation = "recovery"
                    /\ r.launches = Recent(policy) \union {now}
                    /\ Cardinality(Recent(policy)) < RecoveryLaunches
            /\ ~r.unresolved => r.launches = Recent(policy)
        BY <1>3, <3>1, RecoveryLaunchIs, Before
      <3>3. p = r
        BY <2>2
      <3> HIDE DEF r, p
      <3> QED
        BY <1>1, <1>3, <2>2, <3>2, <3>3 DEF Sound, Launches
    <2>3. CASE Absent /\ ~(now >= policy.due)
      BY <2>3, Before DEF Sound, Launches
    <2> QED
      BY <2>1, <2>2, <2>3
  <1> HIDE DEF p
  <1>5. deliberate' \in BOOLEAN /\ (deliberate' => p.suppressed)
    BY <1>1, <1>2, <1>4, Before DEF IInv, DeliberateInv
  <1> QED
    BY <1>1, <1>2, <1>4, <1>5, Sampled

\* What a step that leaves the request history alone owes to Sampled.
LEMMA ObservedStep ==
    ASSUME IInv, policy.state # "blocked", Evidence, NEW p, Sound(p), BecomeOn(p),
           deliberate' = deliberate, p.suppressed = policy.suppressed
    PROVE  StepOK
  <1>1. deliberate' \in BOOLEAN /\ (deliberate' => p.suppressed)
    BY Before DEF IInv, DeliberateInv
  <1> QED
    BY <1>1, Sampled

\* The engine without its handle, moved on to failed or stopped.
LEMMA ReleasedIs ==
    ASSUME NEW p \in Engines, ~p.threw, ~p.unresolved,
           NEW next \in {"failed", "stopped"},
           next \in Transitions[p.state] \union {p.state},
           NEW q, q = Move([p EXCEPT !.owned = FALSE], next)
    PROVE  /\ q \in Engines /\ q.state = next /\ ~q.threw /\ ~q.owned /\ ~q.unresolved
           /\ q.suppressed = p.suppressed /\ q.launches = p.launches
           /\ q.operation = p.operation /\ q.failures = p.failures
  <1> DEFINE r == [p EXCEPT !.owned = FALSE]
  <1>1. /\ r \in Engines /\ r.state = p.state /\ ~r.threw /\ ~r.owned /\ ~r.unresolved
        /\ r.suppressed = p.suppressed /\ r.launches = p.launches
        /\ r.operation = p.operation /\ r.failures = p.failures
    BY DEF Engines
  <1>2. q = Move(r, next)
    OBVIOUS
  <1> HIDE DEF r
  <1> QED
    BY <1>1, <1>2 DEF Engines, States, Move

\* A start is late, fails, succeeds or goes on.
LEMMA StartingStep ==
    ASSUME IInv, StartingObserved
    PROVE  StepOK
  <1> DEFINE released == Move([policy EXCEPT !.owned = FALSE], "failed")
             late == IF policy.unresolved THEN Block(Move(policy, "failed"))
                     ELSE Done(Move(policy, "failed"))
             p == IF now >= policy.deadline THEN late
                  ELSE IF policy.unresolved THEN policy
                  ELSE IF Absent THEN Schedule(released)
                  ELSE IF sample.listening /\ sample.healthy THEN Done(Move(policy, "ready"))
                  ELSE policy
  <1>1. /\ policy.state = "starting" /\ (policy.owned <=> ~policy.unresolved)
        /\ policy.failures = 0 /\ policy.failures < HealthFailures
    BY Before, Options DEF StartingObserved, Coherent
  <1>2. BecomeOn(p) /\ deliberate' = deliberate /\ Evidence
    BY DEF StartingObserved
  <1>3. {"failed", "ready"} \subseteq Transitions[policy.state]
    BY <1>1, LegalMoves
  <1>4. Sound(p) /\ p.suppressed = policy.suppressed
    <2>1. CASE now >= policy.deadline /\ policy.unresolved
      <3> DEFINE m == Move(policy, "failed")
      <3>1. /\ m \in Engines /\ ~m.threw
            /\ m.owned = policy.owned /\ m.unresolved = policy.unresolved
            /\ m.suppressed = policy.suppressed /\ m.launches = policy.launches
        BY <1>3, Before DEF Engines, States, Move
      <3>2. p = Block(m)
        BY <2>1
      <3> HIDE DEF m, p
      <3> QED
        BY <3>1, <3>2, BlockIs DEF Sound, Launches
    <2>2. CASE now >= policy.deadline /\ ~policy.unresolved
      <3> DEFINE d == Done(Move(policy, "failed"))
      <3>1. /\ d \in Engines /\ d.state = "failed" /\ d.operation = "none" /\ ~d.threw
            /\ d.owned = policy.owned /\ d.unresolved = policy.unresolved
            /\ d.suppressed = policy.suppressed /\ d.launches = policy.launches
        BY <1>3, Before, SettledIs
      <3>2. p = d
        BY <2>2
      <3> HIDE DEF d, p
      <3> QED
        BY <2>2, <3>1, <3>2 DEF Sound, Launches, Coherent
    <2>3. CASE /\ ~(now >= policy.deadline)
               /\ \/ policy.unresolved
                  \/ ~Absent /\ ~(sample.listening /\ sample.healthy)
      <3>1. p = policy
        BY <2>3
      <3> QED
        BY <3>1, Before DEF Sound, Launches
    <2>4. CASE ~(now >= policy.deadline) /\ ~policy.unresolved /\ Absent
      <3>1. /\ released \in Engines /\ released.state = "failed" /\ ~released.threw
            /\ ~released.owned /\ ~released.unresolved
            /\ released.suppressed = policy.suppressed
            /\ released.launches = policy.launches
        BY <1>3, <2>4, Before, ReleasedIs
      <3>2. p = Schedule(released)
        BY <2>4
      <3> HIDE DEF released, p
      <3>3. Recent(released) = Recent(policy)
        BY <3>1 DEF Recent
      <3> QED
        BY <2>4, <3>1, <3>2, <3>3, Before, ScheduleIs DEF Sound, Launches
    <2>5. CASE /\ ~(now >= policy.deadline) /\ ~policy.unresolved /\ ~Absent
               /\ sample.listening /\ sample.healthy
      <3> DEFINE d == Done(Move(policy, "ready"))
      <3>1. /\ d \in Engines /\ d.state = "ready" /\ d.operation = "none" /\ ~d.threw
            /\ d.owned = policy.owned /\ d.unresolved = policy.unresolved
            /\ d.suppressed = policy.suppressed /\ d.launches = policy.launches
            /\ d.failures = policy.failures
        BY <1>3, Before, SettledIs
      <3>2. p = d
        BY <2>5
      <3> HIDE DEF d, p
      <3> QED
        BY <1>1, <2>5, <3>1, <3>2 DEF Sound, Launches, Coherent
    <2> HIDE DEF p, released, late
    <2> QED
      BY <2>1, <2>2, <2>3, <2>4, <2>5
  <1> HIDE DEF p
  <1> QED
    BY <1>1, <1>2, <1>4, ObservedStep

\* A running process is gone, healthy, worse, or so bad that it is stopped.
LEMMA RunningStep ==
    ASSUME IInv, RunningObserved
    PROVE  StepOK
  <1> DEFINE released == Move([policy EXCEPT !.owned = FALSE], "failed")
             worse == [Move(policy, "degraded") EXCEPT !.failures = @ + 1]
             stopped == Stop(Begin(worse, "recovery"), "clean")
             p == IF Absent THEN Schedule(released)
                  ELSE IF sample.healthy /\ sample.listening
                  THEN [Move(policy, "ready") EXCEPT !.failures = 0]
                  ELSE IF ~TooManyFailures(worse.failures) THEN worse
                  ELSE IF AutoRecovery /\ ~policy.suppressed THEN stopped
                  ELSE Move(worse, "failed")
  <1>1. /\ policy.state \in {"ready", "degraded"} /\ policy.operation = "none"
        /\ policy.owned /\ ~policy.unresolved
        /\ policy.failures < HealthFailures
    BY Before DEF RunningObserved, Coherent
  <1>2. BecomeOn(p) /\ deliberate' = deliberate /\ Evidence
    BY DEF RunningObserved
  <1>3. {"failed", "ready", "degraded"} \subseteq Transitions[policy.state] \union {policy.state}
    BY <1>1, LegalMoves
  <1>4. policy.failures + 1 \in 0..HealthFailures /\ 0 \in 0..HealthFailures
    BY <1>1, Before, Options DEF Engines
  <1>5. /\ worse \in Engines /\ worse.state = "degraded" /\ ~worse.threw /\ worse.owned
        /\ ~worse.unresolved /\ worse.suppressed = policy.suppressed
        /\ worse.launches = policy.launches /\ worse.operation = "none"
        /\ worse.failures = policy.failures + 1
    <2> DEFINE m == Move(policy, "degraded")
    <2>1. /\ m \in Engines /\ m.state = "degraded" /\ ~m.threw /\ m.owned /\ ~m.unresolved
          /\ m.suppressed = policy.suppressed /\ m.launches = policy.launches
          /\ m.operation = "none" /\ m.failures = policy.failures
      BY <1>1, <1>3, Before DEF Engines, States, Move
    <2> HIDE DEF m
    <2>2. worse = [m EXCEPT !.failures = m.failures + 1]
      BY DEF m
    <2> QED
      BY <1>4, <2>1, <2>2 DEF Engines
  <1>6. Sound(p) /\ p.suppressed = policy.suppressed
    <2>1. CASE Absent
      <3>1. /\ released \in Engines /\ released.state = "failed" /\ ~released.threw
            /\ ~released.owned /\ ~released.unresolved
            /\ released.suppressed = policy.suppressed
            /\ released.launches = policy.launches
        BY <1>1, <1>3, Before, ReleasedIs
      <3>2. p = Schedule(released)
        BY <2>1
      <3> HIDE DEF released, p
      <3>3. Recent(released) = Recent(policy)
        BY <3>1 DEF Recent
      <3> QED
        BY <1>1, <2>1, <3>1, <3>2, <3>3, Before, ScheduleIs DEF Sound, Launches
    <2>2. CASE ~Absent /\ sample.healthy /\ sample.listening
      <3> DEFINE m == Move(policy, "ready")
      <3>1. /\ m \in Engines /\ m.state = "ready" /\ ~m.threw /\ m.owned /\ ~m.unresolved
            /\ m.suppressed = policy.suppressed /\ m.launches = policy.launches
            /\ m.operation = "none"
        BY <1>1, <1>3, Before DEF Engines, States, Move
      <3>2. p = [m EXCEPT !.failures = 0]
        BY <2>2
      <3> HIDE DEF m, p
      <3>3. /\ p \in Engines /\ p.state = "ready" /\ ~p.threw /\ p.owned /\ ~p.unresolved
            /\ p.suppressed = policy.suppressed /\ p.launches = policy.launches
            /\ p.operation = "none" /\ p.failures = 0
        BY <1>4, <3>1, <3>2 DEF Engines
      <3>4. p.owned = policy.owned /\ p.unresolved = policy.unresolved
        BY <1>1, <3>3, Before DEF Engines
      <3> QED
        BY <1>1, <3>3, <3>4, Options DEF Sound, Launches, Coherent
    <2>3. CASE /\ ~Absent /\ ~(sample.healthy /\ sample.listening)
               /\ ~TooManyFailures(worse.failures)
      <3>1. p = worse
        BY <2>3
      <3> HIDE DEF p, worse
      <3>2. p.owned = policy.owned /\ p.unresolved = policy.unresolved
        BY <1>1, <1>5, <3>1, Before DEF Engines
      <3>3. p.failures < HealthFailures
        BY <1>4, <1>5, <2>3, <3>1, Options DEF TooManyFailures
      <3> QED
        BY <1>1, <1>5, <3>1, <3>2, <3>3 DEF Sound, Launches, Coherent
    <2>4. CASE /\ ~Absent /\ ~(sample.healthy /\ sample.listening)
               /\ TooManyFailures(worse.failures) /\ AutoRecovery /\ ~policy.suppressed
      <3>1. p = stopped
        BY <2>4
      <3> DEFINE b == Begin(worse, "recovery")
      <3> HIDE DEF p, worse
      <3>2. /\ b \in Engines /\ b.state = "degraded" /\ ~b.threw /\ b.owned
            /\ ~b.unresolved /\ b.suppressed = policy.suppressed
            /\ b.launches = policy.launches /\ b.operation = "recovery"
        BY <1>5 DEF Begin, Engines
      <3>3. p = Stop(b, "clean")
        BY <3>1
      <3> HIDE DEF b, stopped
      <3>4. /\ p \in Engines /\ Coherent(p) /\ ~p.unresolved /\ p.owned
            /\ p.launches = policy.launches /\ p.suppressed = policy.suppressed
        BY <3>2, <3>3, StopIs, Before
      <3>5. p.owned = policy.owned /\ p.unresolved = policy.unresolved
        BY <1>1, <3>4, Before DEF Engines
      <3> QED
        BY <1>1, <3>4, <3>5 DEF Sound, Launches
    <2>5. CASE /\ ~Absent /\ ~(sample.healthy /\ sample.listening)
               /\ TooManyFailures(worse.failures) /\ ~(AutoRecovery /\ ~policy.suppressed)
      <3>1. p = Move(worse, "failed")
        BY <2>5
      <3> HIDE DEF p, worse
      <3>2. /\ p \in Engines /\ p.state = "failed" /\ ~p.threw /\ p.owned /\ ~p.unresolved
            /\ p.suppressed = policy.suppressed /\ p.launches = policy.launches
            /\ p.operation = "none"
        BY <1>5, <3>1, LegalMoves DEF Engines, States, Move
      <3>3. p.owned = policy.owned /\ p.unresolved = policy.unresolved
        BY <1>1, <3>2, Before DEF Engines
      <3> QED
        BY <1>1, <3>2, <3>3 DEF Sound, Launches, Coherent
    <2> HIDE DEF p, released, worse, stopped
    <2> QED
      BY <2>1, <2>2, <2>3, <2>4, <2>5
  <1> HIDE DEF p
  <1> QED
    BY <1>1, <1>2, <1>6, ObservedStep

\* A stop succeeds, with what was to follow it, is late, or goes on.
LEMMA StoppingStep ==
    ASSUME IInv, StoppingObserved
    PROVE  StepOK
  <1> DEFINE
        released == [policy EXCEPT !.owned = FALSE,
                       !.shutdown = IF @ = "forced" THEN "forced" ELSE "clean"]
        gone == Done(Move(released, "stopped"))
        relaunched == Launch(Begin(gone, "restart"))
        rescheduled == Schedule(Move(gone, "failed"))
        incomplete == [Move(policy, "failed") EXCEPT !.shutdown = "incomplete"]
        p == IF Absent
             THEN CASE policy.operation = "restart"  -> relaunched
                    [] policy.operation = "recovery" -> rescheduled
                    [] OTHER -> gone
             ELSE IF now >= policy.deadline THEN incomplete ELSE policy
  <1>1. /\ policy.state = "stopping" /\ policy.operation # "none"
        /\ policy.owned /\ ~policy.unresolved
    BY Before DEF StoppingObserved, Coherent
  <1>2. BecomeOn(p) /\ deliberate' = deliberate /\ Evidence
    BY DEF StoppingObserved
  <1>3. /\ gone \in Engines /\ gone.state = "stopped" /\ ~gone.threw /\ ~gone.owned
        /\ ~gone.unresolved /\ gone.suppressed = policy.suppressed
        /\ gone.launches = policy.launches /\ gone.operation = "none"
    <2>1. /\ released \in Engines /\ released.state = "stopping" /\ ~released.threw
          /\ ~released.owned /\ ~released.unresolved
          /\ released.suppressed = policy.suppressed
          /\ released.launches = policy.launches
      BY <1>1, Before DEF Engines
    <2>2. "stopped" \in Transitions["stopping"]
      BY LegalMoves
    <2> HIDE DEF released
    <2> QED
      BY <2>1, <2>2, SettledIs
  <1>4. Sound(p) /\ p.suppressed = policy.suppressed
    <2>1. CASE Absent /\ policy.operation = "restart"
      <3>1. p = relaunched
        BY <2>1
      <3> DEFINE b == Begin(gone, "restart")
      <3> HIDE DEF p, gone
      <3>2. /\ b \in Engines /\ b.state = "stopped" /\ ~b.threw /\ ~b.owned
            /\ b.suppressed = policy.suppressed
            /\ b.launches = policy.launches /\ b.operation = "restart"
        BY <1>3 DEF Begin, Engines, Requests
      <3>3. p = Launch(b)
        BY <3>1
      <3> HIDE DEF b, relaunched
      <3>4. /\ p \in Engines /\ Coherent(p) /\ p.unresolved /\ ~p.owned
            /\ p.operation = "restart" /\ p.suppressed = policy.suppressed
            /\ p.launches = policy.launches
        BY <3>2, <3>3, LaunchIs, Before
      <3> QED
        BY <1>1, <2>1, <3>4 DEF Sound
    <2>2. CASE Absent /\ policy.operation = "recovery"
      <3>1. p = rescheduled
        BY <2>2
      <3> DEFINE m == Move(gone, "failed")
      <3> HIDE DEF p, gone
      <3>2. /\ m \in Engines /\ m.state = "failed" /\ ~m.threw /\ ~m.owned
            /\ ~m.unresolved /\ m.suppressed = policy.suppressed
            /\ m.launches = policy.launches
        BY <1>3, LegalMoves DEF Move, Engines, States
      <3>3. p = Schedule(m)
        BY <3>1
      <3> HIDE DEF m, rescheduled
      <3>4. Recent(m) = Recent(policy)
        BY <3>2 DEF Recent
      <3> QED
        BY <1>1, <2>2, <3>2, <3>3, <3>4, Before, ScheduleIs DEF Sound, Launches
    <2>3. CASE Absent /\ policy.operation \notin {"restart", "recovery"}
      <3>1. p = gone
        BY <2>3
      <3> HIDE DEF p, gone
      <3> QED
        BY <1>1, <1>3, <2>3, <3>1 DEF Sound, Launches, Coherent
    <2>4. CASE ~Absent /\ now >= policy.deadline
      <3>1. p = incomplete
        BY <2>4
      <3> DEFINE m == Move(policy, "failed")
      <3>2. /\ m \in Engines /\ m.state = "failed" /\ ~m.threw /\ m.owned
            /\ ~m.unresolved /\ m.suppressed = policy.suppressed
            /\ m.launches = policy.launches /\ m.operation = policy.operation
        BY <1>1, Before, LegalMoves DEF Move, Engines, States
      <3>3. p = [m EXCEPT !.shutdown = "incomplete"]
        BY <3>1
      <3> HIDE DEF p, m, incomplete
      <3>4. /\ p \in Engines /\ p.state = "failed" /\ ~p.threw /\ p.owned
            /\ ~p.unresolved /\ p.suppressed = policy.suppressed
            /\ p.launches = policy.launches
        BY <3>2, <3>3 DEF Engines
      <3>5. p.owned = policy.owned /\ p.unresolved = policy.unresolved
        BY <1>1, <3>4, Before DEF Engines
      <3> QED
        BY <1>1, <3>4, <3>5 DEF Sound, Launches, Coherent
    <2>5. CASE ~Absent /\ ~(now >= policy.deadline)
      <3>1. p = policy
        BY <2>5
      <3> QED
        BY <3>1, Before DEF Sound, Launches
    <2> HIDE DEF p, gone, relaunched, rescheduled, incomplete
    <2> QED
      BY <2>1, <2>2, <2>3, <2>4, <2>5
  <1> HIDE DEF p
  <1> QED
    BY <1>1, <1>2, <1>4, ObservedStep

\* The handle comes, in time or late; samples taken before it count for nothing.
LEMMA LaunchedStep ==
    ASSUME IInv, Launched
    PROVE  StepOK
  <1> DEFINE q == [policy EXCEPT !.owned = TRUE, !.unresolved = FALSE]
             p == IF now >= q.deadline THEN Done(Move(q, "failed")) ELSE q
  <1>1. /\ policy.state = "starting" /\ policy.unresolved /\ ~policy.owned
        /\ policy.operation # "none" /\ policy.failures = 0
        /\ world.process \in {"alive", "exited"} /\ ~sample.retained
    BY Before DEF Launched, Coherent, IInv, WorldInv
  <1>2. /\ Become(p) /\ sample' = sample /\ deliberate' = deliberate
    BY DEF Launched
  <1>3. /\ q \in Engines /\ q.state = "starting" /\ ~q.threw /\ q.owned /\ ~q.unresolved
        /\ q.suppressed = policy.suppressed /\ q.launches = policy.launches
        /\ q.operation = policy.operation /\ q.failures = 0
    BY <1>1, Before DEF Engines
  <1> HIDE DEF q
  <1>4. /\ p \in Engines /\ Coherent(p) /\ p.owned /\ ~p.unresolved
        /\ p.suppressed = policy.suppressed /\ p.launches = policy.launches
    <2>1. CASE now >= q.deadline
      <3> DEFINE d == Done(Move(q, "failed"))
      <3>1. "failed" \in Transitions["starting"]
        BY LegalMoves
      <3>2. /\ d \in Engines /\ d.state = "failed" /\ d.operation = "none" /\ ~d.threw
            /\ d.owned = q.owned /\ d.unresolved = q.unresolved
            /\ d.suppressed = q.suppressed /\ d.launches = q.launches
        BY <1>3, <3>1, SettledIs
      <3>3. p = d
        BY <2>1
      <3> HIDE DEF d, p
      <3> QED
        BY <1>3, <3>2, <3>3 DEF Coherent
    <2>2. CASE ~(now >= q.deadline)
      <3>1. p = q
        BY <2>2
      <3> HIDE DEF p
      <3> QED
        BY <1>1, <1>3, <3>1 DEF Coherent
    <2> QED
      BY <2>1, <2>2
  <1> HIDE DEF p
  <1>5. policy' = p /\ now' = now /\ world' = world /\ recoveries' = recoveries
    BY <1>2, <1>4 DEF Become, Launches
  <1>6. TypeOK'
    BY <1>2, <1>4, <1>5 DEF IInv, TypeOK
  <1>7. WorldInv'
    BY <1>1, <1>2, <1>4, <1>5 DEF WorldInv
  <1>8. BudgetInv'
    <2>1. Recent(policy)' = Recent(policy)
      BY <1>4, <1>5 DEF Recent
    <2> QED
      BY <1>4, <1>5, <2>1 DEF IInv, BudgetInv
  <1>9. Coherent(policy)' /\ DeliberateInv'
    BY <1>1, <1>2, <1>4, <1>5 DEF IInv, DeliberateInv, Coherent
  <1> QED
    BY <1>4, <1>5, <1>6, <1>7, <1>8, <1>9 DEF StepOK, IInv

\* start, stop and restart, on a process that is gone, held or in doubt.
LEMMA RequestStep ==
    ASSUME IInv, NEW type \in Requests, Request(type) PROVE StepOK
  <1> DEFINE a == [policy EXCEPT !.suppressed = (type = "stop")]
             b == Begin(a, type)
             p == IF policy.unresolved THEN Block(policy)
                  ELSE IF Absent THEN OnAbsence(b, type)
                  ELSE IF policy.owned /\ sample.alive
                  THEN IF type = "start" THEN Done(b) ELSE Stop(b, "clean")
                  ELSE Block(b)
  <1>1. /\ policy.state # "blocked" /\ policy.operation = "none"
        /\ policy.state = "backoff" => type = "stop"
        /\ Evidence /\ BecomeOn(p) /\ deliberate' = (type = "stop")
    BY DEF Request
  <1>2. /\ policy.state \in {"stopped", "ready", "degraded", "backoff", "failed"}
        /\ ~policy.unresolved
        /\ policy.owned => policy.state \in {"ready", "degraded", "failed"}
        /\ policy.state \in {"ready", "degraded"} =>
              policy.owned /\ policy.failures < HealthFailures
    BY <1>1, Before DEF Coherent, Engines, States
  <1>3. /\ b \in Engines /\ b.state = policy.state /\ ~b.threw
        /\ b.owned = policy.owned /\ b.unresolved = policy.unresolved
        /\ b.suppressed = (type = "stop") /\ b.launches = policy.launches
        /\ b.operation = type /\ b.failures = policy.failures
    <2>1. /\ a \in Engines /\ a.state = policy.state /\ ~a.threw
          /\ a.owned = policy.owned /\ a.unresolved = policy.unresolved
          /\ a.suppressed = (type = "stop") /\ a.launches = policy.launches
          /\ a.failures = policy.failures
      BY Before DEF Engines
    <2> HIDE DEF a
    <2> QED
      BY <2>1 DEF Engines, Begin
  <1> HIDE DEF b
  <1>4. Sound(p) /\ p.suppressed = (type = "stop")
    <2>1. CASE Absent /\ type = "stop"
      <3> DEFINE q == [b EXCEPT !.owned = FALSE]
                 d == Done([Move(q, "stopped") EXCEPT !.due = 0])
      <3>1. "stopped" \in Transitions[b.state] \union {b.state}
        BY <1>2, <1>3, LegalMoves
      <3>2. p = d
        BY <1>2, <2>1 DEF OnAbsence
      <3> DEFINE m == Move(q, "stopped")
      <3>3. /\ m \in Engines /\ m.state = "stopped" /\ ~m.threw /\ ~m.owned /\ ~m.unresolved
            /\ m.suppressed = b.suppressed /\ m.launches = b.launches
        BY <1>2, <1>3, <3>1, ReleasedIs
      <3> HIDE DEF p, m
      <3>4. p = Done([m EXCEPT !.due = 0])
        BY <3>2 DEF m
      <3> HIDE DEF d, q
      <3>5. /\ p \in Engines /\ p.state = "stopped" /\ ~p.threw /\ ~p.owned /\ ~p.unresolved
            /\ p.suppressed = b.suppressed /\ p.launches = b.launches
            /\ p.operation = "none"
        <4> DEFINE e == [m EXCEPT !.due = 0]
        <4>1. /\ e \in Engines /\ e.state = "stopped" /\ ~e.threw /\ ~e.owned
              /\ ~e.unresolved /\ e.suppressed = b.suppressed /\ e.launches = b.launches
          BY <3>3 DEF Engines
        <4> HIDE DEF e
        <4>2. p = Done(e)
          BY <3>4 DEF e
        <4> QED
          BY <4>1, <4>2 DEF Engines, Done
      <3> QED
        BY <1>2, <1>3, <2>1, <3>5 DEF Sound, Launches, Coherent
    <2>2. CASE Absent /\ type # "stop"
      <3> DEFINE q == [b EXCEPT !.owned = FALSE]
                 r == IF q.state \in {"ready", "degraded"} THEN Move(q, "stopped") ELSE q
      <3>1. /\ q \in Engines /\ q.state = policy.state /\ ~q.threw /\ ~q.owned
            /\ ~q.unresolved /\ q.suppressed = b.suppressed /\ q.launches = b.launches
            /\ q.operation = type
        BY <1>2, <1>3 DEF Engines
      <3>2. p = Launch(r)
        BY <1>2, <2>2 DEF OnAbsence
      <3> HIDE DEF q, p
      <3>3. /\ r \in Engines /\ r.state \in {"stopped", "failed"} /\ ~r.threw /\ ~r.owned
            /\ ~r.unresolved /\ r.suppressed = b.suppressed /\ r.launches = b.launches
            /\ r.operation = type
        <4>1. CASE q.state \in {"ready", "degraded"}
          <5>1. "stopped" \in Transitions[q.state]
            BY <4>1, LegalMoves
          <5>2. r = Move(q, "stopped")
            BY <4>1
          <5> HIDE DEF r
          <5> QED
            BY <3>1, <5>1, <5>2 DEF Move, Engines, States
        <4>2. CASE q.state \notin {"ready", "degraded"}
          <5>1. r = q
            BY <4>2
          <5> HIDE DEF r
          <5> QED
            BY <1>1, <1>2, <2>2, <3>1, <4>2, <5>1
        <4> QED
          BY <4>1, <4>2
      <3> HIDE DEF r
      <3>4. /\ p \in Engines /\ Coherent(p) /\ p.unresolved /\ ~p.owned
            /\ p.operation = type /\ p.suppressed = b.suppressed
            /\ p.launches = b.launches
        BY <3>2, <3>3, LaunchIs, Before DEF Requests
      <3> QED
        BY <1>2, <1>3, <2>2, <3>4 DEF Sound, Launches, Requests
    <2>3. CASE ~Absent /\ policy.owned /\ sample.alive /\ type = "start"
      <3>1. p = Done(b)
        BY <1>2, <2>3
      <3> HIDE DEF p
      <3>2. /\ p \in Engines /\ p.state = policy.state /\ ~p.threw
            /\ p.owned = policy.owned /\ p.unresolved = policy.unresolved
            /\ p.suppressed = b.suppressed /\ p.launches = policy.launches
            /\ p.operation = "none" /\ p.failures = policy.failures
        BY <1>3, <3>1 DEF Done, Engines
      <3> QED
        BY <1>2, <1>3, <2>3, <3>2 DEF Sound, Launches, Coherent
    <2>4. CASE ~Absent /\ policy.owned /\ sample.alive /\ type # "start"
      <3>1. p = Stop(b, "clean")
        BY <1>2, <2>4
      <3>2. b.owned /\ ~b.unresolved /\ b.operation # "none"
            /\ b.state \in {"ready", "degraded", "failed"}
        BY <1>2, <1>3, <2>4 DEF Requests
      <3> HIDE DEF p
      <3>3. /\ p \in Engines /\ Coherent(p) /\ ~p.unresolved /\ p.owned
            /\ p.launches = b.launches /\ p.suppressed = b.suppressed
        BY <1>3, <3>1, <3>2, StopIs, Before
      <3>4. p.owned = policy.owned /\ p.unresolved = policy.unresolved
        BY <1>2, <2>4, <3>3, Before DEF Engines
      <3> QED
        BY <1>3, <3>3, <3>4 DEF Sound, Launches
    <2>5. CASE ~Absent /\ ~(policy.owned /\ sample.alive)
      <3>1. p = Block(b)
        BY <1>2, <2>5
      <3> HIDE DEF p
      <3> QED
        BY <1>3, <3>1, BlockIs DEF Sound, Launches
    <2> HIDE DEF p
    <2> QED
      BY <2>1, <2>2, <2>3, <2>4, <2>5
  <1> HIDE DEF p
  <1>5. deliberate' \in BOOLEAN /\ (deliberate' => p.suppressed)
    BY <1>1, <1>4
  <1> QED
    BY <1>1, <1>4, <1>5, Sampled

-----------------------------------------------------------------------------

\* An engine that has done nothing satisfies the invariant.
LEMMA StartsRight == Init => IInv
  <1> SUFFICES ASSUME Init PROVE IInv
    OBVIOUS
  <1>1. TypeOK
    <2>1. 0 \in 0..MaxTime /\ 0 \in 0..HealthFailures
      BY Options
    <2>2. policy \in Engines
      BY <2>1 DEF Init, Engines, States
    <2> QED
      BY <2>1, <2>2, TypeIs DEF Init
  <1>2. Coherent(policy) /\ WorldInv /\ DeliberateInv
    BY DEF Init, Coherent, WorldInv, DeliberateInv
  <1>3. BudgetInv
    <2>1. Recent(policy) = {} /\ recoveries = {}
      BY DEF Init, Recent
    <2>2. Cardinality({}) = 0
      BY FS_EmptySet
    <2> QED
      BY <2>1, <2>2, Options DEF BudgetInv
  <1> QED
    BY <1>1, <1>2, <1>3 DEF IInv

\* Every action is a good step.
LEMMA EveryStep == IInv /\ Next => StepOK
  BY ClockStep, ProcessStep, ObserveStep, RequestStep, BackoffStep, StartingStep,
     StoppingStep, RunningStep, IdleStep, UnverifiableStep, LaunchedStep, CancelStep,
     ForceStopStep DEF Next

\* So is none.
LEMMA Stutter == IInv /\ UNCHANGED vars => IInv'
  <1> SUFFICES ASSUME IInv, UNCHANGED vars PROVE IInv'
    OBVIOUS
  <1>1. BudgetInv'
    BY BudgetKept DEF vars, IInv
  <1>2. TypeOK' /\ WorldInv' /\ Coherent(policy)' /\ DeliberateInv'
    BY DEF vars, IInv, TypeOK, WorldInv, Absent, Coherent, DeliberateInv
  <1> QED
    BY <1>1, <1>2 DEF IInv

\* The inductive invariant of the engine, its samples and the process they are of.
LEMMA Inductive == Spec => []IInv
  <1>1. IInv /\ [Next]_vars => IInv'
    BY EveryStep, Stutter DEF StepOK
  <1> QED
    BY <1>1, StartsRight, PTL DEF Spec

\* Every variable keeps its type, with any options.
THEOREM TypeCorrect == Spec => []TypeOK
  BY Inductive, PTL DEF IInv

\* dispatch() never meets `Illegal transition' half-way.
THEOREM DispatchNeverThrows == Spec => []NeverAnIllegalTransition
  <1>1. IInv => NeverAnIllegalTransition
    BY DEF IInv, Coherent, NeverAnIllegalTransition
  <1> QED
    BY <1>1, Inductive, PTL

\* A living process is held, awaited or left to an operator, however stale the samples.
THEOREM ProcessesAreKept == Spec => []NoForgottenProcess
  <1>1. IInv => NoForgottenProcess
    BY DEF IInv, WorldInv, NoForgottenProcess
  <1> QED
    BY <1>1, Inductive, PTL

\* No window has more recovery launches than the budget.
THEOREM BudgetIsKept == Spec => []RecoveryBudgetHolds
  <1>1. IInv => RecoveryBudgetHolds
    <2> SUFFICES ASSUME IInv PROVE RecoveryBudgetHolds
      OBVIOUS
    <2> DEFINE windowed == {t \in recoveries : now - t < RecoveryWindowMs}
    <2>1. windowed \subseteq Recent(policy)
      BY DEF IInv, BudgetInv, Recent
    <2>2. /\ IsFiniteSet(Recent(policy)) /\ Cardinality(Recent(policy)) \in Nat
          /\ Cardinality(windowed) <= Cardinality(Recent(policy))
          /\ Cardinality(windowed) \in Nat
      BY <2>1, Before, RecentIs, FS_Subset, FS_CardinalityType
    <2>3. Cardinality(Recent(policy)) <= RecoveryLaunches
      BY DEF IInv, BudgetInv
    <2> QED
      BY <2>2, <2>3, Options DEF RecoveryBudgetHolds
  <1> QED
    BY <1>1, Inductive, PTL

\* A launch finds no living process and no listener.
THEOREM LaunchesAreSafe == Spec => NoLaunchOverALiveProcess
  <1>1. IInv /\ [Next]_vars =>
            [policy'.unresolved /\ ~policy.unresolved =>
                world.process \in {"none", "exited"} /\ ~world.listening]_vars
    BY EveryStep DEF StepOK
  <1> QED
    BY <1>1, Inductive, PTL DEF Spec, NoLaunchOverALiveProcess

\* No recovery launch follows a deliberate stop.
THEOREM StopsAreRespected == Spec => DeliberateStopSuppresses
  <1>1. IInv /\ [Next]_vars => [recoveries' # recoveries => ~deliberate]_vars
    BY EveryStep DEF StepOK
  <1> QED
    BY <1>1, Inductive, PTL DEF Spec, DeliberateStopSuppresses
=============================================================================
