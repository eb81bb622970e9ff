--------------------------- MODULE SupervisorProofs ---------------------------
(***************************************************************************)
(* Theorems about Supervisor, for any number of runs, any recovery budget  *)
(* and any failing call: the types, that the lease and the map of owned    *)
(* brokers account for every child that lives, that the backend outlives   *)
(* the application, and that no living child is replaced.                  *)
(*                                                                         *)
(* The argument is about what may still become of a service.  It is safe   *)
(* (Settled) when its broker looks after no child and no START is on its   *)
(* way: no step of a broker or of a child ends that, only a request does.  *)
(* A run asks only brokers it owns, and disowns one only when its channel  *)
(* was closed, which proves that the broker quit with nothing to look      *)
(* after.                                                                  *)
(***************************************************************************)
EXTENDS Supervisor, TLAPS

USE SupervisorAssumption, BrokerMayThrowAssumption

-----------------------------------------------------------------------------
(* The inductive invariant.                                                *)

\* No child, and no command on its way that would make one.
Settled(s) == Unburdened(s) /\ pipe[s] # "START"

\* What the exit code of a broker and the end of a channel prove.
EndsProve ==
    \A s \in Services :
        /\ broker[s] = "quit" => Unburdened(s)
        /\ awaited[s] = "QUIT" => pipe[s] \in {"QUIT", "none"}
        /\ channel[s] = "closed" => broker[s] = "quit" /\ pipe[s] \in {"QUIT", "none"}

\* Only the run that holds the lease is in main(), and the locals are its own.
OneOwner ==
    /\ \A p \in Runs : pc[p] \notin {"off", "tidy", "ended", "crashed"} => lease = p
    /\ lease # "free" => me.run = lease

\* Every service is settled, except those that the working run owns.
SettledUnlessOwned ==
    /\ lease = "free" => \A s \in Services : Settled(s)
    /\ \A p \in Runs : Holds(p) => \A s \in Services \ me.owned : Settled(s)

\* A service that is about to be launched is not owned.
LaunchesNew ==
    /\ ~me.inRound /\ me.service = "backend" => "application" \notin me.owned
    /\ \A p \in Runs :
        /\ pc[p] = "app-check" => me.owned = {}
        /\ pc[p] \in {"observe", "connecting", "backoff", "backoff-round"} =>
            me.service \notin me.owned
        /\ pc[p] \in {"poll", "polling", "recovering", "backoff-round"} => me.inRound

OwnershipInv ==
    /\ SupervisorTypeOK
    /\ EndsProve
    /\ OneOwner
    /\ SettledUnlessOwned
    /\ LaunchesNew

-----------------------------------------------------------------------------
(* The brokers.                                                            *)

\* The backend is asked to stop after the application has gone, and a broker is
\* opened over nothing that may still live.
StopsLast ==
    awaited["backend"] # "STOP" /\ awaited'["backend"] = "STOP" => "application" \notin Alive
LaunchesOver ==
    \A s \in Services : channel[s] # "hello" /\ channel'[s] = "hello" => Unburdened(s)

BrokersSound == BrokerTypeOK /\ EndsProve

\* What every step leaves behind.
StepOK == OwnershipInv' /\ StopsLast /\ LaunchesOver

\* A broker that fails leaves no command behind, and no child that was not there.
LEMMA FailsSettles ==
    ASSUME BrokersSound, NEW s \in Services, broker[s] = "up",
           NEW there \in {"none", "running", "told", "dead", "released"}, Fails(s, there),
           Settled(s) => there \in {"none", "released"}
    PROVE  /\ BrokersSound'
           /\ \A t \in Services : Settled(t) => Settled(t)'
           /\ StopsLast /\ LaunchesOver
<1>1. /\ pipe' = [pipe EXCEPT ![s] = "none"]
      /\ UNCHANGED <<channel, awaited, reply>>
  BY DEF Fails
<1>2. PICK end \in {"leaving", "failed"} : broker' = [broker EXCEPT ![s] = end]
  BY DEF Fails
<1>3. PICK left \in {"none", "running", "told", "dead", "released"} :
          /\ child' = [child EXCEPT ![s] = left]
          /\ Settled(s) => left \in {"none", "released"}
  BY DEF Fails
<1>4. BrokerTypeOK'
  BY <1>1, <1>2, <1>3 DEF BrokersSound, BrokerTypeOK
<1>5. EndsProve'
  BY <1>1, <1>2, <1>3 DEF BrokersSound, BrokerTypeOK, EndsProve, Unburdened
<1>6. \A t \in Services : Settled(t) => Settled(t)'
  BY <1>1, <1>3 DEF BrokersSound, BrokerTypeOK, Settled, Unburdened
<1>7. StopsLast /\ LaunchesOver
  BY <1>1 DEF StopsLast, LaunchesOver
<1> QED
  BY <1>4, <1>5, <1>6, <1>7 DEF BrokersSound

\* Nor does one that answers.
LEMMA RepliesSettles ==
    ASSUME BrokersSound, NEW s \in Services, broker[s] = "up", pipe[s] \in Commands,
           NEW there \in {"none", "running", "told", "dead", "released"}, NEW status \in Statuses,
           Replies(s, there, status), Settled(s) => there \in {"none", "released"}
    PROVE  /\ BrokersSound'
           /\ \A t \in Services : Settled(t) => Settled(t)'
           /\ StopsLast /\ LaunchesOver
<1>1. CASE Fails(s, there)
  BY <1>1, FailsSettles
<1>2. CASE /\ Answer(s, status)
           /\ child' = [child EXCEPT ![s] = there]
           /\ UNCHANGED broker
  <2>1. /\ pipe' = [pipe EXCEPT ![s] = "none"]
        /\ channel' \in [Services -> {"none", "hello", "open", "revoked", "closed"}]
        /\ \A t \in Services : channel'[t] \in {channel[t], "revoked"}
        /\ awaited' \in [Services -> Commands \union {"none", "hello"}]
        /\ \A t \in Services : awaited'[t] \in {awaited[t], "none"}
        /\ reply' \in [Services -> Statuses \union {"none"}]
    BY <1>2 DEF BrokersSound, BrokerTypeOK, Answer
  <2>2. BrokerTypeOK'
    BY <1>2, <2>1 DEF BrokersSound, BrokerTypeOK
  <2>3. EndsProve'
    BY <1>2, <2>1 DEF BrokersSound, BrokerTypeOK, EndsProve, Unburdened
  <2>4. \A t \in Services : Settled(t) => Settled(t)'
    BY <1>2, <2>1 DEF Settled, Unburdened, BrokersSound, BrokerTypeOK
  <2>5. StopsLast /\ LaunchesOver
    BY <2>1 DEF StopsLast, LaunchesOver, Services
  <2> QED
    BY <2>2, <2>3, <2>4, <2>5 DEF BrokersSound
<1> QED
  BY <1>1, <1>2 DEF Replies

\* A broker that moves keeps what its client relies on: it settles services only.
LEMMA BrokerSettles ==
    ASSUME BrokersSound, NEW s \in Services, BrokerMoves(s) \/ PipeBreaks(s)
    PROVE  /\ BrokersSound'
           /\ \A t \in Services : Settled(t) => Settled(t)'
           /\ StopsLast /\ LaunchesOver
<1>1. CASE HelloArrives(s) \/ Revoke(s) \/ Closes(s)
  BY <1>1 DEF BrokersSound, BrokerTypeOK, EndsProve, HelloArrives, Revoke, Closes, Settled, Unburdened,
     StopsLast, LaunchesOver, processVars, Commands, Services
<1>2. child[s] \in {"none", "running", "told", "dead", "released"}
  BY DEF BrokersSound, BrokerTypeOK
<1>3. {"owned", "exited", "exit-pending", "graceful-complete", "incomplete", "rejected"} \subseteq Statuses
  BY DEF Statuses
<1>4. CASE BrokerServes(s)
  <2>1. broker[s] = "up"
    BY <1>4 DEF BrokerServes
  <2>2. CASE ServeStart(s)
    <3>1. ~Settled(s) /\ pipe[s] \in Commands
      BY <2>2 DEF ServeStart, Settled, Commands
    <3> QED
      BY <2>1, <2>2, <3>1, <1>3, FailsSettles, RepliesSettles DEF ServeStart
  <2>3. CASE ServeStatus(s)
    <3>1. pipe[s] \in Commands
      BY <2>3 DEF ServeStatus, Commands
    <3>2. CASE child[s] \in {"dead", "released"} /\ Replies(s, "released", "exited")
      BY <2>1, <3>1, <3>2, <1>3, RepliesSettles
    <3>3. CASE child[s] = "dead" /\ Replies(s, "dead", "exit-pending")
      BY <2>1, <3>1, <3>3, <1>3, RepliesSettles DEF Settled, Unburdened
    <3>4. CASE s \in Alive /\ Replies(s, child[s], "owned")
      BY <2>1, <3>1, <3>4, <1>2, <1>3, RepliesSettles DEF Settled, Unburdened
    <3>5. CASE s \in Alive /\ Fails(s, "dead")
      BY <2>1, <3>1, <3>5, FailsSettles DEF Settled, Unburdened, Alive
    <3> QED
      BY <2>3, <3>2, <3>3, <3>4, <3>5 DEF ServeStatus
  <2>4. CASE ServeStop(s)
    <3>1. pipe[s] \in Commands
      BY <2>4 DEF ServeStop, Commands
    <3>2. CASE Unburdened(s) /\ Fails(s, child[s])
      BY <2>1, <3>2, <1>2, FailsSettles DEF Unburdened
    <3>3. CASE child[s] = "dead" /\ Replies(s, "released", "exited")
      BY <2>1, <3>1, <3>3, <1>3, RepliesSettles
    <3>4. CASE s \in Alive /\ Replies(s, "released", "graceful-complete")
      BY <2>1, <3>1, <3>4, <1>3, RepliesSettles
    <3>5. CASE s \in Alive /\ \E left \in {"told", "dead"} : Replies(s, left, "incomplete")
      BY <2>1, <3>1, <3>5, <1>3, RepliesSettles DEF Settled, Unburdened, Alive
    <3>6. CASE ~Unburdened(s) /\ Fails(s, "dead")
      BY <2>1, <3>6, FailsSettles DEF Settled
    <3> QED
      BY <2>4, <3>2, <3>3, <3>4, <3>5, <3>6 DEF ServeStop
  <2>5. CASE ServeQuit(s) /\ ~Unburdened(s)
    <3>1. pipe[s] \in Commands /\ Replies(s, child[s], "rejected")
      BY <2>5 DEF ServeQuit, Commands
    <3> QED
      BY <2>1, <2>5, <3>1, <1>2, <1>3, RepliesSettles DEF Settled
  <2>6. CASE ServeQuit(s) /\ Unburdened(s)
    BY <2>6 DEF ServeQuit, BrokersSound, BrokerTypeOK, EndsProve, Settled, Unburdened, StopsLast,
       LaunchesOver, Commands, Services
  <2> QED
    BY <1>4, <2>2, <2>3, <2>4, <2>5, <2>6 DEF BrokerServes
<1>5. CASE BrokerThrows(s)
  <2>1. PICK there \in {child[s]} \union {c \in {"running"} : pipe[s] = "START" /\ child[s] = "none"} :
            Fails(s, there)
    BY <1>5 DEF BrokerThrows
  <2>2. /\ there \in {"none", "running", "told", "dead", "released"}
        /\ Settled(s) => there \in {"none", "released"}
    BY <1>2, <2>1 DEF Settled, Unburdened
  <2> QED
    BY <1>5, <2>1, <2>2, FailsSettles DEF BrokerThrows
<1>6. CASE BrokerEnds(s) \/ ChildExits(s)
  BY <1>6 DEF BrokerEnds, ChildExits, Alive, BrokersSound, BrokerTypeOK, EndsProve, Settled, Unburdened,
     StopsLast, LaunchesOver, Commands, clientVars, Services
<1>7. CASE PipeBreaks(s)
  BY <1>7 DEF PipeBreaks, BrokersSound, BrokerTypeOK, EndsProve, Settled, Unburdened, StopsLast,
     LaunchesOver, Commands, Services
<1> QED
  BY <1>1, <1>4, <1>5, <1>6, <1>7 DEF BrokerMoves, BrokerTalks

\* A request touches one pipe; only a START unsettles its service.
LEMMA SendKeeps ==
    ASSUME BrokersSound, NEW s \in Services, NEW command \in Commands, Send(s, command),
           UNCHANGED <<channel, processVars>>,
           reply' \in [Services -> Statuses \union {"none"}]
    PROVE  /\ BrokersSound'
           /\ \A t \in Services : (t = s => command # "START") /\ Settled(t) => Settled(t)'
           /\ (s = "backend" => command # "STOP") => StopsLast
           /\ LaunchesOver
  BY DEF Send, BrokersSound, BrokerTypeOK, EndsProve, Settled, Unburdened, StopsLast, LaunchesOver,
     Commands, processVars, Services

\* Opening a broker keeps every service settled, if it is done over nothing.
LEMMA OpenKeeps ==
    ASSUME BrokersSound, NEW s \in Services, Open(s), Unburdened(s)
    PROVE  /\ BrokersSound'
           /\ \A t \in Services : Settled(t) => Settled(t)'
           /\ StopsLast /\ LaunchesOver
  BY DEF Open, BrokersSound, BrokerTypeOK, EndsProve, Settled, Unburdened, StopsLast, LaunchesOver,
     Commands, Services

\* A channel is closed only when there is nothing left behind it.
LEMMA ClosedIsSettled ==
    ASSUME BrokersSound, NEW s \in Services, channel[s] = "closed"
    PROVE  Settled(s)
  BY DEF BrokersSound, EndsProve, Settled

-----------------------------------------------------------------------------
(* The frame of main().                                                    *)

InMain(p) == p \in Runs /\ pc[p] \notin {"off", "tidy", "ended", "crashed"}

\* What a step of main() has to respect: the locals it leaves at its next label.
MayLeave(label, locals) ==
    /\ locals \in Locals
    /\ locals.run = me.run
    /\ ~locals.inRound /\ locals.service = "backend" => "application" \notin locals.owned
    /\ label \in {"observe", "connecting", "backoff", "backoff-round"} =>
        locals.service \notin locals.owned
    /\ label \in {"poll", "polling", "recovering", "backoff-round"} => locals.inRound

\* Labels within the try and the catch block, and the end that keeps the lease.
Inside == Labels \ {"off", "app-check", "tidy", "crashed"}

\* A run in main() moves on with whatever it owns accounted for.
LEMMA MainStep ==
    ASSUME OwnershipInv, NEW p, InMain(p), NEW label \in Inside, Goto(p, label),
           UNCHANGED Outside, MayLeave(label, me'), BrokersSound',
           \A s \in Services : s \notin me'.owned => Settled(s)'
    PROVE  OwnershipInv'
<1>1. lease = p /\ me.run = p /\ lease # "free"
  BY DEF OwnershipInv, OneOwner, InMain, SupervisorAssumption
<1>2. pc' = [pc EXCEPT ![p] = label] /\ pc \in [Runs -> Labels] /\ p \in Runs
  BY DEF Goto, OwnershipInv, SupervisorTypeOK, InMain
<1>3. SupervisorTypeOK'
  BY <1>2 DEF SupervisorTypeOK, OwnershipInv, BrokersSound, Outside, MayLeave, Inside
<1>4. \A q \in Runs : pc'[q] = IF q = p THEN label ELSE pc[q]
  BY <1>2
<1>5. OneOwner'
  BY <1>1, <1>4 DEF OneOwner, OwnershipInv, Outside, MayLeave
<1>6. SettledUnlessOwned'
  BY <1>1 DEF SettledUnlessOwned, Outside
<1>7. \A q \in Runs : q # p => pc[q] \in {"off", "tidy", "ended", "crashed"}
  BY <1>1 DEF OwnershipInv, OneOwner
<1>8. LaunchesNew'
  BY <1>4, <1>7 DEF LaunchesNew, MayLeave, Inside
<1> QED
  BY <1>3, <1>5, <1>6, <1>8 DEF OwnershipInv, BrokersSound

\* What a run in main() may rely on.
LEMMA Accounted ==
    ASSUME OwnershipInv, NEW p, InMain(p)
    PROVE  /\ lease = p /\ me.run = p /\ p \in Runs
           /\ BrokersSound
           /\ me \in Locals
           /\ \A s \in Services : s \notin me.owned => Settled(s)
           /\ ~me.inRound /\ me.service = "backend" => "application" \notin me.owned
<1>1. lease = p /\ me.run = p /\ p \in Runs
  BY DEF OwnershipInv, OneOwner, InMain, SupervisorAssumption
<1>2. Holds(p)
  BY <1>1 DEF Holds, InMain
<1> QED
  BY <1>1, <1>2 DEF OwnershipInv, SupervisorTypeOK, BrokersSound, SettledUnlessOwned, LaunchesNew

\* A step that leaves the brokers alone, and disowns what is settled only.
LEMMA QuietStep ==
    ASSUME OwnershipInv, NEW p, InMain(p), NEW label \in Inside, Goto(p, label), Quietly,
           MayLeave(label, me'), \A s \in me.owned : s \notin me'.owned => Settled(s)
    PROVE  StepOK
<1>1. BrokersSound' /\ StopsLast /\ LaunchesOver /\ \A s \in Services : Settled(s) => Settled(s)'
  BY Accounted DEF Quietly, brokerVars, clientVars, processVars, BrokersSound, BrokerTypeOK, EndsProve,
     Settled, Unburdened, StopsLast, LaunchesOver
<1>2. \A s \in Services : s \notin me'.owned => Settled(s)'
  BY <1>1, Accounted
<1> QED
  BY <1>1, <1>2, MainStep DEF StepOK, Quietly

\* A throw loses nothing that is not settled.
LEMMA ThrowStep ==
    ASSUME OwnershipInv, NEW p, InMain(p), NEW locals, Throw(p, locals), Quietly,
           MayLeave("blocked", locals), \A s \in me.owned : s \notin locals.owned => Settled(s)
    PROVE  StepOK
<1>1. me' = [locals EXCEPT !.inCatch = TRUE] /\ locals \in Locals
  BY DEF Throw, MayLeave
<1>2. /\ me' \in Locals
      /\ me'.run = locals.run /\ me'.service = locals.service /\ me'.owned = locals.owned
      /\ me'.inRound = locals.inRound
  BY <1>1 DEF Locals
<1>3. MayLeave("blocked", me') /\ MayLeave("ended", me')
  BY <1>2 DEF MayLeave
<1>4. \A s \in me.owned : s \notin me'.owned => Settled(s)
  BY <1>2
<1>5. Goto(p, "blocked") \/ Goto(p, "ended")
  BY DEF Throw
<1>6. "blocked" \in Inside /\ "ended" \in Inside
  BY DEF Inside, Labels
<1> QED
  BY <1>3, <1>4, <1>5, <1>6, QuietStep

\* A throw with the locals as they are.
LEMMA PlainThrow ==
    ASSUME OwnershipInv, NEW p, InMain(p), Throw(p, me), Quietly
    PROVE  StepOK
<1>1. MayLeave("blocked", me)
  BY Accounted DEF MayLeave
<1> QED
  BY <1>1, ThrowStep

\* A request moves main() on; a START goes to a service that is owned from then on.
LEMMA RequestStep ==
    ASSUME OwnershipInv, NEW p, InMain(p), NEW label \in Inside, Goto(p, label), UNCHANGED Outside,
           MayLeave(label, me'), me.owned \subseteq me'.owned,
           NEW s \in Services, NEW command \in Commands, Send(s, command),
           UNCHANGED <<channel, processVars>>, reply' \in [Services -> Statuses \union {"none"}],
           command = "START" => s \in me'.owned,
           s = "backend" /\ command = "STOP" => "application" \notin me.owned
    PROVE  StepOK
<1>1. BrokersSound' /\ LaunchesOver
  BY Accounted, SendKeeps
<1>2. \A t \in Services : t \notin me'.owned => Settled(t)'
  BY Accounted, SendKeeps
<1>3. StopsLast
  <2>1. CASE s = "backend" /\ command = "STOP"
    BY <2>1, Accounted DEF StopsLast, Settled, Unburdened, Alive, Services
  <2>2. CASE ~(s = "backend" /\ command = "STOP")
    BY <2>2, Accounted, SendKeeps
  <2> QED
    BY <2>1, <2>2
<1> QED
  BY <1>1, <1>2, <1>3, MainStep DEF StepOK

\* An answer that main() looks at changes nothing for the brokers.
LEMMA HearStep ==
    ASSUME OwnershipInv, NEW p, InMain(p), NEW label \in Inside, Goto(p, label),
           NEW statuses \in SUBSET Statuses, Hears(statuses),
           MayLeave(label, me'), me.owned \subseteq me'.owned
    PROVE  StepOK
<1>1. BrokersSound' /\ StopsLast /\ LaunchesOver /\ \A s \in Services : Settled(s) => Settled(s)'
  BY Accounted DEF Hears, Receive, processVars, BrokersSound, BrokerTypeOK, EndsProve,
     Settled, Unburdened, StopsLast, LaunchesOver
<1>2. \A s \in Services : s \notin me'.owned => Settled(s)'
  BY <1>1, Accounted
<1> QED
  BY <1>1, <1>2, MainStep DEF StepOK, Hears

-----------------------------------------------------------------------------
(* The actions.                                                            *)

\* Budgets change no local that ownership depends on.
LEMMA BudgetKeeps ==
    ASSUME me \in Locals, NEW s \in Services, Budget(s)
    PROVE  /\ me' \in Locals
           /\ me'.run = me.run /\ me'.service = me.service /\ me'.owned = me.owned
           /\ me'.inRound = me.inRound
<1>1. CASE s \in me.suppressed
  BY <1>1 DEF Budget, Locals
<1>2. CASE s \notin me.suppressed
  <2>1. PICK remembered \in 0..me.attempts[s] :
            me' = [me EXCEPT
                     !.giveUp = remembered >= RecoveryLaunches,
                     !.attempts[s] = IF remembered >= RecoveryLaunches THEN remembered
                                     ELSE remembered + 1]
    BY <1>2 DEF Budget
  <2>2. me.attempts \in [Services -> 0..RecoveryLaunches] /\ RecoveryLaunches \in Nat
    BY DEF Locals, SupervisorAssumption
  <2> DEFINE n == IF remembered >= RecoveryLaunches THEN remembered ELSE remembered + 1
             g == remembered >= RecoveryLaunches
             a == [me.attempts EXCEPT ![s] = n]
  <2>3. n \in 0..RecoveryLaunches
    BY <2>2
  <2>4. a \in [Services -> 0..RecoveryLaunches]
    BY <2>2, <2>3
  <2>5. g \in BOOLEAN
    OBVIOUS
  <2>6. me' = [me EXCEPT !.giveUp = g, !.attempts = a]
    BY <2>1 DEF Locals
  <2> HIDE DEF n, g, a
  <2> QED
    BY <2>4, <2>5, <2>6 DEF Locals
<1> QED
  BY <1>1, <1>2

\* The launcher takes the lease when every service is settled.
LEMMA TakeLeaseOK ==
    ASSUME OwnershipInv, NEW p \in Runs, TakeLease(p)
    PROVE  StepOK
<1>1. /\ lease = "free" /\ lease' = p /\ p # "free"
      /\ pc' = [pc EXCEPT ![p] = "app-check"] /\ pc \in [Runs -> Labels]
      /\ me' = Fresh(p)
      /\ UNCHANGED <<stopFile, stopCmd, signalled, brokerVars>>
  BY DEF TakeLease, Goto, OwnershipInv, SupervisorTypeOK, SupervisorAssumption
<1>2. Fresh(p) \in Locals /\ Fresh(p).run = p /\ Fresh(p).owned = {}
  BY SupervisorAssumption DEF Fresh, Locals, Services
<1>3. BrokersSound' /\ StopsLast /\ LaunchesOver /\ \A s \in Services : Settled(s)'
  BY <1>1 DEF brokerVars, clientVars, processVars, BrokersSound, BrokerTypeOK, EndsProve, Settled,
     Unburdened, StopsLast, LaunchesOver, OwnershipInv, SupervisorTypeOK, SettledUnlessOwned
<1>4. \A q \in Runs : pc'[q] = IF q = p THEN "app-check" ELSE pc[q]
  BY <1>1
<1>5. \A q \in Runs : pc[q] \in {"off", "tidy", "ended", "crashed"}
  BY <1>1 DEF OwnershipInv, OneOwner
<1>6. SupervisorTypeOK'
  BY <1>1, <1>2, <1>3 DEF SupervisorTypeOK, OwnershipInv, BrokersSound, Labels
<1>7. OneOwner' /\ SettledUnlessOwned' /\ LaunchesNew'
  BY <1>1, <1>2, <1>3, <1>4, <1>5 DEF OneOwner, SettledUnlessOwned, LaunchesNew
<1> QED
  BY <1>3, <1>6, <1>7 DEF StepOK, OwnershipInv, BrokersSound

LEMMA AppCheckOK ==
    ASSUME OwnershipInv, NEW p \in Runs, AppCheck(p)
    PROVE  StepOK
<1>1. InMain(p) /\ me.owned = {}
  BY DEF AppCheck, InMain, OwnershipInv, LaunchesNew
<1>2. CASE Throw(p, me)
  BY <1>1, <1>2, PlainThrow DEF AppCheck
<1>3. ASSUME NEW found \in SUBSET {"application"}, me' = [me EXCEPT !.external = found],
             Goto(p, "observe")
      PROVE  StepOK
  <2>1. /\ me' \in Locals
        /\ me'.run = me.run /\ me'.owned = {}
    BY <1>1, <1>3, Accounted DEF Locals, Services
  <2>2. MayLeave("observe", me')
    BY <2>1 DEF MayLeave
  <2> QED
    BY <1>1, <1>3, <2>2, QuietStep DEF AppCheck, Inside, Labels
<1> QED
  BY <1>2, <1>3 DEF AppCheck

\* Where ensure() returns to.
LEMMA EnsureLeaves ==
    ASSUME OwnershipInv, NEW p, InMain(p), NEW external \in SUBSET Services, EnsureReturns(p, external)
    PROVE  /\ me'.owned = me.owned
           /\ \E label \in Inside : Goto(p, label) /\ MayLeave(label, me')
<1> USE Accounted DEF MayLeave, EnsureReturns, Inside, Labels
<1>1. CASE me.inRound /\ me' = [me EXCEPT !.external = external] /\ Goto(p, "poll")
  <2>1. /\ me' \in Locals
        /\ me'.run = me.run /\ me'.owned = me.owned /\ me'.inRound
    BY <1>1 DEF Locals
  <2>2. MayLeave("poll", me')
    BY <2>1
  <2> QED
    BY <1>1, <2>1, <2>2
<1>2. CASE /\ ~me.inRound /\ me.service = "backend"
           /\ me' = [me EXCEPT !.external = external, !.service = "application"]
           /\ Goto(p, "observe")
  <2>1. /\ me' \in Locals
        /\ me'.run = me.run /\ me'.owned = me.owned /\ me'.service = "application"
    BY <1>2 DEF Locals, Services
  <2>2. MayLeave("observe", me')
    BY <1>2, <2>1
  <2> QED
    BY <1>2, <2>1, <2>2
<1>3. CASE me' = [me EXCEPT !.external = external] /\ Goto(p, "monitor")
  <2>1. /\ me' \in Locals
        /\ me'.run = me.run /\ me'.owned = me.owned /\ me'.service = me.service
        /\ me'.inRound = me.inRound
    BY <1>3 DEF Locals
  <2>2. MayLeave("monitor", me')
    BY <2>1
  <2> QED
    BY <1>3, <2>1, <2>2
<1> QED
  BY <1>1, <1>2, <1>3

LEMMA ObserveOK ==
    ASSUME OwnershipInv, NEW p \in Runs, Observe(p)
    PROVE  StepOK
<1>1. InMain(p) /\ me.service \notin me.owned /\ me.service \in Services /\ me.external \in SUBSET Services
  BY Accounted DEF Observe, InMain, OwnershipInv, LaunchesNew, Locals
<1>2. CASE EnsureReturns(p, me.external \union {me.service}) /\ Quietly
  <2>1. PICK label \in Inside : Goto(p, label) /\ MayLeave(label, me')
    BY <1>1, <1>2, EnsureLeaves
  <2>2. me'.owned = me.owned
    BY <1>1, <1>2, EnsureLeaves
  <2> QED
    BY <1>1, <1>2, <2>1, <2>2, QuietStep
<1>3. CASE Open(me.service) /\ Goto(p, "connecting") /\ UNCHANGED <<Outside, me>>
  <2>1. Unburdened(me.service)
    BY <1>1, Accounted DEF Settled
  <2>2. BrokersSound' /\ StopsLast /\ LaunchesOver /\ \A s \in Services : Settled(s) => Settled(s)'
    BY <1>1, <1>3, <2>1, Accounted, OpenKeeps
  <2>3. MayLeave("connecting", me') /\ "connecting" \in Inside
    BY <1>1, <1>3, Accounted DEF MayLeave, Inside, Labels
  <2>4. \A s \in Services : s \notin me'.owned => Settled(s)'
    BY <1>1, <1>3, <2>2, Accounted
  <2> QED
    BY <1>1, <1>3, <2>2, <2>3, <2>4, MainStep DEF StepOK
<1>4. CASE Throw(p, me) /\ Quietly
  BY <1>1, <1>4, PlainThrow
<1> QED
  BY <1>2, <1>3, <1>4 DEF Observe

\* A run asks the broker whose turn it is, and its locals stay as they are.
LEMMA AsksOK ==
    ASSUME OwnershipInv, NEW p, InMain(p), Requests(p, "STATUS", "status"), UNCHANGED me
    PROVE  StepOK
<1>1. MayLeave("status", me') /\ "status" \in Inside /\ me.service \in Services
  BY Accounted DEF MayLeave, Inside, Labels, Locals
<1>2. reply' \in [Services -> Statuses \union {"none"}]
  BY Accounted DEF Requests, BrokersSound, BrokerTypeOK
<1> QED
  BY <1>1, <1>2, RequestStep, Zenon DEF Requests, Commands

LEMMA ConnectedOK ==
    ASSUME OwnershipInv, NEW p \in Runs, Connected(p)
    PROVE  StepOK
<1>1. InMain(p) /\ me.service \in Services /\ me \in Locals /\ me.service \notin me.owned
  BY Accounted DEF Connected, InMain, Locals, OwnershipInv, LaunchesNew
<1>2. /\ me' \in Locals
      /\ me'.run = me.run /\ me'.owned = me.owned \union {me.service} /\ me'.service = me.service
      /\ me'.inRound = me.inRound
  BY <1>1 DEF Connected, Locals
<1>3. MayLeave("starting", me')
  BY <1>1, <1>2, Accounted DEF MayLeave
<1>4. reply' \in [Services -> Statuses \union {"none"}]
  BY <1>1, Accounted DEF Connected, Requests, BrokersSound, BrokerTypeOK
<1>5. Goto(p, "starting") /\ Send(me.service, "START") /\ UNCHANGED <<channel, processVars>>
      /\ UNCHANGED Outside
  BY DEF Connected, Requests
<1> QED
  BY <1>1, <1>2, <1>3, <1>4, <1>5, RequestStep DEF Inside, Labels, Commands

LEMMA StartedOK ==
    ASSUME OwnershipInv, NEW p \in Runs, Started(p)
    PROVE  StepOK
<1>1. InMain(p)
  BY DEF Started, InMain
<1>2. MayLeave("waiting", me') /\ "waiting" \in Inside
  BY <1>1, Accounted DEF Started, MayLeave, Inside, Labels
<1> QED
  BY <1>1, <1>2, HearStep DEF Started

LEMMA AskReadyOK ==
    ASSUME OwnershipInv, NEW p \in Runs, AskReady(p)
    PROVE  StepOK
<1>1. InMain(p)
  BY DEF AskReady, InMain
<1> QED
  BY <1>1, AsksOK, PlainThrow DEF AskReady

\* A dismissed broker is sent a QUIT and nothing else.
LEMMA DismissOK ==
    ASSUME OwnershipInv, NEW p, InMain(p), NEW label \in {"replacing", "recovering"},
           Dismiss(p, label), label = "recovering" => me.inRound
    PROVE  StepOK
<1>1. me \in Locals /\ me.service \in Services
  BY Accounted DEF Locals
<1>2. /\ me' \in Locals
      /\ me'.run = me.run /\ me'.service = me.service /\ me'.owned = me.owned
      /\ me'.inRound = me.inRound
  BY <1>1, BudgetKeeps DEF Dismiss
<1>3. MayLeave(label, me') /\ label \in Inside
  BY <1>2, Accounted DEF MayLeave, Inside, Labels
<1>4. reply' \in [Services -> Statuses \union {"none"}]
  BY <1>1, Accounted DEF Dismiss, Receive, BrokersSound, BrokerTypeOK
<1>5. /\ Goto(p, label) /\ Send(me.service, "QUIT") /\ UNCHANGED <<channel, processVars>>
      /\ UNCHANGED Outside
  BY DEF Dismiss
<1> QED
  BY <1>1, <1>2, <1>3, <1>4, <1>5, RequestStep DEF Commands

\* An answer that is taken for an exception.
LEMMA HeardThrow ==
    ASSUME OwnershipInv, NEW p, InMain(p), NEW statuses \in SUBSET Statuses, Hears(statuses),
           Throw(p, me)
    PROVE  StepOK
<1>1. me' = [me EXCEPT !.inCatch = TRUE] /\ (Goto(p, "blocked") \/ Goto(p, "ended"))
  BY DEF Throw
<1>2. /\ me' \in Locals
      /\ me'.run = me.run /\ me'.service = me.service /\ me'.owned = me.owned
      /\ me'.inRound = me.inRound
  BY <1>1, Accounted DEF Locals
<1>3. MayLeave("blocked", me') /\ MayLeave("ended", me') /\ {"blocked", "ended"} \subseteq Inside
  BY <1>2, Accounted DEF MayLeave, Inside, Labels
<1> QED
  BY <1>1, <1>2, <1>3, HearStep

LEMMA ReadyAnswerOK ==
    ASSUME OwnershipInv, NEW p \in Runs, ReadyAnswer(p)
    PROVE  StepOK
<1>1. InMain(p) /\ me \in Locals
  BY Accounted DEF ReadyAnswer, InMain
<1>2. CASE Dismiss(p, "replacing")
  BY <1>1, <1>2, DismissOK
<1>3. CASE Hears({"owned"}) /\ Goto(p, "waiting") /\ UNCHANGED me
  <2>1. MayLeave("waiting", me') /\ "waiting" \in Inside
    BY <1>1, <1>3, Accounted DEF MayLeave, Inside, Labels
  <2> QED
    BY <1>1, <1>3, <2>1, HearStep DEF Statuses
<1>4. CASE Hears({"owned"}) /\ EnsureReturns(p, me.external)
  <2>1. me.external \in SUBSET Services
    BY <1>1 DEF Locals
  <2>2. PICK label \in Inside : Goto(p, label) /\ MayLeave(label, me')
    BY <1>1, <1>4, <2>1, EnsureLeaves
  <2>3. me'.owned = me.owned
    BY <1>1, <1>4, <2>1, EnsureLeaves
  <2> QED
    BY <1>1, <1>4, <2>2, <2>3, HearStep DEF Statuses
<1>5. CASE Hears(Statuses) /\ Throw(p, me)
  BY <1>1, <1>5, HeardThrow
<1> QED
  BY <1>2, <1>3, <1>4, <1>5 DEF ReadyAnswer

\* A broker is disowned only after the end of its channel, when it looks after nothing.
LEMMA DismissedOK ==
    ASSUME OwnershipInv, NEW p \in Runs, NEW from, NEW label,
           \/ from = "replacing" /\ label = "backoff"
           \/ from = "recovering" /\ label = "backoff-round",
           Dismissed(p, from, label)
    PROVE  StepOK
<1>1. /\ InMain(p) /\ me \in Locals /\ me.service \in Services /\ Settled(me.service)
      /\ from = "recovering" => me.inRound
  BY Accounted, ClosedIsSettled DEF Dismissed, InMain, Locals, OwnershipInv, LaunchesNew
<1> DEFINE locals == [me EXCEPT !.owned = @ \ {me.service}, !.todo = @ \ {me.service}, !.giveUp = FALSE]
<1>2. /\ locals \in Locals
      /\ locals.run = me.run /\ locals.service = me.service
      /\ locals.owned = me.owned \ {me.service} /\ locals.inRound = me.inRound
  BY <1>1 DEF Locals
<1>3. Quietly /\ \/ me' = locals /\ Goto(p, label)
                 \/ Throw(p, locals)
  BY DEF Dismissed, MayThrow
<1> HIDE DEF locals
<1>4. MayLeave(label, locals) /\ MayLeave("blocked", locals) /\ label \in Inside
  BY <1>1, <1>2, Accounted DEF MayLeave, Inside, Labels
<1>5. \A s \in me.owned : s \notin locals.owned => Settled(s)
  BY <1>1, <1>2
<1> QED
  BY <1>1, <1>3, <1>4, <1>5, ThrowStep, QuietStep

LEMMA ReplaceOK ==
    ASSUME OwnershipInv, NEW p \in Runs, Replace(p)
    PROVE  StepOK
<1>1. InMain(p) /\ me.service \notin me.owned
  BY DEF Replace, InMain, OwnershipInv, LaunchesNew
<1>2. MayLeave("observe", me) /\ "observe" \in Inside
  BY <1>1, Accounted DEF MayLeave, Inside, Labels
<1> QED
  BY <1>1, <1>2, QuietStep, PlainThrow DEF Replace

LEMMA MonitorOK ==
    ASSUME OwnershipInv, NEW p \in Runs, Monitor(p)
    PROVE  StepOK
<1>1. InMain(p) /\ me \in Locals
  BY Accounted DEF Monitor, InMain
<1>2. /\ me' \in Locals
      /\ me'.run = me.run /\ me'.owned = me.owned /\ me'.inRound
  BY <1>1 DEF Monitor, Locals
<1>3. \A label \in {"stopping", "poll"} : MayLeave(label, me') /\ label \in Inside
  BY <1>2 DEF MayLeave, Inside, Labels
<1>4. Goto(p, "stopping") \/ Goto(p, "poll")
  BY DEF Monitor
<1> QED
  BY <1>1, <1>2, <1>3, <1>4, QuietStep DEF Monitor

LEMMA PollOK ==
    ASSUME OwnershipInv, NEW p \in Runs, Poll(p)
    PROVE  StepOK
<1>1. InMain(p) /\ me \in Locals /\ me.inRound
  BY Accounted DEF Poll, InMain, OwnershipInv, LaunchesNew
<1>2. ASSUME NEW s \in me.todo, me' = [me EXCEPT !.service = s, !.todo = @ \ {s}], Send(s, "STATUS"),
             Goto(p, "polling"), UNCHANGED <<Outside, channel, reply, processVars>>
      PROVE  StepOK
  <2>1. s \in Services
    BY <1>1 DEF Locals
  <2>2. /\ me' \in Locals
        /\ me'.run = me.run /\ me'.owned = me.owned /\ me'.inRound
    BY <1>1, <1>2, <2>1 DEF Locals
  <2>3. MayLeave("polling", me') /\ "polling" \in Inside
    BY <2>2 DEF MayLeave, Inside, Labels
  <2>4. reply' \in [Services -> Statuses \union {"none"}]
    BY <1>1, <1>2, Accounted DEF BrokersSound, BrokerTypeOK
  <2> QED
    BY <1>1, <1>2, <2>1, <2>2, <2>3, <2>4, RequestStep DEF Commands
<1>3. CASE Goto(p, "monitor") /\ UNCHANGED me /\ Quietly
  <2>1. MayLeave("monitor", me) /\ "monitor" \in Inside
    BY <1>1, Accounted DEF MayLeave, Inside, Labels
  <2> QED
    BY <1>1, <1>3, <2>1, QuietStep
<1>4. CASE Throw(p, me) /\ Quietly
  BY <1>1, <1>4, PlainThrow
<1> QED
  BY <1>2, <1>3, <1>4 DEF Poll, MayThrow

LEMMA PollAnswerOK ==
    ASSUME OwnershipInv, NEW p \in Runs, PollAnswer(p)
    PROVE  StepOK
<1>1. InMain(p) /\ me.inRound
  BY DEF PollAnswer, InMain, OwnershipInv, LaunchesNew
<1>2. MayLeave("poll", me) /\ "poll" \in Inside
  BY <1>1, Accounted DEF MayLeave, Inside, Labels
<1>3. {"owned", "exit-pending"} \subseteq Statuses
  BY DEF Statuses
<1> QED
  BY <1>1, <1>2, <1>3, DismissOK, HearStep, HeardThrow DEF PollAnswer

LEMMA RecoverOK ==
    ASSUME OwnershipInv, NEW p \in Runs, Recover(p)
    PROVE  StepOK
<1>1. InMain(p) /\ me.inRound /\ me.service \notin me.owned
  BY DEF Recover, InMain, OwnershipInv, LaunchesNew
<1>2. \A label \in {"poll", "observe"} : MayLeave(label, me) /\ label \in Inside
  BY <1>1, Accounted DEF MayLeave, Inside, Labels
<1>3. Goto(p, "poll") \/ Goto(p, "observe")
  BY DEF Recover
<1> QED
  BY <1>1, <1>2, <1>3, QuietStep DEF Recover

LEMMA StopNextOK ==
    ASSUME OwnershipInv, NEW p \in Runs, StopNext(p)
    PROVE  StepOK
<1>1. InMain(p) /\ me \in Locals
  BY Accounted DEF StopNext, InMain
<1> DEFINE s == NextToStop
           locals == [me EXCEPT !.service = s, !.suppressed = @ \union {s}]
<1>2. s \in Services /\ (s = "backend" => "application" \notin me.owned)
  BY DEF NextToStop, Services
<1>3. \/ /\ me' = locals /\ Send(s, "STOP") /\ Goto(p, "stop-sent")
         /\ UNCHANGED <<Outside, channel, reply, processVars>>
      \/ Throw(p, locals) /\ Quietly
  BY DEF StopNext
<1> HIDE DEF s
<1>4. /\ locals \in Locals
      /\ locals.run = me.run /\ locals.owned = me.owned /\ locals.service = s
  BY <1>1, <1>2 DEF Locals
<1> HIDE DEF locals
<1>5. /\ MayLeave("stop-sent", locals) /\ MayLeave("blocked", locals)
      /\ "stop-sent" \in Inside
  BY <1>2, <1>4 DEF MayLeave, Inside, Labels
<1>6. UNCHANGED reply => reply' \in [Services -> Statuses \union {"none"}]
  BY <1>1, Accounted DEF BrokersSound, BrokerTypeOK
<1>7. CASE Throw(p, locals) /\ Quietly
  BY <1>1, <1>4, <1>5, <1>7, ThrowStep
<1>8. CASE /\ me' = locals /\ Send(s, "STOP") /\ Goto(p, "stop-sent")
           /\ UNCHANGED <<Outside, channel, reply, processVars>>
  BY <1>1, <1>2, <1>4, <1>5, <1>6, <1>8, RequestStep DEF Commands
<1> QED
  BY <1>3, <1>7, <1>8

LEMMA StopAnswerOK ==
    ASSUME OwnershipInv, NEW p \in Runs, StopAnswer(p)
    PROVE  StepOK
<1>1. InMain(p) /\ me.service \in Services
  BY Accounted DEF StopAnswer, InMain, Locals
<1>2. \A label \in {"stop-quit", "blocked", "monitor"} : MayLeave(label, me) /\ label \in Inside
  BY <1>1, Accounted DEF MayLeave, Inside, Labels
<1>3. CASE /\ Receive(me.service, {"exited", "graceful-complete"}) /\ Send(me.service, "QUIT")
           /\ Goto(p, "stop-quit") /\ UNCHANGED <<Outside, me, channel, processVars>>
  <2>1. reply' \in [Services -> Statuses \union {"none"}]
    BY <1>1, <1>3, Accounted DEF Receive, BrokersSound, BrokerTypeOK
  <2> QED
    BY <1>1, <1>2, <1>3, <2>1, RequestStep DEF Commands
<1>4. CASE /\ Hears(Statuses \ {"exited", "graceful-complete"}) /\ UNCHANGED me
           /\ \/ Goto(p, "blocked")
              \/ Goto(p, "monitor")
  BY <1>1, <1>2, <1>4, HearStep
<1>5. CASE Hears(Statuses \ {"exited", "graceful-complete"}) /\ Throw(p, me)
  BY <1>1, <1>5, HeardThrow
<1> QED
  BY <1>3, <1>4, <1>5 DEF StopAnswer, MayThrow

LEMMA StoppedOK ==
    ASSUME OwnershipInv, NEW p \in Runs, Stopped(p)
    PROVE  StepOK
<1>1. InMain(p) /\ me \in Locals /\ Settled(me.service)
  BY Accounted, ClosedIsSettled DEF Stopped, InMain, Locals
<1>2. /\ me' \in Locals
      /\ me'.run = me.run /\ me'.owned = me.owned \ {me.service} /\ me'.service = me.service
      /\ me'.inRound = me.inRound
  BY <1>1 DEF Stopped, Locals
<1>3. MayLeave("stopping", me') /\ "stopping" \in Inside
  BY <1>2, Accounted, <1>1 DEF MayLeave, Inside, Labels
<1> QED
  BY <1>1, <1>2, <1>3, QuietStep DEF Stopped

LEMMA LostOK ==
    ASSUME OwnershipInv, NEW p \in Runs, Lost(p)
    PROVE  StepOK
  BY PlainThrow DEF Lost, InMain

LEMMA BlockedOK ==
    ASSUME OwnershipInv, NEW p \in Runs, Blocked(p)
    PROVE  StepOK
<1>1. InMain(p)
  BY DEF Blocked, InMain
<1>2. \A label \in {"ended", "stopping"} : MayLeave(label, me) /\ label \in Inside
  BY <1>1, Accounted DEF MayLeave, Inside, Labels
<1> QED
  BY <1>1, <1>2, QuietStep DEF Blocked

\* A step that touches neither the brokers nor the locals, but the lease or a label.
LEMMA UntouchedBrokers ==
    ASSUME OwnershipInv, UNCHANGED <<me, brokerVars>>
    PROVE  /\ BrokersSound' /\ StopsLast /\ LaunchesOver
           /\ \A s \in Services : Settled(s) => Settled(s)'
  BY DEF OwnershipInv, SupervisorTypeOK, BrokersSound, BrokerTypeOK, EndsProve, brokerVars, clientVars,
     processVars, Settled, Unburdened, StopsLast, LaunchesOver

\* The lease is given back with every service settled.
LEMMA ReleaseOK ==
    ASSUME OwnershipInv, NEW p \in Runs, Release(p)
    PROVE  StepOK
<1>1. InMain(p) /\ me.owned = {} /\ lease = p
  BY Accounted DEF Release, InMain
<1>2. /\ lease' = "free" /\ signalled' = [signalled EXCEPT ![p] = FALSE]
      /\ UNCHANGED <<stopFile, stopCmd, me, brokerVars>>
  BY DEF Release
<1>3. pc' = [pc EXCEPT ![p] = "tidy"] /\ pc \in [Runs -> Labels]
  BY DEF Release, Goto, OwnershipInv, SupervisorTypeOK
<1>4. \A q \in Runs : pc'[q] = IF q = p THEN "tidy" ELSE pc[q]
  BY <1>3
<1>5. \A q \in Runs : q # p => pc[q] \in {"off", "tidy", "ended", "crashed"}
  BY <1>1 DEF OwnershipInv, OneOwner
<1>6. SupervisorTypeOK'
  BY <1>2, <1>3, UntouchedBrokers DEF OwnershipInv, SupervisorTypeOK, BrokersSound, Labels
<1>7. \A s \in Services : Settled(s)'
  BY <1>1, <1>2, UntouchedBrokers, Accounted
<1>8. OneOwner' /\ SettledUnlessOwned' /\ LaunchesNew'
  BY <1>2, <1>4, <1>5, <1>7, SupervisorAssumption
     DEF OneOwner, SettledUnlessOwned, LaunchesNew, Holds, OwnershipInv
<1> QED
  BY <1>2, <1>6, <1>8, UntouchedBrokers DEF StepOK, OwnershipInv, BrokersSound

LEMMA TidyOK ==
    ASSUME OwnershipInv, NEW p \in Runs, Tidy(p)
    PROVE  StepOK
<1>1. /\ pc[p] = "tidy" /\ UNCHANGED <<lease, stopCmd, signalled, me, brokerVars>>
      /\ stopFile' = "none"
      /\ pc' = [pc EXCEPT ![p] = "ended"] /\ pc \in [Runs -> Labels]
  BY DEF Tidy, Goto, OwnershipInv, SupervisorTypeOK
<1>2. \A q \in Runs : pc'[q] = IF q = p THEN "ended" ELSE pc[q]
  BY <1>1
<1>3. SupervisorTypeOK'
  BY <1>1, UntouchedBrokers DEF OwnershipInv, SupervisorTypeOK, BrokersSound, Labels
<1>4. OneOwner' /\ SettledUnlessOwned' /\ LaunchesNew'
  BY <1>1, <1>2, UntouchedBrokers DEF OneOwner, SettledUnlessOwned, LaunchesNew, Holds, OwnershipInv
<1> QED
  BY <1>1, <1>3, <1>4, UntouchedBrokers DEF StepOK, OwnershipInv, BrokersSound

\* Signals and stop requests change nothing that ownership depends on.
LEMMA AskedOK ==
    ASSUME OwnershipInv, (\E p \in Runs : Signal(p)) \/ AskStop
    PROVE  StepOK
<1>1. UNCHANGED <<lease, pc, me, brokerVars>>
  BY DEF Signal, AskStop
<1>2. SupervisorTypeOK'
  BY <1>1, UntouchedBrokers DEF OwnershipInv, SupervisorTypeOK, BrokersSound, Signal, AskStop
<1>3. OneOwner' /\ SettledUnlessOwned' /\ LaunchesNew'
  BY <1>1, UntouchedBrokers DEF OneOwner, SettledUnlessOwned, LaunchesNew, Holds, OwnershipInv
<1> QED
  BY <1>1, <1>2, <1>3, UntouchedBrokers DEF StepOK, OwnershipInv, BrokersSound

\* The death of a run: its channels vanish, what it wrote to a pipe does not.
LEMMA CrashOK ==
    ASSUME OwnershipInv, NEW p \in Runs, Crash(p)
    PROVE  StepOK
<1>1. /\ signalled' = [signalled EXCEPT ![p] = FALSE]
      /\ UNCHANGED <<lease, stopFile, stopCmd, processVars, pipe>>
      /\ pc' = [pc EXCEPT ![p] = "crashed"] /\ pc \in [Runs -> Labels]
  BY DEF Crash, Goto, clientVars, OwnershipInv, SupervisorTypeOK
<1>2. \A q \in Runs : pc'[q] = IF q = p THEN "crashed" ELSE pc[q]
  BY <1>1
<1>3. BrokersSound' /\ StopsLast /\ LaunchesOver
  BY <1>1 DEF Crash, ClientsVanish, clientVars, processVars, OwnershipInv, SupervisorTypeOK, BrokersSound,
     BrokerTypeOK, EndsProve, Unburdened, StopsLast, LaunchesOver, Services
<1>4. \A s \in Services : Settled(s) => Settled(s)'
  BY <1>1 DEF Settled, Unburdened, processVars
<1>5. Fresh(p) \in Locals /\ Fresh(p).run = p /\ Fresh(p).owned = {}
  BY SupervisorAssumption DEF Fresh, Locals, Services
<1>6. /\ me' = Fresh(p) \/ me' = me
      /\ me.run # p => me' = me
      /\ me.run = p => me' = Fresh(p)
  BY DEF Crash
<1>7. SupervisorTypeOK'
  BY <1>1, <1>3, <1>5, <1>6 DEF OwnershipInv, SupervisorTypeOK, BrokersSound, Labels
<1>8. OneOwner'
  BY <1>1, <1>2, <1>5, <1>6 DEF OneOwner, OwnershipInv
<1>9. \A q \in Runs : q # p /\ pc[q] \notin {"off", "tidy", "ended", "crashed"} => me' = me
  BY <1>6, SupervisorAssumption DEF OneOwner, OwnershipInv
<1>10. \A q \in Runs : q # p /\ Holds(q) => me' = me
  BY <1>6, SupervisorAssumption DEF OneOwner, OwnershipInv, Holds
<1>11. SettledUnlessOwned'
  BY <1>1, <1>2, <1>4, <1>10 DEF SettledUnlessOwned, Holds, OwnershipInv
<1>12. LaunchesNew'
  BY <1>2, <1>5, <1>6, <1>9 DEF LaunchesNew, OwnershipInv
<1> QED
  BY <1>3, <1>7, <1>8, <1>11, <1>12 DEF StepOK, OwnershipInv, BrokersSound

\* Brokers and children go on by themselves.
LEMMA SurroundingsOK ==
    ASSUME OwnershipInv, NEW s \in Services, BrokerMoves(s) \/ Orphaned(s), UNCHANGED supervisorVars
    PROVE  StepOK
<1>1. BrokersSound
  BY DEF BrokersSound, OwnershipInv, SupervisorTypeOK
<1>2. /\ BrokersSound' /\ StopsLast /\ LaunchesOver
      /\ \A t \in Services : Settled(t) => Settled(t)'
  BY <1>1, BrokerSettles DEF Orphaned
<1>3. SupervisorTypeOK' /\ OneOwner' /\ SettledUnlessOwned' /\ LaunchesNew'
  BY <1>2 DEF supervisorVars, OwnershipInv, BrokersSound, SupervisorTypeOK, OneOwner, SettledUnlessOwned,
     LaunchesNew, Holds
<1> QED
  BY <1>2, <1>3 DEF StepOK, OwnershipInv, BrokersSound

-----------------------------------------------------------------------------
(* The theorems.                                                           *)

LEMMA WorksOK ==
    ASSUME OwnershipInv, NEW p \in Runs, Works(p)
    PROVE  StepOK
  BY AppCheckOK, ObserveOK, ConnectedOK, StartedOK, AskReadyOK, ReadyAnswerOK, DismissedOK, ReplaceOK,
     MonitorOK, PollOK, PollAnswerOK, RecoverOK, StopNextOK, StopAnswerOK, StoppedOK, LostOK, BlockedOK,
     ReleaseOK, TidyOK DEF Works

LEMMA SupervisorSteps == OwnershipInv /\ [SupervisorNext]_vars => StepOK
<1> SUFFICES ASSUME OwnershipInv, [SupervisorNext]_vars PROVE StepOK
  OBVIOUS
<1>1. CASE UNCHANGED vars
  <2>1. UNCHANGED <<supervisorVars, me, brokerVars>>
    BY <1>1 DEF vars, supervisorVars
  <2>2. SupervisorTypeOK' /\ OneOwner' /\ SettledUnlessOwned' /\ LaunchesNew'
    BY <2>1, UntouchedBrokers DEF supervisorVars, OwnershipInv, BrokersSound, SupervisorTypeOK, OneOwner,
       SettledUnlessOwned, LaunchesNew, Holds
  <2> QED
    BY <2>1, <2>2, UntouchedBrokers DEF StepOK, OwnershipInv, BrokersSound
<1>2. CASE SupervisorNext
  BY <1>2, TakeLeaseOK, WorksOK, AskedOK, CrashOK, SurroundingsOK DEF SupervisorNext
<1> QED
  BY <1>1, <1>2

\* The inductive invariant of the supervisor.
THEOREM OwnershipInvariant == SupervisorSpec => []OwnershipInv
<1>1. SupervisorInit => OwnershipInv
  <2> SUFFICES ASSUME SupervisorInit PROVE OwnershipInv
    OBVIOUS
  <2>1. Fresh("none") \in Locals /\ Fresh("none").owned = {}
    BY SupervisorAssumption DEF Fresh, Locals, Services
  <2>2. SupervisorTypeOK
    BY <2>1 DEF SupervisorInit, BrokerInit, SupervisorTypeOK, BrokerTypeOK, Labels
  <2>3. EndsProve /\ OneOwner /\ SettledUnlessOwned /\ LaunchesNew
    BY <2>1, SupervisorAssumption DEF SupervisorInit, BrokerInit, EndsProve, OneOwner, SettledUnlessOwned,
       LaunchesNew, Holds, Settled, Unburdened
  <2> QED
    BY <2>2, <2>3 DEF OwnershipInv
<1>2. OwnershipInv /\ [SupervisorNext]_vars => OwnershipInv'
  BY SupervisorSteps DEF StepOK
<1> QED
  BY <1>1, <1>2, PTL DEF SupervisorSpec

\* Every variable keeps its type.
THEOREM SupervisorTypesCorrect == SupervisorSpec => []SupervisorTypeOK
  BY OwnershipInvariant, PTL DEF OwnershipInv

\* The lease is free only while no child of any run lives.
THEOREM LeaseCoversChildren == SupervisorSpec => []NothingLeftWithoutLease
<1>1. OwnershipInv => NothingLeftWithoutLease
  BY DEF OwnershipInv, SettledUnlessOwned, Settled, Unburdened, NothingLeftWithoutLease, Alive
<1> QED
  BY <1>1, OwnershipInvariant, PTL

\* A run that works owns the broker of every child that lives.
THEOREM LivingAreOwned == SupervisorSpec => []OwnedIsKept
<1>1. OwnershipInv => OwnedIsKept
  BY DEF OwnershipInv, SettledUnlessOwned, Settled, Unburdened, OwnedIsKept, Alive
<1> QED
  BY <1>1, OwnershipInvariant, PTL

\* The backend is asked to stop only when the application has gone.
THEOREM ApplicationGoesFirst == SupervisorSpec => BackendOutlivesApplication
<1>1. OwnershipInv /\ [SupervisorNext]_vars =>
          [(awaited["backend"] # "STOP" /\ awaited'["backend"] = "STOP")
              => "application" \notin Alive]_vars
  BY SupervisorSteps DEF StepOK, StopsLast
<1> QED
  BY <1>1, OwnershipInvariant, PTL DEF SupervisorSpec, BackendOutlivesApplication

\* A broker is opened only for a service without a child that may still live.
THEOREM NothingIsReplacedAlive == SupervisorSpec => NeverReplacedAlive
<1>1. OwnershipInv /\ [SupervisorNext]_vars =>
          [\A s \in Services :
              (channel[s] # "hello" /\ channel'[s] = "hello") => Unburdened(s)]_vars
  BY SupervisorSteps DEF StepOK, LaunchesOver
<1> QED
  BY <1>1, OwnershipInvariant, PTL DEF SupervisorSpec, NeverReplacedAlive
=============================================================================
