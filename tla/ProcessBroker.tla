---------------------------- MODULE ProcessBroker ----------------------------
(***************************************************************************)
(* A service's broker, seen from both ends of its private pipe.            *)
(*                                                                         *)
(* release/rc1/supervisor/broker-client.cjs keeps one outstanding command  *)
(* per channel; a timeout or anything unexpected revokes the channel for   *)
(* good, but the command may already be on its way.  src/broker.cpp        *)
(* launches at most one child, reports on it, asks it to stop and never    *)
(* forces it.  Tokens and sequence numbers are left out: with one command  *)
(* outstanding they only confirm what the pipe's order gives already.      *)
(***************************************************************************)

CONSTANTS
    BrokerMayThrow  \* whether a system call of the broker may fail, or find a file,
                    \* a port or a console as it must not be

ASSUME BrokerMayThrowAssumption == BrokerMayThrow \in BOOLEAN

Services == {"backend", "application"}

VARIABLES
    channel,    \* the client's end: "revoked" is `poisoned', "closed" is the end of a QUIT
    awaited,    \* `pending': what the client waits for
    reply,      \* a status the client was given and its caller has not looked at
    pipe,       \* the command the broker has not served yet
    broker,     \* the process: "orphan" of its supervisor, "leaving" after an exception,
                \* "quit" with code 0, "failed" with another
    child       \* its child: "told" is running although asked to stop, "dead" has
                \* exited, "released" is known to have freed its streams and port

clientVars == <<channel, awaited, reply, pipe>>
processVars == <<broker, child>>
brokerVars == <<clientVars, processVars>>

Commands == {"START", "STATUS", "STOP", "QUIT"}
Statuses == {"owned", "exited", "exit-pending", "graceful-complete", "incomplete", "rejected"}

BrokerTypeOK ==
    /\ channel \in [Services -> {"none", "hello", "open", "revoked", "closed"}]
    /\ awaited \in [Services -> Commands \union {"none", "hello"}]
    /\ reply \in [Services -> Statuses \union {"none"}]
    /\ pipe \in [Services -> Commands \union {"none"}]
    /\ broker \in [Services -> {"none", "up", "leaving", "orphan", "quit", "failed"}]
    /\ child \in [Services -> {"none", "running", "told", "dead", "released"}]

BrokerInit ==
    /\ channel = [s \in Services |-> "none"]
    /\ awaited = [s \in Services |-> "none"]
    /\ reply = [s \in Services |-> "none"]
    /\ pipe = [s \in Services |-> "none"]
    /\ broker = [s \in Services |-> "none"]
    /\ child = [s \in Services |-> "none"]

Alive == {s \in Services : child[s] \in {"running", "told"}}

\* The broker has nothing to look after.
Unburdened(s) == child[s] \in {"none", "released"}

-----------------------------------------------------------------------------
(* The client's end.                                                       *)

\* open(): spawn the broker and wait for its hello.
Open(s) ==
    /\ channel' = [channel EXCEPT ![s] = "hello"]
    /\ awaited' = [awaited EXCEPT ![s] = "hello"]
    /\ reply' = [reply EXCEPT ![s] = "none"]
    /\ pipe' = [pipe EXCEPT ![s] = "none"]
    /\ \E spawned \in {"up", "failed"} : broker' = [broker EXCEPT ![s] = spawned]
    /\ child' = [child EXCEPT ![s] = IF @ = "released" THEN "none" ELSE @]

\* request() up to its await.
Send(s, command) ==
    /\ channel[s] = "open"
    /\ awaited' = [awaited EXCEPT ![s] = command]
    /\ pipe' = [pipe EXCEPT ![s] = command]

\* request() resumes with an answer: only while the channel is still trusted.
Receive(s, statuses) ==
    /\ channel[s] = "open"
    /\ reply[s] \in statuses
    /\ reply' = [reply EXCEPT ![s] = "none"]

\* The client's process dies.
ClientsVanish ==
    /\ channel' = [s \in Services |-> "none"]
    /\ awaited' = [s \in Services |-> "none"]
    /\ reply' = [s \in Services |-> "none"]

HelloArrives(s) ==
    /\ broker[s] = "up"
    /\ channel[s] = "hello"
    /\ channel' = [channel EXCEPT ![s] = "open"]
    /\ awaited' = [awaited EXCEPT ![s] = "none"]
    /\ UNCHANGED <<reply, pipe, processVars>>

\* fail(): a timeout, a failed write, a malformed or unwanted line.
Revoke(s) ==
    /\ channel[s] \in {"hello", "open"}
    /\ awaited[s] # "none"
    /\ channel' = [channel EXCEPT ![s] = "revoked"]
    /\ awaited' = [awaited EXCEPT ![s] = "none"]
    /\ UNCHANGED <<reply, pipe, processVars>>

\* The 'close' event: welcome as the end of a QUIT with code 0, else a failure.
Closes(s) ==
    /\ broker[s] \in {"quit", "failed"}
    /\ channel[s] \in {"hello", "open"}
    /\ channel' = [channel EXCEPT ![s] =
           IF awaited[s] = "QUIT" /\ broker[s] = "quit" THEN "closed" ELSE "revoked"]
    /\ awaited' = [awaited EXCEPT ![s] = "none"]
    /\ UNCHANGED <<reply, pipe, processVars>>

-----------------------------------------------------------------------------
(* The broker's end.                                                       *)

\* A status line; a revoked channel drops it, and a client that expects the end
\* of the broker takes any line for a failure.
Answer(s, status) ==
    /\ pipe' = [pipe EXCEPT ![s] = "none"]
    /\ IF channel[s] # "open" THEN UNCHANGED <<channel, awaited, reply>>
       ELSE IF awaited[s] = "QUIT"
       THEN /\ channel' = [channel EXCEPT ![s] = "revoked"]
            /\ awaited' = [awaited EXCEPT ![s] = "none"]
            /\ UNCHANGED reply
       ELSE /\ reply' = [reply EXCEPT ![s] = status]
            /\ awaited' = [awaited EXCEPT ![s] = "none"]
            /\ UNCHANGED channel

\* The way out of an exception, with the child as it is `there': the destructor asks a
\* living child to stop and stays with it, and gives up when that throws as well.
Fails(s, there) ==
    /\ pipe' = [pipe EXCEPT ![s] = "none"]
    /\ UNCHANGED <<channel, awaited, reply>>
    /\ \/ /\ there \in {"running", "told"}
          /\ broker' = [broker EXCEPT ![s] = "leaving"]
          /\ child' = [child EXCEPT ![s] = "told"]
       \/ /\ there \in {"none", "dead", "released"} \/ BrokerMayThrow
          /\ broker' = [broker EXCEPT ![s] = "failed"]
          /\ \E left \in {there} \union {c \in {"released"} : there = "dead"} :
                 child' = [child EXCEPT ![s] = left]

\* The answer to a command that leaves the child `there'.  Nobody reads the pipe of
\* a supervisor that has died: the write fails.
Replies(s, there, status) ==
    IF channel[s] = "none" THEN Fails(s, there)
    ELSE /\ Answer(s, status)
         /\ child' = [child EXCEPT ![s] = there]
         /\ UNCHANGED broker

\* start() creates the child and ends with its status().  identity() throws if the
\* child has exited by then.
ServeStart(s) ==
    /\ pipe[s] = "START"
    /\ child[s] = "none"
    /\ \/ Replies(s, "running", "owned")
       \/ Replies(s, "dead", "exit-pending")
       \/ Replies(s, "released", "exited")
       \/ Fails(s, "dead")

\* status(): the exit of the process is not enough for "exited".  A child that exits
\* between live() and identity() makes it throw.
ServeStatus(s) ==
    /\ pipe[s] = "STATUS"
    /\ \/ child[s] \in {"dead", "released"} /\ Replies(s, "released", "exited")
       \/ child[s] = "dead" /\ Replies(s, "dead", "exit-pending")
       \/ s \in Alive /\ (Replies(s, child[s], "owned") \/ Fails(s, "dead"))

\* stop(): one signal, then a bounded wait.  A child that is dead gets neither: it is
\* found complete here and now, or identity() throws.  It always throws for a child
\* that was found complete before, since stop() does not look at `done'.
ServeStop(s) ==
    /\ pipe[s] = "STOP"
    /\ \/ Unburdened(s) /\ Fails(s, child[s])
       \/ child[s] = "dead" /\ Replies(s, "released", "exited")
       \/ s \in Alive /\ Replies(s, "released", "graceful-complete")
       \/ s \in Alive /\ \E left \in {"told", "dead"} : Replies(s, left, "incomplete")
       \/ ~Unburdened(s) /\ Fails(s, "dead")

\* QUIT is refused as long as there is a child.
ServeQuit(s) ==
    /\ pipe[s] = "QUIT"
    /\ \/ /\ Unburdened(s)
          /\ broker' = [broker EXCEPT ![s] = "quit"]
          /\ pipe' = [pipe EXCEPT ![s] = "none"]
          /\ UNCHANGED <<channel, awaited, reply, child>>
       \/ /\ ~Unburdened(s)
          /\ Replies(s, child[s], "rejected")

BrokerServes(s) ==
    /\ broker[s] = "up"
    /\ \/ ServeStart(s)
       \/ ServeStatus(s)
       \/ ServeStop(s)
       \/ ServeQuit(s)

\* A system call that fails, even right after start() has created the child.
BrokerThrows(s) ==
    /\ BrokerMayThrow
    /\ broker[s] = "up"
    /\ \E there \in {child[s]} \union {c \in {"running"} : pipe[s] = "START" /\ child[s] = "none"} :
           Fails(s, there)

\* A broker that ignores the end of its supervisor.
FaultyPipeBreaks(s) ==
    /\ broker[s] = "up"
    /\ broker' = [broker EXCEPT ![s] = "orphan"]
    /\ pipe' = [pipe EXCEPT ![s] = "none"]
    /\ UNCHANGED <<channel, awaited, reply, child>>

\* The supervisor is gone: the broker asks its child to stop and stays with it.
PipeBreaks(s) ==
    /\ broker[s] = "up"
    /\ broker' = [broker EXCEPT ![s] = "orphan"]
    /\ \/ child' = [child EXCEPT ![s] = IF @ = "running" THEN "told" ELSE @]
       \/ BrokerMayThrow /\ UNCHANGED child
    /\ pipe' = [pipe EXCEPT ![s] = "none"]
    /\ UNCHANGED <<channel, awaited, reply>>

\* A leaving broker ends with its child, or before everything of it is free when a
\* call, or the identity of a child that has just exited, fails once more.
BrokerEnds(s) ==
    /\ \/ /\ broker[s] \in {"leaving", "orphan"}
          /\ Unburdened(s)
          /\ broker' = [broker EXCEPT ![s] = IF @ = "orphan" THEN "quit" ELSE "failed"]
          /\ UNCHANGED child
       \/ /\ broker[s] \in {"leaving", "orphan"}
          /\ child[s] = "dead"
          /\ child' = [child EXCEPT ![s] = "released"]
          /\ UNCHANGED broker
       \/ /\ broker[s] = "leaving"
          /\ child[s] = "dead" \/ BrokerMayThrow
          /\ broker' = [broker EXCEPT ![s] = "failed"]
          /\ UNCHANGED child
    /\ UNCHANGED clientVars

\* The child exits, for its own reasons or because it was told to.
ChildExits(s) ==
    /\ s \in Alive
    /\ child' = [child EXCEPT ![s] = "dead"]
    /\ UNCHANGED <<broker, clientVars>>

\* What goes on by itself as long as both ends live.
BrokerTalks(s) ==
    \/ HelloArrives(s)
    \/ Revoke(s)
    \/ Closes(s)
    \/ BrokerServes(s)

BrokerMoves(s) ==
    \/ BrokerTalks(s)
    \/ BrokerThrows(s)
    \/ BrokerEnds(s)
    \/ ChildExits(s)
=============================================================================
