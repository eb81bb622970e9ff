# Verification of chatbot-ui

TLA+ modules, TLC configurations and TLAPS proofs for the chat application in
`src/`: a Node HTTP server (`server.js`, `db.js`, `auth.js`, `core/`) over SQLite,
a page written in plain JavaScript (`public/app.js`), an external llama server it
streams answers from, and a Windows supervisor under `release/rc1/supervisor/`
that starts and stops both.

The work concentrates on what tests of this code hardly reach: the order of
callbacks, awaits and timers; answers that are lost or overtake each other; state
that is checked before an `await` or a dialog and used after it.

## 1. Inventory

### 1.1 Server side

| Component | State | Operations | What makes it correct |
|---|---|---|---|
| Request tracker (`core/request-tracker.js`) | `active`, `draining`, idle waiters, two flags per request | track, finish of the handler, end of the response, `beginDrain`, `whenIdle` | the count is exact in every order of the two halves; no lost wake-up |
| Graceful shutdown (`core/graceful-shutdown.js`) | `state`, one timer, one promise | stop listening, grace period, sever connections, bounded wait for the close callback | a "closed" result means no connection is left; every failing call ends in a result; no timer survives |
| Shutdown coordinator (`core/shutdown-coordinator.js`) | deadline, two stored results | drain, shut down, wait for both under one deadline | a result is safe for the database only with both halves in place |
| Orchestrator, database cleanup, application lifecycle (`core/lifecycle-orchestrator.js`, `core/database-cleanup.js`, `core/application-lifecycle.js`) | their states, `process.exitCode` | signal, close database, report | the database closes behind the last handler; the exit code tells the truth; every shutdown is reported |
| Chat store (`db.js`) | tables `users`, `sessions`, `chats` (with `revision`), `messages` | one SQL statement or write transaction each | no write lands at a revision its writer has not seen; clear and new revision are one step; nothing is orphaned |
| Sessions (`auth.js`) | `sessions` rows and their expiry | create, look up, delete, expire | an ended session authenticates nothing |
| HTTP routes (`server.js`) | what a handler holds across its `await` of the body | login, logout, chats, messages, titles, scroll positions, settings, accounts | authority is still there when the write happens; what arrives late reaches only rows of its own user; a reset ends every session; an administrator remains |
| Inference proxy (`POST /api/chat` in `server.js`, `core/llama-client.js`) | response headers, an abort controller, a reader of the upstream body | call, forward, end, tell a failure, abort | a page that leaves stops the model from every await; every path ends the response; what breaks is never taken for an answer |
| Telemetry (`core/admin-telemetry.js`, its route) | a cached sample, its age, one collection in flight | sample, collect | one collection serves all; nothing goes to a session that lost its rights meanwhile |
| AI settings and activation (`core/ai-*.js`, `core/restart-request.js`, a route) | the configuration file | validate, replace the file at once, refuse | data: not modelled |

### 1.2 Page

`public/app.js` keeps, per tab, `sessionEpoch`, the local `chatStore`, one
`activeGeneration`, one dialog and whatever requests it awaits. Its operations are
sending a prompt (five awaits from the attachment to the saved answer), creating,
clearing and deleting chats, reconciling a chat whose server state is unknown, and
login, logout and loading. It is correct when what a tab shows belongs to the
revision it will send, when nothing cleared comes back, when an obsolete
generation neither writes nor blocks the send button, and when every locked chat
is unlocked by some outcome of its request. `readAssistantStream` splits the answer
into lines and events however the network cuts it; it is correct when it gives the
model's chunks in order and reports completion only after the last.

`public/admin-monitor.js` keeps one request in flight or one timer, an epoch that
pausing and hiding raise, and a short history. It is correct when polling neither
doubles nor stalls, and when a page that was closed or refused shows nothing.

### 1.3 Process management

`core/lifecycle-policy.js` is the contract engine for starting, stopping and
recovering a model process (its contract is `test/lifecycle-policy-contract.md`);
it works on observations that may be stale and must never launch over a living
process, forget one, or exceed its recovery budget. It is exercised by a
simulation in the tests; the supervisor
(`release/rc1/supervisor/recovery.cjs`) takes its default limits.

The supervisor (`supervisor.cjs`, `recovery.cjs`, `readiness.cjs`) keeps a lease
file, polls a stop request file, and owns up to two brokers: for the llama server
("backend") and the web server ("application"). A broker (`src/broker.cpp`, reached
through `broker-client.cjs`) is a process that launches one child and answers START,
STATUS, STOP and QUIT over a pipe. It is correct when no child is forgotten,
doubled, killed or left behind without the lease, whichever call, reply or process
is lost; when the backend is stopped after the application; and when a stop request
is honoured by the run it was made of.

### 1.4 How they interact

    page --HTTP--> trackedHandler --> routes --> auth.js / db.js --> SQLite
                        |                |
                        |                +--> llama server (stream, telemetry)
    signal --> application lifecycle --> orchestrator --> coordinator
                                             |              |-- request tracker
                                             |              +-- graceful shutdown --> http.Server
                                             +--> database cleanup --> db.close()
    supervisor --broker--> server process, llama process

Handlers interleave only at an `await`; SQLite calls are synchronous. Tabs meet
only in the store. `PROJECT.json` lists the hazards this gives rise to, each at
its line and with the properties that watch it.

## 2. Modules and the code they stand for

Names follow the code. One action is one synchronous run of it, from a callback,
event or request to its next `await` or return.

**Shutdown**

* `RequestTracker`: `handler[r]` and `response[r]` are the two flags of
  `trackedHandler`; `active`, `draining` and the waiter are its closure variables.
  The counter is *kept*, not derived, so that it can be wrong.
* `GracefulShutdown`: `gsState`, `gsTimer`, `gsResult` are the controller's
  variables; `listening` and `conn` are the part of Node's `http.Server` it drives
  (external). Each guarded call that can fail does so when `MayFail` says so.
* `ShutdownCoordinator` extends both with the deadline and the two callbacks.
* `ApplicationLifecycle` composes everything with clients, the signal and the
  database. The first signal runs synchronously down to `server.close()`, so
  `Signal` is one action; promise callbacks are actions of their own, so that
  anything can happen between a resolution and its callback.
* `DrainThenClose` is the abstract promise: work enters while the doors are open,
  and the database is closed behind shut doors with nothing inside, or given up.
* `ApplicationLifecycleProofs`: see section 5.

**Server**

* `ChatStore`: `owner`, `revision`, `history` are the `chats` and `messages`
  tables. A row remembers, as a history variable, the revision its writer named.
* `ChatServer`: `account`, `password`, `session` are `users` and `sessions`;
  `handler[q]` is what a handler remembers while it awaits its body. A route with
  a body has an arrival step and a second step; one without is a single step.
  `credential` remembers by which password a session was opened. `settings` are the
  rows of `user_settings`; `edited[c]` remembers whose rename or scroll position a
  chat has, which is what their `WHERE id = ? AND user_id = ?` is about.
* `ChatServerProofs`: see section 5.

**Page**

* `ChatClient`: one function per variable of `app.js`, indexed by tab.
  `chats[t][c]` has the fields of the local chat object that matter
  (`serverRevision`, `historyRevision`, `messages`, `lifecyclePending`);
  `generation[t]` is `activeGeneration` with the await it has reached; `load[t]`
  the login or load under way; `calls` and `post` the awaited requests. The code's
  identity comparisons become the epoch and presence in the store.
* `Conversation` composes the tabs of one user with `ChatStore` through a network
  that delivers requests in any order and loses requests and answers.
* `ConversationProofs`: see section 5.

**Inference**

* `ChatStream`: one answer between three parties. `handler` is the await that the
  proxy has reached, `aborted` its controller, `head`, `ended` and `closed` the
  response; `upstream` and `sent` the llama server's side of the call; `page`,
  `buffer`, `data` and `shown` the reader's side. An event is three pieces (the
  beginning of its line, the rest, the empty line), because those are the places
  where a cut makes a difference; chunks are runs of pieces. An error text that the
  proxy appends to a stream is a piece of its own.
* `AnswerPromise` is the abstract promise: chunks are given in order, and a verdict
  "complete" needs all of them. `ChatStream` implements it.
* `ChatStreamProofs`: see section 5.

**Monitoring**

* `AdminMonitor`: `poll` is the page's request and how far it got in the route,
  `current` is `generation === epoch`, `armed` the timer, `rows` the history;
  `cached`, `fresh` and `pending` the sampler's closure. Samples are numbered as they
  are completed; `granted` remembers the last one completed under a valid session.
* `AdminMonitorProofs`: see section 5.

**Process management**

* `LifecyclePolicy`: `policy` is the record of the engine's variables and each
  action is one branch of `dispatch`; `world` is the simulated process and
  `sample` the caller's last, possibly stale, look at it.
* `LifecyclePolicyProofs`: see section 5.
* `ProcessBroker`: for each service, `channel`, `awaited` and `reply` are the
  client's variables (`poisoned` is "revoked"), `pipe` the command in flight,
  `broker` the process and `child` what it manages. A child is "released" only when
  its exit, its streams and its port have all been seen, which is more than "dead".
  `Fails` is the way out of an exception through the destructor. Some exceptions need
  no failing call, and the model has them in every run: the broker's `identity()`
  throws when the child has just exited, `stop()` also when its end was established
  long ago, and the write of an answer when the supervisor is dead.
* `Supervisor` extends it: `pc[p]` is where `main()` of run `p` awaits something,
  `me` holds its locals, `lease` and `stopFile` are the two files. `Throw` is the
  way into the catch block. A member of `Runs` stands for one process after the
  other. `stopFile` remembers, for a property only, whose lease it was written under.
* `SupervisorProofs`: see section 5.

`MC*` modules hold the model values' symmetry and the tuples a `.cfg` cannot
write; `Supervisor`, `ChatStream` and `AdminMonitor` need neither and are checked as
they stand. Definitions called `Faulty...`, `Lazy...` and `Deaf...` are not part of any
specification: each is a plausible mistake in the definition after it, and putting
it in that one's place makes the named property fail.

## 3. Runs

| Run | Question | Bounds | States |
|---|---|---|---|
| `application_lifecycle` | Does the database outlive handlers and connections, is the exit code true, does every shutdown get reported, is `DrainThenClose` implemented? | 2 requests on 2 connections, every call may fail | 22 thousand |
| `chat_server` | Does any interleaving of waiting handlers with clears, deletions, resets and logouts write stale data, reach the rows of another, orphan rows or lock everybody out? | 2 users, 1 chat, 3 sessions, 2 waiting handlers, 2 passwords, revisions 0..2 | 2.5 million |
| `conversation` | Do two tabs over an unreliable network keep history, revision and generation consistent? | 2 tabs, 2 turns, 1 chat, revisions 0..2, `historyRevision` raised by the user at most once per chat, no session change | 1.3 million |
| `conversation_settles` | Does every generation end, also an obsolete one after a login or logout, and every locked chat get released? | 1 tab, 1 chat, 2 turns, revisions 0..1, 2 session changes | 1.4 million |
| `conversation_unverified` | Does a failed reconciliation keep sends blocked? (It does not: section 6.) | 2 tabs, 1 turn | violation |
| `lifecycle_policy` | Does the engine stay safe on stale observations? | startup 2, shutdown 1, window 4, backoff 1 and 2, 2 failures, 2 recovery launches, clock 0..6 | 0.5 million |
| `supervisor` | Is a child ever forgotten, doubled, left without the lease, or the backend stopped too early? | 1 run after another, 1 recovery launch, every call may fail | 1.8 million |
| `supervisor_liveness` | Does a signal end the run, and does a crash stop the children? | 1 run after another, 1 recovery launch, no failing calls | 235 thousand |
| `supervisor_stop` | Does only the owner consume a stop request? (No: section 6.) | 2 runs | violation |
| `supervisor_log` | Does the run remain owner in its catch block? (Not if its log fails: section 6.) | 1 run, log may fail | violation |
| `chat_stream` | Is an answer ever taken for complete that is not, somebody left waiting, or a generation left running? | answers of 3 events, cut and broken anywhere | 2.5 thousand |
| `admin_monitor` | Does polling double or stall, and does a page show what it has no right to? | 2 rows, 4 samples, pauses, visibility and other pages without bound | 6 thousand |

Why these bounds are enough to make the interesting cases happen:

* Shutdown: every property relates one request, or one connection, to the shared
  counter, or asks for "all but one"; two requests give a last one and another.
  Durations do not appear: an armed timer fires at any time. The code compares no
  durations, so this covers every choice of them.
* Server: two handlers, one of whose effects falls between the other's two steps;
  two accounts, so that an administrator can be deleted by another; three sessions,
  so that a user can have two while another has one; two raises of the revision,
  and the limit (`MAX_SAFE_INTEGER` in the code) is *reached*, since it is a
  parameter.
* Page: two tabs, one of which clears while the other generates; two turns, so
  that a second prompt carries the first as context; `MaxRevision` again reached.
  `MaxHistory` bounds only how often the *user* starts a clear or deletion of a
  chat; reconciliations are not bounded by it. `MaxEpoch` bounds logins and logouts:
  two, so that an answer to the first session can meet the second one's store.
* Supervisor: two services are what the code has. One recovery launch lets a service
  be replaced and then exhaust its budget; attempts that have left the window are
  forgotten at any time, so replacements go on for ever. Runs follow each other
  without bound. Two overlapping runs are needed only where one removes its files
  while the next begins: `supervisor_stop` has them; in `supervisor` a second
  process could do nothing while the lease is there.
* Stream: an event's three pieces are all the ways a cut can fall; three events
  before `[DONE]` give a first, a middle and a last one. The theorems hold for any
  number.
* Monitor: two rows make the history lose one when the third reading comes; four
  samples are two more. Everything else about a page is two-valued, and all other
  administrators together are `OtherPageAsks`.
* Policy: the clock goes past the recovery window and past both backoffs, and far
  enough for two launches inside one window and another after it.

`CHECK_DEADLOCK FALSE` is set everywhere because the systems may stop: a process
that has shut down, a server whose sessions are used up, a user who does nothing,
a clock at its bound, a lease that a dead supervisor has left behind.

What the properties say, run by run:

* `DatabaseIsTakenLast`: although sockets are severed under running handlers, and
  the close callback can come before they return, the database is taken only after
  the last of both. `NoLostWakeup` is the tracker's half of it. `ExitCodeTruthful`: 0
  exactly if the database was closed. `ProcessMayExit`: the code never forces an exit,
  so nothing may be left that keeps the process alive. `ShutdownIsReported`: also with
  handlers that never return. `KeepsPromise`: the refinement.
* `StoredAtCurrentRevision`, `HistoryGrowsOrIsCleared`: optimistic concurrency
  control by revision works, up to the largest revision. `WritesNeedALiveSession`: the session is checked again
  when the body has arrived. `NoSessionUnderOldPassword`, `NoOrphans`,
  `AnAdminRemains`: what transactions of several statements promise; for settings,
  what the foreign key does about a user who is deleted while the body is read.
  `EditsAreTheOwners`: the routes that do *not* look at the session again are
  harmless because their statements name the owner.
* `NothingClearedComesBack`: not even through an answer whose prompt was built
  from what another tab has cleared meanwhile. `LocalHistoryMatchesRevision`,
  `RevisionNeverGoesBack`: late answers of reconciliations and clears do no harm.
  `NoGenerationWhilePending`, `SendButtonComesBack`: an obsolete generation is always taken out by what made it obsolete.
  `GenerationEnds`, `LockedChatIsReleased`: progress.
* `NoLaunchOverALiveProcess`, `NoForgottenProcess`, `RecoveryBudgetHolds`,
  `DeliberateStopSuppresses`: the contract of the engine; `NeverAnIllegalTransition`:
  `dispatch` never throws half-way.
* `NothingLeftWithoutLease`, `OwnedIsKept`, `NeverReplacedAlive`: a timeout, an
  exception on either side or a crash leaves a child that may live; it stays
  owned, its lease stays, and nothing is launched over it. `BackendOutlivesApplication`
  holds on every path through the monitor and the catch block. `StopIsHonoured` and
  `CrashStopsChildren` are the two ways to an end; the first has an exception, which
  section 6 describes.
* `DeliversAnswer`: the refinement, against cuts before `[DONE]`, in the middle of a
  line and behind an appended error text. `HandlerLeavesNothingBehind`,
  `AbandonedRequestEnds`, `AnswerSettles`: no await of the proxy forgets the page or
  the model.
* `PollingIsSequential`, `RevokedPageStops`: `finally` is the only place that goes on
  after an abort, and it does so exactly once. `NothingNewAfterRevocation`,
  `StoppedShowsNothing`, `ReadingsInOrder`: what is in flight when rights end, the page
  closes or a poll is abandoned does no harm.

The type invariants are theorems of every specification that is run (section 5).

## 4. Fairness

* `ApplicationLifecycle`: Node delivers what is due: a timer that stays armed
  fires, a resolved promise's callback runs, a destroyed socket emits `close`, a
  drained server calls back. There is no fairness for handlers that should return
  or clients that should leave: `ShutdownIsReported` rests on the deadline alone.
* `Conversation`: every request a tab awaits settles and the callback then runs.
  A browser's `fetch` to a local server settles: by an answer or, if the
  connection breaks, by an error. The answer stream is bounded by the token limit
  it is sent with, and `/api/chat` closes when the upstream connection does. The
  user owes nothing: no fairness on clicks, dialogs, logins. Fairness is per tab
  and chat for calls and per message for posts, because the requests are
  independent of each other.
* `Supervisor`: a run whose process lives goes on, and so does a channel between two
  living processes: a command is served or its timer fires. A pipe to a dead
  process breaks. Nobody has to send a signal, and no child has to exit:
  `StopIsHonoured` assumes explicitly that a child told to stop does, and that a
  channel is only revoked because its broker failed: after a timeout the code waits for
  an operator. It makes one exception, for a broker that failed over a child that had
  exited on its own.
* `ChatStream`: what is due is delivered: a request and its body, what lies on the
  wire, the close of a dropped connection to its server, an abort to the awaits that
  were given its signal. The llama server owes nothing, so `AbandonedRequestEnds`
  rests on the abort alone. `AnswerSettles` cannot hold with a silent server (there
  is no timeout in the proxy): it assumes, in its own statement, that the upstream
  call gets on, fails or times out.
* `AdminMonitor`: an armed timer fires, and a request in flight ends, by its eight
  seconds if by nothing else. `RevokedPageStops` assumes in its own statement that
  requests and refusals get through again and again.
* `ChatServer` and `LifecyclePolicy` promise nothing live and are checked for
  safety without fairness.

## 5. Proofs

Checked by TLAPS for every value of the constants.

`ApplicationLifecycleProofs` assumes that the requests are finitely many, that
each comes on its own connection, and that the calls that may fail are among the
guarded ones. The safety properties are not inductive. `DatabaseIsTakenLast` needs
to know that "requests idle", once stored, stays true: nothing is counted after the
drain (`IdleIsFinal`); that a reported closure is final (`ClosureIsFinal`); that a
safe result was earned
(`SafetyIsEarned`) and that orchestrator, database and exit code tell one story
(`OutcomesAgree`). Their conjunction with the types, the exact counter and the
wake-up is `LifecycleInv`; `LifecycleInvariant` proves it with one lemma per
action. From it follow `TypesCorrect`, `DatabaseIsLast`, `TrackerIsExact`,
`ExitCodeIsTruthful`, `ExitIsFree` (that is `ProcessMayExit`), and
`LifecycleKeepsPromise`: every step of the chain is a step of `DrainThenClose` or leaves
it unchanged.

`ChatServerProofs` assumes that the first administrator is a user, and that the
marks for missing rows and unused sessions are not users. Its invariant joins the
types with `StoredAtCurrentRevision`, `NoOrphans`, `EditsAreTheOwners`,
`NoSessionUnderOldPassword` and `AnAdminRemains`. `NoOrphans` is needed for the fourth: the account that a
`CreateUser` gives a password to has no session yet. `AnAdminRemains` turns out to
need only that nobody deletes their own account: the caller is an administrator
and stays one, so the count of administrators in the code is a second line of
defence. `WritersAreLoggedIn` and `UnchangedRevisionLosesNothing` are the two action
properties.

`ChatStreamProofs` assumes only that the length of the answer is a natural number.
The refinement is not inductive: that the page is given the *next* chunk depends on
what lies on the wire, and that on what the proxy has forwarded. `PageLedger` keeps
the account: what the page has shown, holds pending and has buffered determines how
many pieces it has read; the wire carries on from there, up to what the llama server
has sent; an error text is the last piece of all. `HeadFirst` and `HandlerState` tie
this to the response and the call. `[DONE]` can therefore only be read after every
chunk, and an error text never completes a line that counts (`PendingAtEnd`).
`NothingLeftBehind` and the refinement `StreamDelivers` follow.

`AdminMonitorProofs` assumes at least one row, and natural bounds. `PollingIsSequential`
is inductive by itself. `StoppedIsEmpty` needs that whatever is in flight when the
page stops belongs to an old epoch (`StoppedInv`); `RevocationHolds` that a session
with its rights may see the whole cache, and that what it was served it was allowed
to see (`RightsInv`); `HistoryIsOrdered` that a served sample is never older than a
reading (`OrderInv`).

`LifecyclePolicyProofs` assumes what the constructor of the engine checks (positive
options, a non-empty list of positive backoffs) and a natural bound on the clock.
All five properties follow from one invariant. `Coherent` says of the engine's
variables alone which states go with an operation under way, with a handle and with a
launch whose handle is awaited; it makes every move legal, since an illegal one would
need, say, a handle in `stopped`. `WorldInv` relates them to the process: a sample
that counts and shows neither process nor listener is *still* true when it is used,
because a process that was seen to be gone stays gone until a launch, and a launch
strips the handle from every sample taken before. That is why `LaunchesAreSafe` and
`ProcessesAreKept` hold although the engine never sees the process itself. `BudgetInv`
and `DeliberateInv` tie the engine's own records to the history of launches and
requests. Helpers and actions have a lemma each; `Sound` names what they have in
common, and `Sampled` proves once that this is enough. Of the conditions in `evidence()`
the proof rests on the retained handle. The others (used once, not older than the last
effect, not too old, no process or listener without a handle) are further lines of
defence: TLC finds no violation when any single one of them is dropped, and finds both
properties violated without the handle's.

`ConversationProofs` assumes that a user is not one of the marks for missing chats,
that the messages are a prompt and an answer of every turn, and natural bounds on
revisions and sessions. Turns, tabs, chats and users may be any sets. Its invariant
has three layers, each proved with the help of the ones before, and each with one
lemma per action or kind of answer.

* `LockInv` is about who may touch a local chat. A callback is believed if its session
  is still current, its chat still shown and, for a reconciliation, `historyRevision`
  unchanged. `PendingInv` says that at most one awaited call per tab and chat passes that
  test, and that the chat is pending meanwhile. It needs to know that a chat being created
  is nobody else's subject yet (`CreateInv`, which needs `BirthInv`), and that a tab
  without a session has nothing under way (`SessionInv`). `ObsoleteGenerationsLeave` and
  `LockedChatsAreQuiet` are two of its conjuncts.
* `ContentInv` follows the messages. That no stored row is of a cleared revision is not
  inductive: the answer posted next was built from what the tab shows, that came from an
  answer to a load or a reconciliation, and that from the store. So each of these places
  holds only messages that were sent at the revision it names, and a generation is about
  the revision its chat *still* shows, because whoever replaces the copy takes the
  generation out. `ClearedStaysCleared` and `LocalHistoriesMatch` follow.
* `RevisionInv` compares revisions. `TabsGoForward` says that no tab goes back to an older
  one; the step that could do it replaces a copy by an answer. `AnswersAhead` says that
  an answer which will be believed is not behind the copy it replaces. That holds when
  the answer is given since no copy is ahead of the store (`CopiesBehind`), and it goes on
  holding since, by the first layer, nobody else replaces the copy meanwhile.

`SupervisorProofs` assumes that no run is called like one of the marks in the lease and
stop files, that the number of recovery launches is natural and that the two switches for
failures are Booleans. `NothingLeftWithoutLease` and `OwnedIsKept` speak of living
children; neither is inductive, since a START on its way to a broker may yet make one.
`SettledUnlessOwned` therefore asks more of every service outside `owned` (and of all
services, when the lease is free): no child that may live *and* no START in the pipe.
`EndsProve` is why the code may take a service out of `owned` at all: a channel is only
"closed" when the broker's exit code has shown that it quit, and a broker only quits
without a child. `OneOwner` says that one run at most is between taking the lease and
removing it, so that another run cannot disturb this, and `LaunchesNew` that the service
which is about to be launched is not owned, and no backend is launched under a living
application. `BackendOutlivesApplication` and `NeverReplacedAlive` are proved of each step
from the same invariant.

Each inductive invariant was model-checked before it was proved, those of
`Conversation` also with two chats and with session changes.

Only model-checked are the live properties (`ShutdownIsReported`, `GenerationEnds`,
`LockedChatIsReleased`, `AbandonedRequestEnds`, `AnswerSettles`, `RevokedPageStops`,
`StopIsHonoured`, `CrashStopsChildren`): liveness under fairness is out of the prover's
reach. Every invariant and action property of a passing run is a theorem. The properties of
the runs that expect a violation are false, and their runs show why (section 6).

## 6. Disagreements between the code and its own words

### A reconciliation that failed does not keep sends blocked

`conversation_unverified` checks the sentence of `test/frontend-revisions.test.js:44`,
"failed reconciliation keeps sends blocked", which `public/app.js:237` also tells the
user ("History could not be verified. Reload before sending."). It is violated:

1. While the answer is being generated the user opens the deletion dialog of the
   chat (`app.js:594`).
2. Another tab clears the chat; the save of the running generation is refused with
   409, and `reconcileConversation` discards the local history and locks the chat.
3. The user confirms the dialog. Nothing is checked again; `historyRevision` is
   raised, which makes the reconciliation's answer obsolete (`app.js:604`, `:210`).
4. The deletion fails, and line 637 sets `lifecyclePending = false` whoever set it.

The chat is now unlocked with an empty, unverified history. No data are damaged:
the stale revision is still refused by the server with 409, which is why
`NothingClearedComesBack` holds.

### A stop request may be consumed by a run that no longer owns the lease

`supervisor.cjs:54`: "Only the running owner consumes this request." A clean end
removes the lease and, in a later call, the request (line 144). In between the next
run may take the lease and `--stop`, which sees it, may write a request for that
run: the first run deletes it, and the second never learns of it. The window is
two file operations long; it closes if the request is removed before the lease.

### The run does not remain owner when the log of its catch block fails

`supervisor.cjs:136`: "Remain owner for manual cooperative stop." The line before is
a log without a guard. If it throws (and a failing log may well be what led there,
since the try block logs too), the loop is skipped: `main()` ends with brokers
owned and the lease in place, and nothing looks for a stop request any more. No
child is lost: the lease keeps other runs away, the open pipes keep the process
alive, and killing it makes the brokers stop their children.

### A run may stay although it was asked to stop, when a child has exited before

This is not checked as a violation, since no document denies it in so many words: it is
the exception in `StopIsHonoured`, without which `supervisor_liveness` fails. STATUS and
QUIT of a broker know that the child is done; `stop()` (`broker.cpp:206`) does not ask.
For such a child `releaseIfComplete()` returns false, because the handle is gone (line
118), and `identity()` throws (line 111), although `supervisor.cjs:96` accepts "exited"
as an answer to STOP. The broker ends with code 91, and its channel is revoked.

1. The llama server or the application exits during its startup. A STATUS says "exited",
   but `readiness.cjs:6` looks at the time first and throws `STARTUP_TIMEOUT`. Or START
   itself found the exit (line 192 ends in `status()`), and the start is cancelled at
   `readiness.cjs:4` before any STATUS.
2. The service is still in `owned`, so the catch block keeps the run and waits for a
   stop request, if there is none yet.
3. `stopOwned()` sends STOP, the broker fails, and every further round of the loop fails
   on the revoked channel. If the service was the application, the backend is never
   asked to stop.

The same can happen in a race, without an earlier "exited", when the child has exited
but its streams or its port are not free yet. No child is lost, and killing the run
stops what still lives. The certain case would be closed if `stop()` began with
`if(done)`, as `status()` does.

## 7. What is left out, and why

* Contents: texts, what a title says, attachments, the order of rows, markup, logging. No
  property here is about them.
* Password hashing, token generation and cookie syntax: tokens and ids are taken
  to be unique, as random ones are.
* `ChatClient`: rename, scroll positions, settings, rendering. A load or login that
  a newer epoch has overtaken returns at its next check; the model replaces it at
  once. `/api/ai/runtime` and the stream are one step with every outcome.
* `ChatServer`: the values of settings, the AI settings and status routes, and static
  files; `/api/chat` and telemetry have modules of their own. A crash of the process between two steps adds nothing that is modelled: every
  write is one transaction, and a handler's memory is lost as if its body never
  came.
* `ChatStream`: one answer at a time, since nothing is shared between two; what an
  event says, except that it can fail to parse or to render; keep-alive, so that a
  severed connection is one response's; a write to a slow page waits in memory, as in
  the code. A thrown event leaves the stream open and the model generating
  (`public/app.js:694`), which no document speaks of and no property forbids.
* `AdminMonitor`: what a sample says; the interval between polls, so that an armed
  timer fires at any time. A page restored from the back-forward cache reloads.
* `ShutdownCoordinator`: catch branches around collaborators that cannot throw here.
* `Supervisor`: the qualification gate and a failure to write the lease (nothing has
  been launched yet), `--status`, durations (every deadline may pass at any time).
  `ProcessBroker`: token and sequence number, which confirm what one outstanding
  command on an ordered pipe already gives; the broker's own lease file, which is a
  second defence behind the supervisor's; the child's output; console and port
  checks, which are system calls that may fail.
* AI settings: `POST /api/admin/ai/config` validates, writes a temporary file and
  renames it over the configuration in one synchronous run, so that nothing falls
  between; activation and restart are refused with a fixed answer.
* Database migration (one transaction before anything listens), configuration,
  path handling, Windows provenance parsing, the administrator's forms, operator
  scripts: sequential code without state over time.

## 8. Plan

Done, in the order of importance: the shutdown chain with its refinement; the store and
the routes; the page; the policy engine; the supervisor and its brokers; the answer
stream and the monitor; settings, titles and scroll positions on the server; and the
proofs of all of them, down to the inductive invariants of the page and the supervisor.

Next:

1. An abstract specification of a broker's channel (at most one outstanding command,
   no answer after revocation, at most one child) that `ProcessBroker` implements, and
   the proof, step by step.
2. An abstract specification of a chat (a log that is appended to or emptied,
   readers with a revision) that `ChatServer` and `Conversation` implement, and the proof,
   which `ContentInv` and `RevisionInv` prepare.
