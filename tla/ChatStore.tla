----------------------------- MODULE ChatStore -----------------------------
(***************************************************************************)
(* The chats and messages tables, as db.js reads and writes them.          *)
(*                                                                         *)
(* Every chat carries a revision that only clearing changes; a writer has  *)
(* to name the revision it has seen.  Each function of db.js is one SQLite *)
(* statement or one write transaction, hence one step.  The order of the   *)
(* rows of a chat is left out; titles, scroll positions and settings are   *)
(* in ChatServer.                                                          *)
(***************************************************************************)
EXTENDS Naturals, FiniteSets

CONSTANTS
    Chats,          \* chat ids: random, never used twice
    Users,
    Messages,       \* what a row of messages can hold
    MaxRevision     \* Number.MAX_SAFE_INTEGER

ASSUME MaxRevisionAssumption == MaxRevision \in Nat
ASSUME UsersAssumption == Users \intersect {"unborn", "gone"} = {}

VARIABLES
    owner,      \* owner[c]: chats.user_id, or why there is no such row
    revision,   \* revision[c]: chats.revision
    history     \* history[c]: the rows of messages, each with the
                \* expectedRevision its writer named (not a column: history)

storeVars == <<owner, revision, history>>

NoRow == {"unborn", "gone"}
Revisions == 0..MaxRevision
Rows == [message : Messages, at : Revisions]

StoreTypeOK ==
    /\ owner \in [Chats -> Users \union NoRow]
    /\ revision \in [Chats -> Revisions]
    /\ history \in [Chats -> SUBSET Rows]

StoreInit ==
    /\ owner = [c \in Chats |-> "unborn"]
    /\ revision = [c \in Chats |-> 0]
    /\ history = [c \in Chats |-> {}]

CreateChat(c, u) ==
    /\ owner[c] = "unborn"
    /\ owner' = [owner EXCEPT ![c] = u]
    /\ UNCHANGED <<revision, history>>

Insert(c, m, expected) ==
    history' = [history EXCEPT ![c] = @ \union {[message |-> m, at |-> expected]}]

\* A write that does not compare revisions.
FaultyCreateMessage(c, u, m, expected) ==
    /\ owner[c] = u
    /\ Insert(c, m, expected)
    /\ UNCHANGED <<owner, revision>>

\* createMessage when it does not throw.
CreateMessage(c, u, m, expected) ==
    /\ owner[c] = u
    /\ revision[c] = expected
    /\ Insert(c, m, expected)
    /\ UNCHANGED <<owner, revision>>

\* A clear that leaves the revision alone.
FaultyClearChatMessages(c, u) ==
    /\ owner[c] = u
    /\ revision[c] < MaxRevision
    /\ history' = [history EXCEPT ![c] = {}]
    /\ UNCHANGED <<owner, revision>>

ClearChatMessages(c, u) ==
    /\ owner[c] = u
    /\ revision[c] < MaxRevision
    /\ history' = [history EXCEPT ![c] = {}]
    /\ revision' = [revision EXCEPT ![c] = @ + 1]
    /\ UNCHANGED owner

\* The rows of messages go with the chat: ON DELETE CASCADE.
DeleteChat(c, u) ==
    /\ owner[c] = u
    /\ owner' = [owner EXCEPT ![c] = "gone"]
    /\ history' = [history EXCEPT ![c] = {}]
    /\ UNCHANGED revision

\* getChatHistorySnapshot: one statement gives revision and messages together.
Snapshot(c) ==
    [serverRevision |-> revision[c], messages |-> {row.message : row \in history[c]}]
=============================================================================
