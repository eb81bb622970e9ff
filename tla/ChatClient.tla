----------------------------- MODULE ChatClient -----------------------------
(***************************************************************************)
(* The pages of public/app.js: each tab keeps a local copy of the chats,   *)
(* at most one generation, at most one dialog, and the requests it awaits. *)
(*                                                                         *)
(* A callback runs to its next await as one step.  Objects that the code   *)
(* compares by identity are told apart by the session epoch and by         *)
(* presence in the local store: within an epoch a chat is added once.      *)
(***************************************************************************)
EXTENDS ChatStore

CONSTANTS
    Tabs,
    Turns,          \* what may be sent: one prompt and its answer
    MaxEpoch,       \* bound on logins and logouts of a tab
    MaxHistory      \* bound on historyRevision where the user may raise it

Roles == {"user", "assistant"}

ASSUME ClientAssumption ==
    /\ Messages = Turns \X Roles
    /\ MaxEpoch \in Nat

VARIABLES
    loginScreen,    \* loginScreen[t]: it is visible and blocks the page
    sessionEpoch,
    chats,          \* chats[t]: chatStore.chats, a map from ids to local copies
    dialog,         \* dialog[t]: the open confirmation; a new one replaces it
    generation,     \* generation[t]: activeGeneration
    load,           \* load[t]: the login or load that checkLogin awaits
    turn,           \* what each sent turn was built from
    post,           \* post[m]: the POST that saves message m
    calls           \* the other requests the tabs await

clientVars == <<loginScreen, sessionEpoch, chats, dialog, generation, load, turn, post, calls>>

\* `verified' is no field: the local history is what some answer of the server
\* said, plus what this tab added.
LocalChat ==
    [serverRevision : Revisions, historyRevision : Nat, messages : SUBSET Messages,
     lifecyclePending : BOOLEAN, verified : BOOLEAN]
Kinds == {"clear", "delete"}
Answer == [status : {"sent", "ok", "gone", "failed"},
           serverRevision : Revisions, messages : SUBSET Messages]
Call == [kind : Kinds \union {"reconcile", "create"}, tab : Tabs, chat : Chats,
         epoch : Nat, history : Nat, answer : Answer]

NoDialog == [kind |-> "none"]
Dialog == [kind : Kinds, chat : Chats, epoch : 0..MaxEpoch]
NoGeneration == [phase |-> "none"]
Generation == [phase : {"attaching", "saving-prompt", "answering", "saving-answer"},
               turn : Turns, epoch : 0..MaxEpoch, history : Nat, sameMessages : BOOLEAN]
NoLoad == [phase |-> "none"]
Found == [serverRevision : Revisions, messages : SUBSET Messages]
Sent == [chat : Chats, expectedRevision : Revisions, context : SUBSET Messages]

\* f maps some keys in S to values in T.
IsMap(f, S, T) == DOMAIN f \subseteq S /\ f \in [DOMAIN f -> T]

\* f with an entry for x.
Put(f, x, value) == [y \in DOMAIN f \union {x} |-> IF y = x THEN value ELSE f[y]]

ClientTypeOK ==
    /\ loginScreen \in [Tabs -> BOOLEAN]
    /\ sessionEpoch \in [Tabs -> 0..MaxEpoch]
    /\ DOMAIN chats = Tabs /\ \A t \in Tabs : IsMap(chats[t], Chats, LocalChat)
    /\ dialog \in [Tabs -> {NoDialog} \union Dialog]
    /\ generation \in [Tabs -> {NoGeneration} \union Generation]
    /\ \A t \in Tabs : generation[t] # NoGeneration => generation[t].turn \in DOMAIN turn
    /\ DOMAIN load = Tabs
    /\ \A t \in Tabs :
           /\ load[t].phase \in {"none", "login", "logout", "list", "histories"}
           /\ load[t].phase = "histories" =>
                  IsMap(load[t].found, Chats, Found) /\ load[t].missing \subseteq Chats
    /\ IsMap(turn, Turns, Sent)
    /\ post \in [Messages -> {"unsent", "sent", "stored", "conflict", "failed"}]
    /\ calls \subseteq Call

EmptyMap == <<>>

\* Two pages have just been opened; checkLogin is on its way.
ClientInit ==
    /\ loginScreen = [t \in Tabs |-> TRUE]
    /\ sessionEpoch = [t \in Tabs |-> 0]
    /\ chats = [t \in Tabs |-> EmptyMap]
    /\ dialog = [t \in Tabs |-> NoDialog]
    /\ generation = [t \in Tabs |-> NoGeneration]
    /\ load = [t \in Tabs |-> [phase |-> "list"]]
    /\ turn = EmptyMap
    /\ post = [m \in Messages |-> "unsent"]
    /\ calls = {}

Shows(t, c) == c \in DOMAIN chats[t]
Usable(t, c) == ~loginScreen[t] /\ Shows(t, c) /\ ~chats[t][c].lifecyclePending

Fetch(kind, t, c, epoch, captured) ==
    [kind |-> kind, tab |-> t, chat |-> c, epoch |-> epoch, history |-> captured,
     answer |-> [status |-> "sent", serverRevision |-> 0, messages |-> {}]]

\* `epoch === sessionEpoch' and `chatStore.chats[chatId] === target'.
StillThere(call) == call.epoch = sessionEpoch[call.tab] /\ Shows(call.tab, call.chat)

-----------------------------------------------------------------------------
(* Generations.                                                            *)

\* generationIsValid(activeGeneration)
GenerationIsValid(t) ==
    LET g == generation[t]
        c == turn[g.turn].chat
    IN  /\ g.epoch = sessionEpoch[t]
        /\ Shows(t, c)
        /\ chats[t][c].historyRevision = g.history
        /\ g.sameMessages

At(t, phase) == generation[t].phase = phase /\ GenerationIsValid(t)

GeneratesFor(t, c) ==
    generation[t].phase # "none" /\ turn[generation[t].turn].chat = c

\* generation' when the generation of chat c, if it is c's, is invalidated.
FaultyInvalidated(t, c) == generation

\* invalidateGeneration(c)
Invalidated(t, c) ==
    IF GeneratesFor(t, c) THEN [generation EXCEPT ![t] = NoGeneration] ELSE generation

\* generation' when the array of local messages of chat c is replaced.
MessagesReplaced(t, c) ==
    IF GeneratesFor(t, c) THEN [generation EXCEPT ![t].sameMessages = FALSE] ELSE generation

\* sendMessage down to its first await; the history to send is copied here.
SendMessage(t, c, n) ==
    /\ Usable(t, c)
    /\ generation[t].phase = "none"
    /\ n \notin DOMAIN turn
    /\ turn' = Put(turn, n, [chat |-> c, expectedRevision |-> chats[t][c].serverRevision,
                             context |-> chats[t][c].messages])
    /\ generation' = [generation EXCEPT ![t] =
           [phase |-> "attaching", turn |-> n, epoch |-> sessionEpoch[t],
            history |-> chats[t][c].historyRevision, sameMessages |-> TRUE]]
    /\ UNCHANGED <<loginScreen, sessionEpoch, chats, dialog, load, post, calls>>

\* Show a message at once and post it.
Push(t, role) ==
    LET n == generation[t].turn
        c == turn[n].chat
    IN  /\ chats' = [chats EXCEPT ![t][c].messages = @ \union {<<n, role>>}]
        /\ post' = [post EXCEPT ![<<n, role>>] = "sent"]

\* The attachment has been read.  Here and below, a generation that is no longer
\* valid makes the code return, which changes nothing.
AttachmentRead(t) ==
    /\ At(t, "attaching")
    /\ Push(t, "user")
    /\ generation' = [generation EXCEPT ![t].phase = "saving-prompt"]
    /\ UNCHANGED <<loginScreen, sessionEpoch, dialog, load, turn, calls>>

AttachmentUnreadable(t) ==
    /\ At(t, "attaching")
    /\ generation' = [generation EXCEPT ![t] = NoGeneration]
    /\ UNCHANGED <<loginScreen, sessionEpoch, chats, dialog, load, turn, post, calls>>

\* The local history is discarded until it has been verified.
Discarded(local) ==
    [local EXCEPT !.lifecyclePending = TRUE, !.historyRevision = @ + 1,
                  !.messages = {}, !.verified = FALSE]

\* reconcileConversation(c) down to its fetch.
\* `done' holds the call whose answer led here.
Reconcile(t, c, done) ==
    /\ chats' = [chats EXCEPT ![t][c] = Discarded(@)]
    /\ generation' = Invalidated(t, c)
    /\ calls' = (calls \ done) \union
           {Fetch("reconcile", t, c, sessionEpoch[t], chats[t][c].historyRevision + 1)}

Posted(t, role) == post[<<generation[t].turn, role>>]

\* A failed save of the prompt that is not caught.
FaultyPromptSaved(t) ==
    /\ At(t, "saving-prompt")
    /\ Posted(t, "user") = "stored"
    /\ generation' = [generation EXCEPT ![t].phase = "answering"]
    /\ UNCHANGED <<chats, calls, loginScreen, sessionEpoch, dialog, load, turn, post>>

\* A failed save of the prompt is only logged: the answer is generated anyway.
PromptSaved(t) ==
    /\ At(t, "saving-prompt")
    /\ \/ /\ Posted(t, "user") \in {"stored", "failed"}
          /\ generation' = [generation EXCEPT ![t].phase = "answering"]
          /\ UNCHANGED <<chats, calls>>
       \/ /\ Posted(t, "user") = "conflict"
          /\ Reconcile(t, turn[generation[t].turn].chat, {})
    /\ UNCHANGED <<loginScreen, sessionEpoch, dialog, load, turn, post>>

\* loadAiRuntime and the stream are over, completed, failed or stopped: there is
\* some text to keep or none.
AnswerEnds(t) ==
    /\ At(t, "answering")
    /\ \/ /\ Push(t, "assistant")
          /\ generation' = [generation EXCEPT ![t].phase = "saving-answer"]
       \/ /\ generation' = [generation EXCEPT ![t] = NoGeneration]
          /\ UNCHANGED <<chats, post>>
    /\ UNCHANGED <<loginScreen, sessionEpoch, dialog, load, turn, calls>>

AnswerSaved(t) ==
    /\ At(t, "saving-answer")
    /\ \/ /\ Posted(t, "assistant") \in {"stored", "failed"}
          /\ generation' = [generation EXCEPT ![t] = NoGeneration]
          /\ UNCHANGED <<chats, calls>>
       \/ /\ Posted(t, "assistant") = "conflict"
          /\ Reconcile(t, turn[generation[t].turn].chat, {})
    /\ UNCHANGED <<loginScreen, sessionEpoch, dialog, load, turn, post>>

-----------------------------------------------------------------------------
(* Creating, clearing and deleting a chat.                                 *)

\* c is the id that the server is going to draw.
NewChat(t, c) ==
    /\ ~loginScreen[t]
    /\ owner[c] = "unborn"
    /\ \A call \in calls : ~(call.kind = "create" /\ call.chat = c)
    /\ calls' = calls \union {Fetch("create", t, c, sessionEpoch[t], 0)}
    /\ UNCHANGED <<loginScreen, sessionEpoch, chats, dialog, generation, load, turn, post>>

\* The click checks the chat and opens a dialog ...
LifecycleClick(t, c, kind) ==
    /\ Usable(t, c)
    /\ chats[t][c].historyRevision < MaxHistory
    /\ dialog' = [dialog EXCEPT ![t] = [kind |-> kind, chat |-> c, epoch |-> sessionEpoch[t]]]
    /\ UNCHANGED <<loginScreen, sessionEpoch, chats, generation, load, turn, post, calls>>

\* A chat whose history is about to change.
Locked(local) == [local EXCEPT !.lifecyclePending = TRUE, !.historyRevision = @ + 1]

\* ... and the answer to the dialog acts without checking again: on the chat if
\* it is still shown, else on an object nobody sees, with the same request.
LifecycleConfirmed(t) ==
    LET d == dialog[t]
        here == d.epoch = sessionEpoch[t] /\ Shows(t, d.chat)
    IN  /\ d.kind \in Kinds
        /\ chats' = IF here
                    THEN [chats EXCEPT ![t][d.chat] = Locked(@)] ELSE chats
        /\ generation' = Invalidated(t, d.chat)
        /\ dialog' = [dialog EXCEPT ![t] = NoDialog]
        /\ calls' = calls \union
               {Fetch(d.kind, t, d.chat, d.epoch,
                      IF here THEN chats[t][d.chat].historyRevision + 1 ELSE 0)}
        /\ UNCHANGED <<loginScreen, sessionEpoch, load, turn, post>>

DialogDismissed(t) ==
    /\ dialog[t].kind # "none"
    /\ dialog' = [dialog EXCEPT ![t] = NoDialog]
    /\ UNCHANGED <<loginScreen, sessionEpoch, chats, generation, load, turn, post, calls>>

-----------------------------------------------------------------------------
(* Answers.                                                                *)

\* An answer that brings the revision but keeps the messages that were shown.
FaultyVerified(call, local) ==
    [local EXCEPT !.serverRevision = call.answer.serverRevision,
                  !.lifecyclePending = FALSE, !.verified = TRUE]

Verified(call, local) ==
    [local EXCEPT !.serverRevision = call.answer.serverRevision,
                  !.messages = call.answer.messages,
                  !.lifecyclePending = FALSE, !.verified = TRUE]

\* A reconciliation that only asks whether its chat is still shown.
FaultyIsCurrent(call) == StillThere(call)

\* `current()' of reconcileConversation; reconciliationId adds nothing to it,
\* because a reconciliation raises historyRevision too.
IsCurrent(call) ==
    StillThere(call) /\ chats[call.tab][call.chat].historyRevision = call.history

Hide(t, c) == [chats EXCEPT ![t] = [d \in DOMAIN @ \ {c} |-> @[d]]]

ReconcileAnswered(call) ==
    LET t == call.tab  c == call.chat IN
    /\ call.kind = "reconcile"
    /\ IF ~IsCurrent(call) \/ call.answer.status = "failed"
       THEN UNCHANGED <<chats, generation>>
       ELSE IF call.answer.status = "gone"
       THEN chats' = Hide(t, c) /\ UNCHANGED generation
       ELSE /\ chats' = [chats EXCEPT ![t][c] = Verified(call, @)]
            /\ generation' = MessagesReplaced(t, c)
    /\ calls' = calls \ {call}

ClearAnswered(call) ==
    LET t == call.tab  c == call.chat IN
    /\ call.kind = "clear"
    /\ IF ~StillThere(call)
       THEN UNCHANGED <<chats, generation>> /\ calls' = calls \ {call}
       ELSE IF call.answer.status = "ok"
       THEN /\ chats' = [chats EXCEPT ![t][c] = Verified(call, @)]
            /\ generation' = MessagesReplaced(t, c)
            /\ calls' = calls \ {call}
       ELSE Reconcile(t, c, {call})

\* A deletion that forgets to unlock the chat when it fails.
FaultyDeleteAnswered(call) ==
    /\ call.kind = "delete"
    /\ chats' = IF StillThere(call) /\ call.answer.status = "ok"
                THEN Hide(call.tab, call.chat) ELSE chats
    /\ calls' = calls \ {call}
    /\ UNCHANGED generation

DeleteAnswered(call) ==
    LET t == call.tab  c == call.chat IN
    /\ call.kind = "delete"
    /\ chats' = IF ~StillThere(call) THEN chats
                ELSE IF call.answer.status = "ok" THEN Hide(t, c)
                ELSE [chats EXCEPT ![t][c].lifecyclePending = FALSE]
    /\ calls' = calls \ {call}
    /\ UNCHANGED generation

CreateAnswered(call) ==
    LET t == call.tab IN
    /\ call.kind = "create"
    /\ chats' = IF call.epoch = sessionEpoch[t] /\ call.answer.status = "ok"
                THEN [chats EXCEPT ![t] = Put(@, call.chat,
                         [serverRevision |-> call.answer.serverRevision, historyRevision |-> 0,
                          messages |-> {}, lifecyclePending |-> FALSE, verified |-> TRUE])]
                ELSE chats
    /\ calls' = calls \ {call}
    /\ UNCHANGED generation

Answered(call) ==
    /\ call.answer.status # "sent"
    /\ \/ ReconcileAnswered(call)
       \/ ClearAnswered(call)
       \/ DeleteAnswered(call)
       \/ CreateAnswered(call)
    /\ UNCHANGED <<loginScreen, sessionEpoch, dialog, load, turn, post>>

-----------------------------------------------------------------------------
(* Sessions and loading.  A login or load that a newer epoch has overtaken *)
(* returns at its next check; here it is replaced at once.                 *)

\* replaceSession(), by a login or a logout.
ReplaceSession(t, next) ==
    /\ sessionEpoch[t] < MaxEpoch
    /\ sessionEpoch' = [sessionEpoch EXCEPT ![t] = @ + 1]
    /\ generation' = [generation EXCEPT ![t] = NoGeneration]
    /\ load' = [load EXCEPT ![t] = next]
    /\ loginScreen' = [loginScreen EXCEPT ![t] = TRUE]
    /\ UNCHANGED <<chats, dialog, turn, post, calls>>

LoginSubmitted(t) == loginScreen[t] /\ ReplaceSession(t, [phase |-> "login"])
LogoutClicked(t) == ~loginScreen[t] /\ ReplaceSession(t, [phase |-> "logout"])

\* Either way the local store is emptied; a login goes on with checkLogin.
SessionAnswered(t) ==
    /\ load[t].phase \in {"login", "logout"}
    /\ chats' = [chats EXCEPT ![t] = EmptyMap]
    /\ load' = [load EXCEPT ![t] =
           [phase |-> IF load[t].phase = "login" THEN "list" ELSE "none"]]
    /\ UNCHANGED <<loginScreen, sessionEpoch, dialog, generation, turn, post, calls>>

\* Anything on the way fails: the login screen stays, and so does the store.
LoadFails(t) ==
    /\ load[t].phase # "none"
    /\ load' = [load EXCEPT ![t] = NoLoad]
    /\ UNCHANGED <<loginScreen, sessionEpoch, chats, dialog, generation, turn, post, calls>>

\* fetchServerChats
ListLoaded(t) ==
    /\ load[t].phase = "list"
    /\ load' = [load EXCEPT ![t] =
           [phase |-> "histories", found |-> EmptyMap,
            missing |-> {c \in Chats : owner[c] \in Users}]]
    /\ UNCHANGED <<loginScreen, sessionEpoch, chats, dialog, generation, turn, post, calls>>

\* One history of prepareServerChatStore; a chat deleted since it was listed
\* answers 404 and fails the whole load.
HistoryLoaded(t) ==
    /\ load[t].phase = "histories"
    /\ \E c \in load[t].missing :
           /\ owner[c] \in Users
           /\ load' = [load EXCEPT ![t].missing = @ \ {c},
                                   ![t].found = Put(@, c, Snapshot(c))]
    /\ UNCHANGED <<loginScreen, sessionEpoch, chats, dialog, generation, turn, post, calls>>

StoreInstalled(t) ==
    /\ load[t].phase = "histories"
    /\ load[t].missing = {}
    /\ chats' = [chats EXCEPT ![t] =
           [c \in DOMAIN load[t].found |->
               [serverRevision |-> load[t].found[c].serverRevision, historyRevision |-> 0,
                messages |-> load[t].found[c].messages,
                lifecyclePending |-> FALSE, verified |-> TRUE]]]
    /\ loginScreen' = [loginScreen EXCEPT ![t] = FALSE]
    /\ load' = [load EXCEPT ![t] = NoLoad]
    /\ UNCHANGED <<sessionEpoch, dialog, generation, turn, post, calls>>
=============================================================================
