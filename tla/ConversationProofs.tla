-------------------------- MODULE ConversationProofs --------------------------
(***************************************************************************)
(* Theorems about Conversation, for any tabs, chats, turns and sessions:   *)
(* the types, that a locked chat is generated for by nobody and the send   *)
(* button comes back, that nothing cleared comes back, and that no tab is  *)
(* taken back to an older revision.                                        *)
(*                                                                         *)
(* The proof has three layers, each an invariant relative to the one       *)
(* before.  LockInv is about who may touch a local chat: at most one       *)
(* request at a time can still change it (Active), and while there is one  *)
(* the chat is pending.  ContentInv is about what a local or a stored      *)
(* history holds: messages of the revision it stands for.  RevisionInv is  *)
(* about the order of revisions: a copy is never ahead of the store, and   *)
(* an answer that still counts is never behind the copy it will replace.   *)
(***************************************************************************)
EXTENDS Conversation, TLAPS

USE MaxRevisionAssumption, UsersAssumption, ClientAssumption

-----------------------------------------------------------------------------
(* The first layer.                                                        *)

\* A request of the session its tab is in.
OfSession(call) == call.epoch = sessionEpoch[call.tab]

\* A request whose answer may still change the local chat.
Active(call) ==
    \/ call.kind \in Kinds /\ StillThere(call)
    \/ call.kind = "reconcile" /\ IsCurrent(call)

\* A confirmation of the session its tab is in.
Asks(t, c) ==
    dialog[t].kind \in Kinds /\ dialog[t].epoch = sessionEpoch[t] /\ dialog[t].chat = c

\* A tab that logs in, out or loads does nothing else, and no request of the session
\* it is about to begin exists yet.
SessionInv ==
    /\ \A t \in Tabs :
        /\ load[t].phase # "none" => loginScreen[t]
        /\ loginScreen[t] => generation[t] = NoGeneration
        /\ dialog[t].kind \in Kinds =>
            /\ dialog[t].epoch <= sessionEpoch[t]
            /\ dialog[t].epoch = sessionEpoch[t] => load[t].phase = "none"
    /\ \A call \in calls :
        /\ call.epoch <= sessionEpoch[call.tab]
        /\ OfSession(call) => load[call.tab].phase = "none"

\* Whatever names a chat, except a request to create it, names one that exists or
\* has existed.
BirthInv ==
    /\ \A t \in Tabs :
        /\ \A c \in DOMAIN chats[t] : owner[c] # "unborn"
        /\ dialog[t].kind \in Kinds => owner[dialog[t].chat] # "unborn"
        /\ load[t].phase = "histories" => \A c \in DOMAIN load[t].found : owner[c] # "unborn"
    /\ \A call \in calls :
        call.kind # "create" \/ call.answer.status = "ok" => owner[call.chat] # "unborn"

\* A chat that is being created is known to nobody else in its tab.
CreateInv ==
    /\ \A call, other \in calls :
        call.kind = "create" /\ other.kind = "create" /\ call.chat = other.chat => call = other
    /\ \A call \in calls :
        call.kind = "create" /\ OfSession(call) =>
            /\ ~Shows(call.tab, call.chat)
            /\ ~Asks(call.tab, call.chat)
            /\ \A other \in calls :
                other.tab = call.tab /\ other.chat = call.chat /\ OfSession(other) =>
                    other.kind = "create"

\* One request at a time may change a local chat, which is pending meanwhile.
PendingInv ==
    /\ \A call \in calls :
        /\ Active(call) => chats[call.tab][call.chat].lifecyclePending
        /\ call.kind = "reconcile" /\ StillThere(call) =>
            call.history <= chats[call.tab][call.chat].historyRevision
        /\ call.kind \in Kinds /\ OfSession(call) => ~Asks(call.tab, call.chat)
    /\ \A call, other \in calls :
        Active(call) /\ Active(other) /\ call.tab = other.tab /\ call.chat = other.chat =>
            call = other

LockInv ==
    /\ TypeOK
    /\ SessionInv
    /\ BirthInv
    /\ CreateInv
    /\ PendingInv
    /\ SendButtonComesBack
    /\ NoGenerationWhilePending

-----------------------------------------------------------------------------
(* The second layer.                                                       *)

\* Message m was sent to chat c at revision r.
SentAt(m, c, r) ==
    m[1] \in DOMAIN turn /\ turn[m[1]].chat = c /\ turn[m[1]].expectedRevision = r

\* What is posted has been sent.
PostsSent == \A m \in Messages : post[m] # "unsent" => m[1] \in DOMAIN turn

\* Stored rows, and what a prompt was built from, are of one revision of one chat.
RowsSent == \A c \in Chats : \A row \in history[c] : SentAt(row.message, c, revision[c])
ContextsSent ==
    \A n \in DOMAIN turn : \A m \in turn[n].context :
        SentAt(m, turn[n].chat, turn[n].expectedRevision)

\* So are the messages that a tab shows, is loading, or is being sent.
LocalSent ==
    \A t \in Tabs : \A c \in DOMAIN chats[t] : \A m \in chats[t][c].messages :
        SentAt(m, c, chats[t][c].serverRevision)
FoundSent ==
    \A t \in Tabs : load[t].phase = "histories" =>
        \A c \in DOMAIN load[t].found : \A m \in load[t].found[c].messages :
            SentAt(m, c, load[t].found[c].serverRevision)
AnswersSent ==
    \A call \in calls : \A m \in call.answer.messages :
        SentAt(m, call.chat, call.answer.serverRevision)

\* A generation is about the revision that its chat still shows.
GenerationSent ==
    \A t \in Tabs : generation[t] # NoGeneration =>
        turn[generation[t].turn].expectedRevision =
            chats[t][turn[generation[t].turn].chat].serverRevision

ContentInv ==
    /\ PostsSent
    /\ RowsSent
    /\ ContextsSent
    /\ LocalSent
    /\ FoundSent
    /\ AnswersSent
    /\ GenerationSent

-----------------------------------------------------------------------------
(* The third layer.                                                        *)

\* No copy, loaded history or answer is ahead of the store.
CopiesBehind ==
    \A t \in Tabs : \A c \in DOMAIN chats[t] : chats[t][c].serverRevision <= revision[c]
FoundBehind ==
    \A t \in Tabs : load[t].phase = "histories" =>
        \A c \in DOMAIN load[t].found : load[t].found[c].serverRevision <= revision[c]
AnswersBehind == \A call \in calls : call.answer.serverRevision <= revision[call.chat]

\* A tab that loads its chats shows none.
NothingShownYet == \A t \in Tabs : load[t].phase \in {"list", "histories"} => DOMAIN chats[t] = {}

\* An answer that will be believed is not behind the copy it replaces.
AnswersAhead ==
    \A call \in calls : Active(call) /\ call.answer.status = "ok" =>
        call.answer.serverRevision >= chats[call.tab][call.chat].serverRevision

RevisionInv ==
    /\ CopiesBehind
    /\ FoundBehind
    /\ AnswersBehind
    /\ NothingShownYet
    /\ AnswersAhead

-----------------------------------------------------------------------------
(* Types.                                                                  *)

\* A map with one more, or one changed, entry.
LEMMA PutIsMap ==
    ASSUME NEW S, NEW T, NEW f, IsMap(f, S, T), NEW x \in S, NEW value \in T
    PROVE  /\ IsMap(Put(f, x, value), S, T)
           /\ DOMAIN Put(f, x, value) = DOMAIN f \union {x}
           /\ \A y \in DOMAIN f \union {x} : Put(f, x, value)[y] = IF y = x THEN value ELSE f[y]
  BY DEF IsMap, Put

\* The local copies after one of them has changed.
LEMMA ChatUpdated ==
    ASSUME TypeOK, NEW t \in Tabs, NEW c, Shows(t, c), NEW new \in LocalChat,
           chats' = [chats EXCEPT ![t][c] = new]
    PROVE  /\ DOMAIN chats' = Tabs
           /\ \A u \in Tabs : IsMap(chats'[u], Chats, LocalChat)
           /\ \A u \in Tabs : DOMAIN chats'[u] = DOMAIN chats[u]
           /\ \A u \in Tabs : \A d \in DOMAIN chats[u] :
                chats'[u][d] = IF u = t /\ d = c THEN new ELSE chats[u][d]
  BY DEF TypeOK, ClientTypeOK, IsMap, Shows

\* The forms that a local copy is given.
LEMMA LocalForms ==
    ASSUME NEW e \in LocalChat
    PROVE  /\ Discarded(e) \in LocalChat
           /\ Discarded(e).serverRevision = e.serverRevision
           /\ Discarded(e).historyRevision = e.historyRevision + 1
           /\ Discarded(e).messages = {} /\ Discarded(e).lifecyclePending
           /\ Locked(e) \in LocalChat
           /\ Locked(e).serverRevision = e.serverRevision
           /\ Locked(e).historyRevision = e.historyRevision + 1
           /\ Locked(e).messages = e.messages /\ Locked(e).lifecyclePending
           /\ e.historyRevision \in Nat /\ e.historyRevision + 1 \in Nat
<1>1. e.historyRevision \in Nat /\ e.historyRevision + 1 \in Nat
  BY DEF LocalChat
<1>2. Discarded(e) \in LocalChat
  BY <1>1 DEF LocalChat, Discarded
<1>3. /\ Discarded(e).serverRevision = e.serverRevision
      /\ Discarded(e).historyRevision = e.historyRevision + 1
      /\ Discarded(e).messages = {}
  BY DEF LocalChat, Discarded
<1>4. Discarded(e).lifecyclePending /\ Locked(e).lifecyclePending
  BY DEF LocalChat, Discarded, Locked
<1>5. Locked(e) \in LocalChat
  BY <1>1 DEF LocalChat, Locked
<1>6. /\ Locked(e).serverRevision = e.serverRevision
      /\ Locked(e).historyRevision = e.historyRevision + 1
      /\ Locked(e).messages = e.messages
  BY DEF LocalChat, Locked
<1> QED
  BY <1>1, <1>2, <1>3, <1>4, <1>5, <1>6

\* A local copy with one more message.
LEMMA PushedForm ==
    ASSUME NEW e \in LocalChat, NEW m \in Messages
    PROVE  LET new == [e EXCEPT !.messages = @ \union {m}]
           IN  /\ new \in LocalChat
               /\ new.serverRevision = e.serverRevision
               /\ new.historyRevision = e.historyRevision
               /\ new.messages = e.messages \union {m}
               /\ new.lifecyclePending = e.lifecyclePending
  BY DEF LocalChat

\* What a chat that is shown, and a generation, look like.
LEMMA ShownTyped ==
    ASSUME TypeOK, NEW t \in Tabs, NEW c, Shows(t, c)
    PROVE  c \in Chats /\ chats[t][c] \in LocalChat
  BY DEF TypeOK, ClientTypeOK, IsMap, Shows

LEMMA GenerationTyped ==
    ASSUME TypeOK, NEW t \in Tabs
    PROVE  /\ generation[t].phase # "none" <=> generation[t] # NoGeneration
           /\ generation[t] # NoGeneration =>
                /\ generation[t] \in Generation
                /\ generation[t].turn \in DOMAIN turn
                /\ turn[generation[t].turn] \in Sent
  BY DEF TypeOK, ClientTypeOK, NoGeneration, Generation, IsMap

\* generation' when one generation is given up, or loses its array of messages.
LEMMA GenerationTypeKept ==
    ASSUME TypeOK, NEW t \in Tabs, NEW new,
           \/ new = NoGeneration
           \/ new \in Generation /\ new.turn \in DOMAIN turn,
           \/ generation' = generation
           \/ generation' = [generation EXCEPT ![t] = new],
           UNCHANGED turn
    PROVE  /\ generation' \in [Tabs -> {NoGeneration} \union Generation]
           /\ \A u \in Tabs : generation'[u] # NoGeneration => generation'[u].turn \in DOMAIN turn'
  BY DEF TypeOK, ClientTypeOK

LEMMA StoreTypesKept ==
    ASSUME StoreTypeOK, UNCHANGED storeVars
    PROVE  StoreTypeOK'
  BY DEF StoreTypeOK, storeVars

\* A call that has not been sent yet.
LEMMA FetchTyped ==
    ASSUME NEW kind \in Kinds \union {"reconcile", "create"}, NEW t \in Tabs, NEW c \in Chats,
           NEW epoch \in Nat, NEW captured \in Nat
    PROVE  Fetch(kind, t, c, epoch, captured) \in Call
  BY DEF Fetch, Call, Answer, Revisions

LEMMA ReconcileTypes ==
    ASSUME TypeOK, NEW t \in Tabs, NEW c, Shows(t, c), NEW done, Reconcile(t, c, done),
           UNCHANGED <<loginScreen, sessionEpoch, dialog, load, turn, post, storeVars>>
    PROVE  TypeOK'
<1> DEFINE fresh == Fetch("reconcile", t, c, sessionEpoch[t], chats[t][c].historyRevision + 1)
<1>1. chats[t][c] \in LocalChat /\ c \in Chats
  BY ShownTyped
<1>2. Discarded(chats[t][c]) \in LocalChat /\ chats[t][c].historyRevision + 1 \in Nat
  BY <1>1, LocalForms
<1>3. chats' = [chats EXCEPT ![t][c] = Discarded(chats[t][c])] /\ calls' = (calls \ done) \union {fresh}
  BY DEF Reconcile
<1>4. DOMAIN chats' = Tabs /\ \A u \in Tabs : IsMap(chats'[u], Chats, LocalChat)
  BY <1>2, <1>3, ChatUpdated
<1>5. generation' = generation \/ generation' = [generation EXCEPT ![t] = NoGeneration]
  BY DEF Reconcile, Invalidated
<1>6. sessionEpoch[t] \in Nat /\ calls \subseteq Call
  BY DEF TypeOK, ClientTypeOK
<1>7. calls' \subseteq Call
  <2>1. fresh \in Call
    BY <1>1, <1>2, <1>6, FetchTyped
  <2> HIDE DEF fresh
  <2> QED
    BY <1>3, <1>6, <2>1
<1>8. /\ generation' \in [Tabs -> {NoGeneration} \union Generation]
      /\ \A u \in Tabs : generation'[u] # NoGeneration => generation'[u].turn \in DOMAIN turn'
  BY <1>5, GenerationTypeKept
<1> QED
  BY <1>4, <1>7, <1>8, StoreTypesKept DEF TypeOK, ClientTypeOK

LEMMA UserTypes ==
    ASSUME TypeOK, NEW t \in Tabs, UserActs(t)
    PROVE  TypeOK'
<1> USE StoreTypesKept DEF UserActs
<1>1. ASSUME NEW c \in Chats, NEW n \in Turns, SendMessage(t, c, n)
      PROVE  TypeOK'
  <2> DEFINE sent == [chat |-> c, expectedRevision |-> chats[t][c].serverRevision,
                      context |-> chats[t][c].messages]
             new == [phase |-> "attaching", turn |-> n, epoch |-> sessionEpoch[t],
                     history |-> chats[t][c].historyRevision, sameMessages |-> TRUE]
  <2>1. chats[t][c] \in LocalChat
    BY <1>1, ShownTyped DEF SendMessage, Usable
  <2>2. sent \in Sent
    BY <2>1 DEF LocalChat, Sent
  <2>3. new \in Generation
    BY <2>1 DEF LocalChat, Generation, TypeOK, ClientTypeOK
  <2>4. turn' = Put(turn, n, sent) /\ generation' = [generation EXCEPT ![t] = new] /\ new.turn = n
    BY <1>1 DEF SendMessage
  <2> HIDE DEF sent, new
  <2>5. IsMap(turn', Turns, Sent) /\ DOMAIN turn' = DOMAIN turn \union {n}
    <3>1. IsMap(turn, Turns, Sent)
      BY DEF TypeOK, ClientTypeOK
    <3> QED
      BY <2>2, <2>4, <3>1 DEF IsMap, Put
  <2>6. /\ generation' \in [Tabs -> {NoGeneration} \union Generation]
        /\ \A u \in Tabs : generation'[u] # NoGeneration => generation'[u].turn \in DOMAIN turn'
    BY <2>3, <2>4, <2>5 DEF TypeOK, ClientTypeOK
  <2> QED
    BY <1>1, <2>5, <2>6 DEF SendMessage, TypeOK, ClientTypeOK
<1>2. ASSUME NEW c \in Chats, NewChat(t, c)
      PROVE  TypeOK'
  <2>1. Fetch("create", t, c, sessionEpoch[t], 0) \in Call
    <3>1. sessionEpoch[t] \in Nat /\ 0 \in Nat
      BY DEF TypeOK, ClientTypeOK
    <3> QED
      BY <3>1, FetchTyped
  <2> QED
    BY <1>2, <2>1 DEF NewChat, TypeOK, ClientTypeOK
<1>3. ASSUME NEW c \in Chats, NEW kind \in Kinds, LifecycleClick(t, c, kind)
      PROVE  TypeOK'
  BY <1>3 DEF LifecycleClick, TypeOK, ClientTypeOK, Dialog
<1>4. CASE LifecycleConfirmed(t)
  <2> DEFINE d == dialog[t]
             here == d.epoch = sessionEpoch[t] /\ Shows(t, d.chat)
             captured == IF here THEN chats[t][d.chat].historyRevision + 1 ELSE 0
             fresh == Fetch(d.kind, t, d.chat, d.epoch, captured)
  <2>1. d \in Dialog
    BY <1>4 DEF LifecycleConfirmed, TypeOK, ClientTypeOK, NoDialog, Kinds
  <2>2. here => chats[t][d.chat] \in LocalChat
    BY ShownTyped
  <2>3. chats' = IF here THEN [chats EXCEPT ![t][d.chat] = Locked(chats[t][d.chat])] ELSE chats
    BY <1>4 DEF LifecycleConfirmed
  <2>4. calls' = calls \union {fresh}
    BY <1>4 DEF LifecycleConfirmed
  <2>5. /\ generation' = generation \/ generation' = [generation EXCEPT ![t] = NoGeneration]
        /\ dialog' = [dialog EXCEPT ![t] = NoDialog]
        /\ UNCHANGED <<loginScreen, sessionEpoch, load, turn, post>>
    BY <1>4 DEF LifecycleConfirmed, Invalidated
  <2>6. d.kind \in Kinds /\ d.chat \in Chats /\ d.epoch \in Nat
    BY <2>1 DEF Dialog
  <2>7. DOMAIN chats' = Tabs /\ \A u \in Tabs : IsMap(chats'[u], Chats, LocalChat)
    <3>1. CASE here
      BY <2>2, <2>3, <3>1, ChatUpdated, LocalForms
    <3>2. CASE ~here
      BY <2>3, <3>2 DEF TypeOK, ClientTypeOK
    <3> QED
      BY <3>1, <3>2
  <2>8. calls' \subseteq Call
    <3>1. captured \in Nat
      BY <2>2, LocalForms
    <3> HIDE DEF captured, d
    <3>2. fresh \in Call
      BY <2>6, <3>1, FetchTyped
    <3> HIDE DEF fresh
    <3> QED
      BY <2>4, <3>2 DEF TypeOK, ClientTypeOK
  <2>9. /\ generation' \in [Tabs -> {NoGeneration} \union Generation]
        /\ \A u \in Tabs : generation'[u] # NoGeneration => generation'[u].turn \in DOMAIN turn'
    BY <2>5, GenerationTypeKept
  <2> QED
    BY <2>5, <2>7, <2>8, <2>9 DEF TypeOK, ClientTypeOK
<1>5. CASE DialogDismissed(t)
  BY <1>5 DEF DialogDismissed, TypeOK, ClientTypeOK
<1>6. ASSUME NEW next \in [phase : {"login", "logout"}], ReplaceSession(t, next)
      PROVE  TypeOK'
  BY <1>6 DEF ReplaceSession, TypeOK, ClientTypeOK
<1> QED
  BY <1>1, <1>2, <1>3, <1>4, <1>5, <1>6 DEF LoginSubmitted, LogoutClicked

LEMMA PushTypes ==
    ASSUME TypeOK, NEW t \in Tabs, generation[t] # NoGeneration, GenerationIsValid(t),
           NEW role \in Roles, Push(t, role)
    PROVE  /\ DOMAIN chats' = Tabs /\ \A u \in Tabs : IsMap(chats'[u], Chats, LocalChat)
           /\ post' \in [Messages -> {"unsent", "sent", "stored", "conflict", "failed"}]
<1> DEFINE n == generation[t].turn
           c == turn[n].chat
           m == <<n, role>>
           new == [chats[t][c] EXCEPT !.messages = @ \union {m}]
<1>1. Shows(t, c) /\ chats[t][c] \in LocalChat /\ n \in Turns
  BY ShownTyped, GenerationTyped DEF GenerationIsValid, Generation
<1>2. m \in Messages
  BY <1>1
<1>3. new \in LocalChat
  BY <1>1, <1>2, PushedForm
<1>4. chats' = [chats EXCEPT ![t][c] = new] /\ post' = [post EXCEPT ![m] = "sent"]
  BY DEF Push
<1> HIDE DEF n, c, m, new
<1> QED
  BY <1>1, <1>2, <1>3, <1>4, ChatUpdated DEF TypeOK, ClientTypeOK

LEMMA GenerationTypes ==
    ASSUME TypeOK, NEW t \in Tabs, GenerationMoves(t)
    PROVE  TypeOK'
<1> USE StoreTypesKept DEF GenerationMoves
<1>1. /\ generation[t] \in Generation /\ generation[t].turn \in DOMAIN turn
      /\ generation[t] # NoGeneration /\ GenerationIsValid(t)
      /\ Shows(t, turn[generation[t].turn].chat)
  BY GenerationTyped DEF AttachmentRead, AttachmentUnreadable, PromptSaved, AnswerEnds, AnswerSaved, At,
     GenerationIsValid
<1>2. \A phase \in {"saving-prompt", "answering", "saving-answer"} :
        LET new == [generation[t] EXCEPT !.phase = phase]
        IN  new \in Generation /\ new.turn \in DOMAIN turn
  BY <1>1 DEF Generation
<1>3. ASSUME NEW new, UNCHANGED turn,
             \/ new = NoGeneration
             \/ \E phase \in {"saving-prompt", "answering", "saving-answer"} :
                    new = [generation[t] EXCEPT !.phase = phase],
             generation' = [generation EXCEPT ![t] = new]
      PROVE  /\ generation' \in [Tabs -> {NoGeneration} \union Generation]
             /\ \A u \in Tabs :
                    generation'[u] # NoGeneration => generation'[u].turn \in DOMAIN turn'
  BY <1>2, <1>3, GenerationTypeKept
<1>4. CASE AttachmentRead(t)
  <2>1. Push(t, "user")
    BY <1>4 DEF AttachmentRead
  <2>2. "user" \in Roles
    BY DEF Roles
  <2>3. /\ DOMAIN chats' = Tabs /\ \A u \in Tabs : IsMap(chats'[u], Chats, LocalChat)
        /\ post' \in [Messages -> {"unsent", "sent", "stored", "conflict", "failed"}]
    BY <1>1, <2>1, <2>2, PushTypes
  <2>4. generation' = [generation EXCEPT ![t] = [generation[t] EXCEPT !.phase = "saving-prompt"]]
    BY <1>4 DEF AttachmentRead
  <2> QED
    BY <1>3, <1>4, <2>3, <2>4 DEF AttachmentRead, TypeOK, ClientTypeOK
<1>5. CASE AttachmentUnreadable(t)
  BY <1>3, <1>5 DEF AttachmentUnreadable, TypeOK, ClientTypeOK
<1>6. CASE PromptSaved(t)
  <2>1. CASE Reconcile(t, turn[generation[t].turn].chat, {})
    BY <1>1, <1>6, <2>1, ReconcileTypes DEF PromptSaved
  <2>2. CASE /\ generation' = [generation EXCEPT ![t] = [generation[t] EXCEPT !.phase = "answering"]]
             /\ UNCHANGED <<chats, calls>>
    BY <1>3, <1>6, <2>2 DEF PromptSaved, TypeOK, ClientTypeOK
  <2> QED
    BY <1>6, <2>1, <2>2 DEF PromptSaved
<1>7. CASE AnswerEnds(t)
  <2>1. CASE generation' = [generation EXCEPT ![t] = NoGeneration] /\ UNCHANGED <<chats, post>>
    BY <1>3, <1>7, <2>1 DEF AnswerEnds, TypeOK, ClientTypeOK
  <2>2. CASE /\ Push(t, "assistant")
             /\ generation' =
                    [generation EXCEPT ![t] = [generation[t] EXCEPT !.phase = "saving-answer"]]
    <3>1. "assistant" \in Roles
      BY DEF Roles
    <3>2. /\ DOMAIN chats' = Tabs /\ \A u \in Tabs : IsMap(chats'[u], Chats, LocalChat)
          /\ post' \in [Messages -> {"unsent", "sent", "stored", "conflict", "failed"}]
      BY <1>1, <2>2, <3>1, PushTypes
    <3> QED
      BY <1>3, <1>7, <2>2, <3>2 DEF AnswerEnds, TypeOK, ClientTypeOK
  <2> QED
    BY <1>7, <2>1, <2>2 DEF AnswerEnds
<1>8. CASE AnswerSaved(t)
  <2>1. CASE Reconcile(t, turn[generation[t].turn].chat, {})
    BY <1>1, <1>8, <2>1, ReconcileTypes DEF AnswerSaved
  <2>2. CASE generation' = [generation EXCEPT ![t] = NoGeneration] /\ UNCHANGED <<chats, calls>>
    BY <1>3, <1>8, <2>2 DEF AnswerSaved, TypeOK, ClientTypeOK
  <2> QED
    BY <1>8, <2>1, <2>2 DEF AnswerSaved
<1> QED
  BY <1>4, <1>5, <1>6, <1>7, <1>8

LEMMA LoadTypes ==
    ASSUME TypeOK, NEW t \in Tabs, LoadMoves(t)
    PROVE  TypeOK'
<1> USE StoreTypesKept DEF LoadMoves
<1>1. CASE SessionAnswered(t)
  BY <1>1 DEF SessionAnswered, TypeOK, ClientTypeOK, IsMap, EmptyMap
<1>2. CASE LoadFails(t)
  BY <1>2 DEF LoadFails, TypeOK, ClientTypeOK, NoLoad
<1>3. CASE ListLoaded(t)
  <2>1. IsMap(EmptyMap, Chats, Found) /\ {c \in Chats : owner[c] \in Users} \subseteq Chats
    BY DEF IsMap, EmptyMap
  <2> QED
    BY <1>3, <2>1 DEF ListLoaded, TypeOK, ClientTypeOK
<1>4. CASE HistoryLoaded(t)
  <2>1. PICK c \in load[t].missing :
            load' = [load EXCEPT ![t].missing = @ \ {c}, ![t].found = Put(@, c, Snapshot(c))]
    BY <1>4 DEF HistoryLoaded
  <2>2. /\ load[t].phase = "histories" /\ IsMap(load[t].found, Chats, Found)
        /\ load[t].missing \subseteq Chats
    BY <1>4 DEF HistoryLoaded, TypeOK, ClientTypeOK
  <2>3. Snapshot(c) \in Found
    BY <2>1, <2>2 DEF Snapshot, Found, TypeOK, StoreTypeOK, Rows
  <2>4. IsMap(Put(load[t].found, c, Snapshot(c)), Chats, Found)
    BY <2>1, <2>2, <2>3 DEF IsMap, Put
  <2>5. /\ DOMAIN load' = Tabs
        /\ \A u \in Tabs : u # t => load'[u] = load[u]
        /\ load'[t].phase = load[t].phase
        /\ load'[t].missing = load[t].missing \ {c}
        /\ load'[t].found = Put(load[t].found, c, Snapshot(c))
    BY <2>1 DEF TypeOK, ClientTypeOK
  <2> QED
    BY <1>4, <2>2, <2>4, <2>5 DEF HistoryLoaded, TypeOK, ClientTypeOK
<1>5. CASE StoreInstalled(t)
  <2> DEFINE local(c) == [serverRevision |-> load[t].found[c].serverRevision, historyRevision |-> 0,
                          messages |-> load[t].found[c].messages,
                          lifecyclePending |-> FALSE, verified |-> TRUE]
  <2>1. IsMap(load[t].found, Chats, Found)
    BY <1>5 DEF StoreInstalled, TypeOK, ClientTypeOK
  <2>2. \A c \in DOMAIN load[t].found : local(c) \in LocalChat
    BY <2>1 DEF IsMap, Found, LocalChat
  <2>3. chats' = [chats EXCEPT ![t] = [c \in DOMAIN load[t].found |-> local(c)]]
    BY <1>5 DEF StoreInstalled
  <2> HIDE DEF local
  <2>4. IsMap([c \in DOMAIN load[t].found |-> local(c)], Chats, LocalChat)
    BY <2>1, <2>2 DEF IsMap
  <2>5. DOMAIN chats' = Tabs /\ \A u \in Tabs : IsMap(chats'[u], Chats, LocalChat)
    BY <2>3, <2>4 DEF TypeOK, ClientTypeOK
  <2> QED
    BY <1>5, <2>5 DEF StoreInstalled, TypeOK, ClientTypeOK, NoLoad
<1> QED
  BY <1>1, <1>2, <1>3, <1>4, <1>5

LEMMA PostTypes ==
    ASSUME TypeOK, NEW m \in Messages, ServePost(m)
    PROVE  TypeOK'
<1> DEFINE sent == turn[m[1]]
<1>1. StoreTypeOK'
  <2>1. CASE UNCHANGED storeVars
    BY <2>1, StoreTypesKept DEF TypeOK
  <2>2. ASSUME NEW u \in Users, CreateMessage(sent.chat, u, m, sent.expectedRevision)
        PROVE  StoreTypeOK'
    <3>1. CASE sent.chat \in Chats
      <4>1. [message |-> m, at |-> sent.expectedRevision] \in Rows
        BY <2>2, <3>1 DEF CreateMessage, TypeOK, StoreTypeOK, Rows
      <4> QED
        BY <2>2, <3>1, <4>1 DEF CreateMessage, Insert, TypeOK, StoreTypeOK
    <3>2. CASE sent.chat \notin Chats
      BY <2>2, <3>2 DEF CreateMessage, Insert, TypeOK, StoreTypeOK
    <3> QED
      BY <3>1, <3>2
  <2> QED
    BY <2>1, <2>2 DEF ServePost
<1>2. post' \in [Messages -> {"unsent", "sent", "stored", "conflict", "failed"}]
  BY DEF ServePost, TypeOK, ClientTypeOK
<1> QED
  BY <1>1, <1>2 DEF ServePost, TypeOK, ClientTypeOK

\* What the server does for a call is typed, and so is its answer.
LEMMA CallTyped ==
    ASSUME TypeOK, NEW call \in calls
    PROVE  /\ call \in Call
           /\ call.kind \in Kinds \union {"reconcile", "create"}
           /\ call.tab \in Tabs /\ call.chat \in Chats /\ call.epoch \in Nat /\ call.history \in Nat
           /\ call.answer \in Answer
  BY DEF TypeOK, ClientTypeOK, Call

LEMMA ServeStoreTypes ==
    ASSUME TypeOK, NEW call \in calls, NEW status, Serve(call, status)
    PROVE  StoreTypeOK'
<1>1. call.chat \in Chats
  BY CallTyped
<1>2. ASSUME NEW u \in Users, ClearChatMessages(call.chat, u)
      PROVE  StoreTypeOK'
  BY <1>1, <1>2 DEF ClearChatMessages, TypeOK, StoreTypeOK, Revisions
<1>3. ASSUME NEW u \in Users, CreateChat(call.chat, u) \/ DeleteChat(call.chat, u)
      PROVE  StoreTypeOK'
  BY <1>1, <1>3 DEF CreateChat, DeleteChat, TypeOK, StoreTypeOK, NoRow
<1>4. CASE UNCHANGED storeVars
  BY <1>4, StoreTypesKept DEF TypeOK
<1> QED
  BY <1>2, <1>3, <1>4 DEF Serve

\* The call after the server has served it: only its answer is new.
LEMMA ServedForm ==
    ASSUME NEW call \in Call, NEW answer \in Answer
    PROVE  LET served == [call EXCEPT !.answer = answer]
           IN  /\ served \in Call
               /\ served.kind = call.kind /\ served.tab = call.tab /\ served.chat = call.chat
               /\ served.epoch = call.epoch /\ served.history = call.history
               /\ served.answer = answer
  BY DEF Call

LEMMA ServeForm ==
    ASSUME TypeOK, NEW call \in calls, ServeCall(call)
    PROVE  \E status \in {"ok", "gone", "failed"}, answer \in Answer :
               /\ Serve(call, status)
               /\ calls' = (calls \ {call}) \union {[call EXCEPT !.answer = answer]}
               /\ answer.status = "ok" => /\ status = "ok"
                                          /\ answer.serverRevision = revision'[call.chat]
                                          /\ answer.messages = {row.message : row \in history'[call.chat]}
               /\ answer.status # "ok" => answer.serverRevision = 0 /\ answer.messages = {}
               /\ answer.status # "sent"
<1>1. PICK status \in {"ok", "gone", "failed"}, seen \in {"ok", "gone", "failed"} :
          /\ Serve(call, status)
          /\ seen \in {status, "failed"}
          /\ calls' = (calls \ {call}) \union {[call EXCEPT !.answer =
                  [status |-> seen,
                   serverRevision |-> IF seen = "ok" THEN revision'[call.chat] ELSE 0,
                   messages |-> IF seen = "ok" THEN {row.message : row \in history'[call.chat]}
                                ELSE {}]]}
  BY DEF ServeCall
<1> DEFINE number == IF seen = "ok" THEN revision'[call.chat] ELSE 0
           rows == IF seen = "ok" THEN {row.message : row \in history'[call.chat]} ELSE {}
           answer == [status |-> seen, serverRevision |-> number, messages |-> rows]
<1>2. StoreTypeOK' /\ call.chat \in Chats
  BY <1>1, ServeStoreTypes, CallTyped
<1>3. number \in Revisions /\ rows \in SUBSET Messages
  BY <1>2 DEF StoreTypeOK, Revisions, Rows
<1>4. answer \in Answer
  BY <1>3 DEF Answer
<1>5. /\ answer.status = seen /\ answer.serverRevision = number /\ answer.messages = rows
      /\ calls' = (calls \ {call}) \union {[call EXCEPT !.answer = answer]}
  BY <1>1
<1>6. /\ seen = "ok" => number = revision'[call.chat] /\ status = "ok"
                        /\ rows = {row.message : row \in history'[call.chat]}
      /\ seen # "ok" => number = 0 /\ rows = {}
  BY <1>1
<1> HIDE DEF number, rows, answer
<1> QED
  BY <1>1, <1>4, <1>5, <1>6

LEMMA ServeTypes ==
    ASSUME TypeOK, NEW call \in calls, ServeCall(call)
    PROVE  TypeOK'
<1>1. PICK status \in {"ok", "gone", "failed"}, answer \in Answer :
          /\ Serve(call, status)
          /\ calls' = (calls \ {call}) \union {[call EXCEPT !.answer = answer]}
  BY ServeForm
<1>2. StoreTypeOK'
  BY <1>1, ServeStoreTypes
<1>3. calls' \subseteq Call
  BY <1>1, CallTyped, ServedForm DEF TypeOK, ClientTypeOK
<1> QED
  BY <1>2, <1>3 DEF ServeCall, TypeOK, ClientTypeOK

\* The local copy that an answer verifies, and one that is unlocked or created.
LEMMA VerifiedForm ==
    ASSUME NEW e \in LocalChat, NEW call \in Call
    PROVE  /\ Verified(call, e) \in LocalChat
           /\ Verified(call, e).serverRevision = call.answer.serverRevision
           /\ Verified(call, e).historyRevision = e.historyRevision
           /\ Verified(call, e).messages = call.answer.messages
           /\ ~Verified(call, e).lifecyclePending
<1>1. call.answer.serverRevision \in Revisions /\ call.answer.messages \in SUBSET Messages
  BY DEF Call, Answer
<1>2. Verified(call, e) \in LocalChat
  BY <1>1 DEF LocalChat, Verified
<1>3. /\ Verified(call, e).serverRevision = call.answer.serverRevision
      /\ Verified(call, e).historyRevision = e.historyRevision
      /\ Verified(call, e).messages = call.answer.messages
  BY DEF LocalChat, Verified
<1>4. ~Verified(call, e).lifecyclePending
  BY DEF LocalChat, Verified
<1> QED
  BY <1>2, <1>3, <1>4

LEMMA UnlockedForm ==
    ASSUME NEW e \in LocalChat
    PROVE  LET new == [e EXCEPT !.lifecyclePending = FALSE]
           IN  /\ new \in LocalChat /\ ~new.lifecyclePending
               /\ new.serverRevision = e.serverRevision
               /\ new.historyRevision = e.historyRevision
               /\ new.messages = e.messages
  BY DEF LocalChat

\* The local copies after one of them has gone.
LEMMA ChatHidden ==
    ASSUME TypeOK, NEW t \in Tabs, NEW c, chats' = Hide(t, c)
    PROVE  /\ DOMAIN chats' = Tabs
           /\ \A u \in Tabs : IsMap(chats'[u], Chats, LocalChat)
           /\ \A u \in Tabs : DOMAIN chats'[u] = IF u = t THEN DOMAIN chats[u] \ {c} ELSE DOMAIN chats[u]
           /\ \A u \in Tabs : \A d \in DOMAIN chats'[u] : chats'[u][d] = chats[u][d]
  BY DEF TypeOK, ClientTypeOK, IsMap, Hide

\* The generation whose array of messages was replaced keeps its place.
LEMMA ReplacedTypes ==
    ASSUME TypeOK, NEW t \in Tabs, NEW c, generation' = MessagesReplaced(t, c), UNCHANGED turn
    PROVE  /\ generation' \in [Tabs -> {NoGeneration} \union Generation]
           /\ \A u \in Tabs : generation'[u] # NoGeneration => generation'[u].turn \in DOMAIN turn'
<1>1. CASE GeneratesFor(t, c)
  <2> DEFINE new == [generation[t] EXCEPT !.sameMessages = FALSE]
  <2>1. generation[t] \in Generation /\ generation[t].turn \in DOMAIN turn
    BY <1>1, GenerationTyped DEF GeneratesFor
  <2>2. new \in Generation /\ new.turn \in DOMAIN turn
    BY <2>1 DEF Generation
  <2>3. generation' = [generation EXCEPT ![t] = new]
    BY <1>1 DEF MessagesReplaced
  <2> HIDE DEF new
  <2> QED
    BY <2>2, <2>3, GenerationTypeKept
<1>2. CASE ~GeneratesFor(t, c)
  BY <1>2, GenerationTypeKept DEF MessagesReplaced
<1> QED
  BY <1>1, <1>2

LEMMA AnsweredTypes ==
    ASSUME TypeOK, NEW call \in calls, CallAnswered(call)
    PROVE  TypeOK'
<1> DEFINE t == call.tab
           c == call.chat
<1>1. t \in Tabs /\ c \in Chats /\ call \in Call
  BY CallTyped
<1>2. UNCHANGED <<loginScreen, sessionEpoch, dialog, load, turn, post, storeVars>>
  BY DEF CallAnswered, Answered
<1>3. ASSUME /\ DOMAIN chats' = Tabs
             /\ \A u \in Tabs : IsMap(chats'[u], Chats, LocalChat),
             generation' = generation \/ generation' = MessagesReplaced(t, c),
             calls' = calls \ {call}
      PROVE  TypeOK'
  <2>1. /\ generation' \in [Tabs -> {NoGeneration} \union Generation]
        /\ \A u \in Tabs : generation'[u] # NoGeneration => generation'[u].turn \in DOMAIN turn'
    BY <1>1, <1>2, <1>3, ReplacedTypes DEF TypeOK, ClientTypeOK
  <2> QED
    BY <1>2, <1>3, <2>1, StoreTypesKept DEF TypeOK, ClientTypeOK
<1>4. CASE UNCHANGED <<chats, generation>> /\ calls' = calls \ {call}
  BY <1>3, <1>4 DEF TypeOK, ClientTypeOK
<1>5. CASE /\ Shows(t, c) /\ chats' = [chats EXCEPT ![t][c] = Verified(call, @)]
           /\ generation' = MessagesReplaced(t, c) /\ calls' = calls \ {call}
  <2>1. Verified(call, chats[t][c]) \in LocalChat
    BY <1>1, <1>5, ShownTyped, VerifiedForm
  <2> QED
    BY <1>1, <1>3, <1>5, <2>1, ChatUpdated
<1>6. CASE chats' = Hide(t, c) /\ UNCHANGED generation /\ calls' = calls \ {call}
  BY <1>1, <1>3, <1>6, ChatHidden
<1>7. CASE Shows(t, c) /\ Reconcile(t, c, {call})
  BY <1>1, <1>2, <1>7, ReconcileTypes
<1>8. CASE /\ Shows(t, c) /\ chats' = [chats EXCEPT ![t][c].lifecyclePending = FALSE]
           /\ UNCHANGED generation /\ calls' = calls \ {call}
  <2> DEFINE new == [chats[t][c] EXCEPT !.lifecyclePending = FALSE]
  <2>1. new \in LocalChat
    BY <1>1, <1>8, ShownTyped, UnlockedForm
  <2>2. chats' = [chats EXCEPT ![t][c] = new]
    BY <1>8
  <2> HIDE DEF new
  <2> QED
    BY <1>1, <1>3, <1>8, <2>1, <2>2, ChatUpdated
<1>9. CASE CreateAnswered(call)
  <2> DEFINE new == [serverRevision |-> call.answer.serverRevision, historyRevision |-> 0,
                     messages |-> {}, lifecyclePending |-> FALSE, verified |-> TRUE]
  <2>1. new \in LocalChat
    BY <1>1 DEF LocalChat, Call, Answer
  <2>2. chats' = chats \/ chats' = [chats EXCEPT ![t] = Put(chats[t], c, new)]
    BY <1>9 DEF CreateAnswered
  <2>3. calls' = calls \ {call} /\ generation' = generation
    BY <1>9 DEF CreateAnswered
  <2> HIDE DEF new
  <2>4. IsMap(Put(chats[t], c, new), Chats, LocalChat)
    BY <1>1, <2>1 DEF TypeOK, ClientTypeOK, IsMap, Put
  <2>5. DOMAIN chats' = Tabs /\ \A u \in Tabs : IsMap(chats'[u], Chats, LocalChat)
    BY <2>2, <2>4 DEF TypeOK, ClientTypeOK
  <2> QED
    BY <1>3, <2>3, <2>5
<1>10. CASE ReconcileAnswered(call)
  BY <1>4, <1>5, <1>6, <1>10 DEF ReconcileAnswered, IsCurrent, StillThere
<1>11. CASE ClearAnswered(call)
  BY <1>4, <1>5, <1>7, <1>11 DEF ClearAnswered, StillThere
<1>12. CASE DeleteAnswered(call)
  BY <1>4, <1>6, <1>8, <1>12 DEF DeleteAnswered, StillThere
<1> QED
  BY <1>9, <1>10, <1>11, <1>12 DEF CallAnswered, Answered

LEMMA TypesKept == TypeOK /\ [Next]_vars => TypeOK'
<1> SUFFICES ASSUME TypeOK, [Next]_vars PROVE TypeOK'
  OBVIOUS
<1>1. CASE UNCHANGED vars
  BY <1>1, StoreTypesKept DEF vars, clientVars, TypeOK, ClientTypeOK
<1>2. CASE Next
  BY <1>2, UserTypes, GenerationTypes, LoadTypes, PostTypes, ServeTypes, AnsweredTypes DEF Next
<1> QED
  BY <1>1, <1>2

LEMMA InitTypes == Init => TypeOK
<1> SUFFICES ASSUME Init PROVE TypeOK
  OBVIOUS
<1> USE DEF Init
<1>1. StoreTypeOK
  BY DEF StoreInit, StoreTypeOK, NoRow, Revisions
<1>2. IsMap(EmptyMap, Chats, LocalChat) /\ IsMap(EmptyMap, Turns, Sent)
  BY DEF IsMap, EmptyMap
<1>3. ClientTypeOK
  BY <1>2 DEF ClientInit, ClientTypeOK
<1> QED
  BY <1>1, <1>3 DEF TypeOK

\* Every variable keeps its type.
THEOREM TypesCorrect == Spec => []TypeOK
  BY InitTypes, TypesKept, PTL DEF Spec

-----------------------------------------------------------------------------
(* Who may change a local chat.                                            *)

Owners == owner \in [Chats -> Users \union NoRow]

\* Neither which chats are shown nor their locks change.
SameLocks ==
    \A u \in Tabs :
        /\ DOMAIN chats'[u] = DOMAIN chats[u]
        /\ \A d \in DOMAIN chats[u] :
            /\ chats'[u][d].historyRevision = chats[u][d].historyRevision
            /\ chats'[u][d].lifecyclePending <=> chats[u][d].lifecyclePending

\* At most one local chat, c of tab t, is another than before.
SameBut(t, c) ==
    \A u \in Tabs : \A d \in Chats : u # t \/ d # c =>
        /\ Shows(u, d)' <=> Shows(u, d)
        /\ Shows(u, d) => chats'[u][d] = chats[u][d]

\* Generations that go on, or end, where they are.
GenerationsGoOn ==
    \A u \in Tabs :
        \/ generation'[u] = NoGeneration
        \/ /\ generation[u] # NoGeneration
           /\ generation'[u].turn = generation[u].turn
           /\ generation'[u].epoch = generation[u].epoch
           /\ generation'[u].history = generation[u].history
           /\ generation'[u].sameMessages = generation[u].sameMessages

\* The numbers of the sessions.
LEMMA Epochs ==
    ASSUME TypeOK
    PROVE  \A t \in Tabs : sessionEpoch[t] \in Nat
  BY DEF TypeOK, ClientTypeOK

LEMMA QuietLocks ==
    ASSUME LockInv, SameLocks, UNCHANGED <<sessionEpoch, dialog, load, owner, calls>>
    PROVE  BirthInv' /\ CreateInv' /\ PendingInv'
<1>1. \A call \in calls : call.tab \in Tabs /\ call.chat \in Chats
  BY CallTyped DEF LockInv
<1>2. \A call \in calls :
        /\ OfSession(call)' <=> OfSession(call)
        /\ StillThere(call)' <=> StillThere(call)
        /\ Active(call)' <=> Active(call)
  BY <1>1 DEF SameLocks, OfSession, StillThere, Active, IsCurrent, Shows
<1>3. BirthInv'
  BY DEF LockInv, BirthInv, SameLocks
<1>4. CreateInv'
  BY <1>1, <1>2 DEF LockInv, CreateInv, SameLocks, Shows, Asks
<1>5. \A call \in calls : StillThere(call) => call.chat \in DOMAIN chats[call.tab]
  BY DEF StillThere, Shows
<1>6. \A call \in calls : Active(call) => StillThere(call)
  BY DEF Active, IsCurrent
<1>7. PendingInv'
  BY <1>1, <1>2, <1>5, <1>6 DEF LockInv, PendingInv, SameLocks, Asks
<1> QED
  BY <1>3, <1>4, <1>7

LEMMA QuietGenerations ==
    ASSUME LockInv, TypeOK', SameLocks, GenerationsGoOn, UNCHANGED <<sessionEpoch, turn>>
    PROVE  SendButtonComesBack' /\ NoGenerationWhilePending'
<1>1. \A t \in Tabs : generation'[t] # NoGeneration =>
        /\ generation[t] # NoGeneration /\ GenerationIsValid(t)
        /\ generation'[t].turn = generation[t].turn
        /\ GenerationIsValid(t)'
  <2> SUFFICES ASSUME NEW t \in Tabs, generation'[t] # NoGeneration
               PROVE  /\ generation[t] # NoGeneration /\ GenerationIsValid(t)
                      /\ generation'[t].turn = generation[t].turn
                      /\ GenerationIsValid(t)'
    OBVIOUS
  <2>1. generation[t] # NoGeneration /\ GenerationIsValid(t)
    BY GenerationTyped DEF GenerationsGoOn, LockInv, SendButtonComesBack
  <2>2. generation'[t].turn = generation[t].turn
    BY DEF GenerationsGoOn
  <2>3. GenerationIsValid(t)'
    BY <2>1, <2>2 DEF GenerationsGoOn, GenerationIsValid, SameLocks, Shows
  <2> QED
    BY <2>1, <2>2, <2>3
<1>2. \A t \in Tabs : generation'[t].phase # "none" => generation'[t] # NoGeneration
  BY DEF NoGeneration
<1>3. SendButtonComesBack'
  BY <1>1, <1>2 DEF SendButtonComesBack
<1>4. \A t \in Tabs : generation[t] # NoGeneration => generation[t].phase # "none"
  BY GenerationTyped DEF LockInv
<1>5. NoGenerationWhilePending'
  BY <1>1, <1>2, <1>4 DEF LockInv, NoGenerationWhilePending, GeneratesFor, SameLocks
<1> QED
  BY <1>3, <1>5

\* A step of the page that changes no lock, no request and no session.
LEMMA QuietStep ==
    ASSUME LockInv, TypeOK', SameLocks, GenerationsGoOn,
           UNCHANGED <<loginScreen, sessionEpoch, dialog, load, turn, owner, calls>>
    PROVE  LockInv'
<1>1. SessionInv'
  BY DEF LockInv, SessionInv, GenerationsGoOn, OfSession
<1> QED
  BY <1>1, QuietLocks, QuietGenerations DEF LockInv

\* A tab with a generation is in a session, and does not log in, log out or load.
LEMMA Generating ==
    ASSUME LockInv, NEW t \in Tabs, generation[t] # NoGeneration
    PROVE  /\ ~loginScreen[t] /\ load[t].phase = "none"
           /\ GenerationIsValid(t)
           /\ turn[generation[t].turn].chat \in DOMAIN chats[t]
           /\ ~chats[t][turn[generation[t].turn].chat].lifecyclePending
<1>1. TypeOK /\ generation[t].phase # "none"
  BY GenerationTyped DEF LockInv
<1>2. ~loginScreen[t] /\ load[t].phase = "none"
  BY DEF LockInv, SessionInv
<1>3. GenerationIsValid(t)
  BY <1>1 DEF LockInv, SendButtonComesBack
<1>4. turn[generation[t].turn].chat \in DOMAIN chats[t]
  BY <1>3 DEF GenerationIsValid, Shows
<1>5. ~chats[t][turn[generation[t].turn].chat].lifecyclePending
  BY <1>1, <1>4 DEF LockInv, NoGenerationWhilePending, GeneratesFor
<1> QED
  BY <1>2, <1>3, <1>4, <1>5

\* Requests about other chats are as active as before.
LEMMA Elsewhere ==
    ASSUME LockInv, NEW t \in Tabs, NEW c \in Chats, SameBut(t, c), UNCHANGED sessionEpoch
    PROVE  \A call \in calls : call.tab # t \/ call.chat # c =>
            /\ OfSession(call)' <=> OfSession(call)
            /\ Shows(call.tab, call.chat)' <=> Shows(call.tab, call.chat)
            /\ StillThere(call)' <=> StillThere(call)
            /\ Active(call)' <=> Active(call)
            /\ StillThere(call) => chats'[call.tab][call.chat] = chats[call.tab][call.chat]
<1> SUFFICES ASSUME NEW call \in calls, call.tab # t \/ call.chat # c
             PROVE  /\ OfSession(call)' <=> OfSession(call)
                    /\ Shows(call.tab, call.chat)' <=> Shows(call.tab, call.chat)
                    /\ StillThere(call)' <=> StillThere(call)
                    /\ Active(call)' <=> Active(call)
                    /\ StillThere(call) => chats'[call.tab][call.chat] = chats[call.tab][call.chat]
  OBVIOUS
<1>1. call.tab \in Tabs /\ call.chat \in Chats
  BY CallTyped DEF LockInv
<1>2. /\ Shows(call.tab, call.chat)' <=> Shows(call.tab, call.chat)
      /\ Shows(call.tab, call.chat) => chats'[call.tab][call.chat] = chats[call.tab][call.chat]
  BY <1>1 DEF SameBut
<1>3. OfSession(call)' <=> OfSession(call)
  BY DEF OfSession
<1>4. StillThere(call)' <=> StillThere(call)
  BY <1>2 DEF StillThere
<1> QED
  BY <1>2, <1>3, <1>4 DEF Active, IsCurrent, StillThere

\* Generations after one chat has changed that no tab but t, and t no longer, generates for.
LEMMA OtherGenerations ==
    ASSUME LockInv, TypeOK', NEW t \in Tabs, NEW c \in Chats, SameBut(t, c),
           \A u \in Tabs : generation'[u] \in {generation[u], NoGeneration},
           ~GeneratesFor(t, c)', UNCHANGED <<sessionEpoch, turn>>
    PROVE  SendButtonComesBack' /\ NoGenerationWhilePending'
<1>1. \A u \in Tabs : generation'[u].phase # "none" =>
        /\ generation'[u] = generation[u] /\ generation[u] # NoGeneration
        /\ GenerationIsValid(u)
        /\ turn[generation[u].turn].chat \in DOMAIN chats[u]
        /\ turn[generation[u].turn].chat \in Chats
        /\ ~chats[u][turn[generation[u].turn].chat].lifecyclePending
        /\ u # t \/ turn[generation[u].turn].chat # c
  <2> SUFFICES ASSUME NEW u \in Tabs, generation'[u].phase # "none"
               PROVE  /\ generation'[u] = generation[u] /\ generation[u] # NoGeneration
                      /\ GenerationIsValid(u)
                      /\ turn[generation[u].turn].chat \in DOMAIN chats[u]
                      /\ turn[generation[u].turn].chat \in Chats
                      /\ ~chats[u][turn[generation[u].turn].chat].lifecyclePending
                      /\ u # t \/ turn[generation[u].turn].chat # c
    OBVIOUS
  <2>1. generation'[u] = generation[u] /\ generation[u] # NoGeneration
    BY DEF NoGeneration
  <2>2. turn[generation[u].turn].chat \in DOMAIN chats[u]
    BY <2>1, Generating
  <2>3. turn[generation[u].turn].chat \in Chats
    BY <2>2, ShownTyped DEF LockInv, Shows
  <2> QED
    BY <2>1, <2>2, <2>3, Generating DEF GeneratesFor
<1>2. SendButtonComesBack'
  BY <1>1 DEF SendButtonComesBack, GenerationIsValid, SameBut, Shows
<1>3. NoGenerationWhilePending'
  BY <1>1 DEF NoGenerationWhilePending, GeneratesFor, SameBut, Shows
<1> QED
  BY <1>2, <1>3

-----------------------------------------------------------------------------
(* The page's own steps.                                                   *)

LEMMA SendMessageLocks ==
    ASSUME LockInv, TypeOK', NEW t \in Tabs, NEW c \in Chats, NEW n \in Turns,
           SendMessage(t, c, n), UNCHANGED storeVars
    PROVE  LockInv'
<1>1. /\ ~loginScreen[t] /\ Shows(t, c) /\ ~chats[t][c].lifecyclePending
      /\ generation[t] = NoGeneration /\ n \notin DOMAIN turn
      /\ UNCHANGED <<loginScreen, sessionEpoch, chats, dialog, load, post, calls, owner>>
  BY GenerationTyped DEF SendMessage, Usable, LockInv, storeVars
<1>2. /\ \A k \in DOMAIN turn : k \in DOMAIN turn' /\ turn'[k] = turn[k]
      /\ turn'[n].chat = c
  BY <1>1 DEF SendMessage, Put
<1>3. /\ generation'[t].turn = n /\ generation'[t].epoch = sessionEpoch[t]
      /\ generation'[t].history = chats[t][c].historyRevision /\ generation'[t].sameMessages
      /\ \A u \in Tabs : u # t => generation'[u] = generation[u]
  BY DEF SendMessage, LockInv, TypeOK, ClientTypeOK
<1>4. SameLocks
  BY <1>1 DEF SameLocks
<1>5. SessionInv'
  BY <1>1, <1>3 DEF LockInv, SessionInv, OfSession
<1>6. GenerationIsValid(t)'
  BY <1>1, <1>2, <1>3 DEF GenerationIsValid, Shows
<1>7. \A u \in Tabs : u # t /\ generation[u] # NoGeneration => GenerationIsValid(u)'
  BY <1>1, <1>2, <1>3, Generating, GenerationTyped DEF LockInv, GenerationIsValid, Shows
<1>8. SendButtonComesBack'
  BY <1>3, <1>6, <1>7, GenerationTyped DEF LockInv, SendButtonComesBack, NoGeneration
<1>9. NoGenerationWhilePending'
  <2>1. \A u \in Tabs : u # t /\ generation'[u].phase # "none" =>
            /\ turn'[generation'[u].turn] = turn[generation[u].turn]
            /\ ~chats[u][turn[generation[u].turn].chat].lifecyclePending
    BY <1>2, <1>3, Generating, GenerationTyped DEF LockInv
  <2> QED
    BY <1>1, <1>2, <1>3, <2>1 DEF NoGenerationWhilePending, GeneratesFor
<1> QED
  BY <1>1, <1>4, <1>5, <1>8, <1>9, QuietLocks DEF LockInv

\* A request that has just been made.
LEMMA FetchForm ==
    ASSUME NEW kind, NEW t, NEW c, NEW epoch, NEW captured
    PROVE  LET call == Fetch(kind, t, c, epoch, captured)
           IN  /\ call.kind = kind /\ call.tab = t /\ call.chat = c
               /\ call.epoch = epoch /\ call.history = captured
               /\ call.answer.status = "sent" /\ call.answer.messages = {}
               /\ call.answer.serverRevision = 0
  BY DEF Fetch

LEMMA NewChatLocks ==
    ASSUME LockInv, TypeOK', NEW t \in Tabs, NEW c \in Chats, NewChat(t, c), UNCHANGED storeVars
    PROVE  LockInv'
<1> PICK fresh : fresh = Fetch("create", t, c, sessionEpoch[t], 0)
  OBVIOUS
<1>1. /\ ~loginScreen[t] /\ owner[c] = "unborn"
      /\ \A call \in calls : ~(call.kind = "create" /\ call.chat = c)
      /\ calls' = calls \union {fresh}
      /\ UNCHANGED <<loginScreen, sessionEpoch, chats, dialog, generation, load, turn, owner>>
  BY DEF NewChat, storeVars
<1>2. /\ fresh.kind = "create" /\ fresh.tab = t /\ fresh.chat = c /\ fresh.epoch = sessionEpoch[t]
      /\ fresh.answer.status = "sent"
  BY FetchForm
<1>3. sessionEpoch[t] \in Nat /\ load[t].phase = "none"
  BY <1>1, Epochs DEF LockInv, SessionInv
<1>4. SessionInv'
  BY <1>1, <1>2, <1>3 DEF LockInv, SessionInv, OfSession
<1>5. BirthInv'
  BY <1>1, <1>2 DEF LockInv, BirthInv
<1>6. /\ ~Shows(t, c) /\ ~Asks(t, c)
      /\ \A call \in calls : call.chat # c \/ call.kind = "create"
  BY <1>1 DEF LockInv, BirthInv, Shows, Asks
<1>7. CreateInv'
  BY <1>1, <1>2, <1>6 DEF LockInv, CreateInv, Shows, Asks, OfSession
<1>8. ~Active(fresh)' /\ \A call \in calls : Active(call)' <=> Active(call)
  BY <1>1, <1>2 DEF Active, Kinds, StillThere, IsCurrent, Shows
<1>9. PendingInv'
  BY <1>1, <1>2, <1>8 DEF LockInv, PendingInv, StillThere, Shows, Asks, OfSession, Kinds
<1>10. SendButtonComesBack' /\ NoGenerationWhilePending'
  BY <1>1 DEF LockInv, SendButtonComesBack, NoGenerationWhilePending, GenerationIsValid, GeneratesFor, Shows
<1> QED
  BY <1>4, <1>5, <1>7, <1>9, <1>10 DEF LockInv

\* The dialog that is opened, or dismissed.
LEMMA DialogLocks ==
    ASSUME LockInv, TypeOK', NEW t \in Tabs,
           \/ \E c \in Chats, kind \in Kinds : LifecycleClick(t, c, kind)
           \/ DialogDismissed(t),
           UNCHANGED storeVars
    PROVE  LockInv'
<1>1. UNCHANGED <<loginScreen, sessionEpoch, chats, generation, load, turn, owner, calls>>
  BY DEF LifecycleClick, DialogDismissed, storeVars
<1>2. SendButtonComesBack' /\ NoGenerationWhilePending'
  BY <1>1 DEF LockInv, SendButtonComesBack, NoGenerationWhilePending, GenerationIsValid, GeneratesFor, Shows
<1>3. \A call \in calls : /\ Active(call)' <=> Active(call)
                          /\ StillThere(call)' <=> StillThere(call)
                          /\ OfSession(call)' <=> OfSession(call)
  BY <1>1 DEF Active, StillThere, IsCurrent, Shows, OfSession
<1>4. CASE DialogDismissed(t)
  <2>1. /\ dialog'[t].kind \notin Kinds
        /\ \A u \in Tabs : u # t => dialog'[u] = dialog[u]
    BY <1>4 DEF DialogDismissed, NoDialog, Kinds, LockInv, TypeOK, ClientTypeOK
  <2>2. \A u \in Tabs, d \in Chats : Asks(u, d)' => Asks(u, d)
    BY <1>1, <2>1 DEF Asks
  <2>3. SessionInv' /\ BirthInv'
    BY <1>1, <2>1 DEF LockInv, SessionInv, BirthInv, OfSession
  <2>4. CreateInv' /\ PendingInv'
    BY <1>1, <1>3, <2>2, CallTyped DEF LockInv, CreateInv, PendingInv, Shows
  <2> QED
    BY <1>2, <2>3, <2>4 DEF LockInv
<1>5. ASSUME NEW c \in Chats, NEW kind \in Kinds, LifecycleClick(t, c, kind)
      PROVE  LockInv'
  <2>1. /\ dialog'[t].kind = kind /\ dialog'[t].chat = c /\ dialog'[t].epoch = sessionEpoch[t]
        /\ \A u \in Tabs : u # t => dialog'[u] = dialog[u]
    BY <1>5 DEF LifecycleClick, LockInv, TypeOK, ClientTypeOK
  <2>2. ~loginScreen[t] /\ Shows(t, c) /\ ~chats[t][c].lifecyclePending
    BY <1>5 DEF LifecycleClick, Usable
  <2>3. load[t].phase = "none" /\ owner[c] # "unborn" /\ sessionEpoch[t] \in Nat
    BY <2>2, Epochs DEF LockInv, SessionInv, BirthInv, Shows
  <2>4. \A u \in Tabs, d \in Chats : Asks(u, d)' => Asks(u, d) \/ (u = t /\ d = c)
    BY <1>1, <2>1 DEF Asks
  <2>5. SessionInv'
    BY <1>1, <2>1, <2>3 DEF LockInv, SessionInv, OfSession
  <2>6. BirthInv'
    BY <1>1, <2>1, <2>3 DEF LockInv, BirthInv
  <2>7. \A call \in calls : call.tab = t /\ call.chat = c /\ OfSession(call) =>
            call.kind \notin Kinds /\ call.kind # "create"
    BY <2>2 DEF LockInv, PendingInv, CreateInv, Active, StillThere, OfSession
  <2>8. CreateInv' /\ PendingInv'
    BY <1>1, <1>3, <2>4, <2>7, CallTyped DEF LockInv, CreateInv, PendingInv, Shows
  <2> QED
    BY <1>2, <2>5, <2>6, <2>8 DEF LockInv
<1> QED
  BY <1>4, <1>5

\* The confirmed dialog locks the chat if it is shown, and makes older reconciliations
\* stale.
LEMMA ConfirmedLocks ==
    ASSUME LockInv, TypeOK', NEW t \in Tabs, LifecycleConfirmed(t), UNCHANGED storeVars
    PROVE  LockInv'
<1>1. TypeOK /\ dialog[t].kind \in Kinds /\ dialog[t] \in Dialog
  BY DEF LifecycleConfirmed, LockInv, TypeOK, ClientTypeOK, NoDialog, Kinds
<1>2. PICK d \in Dialog : d = dialog[t]
  BY <1>1
<1> DEFINE c == d.chat
           here == d.epoch = sessionEpoch[t] /\ Shows(t, c)
           captured == IF here THEN chats[t][c].historyRevision + 1 ELSE 0
<1>3. PICK fresh : fresh = Fetch(d.kind, t, c, d.epoch, captured)
  OBVIOUS
<1>4. /\ d.kind \in Kinds /\ c \in Chats /\ d.epoch \in Nat /\ TypeOK
      /\ owner[c] # "unborn" /\ d.epoch <= sessionEpoch[t]
      /\ d.epoch = sessionEpoch[t] => load[t].phase = "none"
  BY <1>1, <1>2 DEF Dialog, LockInv, SessionInv, BirthInv
<1>5. /\ chats' = IF here THEN [chats EXCEPT ![t][c] = Locked(chats[t][c])] ELSE chats
      /\ generation' = Invalidated(t, c) /\ dialog' = [dialog EXCEPT ![t] = NoDialog]
      /\ calls' = calls \union {fresh}
      /\ UNCHANGED <<loginScreen, sessionEpoch, load, turn, post, owner>>
  BY <1>2, <1>3 DEF LifecycleConfirmed, storeVars
<1>6. /\ fresh.kind = d.kind /\ fresh.tab = t /\ fresh.chat = c /\ fresh.epoch = d.epoch
      /\ fresh.answer.status = "sent"
  BY <1>3, FetchForm
<1>7. /\ dialog'[t].kind \notin Kinds
      /\ \A u \in Tabs : u # t => dialog'[u] = dialog[u]
  BY <1>4, <1>5 DEF NoDialog, Kinds, TypeOK, ClientTypeOK
<1>8. d.epoch = sessionEpoch[t] => Asks(t, c)
  BY <1>2, <1>4 DEF Asks
<1>9. \A u \in Tabs, e \in Chats : Asks(u, e)' => Asks(u, e) /\ u # t
  BY <1>5, <1>7 DEF Asks
<1> HIDE DEF captured, c
<1>10. here => /\ \A u \in Tabs : DOMAIN chats'[u] = DOMAIN chats[u]
               /\ \A u \in Tabs : \A e \in DOMAIN chats[u] : u # t \/ e # c => chats'[u][e] = chats[u][e]
               /\ c \in DOMAIN chats[t]
               /\ chats'[t][c].lifecyclePending
               /\ chats'[t][c].historyRevision = chats[t][c].historyRevision + 1
               /\ chats[t][c].historyRevision \in Nat
  <2> SUFFICES ASSUME here
               PROVE  /\ \A u \in Tabs : DOMAIN chats'[u] = DOMAIN chats[u]
                      /\ \A u \in Tabs : \A e \in DOMAIN chats[u] :
                            u # t \/ e # c => chats'[u][e] = chats[u][e]
                      /\ c \in DOMAIN chats[t]
                      /\ chats'[t][c].lifecyclePending
                      /\ chats'[t][c].historyRevision = chats[t][c].historyRevision + 1
                      /\ chats[t][c].historyRevision \in Nat
    OBVIOUS
  <2>1. Shows(t, c) /\ c \in DOMAIN chats[t] /\ chats[t][c] \in LocalChat
    BY <1>4, ShownTyped DEF Shows
  <2>2. /\ Locked(chats[t][c]) \in LocalChat /\ Locked(chats[t][c]).lifecyclePending
        /\ Locked(chats[t][c]).historyRevision = chats[t][c].historyRevision + 1
        /\ chats[t][c].historyRevision \in Nat
    BY <2>1, LocalForms
  <2>3. chats' = [chats EXCEPT ![t][c] = Locked(chats[t][c])]
    BY <1>5
  <2>4. /\ \A u \in Tabs : DOMAIN chats'[u] = DOMAIN chats[u]
        /\ \A u \in Tabs : \A e \in DOMAIN chats[u] :
              chats'[u][e] = IF u = t /\ e = c THEN Locked(chats[t][c]) ELSE chats[u][e]
    BY <1>4, <2>1, <2>2, <2>3, ChatUpdated
  <2>5. chats'[t][c] = Locked(chats[t][c])
    BY <2>1, <2>4
  <2> QED
    BY <2>1, <2>2, <2>4, <2>5
<1>11. ~here => chats' = chats
  BY <1>5
<1>12. /\ \A u \in Tabs : DOMAIN chats'[u] = DOMAIN chats[u]
       /\ SameBut(t, c)
  <2>1. CASE here
    BY <1>10, <2>1 DEF SameBut, Shows
  <2>2. CASE ~here
    BY <1>11, <2>2 DEF SameBut, Shows
  <2> QED
    BY <2>1, <2>2
<1>13. \A u \in Tabs : generation'[u] \in {generation[u], NoGeneration}
  BY <1>4, <1>5 DEF Invalidated, TypeOK, ClientTypeOK
<1>14. ~GeneratesFor(t, c)'
  BY <1>4, <1>5 DEF Invalidated, GeneratesFor, NoGeneration, TypeOK, ClientTypeOK
<1>15. SessionInv'
  BY <1>4, <1>5, <1>6, <1>7, <1>13 DEF LockInv, SessionInv, OfSession
<1>16. BirthInv'
  BY <1>4, <1>5, <1>6, <1>7, <1>12 DEF LockInv, BirthInv
<1>17. \A call \in calls : call.tab = t /\ call.chat = c /\ d.epoch = sessionEpoch[t] /\ OfSession(call) =>
            call.kind = "reconcile"
  <2>1. \A call \in calls : call.kind \in Kinds \union {"reconcile", "create"}
    BY <1>4, CallTyped
  <2> QED
    BY <1>8, <2>1 DEF LockInv, CreateInv, PendingInv
<1>18. \A call \in calls : OfSession(call)' <=> OfSession(call)
  BY <1>5 DEF OfSession
<1>19. OfSession(fresh)' <=> d.epoch = sessionEpoch[t]
  BY <1>5, <1>6 DEF OfSession
<1>20. fresh.kind # "create"
  BY <1>4, <1>6 DEF Kinds
<1>21. CreateInv'
  <2>1. \A call \in calls : call.tab \in Tabs /\ call.chat \in Chats
    BY <1>4, CallTyped
  <2>2. \A call \in calls : Shows(call.tab, call.chat)' <=> Shows(call.tab, call.chat)
    BY <1>12, <2>1 DEF Shows
  <2>3. \A call \in calls : call.kind = "create" /\ OfSession(call) => call.tab # t \/ call.chat # c \/ ~OfSession(fresh)'
    BY <1>17, <1>19
  <2> QED
    BY <1>5, <1>6, <1>9, <1>18, <1>20, <2>1, <2>2, <2>3 DEF LockInv, CreateInv
<1>22. here => \A call \in calls : call.tab = t /\ call.chat = c => ~Active(call)'
  <2> SUFFICES ASSUME NEW call \in calls, here, call.tab = t, call.chat = c, Active(call)'
               PROVE  FALSE
    OBVIOUS
  <2>1. OfSession(call)
    BY <1>5 DEF Active, StillThere, IsCurrent, OfSession
  <2>2. call.kind = "reconcile"
    BY <1>17, <2>1
  <2>3. call.history <= chats[t][c].historyRevision /\ call.history \in Nat
    BY <1>4, <2>1, <2>2, CallTyped DEF LockInv, PendingInv, StillThere, OfSession
  <2>4. chats'[t][c].historyRevision = chats[t][c].historyRevision + 1
    BY <1>10 DEF Shows
  <2> QED
    BY <1>10, <2>2, <2>3, <2>4 DEF Active, IsCurrent, Kinds
<1>23. \A call \in calls : call.tab # t \/ call.chat # c \/ ~here =>
        /\ StillThere(call)' <=> StillThere(call)
        /\ Active(call)' <=> Active(call)
        /\ StillThere(call) => chats'[call.tab][call.chat] = chats[call.tab][call.chat]
  <2>1. CASE here
    BY <1>4, <1>5, <1>12, <2>1, Elsewhere
  <2>2. CASE ~here
    BY <1>5, <1>11, <2>2 DEF StillThere, Active, IsCurrent, Shows
  <2> QED
    BY <2>1, <2>2
<1>24. /\ StillThere(fresh)' <=> here
       /\ Active(fresh)' <=> here
  BY <1>4, <1>5, <1>6, <1>12 DEF StillThere, Active, Shows, Kinds
<1>25. \A call \in calls : call.tab = t /\ call.chat = c /\ StillThere(call)' /\ call.kind = "reconcile" =>
        call.history <= chats'[t][c].historyRevision
  <2> SUFFICES ASSUME NEW call \in calls, call.tab = t, call.chat = c, StillThere(call)',
                      call.kind = "reconcile"
               PROVE  call.history <= chats'[t][c].historyRevision
    OBVIOUS
  <2>1. StillThere(call)
    BY <1>5, <1>12 DEF StillThere, Shows
  <2>2. call.history <= chats[t][c].historyRevision /\ call.history \in Nat
    BY <1>4, <2>1, CallTyped DEF LockInv, PendingInv
  <2>3. Shows(t, c)
    BY <2>1 DEF StillThere
  <2> QED
    BY <1>10, <1>11, <2>2, <2>3 DEF Shows
<1>26. here => Shows(t, c) /\ chats'[t][c].lifecyclePending
  BY <1>10 DEF Shows
<1> HIDE DEF here
<1>27. PendingInv'
  <2>1. \A call \in calls' : Active(call)' => chats'[call.tab][call.chat].lifecyclePending
    BY <1>5, <1>6, <1>22, <1>23, <1>24, <1>26 DEF LockInv, PendingInv, Active, IsCurrent
  <2>2. \A call \in calls' : call.kind = "reconcile" /\ StillThere(call)' =>
            call.history <= chats'[call.tab][call.chat].historyRevision
    BY <1>4, <1>5, <1>6, <1>23, <1>25 DEF LockInv, PendingInv, Kinds
  <2>3. \A call \in calls' : call.kind \in Kinds /\ OfSession(call)' => ~Asks(call.tab, call.chat)'
    <3>1. \A call \in calls : call.tab \in Tabs /\ call.chat \in Chats
      BY <1>4, CallTyped
    <3> QED
      BY <1>5, <1>6, <1>9, <1>4, <1>18, <3>1 DEF LockInv, PendingInv
  <2>4. \A call, other \in calls' :
            Active(call)' /\ Active(other)' /\ call.tab = other.tab /\ call.chat = other.chat =>
                call = other
    BY <1>5, <1>6, <1>22, <1>23, <1>24 DEF LockInv, PendingInv
  <2> QED
    BY <2>1, <2>2, <2>3, <2>4 DEF PendingInv
<1>28. SendButtonComesBack' /\ NoGenerationWhilePending'
  BY <1>4, <1>5, <1>12, <1>13, <1>14, OtherGenerations
<1> QED
  BY <1>15, <1>16, <1>21, <1>27, <1>28 DEF LockInv

\* A session that is replaced makes every request of its tab an old one.
LEMMA ReplaceLocks ==
    ASSUME LockInv, TypeOK', NEW t \in Tabs, NEW next \in [phase : {"login", "logout"}],
           ReplaceSession(t, next), UNCHANGED storeVars
    PROVE  LockInv'
<1>1. /\ sessionEpoch'[t] = sessionEpoch[t] + 1
      /\ \A u \in Tabs : u # t => sessionEpoch'[u] = sessionEpoch[u]
      /\ \A u \in Tabs : u # t => load'[u] = load[u]
      /\ load'[t].phase \in {"login", "logout"}
      /\ generation' = [generation EXCEPT ![t] = NoGeneration]
      /\ loginScreen' = [loginScreen EXCEPT ![t] = TRUE]
      /\ UNCHANGED <<chats, dialog, turn, calls, owner>>
  BY DEF ReplaceSession, storeVars, LockInv, TypeOK, ClientTypeOK
<1>2. generation'[t] = NoGeneration /\ \A u \in Tabs : u # t => generation'[u] = generation[u]
  BY <1>1 DEF LockInv, TypeOK, ClientTypeOK
<1>3. \A u \in Tabs : u # t => loginScreen'[u] = loginScreen[u]
  BY <1>1 DEF LockInv, TypeOK, ClientTypeOK
<1>4. loginScreen'[t]
  BY <1>1 DEF LockInv, TypeOK, ClientTypeOK
<1>5. TypeOK /\ \A u \in Tabs : sessionEpoch[u] \in Nat
  BY Epochs DEF LockInv
<1>6. \A call \in calls : /\ call.tab \in Tabs /\ call.chat \in Chats /\ call.epoch \in Nat
                          /\ call.epoch <= sessionEpoch[call.tab]
  BY <1>5, CallTyped DEF LockInv, SessionInv
<1>7. \A call \in calls : OfSession(call)' => OfSession(call) /\ call.tab # t
  BY <1>1, <1>5, <1>6 DEF OfSession
<1>8. \A u \in Tabs : dialog[u].kind \in Kinds => dialog[u] \in Dialog
  BY <1>5 DEF TypeOK, ClientTypeOK, NoDialog, Kinds
<1>9. \A u \in Tabs : dialog[u].kind \in Kinds =>
        /\ dialog[u].epoch <= sessionEpoch'[u]
        /\ dialog[u].epoch = sessionEpoch'[u] => u # t
  BY <1>1, <1>5, <1>8 DEF LockInv, SessionInv, Dialog
<1>10. SessionInv'
  BY <1>1, <1>2, <1>3, <1>4, <1>5, <1>6, <1>7, <1>9 DEF LockInv, SessionInv, OfSession
<1>11. BirthInv'
  <2>1. load'[t].phase # "histories"
    BY <1>1
  <2> QED
    BY <1>1, <2>1 DEF LockInv, BirthInv
<1>12. \A u \in Tabs, e \in Chats : Asks(u, e)' => Asks(u, e)
  BY <1>1, <1>9 DEF Asks
<1>13. CreateInv'
  BY <1>1, <1>6, <1>7, <1>12 DEF LockInv, CreateInv, Shows
<1>14. \A call \in calls : /\ StillThere(call)' => StillThere(call) /\ OfSession(call)'
                           /\ Active(call)' => Active(call)
  BY <1>1, <1>7 DEF StillThere, OfSession, Active, IsCurrent, Shows
<1>15. PendingInv'
  BY <1>1, <1>6, <1>7, <1>12, <1>14 DEF LockInv, PendingInv
<1>16. \A u \in Tabs : generation'[u].phase # "none" => u # t /\ generation'[u] = generation[u]
  BY <1>2 DEF NoGeneration
<1>17. SendButtonComesBack' /\ NoGenerationWhilePending'
  BY <1>1, <1>16 DEF LockInv, SendButtonComesBack, NoGenerationWhilePending, GenerationIsValid,
     GeneratesFor, Shows
<1> QED
  BY <1>10, <1>11, <1>13, <1>15, <1>17 DEF LockInv

LEMMA UserLocks ==
    ASSUME LockInv, TypeOK', NEW t \in Tabs, UserActs(t)
    PROVE  LockInv'
<1>1. [phase |-> "login"] \in [phase : {"login", "logout"}]
      /\ [phase |-> "logout"] \in [phase : {"login", "logout"}]
  OBVIOUS
<1>2. CASE LoginSubmitted(t) \/ LogoutClicked(t)
  BY <1>1, <1>2, ReplaceLocks DEF UserActs, LoginSubmitted, LogoutClicked
<1> QED
  BY <1>2, SendMessageLocks, NewChatLocks, DialogLocks, ConfirmedLocks DEF UserActs

-----------------------------------------------------------------------------
(* Generations.                                                            *)

\* A reconciliation takes over the chat of tab t: what was active there is done.
LEMMA ReconcileLocks ==
    ASSUME LockInv, TypeOK', NEW t \in Tabs, NEW c, Shows(t, c), load[t].phase = "none",
           NEW done, done \subseteq calls,
           \A call \in calls \ done : call.tab = t /\ call.chat = c => ~Active(call),
           Reconcile(t, c, done),
           UNCHANGED <<loginScreen, sessionEpoch, dialog, load, turn, post, owner>>
    PROVE  LockInv'
<1>1. TypeOK /\ c \in Chats /\ chats[t][c] \in LocalChat /\ c \in DOMAIN chats[t]
  BY ShownTyped DEF LockInv, Shows
<1>2. PICK fresh : fresh = Fetch("reconcile", t, c, sessionEpoch[t], chats[t][c].historyRevision + 1)
  OBVIOUS
<1>3. /\ fresh.kind = "reconcile" /\ fresh.tab = t /\ fresh.chat = c /\ fresh.epoch = sessionEpoch[t]
      /\ fresh.history = chats[t][c].historyRevision + 1 /\ fresh.answer.status = "sent"
  BY <1>2, FetchForm
<1>4. /\ chats' = [chats EXCEPT ![t][c] = Discarded(chats[t][c])]
      /\ generation' = Invalidated(t, c)
      /\ calls' = (calls \ done) \union {fresh}
  BY <1>2 DEF Reconcile
<1>5. /\ Discarded(chats[t][c]) \in LocalChat /\ Discarded(chats[t][c]).lifecyclePending
      /\ Discarded(chats[t][c]).historyRevision = chats[t][c].historyRevision + 1
      /\ chats[t][c].historyRevision \in Nat
  BY <1>1, LocalForms
<1>6. /\ \A u \in Tabs : DOMAIN chats'[u] = DOMAIN chats[u]
      /\ \A u \in Tabs : \A e \in DOMAIN chats[u] :
            chats'[u][e] = IF u = t /\ e = c THEN Discarded(chats[t][c]) ELSE chats[u][e]
  BY <1>1, <1>4, <1>5, ChatUpdated
<1>7. /\ chats'[t][c].lifecyclePending
      /\ chats'[t][c].historyRevision = chats[t][c].historyRevision + 1
  BY <1>1, <1>5, <1>6
<1>8. SameBut(t, c)
  BY <1>6 DEF SameBut, Shows
<1>9. \A u \in Tabs : generation'[u] \in {generation[u], NoGeneration}
  BY <1>1, <1>4 DEF Invalidated, TypeOK, ClientTypeOK
<1>10. ~GeneratesFor(t, c)'
  BY <1>1, <1>4 DEF Invalidated, GeneratesFor, NoGeneration, TypeOK, ClientTypeOK
<1>11. sessionEpoch[t] \in Nat /\ owner[c] # "unborn"
  BY <1>1, Epochs DEF LockInv, BirthInv
<1>12. SessionInv'
  BY <1>3, <1>4, <1>9, <1>11 DEF LockInv, SessionInv, OfSession
<1>13. BirthInv'
  BY <1>3, <1>4, <1>6, <1>11 DEF LockInv, BirthInv
<1>14. \A call \in calls : call.tab \in Tabs /\ call.chat \in Chats /\ call.history \in Nat
  BY <1>1, CallTyped
<1>15. \A call \in calls : /\ OfSession(call)' <=> OfSession(call)
                           /\ Shows(call.tab, call.chat)' <=> Shows(call.tab, call.chat)
                           /\ StillThere(call)' <=> StillThere(call)
  BY <1>6, <1>14 DEF OfSession, StillThere, Shows
<1>16. \A u \in Tabs, e \in Chats : Asks(u, e)' <=> Asks(u, e)
  BY DEF Asks
<1>17. CreateInv'
  BY <1>1, <1>3, <1>4, <1>14, <1>15, <1>16 DEF LockInv, CreateInv, Shows
<1>18. \A call \in calls : call.tab # t \/ call.chat # c =>
        /\ Active(call)' <=> Active(call)
        /\ StillThere(call) => chats'[call.tab][call.chat] = chats[call.tab][call.chat]
  BY <1>1, <1>8, Elsewhere
<1>19. \A call \in calls \ done : call.tab = t /\ call.chat = c => ~Active(call)'
  <2> SUFFICES ASSUME NEW call \in calls \ done, call.tab = t, call.chat = c, Active(call)'
               PROVE  FALSE
    OBVIOUS
  <2>1. StillThere(call) /\ ~Active(call)
    BY <1>15 DEF Active, IsCurrent
  <2>2. call.kind = "reconcile" /\ chats'[t][c].historyRevision = call.history
    BY <2>1 DEF Active, IsCurrent
  <2>3. call.history <= chats[t][c].historyRevision
    BY <2>1, <2>2 DEF LockInv, PendingInv
  <2> QED
    BY <1>5, <1>7, <1>14, <2>2, <2>3
<1>20. \A call \in calls' : Active(call)' => chats'[call.tab][call.chat].lifecyclePending
  BY <1>3, <1>4, <1>7, <1>18, <1>19 DEF LockInv, PendingInv, Active, IsCurrent
<1>21. \A call \in calls' : call.kind = "reconcile" /\ StillThere(call)' =>
            call.history <= chats'[call.tab][call.chat].historyRevision
  <2>1. \A call \in calls : call.tab = t /\ call.chat = c /\ call.kind = "reconcile" /\ StillThere(call) =>
            call.history <= chats'[t][c].historyRevision
    BY <1>5, <1>7, <1>14 DEF LockInv, PendingInv
  <2>2. fresh.history <= chats'[t][c].historyRevision
    BY <1>3, <1>5, <1>7
  <2> QED
    BY <1>3, <1>4, <1>15, <1>18, <2>1, <2>2 DEF LockInv, PendingInv
<1>22. \A call \in calls' : call.kind \in Kinds /\ OfSession(call)' => ~Asks(call.tab, call.chat)'
  BY <1>3, <1>4, <1>14, <1>15, <1>16 DEF LockInv, PendingInv, Kinds
<1>23. \A call, other \in calls' :
            Active(call)' /\ Active(other)' /\ call.tab = other.tab /\ call.chat = other.chat =>
                call = other
  BY <1>3, <1>4, <1>18, <1>19 DEF LockInv, PendingInv
<1>24. PendingInv'
  BY <1>20, <1>21, <1>22, <1>23 DEF PendingInv
<1>25. SendButtonComesBack' /\ NoGenerationWhilePending'
  BY <1>1, <1>8, <1>9, <1>10, OtherGenerations
<1> QED
  BY <1>12, <1>13, <1>17, <1>24, <1>25 DEF LockInv

\* A conflict with the server: the tab that generates is the only one to touch the chat.
LEMMA ConflictLocks ==
    ASSUME LockInv, TypeOK', NEW t \in Tabs, generation[t] # NoGeneration,
           Reconcile(t, turn[generation[t].turn].chat, {}),
           UNCHANGED <<loginScreen, sessionEpoch, dialog, load, turn, post, owner>>
    PROVE  LockInv'
<1>1. PICK c : c = turn[generation[t].turn].chat
  OBVIOUS
<1>2. Shows(t, c) /\ load[t].phase = "none" /\ ~chats[t][c].lifecyclePending
  BY <1>1, Generating DEF Shows
<1>3. \A call \in calls : call.tab = t /\ call.chat = c => ~Active(call)
  BY <1>2 DEF LockInv, PendingInv
<1>4. Reconcile(t, c, {})
  BY <1>1
<1> QED
  BY <1>2, <1>3, <1>4, ReconcileLocks

\* A message that is shown and posted changes no lock.
LEMMA PushLocks ==
    ASSUME LockInv, NEW t \in Tabs, generation[t] # NoGeneration, NEW role \in Roles, Push(t, role)
    PROVE  SameLocks
<1>1. PICK c, m : c = turn[generation[t].turn].chat /\ m = <<generation[t].turn, role>>
  OBVIOUS
<1>2. TypeOK /\ Shows(t, c) /\ chats[t][c] \in LocalChat /\ generation[t] \in Generation
  BY <1>1, Generating, ShownTyped, GenerationTyped DEF LockInv, Shows
<1>3. m \in Messages
  BY <1>1, <1>2 DEF Generation
<1>4. PICK new : new = [chats[t][c] EXCEPT !.messages = @ \union {m}]
  OBVIOUS
<1>5. /\ new \in LocalChat /\ new.historyRevision = chats[t][c].historyRevision
      /\ new.lifecyclePending = chats[t][c].lifecyclePending
  BY <1>2, <1>3, <1>4, PushedForm
<1>6. chats' = [chats EXCEPT ![t][c] = new]
  BY <1>1, <1>4 DEF Push
<1> QED
  BY <1>2, <1>5, <1>6, ChatUpdated DEF SameLocks

LEMMA GenerationLocks ==
    ASSUME LockInv, TypeOK', NEW t \in Tabs, GenerationMoves(t)
    PROVE  LockInv'
<1>1. /\ TypeOK /\ generation[t] # NoGeneration /\ generation[t] \in Generation
      /\ UNCHANGED <<loginScreen, sessionEpoch, dialog, load, turn, owner>>
  BY GenerationTyped DEF GenerationMoves, AttachmentRead, AttachmentUnreadable, PromptSaved, AnswerEnds,
     AnswerSaved, At, LockInv, storeVars
<1>2. ASSUME NEW phase \in {"saving-prompt", "answering", "saving-answer"},
             generation' = [generation EXCEPT ![t].phase = phase]
      PROVE  GenerationsGoOn
  BY <1>1, <1>2 DEF GenerationsGoOn, Generation, TypeOK, ClientTypeOK
<1>3. ASSUME generation' = [generation EXCEPT ![t] = NoGeneration]
      PROVE  GenerationsGoOn
  BY <1>1, <1>3 DEF GenerationsGoOn, TypeOK, ClientTypeOK
<1>4. UNCHANGED chats => SameLocks
  BY DEF SameLocks
<1>5. ASSUME NEW role \in Roles, Push(t, role)
      PROVE  SameLocks
  BY <1>1, <1>5, PushLocks
<1>6. CASE AttachmentRead(t)
  BY <1>1, <1>2, <1>5, <1>6, QuietStep DEF AttachmentRead, Roles
<1>7. CASE AttachmentUnreadable(t)
  BY <1>1, <1>3, <1>4, <1>7, QuietStep DEF AttachmentUnreadable
<1>8. CASE PromptSaved(t)
  BY <1>1, <1>2, <1>4, <1>8, QuietStep, ConflictLocks DEF PromptSaved
<1>9. CASE AnswerEnds(t)
  BY <1>1, <1>2, <1>3, <1>4, <1>5, <1>9, QuietStep DEF AnswerEnds, Roles
<1>10. CASE AnswerSaved(t)
  BY <1>1, <1>3, <1>4, <1>10, QuietStep, ConflictLocks DEF AnswerSaved
<1> QED
  BY <1>6, <1>7, <1>8, <1>9, <1>10 DEF GenerationMoves

-----------------------------------------------------------------------------
(* Logins, logouts and loads.                                              *)

\* A tab that is between two sessions may load what it likes: no request and no
\* confirmation is of the session it is in.
LEMMA BetweenSessions ==
    ASSUME LockInv, TypeOK', NEW t \in Tabs, load[t].phase # "none",
           \A u \in Tabs : u # t => /\ chats'[u] = chats[u] /\ load'[u] = load[u]
                                    /\ loginScreen'[u] = loginScreen[u],
           load'[t].phase # "none" => loginScreen'[t],
           \A c \in DOMAIN chats'[t] : owner[c] # "unborn",
           load'[t].phase = "histories" => \A c \in DOMAIN load'[t].found : owner[c] # "unborn",
           UNCHANGED <<sessionEpoch, dialog, generation, turn, calls, owner>>
    PROVE  LockInv'
<1>1. /\ generation[t] = NoGeneration
      /\ \A c \in Chats : ~Asks(t, c)
      /\ dialog[t].kind \in Kinds => dialog[t].epoch # sessionEpoch[t]
      /\ \A call \in calls : call.tab = t => ~OfSession(call)
  BY DEF LockInv, SessionInv, Asks
<1>2. \A call \in calls : call.tab \in Tabs /\ call.chat \in Chats
  BY CallTyped DEF LockInv
<1>3. \A call \in calls : OfSession(call)' <=> OfSession(call)
  BY DEF OfSession
<1>4. \A call \in calls : /\ StillThere(call) => OfSession(call)
                          /\ StillThere(call)' => OfSession(call)'
                          /\ Active(call)' => StillThere(call)'
  BY DEF StillThere, OfSession, Active, IsCurrent
<1>5. \A call \in calls : call.tab # t =>
        /\ Shows(call.tab, call.chat)' <=> Shows(call.tab, call.chat)
        /\ chats'[call.tab] = chats[call.tab]
        /\ StillThere(call)' <=> StillThere(call)
        /\ Active(call)' <=> Active(call)
  BY <1>2 DEF StillThere, Active, IsCurrent, Shows
<1>6. \A u \in Tabs, c \in Chats : Asks(u, c)' <=> Asks(u, c)
  BY DEF Asks
<1>7. SessionInv'
  <2>1. \A u \in Tabs : /\ load'[u].phase # "none" => loginScreen'[u]
                        /\ loginScreen'[u] => generation'[u] = NoGeneration
    BY <1>1 DEF LockInv, SessionInv
  <2>2. \A u \in Tabs : dialog'[u].kind \in Kinds =>
            /\ dialog'[u].epoch <= sessionEpoch'[u]
            /\ dialog'[u].epoch = sessionEpoch'[u] => load'[u].phase = "none"
    BY <1>1 DEF LockInv, SessionInv
  <2>3. \A call \in calls : /\ call.epoch <= sessionEpoch[call.tab]
                            /\ OfSession(call)' => load'[call.tab].phase = "none"
    BY <1>1, <1>2, <1>3 DEF LockInv, SessionInv
  <2> QED
    BY <2>1, <2>2, <2>3 DEF SessionInv
<1>8. BirthInv'
  BY DEF LockInv, BirthInv
<1>9. CreateInv'
  BY <1>1, <1>2, <1>3, <1>5, <1>6 DEF LockInv, CreateInv
<1>10. PendingInv'
  BY <1>1, <1>2, <1>3, <1>4, <1>5, <1>6 DEF LockInv, PendingInv
<1>11. \A u \in Tabs : generation[u].phase # "none" => u # t
  BY <1>1 DEF NoGeneration
<1>12. SendButtonComesBack'
  BY <1>11 DEF LockInv, SendButtonComesBack, GenerationIsValid, Shows
<1>13. NoGenerationWhilePending'
  BY <1>11 DEF LockInv, NoGenerationWhilePending, GeneratesFor
<1> QED
  BY <1>7, <1>8, <1>9, <1>10, <1>12, <1>13 DEF LockInv

LEMMA LoadLocks ==
    ASSUME LockInv, TypeOK', NEW t \in Tabs, LoadMoves(t)
    PROVE  LockInv'
<1>1. /\ load[t].phase # "none" /\ loginScreen[t]
      /\ UNCHANGED <<sessionEpoch, dialog, generation, turn, calls, owner>>
  BY DEF LoadMoves, SessionAnswered, LoadFails, ListLoaded, HistoryLoaded, StoreInstalled, storeVars,
     LockInv, SessionInv
<1>2. \A u \in Tabs : u # t => chats'[u] = chats[u] /\ load'[u] = load[u]
  BY DEF LoadMoves, SessionAnswered, LoadFails, ListLoaded, HistoryLoaded, StoreInstalled,
     LockInv, TypeOK, ClientTypeOK
<1>3. \A u \in Tabs : u # t => loginScreen'[u] = loginScreen[u]
  BY DEF LoadMoves, SessionAnswered, LoadFails, ListLoaded, HistoryLoaded, StoreInstalled,
     LockInv, TypeOK, ClientTypeOK
<1>4. \A c \in DOMAIN chats[t] : owner[c] # "unborn"
  BY DEF LockInv, BirthInv
<1>5. load[t].phase = "histories" => \A c \in DOMAIN load[t].found : owner[c] # "unborn"
  BY DEF LockInv, BirthInv
<1>6. \A c \in Chats : owner[c] \in Users => owner[c] # "unborn"
  OBVIOUS
<1>7. CASE SessionAnswered(t)
  <2>1. chats'[t] = EmptyMap /\ DOMAIN EmptyMap = {}
    BY <1>7 DEF SessionAnswered, EmptyMap, LockInv, TypeOK, ClientTypeOK
  <2>2. load'[t].phase \in {"list", "none"} /\ loginScreen'[t]
    BY <1>1, <1>7 DEF SessionAnswered, LockInv, TypeOK, ClientTypeOK
  <2> QED
    BY <1>1, <1>2, <1>3, <2>1, <2>2, BetweenSessions
<1>8. CASE LoadFails(t)
  <2>1. chats'[t] = chats[t] /\ load'[t].phase = "none"
    BY <1>8 DEF LoadFails, NoLoad, LockInv, TypeOK, ClientTypeOK
  <2> QED
    BY <1>1, <1>2, <1>3, <1>4, <2>1, BetweenSessions
<1>9. CASE ListLoaded(t)
  <2>1. chats'[t] = chats[t] /\ load'[t].found = EmptyMap /\ DOMAIN EmptyMap = {} /\ loginScreen'[t]
    BY <1>1, <1>9 DEF ListLoaded, EmptyMap, LockInv, TypeOK, ClientTypeOK
  <2> QED
    BY <1>1, <1>2, <1>3, <1>4, <2>1, BetweenSessions
<1>10. CASE HistoryLoaded(t)
  <2>1. PICK c \in load[t].missing :
            /\ owner[c] \in Users
            /\ load' = [load EXCEPT ![t].missing = @ \ {c}, ![t].found = Put(@, c, Snapshot(c))]
    BY <1>10 DEF HistoryLoaded
  <2>2. chats'[t] = chats[t] /\ loginScreen'[t] /\ load[t].phase = "histories"
    BY <1>1, <1>10 DEF HistoryLoaded
  <2>3. load'[t].found = Put(load[t].found, c, Snapshot(c)) /\ load'[t].phase = "histories"
    BY <2>1, <2>2 DEF LockInv, TypeOK, ClientTypeOK
  <2>4. DOMAIN load'[t].found = DOMAIN load[t].found \union {c}
    BY <2>3 DEF Put
  <2>5. \A d \in DOMAIN load'[t].found : owner[d] # "unborn"
    BY <1>5, <2>1, <2>2, <2>4
  <2> QED
    BY <1>1, <1>2, <1>3, <1>4, <2>2, <2>5, BetweenSessions
<1>11. CASE StoreInstalled(t)
  <2>1. DOMAIN chats'[t] = DOMAIN load[t].found /\ load'[t].phase = "none"
    BY <1>11 DEF StoreInstalled, NoLoad, LockInv, TypeOK, ClientTypeOK
  <2>2. load[t].phase = "histories"
    BY <1>11 DEF StoreInstalled
  <2> QED
    BY <1>1, <1>2, <1>3, <1>5, <2>1, <2>2, BetweenSessions
<1> QED
  BY <1>7, <1>8, <1>9, <1>10, <1>11 DEF LoadMoves

-----------------------------------------------------------------------------
(* The server.                                                             *)

LEMMA PostLocks ==
    ASSUME LockInv, TypeOK', NEW m \in Messages, ServePost(m)
    PROVE  LockInv'
<1>1. UNCHANGED <<loginScreen, sessionEpoch, chats, dialog, generation, load, turn, calls, owner>>
  BY DEF ServePost, CreateMessage, storeVars
<1>2. SameLocks /\ GenerationsGoOn
  BY <1>1 DEF SameLocks, GenerationsGoOn
<1> QED
  BY <1>1, <1>2, QuietStep

\* What a request does to the rows of chats: none goes back to being unborn, and
\* one that was created is no longer.
LEMMA ServeOwner ==
    ASSUME TypeOK, NEW call \in calls, NEW status, Serve(call, status)
    PROVE  /\ \A c : owner[c] # "unborn" => owner'[c] # "unborn"
           /\ call.kind = "create" /\ status = "ok" => owner'[call.chat] # "unborn"
<1>1. call.chat \in Chats /\ owner \in [Chats -> Users \union NoRow]
  BY CallTyped DEF TypeOK, StoreTypeOK
<1>2. ASSUME NEW u \in Users, CreateChat(call.chat, u)
      PROVE  \A c : owner[c] # "unborn" => owner'[c] # "unborn"
  BY <1>1, <1>2 DEF CreateChat
<1>3. ASSUME NEW u \in Users, DeleteChat(call.chat, u)
      PROVE  \A c : owner[c] # "unborn" => owner'[c] # "unborn"
  BY <1>1, <1>3 DEF DeleteChat
<1>4. ASSUME NEW u \in Users, ClearChatMessages(call.chat, u)
      PROVE  \A c : owner[c] # "unborn" => owner'[c] # "unborn"
  BY <1>4 DEF ClearChatMessages
<1>5. \A c : owner[c] # "unborn" => owner'[c] # "unborn"
  BY <1>2, <1>3, <1>4 DEF Serve, storeVars
<1>6. ASSUME call.kind = "create", status = "ok"
      PROVE  owner'[call.chat] # "unborn"
  <2>1. PICK u \in Users : CreateChat(call.chat, u)
    BY <1>6 DEF Serve
  <2> QED
    BY <1>1, <2>1 DEF CreateChat
<1> QED
  BY <1>5, <1>6

LEMMA ServeLocks ==
    ASSUME LockInv, TypeOK', NEW call \in calls, ServeCall(call)
    PROVE  LockInv'
<1>1. TypeOK /\ call \in Call
  BY CallTyped DEF LockInv
<1>2. PICK status \in {"ok", "gone", "failed"}, answer \in Answer :
          /\ Serve(call, status)
          /\ calls' = (calls \ {call}) \union {[call EXCEPT !.answer = answer]}
          /\ answer.status = "ok" => status = "ok"
  BY <1>1, ServeForm
<1>3. PICK served : served = [call EXCEPT !.answer = answer]
  OBVIOUS
<1>4. /\ served.kind = call.kind /\ served.tab = call.tab /\ served.chat = call.chat
      /\ served.epoch = call.epoch /\ served.history = call.history /\ served.answer = answer
  BY <1>1, <1>3, ServedForm
<1>5. calls' = (calls \ {call}) \union {served}
  BY <1>2, <1>3
<1>6. /\ UNCHANGED <<loginScreen, sessionEpoch, chats, dialog, generation, load, turn>>
      /\ call.answer.status = "sent"
  BY DEF ServeCall
<1>7. /\ \A c : owner[c] # "unborn" => owner'[c] # "unborn"
      /\ call.kind = "create" /\ answer.status = "ok" => owner'[call.chat] # "unborn"
  BY <1>1, <1>2, ServeOwner
<1>8. \A other \in calls' : \E before \in calls :
        /\ other = before \/ (other = served /\ before = call)
        /\ other.kind = before.kind /\ other.tab = before.tab /\ other.chat = before.chat
        /\ other.epoch = before.epoch /\ other.history = before.history
        /\ OfSession(other)' <=> OfSession(before)
        /\ StillThere(other)' <=> StillThere(before)
        /\ Active(other)' <=> Active(before)
  <2>1. \A other \in calls \ {call} :
        /\ OfSession(other)' <=> OfSession(other)
        /\ StillThere(other)' <=> StillThere(other)
        /\ Active(other)' <=> Active(other)
    BY <1>6 DEF OfSession, StillThere, Active, IsCurrent, Shows
  <2>2. /\ OfSession(served)' <=> OfSession(call)
        /\ StillThere(served)' <=> StillThere(call)
        /\ Active(served)' <=> Active(call)
    BY <1>4, <1>6 DEF OfSession, StillThere, Active, IsCurrent, Shows
  <2> QED
    BY <1>4, <1>5, <2>1, <2>2
<1>9. \A u \in Tabs, c \in Chats : /\ Asks(u, c)' <=> Asks(u, c)
                                   /\ Shows(u, c)' <=> Shows(u, c)
  BY <1>6 DEF Asks, Shows
<1>10. \A other \in calls : other.tab \in Tabs /\ other.chat \in Chats
  BY <1>1, CallTyped
<1>11. SessionInv'
  <2>1. \A other \in calls' : /\ other.epoch <= sessionEpoch'[other.tab]
                              /\ OfSession(other)' => load'[other.tab].phase = "none"
    BY <1>6, <1>8 DEF LockInv, SessionInv
  <2> QED
    BY <1>6, <2>1 DEF LockInv, SessionInv
<1>12. BirthInv'
  <2>1. \A other \in calls' : other.kind \notin {"create"} \/ other.answer.status = "ok" =>
            owner'[other.chat] # "unborn"
    BY <1>4, <1>5, <1>7 DEF LockInv, BirthInv
  <2> QED
    BY <1>6, <1>7, <2>1 DEF LockInv, BirthInv
<1>13. CreateInv'
  <2>1. \A one, other \in calls' :
            one.kind = "create" /\ other.kind = "create" /\ one.chat = other.chat => one = other
    BY <1>4, <1>5 DEF LockInv, CreateInv
  <2>2. \A one \in calls' : one.kind = "create" /\ OfSession(one)' =>
            ~Shows(one.tab, one.chat)' /\ ~Asks(one.tab, one.chat)'
    BY <1>8, <1>9, <1>10 DEF LockInv, CreateInv
  <2>3. \A one, other \in calls' :
            one.kind = "create" /\ OfSession(one)' =>
                (other.tab = one.tab /\ other.chat = one.chat /\ OfSession(other)' =>
                    other.kind = "create")
    BY <1>8 DEF LockInv, CreateInv
  <2> QED
    BY <2>1, <2>2, <2>3 DEF CreateInv
<1>14. PendingInv'
  <2>1. \A one \in calls' : Active(one)' => chats'[one.tab][one.chat].lifecyclePending
    BY <1>6, <1>8 DEF LockInv, PendingInv
  <2>2. \A one \in calls' : one.kind = "reconcile" /\ StillThere(one)' =>
            one.history <= chats'[one.tab][one.chat].historyRevision
    BY <1>6, <1>8 DEF LockInv, PendingInv
  <2>3. \A one \in calls' : one.kind \in Kinds /\ OfSession(one)' => ~Asks(one.tab, one.chat)'
    BY <1>8, <1>9, <1>10 DEF LockInv, PendingInv
  <2>4. \A one, other \in calls' :
            Active(one)' /\ Active(other)' /\ one.tab = other.tab /\ one.chat = other.chat =>
                one = other
    BY <1>4, <1>5, <1>8 DEF LockInv, PendingInv
  <2> QED
    BY <2>1, <2>2, <2>3, <2>4 DEF PendingInv
<1>15. SendButtonComesBack' /\ NoGenerationWhilePending'
  BY <1>6 DEF LockInv, SendButtonComesBack, NoGenerationWhilePending, GenerationIsValid, GeneratesFor, Shows
<1> QED
  BY <1>11, <1>12, <1>13, <1>14, <1>15 DEF LockInv

-----------------------------------------------------------------------------
(* Answers.                                                                *)

\* An answer that no longer counts.
LEMMA IgnoredLocks ==
    ASSUME LockInv, TypeOK', calls' \subseteq calls,
           UNCHANGED <<loginScreen, sessionEpoch, chats, dialog, generation, load, turn, owner>>
    PROVE  LockInv'
<1>1. \A call \in calls : /\ OfSession(call)' <=> OfSession(call)
                          /\ StillThere(call)' <=> StillThere(call)
                          /\ Active(call)' <=> Active(call)
  BY DEF OfSession, StillThere, Active, IsCurrent, Shows
<1>2. \A u \in Tabs, c \in Chats : /\ Asks(u, c)' <=> Asks(u, c)
                                   /\ Shows(u, c)' <=> Shows(u, c)
  BY DEF Asks, Shows
<1>3. \A call \in calls : call.tab \in Tabs /\ call.chat \in Chats
  BY CallTyped DEF LockInv
<1>4. SessionInv' /\ BirthInv'
  BY <1>1 DEF LockInv, SessionInv, BirthInv
<1>5. CreateInv' /\ PendingInv'
  BY <1>1, <1>2, <1>3 DEF LockInv, CreateInv, PendingInv
<1>6. SendButtonComesBack' /\ NoGenerationWhilePending'
  BY DEF LockInv, SendButtonComesBack, NoGenerationWhilePending, GenerationIsValid, GeneratesFor, Shows
<1> QED
  BY <1>4, <1>5, <1>6 DEF LockInv

\* An active request concerns a chat of the session, which nobody generates for, and
\* no other request about that chat is active.
LEMMA ActiveAlone ==
    ASSUME LockInv, NEW call \in calls, Active(call)
    PROVE  /\ OfSession(call) /\ Shows(call.tab, call.chat) /\ StillThere(call)
           /\ load[call.tab].phase = "none"
           /\ chats[call.tab][call.chat].lifecyclePending
           /\ ~GeneratesFor(call.tab, call.chat)
           /\ \A other \in calls :
                other # call /\ other.tab = call.tab /\ other.chat = call.chat => ~Active(other)
<1>1. StillThere(call) /\ OfSession(call) /\ Shows(call.tab, call.chat)
  BY DEF Active, IsCurrent, StillThere, OfSession
<1>2. call.tab \in Tabs /\ load[call.tab].phase = "none"
  BY <1>1, CallTyped DEF LockInv, SessionInv
<1>3. chats[call.tab][call.chat].lifecyclePending
  BY DEF LockInv, PendingInv
<1>4. ~GeneratesFor(call.tab, call.chat)
  BY <1>1, <1>2, <1>3 DEF LockInv, NoGenerationWhilePending, Shows
<1> QED
  BY <1>1, <1>2, <1>3, <1>4 DEF LockInv, PendingInv

\* The answer that unlocks its chat or takes it away.
LEMMA SettledLocks ==
    ASSUME LockInv, TypeOK', NEW call \in calls, Active(call),
           SameBut(call.tab, call.chat),
           \A u \in Tabs : DOMAIN chats'[u] \subseteq DOMAIN chats[u],
           call.chat \in DOMAIN chats'[call.tab] =>
               chats'[call.tab][call.chat].historyRevision = chats[call.tab][call.chat].historyRevision,
           calls' = calls \ {call},
           UNCHANGED <<loginScreen, sessionEpoch, dialog, generation, load, turn, owner>>
    PROVE  LockInv'
<1>1. PICK t, c : t = call.tab /\ c = call.chat
  OBVIOUS
<1>2. t \in Tabs /\ c \in Chats /\ \A other \in calls : other.tab \in Tabs /\ other.chat \in Chats
  BY <1>1, CallTyped DEF LockInv
<1>3. /\ ~GeneratesFor(t, c) /\ Shows(t, c)
      /\ \A other \in calls' : other.tab = t /\ other.chat = c => ~Active(other)
  BY <1>1, ActiveAlone
<1>4. \A other \in calls : other.tab # t \/ other.chat # c =>
        /\ Active(other)' <=> Active(other)
        /\ StillThere(other) => chats'[other.tab][other.chat] = chats[other.tab][other.chat]
  BY <1>1, <1>2, Elsewhere
<1>5. \A other \in calls : /\ OfSession(other)' <=> OfSession(other)
                           /\ Shows(other.tab, other.chat)' => Shows(other.tab, other.chat)
                           /\ StillThere(other)' => StillThere(other)
  BY <1>2 DEF OfSession, StillThere, Shows
<1>6. \A other \in calls : other.tab = t /\ other.chat = c /\ Active(other)' => Active(other)
  BY <1>1, <1>5 DEF Active, IsCurrent, StillThere, Shows
<1>7. \A u \in Tabs, d \in Chats : Asks(u, d)' <=> Asks(u, d)
  BY DEF Asks
<1>8. SessionInv' /\ BirthInv'
  BY <1>5 DEF LockInv, SessionInv, BirthInv
<1>9. CreateInv'
  BY <1>2, <1>5, <1>7 DEF LockInv, CreateInv
<1>10. PendingInv'
  <2>1. \A other \in calls' : Active(other)' => chats'[other.tab][other.chat].lifecyclePending
    BY <1>3, <1>4, <1>6 DEF LockInv, PendingInv, Active, IsCurrent
  <2>2. \A other \in calls' : other.kind = "reconcile" /\ StillThere(other)' =>
            other.history <= chats'[other.tab][other.chat].historyRevision
    BY <1>1, <1>4, <1>5 DEF LockInv, PendingInv, StillThere, Shows
  <2>3. \A other \in calls' : other.kind \in Kinds /\ OfSession(other)' => ~Asks(other.tab, other.chat)'
    BY <1>2, <1>5, <1>7 DEF LockInv, PendingInv
  <2>4. \A one, other \in calls' :
            Active(one)' /\ Active(other)' /\ one.tab = other.tab /\ one.chat = other.chat =>
                one = other
    BY <1>3, <1>4, <1>6 DEF LockInv, PendingInv
  <2> QED
    BY <2>1, <2>2, <2>3, <2>4 DEF PendingInv
<1>11. SendButtonComesBack' /\ NoGenerationWhilePending'
  <2>1. ~GeneratesFor(t, c)'
    BY <1>3 DEF GeneratesFor
  <2> QED
    BY <1>1, <1>2, <2>1, OtherGenerations
<1> QED
  BY <1>8, <1>9, <1>10, <1>11 DEF LockInv

\* A chat that its tab has just created.
LEMMA CreateLocks ==
    ASSUME LockInv, TypeOK', NEW call \in calls, call.kind = "create", OfSession(call),
           call.answer.status = "ok", NEW new \in LocalChat,
           chats' = [chats EXCEPT ![call.tab] = Put(@, call.chat, new)],
           calls' = calls \ {call},
           UNCHANGED <<loginScreen, sessionEpoch, dialog, generation, load, turn, owner>>
    PROVE  LockInv'
<1>1. PICK t, c : t = call.tab /\ c = call.chat
  OBVIOUS
<1>2. t \in Tabs /\ c \in Chats /\ \A other \in calls : other.tab \in Tabs /\ other.chat \in Chats
  BY <1>1, CallTyped DEF LockInv
<1>3. /\ DOMAIN chats'[t] = DOMAIN chats[t] \union {c}
      /\ \A d \in DOMAIN chats[t] : d # c => chats'[t][d] = chats[t][d]
      /\ \A u \in Tabs : u # t => chats'[u] = chats[u]
  BY <1>1, <1>2 DEF LockInv, TypeOK, ClientTypeOK, Put
<1>4. SameBut(t, c)
  BY <1>3 DEF SameBut, Shows
<1>5. /\ ~Shows(t, c) /\ ~Asks(t, c)
      /\ \A other \in calls' : other.tab = t /\ other.chat = c => ~OfSession(other)
  BY <1>1 DEF LockInv, CreateInv
<1>6. owner[c] # "unborn"
  BY <1>1 DEF LockInv, BirthInv
<1>7. \A other \in calls : OfSession(other)' <=> OfSession(other)
  BY DEF OfSession
<1>8. \A other \in calls : other.tab # t \/ other.chat # c =>
        /\ Shows(other.tab, other.chat)' <=> Shows(other.tab, other.chat)
        /\ StillThere(other)' <=> StillThere(other)
        /\ Active(other)' <=> Active(other)
        /\ StillThere(other) => chats'[other.tab][other.chat] = chats[other.tab][other.chat]
  BY <1>2, <1>4, Elsewhere
<1>9. \A other \in calls' : OfSession(other)' => other.tab # t \/ other.chat # c
  BY <1>5, <1>7
<1>10. \A other \in calls : /\ StillThere(other)' => OfSession(other)'
                            /\ Active(other)' => OfSession(other)'
  BY DEF StillThere, OfSession, Active, IsCurrent
<1>11. \A u \in Tabs, d \in Chats : Asks(u, d)' <=> Asks(u, d)
  BY DEF Asks
<1>12. SessionInv'
  BY <1>7 DEF LockInv, SessionInv
<1>13. BirthInv'
  BY <1>3, <1>6 DEF LockInv, BirthInv
<1>14. CreateInv'
  BY <1>2, <1>7, <1>8, <1>9, <1>11 DEF LockInv, CreateInv
<1>15. PendingInv'
  <2>1. \A other \in calls' : Active(other)' => chats'[other.tab][other.chat].lifecyclePending
    BY <1>8, <1>9, <1>10 DEF LockInv, PendingInv, Active, IsCurrent
  <2>2. \A other \in calls' : other.kind = "reconcile" /\ StillThere(other)' =>
            other.history <= chats'[other.tab][other.chat].historyRevision
    BY <1>8, <1>9, <1>10 DEF LockInv, PendingInv
  <2>3. \A other \in calls' : other.kind \in Kinds /\ OfSession(other)' => ~Asks(other.tab, other.chat)'
    BY <1>2, <1>7, <1>11 DEF LockInv, PendingInv
  <2>4. \A one, other \in calls' :
            Active(one)' /\ Active(other)' /\ one.tab = other.tab /\ one.chat = other.chat =>
                one = other
    BY <1>8, <1>9, <1>10 DEF LockInv, PendingInv
  <2> QED
    BY <2>1, <2>2, <2>3, <2>4 DEF PendingInv
<1>16. SendButtonComesBack' /\ NoGenerationWhilePending'
  <2>1. ~GeneratesFor(t, c)
    <3> SUFFICES ASSUME GeneratesFor(t, c) PROVE FALSE
      OBVIOUS
    <3>1. generation[t] # NoGeneration /\ turn[generation[t].turn].chat = c
      BY DEF GeneratesFor, NoGeneration
    <3> QED
      BY <1>2, <1>5, <3>1, Generating DEF Shows
  <2>2. ~GeneratesFor(t, c)'
    BY <2>1 DEF GeneratesFor
  <2> QED
    BY <1>2, <1>4, <2>2, OtherGenerations
<1> QED
  BY <1>12, <1>13, <1>14, <1>15, <1>16 DEF LockInv

\* What becomes of the local chats, the generation and the requests when a call is answered.
LEMMA AnswerCases ==
    ASSUME LockInv, NEW call \in calls, CallAnswered(call)
    PROVE  /\ UNCHANGED <<loginScreen, sessionEpoch, dialog, load, turn, post, storeVars>>
           /\ \/ UNCHANGED <<chats, generation>> /\ calls' = calls \ {call}
              \/ /\ Active(call) /\ call.kind \in {"reconcile", "clear"} /\ call.answer.status = "ok"
                 /\ chats' = [chats EXCEPT ![call.tab][call.chat] = Verified(call, @)]
                 /\ UNCHANGED generation /\ calls' = calls \ {call}
              \/ /\ Active(call)
                 /\ chats' = Hide(call.tab, call.chat)
                 /\ UNCHANGED generation /\ calls' = calls \ {call}
              \/ /\ Active(call)
                 /\ chats' = [chats EXCEPT ![call.tab][call.chat].lifecyclePending = FALSE]
                 /\ UNCHANGED generation /\ calls' = calls \ {call}
              \/ Active(call) /\ Reconcile(call.tab, call.chat, {call})
              \/ /\ call.kind = "create" /\ OfSession(call) /\ call.answer.status = "ok"
                 /\ chats' = [chats EXCEPT ![call.tab] = Put(@, call.chat,
                       [serverRevision |-> call.answer.serverRevision, historyRevision |-> 0,
                        messages |-> {}, lifecyclePending |-> FALSE, verified |-> TRUE])]
                 /\ UNCHANGED generation /\ calls' = calls \ {call}
<1>1. UNCHANGED <<loginScreen, sessionEpoch, dialog, load, turn, post, storeVars>>
  BY DEF CallAnswered, Answered
<1>2. call.answer.status \in {"ok", "gone", "failed"}
  BY CallTyped DEF LockInv, Answer, CallAnswered, Answered
<1>3. Active(call) => MessagesReplaced(call.tab, call.chat) = generation
  BY ActiveAlone DEF MessagesReplaced
<1>4. CASE ReconcileAnswered(call)
  BY <1>1, <1>2, <1>3, <1>4 DEF ReconcileAnswered, Active
<1>5. CASE ClearAnswered(call)
  BY <1>1, <1>3, <1>5 DEF ClearAnswered, Active, Kinds
<1>6. CASE DeleteAnswered(call)
  BY <1>1, <1>6 DEF DeleteAnswered, Active, Kinds
<1>7. CASE CreateAnswered(call)
  BY <1>1, <1>7 DEF CreateAnswered, OfSession
<1> QED
  BY <1>4, <1>5, <1>6, <1>7 DEF CallAnswered, Answered

LEMMA AnsweredLocks ==
    ASSUME LockInv, TypeOK', NEW call \in calls, CallAnswered(call)
    PROVE  LockInv'
<1>1. PICK t, c : t = call.tab /\ c = call.chat
  OBVIOUS
<1>2. TypeOK /\ t \in Tabs /\ c \in Chats /\ call \in Call
  BY <1>1, CallTyped DEF LockInv
<1>3. UNCHANGED <<loginScreen, sessionEpoch, dialog, load, turn, post, owner>>
  BY AnswerCases DEF storeVars
<1>4. Active(call) => Shows(t, c) /\ load[t].phase = "none" /\ chats[t][c] \in LocalChat
  BY <1>1, <1>2, ActiveAlone, ShownTyped
<1>5. CASE UNCHANGED <<chats, generation>> /\ calls' = calls \ {call}
  BY <1>3, <1>5, IgnoredLocks
<1>6. ASSUME Active(call), NEW new \in LocalChat,
             new.historyRevision = chats[t][c].historyRevision,
             chats' = [chats EXCEPT ![t][c] = new],
             UNCHANGED generation, calls' = calls \ {call}
      PROVE  LockInv'
  <2>1. /\ \A u \in Tabs : DOMAIN chats'[u] = DOMAIN chats[u]
        /\ \A u \in Tabs : \A d \in DOMAIN chats[u] :
              chats'[u][d] = IF u = t /\ d = c THEN new ELSE chats[u][d]
    BY <1>2, <1>4, <1>6, ChatUpdated
  <2>2. SameBut(t, c)
    BY <2>1 DEF SameBut, Shows
  <2>3. chats'[t][c].historyRevision = chats[t][c].historyRevision
    BY <1>2, <1>4, <1>6, <2>1 DEF Shows
  <2> QED
    BY <1>1, <1>3, <1>6, <2>1, <2>2, <2>3, SettledLocks
<1>7. CASE /\ Active(call) /\ chats' = [chats EXCEPT ![t][c] = Verified(call, @)]
           /\ UNCHANGED generation /\ calls' = calls \ {call}
  <2>1. PICK new : new = Verified(call, chats[t][c])
    OBVIOUS
  <2>2. new \in LocalChat /\ new.historyRevision = chats[t][c].historyRevision
    BY <1>2, <1>4, <1>7, <2>1, VerifiedForm
  <2> QED
    BY <1>6, <1>7, <2>1, <2>2
<1>8. CASE /\ Active(call) /\ chats' = Hide(t, c)
           /\ UNCHANGED generation /\ calls' = calls \ {call}
  <2>1. /\ \A u \in Tabs : DOMAIN chats'[u] = IF u = t THEN DOMAIN chats[u] \ {c} ELSE DOMAIN chats[u]
        /\ \A u \in Tabs : \A d \in DOMAIN chats'[u] : chats'[u][d] = chats[u][d]
    BY <1>2, <1>8, ChatHidden
  <2>2. SameBut(t, c)
    BY <2>1 DEF SameBut, Shows
  <2> QED
    BY <1>1, <1>2, <1>3, <1>8, <2>1, <2>2, SettledLocks
<1>9. CASE /\ Active(call) /\ chats' = [chats EXCEPT ![t][c].lifecyclePending = FALSE]
           /\ UNCHANGED generation /\ calls' = calls \ {call}
  <2>1. PICK new : new = [chats[t][c] EXCEPT !.lifecyclePending = FALSE]
    OBVIOUS
  <2>2. new \in LocalChat /\ new.historyRevision = chats[t][c].historyRevision
    BY <1>4, <1>9, <2>1, UnlockedForm
  <2> QED
    BY <1>6, <1>9, <2>1, <2>2
<1>10. CASE Active(call) /\ Reconcile(t, c, {call})
  <2>1. \A other \in calls \ {call} : other.tab = t /\ other.chat = c => ~Active(other)
    BY <1>1, <1>10, ActiveAlone
  <2> QED
    BY <1>2, <1>3, <1>4, <1>10, <2>1, ReconcileLocks
<1>11. CASE /\ call.kind = "create" /\ OfSession(call) /\ call.answer.status = "ok"
            /\ chats' = [chats EXCEPT ![t] = Put(@, c,
                  [serverRevision |-> call.answer.serverRevision, historyRevision |-> 0,
                   messages |-> {}, lifecyclePending |-> FALSE, verified |-> TRUE])]
            /\ UNCHANGED generation /\ calls' = calls \ {call}
  <2>1. PICK new : new = [serverRevision |-> call.answer.serverRevision, historyRevision |-> 0,
                          messages |-> {}, lifecyclePending |-> FALSE, verified |-> TRUE]
    OBVIOUS
  <2>2. new \in LocalChat
    BY <1>2, <2>1 DEF LocalChat, Call, Answer
  <2>3. chats' = [chats EXCEPT ![call.tab] = Put(@, call.chat, new)]
    BY <1>1, <1>11, <2>1
  <2> QED
    BY <1>3, <1>11, <2>2, <2>3, CreateLocks
<1> QED
  BY <1>1, <1>5, <1>7, <1>8, <1>9, <1>10, <1>11, AnswerCases

LEMMA LockSteps == LockInv /\ [Next]_vars => LockInv'
<1> SUFFICES ASSUME LockInv, [Next]_vars PROVE LockInv'
  OBVIOUS
<1>1. TypeOK'
  BY TypesKept DEF LockInv
<1>2. CASE UNCHANGED vars
  BY <1>1, <1>2, IgnoredLocks DEF vars, clientVars, storeVars
<1>3. CASE Next
  BY <1>1, <1>3, UserLocks, GenerationLocks, LoadLocks, PostLocks, ServeLocks, AnsweredLocks DEF Next
<1> QED
  BY <1>2, <1>3

\* Who may change a local chat, and when: see LockInv.
THEOREM LockInvariant == Spec => []LockInv
<1>1. Init => LockInv
  <2> SUFFICES ASSUME Init PROVE LockInv
    OBVIOUS
  <2>1. TypeOK
    BY InitTypes
  <2>2. /\ calls = {} /\ \A t \in Tabs : /\ loginScreen[t] /\ generation[t] = NoGeneration
                                         /\ dialog[t] = NoDialog /\ chats[t] = EmptyMap
                                         /\ load[t].phase = "list"
    BY DEF Init, ClientInit
  <2>3. SessionInv /\ CreateInv /\ PendingInv
    BY <2>2 DEF SessionInv, CreateInv, PendingInv, NoDialog, Kinds
  <2>4. BirthInv
    BY <2>2 DEF BirthInv, NoDialog, Kinds, EmptyMap
  <2>5. SendButtonComesBack /\ NoGenerationWhilePending
    BY <2>2 DEF SendButtonComesBack, NoGenerationWhilePending, NoGeneration, EmptyMap
  <2> QED
    BY <2>1, <2>3, <2>4, <2>5 DEF LockInv
<1> QED
  BY <1>1, LockSteps, PTL DEF Spec

\* The send button comes back whenever a generation has become obsolete.
THEOREM ObsoleteGenerationsLeave == Spec => []SendButtonComesBack
<1>1. LockInv => SendButtonComesBack
  BY DEF LockInv
<1> QED
  BY <1>1, LockInvariant, PTL

\* Nobody generates for a chat that is being cleared, deleted or verified.
THEOREM LockedChatsAreQuiet == Spec => []NoGenerationWhilePending
<1>1. LockInv => NoGenerationWhilePending
  BY DEF LockInv
<1> QED
  BY <1>1, LockInvariant, PTL

-----------------------------------------------------------------------------
(* What the local and the stored histories hold.                           *)

\* The turns that were sent stay what they were.
TurnsStay == \A n \in DOMAIN turn : n \in DOMAIN turn' /\ turn'[n] = turn[n]

LEMMA SentStays ==
    ASSUME TurnsStay, NEW m, NEW c, NEW r, SentAt(m, c, r)
    PROVE  SentAt(m, c, r)'
  BY DEF TurnsStay, SentAt

\* Generations that go on with a chat at the same revision.
LEMMA GenerationSentStays ==
    ASSUME LockInv, ContentInv, TurnsStay,
           \A u \in Tabs :
               \/ generation'[u] = NoGeneration
               \/ /\ generation[u] # NoGeneration /\ generation'[u].turn = generation[u].turn
                  /\ chats'[u][turn[generation[u].turn].chat].serverRevision =
                        chats[u][turn[generation[u].turn].chat].serverRevision
    PROVE  GenerationSent'
<1> SUFFICES ASSUME NEW u \in Tabs, generation'[u] # NoGeneration
             PROVE  turn'[generation'[u].turn].expectedRevision =
                        chats'[u][turn'[generation'[u].turn].chat].serverRevision
  BY DEF GenerationSent
<1>1. generation[u] # NoGeneration /\ generation'[u].turn = generation[u].turn
  OBVIOUS
<1>2. turn'[generation[u].turn] = turn[generation[u].turn]
  BY <1>1, GenerationTyped DEF LockInv, TurnsStay
<1> QED
  BY <1>1, <1>2 DEF ContentInv, GenerationSent

\* One local copy is replaced by another of one revision.
LEMMA LocalSentUpdated ==
    ASSUME LockInv, ContentInv, TurnsStay, NEW t \in Tabs, NEW c, Shows(t, c), NEW new \in LocalChat,
           chats' = [chats EXCEPT ![t][c] = new],
           \A m \in new.messages : SentAt(m, c, new.serverRevision)
    PROVE  LocalSent'
<1>1. /\ \A u \in Tabs : DOMAIN chats'[u] = DOMAIN chats[u]
      /\ \A u \in Tabs : \A d \in DOMAIN chats[u] :
            chats'[u][d] = IF u = t /\ d = c THEN new ELSE chats[u][d]
  BY ChatUpdated DEF LockInv
<1> SUFFICES ASSUME NEW u \in Tabs, NEW d \in DOMAIN chats'[u], NEW m \in chats'[u][d].messages
             PROVE  SentAt(m, d, chats[u][d].serverRevision)'
  BY DEF LocalSent
<1>2. PICK r : r = chats'[u][d].serverRevision
  OBVIOUS
<1>3. SentAt(m, d, r)
  BY <1>1, <1>2 DEF ContentInv, LocalSent
<1>4. SentAt(m, d, r)'
  BY <1>3, SentStays
<1> QED
  BY <1>2, <1>4 DEF SentAt

\* Turns, loads and the store as before, and no answer with messages that was not there.
LEMMA ContentElsewhere ==
    ASSUME ContentInv, UNCHANGED <<turn, load, history, revision>>,
           \A call \in calls' : call \in calls \/ call.answer.messages = {}
    PROVE  RowsSent' /\ ContextsSent' /\ FoundSent' /\ AnswersSent'
<1>1. \A m, c, r : SentAt(m, c, r) => SentAt(m, c, r)'
  BY DEF SentAt
<1>2. RowsSent' /\ ContextsSent'
  BY DEF ContentInv, RowsSent, ContextsSent, SentAt
<1>3. FoundSent'
  BY DEF ContentInv, FoundSent, SentAt
<1>4. AnswersSent'
  BY DEF ContentInv, AnswersSent, SentAt
<1> QED
  BY <1>2, <1>3, <1>4

\* A step of a page that replaces one local copy, by one of the same revision.
LEMMA SameRevisionContent ==
    ASSUME LockInv, ContentInv, NEW t \in Tabs, NEW c, Shows(t, c), NEW new \in LocalChat,
           chats' = [chats EXCEPT ![t][c] = new],
           new.serverRevision = chats[t][c].serverRevision,
           \A m \in new.messages : m \in chats[t][c].messages \/ SentAt(m, c, new.serverRevision),
           \A u \in Tabs : generation'[u] = NoGeneration
               \/ (generation[u] # NoGeneration /\ generation'[u].turn = generation[u].turn),
           \A call \in calls' : call \in calls \/ call.answer.messages = {},
           PostsSent', UNCHANGED <<turn, load, history, revision>>
    PROVE  ContentInv'
<1>1. TurnsStay
  BY DEF TurnsStay
<1>2. \A m \in new.messages : SentAt(m, c, new.serverRevision)
  BY DEF ContentInv, LocalSent, Shows
<1>3. LocalSent'
  BY <1>1, <1>2, LocalSentUpdated
<1>4. /\ \A u \in Tabs : DOMAIN chats'[u] = DOMAIN chats[u]
      /\ \A u \in Tabs : \A d \in DOMAIN chats[u] :
            chats'[u][d] = IF u = t /\ d = c THEN new ELSE chats[u][d]
  BY ChatUpdated DEF LockInv
<1>5. \A u \in Tabs : \A d \in DOMAIN chats[u] :
        chats'[u][d].serverRevision = chats[u][d].serverRevision
  BY <1>4
<1>6. \A u \in Tabs : generation[u] # NoGeneration => turn[generation[u].turn].chat \in DOMAIN chats[u]
  BY Generating
<1>7. GenerationSent'
  BY <1>1, <1>5, <1>6, GenerationSentStays
<1> QED
  BY <1>3, <1>7, ContentElsewhere DEF ContentInv

\* A step that leaves the histories alone.
LEMMA SameContent ==
    ASSUME LockInv, ContentInv, UNCHANGED <<chats, turn, load, history, revision>>,
           \A u \in Tabs : generation'[u] = NoGeneration
               \/ (generation[u] # NoGeneration /\ generation'[u].turn = generation[u].turn),
           \A call \in calls' : call \in calls \/ call.answer.messages = {},
           PostsSent'
    PROVE  ContentInv'
<1>1. TurnsStay
  BY DEF TurnsStay
<1>2. LocalSent'
  BY DEF ContentInv, LocalSent, SentAt
<1>3. GenerationSent'
  BY <1>1, GenerationSentStays
<1> QED
  BY <1>2, <1>3, ContentElsewhere DEF ContentInv

LEMMA PostsKept ==
    ASSUME ContentInv, TurnsStay, UNCHANGED post
    PROVE  PostsSent'
  BY DEF ContentInv, PostsSent, TurnsStay

-----------------------------------------------------------------------------
(* The pages.                                                              *)

LEMMA SendMessageContent ==
    ASSUME LockInv, ContentInv, TypeOK', NEW t \in Tabs, NEW c \in Chats, NEW n \in Turns,
           SendMessage(t, c, n), UNCHANGED storeVars
    PROVE  ContentInv'
<1>1. /\ Shows(t, c) /\ n \notin DOMAIN turn
      /\ UNCHANGED <<chats, load, post, calls, history, revision>>
  BY DEF SendMessage, Usable, storeVars
<1>2. /\ TurnsStay /\ DOMAIN turn' = DOMAIN turn \union {n}
      /\ turn'[n].chat = c /\ turn'[n].expectedRevision = chats[t][c].serverRevision
      /\ turn'[n].context = chats[t][c].messages
  BY <1>1 DEF SendMessage, Put, TurnsStay
<1>3. PostsSent'
  BY <1>1, <1>2, PostsKept
<1>4. \A m, d, r : SentAt(m, d, r) => SentAt(m, d, r)'
  BY <1>2, SentStays
<1>5. RowsSent'
  <2> SUFFICES ASSUME NEW d \in Chats, NEW row \in history'[d]
               PROVE  SentAt(row.message, d, revision[d])'
    BY DEF RowsSent
  <2>1. PICK m, r : m = row.message /\ r = revision[d]
    OBVIOUS
  <2>2. SentAt(m, d, r)
    BY <1>1, <2>1 DEF ContentInv, RowsSent
  <2>3. SentAt(m, d, r)'
    BY <1>4, <2>2
  <2> QED
    BY <1>1, <2>1, <2>3 DEF SentAt
<1>6. ContextsSent'
  <2> SUFFICES ASSUME NEW k \in DOMAIN turn', NEW m \in turn'[k].context
               PROVE  SentAt(m, turn[k].chat, turn[k].expectedRevision)'
    BY DEF ContextsSent
  <2>1. PICK d, r : d = turn'[k].chat /\ r = turn'[k].expectedRevision
    OBVIOUS
  <2>2. SentAt(m, d, r)
    <3>1. CASE k = n
      BY <1>1, <1>2, <2>1, <3>1 DEF ContentInv, LocalSent, Shows
    <3>2. CASE k # n
      BY <1>2, <2>1, <3>2 DEF ContentInv, ContextsSent, TurnsStay
    <3> QED
      BY <3>1, <3>2
  <2>3. SentAt(m, d, r)'
    BY <1>4, <2>2
  <2> QED
    BY <2>1, <2>3 DEF SentAt
<1>7. LocalSent'
  <2> SUFFICES ASSUME NEW u \in Tabs, NEW d \in DOMAIN chats[u], NEW m \in chats[u][d].messages
               PROVE  SentAt(m, d, chats[u][d].serverRevision)'
    BY <1>1 DEF LocalSent
  <2>1. PICK r : r = chats[u][d].serverRevision
    OBVIOUS
  <2>2. SentAt(m, d, r)'
    BY <1>4, <2>1 DEF ContentInv, LocalSent
  <2> QED
    BY <1>1, <2>1, <2>2 DEF SentAt
<1>8. FoundSent'
  <2> SUFFICES ASSUME NEW u \in Tabs, load[u].phase = "histories", NEW d \in DOMAIN load[u].found,
                      NEW m \in load[u].found[d].messages
               PROVE  SentAt(m, d, load[u].found[d].serverRevision)'
    BY <1>1 DEF FoundSent
  <2>1. PICK r : r = load[u].found[d].serverRevision
    OBVIOUS
  <2>2. SentAt(m, d, r)'
    BY <1>4, <2>1 DEF ContentInv, FoundSent
  <2> QED
    BY <1>1, <2>1, <2>2 DEF SentAt
<1>9. AnswersSent'
  <2> SUFFICES ASSUME NEW call \in calls, NEW m \in call.answer.messages
               PROVE  SentAt(m, call.chat, call.answer.serverRevision)'
    BY <1>1 DEF AnswersSent
  <2>1. SentAt(m, call.chat, call.answer.serverRevision)
    BY DEF ContentInv, AnswersSent
  <2> QED
    BY <1>4, <2>1
<1>10. GenerationSent'
  <2>1. /\ generation'[t].turn = n
        /\ \A u \in Tabs : u # t => generation'[u] = generation[u]
    BY DEF SendMessage, LockInv, TypeOK, ClientTypeOK
  <2>2. \A u \in Tabs : u # t /\ generation[u] # NoGeneration =>
            turn'[generation[u].turn] = turn[generation[u].turn]
    BY <1>2, GenerationTyped DEF LockInv, TurnsStay
  <2> QED
    BY <1>1, <1>2, <2>1, <2>2 DEF ContentInv, GenerationSent
<1> QED
  BY <1>3, <1>5, <1>6, <1>7, <1>8, <1>9, <1>10 DEF ContentInv

\* A reconciliation takes the messages away and asks for others.
LEMMA ReconcileContent ==
    ASSUME LockInv, ContentInv, NEW t \in Tabs, NEW c, Shows(t, c), NEW done,
           Reconcile(t, c, done), UNCHANGED <<turn, load, post, storeVars>>
    PROVE  ContentInv'
<1>1. chats[t][c] \in LocalChat
  BY ShownTyped DEF LockInv
<1>2. PICK new : new = Discarded(chats[t][c])
  OBVIOUS
<1>3. new \in LocalChat /\ new.serverRevision = chats[t][c].serverRevision /\ new.messages = {}
  BY <1>1, <1>2, LocalForms
<1>4. chats' = [chats EXCEPT ![t][c] = new]
  BY <1>2 DEF Reconcile
<1>5. PICK fresh : fresh = Fetch("reconcile", t, c, sessionEpoch[t], chats[t][c].historyRevision + 1)
  OBVIOUS
<1>6. fresh.answer.messages = {} /\ calls' = (calls \ done) \union {fresh}
  BY <1>5, FetchForm DEF Reconcile
<1>7. \A u \in Tabs : generation'[u] \in {generation[u], NoGeneration}
  BY DEF Reconcile, Invalidated, LockInv, TypeOK, ClientTypeOK
<1>8. PostsSent' /\ UNCHANGED <<history, revision>>
  BY PostsKept DEF TurnsStay, storeVars
<1> QED
  BY <1>3, <1>4, <1>6, <1>7, <1>8, SameRevisionContent

LEMMA ConfirmedContent ==
    ASSUME LockInv, ContentInv, NEW t \in Tabs, LifecycleConfirmed(t), UNCHANGED storeVars
    PROVE  ContentInv'
<1>1. PICK c : c = dialog[t].chat
  OBVIOUS
<1> DEFINE here == dialog[t].epoch = sessionEpoch[t] /\ Shows(t, c)
<1>2. PICK captured : calls' = calls \union {Fetch(dialog[t].kind, t, c, dialog[t].epoch, captured)}
  BY <1>1 DEF LifecycleConfirmed
<1>3. PICK fresh : fresh.answer.messages = {} /\ calls' = calls \union {fresh}
  BY <1>2, FetchForm
<1>4. \A u \in Tabs : generation'[u] \in {generation[u], NoGeneration}
  BY DEF LifecycleConfirmed, Invalidated, LockInv, TypeOK, ClientTypeOK
<1>5. UNCHANGED <<turn, load, post, history, revision>>
  BY DEF LifecycleConfirmed, storeVars
<1>6. PostsSent'
  BY <1>5, PostsKept DEF TurnsStay
<1>7. CASE here
  <2>1. Shows(t, c) /\ chats[t][c] \in LocalChat
    BY <1>1, <1>7, ShownTyped DEF LockInv
  <2>2. PICK new : new = Locked(chats[t][c])
    OBVIOUS
  <2>3. /\ new \in LocalChat /\ new.serverRevision = chats[t][c].serverRevision
        /\ new.messages = chats[t][c].messages
    BY <2>1, <2>2, LocalForms
  <2>4. chats' = [chats EXCEPT ![t][c] = new]
    BY <1>1, <1>7, <2>2 DEF LifecycleConfirmed
  <2> QED
    BY <1>3, <1>4, <1>5, <1>6, <2>1, <2>3, <2>4, SameRevisionContent
<1>8. CASE ~here
  BY <1>1, <1>3, <1>4, <1>5, <1>6, <1>8, SameContent DEF LifecycleConfirmed
<1> QED
  BY <1>7, <1>8

LEMMA UserContent ==
    ASSUME LockInv, ContentInv, TypeOK', NEW t \in Tabs, UserActs(t)
    PROVE  ContentInv'
<1> USE DEF UserActs
<1>1. ASSUME NEW c \in Chats, NewChat(t, c)
      PROVE  ContentInv'
  <2>1. UNCHANGED <<chats, turn, load, post, history, revision, generation>>
    BY <1>1 DEF NewChat, storeVars
  <2>2. PICK fresh : fresh = Fetch("create", t, c, sessionEpoch[t], 0)
    OBVIOUS
  <2>3. fresh.answer.messages = {} /\ calls' = calls \union {fresh}
    BY <1>1, <2>2, FetchForm DEF NewChat
  <2>4. PostsSent'
    BY <2>1, PostsKept DEF TurnsStay
  <2> QED
    BY <2>1, <2>3, <2>4, SameContent
<1>2. CASE \/ \E c \in Chats, kind \in Kinds : LifecycleClick(t, c, kind)
           \/ DialogDismissed(t)
  <2>1. UNCHANGED <<chats, turn, load, post, history, revision, generation, calls>>
    BY <1>2 DEF LifecycleClick, DialogDismissed, storeVars
  <2>2. PostsSent'
    BY <2>1, PostsKept DEF TurnsStay
  <2> QED
    BY <2>1, <2>2, SameContent
<1>3. ASSUME NEW next \in [phase : {"login", "logout"}], ReplaceSession(t, next)
      PROVE  ContentInv'
  <2>1. UNCHANGED <<chats, turn, post, calls, history, revision>>
    BY <1>3 DEF ReplaceSession, storeVars
  <2>2. \A u \in Tabs : generation'[u] \in {generation[u], NoGeneration}
    BY <1>3 DEF ReplaceSession, LockInv, TypeOK, ClientTypeOK
  <2>3. TurnsStay
    BY <2>1 DEF TurnsStay
  <2>4. PostsSent' /\ GenerationSent'
    BY <2>1, <2>2, <2>3, PostsKept, GenerationSentStays
  <2>5. \A u \in Tabs : load'[u].phase = "histories" =>
            load[u].phase = "histories" /\ load'[u].found = load[u].found
    BY <1>3 DEF ReplaceSession, LockInv, TypeOK, ClientTypeOK
  <2>6. FoundSent'
    BY <2>1, <2>5 DEF ContentInv, FoundSent, SentAt
  <2>7. RowsSent' /\ ContextsSent' /\ LocalSent' /\ AnswersSent'
    BY <2>1 DEF ContentInv, RowsSent, ContextsSent, LocalSent, AnswersSent, SentAt
  <2> QED
    BY <2>4, <2>6, <2>7 DEF ContentInv
<1>4. [phase |-> "login"] \in [phase : {"login", "logout"}]
      /\ [phase |-> "logout"] \in [phase : {"login", "logout"}]
  OBVIOUS
<1> QED
  BY <1>1, <1>2, <1>3, <1>4, SendMessageContent, ConfirmedContent DEF LoginSubmitted, LogoutClicked

\* A message is shown in the chat, and at the revision, that its turn was sent for.
LEMMA PushContent ==
    ASSUME LockInv, ContentInv, NEW t \in Tabs, generation[t] # NoGeneration,
           NEW role \in Roles, Push(t, role),
           \A u \in Tabs : generation'[u] = NoGeneration
               \/ (generation[u] # NoGeneration /\ generation'[u].turn = generation[u].turn),
           UNCHANGED <<turn, load, calls, storeVars>>
    PROVE  ContentInv'
<1>1. PICK n, c, m : n = generation[t].turn /\ c = turn[n].chat /\ m = <<n, role>>
  OBVIOUS
<1>2. /\ TypeOK /\ Shows(t, c) /\ chats[t][c] \in LocalChat /\ generation[t] \in Generation
      /\ n \in DOMAIN turn
  BY <1>1, Generating, ShownTyped, GenerationTyped DEF LockInv, Shows
<1>3. m \in Messages /\ m[1] = n
  BY <1>1, <1>2 DEF Generation
<1>4. PICK new : new = [chats[t][c] EXCEPT !.messages = @ \union {m}]
  OBVIOUS
<1>5. /\ new \in LocalChat /\ new.serverRevision = chats[t][c].serverRevision
      /\ new.messages = chats[t][c].messages \union {m}
  BY <1>2, <1>3, <1>4, PushedForm
<1>6. chats' = [chats EXCEPT ![t][c] = new] /\ post' = [post EXCEPT ![m] = "sent"]
  BY <1>1, <1>4 DEF Push
<1>7. SentAt(m, c, new.serverRevision)
  BY <1>1, <1>2, <1>3, <1>5 DEF SentAt, ContentInv, GenerationSent
<1>8. PostsSent'
  BY <1>2, <1>3, <1>6 DEF ContentInv, PostsSent, TypeOK, ClientTypeOK
<1>9. UNCHANGED <<history, revision>>
  BY DEF storeVars
<1> QED
  BY <1>2, <1>5, <1>6, <1>7, <1>8, <1>9, SameRevisionContent

LEMMA GenerationContent ==
    ASSUME LockInv, ContentInv, NEW t \in Tabs, GenerationMoves(t)
    PROVE  ContentInv'
<1>1. /\ TypeOK /\ generation[t] # NoGeneration /\ generation[t] \in Generation
      /\ UNCHANGED <<turn, load, storeVars>>
  BY GenerationTyped DEF GenerationMoves, AttachmentRead, AttachmentUnreadable, PromptSaved, AnswerEnds,
     AnswerSaved, At, LockInv
<1>2. ASSUME \/ generation' = [generation EXCEPT ![t] = NoGeneration]
             \/ \E phase \in {"saving-prompt", "answering", "saving-answer"} :
                    generation' = [generation EXCEPT ![t].phase = phase]
      PROVE  \A u \in Tabs : generation'[u] = NoGeneration
                 \/ (generation[u] # NoGeneration /\ generation'[u].turn = generation[u].turn)
  BY <1>1, <1>2 DEF Generation, TypeOK, ClientTypeOK
<1>3. ASSUME UNCHANGED <<chats, calls, post>>,
             \/ generation' = [generation EXCEPT ![t] = NoGeneration]
             \/ \E phase \in {"saving-prompt", "answering", "saving-answer"} :
                    generation' = [generation EXCEPT ![t].phase = phase]
      PROVE  ContentInv'
  <2>1. PostsSent' /\ UNCHANGED <<history, revision>>
    BY <1>1, <1>3, PostsKept DEF TurnsStay, storeVars
  <2> QED
    BY <1>1, <1>2, <1>3, <2>1, SameContent
<1>4. ASSUME Reconcile(t, turn[generation[t].turn].chat, {}), UNCHANGED post
      PROVE  ContentInv'
  BY <1>1, <1>4, Generating, ReconcileContent DEF Shows
<1>5. CASE AttachmentRead(t)
  BY <1>1, <1>2, <1>5, PushContent DEF AttachmentRead, Roles
<1>6. CASE AttachmentUnreadable(t)
  BY <1>3, <1>6 DEF AttachmentUnreadable
<1>7. CASE PromptSaved(t)
  BY <1>3, <1>4, <1>7 DEF PromptSaved
<1>8. CASE AnswerEnds(t)
  <2>1. CASE generation' = [generation EXCEPT ![t] = NoGeneration] /\ UNCHANGED <<chats, post>>
    BY <1>3, <1>8, <2>1 DEF AnswerEnds
  <2>2. CASE /\ Push(t, "assistant")
             /\ generation' = [generation EXCEPT ![t].phase = "saving-answer"]
    BY <1>1, <1>2, <1>8, <2>2, PushContent DEF AnswerEnds, Roles
  <2> QED
    BY <1>8, <2>1, <2>2 DEF AnswerEnds
<1>9. CASE AnswerSaved(t)
  BY <1>3, <1>4, <1>9 DEF AnswerSaved
<1> QED
  BY <1>5, <1>6, <1>7, <1>8, <1>9 DEF GenerationMoves

\* Of what a tab loads, each history was one revision's when it was read.
LEMMA LoadContent ==
    ASSUME LockInv, ContentInv, NEW t \in Tabs, LoadMoves(t)
    PROVE  ContentInv'
<1>1. /\ generation[t] = NoGeneration /\ load[t].phase # "none"
      /\ UNCHANGED <<generation, turn, post, calls, history, revision>>
  BY DEF LoadMoves, SessionAnswered, LoadFails, ListLoaded, HistoryLoaded, StoreInstalled, storeVars,
     LockInv, SessionInv
<1>2. \A u \in Tabs : u # t => chats'[u] = chats[u] /\ load'[u] = load[u]
  BY DEF LoadMoves, SessionAnswered, LoadFails, ListLoaded, HistoryLoaded, StoreInstalled,
     LockInv, TypeOK, ClientTypeOK
<1>3. PostsSent' /\ TurnsStay
  BY <1>1, PostsKept DEF TurnsStay
<1>4. RowsSent' /\ ContextsSent' /\ AnswersSent'
  BY <1>1 DEF ContentInv, RowsSent, ContextsSent, AnswersSent, SentAt
<1>5. GenerationSent'
  BY <1>1, <1>2, <1>3, GenerationSentStays
<1>6. ASSUME \A c \in DOMAIN chats'[t] : \A m \in chats'[t][c].messages :
                 SentAt(m, c, chats'[t][c].serverRevision)
      PROVE  LocalSent'
  <2> SUFFICES ASSUME NEW u \in Tabs, NEW c \in DOMAIN chats'[u], NEW m \in chats'[u][c].messages
               PROVE  SentAt(m, c, chats[u][c].serverRevision)'
    BY DEF LocalSent
  <2>1. PICK r : r = chats'[u][c].serverRevision
    OBVIOUS
  <2>2. SentAt(m, c, r)
    BY <1>2, <1>6, <2>1 DEF ContentInv, LocalSent
  <2> QED
    BY <1>1, <2>1, <2>2 DEF SentAt
<1>7. ASSUME load'[t].phase = "histories" =>
                 \A c \in DOMAIN load'[t].found : \A m \in load'[t].found[c].messages :
                     SentAt(m, c, load'[t].found[c].serverRevision)
      PROVE  FoundSent'
  <2> SUFFICES ASSUME NEW u \in Tabs, load'[u].phase = "histories",
                      NEW c \in DOMAIN load'[u].found, NEW m \in load'[u].found[c].messages
               PROVE  SentAt(m, c, load[u].found[c].serverRevision)'
    BY DEF FoundSent
  <2>1. PICK r : r = load'[u].found[c].serverRevision
    OBVIOUS
  <2>2. SentAt(m, c, r)
    BY <1>2, <1>7, <2>1 DEF ContentInv, FoundSent
  <2> QED
    BY <1>1, <2>1, <2>2 DEF SentAt
<1>8. ASSUME chats'[t] = chats[t]
      PROVE  LocalSent'
  BY <1>6, <1>8 DEF ContentInv, LocalSent
<1>9. CASE SessionAnswered(t)
  <2>1. chats'[t] = EmptyMap /\ DOMAIN EmptyMap = {} /\ load'[t].phase # "histories"
    BY <1>9 DEF SessionAnswered, EmptyMap, LockInv, TypeOK, ClientTypeOK
  <2> QED
    BY <1>3, <1>4, <1>5, <1>6, <1>7, <2>1 DEF ContentInv
<1>10. CASE LoadFails(t)
  <2>1. chats'[t] = chats[t] /\ load'[t].phase # "histories"
    BY <1>10 DEF LoadFails, NoLoad, LockInv, TypeOK, ClientTypeOK
  <2> QED
    BY <1>3, <1>4, <1>5, <1>7, <1>8, <2>1 DEF ContentInv
<1>11. CASE ListLoaded(t)
  <2>1. chats'[t] = chats[t] /\ load'[t].found = EmptyMap /\ DOMAIN EmptyMap = {}
    BY <1>11 DEF ListLoaded, EmptyMap, LockInv, TypeOK, ClientTypeOK
  <2> QED
    BY <1>3, <1>4, <1>5, <1>7, <1>8, <2>1 DEF ContentInv
<1>12. CASE HistoryLoaded(t)
  <2>1. PICK c \in load[t].missing :
            load' = [load EXCEPT ![t].missing = @ \ {c}, ![t].found = Put(@, c, Snapshot(c))]
    BY <1>12 DEF HistoryLoaded
  <2>2. chats'[t] = chats[t] /\ load[t].phase = "histories" /\ c \in Chats
    BY <1>12, <2>1 DEF HistoryLoaded, LockInv, TypeOK, ClientTypeOK
  <2>3. load'[t].found = Put(load[t].found, c, Snapshot(c))
    BY <2>1, <2>2 DEF LockInv, TypeOK, ClientTypeOK
  <2>4. \A m \in Snapshot(c).messages : SentAt(m, c, Snapshot(c).serverRevision)
    BY <2>2 DEF Snapshot, ContentInv, RowsSent
  <2>5. /\ DOMAIN load'[t].found = DOMAIN load[t].found \union {c}
        /\ load'[t].found[c] = Snapshot(c)
        /\ \A d \in DOMAIN load[t].found : d # c => load'[t].found[d] = load[t].found[d]
    BY <2>3 DEF Put
  <2>6. \A d \in DOMAIN load'[t].found : \A m \in load'[t].found[d].messages :
            SentAt(m, d, load'[t].found[d].serverRevision)
    BY <2>2, <2>4, <2>5 DEF ContentInv, FoundSent
  <2> QED
    BY <1>3, <1>4, <1>5, <1>7, <1>8, <2>2, <2>6 DEF ContentInv
<1>13. CASE StoreInstalled(t)
  <2>1. load[t].phase = "histories" /\ load'[t].phase # "histories"
    BY <1>13 DEF StoreInstalled, NoLoad, LockInv, TypeOK, ClientTypeOK
  <2>2. /\ DOMAIN chats'[t] = DOMAIN load[t].found
        /\ \A c \in DOMAIN chats'[t] :
            /\ chats'[t][c].messages = load[t].found[c].messages
            /\ chats'[t][c].serverRevision = load[t].found[c].serverRevision
    BY <1>13 DEF StoreInstalled, LockInv, TypeOK, ClientTypeOK
  <2> QED
    BY <1>3, <1>4, <1>5, <1>6, <1>7, <2>1, <2>2 DEF ContentInv, FoundSent
<1> QED
  BY <1>9, <1>10, <1>11, <1>12, <1>13 DEF LoadMoves

-----------------------------------------------------------------------------
(* The server.                                                             *)

\* A message is stored at the revision it was sent for, or not at all.
LEMMA PostContent ==
    ASSUME LockInv, ContentInv, NEW m \in Messages, ServePost(m)
    PROVE  ContentInv'
<1>1. PICK c, r : c = turn[m[1]].chat /\ r = turn[m[1]].expectedRevision
  OBVIOUS
<1>2. UNCHANGED <<chats, generation, load, turn, calls, revision>> /\ post[m] = "sent"
  BY DEF ServePost, CreateMessage, storeVars
<1>3. m[1] \in DOMAIN turn
  BY <1>2 DEF ContentInv, PostsSent
<1>4. c \in Chats /\ SentAt(m, c, r)
  BY <1>1, <1>3 DEF SentAt, LockInv, TypeOK, ClientTypeOK, IsMap, Sent
<1>5. PostsSent'
  BY <1>2, <1>3 DEF ServePost, ContentInv, PostsSent, LockInv, TypeOK, ClientTypeOK
<1>6. RowsSent'
  <2>1. CASE UNCHANGED history
    BY <1>2, <2>1 DEF ContentInv, RowsSent, SentAt
  <2>2. ASSUME NEW u \in Users, CreateMessage(c, u, m, r)
        PROVE  RowsSent'
    <3>1. /\ revision[c] = r
          /\ \A d \in Chats : d # c => history'[d] = history[d]
          /\ history'[c] = history[c] \union {[message |-> m, at |-> r]}
      BY <1>4, <2>2 DEF CreateMessage, Insert, LockInv, TypeOK, StoreTypeOK
    <3>2. \A d \in Chats : \A row \in history'[d] : SentAt(row.message, d, revision[d])
      BY <1>4, <3>1 DEF ContentInv, RowsSent
    <3> QED
      BY <1>2, <3>2 DEF RowsSent, SentAt
  <2> QED
    BY <1>1, <2>1, <2>2 DEF ServePost, storeVars
<1>7. ContextsSent' /\ LocalSent' /\ FoundSent' /\ AnswersSent'
  BY <1>2 DEF ContentInv, ContextsSent, LocalSent, FoundSent, AnswersSent, SentAt
<1>8. GenerationSent'
  BY <1>2 DEF ContentInv, GenerationSent
<1> QED
  BY <1>5, <1>6, <1>7, <1>8 DEF ContentInv

\* What a request does to a history: nothing, or away with it.
LEMMA ServeHistory ==
    ASSUME TypeOK, NEW call \in calls, NEW status, Serve(call, status)
    PROVE  \A c \in Chats : \/ history'[c] = {}
                            \/ history'[c] = history[c] /\ revision'[c] = revision[c]
<1>1. call.chat \in Chats
  BY CallTyped
<1>2. ASSUME NEW u \in Users, ClearChatMessages(call.chat, u)
      PROVE  \A c \in Chats : \/ history'[c] = {}
                              \/ history'[c] = history[c] /\ revision'[c] = revision[c]
  BY <1>1, <1>2 DEF ClearChatMessages, TypeOK, StoreTypeOK
<1>3. ASSUME NEW u \in Users, CreateChat(call.chat, u) \/ DeleteChat(call.chat, u)
      PROVE  \A c \in Chats : \/ history'[c] = {}
                              \/ history'[c] = history[c] /\ revision'[c] = revision[c]
  BY <1>1, <1>3 DEF CreateChat, DeleteChat, TypeOK, StoreTypeOK
<1> QED
  BY <1>2, <1>3 DEF Serve, storeVars

LEMMA ServeContent ==
    ASSUME LockInv, ContentInv, NEW call \in calls, ServeCall(call)
    PROVE  ContentInv'
<1>1. TypeOK /\ call \in Call /\ call.chat \in Chats
  BY CallTyped DEF LockInv
<1>2. PICK status \in {"ok", "gone", "failed"}, answer \in Answer :
          /\ Serve(call, status)
          /\ calls' = (calls \ {call}) \union {[call EXCEPT !.answer = answer]}
          /\ answer.status = "ok" => /\ answer.serverRevision = revision'[call.chat]
                                     /\ answer.messages = {row.message : row \in history'[call.chat]}
          /\ answer.status # "ok" => answer.messages = {}
  BY <1>1, ServeForm
<1>3. PICK served : served = [call EXCEPT !.answer = answer]
  OBVIOUS
<1>4. served.chat = call.chat /\ served.answer = answer
  BY <1>1, <1>3, ServedForm
<1>5. calls' = (calls \ {call}) \union {served}
  BY <1>2, <1>3
<1>6. UNCHANGED <<chats, generation, load, turn, post>>
  BY DEF ServeCall
<1>7. \A c \in Chats : \A row \in history'[c] : SentAt(row.message, c, revision'[c])
  <2>1. \A c \in Chats : \/ history'[c] = {}
                         \/ history'[c] = history[c] /\ revision'[c] = revision[c]
    BY <1>1, <1>2, ServeHistory
  <2> QED
    BY <2>1 DEF ContentInv, RowsSent
<1>8. RowsSent'
  BY <1>6, <1>7 DEF RowsSent, SentAt
<1>9. AnswersSent'
  <2>1. \A m \in answer.messages : SentAt(m, call.chat, answer.serverRevision)
    BY <1>1, <1>2, <1>7
  <2>2. \A other \in calls' : \A m \in other.answer.messages :
            SentAt(m, other.chat, other.answer.serverRevision)
    BY <1>4, <1>5, <2>1 DEF ContentInv, AnswersSent
  <2> QED
    BY <1>6, <2>2 DEF AnswersSent, SentAt
<1>10. PostsSent' /\ GenerationSent'
  BY <1>6 DEF ContentInv, PostsSent, GenerationSent
<1>11. ContextsSent' /\ LocalSent' /\ FoundSent'
  BY <1>6 DEF ContentInv, ContextsSent, LocalSent, FoundSent, SentAt
<1> QED
  BY <1>8, <1>9, <1>10, <1>11 DEF ContentInv

-----------------------------------------------------------------------------
(* Answers.                                                                *)

LEMMA AnsweredContent ==
    ASSUME LockInv, ContentInv, NEW call \in calls, CallAnswered(call)
    PROVE  ContentInv'
<1>1. PICK t, c : t = call.tab /\ c = call.chat
  OBVIOUS
<1>2. TypeOK /\ t \in Tabs /\ c \in Chats /\ call \in Call
  BY <1>1, CallTyped DEF LockInv
<1>3. UNCHANGED <<turn, load, post, history, revision, storeVars>>
  BY AnswerCases DEF storeVars
<1>4. Active(call) => Shows(t, c) /\ chats[t][c] \in LocalChat /\ ~GeneratesFor(t, c)
  BY <1>1, <1>2, ActiveAlone, ShownTyped
<1>5. PostsSent' /\ TurnsStay
  BY <1>3, PostsKept DEF TurnsStay
<1>6. \A u \in Tabs : generation[u] # NoGeneration =>
        turn[generation[u].turn].chat \in DOMAIN chats[u] /\ (u = t => turn[generation[u].turn].chat # c \/ GeneratesFor(t, c))
  BY <1>2, Generating, GenerationTyped DEF GeneratesFor
<1>7. CASE UNCHANGED <<chats, generation>> /\ calls' = calls \ {call}
  BY <1>3, <1>5, <1>7, SameContent
<1>8. CASE /\ Active(call) /\ chats' = [chats EXCEPT ![t][c] = Verified(call, @)]
           /\ UNCHANGED generation /\ calls' = calls \ {call}
  <2>1. PICK new : new = Verified(call, chats[t][c])
    OBVIOUS
  <2>2. /\ new \in LocalChat /\ new.serverRevision = call.answer.serverRevision
        /\ new.messages = call.answer.messages
    BY <1>2, <1>4, <1>8, <2>1, VerifiedForm
  <2>3. \A m \in new.messages : SentAt(m, c, new.serverRevision)
    BY <1>1, <2>2 DEF ContentInv, AnswersSent
  <2>4. chats' = [chats EXCEPT ![t][c] = new]
    BY <1>8, <2>1
  <2>5. LocalSent'
    BY <1>2, <1>4, <1>5, <1>8, <2>2, <2>3, <2>4, LocalSentUpdated
  <2>6. \A u \in Tabs : \A d \in DOMAIN chats[u] : u # t \/ d # c => chats'[u][d] = chats[u][d]
    BY <1>2, <1>4, <1>8, <2>2, <2>4, ChatUpdated
  <2>7. GenerationSent'
    BY <1>4, <1>5, <1>6, <1>8, <2>6, GenerationSentStays
  <2> QED
    BY <1>3, <1>5, <1>8, <2>5, <2>7, ContentElsewhere DEF ContentInv
<1>9. CASE /\ Active(call) /\ chats' = Hide(t, c)
           /\ UNCHANGED generation /\ calls' = calls \ {call}
  <2>1. /\ \A u \in Tabs : DOMAIN chats'[u] = IF u = t THEN DOMAIN chats[u] \ {c} ELSE DOMAIN chats[u]
        /\ \A u \in Tabs : \A d \in DOMAIN chats'[u] : chats'[u][d] = chats[u][d]
    BY <1>2, <1>9, ChatHidden
  <2>2. LocalSent'
    <3> SUFFICES ASSUME NEW u \in Tabs, NEW d \in DOMAIN chats'[u], NEW m \in chats'[u][d].messages
                 PROVE  SentAt(m, d, chats[u][d].serverRevision)'
      BY DEF LocalSent
    <3>1. d \in DOMAIN chats[u] /\ chats'[u][d] = chats[u][d]
      BY <2>1
    <3>2. SentAt(m, d, chats[u][d].serverRevision)
      BY <3>1 DEF ContentInv, LocalSent
    <3> QED
      BY <1>3, <3>1, <3>2 DEF SentAt
  <2>3. GenerationSent'
    BY <1>4, <1>5, <1>6, <1>9, <2>1, GenerationSentStays
  <2> QED
    BY <1>3, <1>5, <1>9, <2>2, <2>3, ContentElsewhere DEF ContentInv
<1>10. CASE /\ Active(call) /\ chats' = [chats EXCEPT ![t][c].lifecyclePending = FALSE]
            /\ UNCHANGED generation /\ calls' = calls \ {call}
  <2>1. PICK new : new = [chats[t][c] EXCEPT !.lifecyclePending = FALSE]
    OBVIOUS
  <2>2. /\ new \in LocalChat /\ new.serverRevision = chats[t][c].serverRevision
        /\ new.messages = chats[t][c].messages
    BY <1>4, <1>10, <2>1, UnlockedForm
  <2>3. chats' = [chats EXCEPT ![t][c] = new]
    BY <1>10, <2>1
  <2> QED
    BY <1>2, <1>3, <1>4, <1>5, <1>10, <2>2, <2>3, SameRevisionContent
<1>11. CASE Active(call) /\ Reconcile(t, c, {call})
  BY <1>2, <1>3, <1>4, <1>11, ReconcileContent
<1>12. CASE /\ call.kind = "create" /\ OfSession(call) /\ call.answer.status = "ok"
            /\ chats' = [chats EXCEPT ![t] = Put(@, c,
                  [serverRevision |-> call.answer.serverRevision, historyRevision |-> 0,
                   messages |-> {}, lifecyclePending |-> FALSE, verified |-> TRUE])]
            /\ UNCHANGED generation /\ calls' = calls \ {call}
  <2>1. PICK new : new = [serverRevision |-> call.answer.serverRevision, historyRevision |-> 0,
                          messages |-> {}, lifecyclePending |-> FALSE, verified |-> TRUE]
    OBVIOUS
  <2>2. /\ DOMAIN chats'[t] = DOMAIN chats[t] \union {c} /\ chats'[t][c].messages = {}
        /\ \A d \in DOMAIN chats[t] : d # c => chats'[t][d] = chats[t][d]
        /\ \A u \in Tabs : u # t => chats'[u] = chats[u]
    BY <1>2, <1>12 DEF LockInv, TypeOK, ClientTypeOK, Put
  <2>3. ~Shows(t, c)
    BY <1>1, <1>12 DEF LockInv, CreateInv
  <2>4. LocalSent'
    <3> SUFFICES ASSUME NEW u \in Tabs, NEW d \in DOMAIN chats'[u], NEW m \in chats'[u][d].messages
                 PROVE  SentAt(m, d, chats[u][d].serverRevision)'
      BY DEF LocalSent
    <3>1. d \in DOMAIN chats[u] /\ chats'[u][d] = chats[u][d]
      BY <2>2
    <3>2. SentAt(m, d, chats[u][d].serverRevision)
      BY <3>1 DEF ContentInv, LocalSent
    <3> QED
      BY <1>3, <3>1, <3>2 DEF SentAt
  <2>5. GenerationSent'
    BY <1>5, <1>6, <1>12, <2>2, <2>3, GenerationSentStays DEF Shows
  <2> QED
    BY <1>3, <1>5, <1>12, <2>4, <2>5, ContentElsewhere DEF ContentInv
<1> QED
  BY <1>1, <1>7, <1>8, <1>9, <1>10, <1>11, <1>12, AnswerCases

LEMMA ContentSteps == LockInv /\ ContentInv /\ [Next]_vars => ContentInv'
<1> SUFFICES ASSUME LockInv, ContentInv, [Next]_vars PROVE ContentInv'
  OBVIOUS
<1>1. TypeOK'
  BY TypesKept DEF LockInv
<1>2. CASE UNCHANGED vars
  <2>1. UNCHANGED <<chats, turn, load, history, revision, generation, calls, post>>
    BY <1>2 DEF vars, clientVars, storeVars
  <2>2. PostsSent'
    BY <2>1, PostsKept DEF TurnsStay
  <2> QED
    BY <2>1, <2>2, SameContent
<1>3. CASE Next
  BY <1>1, <1>3, UserContent, GenerationContent, LoadContent, PostContent, ServeContent, AnsweredContent
     DEF Next
<1> QED
  BY <1>2, <1>3

\* What the histories hold, wherever they are: see ContentInv.
THEOREM ContentInvariant == Spec => []ContentInv
<1>1. Init => ContentInv
  <2> SUFFICES ASSUME Init PROVE ContentInv
    OBVIOUS
  <2>1. /\ calls = {} /\ \A c \in Chats : history[c] = {}
        /\ \A m \in Messages : post[m] = "unsent"
        /\ turn = EmptyMap /\ DOMAIN EmptyMap = {}
        /\ \A t \in Tabs : /\ generation[t] = NoGeneration /\ chats[t] = EmptyMap
                           /\ load[t].phase = "list"
    BY DEF Init, StoreInit, ClientInit, EmptyMap
  <2>2. PostsSent /\ RowsSent /\ ContextsSent /\ LocalSent
    BY <2>1 DEF PostsSent, RowsSent, ContextsSent, LocalSent
  <2>3. FoundSent /\ AnswersSent /\ GenerationSent
    BY <2>1 DEF FoundSent, AnswersSent, GenerationSent
  <2> QED
    BY <2>2, <2>3 DEF ContentInv
<1> QED
  BY <1>1, LockInvariant, ContentSteps, PTL DEF Spec

\* Whatever is stored, with all that it was built from, is of the chat's present
\* revision: nothing cleared comes back, not even by way of an answer.
THEOREM ClearedStaysCleared == Spec => []NothingClearedComesBack
<1>1. ContentInv => NothingClearedComesBack
  BY DEF ContentInv, RowsSent, ContextsSent, SentAt, NothingClearedComesBack
<1> QED
  BY <1>1, ContentInvariant, PTL

\* What a tab shows of a chat is of the revision that it will send.
THEOREM LocalHistoriesMatch == Spec => []LocalHistoryMatchesRevision
<1>1. ContentInv => LocalHistoryMatchesRevision
  BY DEF ContentInv, LocalSent, SentAt, LocalHistoryMatchesRevision
<1> QED
  BY <1>1, ContentInvariant, PTL

-----------------------------------------------------------------------------
(* The order of revisions.                                                 *)

\* No copy that a tab goes on showing is taken back.
Forward ==
    \A t \in Tabs : \A c \in DOMAIN chats[t] \intersect DOMAIN chats'[t] :
        chats'[t][c].serverRevision >= chats[t][c].serverRevision

LEMMA RevisionTyped ==
    ASSUME TypeOK
    PROVE  /\ \A c \in Chats : revision[c] \in Nat
           /\ \A t \in Tabs : \A c \in DOMAIN chats[t] : c \in Chats /\ chats[t][c].serverRevision \in Nat
           /\ \A t \in Tabs : load[t].phase = "histories" =>
                \A c \in DOMAIN load[t].found :
                    c \in Chats /\ load[t].found[c].serverRevision \in Nat
           /\ \A call \in calls : call.chat \in Chats /\ call.answer.serverRevision \in Nat
<1>1. Revisions \subseteq Nat
  BY DEF Revisions
<1>2. \A c \in Chats : revision[c] \in Nat
  BY <1>1 DEF TypeOK, StoreTypeOK
<1>3. \A t \in Tabs : \A c \in DOMAIN chats[t] : c \in Chats /\ chats[t][c].serverRevision \in Nat
  BY <1>1, ShownTyped DEF Shows, LocalChat
<1>4. \A t \in Tabs : load[t].phase = "histories" =>
        \A c \in DOMAIN load[t].found : c \in Chats /\ load[t].found[c].serverRevision \in Nat
  BY <1>1 DEF TypeOK, ClientTypeOK, IsMap, Found
<1>5. \A call \in calls : call.chat \in Chats /\ call.answer.serverRevision \in Nat
  BY <1>1, CallTyped DEF Answer
<1> QED
  BY <1>2, <1>3, <1>4, <1>5

\* A step in which no copy changes its revision, no load finds anything, and requests
\* get no answers and become active in no other way than by being made.
LEMMA RevisionsKept ==
    ASSUME LockInv, RevisionInv, UNCHANGED revision,
           \A u \in Tabs : \A d \in DOMAIN chats'[u] :
               d \in DOMAIN chats[u] /\ chats'[u][d].serverRevision = chats[u][d].serverRevision,
           \A u \in Tabs : load'[u] = load[u] \/ load'[u].phase \notin {"list", "histories"},
           \A call \in calls' :
               \/ call \in calls /\ (Active(call)' => Active(call))
               \/ /\ call.chat \in Chats
                  /\ call.answer.status = "sent" /\ call.answer.serverRevision = 0
    PROVE  RevisionInv' /\ Forward
<1>1. TypeOK
  BY DEF LockInv
<1>2. CopiesBehind'
  BY DEF RevisionInv, CopiesBehind
<1>3. FoundBehind'
  BY DEF RevisionInv, FoundBehind
<1>4. AnswersBehind'
  BY <1>1, RevisionTyped DEF RevisionInv, AnswersBehind
<1>5. NothingShownYet'
  BY DEF RevisionInv, NothingShownYet
<1>6. AnswersAhead'
  <2> SUFFICES ASSUME NEW call \in calls', Active(call)', call.answer.status = "ok"
               PROVE  call.answer.serverRevision >= chats'[call.tab][call.chat].serverRevision
    BY DEF AnswersAhead
  <2>1. call \in calls /\ Active(call)
    OBVIOUS
  <2>2. call.tab \in Tabs /\ call.chat \in DOMAIN chats'[call.tab]
    BY <1>1, <2>1, CallTyped DEF Active, IsCurrent, StillThere, Shows
  <2> QED
    BY <2>1, <2>2 DEF RevisionInv, AnswersAhead
<1>7. Forward
  BY <1>1, RevisionTyped DEF Forward
<1> QED
  BY <1>2, <1>3, <1>4, <1>5, <1>6, <1>7 DEF RevisionInv

\* A step of a page that replaces one local copy, by one of the same revision.
LEMMA SameRevision ==
    ASSUME LockInv, RevisionInv, NEW t \in Tabs, NEW c, Shows(t, c), NEW new \in LocalChat,
           chats' = [chats EXCEPT ![t][c] = new],
           new.serverRevision = chats[t][c].serverRevision,
           new.historyRevision >= chats[t][c].historyRevision,
           \A call \in calls' :
               \/ call \in calls
               \/ /\ call.chat \in Chats
                  /\ call.answer.status = "sent" /\ call.answer.serverRevision = 0,
           UNCHANGED <<sessionEpoch, load, revision>>
    PROVE  RevisionInv' /\ Forward
<1>1. TypeOK /\ c \in DOMAIN chats[t] /\ chats[t][c] \in LocalChat
  BY ShownTyped DEF LockInv, Shows
<1>2. /\ \A u \in Tabs : DOMAIN chats'[u] = DOMAIN chats[u]
      /\ \A u \in Tabs : \A d \in DOMAIN chats[u] :
            chats'[u][d] = IF u = t /\ d = c THEN new ELSE chats[u][d]
  BY <1>1, ChatUpdated
<1>3. \A call \in calls : Active(call)' => Active(call)
  <2> SUFFICES ASSUME NEW call \in calls, Active(call)'
               PROVE  Active(call)
    OBVIOUS
  <2>1. call.tab \in Tabs /\ call.history \in Nat
    BY <1>1, CallTyped
  <2>2. StillThere(call) /\ call.chat \in DOMAIN chats[call.tab]
    BY <1>2, <2>1 DEF Active, IsCurrent, StillThere, Shows
  <2>3. CASE call.kind \in Kinds
    BY <2>2, <2>3 DEF Active
  <2>4. CASE call.kind = "reconcile" /\ IsCurrent(call)'
    <3>1. call.history <= chats[call.tab][call.chat].historyRevision
      BY <2>2, <2>4 DEF LockInv, PendingInv
    <3>2. call.history = chats'[call.tab][call.chat].historyRevision
      BY <2>4 DEF IsCurrent
    <3>3. CASE call.tab = t /\ call.chat = c
      <4>1. chats'[t][c] = new
        BY <1>1, <1>2
      <4>2. new.historyRevision \in Nat /\ chats[t][c].historyRevision \in Nat
        BY <1>1 DEF LocalChat
      <4>3. call.history = chats[t][c].historyRevision
        BY <2>1, <3>1, <3>2, <3>3, <4>1, <4>2
      <4> QED
        BY <2>2, <2>4, <3>3, <4>3 DEF Active, IsCurrent
    <3>4. CASE ~(call.tab = t /\ call.chat = c)
      <4>1. chats'[call.tab][call.chat] = chats[call.tab][call.chat]
        BY <1>2, <2>1, <2>2, <3>4
      <4> QED
        BY <2>2, <2>4, <3>2, <4>1 DEF Active, IsCurrent
    <3> QED
      BY <3>3, <3>4
  <2> QED
    BY <2>3, <2>4 DEF Active
<1>4. \A u \in Tabs : \A d \in DOMAIN chats'[u] :
        d \in DOMAIN chats[u] /\ chats'[u][d].serverRevision = chats[u][d].serverRevision
  BY <1>2
<1> QED
  BY <1>3, <1>4, RevisionsKept

\* A step that leaves the local copies alone.
LEMMA SameCopies ==
    ASSUME LockInv, RevisionInv,
           \A call \in calls' :
               \/ call \in calls
               \/ /\ call.chat \in Chats
                  /\ call.answer.status = "sent" /\ call.answer.serverRevision = 0,
           UNCHANGED <<sessionEpoch, chats, load, revision>>
    PROVE  RevisionInv' /\ Forward
<1>1. \A call \in calls : Active(call)' => Active(call)
  BY DEF Active, IsCurrent, StillThere, Shows
<1>2. \A u \in Tabs : \A d \in DOMAIN chats'[u] :
        d \in DOMAIN chats[u] /\ chats'[u][d].serverRevision = chats[u][d].serverRevision
  OBVIOUS
<1> QED
  BY <1>1, <1>2, RevisionsKept

LEMMA ReconcileRevisions ==
    ASSUME LockInv, RevisionInv, NEW t \in Tabs, NEW c, Shows(t, c), NEW done,
           Reconcile(t, c, done), UNCHANGED <<sessionEpoch, load, revision>>
    PROVE  RevisionInv' /\ Forward
<1>1. chats[t][c] \in LocalChat /\ c \in Chats
  BY ShownTyped DEF LockInv
<1>2. PICK new : new = Discarded(chats[t][c])
  OBVIOUS
<1>3. /\ new \in LocalChat /\ new.serverRevision = chats[t][c].serverRevision
      /\ new.historyRevision = chats[t][c].historyRevision + 1
      /\ chats[t][c].historyRevision \in Nat
  BY <1>1, <1>2, LocalForms
<1>4. chats' = [chats EXCEPT ![t][c] = new]
  BY <1>2 DEF Reconcile
<1>5. PICK fresh : fresh = Fetch("reconcile", t, c, sessionEpoch[t], chats[t][c].historyRevision + 1)
  OBVIOUS
<1>6. /\ fresh.chat = c /\ fresh.answer.status = "sent" /\ fresh.answer.serverRevision = 0
      /\ calls' = (calls \ done) \union {fresh}
  BY <1>5, FetchForm DEF Reconcile
<1>7. new.historyRevision >= chats[t][c].historyRevision
  BY <1>3
<1> QED
  BY <1>1, <1>3, <1>4, <1>6, <1>7, SameRevision

LEMMA ConfirmedRevisions ==
    ASSUME LockInv, RevisionInv, NEW t \in Tabs, LifecycleConfirmed(t), UNCHANGED storeVars
    PROVE  RevisionInv' /\ Forward
<1>1. PICK c : c = dialog[t].chat
  OBVIOUS
<1> DEFINE here == dialog[t].epoch = sessionEpoch[t] /\ Shows(t, c)
<1>2. PICK captured : calls' = calls \union {Fetch(dialog[t].kind, t, c, dialog[t].epoch, captured)}
  BY <1>1 DEF LifecycleConfirmed
<1>3. PICK fresh : /\ fresh.chat = c /\ fresh.answer.status = "sent" /\ fresh.answer.serverRevision = 0
                   /\ calls' = calls \union {fresh}
  BY <1>2, FetchForm
<1>4. c \in Chats
  BY <1>1 DEF LifecycleConfirmed, LockInv, TypeOK, ClientTypeOK, NoDialog, Kinds, Dialog
<1>5. UNCHANGED <<sessionEpoch, load, revision>>
  BY DEF LifecycleConfirmed, storeVars
<1>6. CASE here
  <2>1. Shows(t, c) /\ chats[t][c] \in LocalChat
    BY <1>6, ShownTyped DEF LockInv
  <2>2. PICK new : new = Locked(chats[t][c])
    OBVIOUS
  <2>3. /\ new \in LocalChat /\ new.serverRevision = chats[t][c].serverRevision
        /\ new.historyRevision = chats[t][c].historyRevision + 1
        /\ chats[t][c].historyRevision \in Nat
    BY <2>1, <2>2, LocalForms
  <2>4. chats' = [chats EXCEPT ![t][c] = new]
    BY <1>1, <1>6, <2>2 DEF LifecycleConfirmed
  <2>5. new.historyRevision >= chats[t][c].historyRevision
    BY <2>3
  <2> QED
    BY <1>3, <1>4, <1>5, <2>1, <2>3, <2>4, <2>5, SameRevision
<1>7. CASE ~here
  BY <1>1, <1>3, <1>4, <1>5, <1>7, SameCopies DEF LifecycleConfirmed
<1> QED
  BY <1>6, <1>7

LEMMA UserRevisions ==
    ASSUME LockInv, RevisionInv, NEW t \in Tabs, UserActs(t)
    PROVE  RevisionInv' /\ Forward
<1> USE DEF UserActs
<1>1. ASSUME NEW c \in Chats, NewChat(t, c)
      PROVE  RevisionInv' /\ Forward
  <2>1. PICK fresh : fresh = Fetch("create", t, c, sessionEpoch[t], 0)
    OBVIOUS
  <2>2. /\ fresh.chat = c /\ fresh.answer.status = "sent" /\ fresh.answer.serverRevision = 0
        /\ calls' = calls \union {fresh}
    BY <1>1, <2>1, FetchForm DEF NewChat
  <2>3. UNCHANGED <<sessionEpoch, chats, load, revision>>
    BY <1>1 DEF NewChat, storeVars
  <2> QED
    BY <2>2, <2>3, SameCopies
<1>2. CASE \/ \E c \in Chats, kind \in Kinds : LifecycleClick(t, c, kind)
           \/ DialogDismissed(t)
           \/ \E c \in Chats, n \in Turns : SendMessage(t, c, n)
  <2>1. UNCHANGED <<sessionEpoch, chats, load, revision, calls>>
    BY <1>2 DEF LifecycleClick, DialogDismissed, SendMessage, storeVars
  <2> QED
    BY <2>1, SameCopies
<1>3. ASSUME NEW next \in [phase : {"login", "logout"}], ReplaceSession(t, next)
      PROVE  RevisionInv' /\ Forward
  <2>1. UNCHANGED <<chats, revision, calls>>
    BY <1>3 DEF ReplaceSession, storeVars
  <2>2. /\ sessionEpoch'[t] = sessionEpoch[t] + 1 /\ sessionEpoch[t] \in Nat
        /\ \A u \in Tabs : u # t => sessionEpoch'[u] = sessionEpoch[u] /\ load'[u] = load[u]
        /\ load'[t].phase \notin {"list", "histories"}
    BY <1>3 DEF ReplaceSession, LockInv, TypeOK, ClientTypeOK
  <2>3. \A call \in calls : /\ call.tab \in Tabs /\ call.epoch \in Nat
                            /\ call.epoch <= sessionEpoch[call.tab]
    BY CallTyped DEF LockInv, SessionInv
  <2>4. \A call \in calls : call.epoch = sessionEpoch'[call.tab] => call.tab # t
    BY <2>2, <2>3
  <2>5. \A call \in calls : Active(call)' => Active(call)
    BY <2>1, <2>2, <2>3, <2>4 DEF Active, IsCurrent, StillThere, Shows
  <2> QED
    BY <2>1, <2>2, <2>5, RevisionsKept
<1>4. [phase |-> "login"] \in [phase : {"login", "logout"}]
      /\ [phase |-> "logout"] \in [phase : {"login", "logout"}]
  OBVIOUS
<1> QED
  BY <1>1, <1>2, <1>3, <1>4, ConfirmedRevisions DEF LoginSubmitted, LogoutClicked

LEMMA PushRevisions ==
    ASSUME LockInv, RevisionInv, NEW t \in Tabs, generation[t] # NoGeneration,
           NEW role \in Roles, Push(t, role), UNCHANGED <<sessionEpoch, load, calls, revision>>
    PROVE  RevisionInv' /\ Forward
<1>1. PICK c, m : c = turn[generation[t].turn].chat /\ m = <<generation[t].turn, role>>
  OBVIOUS
<1>2. TypeOK /\ Shows(t, c) /\ chats[t][c] \in LocalChat /\ generation[t] \in Generation
  BY <1>1, Generating, ShownTyped, GenerationTyped DEF LockInv, Shows
<1>3. m \in Messages
  BY <1>1, <1>2 DEF Generation
<1>4. PICK new : new = [chats[t][c] EXCEPT !.messages = @ \union {m}]
  OBVIOUS
<1>5. /\ new \in LocalChat /\ new.serverRevision = chats[t][c].serverRevision
      /\ new.historyRevision = chats[t][c].historyRevision
  BY <1>2, <1>3, <1>4, PushedForm
<1>6. chats' = [chats EXCEPT ![t][c] = new]
  BY <1>1, <1>4 DEF Push
<1>7. new.historyRevision >= chats[t][c].historyRevision
  BY <1>2, <1>5 DEF LocalChat
<1> QED
  BY <1>2, <1>5, <1>6, <1>7, SameRevision

LEMMA GenerationRevisions ==
    ASSUME LockInv, RevisionInv, NEW t \in Tabs, GenerationMoves(t)
    PROVE  RevisionInv' /\ Forward
<1>1. generation[t] # NoGeneration /\ UNCHANGED <<sessionEpoch, load, revision>>
  BY GenerationTyped DEF GenerationMoves, AttachmentRead, AttachmentUnreadable, PromptSaved, AnswerEnds,
     AnswerSaved, At, LockInv, storeVars
<1>2. CASE UNCHANGED <<chats, calls>>
  BY <1>1, <1>2, SameCopies
<1>3. CASE \E role \in Roles : Push(t, role) /\ UNCHANGED calls
  BY <1>1, <1>3, PushRevisions
<1>4. CASE Reconcile(t, turn[generation[t].turn].chat, {})
  BY <1>1, <1>4, Generating, ReconcileRevisions DEF Shows
<1> QED
  BY <1>2, <1>3, <1>4 DEF GenerationMoves, AttachmentRead, AttachmentUnreadable, PromptSaved, AnswerEnds,
     AnswerSaved, Roles

\* A load shows its tab nothing until it has everything, and then nothing newer than
\* the store.
LEMMA LoadRevisions ==
    ASSUME LockInv, RevisionInv, NEW t \in Tabs, LoadMoves(t)
    PROVE  RevisionInv' /\ Forward
<1>1. /\ load[t].phase # "none" /\ UNCHANGED <<sessionEpoch, calls, revision>>
      /\ \A call \in calls : call.tab = t => ~OfSession(call)
  BY DEF LoadMoves, SessionAnswered, LoadFails, ListLoaded, HistoryLoaded, StoreInstalled, storeVars,
     LockInv, SessionInv
<1>2. \A u \in Tabs : u # t => chats'[u] = chats[u] /\ load'[u] = load[u]
  BY DEF LoadMoves, SessionAnswered, LoadFails, ListLoaded, HistoryLoaded, StoreInstalled,
     LockInv, TypeOK, ClientTypeOK
<1>3. \A call \in calls : Active(call)' => Active(call) /\ call.tab # t
  <2> SUFFICES ASSUME NEW call \in calls, Active(call)'
               PROVE  Active(call) /\ call.tab # t
    OBVIOUS
  <2>1. OfSession(call)
    BY <1>1 DEF Active, IsCurrent, StillThere, OfSession
  <2>2. call.tab # t /\ call.tab \in Tabs
    BY <1>1, <2>1, CallTyped DEF LockInv
  <2>3. chats'[call.tab] = chats[call.tab]
    BY <1>2, <2>2
  <2> QED
    BY <1>1, <2>2, <2>3 DEF Active, IsCurrent, StillThere, Shows
<1>4. AnswersBehind'
  BY <1>1 DEF RevisionInv, AnswersBehind
<1>5. AnswersAhead'
  <2> SUFFICES ASSUME NEW call \in calls, Active(call)', call.answer.status = "ok"
               PROVE  call.answer.serverRevision >= chats'[call.tab][call.chat].serverRevision
    BY <1>1 DEF AnswersAhead
  <2>1. chats'[call.tab] = chats[call.tab]
    BY <1>2, <1>3, CallTyped DEF LockInv
  <2> QED
    BY <1>3, <2>1 DEF RevisionInv, AnswersAhead
<1>6. \A u \in Tabs : \A c \in DOMAIN chats[u] : chats[u][c].serverRevision \in Nat
  BY RevisionTyped DEF LockInv
<1>7. ASSUME chats'[t] = chats[t], load'[t].phase \in {"list", "histories"} => load[t].phase \in {"list", "histories"}
      PROVE  CopiesBehind' /\ NothingShownYet' /\ Forward
  BY <1>1, <1>2, <1>6, <1>7 DEF RevisionInv, CopiesBehind, NothingShownYet, Forward
<1>8. ASSUME load'[t].phase = "histories" =>
                 \A c \in DOMAIN load'[t].found : load'[t].found[c].serverRevision <= revision[c]
      PROVE  FoundBehind'
  BY <1>1, <1>2, <1>8 DEF RevisionInv, FoundBehind
<1>9. CASE SessionAnswered(t)
  <2>1. chats'[t] = EmptyMap /\ DOMAIN EmptyMap = {} /\ load'[t].phase # "histories"
    BY <1>9 DEF SessionAnswered, EmptyMap, LockInv, TypeOK, ClientTypeOK
  <2>2. CopiesBehind' /\ NothingShownYet' /\ Forward
    BY <1>1, <1>2, <1>6, <2>1 DEF RevisionInv, CopiesBehind, NothingShownYet, Forward
  <2> QED
    BY <1>4, <1>5, <1>8, <2>1, <2>2 DEF RevisionInv
<1>10. CASE LoadFails(t)
  <2>1. chats'[t] = chats[t] /\ load'[t].phase = "none"
    BY <1>10 DEF LoadFails, NoLoad, LockInv, TypeOK, ClientTypeOK
  <2> QED
    BY <1>4, <1>5, <1>7, <1>8, <2>1 DEF RevisionInv
<1>11. CASE ListLoaded(t)
  <2>1. chats'[t] = chats[t] /\ load'[t].found = EmptyMap /\ DOMAIN EmptyMap = {} /\ load[t].phase = "list"
    BY <1>11 DEF ListLoaded, EmptyMap, LockInv, TypeOK, ClientTypeOK
  <2> QED
    BY <1>4, <1>5, <1>7, <1>8, <2>1 DEF RevisionInv
<1>12. CASE HistoryLoaded(t)
  <2>1. PICK c \in load[t].missing :
            load' = [load EXCEPT ![t].missing = @ \ {c}, ![t].found = Put(@, c, Snapshot(c))]
    BY <1>12 DEF HistoryLoaded
  <2>2. chats'[t] = chats[t] /\ load[t].phase = "histories" /\ c \in Chats
    BY <1>12, <2>1 DEF HistoryLoaded, LockInv, TypeOK, ClientTypeOK
  <2>3. load'[t].found = Put(load[t].found, c, Snapshot(c))
    BY <2>1, <2>2 DEF LockInv, TypeOK, ClientTypeOK
  <2>4. /\ DOMAIN load'[t].found = DOMAIN load[t].found \union {c}
        /\ load'[t].found[c].serverRevision = revision[c]
        /\ \A d \in DOMAIN load[t].found : d # c => load'[t].found[d] = load[t].found[d]
    BY <2>3 DEF Put, Snapshot
  <2>5. revision[c] \in Nat
    BY <2>2, RevisionTyped DEF LockInv
  <2>6. \A d \in DOMAIN load'[t].found : load'[t].found[d].serverRevision <= revision[d]
    BY <2>2, <2>4, <2>5 DEF RevisionInv, FoundBehind
  <2> QED
    BY <1>4, <1>5, <1>7, <1>8, <2>2, <2>6 DEF RevisionInv
<1>13. CASE StoreInstalled(t)
  <2>1. load[t].phase = "histories" /\ load'[t].phase = "none"
    BY <1>13 DEF StoreInstalled, NoLoad, LockInv, TypeOK, ClientTypeOK
  <2>2. /\ DOMAIN chats'[t] = DOMAIN load[t].found
        /\ \A c \in DOMAIN chats'[t] : chats'[t][c].serverRevision = load[t].found[c].serverRevision
    BY <1>13 DEF StoreInstalled, LockInv, TypeOK, ClientTypeOK
  <2>3. DOMAIN chats[t] = {}
    BY <2>1 DEF RevisionInv, NothingShownYet
  <2>4. \A c \in DOMAIN chats'[t] : chats'[t][c].serverRevision <= revision[c]
    BY <2>1, <2>2 DEF RevisionInv, FoundBehind
  <2>5. CopiesBehind' /\ NothingShownYet' /\ Forward
    BY <1>1, <1>2, <1>6, <2>1, <2>3, <2>4 DEF RevisionInv, CopiesBehind, NothingShownYet, Forward
  <2> QED
    BY <1>4, <1>5, <1>8, <2>1, <2>5 DEF RevisionInv
<1> QED
  BY <1>9, <1>10, <1>11, <1>12, <1>13 DEF LoadMoves

\* The store's revisions only rise.
LEMMA ServeRevision ==
    ASSUME TypeOK, NEW call \in calls, NEW status, Serve(call, status)
    PROVE  \A c \in Chats : /\ revision[c] \in Nat /\ revision'[c] \in Nat
                            /\ revision[c] <= revision'[c]
<1>1. call.chat \in Chats /\ revision \in [Chats -> Nat]
  BY CallTyped DEF TypeOK, StoreTypeOK, Revisions
<1>2. ASSUME NEW u \in Users, ClearChatMessages(call.chat, u)
      PROVE  \A c \in Chats : revision'[c] \in Nat /\ revision[c] <= revision'[c]
  BY <1>1, <1>2 DEF ClearChatMessages
<1>3. ASSUME UNCHANGED revision
      PROVE  \A c \in Chats : revision'[c] \in Nat /\ revision[c] <= revision'[c]
  BY <1>1, <1>3
<1> QED
  BY <1>1, <1>2, <1>3 DEF Serve, CreateChat, DeleteChat, storeVars

LEMMA ServeRevisions ==
    ASSUME LockInv, RevisionInv, NEW call \in calls, ServeCall(call)
    PROVE  RevisionInv' /\ Forward
<1>1. TypeOK /\ call \in Call /\ call.chat \in Chats /\ call.tab \in Tabs
  BY CallTyped DEF LockInv
<1>2. PICK status \in {"ok", "gone", "failed"}, answer \in Answer :
          /\ Serve(call, status)
          /\ calls' = (calls \ {call}) \union {[call EXCEPT !.answer = answer]}
          /\ answer.status = "ok" => answer.serverRevision = revision'[call.chat]
          /\ answer.status # "ok" => answer.serverRevision = 0
  BY <1>1, ServeForm
<1>3. PICK served : served = [call EXCEPT !.answer = answer]
  OBVIOUS
<1>4. /\ served.kind = call.kind /\ served.tab = call.tab /\ served.chat = call.chat
      /\ served.epoch = call.epoch /\ served.history = call.history /\ served.answer = answer
  BY <1>1, <1>3, ServedForm
<1>5. calls' = (calls \ {call}) \union {served} /\ UNCHANGED <<sessionEpoch, chats, load>>
  BY <1>2, <1>3 DEF ServeCall
<1>6. \A c \in Chats : revision[c] \in Nat /\ revision'[c] \in Nat /\ revision[c] <= revision'[c]
  BY <1>1, <1>2, ServeRevision
<1>7. \A t \in Tabs : \A c \in DOMAIN chats[t] : c \in Chats /\ chats[t][c].serverRevision \in Nat
  BY <1>1, RevisionTyped
<1>8. CopiesBehind'
  BY <1>5, <1>6, <1>7 DEF RevisionInv, CopiesBehind
<1>9. FoundBehind'
  BY <1>1, <1>5, <1>6, RevisionTyped DEF RevisionInv, FoundBehind
<1>10. AnswersBehind'
  <2>1. \A other \in calls : other.answer.serverRevision <= revision'[other.chat]
    BY <1>1, <1>6, RevisionTyped DEF RevisionInv, AnswersBehind
  <2>2. served.answer.serverRevision <= revision'[served.chat]
    BY <1>1, <1>2, <1>4, <1>6
  <2> QED
    BY <1>5, <2>1, <2>2 DEF AnswersBehind
<1>11. NothingShownYet'
  BY <1>5 DEF RevisionInv, NothingShownYet
<1>12. AnswersAhead'
  <2> SUFFICES ASSUME NEW other \in calls', Active(other)', other.answer.status = "ok"
               PROVE  other.answer.serverRevision >= chats[other.tab][other.chat].serverRevision
    BY <1>5 DEF AnswersAhead
  <2>1. CASE other # served
    BY <1>5, <2>1 DEF RevisionInv, AnswersAhead, Active, IsCurrent, StillThere, Shows
  <2>2. CASE other = served
    <3>1. call.chat \in DOMAIN chats[call.tab]
      BY <1>4, <1>5, <2>2 DEF Active, IsCurrent, StillThere, Shows
    <3>2. answer.serverRevision = revision'[call.chat]
      BY <1>2, <1>4, <2>2
    <3>3. chats[call.tab][call.chat].serverRevision <= revision[call.chat]
      BY <1>1, <3>1 DEF RevisionInv, CopiesBehind
    <3> QED
      BY <1>1, <1>4, <1>6, <1>7, <2>2, <3>1, <3>2, <3>3
  <2> QED
    BY <2>1, <2>2
<1>13. Forward
  BY <1>5, <1>7 DEF Forward
<1> QED
  BY <1>8, <1>9, <1>10, <1>11, <1>12, <1>13 DEF RevisionInv

LEMMA AnsweredRevisions ==
    ASSUME LockInv, RevisionInv, NEW call \in calls, CallAnswered(call)
    PROVE  RevisionInv' /\ Forward
<1>1. PICK t, c : t = call.tab /\ c = call.chat
  OBVIOUS
<1>2. TypeOK /\ t \in Tabs /\ c \in Chats /\ call \in Call
  BY <1>1, CallTyped DEF LockInv
<1>3. UNCHANGED <<sessionEpoch, load, revision>>
  BY AnswerCases DEF storeVars
<1>4. Active(call) => Shows(t, c) /\ chats[t][c] \in LocalChat
  BY <1>1, <1>2, ActiveAlone, ShownTyped
<1>5. /\ \A u \in Tabs : \A d \in DOMAIN chats[u] : chats[u][d].serverRevision \in Nat
      /\ \A other \in calls : other.answer.serverRevision \in Nat
  BY <1>2, RevisionTyped
<1>6. CASE UNCHANGED <<chats, generation>> /\ calls' = calls \ {call}
  BY <1>3, <1>6, SameCopies
<1>7. CASE /\ Active(call) /\ call.answer.status = "ok"
           /\ chats' = [chats EXCEPT ![t][c] = Verified(call, @)]
           /\ calls' = calls \ {call}
  <2>1. PICK new : new = Verified(call, chats[t][c])
    OBVIOUS
  <2>2. /\ new \in LocalChat /\ new.serverRevision = call.answer.serverRevision
        /\ new.historyRevision = chats[t][c].historyRevision
    BY <1>2, <1>4, <1>7, <2>1, VerifiedForm
  <2>3. chats' = [chats EXCEPT ![t][c] = new]
    BY <1>7, <2>1
  <2>4. /\ \A u \in Tabs : DOMAIN chats'[u] = DOMAIN chats[u]
        /\ \A u \in Tabs : \A d \in DOMAIN chats[u] :
              chats'[u][d] = IF u = t /\ d = c THEN new ELSE chats[u][d]
    <3>1. Shows(t, c)
      BY <1>4, <1>7
    <3> QED
      BY <1>2, <2>2, <2>3, <3>1, ChatUpdated
  <2>5. /\ new.serverRevision <= revision[c]
        /\ new.serverRevision >= chats[t][c].serverRevision
    BY <1>1, <1>7, <2>2 DEF RevisionInv, AnswersBehind, AnswersAhead
  <2>6. SameBut(t, c)
    BY <2>4 DEF SameBut, Shows
  <2>7. \A other \in calls' : Active(other)' =>
            /\ Active(other)
            /\ chats'[other.tab][other.chat].serverRevision = chats[other.tab][other.chat].serverRevision
    <3> SUFFICES ASSUME NEW other \in calls', Active(other)'
                 PROVE  /\ Active(other)
                        /\ chats'[other.tab][other.chat].serverRevision =
                              chats[other.tab][other.chat].serverRevision
      OBVIOUS
    <3>1. other \in calls /\ other # call
      BY <1>7
    <3>2. CASE other.tab = t /\ other.chat = c
      <4>1. chats'[t][c].historyRevision = chats[t][c].historyRevision
        BY <1>2, <1>4, <1>7, <2>2, <2>4 DEF Shows
      <4>2. StillThere(other)
        BY <1>2, <1>3, <2>4, <3>2 DEF Active, IsCurrent, StillThere, Shows
      <4>3. Active(other)
        BY <3>2, <4>1, <4>2 DEF Active, IsCurrent
      <4> QED
        BY <1>1, <1>7, <3>1, <3>2, <4>3, ActiveAlone
    <3>3. CASE other.tab # t \/ other.chat # c
      <4>1. Active(other) /\ StillThere(other)
        BY <1>2, <1>3, <2>6, <3>1, <3>3, Elsewhere DEF Active, IsCurrent
      <4> QED
        BY <1>2, <1>3, <2>6, <3>1, <3>3, <4>1, Elsewhere
    <3> QED
      BY <3>2, <3>3
  <2>8. CopiesBehind'
    BY <1>3, <2>4, <2>5 DEF RevisionInv, CopiesBehind
  <2>9. FoundBehind' /\ AnswersBehind' /\ NothingShownYet'
    BY <1>3, <1>7, <2>4 DEF RevisionInv, FoundBehind, AnswersBehind, NothingShownYet
  <2>10. AnswersAhead'
    BY <1>7, <2>7 DEF RevisionInv, AnswersAhead
  <2>11. Forward
    BY <1>5, <2>4, <2>5 DEF Forward
  <2> QED
    BY <2>8, <2>9, <2>10, <2>11 DEF RevisionInv
<1>8. CASE /\ Active(call) /\ chats' = Hide(t, c) /\ calls' = calls \ {call}
  <2>1. /\ \A u \in Tabs : DOMAIN chats'[u] = IF u = t THEN DOMAIN chats[u] \ {c} ELSE DOMAIN chats[u]
        /\ \A u \in Tabs : \A d \in DOMAIN chats'[u] : chats'[u][d] = chats[u][d]
    BY <1>2, <1>8, ChatHidden
  <2>2. \A other \in calls : Active(other)' => Active(other)
    <3> SUFFICES ASSUME NEW other \in calls, Active(other)'
                 PROVE  Active(other)
      OBVIOUS
    <3>1. other.tab \in Tabs /\ other.chat \in DOMAIN chats'[other.tab]
      BY <1>2, CallTyped DEF Active, IsCurrent, StillThere, Shows
    <3>2. other.chat \in DOMAIN chats[other.tab] /\ chats'[other.tab][other.chat] = chats[other.tab][other.chat]
      BY <2>1, <3>1
    <3> QED
      BY <1>3, <3>2 DEF Active, IsCurrent, StillThere, Shows
  <2>3. \A u \in Tabs : \A d \in DOMAIN chats'[u] :
          d \in DOMAIN chats[u] /\ chats'[u][d].serverRevision = chats[u][d].serverRevision
    BY <2>1
  <2> QED
    BY <1>3, <1>8, <2>2, <2>3, RevisionsKept
<1>9. CASE /\ Active(call) /\ chats' = [chats EXCEPT ![t][c].lifecyclePending = FALSE]
           /\ calls' = calls \ {call}
  <2>1. PICK new : new = [chats[t][c] EXCEPT !.lifecyclePending = FALSE]
    OBVIOUS
  <2>2. /\ new \in LocalChat /\ new.serverRevision = chats[t][c].serverRevision
        /\ new.historyRevision = chats[t][c].historyRevision
    BY <1>4, <1>9, <2>1, UnlockedForm
  <2>3. new.historyRevision >= chats[t][c].historyRevision
    BY <1>4, <1>9, <2>2 DEF LocalChat
  <2>4. chats' = [chats EXCEPT ![t][c] = new]
    BY <1>9, <2>1
  <2> QED
    BY <1>2, <1>3, <1>4, <1>9, <2>2, <2>3, <2>4, SameRevision
<1>10. CASE Active(call) /\ Reconcile(t, c, {call})
  BY <1>2, <1>3, <1>4, <1>10, ReconcileRevisions
<1>11. CASE /\ call.kind = "create" /\ OfSession(call) /\ call.answer.status = "ok"
            /\ chats' = [chats EXCEPT ![t] = Put(@, c,
                  [serverRevision |-> call.answer.serverRevision, historyRevision |-> 0,
                   messages |-> {}, lifecyclePending |-> FALSE, verified |-> TRUE])]
            /\ calls' = calls \ {call}
  <2>1. /\ DOMAIN chats'[t] = DOMAIN chats[t] \union {c}
        /\ chats'[t][c].serverRevision = call.answer.serverRevision
        /\ \A d \in DOMAIN chats[t] : d # c => chats'[t][d] = chats[t][d]
        /\ \A u \in Tabs : u # t => chats'[u] = chats[u]
    BY <1>2, <1>11 DEF LockInv, TypeOK, ClientTypeOK, Put
  <2>2. /\ ~Shows(t, c) /\ load[t].phase = "none"
        /\ \A other \in calls' : other.tab = t /\ other.chat = c => ~OfSession(other)
    BY <1>1, <1>11 DEF LockInv, CreateInv, SessionInv
  <2>3. SameBut(t, c)
    BY <2>1 DEF SameBut, Shows
  <2>4. call.answer.serverRevision <= revision[c]
    BY <1>1 DEF RevisionInv, AnswersBehind
  <2>5. CopiesBehind'
    BY <1>3, <2>1, <2>4 DEF RevisionInv, CopiesBehind
  <2>6. FoundBehind' /\ AnswersBehind' /\ NothingShownYet'
    BY <1>3, <1>11, <2>1, <2>2 DEF RevisionInv, FoundBehind, AnswersBehind, NothingShownYet
  <2>7. AnswersAhead'
    <3> SUFFICES ASSUME NEW other \in calls', Active(other)', other.answer.status = "ok"
                 PROVE  other.answer.serverRevision >= chats'[other.tab][other.chat].serverRevision
      BY DEF AnswersAhead
    <3>1. other \in calls /\ (other.tab # t \/ other.chat # c)
      BY <1>3, <1>11, <2>2 DEF Active, IsCurrent, StillThere, OfSession
    <3>2. Active(other) /\ StillThere(other)
      BY <1>2, <1>3, <2>3, <3>1, Elsewhere DEF Active, IsCurrent
    <3>3. chats'[other.tab][other.chat] = chats[other.tab][other.chat]
      BY <1>2, <1>3, <2>3, <3>1, <3>2, Elsewhere
    <3> QED
      BY <3>1, <3>2, <3>3 DEF RevisionInv, AnswersAhead
  <2>8. Forward
    BY <1>5, <2>1, <2>2 DEF Forward, Shows
  <2> QED
    BY <2>5, <2>6, <2>7, <2>8 DEF RevisionInv
<1> QED
  BY <1>1, <1>6, <1>7, <1>8, <1>9, <1>10, <1>11, AnswerCases

LEMMA RevisionSteps == LockInv /\ RevisionInv /\ [Next]_vars => RevisionInv' /\ Forward
<1> SUFFICES ASSUME LockInv, RevisionInv, [Next]_vars PROVE RevisionInv' /\ Forward
  OBVIOUS
<1>1. CASE UNCHANGED vars
  BY <1>1, SameCopies DEF vars, clientVars, storeVars
<1>2. ASSUME NEW m \in Messages, ServePost(m)
      PROVE  RevisionInv' /\ Forward
  <2>1. UNCHANGED <<sessionEpoch, chats, load, revision, calls>>
    BY <1>2 DEF ServePost, CreateMessage, storeVars
  <2> QED
    BY <2>1, SameCopies
<1>3. CASE Next
  BY <1>2, <1>3, UserRevisions, GenerationRevisions, LoadRevisions, ServeRevisions, AnsweredRevisions DEF Next
<1> QED
  BY <1>1, <1>3

\* Copies and answers against the store, and answers against copies: see RevisionInv.
THEOREM RevisionInvariant == Spec => []RevisionInv
<1>1. Init => RevisionInv
  <2> SUFFICES ASSUME Init PROVE RevisionInv
    OBVIOUS
  <2>1. calls = {} /\ \A t \in Tabs : chats[t] = EmptyMap /\ load[t].phase = "list"
    BY DEF Init, ClientInit
  <2>2. DOMAIN EmptyMap = {}
    BY DEF EmptyMap
  <2> QED
    BY <2>1, <2>2 DEF RevisionInv, CopiesBehind, FoundBehind, AnswersBehind, NothingShownYet, AnswersAhead
<1> QED
  BY <1>1, LockInvariant, RevisionSteps, PTL DEF Spec

\* Answers out of order take no tab back to an older revision of a chat.
THEOREM TabsGoForward == Spec => RevisionNeverGoesBack
<1>1. LockInv /\ RevisionInv /\ [Next]_vars =>
        [\A t \in Tabs : \A c \in DOMAIN chats[t] \intersect DOMAIN chats'[t] :
            chats'[t][c].serverRevision >= chats[t][c].serverRevision]_vars
  BY RevisionSteps DEF Forward
<1> QED
  BY <1>1, LockInvariant, RevisionInvariant, PTL DEF Spec, RevisionNeverGoesBack
=============================================================================
