---------------------------- MODULE Conversation ----------------------------
(***************************************************************************)
(* Several tabs of one user working on the same chats through one server.  *)
(* Requests reach the server in any order; a request or its answer may be  *)
(* lost, and the tab then sees a failure either way.                       *)
(***************************************************************************)
EXTENDS ChatClient

vars == <<storeVars, clientVars>>

TypeOK == StoreTypeOK /\ ClientTypeOK

Init == StoreInit /\ ClientInit

UserActs(t) ==
    /\ \/ \E c \in Chats :
              \/ \E n \in Turns : SendMessage(t, c, n)
              \/ NewChat(t, c)
              \/ \E kind \in Kinds : LifecycleClick(t, c, kind)
       \/ LifecycleConfirmed(t)
       \/ DialogDismissed(t)
       \/ LoginSubmitted(t)
       \/ LogoutClicked(t)
    /\ UNCHANGED storeVars

GenerationMoves(t) ==
    /\ \/ AttachmentRead(t)
       \/ AttachmentUnreadable(t)
       \/ PromptSaved(t)
       \/ AnswerEnds(t)
       \/ AnswerSaved(t)
    /\ UNCHANGED storeVars

LoadMoves(t) ==
    /\ \/ SessionAnswered(t)
       \/ LoadFails(t)
       \/ ListLoaded(t)
       \/ HistoryLoaded(t)
       \/ StoreInstalled(t)
    /\ UNCHANGED storeVars

CallAnswered(call) == Answered(call) /\ UNCHANGED storeVars

\* POST .../messages commits, is refused, or never gets there (or back).
ServePost(m) ==
    LET sent == turn[m[1]] IN
    /\ post[m] = "sent"
    /\ \/ /\ \E u \in Users : CreateMessage(sent.chat, u, m, sent.expectedRevision)
          /\ \E status \in {"stored", "failed"} : post' = [post EXCEPT ![m] = status]
       \/ /\ owner[sent.chat] \in Users
          /\ revision[sent.chat] # sent.expectedRevision
          /\ post' = [post EXCEPT ![m] = "conflict"]
          /\ UNCHANGED storeVars
       \/ /\ post' = [post EXCEPT ![m] = "failed"]
          /\ UNCHANGED storeVars
    /\ UNCHANGED <<loginScreen, sessionEpoch, chats, dialog, generation, load, turn, calls>>

\* What the server does for a call, and what it would answer.
Serve(call, status) ==
    \/ /\ call.kind = "create"
       /\ status = "ok"
       /\ \E u \in Users : CreateChat(call.chat, u)
    \/ /\ call.kind = "clear"
       /\ status = "ok"
       /\ \E u \in Users : ClearChatMessages(call.chat, u)
    \/ /\ call.kind = "delete"
       /\ status = "ok"
       /\ \E u \in Users : DeleteChat(call.chat, u)
    \/ /\ call.kind = "reconcile"
       /\ status = IF owner[call.chat] \in Users THEN "ok" ELSE "gone"
       /\ UNCHANGED storeVars
    \/ /\ status = "failed"
       /\ UNCHANGED storeVars

\* The answer carries what the store holds after the step, if it arrives.
ServeCall(call) ==
    /\ call.answer.status = "sent"
    /\ \E status \in {"ok", "gone", "failed"} :
           /\ Serve(call, status)
           /\ \E seen \in {status, "failed"} :
                  calls' = (calls \ {call}) \union {[call EXCEPT !.answer =
                      [status |-> seen,
                       serverRevision |-> IF seen = "ok" THEN revision'[call.chat] ELSE 0,
                       messages |-> IF seen = "ok" THEN {row.message : row \in history'[call.chat]}
                                    ELSE {}]]}
    /\ UNCHANGED <<loginScreen, sessionEpoch, chats, dialog, generation, load, turn, post>>

Next ==
    \/ \E t \in Tabs : UserActs(t) \/ GenerationMoves(t) \/ LoadMoves(t)
    \/ \E m \in Messages : ServePost(m)
    \/ \E call \in calls : ServeCall(call) \/ CallAnswered(call)

\* Every fetch settles and every awaiting callback runs; the user owes nothing.
Fairness ==
    /\ \A t \in Tabs : WF_vars(GenerationMoves(t))
    /\ \A m \in Messages : WF_vars(ServePost(m))
    /\ \A t \in Tabs, c \in Chats :
           WF_vars(\E call \in {x \in calls : x.tab = t /\ x.chat = c} :
                       ServeCall(call) \/ CallAnswered(call))

Spec == Init /\ [][Next]_vars /\ Fairness

-----------------------------------------------------------------------------
(* Properties.                                                             *)

\* A stored message, and everything the prompt behind it was built from, was
\* written at the chat's current revision: nothing that anybody has cleared
\* comes back, not even through an answer that was being generated meanwhile.
NothingClearedComesBack ==
    \A c \in Chats : \A row \in history[c] :
        \A m \in {row.message} \union turn[row.message[1]].context :
            turn[m[1]].expectedRevision = revision[c]

\* What a tab shows for a chat all belongs to the revision it will send.
LocalHistoryMatchesRevision ==
    \A t \in Tabs : \A c \in DOMAIN chats[t] : \A m \in chats[t][c].messages :
        /\ turn[m[1]].chat = c
        /\ turn[m[1]].expectedRevision = chats[t][c].serverRevision

\* A generation that no longer counts never keeps the send button disabled:
\* whatever makes it obsolete also takes it out of activeGeneration.
SendButtonComesBack ==
    \A t \in Tabs : generation[t].phase # "none" => GenerationIsValid(t)

\* No answer is generated for a chat whose history is being changed or verified.
NoGenerationWhilePending ==
    \A t \in Tabs : \A c \in DOMAIN chats[t] :
        chats[t][c].lifecyclePending => ~GeneratesFor(t, c)

\* Answers that arrive out of order never take a tab back to an older revision.
RevisionNeverGoesBack ==
    [][\A t \in Tabs : \A c \in DOMAIN chats[t] \intersect DOMAIN chats'[t] :
          chats'[t][c].serverRevision >= chats[t][c].serverRevision]_vars

\* Every generation ends, whatever becomes of its requests and of its chat.
GenerationEnds ==
    \A t \in Tabs : generation[t].phase # "none" ~> generation[t].phase = "none"

\* A chat that is locked for a clear, a deletion or a reconciliation is unlocked
\* again unless its history could not be verified or the session is over.
LockedChatIsReleased ==
    \A t \in Tabs, c \in Chats :
        (Shows(t, c) /\ chats[t][c].lifecyclePending) ~>
            \/ loginScreen[t]
            \/ ~Shows(t, c)
            \/ ~chats[t][c].lifecyclePending
            \/ ~chats[t][c].verified

\* "failed reconciliation keeps sends blocked": history that was discarded and
\* not verified since cannot be sent to.
FailedReconciliationKeepsSendsBlocked ==
    \A t \in Tabs : \A c \in DOMAIN chats[t] :
        ~chats[t][c].verified => chats[t][c].lifecyclePending
=============================================================================
