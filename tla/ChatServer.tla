----------------------------- MODULE ChatServer -----------------------------
(***************************************************************************)
(* The routes of server.js that change chats, sessions and accounts, with  *)
(* auth.js, over the store of db.js.                                       *)
(*                                                                         *)
(* A handler that awaits its request body runs in two steps: it            *)
(* authenticates when the request arrives and acts when the body has been  *)
(* read; every other request and the passing of time fall in between.  A   *)
(* handler that awaits nothing is one step, and so is the login, which     *)
(* reads no state before its body.  Refusals change nothing.               *)
(***************************************************************************)
EXTENDS ChatStore

CONSTANTS
    Sessions,       \* session tokens: random, never used twice
    Requests,       \* slots for the handlers that are waiting for a body
    Passwords,
    FirstAdmin,     \* the account made by setup-admin.js
    FirstPassword

ASSUME AdminAssumption == FirstAdmin \in Users /\ FirstPassword \in Passwords
ASSUME OwnersAssumption == Users \intersect NoRow = {}
ASSUME TokensAssumption == Users \intersect {"unused", "ended", "as created"} = {}

VARIABLES
    account,    \* account[u]: "unborn", "user", "admin", or "gone"
    password,   \* password[u]: what users.password_hash verifies
    session,    \* session[s]: the user of a valid row, "unused", or "ended"
    credential, \* credential[s]: the password that opened s (history only)
    handler,    \* handler[q]: what handler q holds across its await
    settings,   \* the users with a row of user_settings
    edited      \* edited[c]: whose PATCH the chat's title or scroll position is

serverVars == <<account, password, session, credential, handler>>
detailVars == <<settings, edited>>
vars == <<storeVars, serverVars, detailVars>>

Idle == [route |-> "idle"]
MessagePosts ==
    [route : {"message"}, session : Sessions, user : Users,
     chat : Chats, message : Messages, expected : Revisions]
AdminPosts == [route : {"reset-password", "create-user"}, session : Sessions, user : Users]
SettingsPosts == [route : {"settings"}, user : Users]
ChatPatches == [route : {"patch"}, user : Users, chat : Chats]
NotEdited == "as created"

TypeOK ==
    /\ StoreTypeOK
    /\ account \in [Users -> {"unborn", "user", "admin", "gone"}]
    /\ password \in [Users -> Passwords]
    /\ session \in [Sessions -> Users \union {"unused", "ended"}]
    /\ credential \in [Sessions -> Passwords]
    /\ handler \in [Requests -> {Idle} \union MessagePosts \union AdminPosts
                                \union SettingsPosts \union ChatPatches]
    /\ settings \in SUBSET Users
    /\ edited \in [Chats -> Users \union {NotEdited}]

Init ==
    /\ StoreInit
    /\ account = [u \in Users |-> IF u = FirstAdmin THEN "admin" ELSE "unborn"]
    /\ password = [u \in Users |-> FirstPassword]
    /\ session = [s \in Sessions |-> "unused"]
    /\ credential = [s \in Sessions |-> FirstPassword]
    /\ handler = [q \in Requests |-> Idle]
    /\ settings = {}
    /\ edited = [c \in Chats |-> NotEdited]

Alive == {u \in Users : account[u] \in {"user", "admin"}}
Admins == {u \in Users : account[u] = "admin"}

\* getSessionUser: session s is valid and belongs to u.
Authenticates(s, u) == session[s] = u /\ u \in Users

EndSessionsOf(u) == [s \in Sessions |-> IF session[s] = u THEN "ended" ELSE session[s]]

-----------------------------------------------------------------------------
(* Sessions.                                                               *)

\* POST /api/login with u's password.
Login(s, u) ==
    /\ u \in Alive
    /\ session[s] = "unused"
    /\ session' = [session EXCEPT ![s] = u]
    /\ credential' = [credential EXCEPT ![s] = password[u]]
    /\ UNCHANGED <<storeVars, account, password, handler, detailVars>>

\* POST /api/logout, or the 24 hours of the session are over.
SessionEnds(s) ==
    /\ session[s] \in Users
    /\ session' = [session EXCEPT ![s] = "ended"]
    /\ UNCHANGED <<storeVars, account, password, credential, handler, detailVars>>

-----------------------------------------------------------------------------
(* Chats.                                                                  *)

CreateChatRoute(s, u, c) ==
    /\ Authenticates(s, u)
    /\ CreateChat(c, u)
    /\ UNCHANGED <<serverVars, detailVars>>

ClearRoute(s, u, c) ==
    /\ Authenticates(s, u)
    /\ ClearChatMessages(c, u)
    /\ UNCHANGED <<serverVars, detailVars>>

DeleteChatRoute(s, u, c) ==
    /\ Authenticates(s, u)
    /\ DeleteChat(c, u)
    /\ edited' = [edited EXCEPT ![c] = NotEdited]
    /\ UNCHANGED <<serverVars, settings>>

\* The first step of POST .../messages; what the body will say is already fixed.
PostArrives(q, s, u, c, m, expected) ==
    /\ handler[q].route = "idle"
    /\ Authenticates(s, u)
    /\ handler' = [handler EXCEPT ![q] =
           [route |-> "message", session |-> s, user |-> u,
            chat |-> c, message |-> m, expected |-> expected]]
    /\ UNCHANGED <<storeVars, account, password, session, credential, detailVars>>

\* A handler that trusts the session it saw when the request arrived.
FaultyStillAuthenticated(h) == h.user \in Alive

\* The original session is looked up again inside the write transaction.
StillAuthenticated(h) == Authenticates(h.session, h.user)

\* The second step succeeds: final checks and insertion in one transaction.
PostCommits(q) ==
    LET h == handler[q] IN
    /\ h.route = "message"
    /\ StillAuthenticated(h)
    /\ CreateMessage(h.chat, h.user, h.message, h.expected)
    /\ handler' = [handler EXCEPT ![q] = Idle]
    /\ UNCHANGED <<account, password, session, credential, detailVars>>

\* The second step fails (401, 404, 409, 500), or the body is bad or never comes;
\* the same for the administrator's handlers.
HandlerGivesUp(q) ==
    /\ handler[q].route # "idle"
    /\ handler' = [handler EXCEPT ![q] = Idle]
    /\ UNCHANGED <<storeVars, account, password, session, credential, detailVars>>

-----------------------------------------------------------------------------
(* Settings, titles and scroll positions: written for the user who was     *)
(* seen when the request arrived, whatever became of the session.          *)

\* getUserSettings inserts a row of defaults if there is none.
LoadSettingsRoute(s, u) ==
    /\ Authenticates(s, u)
    /\ settings' = settings \union {u}
    /\ UNCHANGED <<storeVars, serverVars, edited>>

SettingsPostArrives(q, s, u) ==
    /\ handler[q].route = "idle"
    /\ Authenticates(s, u)
    /\ handler' = [handler EXCEPT ![q] = [route |-> "settings", user |-> u]]
    /\ UNCHANGED <<storeVars, account, password, session, credential, detailVars>>

\* A table without its foreign key.
FaultySaveUserSettings(q) ==
    /\ handler[q].route = "settings"
    /\ settings' = settings \union {handler[q].user}
    /\ handler' = [handler EXCEPT ![q] = Idle]
    /\ UNCHANGED <<storeVars, account, password, session, credential, edited>>

\* The foreign key refuses a row for a user who was deleted in the meantime.
SaveUserSettings(q) ==
    /\ handler[q].route = "settings"
    /\ handler[q].user \in Alive
    /\ settings' = settings \union {handler[q].user}
    /\ handler' = [handler EXCEPT ![q] = Idle]
    /\ UNCHANGED <<storeVars, account, password, session, credential, edited>>

PatchArrives(q, s, u, c) ==
    /\ handler[q].route = "idle"
    /\ Authenticates(s, u)
    /\ handler' = [handler EXCEPT ![q] = [route |-> "patch", user |-> u, chat |-> c]]
    /\ UNCHANGED <<storeVars, account, password, session, credential, detailVars>>

\* An UPDATE by the chat's id alone.
FaultyUpdateChat(q) ==
    LET h == handler[q] IN
    /\ h.route = "patch"
    /\ owner[h.chat] \in Users
    /\ edited' = [edited EXCEPT ![h.chat] = h.user]
    /\ handler' = [handler EXCEPT ![q] = Idle]
    /\ UNCHANGED <<storeVars, account, password, session, credential, settings>>

\* renameChat and updateChatScrollTop, when a row of the user's is found.
UpdateChat(q) ==
    LET h == handler[q] IN
    /\ h.route = "patch"
    /\ owner[h.chat] = h.user
    /\ edited' = [edited EXCEPT ![h.chat] = h.user]
    /\ handler' = [handler EXCEPT ![q] = Idle]
    /\ UNCHANGED <<storeVars, account, password, session, credential, settings>>

-----------------------------------------------------------------------------
(* Accounts.  The administrator's rights are read when the request arrives *)
(* and not again.                                                          *)

AdminPostArrives(q, s, u, route) ==
    /\ handler[q].route = "idle"
    /\ Authenticates(s, u)
    /\ u \in Admins
    /\ handler' = [handler EXCEPT ![q] = [route |-> route, session |-> s, user |-> u]]
    /\ UNCHANGED <<storeVars, account, password, session, credential, detailVars>>

\* A reset that leaves the target's sessions alone.
FaultyResetPassword(q, target, new) ==
    /\ handler[q].route = "reset-password"
    /\ target \in Alive
    /\ password' = [password EXCEPT ![target] = new]
    /\ handler' = [handler EXCEPT ![q] = Idle]
    /\ UNCHANGED <<storeVars, account, session, credential, detailVars>>

\* The new hash and the end of the target's sessions are one transaction.
ResetPassword(q, target, new) ==
    /\ handler[q].route = "reset-password"
    /\ target \in Alive
    /\ password' = [password EXCEPT ![target] = new]
    /\ session' = EndSessionsOf(target)
    /\ handler' = [handler EXCEPT ![q] = Idle]
    /\ UNCHANGED <<storeVars, account, credential, detailVars>>

CreateUser(q, new, role, initial) ==
    /\ handler[q].route = "create-user"
    /\ account[new] = "unborn"
    /\ account' = [account EXCEPT ![new] = role]
    /\ password' = [password EXCEPT ![new] = initial]
    /\ handler' = [handler EXCEPT ![q] = Idle]
    /\ UNCHANGED <<storeVars, session, credential, detailVars>>

\* A deletion that spares only the caller, or forgets even that.
FaultyMayDelete(admin, target) == target \in Alive

\* Nobody deletes their own account, nor the last administrator.
MayDelete(admin, target) ==
    /\ target \in Alive \ {admin}
    /\ target \in Admins => Cardinality(Admins) > 1

DropChatsOf(target) ==
    /\ owner' = [c \in Chats |-> IF owner[c] = target THEN "gone" ELSE owner[c]]
    /\ history' = [c \in Chats |-> IF owner[c] = target THEN {} ELSE history[c]]
    /\ UNCHANGED revision

\* Messages, chats and the user in one transaction; sessions and settings by cascade.
DeleteUserRoute(s, admin, target) ==
    /\ Authenticates(s, admin)
    /\ admin \in Admins
    /\ MayDelete(admin, target)
    /\ DropChatsOf(target)
    /\ account' = [account EXCEPT ![target] = "gone"]
    /\ session' = EndSessionsOf(target)
    /\ settings' = settings \ {target}
    /\ edited' = [c \in Chats |-> IF owner[c] = target THEN NotEdited ELSE edited[c]]
    /\ UNCHANGED <<password, credential, handler>>

-----------------------------------------------------------------------------
SessionNext == \E s \in Sessions : SessionEnds(s) \/ \E u \in Users : Login(s, u)

ChatNext ==
    \E s \in Sessions, u \in Users, c \in Chats :
        \/ CreateChatRoute(s, u, c)
        \/ ClearRoute(s, u, c)
        \/ DeleteChatRoute(s, u, c)
        \/ \E q \in Requests, m \in Messages, r \in Revisions : PostArrives(q, s, u, c, m, r)

DetailNext ==
    \/ \E s \in Sessions, u \in Users :
           \/ LoadSettingsRoute(s, u)
           \/ \E q \in Requests :
                  \/ SettingsPostArrives(q, s, u)
                  \/ \E c \in Chats : PatchArrives(q, s, u, c)
    \/ \E q \in Requests : SaveUserSettings(q) \/ UpdateChat(q)

AccountNext ==
    \/ \E q \in Requests, s \in Sessions, u \in Users :
           \E route \in {"reset-password", "create-user"} : AdminPostArrives(q, s, u, route)
    \/ \E q \in Requests, u \in Users, p \in Passwords :
           \/ ResetPassword(q, u, p)
           \/ \E role \in {"user", "admin"} : CreateUser(q, u, role, p)
    \/ \E s \in Sessions, admin \in Users, u \in Users : DeleteUserRoute(s, admin, u)

Next ==
    \/ SessionNext
    \/ ChatNext
    \/ \E q \in Requests : PostCommits(q) \/ HandlerGivesUp(q)
    \/ DetailNext
    \/ AccountNext

Spec == Init /\ [][Next]_vars

-----------------------------------------------------------------------------
(* Properties.                                                             *)

\* Every stored message was written by someone who had seen the chat's current
\* revision: no write that was under way when the chat was cleared, in this
\* handler or another, survives or follows the clear.
StoredAtCurrentRevision ==
    \A c \in Chats : \A row \in history[c] : row.at = revision[c]

\* No row outlives what it belongs to: messages their chat, chats, sessions and
\* settings their user.  Some of this is done by cascade, some by hand, and the
\* settings of a deleted user may still be on their way.
NoOrphans ==
    /\ \A c \in Chats : owner[c] \in NoRow => history[c] = {}
    /\ \A c \in Chats : owner[c] \in Users => owner[c] \in Alive
    /\ \A s \in Sessions : session[s] \in Users => session[s] \in Alive
    /\ settings \subseteq Alive

\* A title or position that arrives late never reaches the chat of another user,
\* or a chat that is gone.
EditsAreTheOwners ==
    \A c \in Chats : edited[c] # NotEdited => edited[c] = owner[c]

\* After a password reset nobody is logged in by the old password, whatever
\* login was under way.
NoSessionUnderOldPassword ==
    \A s \in Sessions : session[s] \in Users => credential[s] = password[session[s]]

\* There is always an administrator: deletions, even by administrators of each
\* other, never lock everybody out.
AnAdminRemains == Admins # {}

\* A message enters a chat only while the very session that posted it is valid
\* and its user owns the chat, although the body took its time to arrive.
WritesNeedALiveSession ==
    [][\A c \in Chats : history'[c] \subseteq history[c]
          \/ \E q \in Requests :
                 /\ handler[q].route = "message"
                 /\ handler[q].chat = c
                 /\ session[handler[q].session] = handler[q].user
                 /\ owner[c] = handler[q].user]_vars

\* Messages leave a chat all together and only with a new revision (or with the
\* chat), one that can still be told from every other: a reader who sees an
\* unchanged revision has lost nothing.
HistoryGrowsOrIsCleared ==
    [][\A c \in Chats :
          \/ history[c] \subseteq history'[c] /\ revision'[c] = revision[c]
          \/ history'[c] = {} /\ revision'[c] = revision[c] + 1 /\ revision'[c] \in Revisions
          \/ owner'[c] = "gone"]_vars
=============================================================================
