-------------------------- MODULE ChatServerProofs --------------------------
(***************************************************************************)
(* Proofs about ChatServer, for every set of users, chats, messages,       *)
(* sessions, passwords and waiting handlers.                               *)
(***************************************************************************)
EXTENDS ChatServer, TLAPS

\* Users are neither missing rows nor unused or ended sessions.
LEMMA UsersAreNotMarks ==
    /\ "unborn" \notin Users /\ "gone" \notin Users
    /\ "unused" \notin Users /\ "ended" \notin Users
  BY OwnersAssumption, TokensAssumption DEF NoRow

\* What a handler's slot holds is told apart by its route.
LEMMA HandlerTyped ==
    ASSUME TypeOK, NEW q \in Requests
    PROVE  /\ handler[q].route = "message" => handler[q] \in MessagePosts
           /\ handler[q].route \in {"reset-password", "create-user"} => handler[q] \in AdminPosts
           /\ handler[q].route = "settings" => handler[q] \in SettingsPosts
           /\ handler[q].route = "patch" => handler[q] \in ChatPatches
  BY DEF TypeOK, MessagePosts, AdminPosts, SettingsPosts, ChatPatches, Idle

\* The store's statements keep its types, and the sessions and accounts are not
\* theirs to change.
LEMMA StoreStep ==
    ASSUME StoreTypeOK, NEW c \in Chats, NEW u \in Users,
           \/ CreateChat(c, u)
           \/ ClearChatMessages(c, u)
           \/ DeleteChat(c, u)
           \/ \E m \in Messages, r \in Revisions : CreateMessage(c, u, m, r)
    PROVE  StoreTypeOK'
<1> USE DEF StoreTypeOK, NoRow, Rows
<1>1. CASE CreateChat(c, u)
  BY <1>1 DEF CreateChat
<1>2. CASE ClearChatMessages(c, u)
  BY <1>2, MaxRevisionAssumption DEF ClearChatMessages, Revisions
<1>3. CASE DeleteChat(c, u)
  BY <1>3 DEF DeleteChat
<1>4. CASE \E m \in Messages, r \in Revisions : CreateMessage(c, u, m, r)
  BY <1>4 DEF CreateMessage, Insert
<1> QED
  BY <1>1, <1>2, <1>3, <1>4

-----------------------------------------------------------------------------
(* Types.                                                                  *)

LEMMA TypeInit == Init => TypeOK
<1> SUFFICES ASSUME Init PROVE TypeOK
  OBVIOUS
<1>1. StoreTypeOK
  BY MaxRevisionAssumption DEF Init, StoreInit, StoreTypeOK, NoRow, Revisions
<1> QED
  BY <1>1, AdminAssumption DEF Init, TypeOK

\* What a slot may hold.
Slots == {Idle} \union MessagePosts \union AdminPosts \union SettingsPosts \union ChatPatches

LEMMA TypeStep == TypeOK /\ [Next]_vars => TypeOK'
<1> SUFFICES ASSUME TypeOK, [Next]_vars PROVE TypeOK'
  OBVIOUS
<1> USE DEF TypeOK, detailVars
<1>1. ASSUME NEW s \in Sessions, NEW u \in Users, Login(s, u) PROVE TypeOK'
  BY <1>1 DEF Login, storeVars, StoreTypeOK
<1>2. ASSUME NEW s \in Sessions, SessionEnds(s) PROVE TypeOK'
  BY <1>2 DEF SessionEnds, storeVars, StoreTypeOK
<1>3. ASSUME NEW s \in Sessions, NEW u \in Users, NEW c \in Chats,
             CreateChatRoute(s, u, c) \/ ClearRoute(s, u, c) \/ DeleteChatRoute(s, u, c)
      PROVE  TypeOK'
  <2>1. StoreTypeOK'
    BY <1>3, StoreStep DEF CreateChatRoute, ClearRoute, DeleteChatRoute
  <2>2. UNCHANGED <<serverVars, settings>> /\ edited' \in [Chats -> Users \union {NotEdited}]
    BY <1>3 DEF CreateChatRoute, ClearRoute, DeleteChatRoute
  <2> QED
    BY <2>1, <2>2 DEF serverVars
\* A handler's slot is filled or emptied.
<1>4. ASSUME NEW q \in Requests, NEW held \in Slots,
             handler' = [handler EXCEPT ![q] = held],
             UNCHANGED <<storeVars, account, password, session, credential, detailVars>>
      PROVE  TypeOK'
  <2>1. handler' \in [Requests -> Slots]
    BY <1>4 DEF Slots
  <2> QED
    BY <1>4, <2>1 DEF Slots, storeVars, StoreTypeOK
<1>5. ASSUME NEW q \in Requests, NEW s \in Sessions, NEW u \in Users, NEW c \in Chats,
             NEW m \in Messages, NEW r \in Revisions, PostArrives(q, s, u, c, m, r)
      PROVE  TypeOK'
  <2>1. [route |-> "message", session |-> s, user |-> u,
         chat |-> c, message |-> m, expected |-> r] \in Slots
    BY DEF Slots, MessagePosts
  <2> QED
    BY <1>4, <1>5, <2>1 DEF PostArrives
<1>6. ASSUME NEW q \in Requests, NEW s \in Sessions, NEW u \in Users,
             \/ SettingsPostArrives(q, s, u)
             \/ \E c \in Chats : PatchArrives(q, s, u, c)
             \/ \E route \in {"reset-password", "create-user"} : AdminPostArrives(q, s, u, route)
      PROVE  TypeOK'
  <2>1. /\ [route |-> "settings", user |-> u] \in Slots
        /\ \A c \in Chats : [route |-> "patch", user |-> u, chat |-> c] \in Slots
        /\ \A route \in {"reset-password", "create-user"} :
              [route |-> route, session |-> s, user |-> u] \in Slots
    BY DEF Slots, SettingsPosts, ChatPatches, AdminPosts
  <2> QED
    BY <1>4, <1>6, <2>1 DEF SettingsPostArrives, PatchArrives, AdminPostArrives
<1>7. ASSUME NEW q \in Requests, PostCommits(q) PROVE TypeOK'
  <2>1. handler[q] \in MessagePosts
    BY <1>7, HandlerTyped DEF PostCommits
  <2>2. StoreTypeOK'
    BY <1>7, <2>1, StoreStep DEF PostCommits, MessagePosts
  <2> QED
    BY <1>7, <2>2 DEF PostCommits
<1>8. ASSUME NEW q \in Requests, SaveUserSettings(q) \/ UpdateChat(q) PROVE TypeOK'
  <2>1. handler' \in [Requests -> Slots]
    BY <1>8 DEF SaveUserSettings, UpdateChat, Slots
  <2>2. CASE SaveUserSettings(q)
    <3>1. handler[q] \in SettingsPosts
      BY <2>2, HandlerTyped DEF SaveUserSettings
    <3>2. settings' \in SUBSET Users
      BY <2>2, <3>1 DEF SaveUserSettings, SettingsPosts
    <3> QED
      BY <2>1, <2>2, <3>2 DEF SaveUserSettings, Slots, storeVars, StoreTypeOK
  <2>3. CASE UpdateChat(q)
    <3>1. handler[q] \in ChatPatches
      BY <2>3, HandlerTyped DEF UpdateChat
    <3>2. edited' \in [Chats -> Users \union {NotEdited}]
      BY <2>3, <3>1 DEF UpdateChat, ChatPatches
    <3> QED
      BY <2>1, <2>3, <3>2 DEF UpdateChat, Slots, storeVars, StoreTypeOK
  <2> QED
    BY <1>8, <2>2, <2>3
<1>9. ASSUME NEW s \in Sessions, NEW u \in Users, LoadSettingsRoute(s, u) PROVE TypeOK'
  BY <1>9 DEF LoadSettingsRoute, serverVars, storeVars, StoreTypeOK
<1>10. ASSUME NEW q \in Requests, NEW u \in Users, NEW p \in Passwords, ResetPassword(q, u, p)
       PROVE  TypeOK'
  BY <1>10 DEF ResetPassword, EndSessionsOf, storeVars, StoreTypeOK
<1>11. ASSUME NEW q \in Requests, NEW u \in Users, NEW p \in Passwords,
              NEW role \in {"user", "admin"}, CreateUser(q, u, role, p)
       PROVE  TypeOK'
  BY <1>11 DEF CreateUser, storeVars, StoreTypeOK
<1>12. ASSUME NEW s \in Sessions, NEW admin \in Users, NEW u \in Users,
              DeleteUserRoute(s, admin, u)
       PROVE  TypeOK'
  <2>1. StoreTypeOK'
    BY <1>12 DEF DeleteUserRoute, DropChatsOf, StoreTypeOK, NoRow
  <2> QED
    BY <1>12, <2>1 DEF DeleteUserRoute, EndSessionsOf
<1>13. CASE UNCHANGED vars
  BY <1>13 DEF vars, storeVars, serverVars, StoreTypeOK
<1>14. ASSUME NEW q \in Requests, HandlerGivesUp(q) PROVE TypeOK'
  <2>1. Idle \in Slots
    BY DEF Slots
  <2> QED
    BY <1>4, <1>14, <2>1 DEF HandlerGivesUp
<1> QED
  BY <1>1, <1>2, <1>3, <1>5, <1>6, <1>7, <1>8, <1>9, <1>10, <1>11, <1>12, <1>13, <1>14
     DEF Next, SessionNext, ChatNext, DetailNext, AccountNext

-----------------------------------------------------------------------------
(* Which steps touch the store, and which the accounts and sessions.       *)

LEMMA StoreMoves ==
    ASSUME [Next]_vars
    PROVE  \/ UNCHANGED storeVars
           \/ \E s \in Sessions, u \in Users, c \in Chats :
                  /\ Authenticates(s, u)
                  /\ CreateChat(c, u) \/ ClearChatMessages(c, u) \/ DeleteChat(c, u)
                  /\ UNCHANGED serverVars
           \/ \E q \in Requests : PostCommits(q)
           \/ \E s \in Sessions, admin \in Users, u \in Users : DeleteUserRoute(s, admin, u)
<1>1. SessionNext \/ AccountNext => \/ UNCHANGED storeVars
                                   \/ \E s \in Sessions, admin \in Users, u \in Users :
                                          DeleteUserRoute(s, admin, u)
  BY DEF SessionNext, SessionEnds, Login, AccountNext, AdminPostArrives, ResetPassword,
         CreateUser
<1>2. ASSUME NEW q \in Requests, HandlerGivesUp(q) PROVE UNCHANGED storeVars
  BY <1>2 DEF HandlerGivesUp
<1>4. DetailNext => UNCHANGED storeVars
  BY DEF DetailNext, LoadSettingsRoute, SettingsPostArrives, PatchArrives, SaveUserSettings,
         UpdateChat
<1>3. ASSUME ChatNext
      PROVE  \/ UNCHANGED storeVars
             \/ \E s \in Sessions, u \in Users, c \in Chats :
                    /\ Authenticates(s, u)
                    /\ CreateChat(c, u) \/ ClearChatMessages(c, u) \/ DeleteChat(c, u)
                    /\ UNCHANGED serverVars
  <2>1. PICK s \in Sessions, u \in Users, c \in Chats :
            \/ CreateChatRoute(s, u, c) \/ ClearRoute(s, u, c) \/ DeleteChatRoute(s, u, c)
            \/ \E q \in Requests, m \in Messages, r \in Revisions : PostArrives(q, s, u, c, m, r)
    BY <1>3 DEF ChatNext
  <2>2. CASE \E q \in Requests, m \in Messages, r \in Revisions : PostArrives(q, s, u, c, m, r)
    BY <2>2 DEF PostArrives
  <2>3. CASE CreateChatRoute(s, u, c) \/ ClearRoute(s, u, c) \/ DeleteChatRoute(s, u, c)
    BY <2>3 DEF CreateChatRoute, ClearRoute, DeleteChatRoute
  <2> QED
    BY <2>1, <2>2, <2>3
<1> QED
  BY <1>1, <1>2, <1>3, <1>4 DEF Next, vars

LEMMA AccountMoves ==
    ASSUME [Next]_vars
    PROVE  \/ UNCHANGED <<account, password, session, credential>>
           \/ \E s \in Sessions, u \in Users : Login(s, u)
           \/ \E s \in Sessions : SessionEnds(s)
           \/ \E q \in Requests, u \in Users, p \in Passwords :
                  \/ ResetPassword(q, u, p)
                  \/ \E role \in {"user", "admin"} : CreateUser(q, u, role, p)
           \/ \E s \in Sessions, admin \in Users, u \in Users : DeleteUserRoute(s, admin, u)
<1>1. ChatNext => UNCHANGED <<account, password, session, credential>>
  BY DEF ChatNext, CreateChatRoute, ClearRoute, DeleteChatRoute, PostArrives, serverVars
<1>2. ASSUME NEW q \in Requests, PostCommits(q) \/ HandlerGivesUp(q)
      PROVE  UNCHANGED <<account, password, session, credential>>
  BY <1>2 DEF PostCommits, HandlerGivesUp
<1>3. ASSUME NEW q \in Requests, NEW s \in Sessions, NEW u \in Users, NEW route,
             AdminPostArrives(q, s, u, route)
      PROVE  UNCHANGED <<account, password, session, credential>>
  BY <1>3 DEF AdminPostArrives
<1>4. DetailNext => UNCHANGED <<account, password, session, credential>>
  BY DEF DetailNext, LoadSettingsRoute, SettingsPostArrives, PatchArrives, SaveUserSettings,
         UpdateChat, serverVars
<1> QED
  BY <1>1, <1>2, <1>3, <1>4 DEF Next, SessionNext, AccountNext, vars, serverVars

-----------------------------------------------------------------------------
(* Revisions.                                                              *)

LEMMA RevisionStep ==
    TypeOK /\ StoredAtCurrentRevision /\ [Next]_vars => StoredAtCurrentRevision'
<1> SUFFICES ASSUME TypeOK, StoredAtCurrentRevision, [Next]_vars
             PROVE  StoredAtCurrentRevision'
  OBVIOUS
<1> USE DEF TypeOK, StoreTypeOK, StoredAtCurrentRevision
<1>1. CASE UNCHANGED storeVars
  BY <1>1 DEF storeVars
<1>2. ASSUME NEW c \in Chats, NEW u \in Users,
             CreateChat(c, u) \/ ClearChatMessages(c, u) \/ DeleteChat(c, u)
      PROVE  StoredAtCurrentRevision'
  BY <1>2 DEF CreateChat, ClearChatMessages, DeleteChat
<1>3. ASSUME NEW q \in Requests, PostCommits(q)
      PROVE  StoredAtCurrentRevision'
  <2>1. handler[q] \in MessagePosts
    BY <1>3, HandlerTyped DEF PostCommits
  <2> QED
    BY <1>3, <2>1 DEF PostCommits, CreateMessage, Insert, MessagePosts
<1>4. ASSUME NEW s \in Sessions, NEW admin \in Users, NEW u \in Users,
             DeleteUserRoute(s, admin, u)
      PROVE  StoredAtCurrentRevision'
  BY <1>4 DEF DeleteUserRoute, DropChatsOf
<1> QED
  BY <1>1, <1>2, <1>3, <1>4, StoreMoves

-----------------------------------------------------------------------------
(* Owners.                                                                 *)

\* NoOrphans without the settings: chats and messages, and sessions.
OwnersLive ==
    /\ \A c \in Chats : owner[c] \in NoRow => history[c] = {}
    /\ \A c \in Chats : owner[c] \in Users => owner[c] \in Alive
    /\ \A s \in Sessions : session[s] \in Users => session[s] \in Alive

LEMMA OwnersStep == TypeOK /\ OwnersLive /\ [Next]_vars => OwnersLive'
<1> SUFFICES ASSUME TypeOK, OwnersLive, [Next]_vars PROVE OwnersLive'
  OBVIOUS
<1> USE UsersAreNotMarks DEF TypeOK, StoreTypeOK, OwnersLive, Alive, NoRow
\* An owner of a valid session is alive, and so is the owner of a new chat.
<1>1. ASSUME NEW s \in Sessions, NEW u \in Users, NEW c \in Chats, Authenticates(s, u),
             CreateChat(c, u) \/ ClearChatMessages(c, u) \/ DeleteChat(c, u),
             UNCHANGED serverVars
      PROVE  OwnersLive'
  BY <1>1 DEF Authenticates, CreateChat, ClearChatMessages, DeleteChat, serverVars
<1>2. ASSUME NEW q \in Requests, PostCommits(q) PROVE OwnersLive'
  <2>1. handler[q] \in MessagePosts
    BY <1>2, HandlerTyped DEF PostCommits
  <2> QED
    BY <1>2, <2>1 DEF PostCommits, CreateMessage, Insert, MessagePosts
<1>3. ASSUME NEW s \in Sessions, NEW admin \in Users, NEW u \in Users,
             DeleteUserRoute(s, admin, u)
      PROVE  OwnersLive'
  BY <1>3 DEF DeleteUserRoute, DropChatsOf, EndSessionsOf
<1>4. ASSUME UNCHANGED storeVars,
             \/ UNCHANGED <<account, password, session, credential>>
             \/ \E s \in Sessions, u \in Users : Login(s, u)
             \/ \E s \in Sessions : SessionEnds(s)
      PROVE  OwnersLive'
  BY <1>4 DEF Login, SessionEnds, storeVars
<1>5. ASSUME NEW q \in Requests, NEW u \in Users, NEW p \in Passwords,
             \/ ResetPassword(q, u, p)
             \/ \E role \in {"user", "admin"} : CreateUser(q, u, role, p)
      PROVE  OwnersLive'
  BY <1>5 DEF ResetPassword, CreateUser, EndSessionsOf, storeVars
<1> QED
  BY <1>1, <1>2, <1>3, <1>4, <1>5, StoreMoves, AccountMoves

\* Whoever gets a row of settings is alive then, and it goes with the account.
LEMMA SettingsMoves ==
    ASSUME [Next]_vars
    PROVE  \/ settings' = settings
           \/ \E s \in Sessions, u \in Users : LoadSettingsRoute(s, u)
           \/ \E q \in Requests : SaveUserSettings(q)
           \/ \E s \in Sessions, admin \in Users, u \in Users : DeleteUserRoute(s, admin, u)
<1> USE DEF detailVars
<1>1. ChatNext => settings' = settings
  BY DEF ChatNext, CreateChatRoute, ClearRoute, DeleteChatRoute, PostArrives
<1>2. ASSUME NEW q \in Requests, PostCommits(q) \/ HandlerGivesUp(q) \/ UpdateChat(q)
      PROVE  settings' = settings
  BY <1>2 DEF PostCommits, HandlerGivesUp, UpdateChat
<1>3. SessionNext => settings' = settings
  BY DEF SessionNext, SessionEnds, Login
<1>4. AccountNext => \/ settings' = settings
                     \/ \E s \in Sessions, admin \in Users, u \in Users :
                            DeleteUserRoute(s, admin, u)
  BY DEF AccountNext, AdminPostArrives, ResetPassword, CreateUser
<1>5. ASSUME NEW q \in Requests, NEW s \in Sessions, NEW u \in Users,
             \/ SettingsPostArrives(q, s, u)
             \/ \E c \in Chats : PatchArrives(q, s, u, c)
      PROVE  settings' = settings
  BY <1>5 DEF SettingsPostArrives, PatchArrives
<1> QED
  BY <1>1, <1>2, <1>3, <1>4, <1>5 DEF Next, DetailNext, vars

LEMMA SettingsStep ==
    TypeOK /\ OwnersLive /\ settings \subseteq Alive /\ [Next]_vars => (settings \subseteq Alive)'
<1> SUFFICES ASSUME TypeOK, OwnersLive, settings \subseteq Alive, [Next]_vars
             PROVE  settings' \subseteq Alive'
  BY DEF Alive
<1> USE UsersAreNotMarks DEF TypeOK, Alive
<1>1. ASSUME NEW s \in Sessions, NEW u \in Users, LoadSettingsRoute(s, u)
      PROVE  settings' \subseteq Alive'
  BY <1>1 DEF LoadSettingsRoute, Authenticates, OwnersLive, serverVars
<1>2. ASSUME NEW q \in Requests, SaveUserSettings(q)
      PROVE  settings' \subseteq Alive'
  BY <1>2 DEF SaveUserSettings
<1>3. ASSUME NEW s \in Sessions, NEW admin \in Users, NEW u \in Users,
             DeleteUserRoute(s, admin, u)
      PROVE  settings' \subseteq Alive'
  BY <1>3 DEF DeleteUserRoute
\* Nobody else dies.
<1>4. ASSUME settings' = settings,
             ~ \E s \in Sessions, admin \in Users, u \in Users : DeleteUserRoute(s, admin, u)
      PROVE  settings' \subseteq Alive'
  <2>1. Alive \subseteq Alive'
    BY <1>4, AccountMoves DEF Login, SessionEnds, ResetPassword, CreateUser
  <2> QED
    BY <1>4, <2>1
<1> QED
  BY <1>1, <1>2, <1>3, <1>4, SettingsMoves

LEMMA OrphansStep == TypeOK /\ NoOrphans /\ [Next]_vars => NoOrphans'
  BY OwnersStep, SettingsStep DEF NoOrphans, OwnersLive

-----------------------------------------------------------------------------
(* Titles and scroll positions.                                            *)

LEMMA EditsStep == TypeOK /\ EditsAreTheOwners /\ [Next]_vars => EditsAreTheOwners'
<1> SUFFICES ASSUME TypeOK, EditsAreTheOwners, [Next]_vars PROVE EditsAreTheOwners'
  OBVIOUS
<1> USE UsersAreNotMarks DEF TypeOK, StoreTypeOK, EditsAreTheOwners, detailVars, NotEdited
<1>1. ASSUME UNCHANGED <<owner, edited>> PROVE EditsAreTheOwners'
  BY <1>1
\* Nobody has edited a chat before it is created.
<1>2. ASSUME NEW s \in Sessions, NEW u \in Users, NEW c \in Chats, CreateChatRoute(s, u, c)
      PROVE  EditsAreTheOwners'
  BY <1>2 DEF CreateChatRoute, CreateChat
<1>3. ASSUME NEW s \in Sessions, NEW u \in Users, NEW c \in Chats, DeleteChatRoute(s, u, c)
      PROVE  EditsAreTheOwners'
  BY <1>3 DEF DeleteChatRoute, DeleteChat
<1>4. ASSUME NEW s \in Sessions, NEW u \in Users, NEW c \in Chats, ClearRoute(s, u, c)
      PROVE  EditsAreTheOwners'
  BY <1>4 DEF ClearRoute, ClearChatMessages
<1>5. ASSUME NEW q \in Requests, PostCommits(q) PROVE EditsAreTheOwners'
  BY <1>5 DEF PostCommits, CreateMessage, Insert
<1>6. ASSUME NEW q \in Requests, UpdateChat(q) PROVE EditsAreTheOwners'
  BY <1>6 DEF UpdateChat, storeVars
<1>7. ASSUME NEW s \in Sessions, NEW admin \in Users, NEW u \in Users,
             DeleteUserRoute(s, admin, u)
      PROVE  EditsAreTheOwners'
  BY <1>7 DEF DeleteUserRoute, DropChatsOf
\* The other steps change neither.
<1>8. SessionNext => UNCHANGED <<owner, edited>>
  BY DEF SessionNext, SessionEnds, Login, storeVars
<1>9. ASSUME NEW q \in Requests, HandlerGivesUp(q) PROVE UNCHANGED <<owner, edited>>
  BY <1>9 DEF HandlerGivesUp, storeVars
<1>10. AccountNext => \/ UNCHANGED <<owner, edited>>
                      \/ \E s \in Sessions, admin \in Users, u \in Users :
                             DeleteUserRoute(s, admin, u)
  BY DEF AccountNext, AdminPostArrives, ResetPassword, CreateUser, storeVars
<1>11. DetailNext => \/ UNCHANGED <<owner, edited>>
                     \/ \E q \in Requests : UpdateChat(q)
  BY DEF DetailNext, LoadSettingsRoute, SettingsPostArrives, PatchArrives, SaveUserSettings,
         storeVars
<1>12. ASSUME NEW q \in Requests, NEW s \in Sessions, NEW u \in Users, NEW c \in Chats,
              NEW m \in Messages, NEW r \in Revisions, PostArrives(q, s, u, c, m, r)
       PROVE  UNCHANGED <<owner, edited>>
  BY <1>12 DEF PostArrives, storeVars
<1> QED
  BY <1>1, <1>2, <1>3, <1>4, <1>5, <1>6, <1>7, <1>8, <1>9, <1>10, <1>11, <1>12
     DEF Next, ChatNext, vars, storeVars

-----------------------------------------------------------------------------
(* Passwords and administrators.                                           *)

\* A new account's first password disturbs no session, because NoOrphans leaves
\* none that could belong to it.
LEMMA CredentialStep ==
    TypeOK /\ NoOrphans /\ NoSessionUnderOldPassword /\ [Next]_vars
        => NoSessionUnderOldPassword'
<1> SUFFICES ASSUME TypeOK, NoOrphans, NoSessionUnderOldPassword, [Next]_vars
             PROVE  NoSessionUnderOldPassword'
  OBVIOUS
<1> USE UsersAreNotMarks DEF TypeOK, NoSessionUnderOldPassword
<1>1. CASE UNCHANGED <<account, password, session, credential>>
  BY <1>1
<1>2. ASSUME NEW s \in Sessions, NEW u \in Users, Login(s, u) \/ SessionEnds(s)
      PROVE  NoSessionUnderOldPassword'
  BY <1>2 DEF Login, SessionEnds
<1>3. ASSUME NEW q \in Requests, NEW u \in Users, NEW p \in Passwords, ResetPassword(q, u, p)
      PROVE  NoSessionUnderOldPassword'
  BY <1>3 DEF ResetPassword, EndSessionsOf
<1>4. ASSUME NEW q \in Requests, NEW u \in Users, NEW p \in Passwords,
             NEW role \in {"user", "admin"}, CreateUser(q, u, role, p)
      PROVE  NoSessionUnderOldPassword'
  <2>1. \A s \in Sessions : session[s] # u
    BY <1>4 DEF CreateUser, NoOrphans, Alive
  <2> QED
    BY <1>4, <2>1 DEF CreateUser
<1>5. ASSUME NEW s \in Sessions, NEW admin \in Users, NEW u \in Users,
             DeleteUserRoute(s, admin, u)
      PROVE  NoSessionUnderOldPassword'
  BY <1>5 DEF DeleteUserRoute, EndSessionsOf
<1>6. ASSUME NEW s \in Sessions, SessionEnds(s) PROVE NoSessionUnderOldPassword'
  BY <1>6 DEF SessionEnds
<1> QED
  BY <1>1, <1>2, <1>3, <1>4, <1>5, <1>6, AccountMoves

\* The administrator who deletes another account is one who stays.
LEMMA AdminStep == TypeOK /\ AnAdminRemains /\ [Next]_vars => AnAdminRemains'
<1> SUFFICES ASSUME TypeOK, AnAdminRemains, [Next]_vars PROVE AnAdminRemains'
  OBVIOUS
<1>1. CASE UNCHANGED account
  BY <1>1 DEF AnAdminRemains, Admins
<1>2. ASSUME NEW q \in Requests, NEW u \in Users, NEW p \in Passwords,
             NEW role \in {"user", "admin"}, CreateUser(q, u, role, p)
      PROVE  AnAdminRemains'
  BY <1>2 DEF CreateUser, AnAdminRemains, Admins, TypeOK
<1>3. ASSUME NEW s \in Sessions, NEW admin \in Users, NEW u \in Users,
             DeleteUserRoute(s, admin, u)
      PROVE  AnAdminRemains'
  <2>1. admin \in Admins /\ u # admin
    BY <1>3 DEF DeleteUserRoute, MayDelete
  <2>2. admin \in Admins'
    BY <1>3, <2>1 DEF DeleteUserRoute, Admins, TypeOK
  <2> QED
    BY <2>2 DEF AnAdminRemains
<1> QED
  BY <1>1, <1>2, <1>3, AccountMoves DEF Login, SessionEnds, ResetPassword

-----------------------------------------------------------------------------
(* What a step may never do.                                               *)

LEMMA WritesStep ==
    ASSUME TypeOK, [Next]_vars, NEW c \in Chats
    PROVE  history'[c] \subseteq history[c]
           \/ \E q \in Requests :
                  /\ handler[q].route = "message"
                  /\ handler[q].chat = c
                  /\ session[handler[q].session] = handler[q].user
                  /\ owner[c] = handler[q].user
<1> USE DEF TypeOK, StoreTypeOK
<1>1. CASE UNCHANGED storeVars
  BY <1>1 DEF storeVars
<1>2. ASSUME NEW d \in Chats, NEW u \in Users,
             CreateChat(d, u) \/ ClearChatMessages(d, u) \/ DeleteChat(d, u)
      PROVE  history'[c] \subseteq history[c]
  BY <1>2 DEF CreateChat, ClearChatMessages, DeleteChat
<1>3. ASSUME NEW q \in Requests, PostCommits(q), handler[q].chat # c
      PROVE  history'[c] = history[c]
  BY <1>3 DEF PostCommits, CreateMessage, Insert
<1>4. ASSUME NEW q \in Requests, PostCommits(q)
      PROVE  /\ handler[q].route = "message"
             /\ session[handler[q].session] = handler[q].user
             /\ owner[handler[q].chat] = handler[q].user
  BY <1>4 DEF PostCommits, CreateMessage, StillAuthenticated, Authenticates
<1>5. ASSUME NEW s \in Sessions, NEW admin \in Users, NEW u \in Users,
             DeleteUserRoute(s, admin, u)
      PROVE  history'[c] \subseteq history[c]
  BY <1>5 DEF DeleteUserRoute, DropChatsOf
<1> QED
  BY <1>1, <1>2, <1>3, <1>4, <1>5, StoreMoves

LEMMA HistoryStep ==
    ASSUME TypeOK, [Next]_vars, NEW c \in Chats
    PROVE  \/ history[c] \subseteq history'[c] /\ revision'[c] = revision[c]
           \/ history'[c] = {} /\ revision'[c] = revision[c] + 1 /\ revision'[c] \in Revisions
           \/ owner'[c] = "gone"
<1> USE DEF TypeOK, StoreTypeOK
<1>1. CASE UNCHANGED storeVars
  BY <1>1 DEF storeVars
<1>2. ASSUME NEW d \in Chats, NEW u \in Users,
             CreateChat(d, u) \/ ClearChatMessages(d, u) \/ DeleteChat(d, u)
      PROVE  \/ history'[c] = history[c] /\ revision'[c] = revision[c]
             \/ history'[c] = {} /\ revision'[c] = revision[c] + 1 /\ revision'[c] \in Revisions
             \/ owner'[c] = "gone"
  BY <1>2, MaxRevisionAssumption DEF CreateChat, ClearChatMessages, DeleteChat, Revisions
<1>3. ASSUME NEW q \in Requests, PostCommits(q)
      PROVE  history[c] \subseteq history'[c] /\ revision'[c] = revision[c]
  BY <1>3 DEF PostCommits, CreateMessage, Insert
<1>4. ASSUME NEW s \in Sessions, NEW admin \in Users, NEW u \in Users,
             DeleteUserRoute(s, admin, u)
      PROVE  owner'[c] = "gone" \/ (history'[c] = history[c] /\ revision'[c] = revision[c])
  BY <1>4 DEF DeleteUserRoute, DropChatsOf
<1> QED
  BY <1>1, <1>2, <1>3, <1>4, StoreMoves

-----------------------------------------------------------------------------
(* Theorems.                                                               *)

ServerInv ==
    /\ TypeOK
    /\ StoredAtCurrentRevision
    /\ NoOrphans
    /\ EditsAreTheOwners
    /\ NoSessionUnderOldPassword
    /\ AnAdminRemains

\* The invariant of the server: it holds initially and every handler's step
\* keeps it, whatever other handlers are waiting.
THEOREM ServerInvariant == Spec => []ServerInv
<1>1. Init => ServerInv
  <2> SUFFICES ASSUME Init PROVE ServerInv
    OBVIOUS
  <2>1. FirstAdmin \in Admins
    BY AdminAssumption DEF Init, Admins
  <2>2. StoredAtCurrentRevision /\ NoOrphans /\ EditsAreTheOwners /\ NoSessionUnderOldPassword
    BY UsersAreNotMarks
       DEF Init, StoreInit, StoredAtCurrentRevision, NoOrphans, EditsAreTheOwners,
           NoSessionUnderOldPassword, NoRow
  <2> QED
    BY <2>1, <2>2, TypeInit DEF ServerInv, AnAdminRemains
<1>2. ServerInv /\ [Next]_vars => ServerInv'
  BY TypeStep, RevisionStep, OrphansStep, EditsStep, CredentialStep, AdminStep DEF ServerInv
<1> QED
  BY <1>1, <1>2, PTL DEF Spec

\* The types hold in every reachable state of server.js.
THEOREM ServerTypesCorrect == Spec => []TypeOK
  BY ServerInvariant, PTL DEF ServerInv

\* No write that was under way during a clear survives or follows it (db.js).
THEOREM NoStaleWrite == Spec => []StoredAtCurrentRevision
  BY ServerInvariant, PTL DEF ServerInv

\* Chats, messages, sessions and settings never outlive what they belong to.
THEOREM NothingOrphaned == Spec => []NoOrphans
  BY ServerInvariant, PTL DEF ServerInv

\* A late rename or scroll position changes a chat of its own user only.
THEOREM EditsStayHome == Spec => []EditsAreTheOwners
  BY ServerInvariant, PTL DEF ServerInv

\* A password reset ends every login by the old password.
THEOREM ResetEndsSessions == Spec => []NoSessionUnderOldPassword
  BY ServerInvariant, PTL DEF ServerInv

\* The administrators cannot delete all of themselves.
THEOREM AdminsSurvive == Spec => []AnAdminRemains
  BY ServerInvariant, PTL DEF ServerInv

\* POST .../messages writes only for a session that is valid at the commit.
THEOREM WritersAreLoggedIn == Spec => WritesNeedALiveSession
<1>1. TypeOK /\ [Next]_vars =>
          [\A c \in Chats : history'[c] \subseteq history[c]
              \/ \E q \in Requests :
                     /\ handler[q].route = "message"
                     /\ handler[q].chat = c
                     /\ session[handler[q].session] = handler[q].user
                     /\ owner[c] = handler[q].user]_vars
  BY WritesStep
<1> QED
  BY <1>1, ServerTypesCorrect, PTL DEF Spec, WritesNeedALiveSession

\* A chat whose revision has not moved has lost no message.
THEOREM UnchangedRevisionLosesNothing == Spec => HistoryGrowsOrIsCleared
<1>1. TypeOK /\ [Next]_vars =>
          [\A c \in Chats :
              \/ history[c] \subseteq history'[c] /\ revision'[c] = revision[c]
              \/ history'[c] = {} /\ revision'[c] = revision[c] + 1 /\ revision'[c] \in Revisions
              \/ owner'[c] = "gone"]_vars
  BY HistoryStep
<1> QED
  BY <1>1, ServerTypesCorrect, PTL DEF Spec, HistoryGrowsOrIsCleared
=============================================================================
