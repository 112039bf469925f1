------------------------------- MODULE WebChat -------------------------------
(***************************************************************************)
(* The web application's chats (web/handlers/create_chat.go,               *)
(* invitations.go, chat.go, shipper.go).                                   *)
(*                                                                         *)
(* gin runs every HTTP request in a goroutine of its own.  A request is a  *)
(* sequence of database statements and gRPC calls with no transaction      *)
(* around them: each statement is a step here, any of them may fail, and   *)
(* the first failure ends the request with whatever was written before.    *)
(* The statements that only look something up are part of the step that    *)
(* uses the answer, where what they read can only grow.                    *)
(*                                                                         *)
(* Of the chat server this module knows what RoomServer shows its calls to *)
(* do: a room takes two clients, each once, and its memory is lost when    *)
(* the server restarts.  Only the messages and users tables are declared   *)
(* in the repository; no constraint on the others is relied on.            *)
(***************************************************************************)
EXTENDS Integers, FiniteSets

CONSTANTS
    User,
    Chat,           \* rows of chats, and the ids of their rooms
    Handler,        \* goroutines serving requests
    NoUser, NoChat,
    MaxRequests     \* bound on the requests that write

ASSUME HasUsers == IsFiniteSet(User) /\ NoUser \notin User
ASSUME HasChats == NoChat \notin Chat
ASSUME RequestsBound == MaxRequests \in Nat

VARIABLES
    \* PostgreSQL.
    chats,          \* rows of chats
    participants,   \* participants[c][u]: rows of chat_participants
    invitations,    \* invitations[i]: the row made by request i
    private,        \* private[c][u]: keys in user_private_keys
    messages,       \* messages[c]: what the rows of messages are encrypted with
    \* The chat server's memory.
    rooms, members, \* members[c]: clients of room c
    public,         \* public[c][u]: the key room c has for u
    \* The web server's memory.
    request,        \* request[h]: what handler h is doing
    contexts,       \* contexts[c][u]: the entry of cipherContexts
    \* What was seen of it.
    requests,       \* requests so far; the number of one is also its key's
    used,           \* rooms created so far
    seated,         \* seated[c]: keys room c ever had
    told,           \* <<c, u>>: u was told that it is in chat c
    failed          \* <<c, u>>: a request of u about chat c was refused

tables == <<chats, participants, invitations, private, messages>>
chatServer == <<rooms, members, public>>
seen == <<requests, used, seated, told, failed>>
vars == <<tables, chatServer, request, contexts, seen>>

-----------------------------------------------------------------------------
(* The statements of each handler, in the order of the code.               *)

CreateScript ==
    [room |-> "chat", chat |-> "participant", participant |-> "invitation",
     invitation |-> "private", private |-> "join", join |-> "public",
     public |-> "done"]

InviteScript == [invitation |-> "done"]

AcceptScript ==
    [status |-> "participant", participant |-> "join", join |-> "private",
     private |-> "public", public |-> "done"]

DeclineScript == [status |-> "done"]

JoinScript ==
    [participant |-> "ownKey", ownKey |-> "private", private |-> "join",
     join |-> "public", public |-> "done"]

\* Mutant: the public key is sent before the private one is saved.
Follows_PublicFirst(kind) ==
    CASE kind = "create" -> [CreateScript EXCEPT !.join = "public"]
      [] kind = "invite" -> InviteScript
      [] kind = "accept" -> [AcceptScript EXCEPT !.join = "public", !.public = "private",
                                                 !.private = "done"]
      [] kind = "decline" -> DeclineScript
      [] OTHER -> JoinScript

\* Mutant: an accepted invitation joins the room, then the table.
Follows_RoomFirst(kind) ==
    CASE kind = "create" -> CreateScript
      [] kind = "invite" -> InviteScript
      [] kind = "accept" -> [AcceptScript EXCEPT !.status = "join", !.join = "participant",
                                                 !.participant = "private"]
      [] kind = "decline" -> DeclineScript
      [] OTHER -> JoinScript

Follows(kind) ==
    CASE kind = "create" -> CreateScript
      [] kind = "invite" -> InviteScript
      [] kind = "accept" -> AcceptScript
      [] kind = "decline" -> DeclineScript
      [] OTHER -> JoinScript

-----------------------------------------------------------------------------
(* Helpers.                                                                *)

Number == 0..MaxRequests    \* 0: none

NoKey == 0

NoContext == [own |-> NoKey, other |-> NoKey]

NoInvitation == [chat |-> NoChat, inviter |-> NoUser, invitee |-> NoUser,
                 status |-> "none"]

Idle == [kind |-> "none", step |-> "done", id |-> 0, user |-> NoUser, chat |-> NoChat,
         invitee |-> NoUser, invitation |-> 0]

At(h, step) == request[h].step = step

\* The statement succeeded: on to the next, or the answer.
Proceed(h) ==
    LET r == request[h]
        next == Follows(r.kind)[r.step]
    IN
    /\ request' = [request EXCEPT ![h] =
                     IF next = "done" THEN Idle ELSE [r EXCEPT !.step = next]]
    /\ told' = IF next = "done" /\ r.kind \in {"create", "accept", "join"}
               THEN told \cup {<<r.chat, r.user>>} ELSE told
    /\ UNCHANGED failed

\* It reported an error, and the request ends there.
Fail(h) ==
    /\ request' = [request EXCEPT ![h] = Idle]
    /\ failed' = failed \cup {<<request[h].chat, request[h].user>>}
    /\ UNCHANGED told

\* A write that reports an error may have been applied.
Write(h, done, undone) == (done /\ Proceed(h)) \/ ((done \/ undone) /\ Fail(h))

\* The number of rows in chat_participants.
Count(c) ==
    LET sum[S \in SUBSET User] ==
          IF S = {} THEN 0
          ELSE LET u == CHOOSE v \in S : TRUE IN participants[c][u] + sum[S \ {u}]
    IN sum[User]

-----------------------------------------------------------------------------
(* Requests arriving, with the checks that come before the first write.    *)

Arrives(h, kind, step, u, c, v, i) ==
    /\ At(h, "done") /\ requests < MaxRequests
    /\ requests' = requests + 1
    /\ request' = [request EXCEPT ![h] =
                     [kind |-> kind, step |-> step, id |-> requests + 1, user |-> u,
                      chat |-> c, invitee |-> v, invitation |-> i]]
    /\ UNCHANGED <<tables, chatServer, contexts, used, seated, told, failed>>

\* c is the room id the chat server will draw.
CreateChat(h, u, c, v) == c \notin used /\ Arrives(h, "create", "room", u, c, v, 0)

\* Not to oneself, by a participant, and not while the same one is pending.
SendInvitation(h, u, c, v) ==
    /\ u # v /\ c \in chats /\ participants[c][u] > 0
    /\ \A i \in DOMAIN invitations :
          invitations[i] # [chat |-> c, inviter |-> u, invitee |-> v, status |-> "pending"]
    /\ Arrives(h, "invite", "invitation", u, c, v, 0)

\* Mutant: the status is not updated, and a refusal goes on as an acceptance.
RespondInvitation_NoStatus(h, kind, i) ==
    /\ invitations[i].status = "pending"
    /\ Arrives(h, kind, "participant", invitations[i].invitee, invitations[i].chat, NoUser, i)

RespondInvitation(h, kind, i) ==
    /\ invitations[i].status = "pending"
    /\ Arrives(h, kind, "status", invitations[i].invitee, invitations[i].chat, NoUser, i)

\* For whoever has the room id, invited or not, unless the chat is full.
JoinChat(h, u, c) ==
    /\ c \in chats /\ Count(c) < 2
    /\ Arrives(h, "join", "participant", u, c, NoUser, 0)

-----------------------------------------------------------------------------
(* The statements.                                                         *)

CreateRoom(h) ==
    LET c == request[h].chat IN
    /\ At(h, "room")
    /\ c \notin used
    /\ Write(h, rooms' = rooms \cup {c} /\ used' = used \cup {c},
                UNCHANGED <<rooms, used>>)
    /\ UNCHANGED <<tables, members, public, contexts, requests, seated>>

InsertChat(h) ==
    /\ At(h, "chat")
    /\ Write(h, chats' = chats \cup {request[h].chat}, UNCHANGED chats)
    /\ UNCHANGED <<participants, invitations, private, messages, chatServer, contexts,
                   requests, used, seated>>

InsertParticipant(h) ==
    LET r == request[h] IN
    /\ At(h, "participant")
    /\ Write(h, participants' = [participants EXCEPT ![r.chat][r.user] = @ + 1],
                UNCHANGED participants)
    /\ UNCHANGED <<chats, invitations, private, messages, chatServer, contexts,
                   requests, used, seated>>

InsertInvitation(h) ==
    LET r == request[h] IN
    /\ At(h, "invitation")
    /\ Write(h, invitations' = [invitations EXCEPT ![r.id] =
                   [chat |-> r.chat, inviter |-> r.user, invitee |-> r.invitee,
                    status |-> "pending"]],
                UNCHANGED invitations)
    /\ UNCHANGED <<chats, participants, private, messages, chatServer, contexts,
                   requests, used, seated>>

\* UPDATE ... WHERE id: whatever the status is by now.
UpdateStatus(h) ==
    LET r == request[h] IN
    /\ At(h, "status")
    /\ Write(h, invitations' = [invitations EXCEPT ![r.invitation].status =
                   IF r.kind = "accept" THEN "accepted" ELSE "declined"],
                UNCHANGED invitations)
    /\ UNCHANGED <<chats, participants, private, messages, chatServer, contexts,
                   requests, used, seated>>

\* JoinChat of a user that has a key already: no second join, no second key.
FindOwnKey(h) ==
    LET r == request[h] IN
    /\ At(h, "ownKey")
    /\ IF private[r.chat][r.user] = {} THEN Proceed(h)
       ELSE /\ request' = [request EXCEPT ![h] = Idle]
            /\ told' = told \cup {<<r.chat, r.user>>}
            /\ UNCHANGED failed
    /\ UNCHANGED <<tables, chatServer, contexts, requests, used, seated>>

\* The prime comes from GetRoom but in CreateChat, which drew it.
SavePrivateKey(h) ==
    LET r == request[h] IN
    /\ At(h, "private")
    /\ \/ /\ r.kind = "create" \/ r.chat \in rooms
          /\ Write(h, private' = [private EXCEPT ![r.chat][r.user] = @ \cup {r.id}],
                      UNCHANGED private)
       \/ /\ r.kind # "create" /\ r.chat \notin rooms
          /\ Fail(h) /\ UNCHANGED private
    /\ UNCHANGED <<chats, participants, invitations, messages, chatServer, contexts,
                   requests, used, seated>>

\* Mutant: joining a room again is no error.
JoinRoom_Again(h) ==
    LET r == request[h] IN
    /\ At(h, "join")
    /\ IF r.chat \in rooms /\ (r.user \in members[r.chat] \/ Cardinality(members[r.chat]) < 2)
       THEN Write(h, members' = [members EXCEPT ![r.chat] = @ \cup {r.user}],
                     UNCHANGED members)
       ELSE Fail(h) /\ UNCHANGED members
    /\ UNCHANGED <<tables, rooms, public, contexts, requests, used, seated>>

\* Mutant: the answer's Success is not looked at.
JoinRoom_IgnoresRefusal(h) ==
    LET r == request[h] IN
    /\ At(h, "join")
    /\ IF r.chat \in rooms /\ r.user \notin members[r.chat] /\ Cardinality(members[r.chat]) < 2
       THEN Write(h, members' = [members EXCEPT ![r.chat] = @ \cup {r.user}],
                     UNCHANGED members)
       ELSE Proceed(h) /\ UNCHANGED members
    /\ UNCHANGED <<tables, rooms, public, contexts, requests, used, seated>>

\* Mutant: a room takes any number of clients.
JoinRoom_NoLimit(h) ==
    LET r == request[h] IN
    /\ At(h, "join")
    /\ IF r.chat \in rooms /\ r.user \notin members[r.chat]
       THEN Write(h, members' = [members EXCEPT ![r.chat] = @ \cup {r.user}],
                     UNCHANGED members)
       ELSE Fail(h) /\ UNCHANGED members
    /\ UNCHANGED <<tables, rooms, public, contexts, requests, used, seated>>

\* The chat server's JoinRoom; an answer without Success is an error too.
JoinRoom(h) ==
    LET r == request[h] IN
    /\ At(h, "join")
    /\ IF r.chat \in rooms /\ r.user \notin members[r.chat] /\ Cardinality(members[r.chat]) < 2
       THEN Write(h, members' = [members EXCEPT ![r.chat] = @ \cup {r.user}],
                     UNCHANGED members)
       ELSE Fail(h) /\ UNCHANGED members
    /\ UNCHANGED <<tables, rooms, public, contexts, requests, used, seated>>

\* The chat server's SendPublicKey.  To a room that is gone, or by a client
\* that is not in it, it answers without Success, which nobody looks at.
SendPublicKey(h) ==
    LET r == request[h] IN
    /\ At(h, "public")
    /\ IF r.chat \in rooms /\ r.user \in members[r.chat]
       THEN Write(h, /\ public' = [public EXCEPT ![r.chat][r.user] = r.id]
                     /\ seated' = [seated EXCEPT ![r.chat] = @ \cup {r.id}],
                     UNCHANGED <<public, seated>>)
       ELSE (Proceed(h) \/ Fail(h)) /\ UNCHANGED <<public, seated>>
    /\ UNCHANGED <<tables, rooms, members, contexts, requests, used>>

-----------------------------------------------------------------------------
(* The chat page and messages.                                             *)

\* ChatHandler: with two participants and another member's key the context
\* is made, of whichever private key the database returns first.
OpenChat(u, c) ==
    /\ c \in chats \cap rooms /\ Count(c) >= 2
    /\ \E own \in private[c][u], v \in User \ {u} :
          /\ public[c][v] # NoKey
          /\ contexts' = [contexts EXCEPT ![c][u] = [own |-> own, other |-> public[c][v]]]
    /\ UNCHANGED <<tables, chatServer, request, seen>>

\* SendMessageHandler and "chat" of the WebSocket handler.  The chat server
\* does not ask who is in the room; without a room the text is lost, and
\* the user is sent back to the page all the same.
SendMessage(u, c) ==
    /\ contexts[c][u] # NoContext /\ c \in rooms
    /\ messages' = [messages EXCEPT ![c] = @ \cup {contexts[c][u]}]
    /\ UNCHANGED <<chats, participants, invitations, private, chatServer, request,
                   contexts, seen>>

-----------------------------------------------------------------------------
(* Either server restarts.                                                 *)

RestartWeb ==
    /\ request' = [h \in Handler |-> Idle]
    /\ contexts' = [c \in Chat |-> [u \in User |-> NoContext]]
    /\ failed' = failed \cup {<<request[h].chat, request[h].user>> :
                                h \in {g \in Handler : ~At(g, "done")}}
    /\ UNCHANGED <<tables, chatServer, requests, used, seated, told>>

RestartChatServer ==
    /\ rooms # {}
    /\ rooms' = {}
    /\ members' = [c \in Chat |-> {}]
    /\ public' = [c \in Chat |-> [u \in User |-> NoKey]]
    /\ UNCHANGED <<tables, request, contexts, seen>>

-----------------------------------------------------------------------------
Init ==
    /\ chats = {} /\ rooms = {} /\ used = {} /\ told = {} /\ failed = {}
    /\ participants = [c \in Chat |-> [u \in User |-> 0]]
    /\ invitations = [i \in 1..MaxRequests |-> NoInvitation]
    /\ private = [c \in Chat |-> [u \in User |-> {}]]
    /\ messages = [c \in Chat |-> {}]
    /\ members = [c \in Chat |-> {}]
    /\ public = [c \in Chat |-> [u \in User |-> NoKey]]
    /\ request = [h \in Handler |-> Idle]
    /\ contexts = [c \in Chat |-> [u \in User |-> NoContext]]
    /\ requests = 0
    /\ seated = [c \in Chat |-> {}]

Arrive(h) ==
    \/ \E u, v \in User, c \in Chat : CreateChat(h, u, c, v) \/ SendInvitation(h, u, c, v)
    \/ \E i \in 1..MaxRequests, kind \in {"accept", "decline"} : RespondInvitation(h, kind, i)
    \/ \E u \in User, c \in Chat : JoinChat(h, u, c)

Execute(h) ==
    \/ CreateRoom(h) \/ InsertChat(h) \/ InsertParticipant(h) \/ InsertInvitation(h)
    \/ UpdateStatus(h) \/ FindOwnKey(h) \/ SavePrivateKey(h)
    \/ JoinRoom(h) \/ SendPublicKey(h)

Next ==
    \/ \E h \in Handler : Arrive(h) \/ Execute(h)
    \/ \E u \in User, c \in Chat : OpenChat(u, c) \/ SendMessage(u, c)
    \/ RestartWeb
    \/ RestartChatServer

Spec == Init /\ [][Next]_vars

-----------------------------------------------------------------------------
(* Properties.                                                             *)

Context == [own : Number, other : Number]

Kind == {"create", "invite", "accept", "decline", "join"}

Statement == {"room", "chat", "participant", "invitation", "status", "ownKey",
              "private", "join", "public", "done"}

\* CreateChat starts with a call to the chat server.
Steps(kind) ==
    DOMAIN Follows(kind) \cup (IF kind = "create" THEN {"room"} ELSE {})

\* Every variable has its type, and a handler is at a statement of its
\* request: a request never runs into the statements of another handler.
TypeOK ==
    /\ chats \subseteq Chat /\ rooms \subseteq Chat /\ used \subseteq Chat
    /\ participants \in [Chat -> [User -> Nat]]
    /\ invitations \in [1..MaxRequests ->
          [chat : Chat \cup {NoChat}, inviter : User \cup {NoUser},
           invitee : User \cup {NoUser},
           status : {"none", "pending", "accepted", "declined"}]]
    /\ private \in [Chat -> [User -> SUBSET Number]]
    /\ messages \in [Chat -> SUBSET Context]
    /\ members \in [Chat -> SUBSET User]
    /\ public \in [Chat -> [User -> Number]]
    /\ contexts \in [Chat -> [User -> Context]]
    /\ requests \in Number
    /\ \A h \in Handler :
          /\ request[h] \in [kind : Kind \cup {"none"}, step : Statement, id : Number,
                              user : User \cup {NoUser}, chat : Chat \cup {NoChat},
                              invitee : User \cup {NoUser}, invitation : Number]
          /\ request[h] # Idle => request[h].step \in Steps(request[h].kind)
    /\ seated \in [Chat -> SUBSET Number]
    /\ told \subseteq Chat \X User
    /\ failed \subseteq Chat \X User

\* Whoever is in a chat's room is among the participants of the chat, though
\* room and table belong to two servers and three handlers write both
\* (create_chat.go:107-154, invitations.go:277-313, chat.go:278-335): a
\* user can always find the chat whose place it takes in its lobby.
MembersAreParticipants ==
    \A c \in Chat : \A u \in members[c] : participants[c][u] > 0

\* A key the room gives to the other member is one whose private key was
\* saved: no failure between the statements leaves a member whose messages
\* it could not read itself after a restart (create_chat.go:144-165).
PublicHasPrivate ==
    \A c \in Chat, u \in User :
        public[c][u] # NoKey => public[c][u] \in private[c][u]

\* A room never replaces a member's key, though an invitation may be
\* answered twice at once (invitations.go:253-269) and one user may join in
\* two ways: only the request that JoinRoom let in sends a key.
KeysAreFinal ==
    [][\A c \in rooms \cap rooms', u \in User :
          public[c][u] # NoKey => public'[c][u] = public[c][u]]_vars

Busy(c, u) == \E h \in Handler : request[h].chat = c /\ request[h].user = u

\* A user that was told it is in a chat, and had no request about it refused,
\* is a participant, is in the room while there is one, and its only private
\* key is the one of the public key the room gives away.
ToldMeansSeated ==
    \A c \in rooms, u \in User :
        <<c, u>> \in told \ failed /\ ~Busy(c, u) =>
            /\ participants[c][u] > 0
            /\ u \in members[c]
            /\ private[c][u] = {public[c][u]}

\* All that is or was encrypted in a chat with a key its room knows is
\* encrypted with the same two keys: the history stays readable, and what
\* one member sends the other can read (chat.go:158-178), across restarts of
\* both servers and however many users try to get in.
SecretsAgree ==
    \A c \in Chat :
        \A x \in messages[c] \cup {contexts[c][u] : u \in User} :
            x.own \in seated[c] => {x.own, x.other} = seated[c]
=============================================================================
