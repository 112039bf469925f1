--------------------------- MODULE WebChatProofs ---------------------------
(***************************************************************************)
(* Proofs about WebChat, for any finite set of users, any sets of chats    *)
(* and handlers and any bound on the requests.                             *)
(***************************************************************************)
EXTENDS WebChat, FiniteSetTheorems, TLAPS

-----------------------------------------------------------------------------
(* What a request has done, told from the statement it is at.              *)

\* Its user is a participant.
HasPlace(r) ==
    \/ r.step \in {"ownKey", "private", "join", "public"}
    \/ r.kind = "create" /\ r.step = "invitation"

\* Its private key is saved.
HasPrivate(r) == r.step = "public" \/ (r.step = "join" /\ r.kind # "accept")

\* Its user was let into the room, by this request.
HasSeat(r) == r.step = "public" \/ (r.step = "private" /\ r.kind = "accept")

-----------------------------------------------------------------------------
(* The inductive invariant.                                                *)

\* The requests in progress: each has a number of its own, and is about a
\* chat whose room was created, but for the one that is to create it.
InProgress ==
    [kind : Kind, step : Statement \ {"done"}, id : 1..requests, user : User, chat : Chat,
     invitee : User \cup {NoUser}, invitation : Number]

WellFormed(r) ==
    /\ r.step \in Steps(r.kind)
    /\ r.step # "room" => r.chat \in used
    /\ r.kind \in {"create", "invite"} => r.invitee \in User
    /\ r.step = "status" => /\ r.invitation \in 1..MaxRequests
                            /\ invitations[r.invitation].status # "none"

RequestsHold ==
    /\ request \in [Handler -> InProgress \cup {Idle}]
    /\ \A h \in Handler : request[h] # Idle => WellFormed(request[h])
    /\ \A g, h \in Handler : g # h /\ request[g] # Idle => request[g].id # request[h].id

\* Nothing is about a chat whose room was not created yet, and what is in a
\* room is there while the room is.
Created ==
    /\ chats \subseteq used /\ rooms \subseteq used
    /\ \A i \in 1..MaxRequests : invitations[i].status # "none" =>
          invitations[i].chat \in used /\ invitations[i].invitee \in User
    /\ \A c \in Chat \ used : seated[c] = {} /\ \A u \in User : private[c][u] = {}
    /\ \A c \in Chat \ rooms : members[c] = {}
    /\ \A c \in Chat, u \in User : public[c][u] # NoKey => u \in members[c]

\* A private key has the number of the one request that made it, and so
\* belongs to one user and one chat.
OwnKeys ==
    /\ \A c \in Chat, u \in User : private[c][u] \subseteq 1..requests
    /\ \A c, d \in Chat, u, v \in User :
          private[c][u] \cap private[d][v] # {} => c = d /\ u = v
    /\ \A h \in Handler, c \in Chat, u \in User :
          request[h].id \in private[c][u] => HasPrivate(request[h])

\* What was done for the requests in progress is still so.
DoneSoFar ==
    \A h \in Handler :
        LET r == request[h] IN
        /\ HasPlace(r) => participants[r.chat][r.user] > 0
        /\ HasPrivate(r) => r.id \in private[r.chat][r.user]
        /\ HasSeat(r) /\ r.chat \in rooms =>
              /\ r.user \in members[r.chat]
              /\ public[r.chat][r.user] = NoKey
              /\ \A g \in Handler \ {h} :
                    HasSeat(request[g]) => <<request[g].chat, request[g].user>> # <<r.chat, r.user>>

\* A room seats two, and gives away the keys it ever had.
Seats ==
    /\ \A c \in Chat : \A u, v, w \in members[c] : u = v \/ u = w \/ v = w
    /\ \A c \in Chat : \A k, l, m \in seated[c] : k = l \/ k = m \/ l = m
    /\ \A c \in rooms : seated[c] = {public[c][u] : u \in members[c]} \ {NoKey}
    /\ \A c \in Chat : NoKey \notin seated[c]

\* A private key that is not the one the room has belongs to a request that
\* goes on, unless one was refused; who was told is a participant with a key.
KeysAccounted ==
    /\ \A c \in rooms, u \in User : <<c, u>> \notin failed =>
          \A k \in private[c][u] : \/ k = public[c][u]
                                   \/ \E h \in Handler : /\ request[h].chat = c
                                                         /\ request[h].user = u
                                                         /\ request[h].id = k
    /\ \A t \in told : /\ participants[t[1]][t[2]] > 0
                       /\ private[t[1]][t[2]] # {}

\* A context is of one user's private key and of the key the room gave away
\* for another.
SecretOf(c, x) ==
    x = NoContext \/ \E u, v \in User : /\ u # v
                                        /\ x.own \in private[c][u]
                                        /\ x.other \in private[c][v] \cap seated[c]

Secrets ==
    \A c \in Chat : /\ \A x \in messages[c] : SecretOf(c, x)
                    /\ \A u \in User : SecretOf(c, contexts[c][u])

ChatInv ==
    /\ TypeOK /\ RequestsHold /\ Created
    /\ OwnKeys /\ DoneSoFar /\ Seats /\ KeysAccounted /\ Secrets
    /\ MembersAreParticipants /\ PublicHasPrivate

-----------------------------------------------------------------------------
(* Requests go from statement to statement.                                *)

\* The scripts, by name.
LEMMA Scripts ==
    /\ Follows("create") = CreateScript /\ Follows("invite") = InviteScript
    /\ Follows("accept") = AcceptScript /\ Follows("decline") = DeclineScript
    /\ Follows("join") = JoinScript
BY DEF Follows

\* The statement after one of a script is of the same script, and what is
\* done when it begins is what was done, and what the last one did.
LEMMA NextStatement ==
    ASSUME NEW r, NEW n, r.kind \in Kind, r.step \in Steps(r.kind),
           n.kind = r.kind, n.step = Follows(r.kind)[r.step], n.step # "done"
    PROVE  /\ n.step \in Steps(r.kind) /\ r.step # "public"
           /\ n.step \notin {"room", "status", "done"}
           /\ HasPlace(n) => HasPlace(r) \/ r.step = "participant"
           /\ HasPrivate(n) => HasPrivate(r) \/ r.step = "private"
           /\ HasSeat(n) => HasSeat(r) \/ r.step = "join"
           /\ HasPrivate(r) => HasPrivate(n)
<1> USE DEF HasPlace, HasPrivate, HasSeat
<1>1. CASE r.kind = "create"
    BY <1>1, Scripts DEF Steps, CreateScript
<1>2. CASE r.kind = "accept"
    BY <1>2, Scripts DEF Steps, AcceptScript
<1>3. CASE r.kind = "join"
    BY <1>3, Scripts DEF Steps, JoinScript
<1>4. CASE r.kind \in {"decline", "invite"}
    BY <1>4, Scripts DEF Steps, InviteScript, DeclineScript
<1> QED
    BY <1>1, <1>2, <1>3, <1>4 DEF Kind

\* A request that ends with its last statement has sent its key, if it is
\* one of those that do.
LEMMA LastStatement ==
    ASSUME NEW r, r.kind \in {"create", "accept", "join"}, r.step \in Steps(r.kind),
           Follows(r.kind)[r.step] = "done"
    PROVE  r.step = "public"
<1>1. CASE r.kind = "create"
    BY <1>1, Scripts DEF Steps, CreateScript
<1>2. CASE r.kind = "accept"
    BY <1>2, Scripts DEF Steps, AcceptScript
<1>3. CASE r.kind = "join"
    BY <1>3, Scripts DEF Steps, JoinScript
<1> QED
    BY <1>1, <1>2, <1>3

\* A statement that locks, writes or sends is one of those three kinds'.
LEMMA WhoSeats ==
    ASSUME NEW r, r.kind \in Kind, r.step \in Steps(r.kind),
           r.step \in {"ownKey", "private", "join", "public", "participant"}
    PROVE  r.kind \in {"create", "accept", "join"} /\ (r.step = "ownKey" => r.kind = "join")
BY Scripts DEF Kind, Steps, CreateScript, InviteScript, AcceptScript, DeclineScript, JoinScript

Advance(h, n) ==
    /\ request' = [request EXCEPT ![h] = n]
    /\ n = [request[h] EXCEPT !.step = Follows(request[h].kind)[request[h].step]]
    /\ n.step # "done"

\* A request goes on, or it ends and its handler is idle.
LEMMA Moves ==
    ASSUME RequestsHold, NEW h \in Handler, request[h] # Idle, Proceed(h) \/ Fail(h)
    PROVE  \/ request' = [request EXCEPT ![h] = Idle]
           \/ Proceed(h) /\ \E n : Advance(h, n)
<1> DEFINE n == [request[h] EXCEPT !.step = Follows(request[h].kind)[request[h].step]]
<1>1. request[h] \in InProgress
    BY DEF RequestsHold
<1>2. n.step = Follows(request[h].kind)[request[h].step]
    BY <1>1 DEF InProgress
<1> HIDE DEF n
<1> QED
    BY <1>2 DEF Proceed, Fail, Advance, n

\* What is known of the record of a request that goes on.
LEMMA Advanced ==
    ASSUME RequestsHold, NEW h \in Handler, request[h] # Idle, NEW n, Advance(h, n)
    PROVE  /\ n \in InProgress /\ n # Idle /\ request'[h] = n
           /\ n.kind = request[h].kind /\ n.id = request[h].id
           /\ n.user = request[h].user /\ n.chat = request[h].chat
           /\ n.invitee = request[h].invitee
           /\ n.step \in Steps(n.kind) /\ request[h].step # "public"
           /\ n.step \notin {"room", "status", "done"}
           /\ HasPlace(n) => HasPlace(request[h]) \/ request[h].step = "participant"
           /\ HasPrivate(n) => HasPrivate(request[h]) \/ request[h].step = "private"
           /\ HasSeat(n) => HasSeat(request[h]) \/ request[h].step = "join"
           /\ HasPrivate(request[h]) => HasPrivate(n)
<1> PICK r : r = request[h]
    OBVIOUS
<1>1. r \in InProgress /\ r.step \in Steps(r.kind) /\ r.kind \in Kind
    BY DEF RequestsHold, WellFormed, InProgress
<1>2. /\ n.kind = r.kind /\ n.id = r.id /\ n.user = r.user /\ n.chat = r.chat
      /\ n.invitee = r.invitee /\ n.invitation = r.invitation
      /\ n.step = Follows(r.kind)[r.step] /\ n.step # "done"
    BY <1>1 DEF Advance, InProgress
<1>3. /\ n.step \in Steps(r.kind) /\ r.step # "public"
      /\ n.step \notin {"room", "status", "done"}
      /\ HasPlace(n) => HasPlace(r) \/ r.step = "participant"
      /\ HasPrivate(n) => HasPrivate(r) \/ r.step = "private"
      /\ HasSeat(n) => HasSeat(r) \/ r.step = "join"
      /\ HasPrivate(r) => HasPrivate(n)
    BY <1>1, <1>2, NextStatement
<1>4. Steps(r.kind) \subseteq Statement
    BY <1>1, Scripts DEF Kind, Steps, Statement, CreateScript, InviteScript, AcceptScript,
       DeclineScript, JoinScript
<1>5. n \in InProgress
    BY <1>1, <1>2, <1>3, <1>4 DEF Advance, InProgress
<1> QED
    BY <1>1, <1>2, <1>3, <1>5 DEF Advance, RequestsHold, Idle

\* Every statement belongs to a request, which goes on or ends with it.
LEMMA Executes ==
    ASSUME RequestsHold, NEW h \in Handler, Execute(h)
    PROVE  /\ request[h] \in InProgress /\ request[h] # Idle /\ WellFormed(request[h])
           /\ \/ request' = [request EXCEPT ![h] = Idle]
              \/ Proceed(h) /\ \E n : Advance(h, n)
           /\ UNCHANGED requests
<1> USE DEF At
<1>0. request[h].step # "done"
    BY DEF Execute, CreateRoom, InsertChat, InsertParticipant, InsertInvitation, UpdateStatus,
       FindOwnKey, SavePrivateKey, JoinRoom, SendPublicKey
<1>1. request[h] # Idle
    BY <1>0 DEF Idle
<1>2. CASE FindOwnKey(h)
    BY <1>1, <1>2, Moves DEF FindOwnKey, RequestsHold
<1>3. CASE CreateRoom(h) \/ InsertChat(h) \/ InsertParticipant(h) \/ InsertInvitation(h)
           \/ UpdateStatus(h) \/ SavePrivateKey(h) \/ JoinRoom(h) \/ SendPublicKey(h)
  <2>1. Proceed(h) \/ Fail(h)
      BY <1>3 DEF CreateRoom, InsertChat, InsertParticipant, InsertInvitation, UpdateStatus,
         SavePrivateKey, JoinRoom, SendPublicKey, Write
  <2>2. UNCHANGED requests
      BY <1>3 DEF CreateRoom, InsertChat, InsertParticipant, InsertInvitation, UpdateStatus,
         SavePrivateKey, JoinRoom, SendPublicKey
  <2> QED
      BY <1>1, <2>1, <2>2, Moves DEF RequestsHold
<1> QED
    BY <1>2, <1>3 DEF Execute

\* Rows of invitations keep saying that they are rows, and rooms stay used.
LEMMA RowsRemain ==
    ASSUME TypeOK, RequestsHold, Next
    PROVE  /\ used \subseteq used'
           /\ \A i \in 1..MaxRequests :
                 invitations[i].status # "none" => invitations'[i].status # "none"
<1> USE DEF tables, chatServer, seen
<1>1. ASSUME NEW h \in Handler, Execute(h)
      PROVE  /\ used \subseteq used'
             /\ \A i \in 1..MaxRequests :
                   invitations[i].status # "none" => invitations'[i].status # "none"
  <2>1. used \subseteq used'
      BY <1>1 DEF Execute, CreateRoom, InsertChat, InsertParticipant, InsertInvitation,
         UpdateStatus, FindOwnKey, SavePrivateKey, JoinRoom, SendPublicKey, Write
  <2>2. CASE InsertInvitation(h)
    <3>1. PICK i, row : /\ row.status = "pending"
                        /\ invitations' \in {invitations, [invitations EXCEPT ![i] = row]}
        BY <2>2 DEF InsertInvitation, Write
    <3>2. invitations = [j \in 1..MaxRequests |-> invitations[j]]
        BY DEF TypeOK
    <3> QED
        BY <2>1, <3>1, <3>2
  <2>3. CASE UpdateStatus(h)
    <3> DEFINE i == request[h].invitation
               status == IF request[h].kind = "accept" THEN "accepted" ELSE "declined"
    <3>1. invitations' \in {invitations, [invitations EXCEPT ![i] =
                                            [invitations[i] EXCEPT !.status = status]]}
        BY <2>3 DEF UpdateStatus, Write
    <3>2. status # "none"
        OBVIOUS
    <3> HIDE DEF status
    <3>3. invitations \in [1..MaxRequests ->
            [chat : Chat \cup {NoChat}, inviter : User \cup {NoUser},
             invitee : User \cup {NoUser},
             status : {"none", "pending", "accepted", "declined"}]]
        BY DEF TypeOK
    <3>4. \A j \in 1..MaxRequests : [invitations[j] EXCEPT !.status = status].status = status
        BY <3>3
    <3> QED
        BY <2>1, <3>1, <3>2, <3>3, <3>4
  <2>4. CASE ~InsertInvitation(h) /\ ~UpdateStatus(h)
      BY <1>1, <2>1, <2>4 DEF Execute, CreateRoom, InsertChat, InsertParticipant, FindOwnKey,
         SavePrivateKey, JoinRoom, SendPublicKey
  <2> QED
      BY <2>2, <2>3, <2>4
<1>2. ASSUME NEW h \in Handler, Arrive(h) PROVE UNCHANGED <<used, invitations>>
    BY <1>2 DEF Arrive, CreateChat, SendInvitation, RespondInvitation, JoinChat, Arrives
<1> QED
    BY <1>1, <1>2 DEF Next, OpenChat, SendMessage, RestartWeb, RestartChatServer

\* What arrives: a request with a new number, about a chat that has a room
\* or is to get one.
NewRequest(h, r) ==
    /\ request[h] = Idle /\ requests' = requests + 1 /\ requests < MaxRequests
    /\ request' = [request EXCEPT ![h] = r]
    /\ r \in [kind : Kind, step : Statement \ {"done"}, id : {requests + 1}, user : User,
              chat : Chat, invitee : User \cup {NoUser}, invitation : Number]
    /\ WellFormed(r)
    /\ ~HasPlace(r) /\ ~HasPrivate(r) /\ ~HasSeat(r)
    /\ UNCHANGED <<tables, chatServer, contexts, used, seated, told, failed>>

\* Every request arrives so.
LEMMA ArrivesNew ==
    ASSUME TypeOK, RequestsHold, Created, NEW h \in Handler, Arrive(h)
    PROVE  \E r : NewRequest(h, r)
<1> USE DEF At, HasPlace, HasPrivate, HasSeat, Number
<1>1. ASSUME NEW kind \in Kind, NEW step \in {"room", "invitation", "status", "participant"},
             NEW u, NEW c, NEW v, NEW i, Arrives(h, kind, step, u, c, v, i),
             u \in User, c \in Chat, v \in User \cup {NoUser}, i \in Number,
             step \in Steps(kind), step # "room" => c \in used,
             kind \in {"create", "invite"} => v \in User, step = "invitation" => kind = "invite",
             step = "status" => i \in 1..MaxRequests /\ invitations[i].status # "none"
      PROVE  \E r : NewRequest(h, r)
  <2> DEFINE r == [kind |-> kind, step |-> step, id |-> requests + 1, user |-> u,
                   chat |-> c, invitee |-> v, invitation |-> i]
  <2>1. request[h] = Idle
      BY <1>1 DEF Arrives, RequestsHold, InProgress
  <2>2. r \in [kind : Kind, step : Statement \ {"done"}, id : {requests + 1}, user : User,
              chat : Chat, invitee : User \cup {NoUser}, invitation : Number]
      BY <1>1 DEF Statement
  <2>3. WellFormed(r)
      BY <1>1 DEF WellFormed
  <2> QED
      BY <1>1, <2>1, <2>2, <2>3 DEF Arrives, NewRequest
<1>2. \A c \in chats : c \in used /\ c \in Chat
    BY DEF Created, TypeOK
<1>3. 0 \in Number
    BY RequestsBound
<1>4. ASSUME NEW u \in User, NEW v \in User, NEW c \in Chat, CreateChat(h, u, c, v)
      PROVE  \E r : NewRequest(h, r)
    BY <1>1, <1>3, <1>4 DEF CreateChat, Kind, Steps
<1>5. ASSUME NEW u \in User, NEW v \in User, NEW c \in Chat, SendInvitation(h, u, c, v)
      PROVE  \E r : NewRequest(h, r)
  <2>1. "invitation" \in Steps("invite")
      BY Scripts DEF Steps, InviteScript
  <2> QED
      BY <1>1, <1>2, <1>3, <1>5, <2>1 DEF SendInvitation, Kind
<1>6. ASSUME NEW i \in 1..MaxRequests, NEW kind \in {"accept", "decline"},
             RespondInvitation(h, kind, i)
      PROVE  \E r : NewRequest(h, r)
  <2>1. "status" \in Steps(kind)
      BY Scripts DEF Steps, AcceptScript, DeclineScript
  <2>2. invitations[i].status # "none" /\ invitations[i].chat \in used
        /\ invitations[i].chat \in Chat /\ invitations[i].invitee \in User
      BY <1>6 DEF RespondInvitation, Created, TypeOK
  <2> QED
      BY <1>1, <1>6, <2>1, <2>2 DEF RespondInvitation, Kind
<1>7. ASSUME NEW u \in User, NEW c \in Chat, JoinChat(h, u, c)
      PROVE  \E r : NewRequest(h, r)
  <2>1. "participant" \in Steps("join")
      BY Scripts DEF Steps, JoinScript
  <2> QED
      BY <1>1, <1>2, <1>3, <1>7, <2>1 DEF JoinChat, Kind
<1> QED
    BY <1>4, <1>5, <1>6, <1>7 DEF Arrive

\* The requests stay well formed.
LEMMA RequestsStep ==
    ASSUME TypeOK, RequestsHold, Created, [Next]_vars
    PROVE  RequestsHold'
<1> USE DEF tables, chatServer, seen
<1>1. ASSUME NEW h \in Handler, Execute(h) PROVE RequestsHold'
  <2> PICK r : r = request[h]
      OBVIOUS
  <2>1. /\ r \in InProgress /\ r # Idle /\ WellFormed(r)
        /\ \/ request' = [request EXCEPT ![h] = Idle]
           \/ Proceed(h) /\ \E n : Advance(h, n)
        /\ UNCHANGED requests
      BY <1>1, Executes
  <2>2. /\ used \subseteq used'
        /\ \A i \in 1..MaxRequests :
              invitations[i].status # "none" => invitations'[i].status # "none"
      BY <1>1, RowsRemain DEF Next
  <2>3. ASSUME NEW g \in Handler, request[g] # Idle PROVE WellFormed(request[g])'
                                                   \/ request'[g] # request[g]
      BY <2>2, <2>3 DEF RequestsHold, WellFormed
  <2>4. CASE request' = [request EXCEPT ![h] = Idle]
    <3>1. request' \in [Handler -> InProgress' \cup {Idle}]
        BY <2>1, <2>4 DEF RequestsHold, InProgress
    <3>2. \A g \in Handler : g # h => request'[g] = request[g]
        BY <2>4 DEF RequestsHold
    <3>3. request'[h] = Idle
        BY <2>4 DEF RequestsHold
    <3>4. ASSUME NEW g \in Handler, request[g] # Idle PROVE request[g].id # Idle.id
        BY <3>4 DEF RequestsHold, InProgress, Idle
    <3> QED
        BY <2>3, <3>1, <3>2, <3>3, <3>4 DEF RequestsHold
  <2>5. ASSUME NEW n, Proceed(h), Advance(h, n) PROVE RequestsHold'
    <3>1. /\ n \in InProgress /\ n # Idle /\ request'[h] = n
          /\ n.kind = r.kind /\ n.id = r.id /\ n.chat = r.chat /\ n.invitee = r.invitee
          /\ n.step \in Steps(n.kind) /\ n.step \notin {"room", "status", "done"}
        BY <2>1, <2>5, Advanced
    <3>2. n.chat \in used'
      <4>1. CASE r.step = "room"
        <5>1. CreateRoom(h)
            BY <1>1, <4>1 DEF Execute, InsertChat, InsertParticipant, InsertInvitation,
               UpdateStatus, FindOwnKey, SavePrivateKey, JoinRoom, SendPublicKey, At
        <5>2. ~Fail(h)
            BY <3>1 DEF Fail, RequestsHold
        <5> QED
            BY <3>1, <5>1, <5>2 DEF CreateRoom, Write
      <4>2. CASE r.step # "room"
          BY <2>1, <2>2, <3>1, <4>2 DEF WellFormed
      <4> QED
          BY <4>1, <4>2
    <3>3. WellFormed(n)'
        BY <2>1, <3>1, <3>2 DEF WellFormed
    <3>4. request' = [request EXCEPT ![h] = n] /\ InProgress' = InProgress
        BY <2>1, <2>5 DEF Advance, InProgress
    <3>5. request' \in [Handler -> InProgress' \cup {Idle}]
        BY <3>1, <3>4 DEF RequestsHold
    <3>6. \A g \in Handler : g # h => request'[g] = request[g]
        BY <3>4 DEF RequestsHold
    <3> QED
        BY <2>1, <2>3, <3>1, <3>3, <3>5, <3>6 DEF RequestsHold
  <2> QED
      BY <2>1, <2>4, <2>5
<1>2. ASSUME NEW h \in Handler, Arrive(h) PROVE RequestsHold'
  <2>1. PICK r : NewRequest(h, r)
      BY <1>2, ArrivesNew
  <2>2. requests \in Nat /\ 1..requests \subseteq 1..requests' /\ requests + 1 \in 1..requests'
      BY <2>1, RequestsBound DEF NewRequest, TypeOK, Number
  <2>3. r \in InProgress' /\ InProgress \subseteq InProgress'
      BY <2>1, <2>2 DEF NewRequest, InProgress
  <2>4. request' \in [Handler -> InProgress' \cup {Idle}]
      BY <2>1, <2>3 DEF NewRequest, RequestsHold
  <2>5. \A g \in Handler : g # h => request'[g] = request[g]
      BY <2>1 DEF NewRequest, RequestsHold
  <2>6. request'[h] = r /\ r.id = requests + 1
      BY <2>1 DEF NewRequest, RequestsHold
  <2>7. ASSUME NEW g \in Handler PROVE request[g].id # requests + 1
      BY <2>2 DEF RequestsHold, InProgress, Idle
  <2>8. UNCHANGED <<used, invitations>>
      BY <2>1 DEF NewRequest
  <2>9. ASSUME NEW g \in Handler, request'[g] # Idle PROVE WellFormed(request[g])'
      BY <2>1, <2>5, <2>6, <2>8, <2>9 DEF NewRequest, RequestsHold, WellFormed
  <2> QED
      BY <2>4, <2>5, <2>6, <2>7, <2>9 DEF RequestsHold
<1>3. CASE RestartWeb
    BY <1>3 DEF RestartWeb, RequestsHold, Idle
<1>4. CASE RestartChatServer \/ UNCHANGED vars
           \/ \E u \in User, c \in Chat : OpenChat(u, c) \/ SendMessage(u, c)
  <2>1. UNCHANGED <<request, requests, used, invitations>>
      BY <1>4 DEF RestartChatServer, OpenChat, SendMessage, vars
  <2> QED
      BY <2>1 DEF RequestsHold, WellFormed, InProgress
<1> QED
    BY <1>1, <1>2, <1>3, <1>4 DEF Next

-----------------------------------------------------------------------------
(* Types.                                                                  *)

\* Writing one user's cell of a table of chats and users.
LEMMA PutCell ==
    ASSUME NEW V, NEW f \in [Chat -> [User -> V]], NEW c \in Chat, NEW u \in User, NEW v \in V
    PROVE  LET g == [f EXCEPT ![c][u] = v] IN
           /\ g \in [Chat -> [User -> V]]
           /\ g[c][u] = v
           /\ \A d \in Chat, w \in User : <<d, w>> # <<c, u>> => g[d][w] = f[d][w]
<1> DEFINE row == [f[c] EXCEPT ![u] = v]
<1>1. row \in [User -> V] /\ row[u] = v /\ \A w \in User : w # u => row[w] = f[c][w]
    OBVIOUS
<1>2. [f EXCEPT ![c][u] = v] = [f EXCEPT ![c] = row]
    OBVIOUS
<1> HIDE DEF row
<1> QED
    BY <1>1, <1>2

\* Writing one chat's row.
LEMMA PutRow ==
    ASSUME NEW V, NEW f \in [Chat -> V], NEW c \in Chat, NEW v \in V
    PROVE  LET g == [f EXCEPT ![c] = v] IN
           /\ g \in [Chat -> V]
           /\ g[c] = v
           /\ \A d \in Chat : d # c => g[d] = f[d]
OBVIOUS

\* What the rest of the types says, without the requests.
TablesType ==
    /\ chats \subseteq Chat /\ rooms \subseteq Chat /\ used \subseteq Chat
    /\ participants \in [Chat -> [User -> Nat]]
    /\ invitations \in [1..MaxRequests ->
          [chat : Chat \cup {NoChat}, inviter : User \cup {NoUser},
           invitee : User \cup {NoUser},
           status : {"none", "pending", "accepted", "declined"}]]
    /\ private \in [Chat -> [User -> SUBSET Number]]
    /\ messages \in [Chat -> SUBSET Context]
    /\ members \in [Chat -> SUBSET User]
    /\ public \in [Chat -> [User -> Number]]
    /\ contexts \in [Chat -> [User -> Context]]
    /\ requests \in Number
    /\ seated \in [Chat -> SUBSET Number]
    /\ told \subseteq Chat \X User
    /\ failed \subseteq Chat \X User

\* The types of the tables are part of the types.
LEMMA TypeOfTables == TypeOK => TablesType
BY DEF TypeOK, TablesType

\* Well-formed requests have the type of requests.
LEMMA TypeOfAll == TablesType /\ RequestsHold => TypeOK
<1> SUFFICES ASSUME TablesType, RequestsHold PROVE TypeOK
    OBVIOUS
<1>1. ASSUME NEW h \in Handler
      PROVE  /\ request[h] \in [kind : Kind \cup {"none"}, step : Statement, id : Number,
                                 user : User \cup {NoUser}, chat : Chat \cup {NoChat},
                                 invitee : User \cup {NoUser}, invitation : Number]
             /\ request[h] # Idle => request[h].step \in Steps(request[h].kind)
  <2>1. 1..requests \subseteq Number /\ 0 \in Number
      BY RequestsBound DEF TablesType, Number
  <2>2. CASE request[h] = Idle
      BY <2>1, <2>2 DEF Idle, Statement
  <2>3. CASE request[h] # Idle
      BY <2>1, <2>3 DEF RequestsHold, InProgress, WellFormed
  <2> QED
      BY <2>2, <2>3
<1> QED
    BY <1>1 DEF TypeOK, TablesType

\* What is told and refused at a statement is about its request.
LEMMA AnswersType ==
    ASSUME TablesType, RequestsHold, NEW h \in Handler, Execute(h)
    PROVE  /\ request[h].chat \in Chat /\ request[h].user \in User
           /\ request[h].id \in Number
           /\ told' \subseteq Chat \X User /\ failed' \subseteq Chat \X User
<1>1. request[h] \in InProgress
    BY Executes
<1>2. /\ request[h].chat \in Chat /\ request[h].user \in User
      /\ request[h].id \in Number
    BY <1>1, RequestsBound DEF InProgress, TablesType, Number
<1>3. /\ told' \subseteq told \cup {<<request[h].chat, request[h].user>>}
      /\ failed' \subseteq failed \cup {<<request[h].chat, request[h].user>>}
  <2>1. ASSUME Proceed(h) \/ Fail(h)
        PROVE  /\ told' \subseteq told \cup {<<request[h].chat, request[h].user>>}
               /\ failed' \subseteq failed \cup {<<request[h].chat, request[h].user>>}
      BY <2>1 DEF Proceed, Fail
  <2>2. CASE FindOwnKey(h)
      BY <2>1, <2>2 DEF FindOwnKey
  <2>3. CASE ~FindOwnKey(h)
      BY <2>1, <2>3 DEF Execute, CreateRoom, InsertChat, InsertParticipant,
         InsertInvitation, UpdateStatus, SavePrivateKey, JoinRoom, SendPublicKey, Write
  <2> QED
      BY <2>2, <2>3
<1> QED
    BY <1>2, <1>3 DEF TablesType

\* Every step keeps the types of the tables.
LEMMA TablesStep ==
    ASSUME TablesType, RequestsHold, Created, [Next]_vars
    PROVE  TablesType'
<1> USE DEF tables, chatServer, seen
<1>1. ASSUME NEW h \in Handler, Execute(h) PROVE TablesType'
  <2> PICK r : r = request[h]
      OBVIOUS
  <2>1. /\ r.chat \in Chat /\ r.user \in User /\ r.id \in Number
        /\ told' \subseteq Chat \X User /\ failed' \subseteq Chat \X User
        /\ UNCHANGED requests
      BY <1>1, AnswersType, Executes
  <2>2. CASE CreateRoom(h)
      BY <2>1, <2>2 DEF CreateRoom, Write, TablesType
  <2>3. CASE InsertChat(h)
      BY <2>1, <2>3 DEF InsertChat, Write, TablesType
  <2>4. CASE InsertParticipant(h)
    <3>1. participants' \in {participants,
                             [participants EXCEPT ![r.chat][r.user] = @ + 1]}
        BY <2>4 DEF InsertParticipant, Write
    <3>2. participants[r.chat][r.user] + 1 \in Nat
        BY <2>1 DEF TablesType
    <3>3. [participants EXCEPT ![r.chat][r.user] = @ + 1] \in [Chat -> [User -> Nat]]
        BY <2>1, <3>2, PutCell DEF TablesType
    <3> QED
        BY <2>1, <2>4, <3>1, <3>3 DEF InsertParticipant, TablesType
  <2>5. CASE InsertInvitation(h)
    <3> DEFINE row == [chat |-> r.chat, inviter |-> r.user, invitee |-> r.invitee,
                       status |-> "pending"]
    <3>1. r.invitee \in User \cup {NoUser}
        BY <1>1, Executes DEF InProgress
    <3>2. invitations' \in {invitations, [invitations EXCEPT ![r.id] = row]}
        BY <2>5 DEF InsertInvitation, Write
    <3>3. row \in [chat : Chat \cup {NoChat}, inviter : User \cup {NoUser},
                   invitee : User \cup {NoUser},
                   status : {"none", "pending", "accepted", "declined"}]
        BY <2>1, <3>1
    <3> HIDE DEF row
    <3>4. invitations' \in [1..MaxRequests ->
            [chat : Chat \cup {NoChat}, inviter : User \cup {NoUser},
             invitee : User \cup {NoUser},
             status : {"none", "pending", "accepted", "declined"}]]
        BY <3>2, <3>3 DEF TablesType
    <3> QED
        BY <2>1, <2>5, <3>4 DEF InsertInvitation, TablesType
  <2>6. CASE UpdateStatus(h)
    <3> DEFINE status == IF r.kind = "accept" THEN "accepted" ELSE "declined"
               row == [invitations[r.invitation] EXCEPT !.status = status]
    <3>1. invitations' \in {invitations, [invitations EXCEPT ![r.invitation] = row]}
        BY <2>6 DEF UpdateStatus, Write
    <3>2. r.invitation \in 1..MaxRequests
        BY <1>1, <2>6, Executes DEF UpdateStatus, At, WellFormed
    <3>3. row \in [chat : Chat \cup {NoChat}, inviter : User \cup {NoUser},
                   invitee : User \cup {NoUser},
                   status : {"none", "pending", "accepted", "declined"}]
      <4>1. invitations[r.invitation] \in
              [chat : Chat \cup {NoChat}, inviter : User \cup {NoUser},
               invitee : User \cup {NoUser},
               status : {"none", "pending", "accepted", "declined"}]
          BY <3>2 DEF TablesType
      <4> QED
          BY <4>1
    <3> HIDE DEF row
    <3>4. invitations' \in [1..MaxRequests ->
            [chat : Chat \cup {NoChat}, inviter : User \cup {NoUser},
             invitee : User \cup {NoUser},
             status : {"none", "pending", "accepted", "declined"}]]
        BY <3>1, <3>3 DEF TablesType
    <3> QED
        BY <2>1, <2>6, <3>4 DEF UpdateStatus, TablesType
  <2>7. CASE FindOwnKey(h)
      BY <2>1, <2>7 DEF FindOwnKey, TablesType
  <2>8. CASE SavePrivateKey(h)
    <3>1. private' \in {private, [private EXCEPT ![r.chat][r.user] = @ \cup {r.id}]}
        BY <2>8 DEF SavePrivateKey, Write
    <3>2. private[r.chat][r.user] \cup {r.id} \in SUBSET Number
        BY <2>1 DEF TablesType
    <3>3. [private EXCEPT ![r.chat][r.user] = @ \cup {r.id}] \in [Chat -> [User -> SUBSET Number]]
        BY <2>1, <3>2, PutCell DEF TablesType
    <3> QED
        BY <2>1, <2>8, <3>1, <3>3 DEF SavePrivateKey, TablesType
  <2>9. CASE JoinRoom(h)
    <3>1. members' \in {members, [members EXCEPT ![r.chat] = @ \cup {r.user}]}
        BY <2>9 DEF JoinRoom, Write
    <3>2. members[r.chat] \cup {r.user} \in SUBSET User
        BY <2>1 DEF TablesType
    <3>3. [members EXCEPT ![r.chat] = @ \cup {r.user}] \in [Chat -> SUBSET User]
        BY <2>1, <3>2, PutRow DEF TablesType
    <3> QED
        BY <2>1, <2>9, <3>1, <3>3 DEF JoinRoom, TablesType
  <2>10. CASE SendPublicKey(h)
    <3>1. /\ public' \in {public, [public EXCEPT ![r.chat][r.user] = r.id]}
          /\ seated' \in {seated, [seated EXCEPT ![r.chat] = @ \cup {r.id}]}
        BY <2>10 DEF SendPublicKey, Write
    <3>2. [public EXCEPT ![r.chat][r.user] = r.id] \in [Chat -> [User -> Number]]
        BY <2>1, PutCell DEF TablesType
    <3>3. seated[r.chat] \cup {r.id} \in SUBSET Number
        BY <2>1 DEF TablesType
    <3>4. [seated EXCEPT ![r.chat] = @ \cup {r.id}] \in [Chat -> SUBSET Number]
        BY <2>1, <3>3, PutRow DEF TablesType
    <3> QED
        BY <2>1, <2>10, <3>1, <3>2, <3>4 DEF SendPublicKey, TablesType
  <2> QED
      BY <1>1, <2>2, <2>3, <2>4, <2>5, <2>6, <2>7, <2>8, <2>9, <2>10 DEF Execute
<1>2. ASSUME NEW h \in Handler, Arrive(h) PROVE TablesType'
  <2>1. PICK r : NewRequest(h, r)
      BY <1>2, ArrivesNew, TypeOfAll
  <2>2. requests' \in Number
      BY <2>1, RequestsBound DEF NewRequest, TablesType, Number
  <2>3. UNCHANGED <<tables, chatServer, contexts, used, seated, told, failed>>
      BY <2>1 DEF NewRequest
  <2> QED
      BY <2>2, <2>3 DEF TablesType
<1>3. ASSUME NEW u \in User, NEW c \in Chat, OpenChat(u, c) PROVE TablesType'
  <2>1. PICK own \in private[c][u], v \in User \ {u} :
          contexts' = [contexts EXCEPT ![c][u] = [own |-> own, other |-> public[c][v]]]
      BY <1>3 DEF OpenChat
  <2>2. [own |-> own, other |-> public[c][v]] \in Context
      BY <2>1 DEF TablesType, Context
  <2>3. contexts' \in [Chat -> [User -> Context]]
      BY <2>1, <2>2 DEF TablesType
  <2> QED
      BY <1>3, <2>3 DEF OpenChat, TablesType
<1>4. ASSUME NEW u \in User, NEW c \in Chat, SendMessage(u, c) PROVE TablesType'
  <2>1. messages[c] \cup {contexts[c][u]} \in SUBSET Context
      BY DEF TablesType
  <2>2. [messages EXCEPT ![c] = @ \cup {contexts[c][u]}] \in [Chat -> SUBSET Context]
      BY <2>1, PutRow DEF TablesType
  <2> QED
      BY <1>4, <2>2 DEF SendMessage, TablesType
<1>5. CASE RestartWeb
  <2>1. NoContext \in Context
      BY RequestsBound DEF NoContext, Context, NoKey, Number
  <2>2. failed' \subseteq Chat \X User
    <3>1. \A h \in Handler : ~At(h, "done") => request[h].chat \in Chat /\ request[h].user \in User
        BY DEF At, RequestsHold, Idle, InProgress
    <3> QED
        BY <1>5, <3>1 DEF RestartWeb, TablesType
  <2> QED
      BY <1>5, <2>1, <2>2 DEF RestartWeb, TablesType
<1>6. CASE RestartChatServer
  <2>1. NoKey \in Number
      BY RequestsBound DEF NoKey, Number
  <2> QED
      BY <1>6, <2>1 DEF RestartChatServer, TablesType
<1>7. CASE UNCHANGED vars
    BY <1>7 DEF vars, TablesType
<1> QED
    BY <1>1, <1>2, <1>3, <1>4, <1>5, <1>6, <1>7 DEF Next

-----------------------------------------------------------------------------
(* What a statement does to each table, whichever statement it is.         *)

\* A statement is at the step of its name.
LEMMA StatementOf ==
    ASSUME NEW h \in Handler, Execute(h)
    PROVE  /\ request[h].step = "room" => CreateRoom(h)
           /\ request[h].step = "participant" => InsertParticipant(h)
           /\ request[h].step = "private" => SavePrivateKey(h)
           /\ request[h].step = "join" => JoinRoom(h)
           /\ request[h].step = "public" => SendPublicKey(h)
           /\ request[h].step = "ownKey" => FindOwnKey(h)
BY DEF Execute, At, CreateRoom, InsertChat, InsertParticipant, InsertInvitation, UpdateStatus,
   FindOwnKey, SavePrivateKey, JoinRoom, SendPublicKey

\* A request that goes on has not failed.
LEMMA NotFailed ==
    ASSUME RequestsHold, NEW h \in Handler, request'[h] # Idle
    PROVE  ~Fail(h)
BY DEF RequestsHold, Fail

\* Participants are added only, and a request goes on with its user added.
LEMMA ParticipantEffect ==
    ASSUME TablesType, RequestsHold, NEW h \in Handler, Execute(h),
           NEW r, r = request[h]
    PROVE  /\ \A d \in Chat, w \in User : participants'[d][w] >= participants[d][w]
           /\ r.step = "participant" /\ request'[h] # Idle => participants'[r.chat][r.user] > 0
<1>1. r.chat \in Chat /\ r.user \in User
    BY AnswersType
<1>2. CASE InsertParticipant(h)
  <2>1. participants[r.chat][r.user] + 1 \in Nat
      BY <1>1 DEF TablesType
  <2> DEFINE next == [participants EXCEPT ![r.chat][r.user] = participants[r.chat][r.user] + 1]
  <2>2. /\ next[r.chat][r.user] = participants[r.chat][r.user] + 1
        /\ \A d \in Chat, w \in User : <<d, w>> # <<r.chat, r.user>> =>
              next[d][w] = participants[d][w]
      BY <1>1, <2>1, PutCell DEF TablesType
  <2>3. participants' = next \/ (participants' = participants /\ Fail(h))
      BY <1>2 DEF InsertParticipant, Write
  <2>4. \A d \in Chat, w \in User : participants[d][w] \in Nat
      BY DEF TablesType
  <2> HIDE DEF next
  <2> QED
      BY <1>1, <2>2, <2>3, <2>4, NotFailed
<1>3. CASE ~InsertParticipant(h)
  <2>1. participants' = participants
      BY <1>3 DEF Execute, CreateRoom, InsertChat, InsertInvitation, UpdateStatus,
         FindOwnKey, SavePrivateKey, JoinRoom, SendPublicKey, tables
  <2>2. r.step # "participant"
      BY <1>3, StatementOf
  <2>3. \A d \in Chat, w \in User : participants[d][w] \in Nat
      BY DEF TablesType
  <2> QED
      BY <2>1, <2>2, <2>3
<1> QED
    BY <1>2, <1>3

\* A private key is added by the request it has the number of.
LEMMA PrivateEffect ==
    ASSUME TablesType, RequestsHold, NEW h \in Handler, Execute(h),
           NEW r, r = request[h]
    PROVE  /\ \A d \in Chat, w \in User :
                 \/ private'[d][w] = private[d][w]
                 \/ /\ d = r.chat /\ w = r.user /\ r.step = "private"
                    /\ private'[d][w] = private[d][w] \cup {r.id}
           /\ r.step = "private" /\ request'[h] # Idle => r.id \in private'[r.chat][r.user]
<1>1. r.chat \in Chat /\ r.user \in User /\ r.id \in Number
    BY AnswersType
<1>2. CASE SavePrivateKey(h)
  <2>1. private[r.chat][r.user] \cup {r.id} \in SUBSET Number
      BY <1>1 DEF TablesType
  <2> DEFINE next == [private EXCEPT ![r.chat][r.user] = private[r.chat][r.user] \cup {r.id}]
  <2>2. /\ next[r.chat][r.user] = private[r.chat][r.user] \cup {r.id}
        /\ \A d \in Chat, w \in User : <<d, w>> # <<r.chat, r.user>> =>
              next[d][w] = private[d][w]
      BY <1>1, <2>1, PutCell DEF TablesType
  <2>3. private' = next \/ (private' = private /\ Fail(h))
      BY <1>2 DEF SavePrivateKey, Write
  <2>4. r.step = "private"
      BY <1>2 DEF SavePrivateKey, At
  <2> HIDE DEF next
  <2> QED
      BY <1>1, <2>2, <2>3, <2>4, NotFailed
<1>3. CASE ~SavePrivateKey(h)
  <2>1. private' = private
      BY <1>3 DEF Execute, CreateRoom, InsertChat, InsertParticipant, InsertInvitation,
         UpdateStatus, FindOwnKey, JoinRoom, SendPublicKey, tables
  <2>2. r.step # "private"
      BY <1>3, StatementOf
  <2> QED
      BY <2>1, <2>2
<1> QED
    BY <1>2, <1>3

\* A room is created once, and lets in a user that is not in it, while it
\* has a place.
LEMMA RoomEffect ==
    ASSUME TablesType, RequestsHold, NEW h \in Handler, Execute(h),
           NEW r, r = request[h]
    PROVE  /\ \/ rooms' = rooms /\ used' = used
              \/ /\ rooms' = rooms \cup {r.chat} /\ used' = used \cup {r.chat}
                 /\ r.chat \notin used
           /\ \A d \in Chat :
                 \/ members'[d] = members[d]
                 \/ /\ d = r.chat /\ r.step = "join" /\ members'[d] = members[d] \cup {r.user}
                    /\ d \in rooms /\ r.user \notin members[d] /\ Cardinality(members[d]) < 2
           /\ r.step = "join" /\ request'[h] # Idle =>
                 /\ r.chat \in rooms /\ r.user \notin members[r.chat]
                 /\ r.user \in members'[r.chat]
<1>1. r.chat \in Chat /\ r.user \in User
    BY AnswersType
<1>2. CASE JoinRoom(h)
  <2>1. members[r.chat] \cup {r.user} \in SUBSET User
      BY <1>1 DEF TablesType
  <2> DEFINE next == [members EXCEPT ![r.chat] = members[r.chat] \cup {r.user}]
  <2>2. /\ next[r.chat] = members[r.chat] \cup {r.user}
        /\ \A d \in Chat : d # r.chat => next[d] = members[d]
      BY <1>1, <2>1, PutRow DEF TablesType
  <2>3. \/ members' = members /\ Fail(h)
        \/ /\ members' = next /\ r.chat \in rooms /\ r.user \notin members[r.chat]
           /\ Cardinality(members[r.chat]) < 2
      BY <1>2 DEF JoinRoom, Write
  <2>4. r.step = "join" /\ UNCHANGED <<rooms, used>>
      BY <1>2 DEF JoinRoom, At
  <2> HIDE DEF next
  <2> QED
      BY <1>1, <2>2, <2>3, <2>4, NotFailed
<1>3. CASE ~JoinRoom(h)
  <2>1. members' = members
      BY <1>3 DEF Execute, CreateRoom, InsertChat, InsertParticipant, InsertInvitation,
         UpdateStatus, FindOwnKey, SavePrivateKey, SendPublicKey, chatServer
  <2>2. r.step # "join"
      BY <1>3, StatementOf
  <2>3. CASE CreateRoom(h)
      BY <2>1, <2>2, <2>3 DEF CreateRoom, Write
  <2>4. CASE ~CreateRoom(h)
    <3>1. UNCHANGED <<rooms, used>>
        BY <1>3, <2>4 DEF Execute, InsertChat, InsertParticipant, InsertInvitation,
           UpdateStatus, FindOwnKey, SavePrivateKey, SendPublicKey, chatServer
    <3> QED
        BY <2>1, <2>2, <3>1
  <2> QED
      BY <2>3, <2>4
<1> QED
    BY <1>2, <1>3

\* A public key is stored for a member, and never forgotten.
LEMMA PublicEffect ==
    ASSUME TablesType, RequestsHold, NEW h \in Handler, Execute(h),
           NEW r, r = request[h]
    PROVE  \/ public' = public /\ seated' = seated
           \/ /\ r.step = "public" /\ r.chat \in rooms /\ r.user \in members[r.chat]
              /\ public'[r.chat][r.user] = r.id
              /\ \A d \in Chat, w \in User :
                    <<d, w>> # <<r.chat, r.user>> => public'[d][w] = public[d][w]
              /\ seated'[r.chat] = seated[r.chat] \cup {r.id}
              /\ \A d \in Chat : d # r.chat => seated'[d] = seated[d]
<1>1. r.chat \in Chat /\ r.user \in User /\ r.id \in Number
    BY AnswersType
<1>2. CASE SendPublicKey(h)
  <2> DEFINE nextPublic == [public EXCEPT ![r.chat][r.user] = r.id]
             nextSeated == [seated EXCEPT ![r.chat] = seated[r.chat] \cup {r.id}]
  <2>1. /\ nextPublic[r.chat][r.user] = r.id
        /\ \A d \in Chat, w \in User :
              <<d, w>> # <<r.chat, r.user>> => nextPublic[d][w] = public[d][w]
      BY <1>1, PutCell DEF TablesType
  <2>2. seated[r.chat] \cup {r.id} \in SUBSET Number
      BY <1>1 DEF TablesType
  <2>3. /\ nextSeated[r.chat] = seated[r.chat] \cup {r.id}
        /\ \A d \in Chat : d # r.chat => nextSeated[d] = seated[d]
      BY <1>1, <2>2, PutRow DEF TablesType
  <2>4. \/ public' = public /\ seated' = seated
        \/ /\ public' = nextPublic /\ seated' = nextSeated
           /\ r.step = "public" /\ r.chat \in rooms /\ r.user \in members[r.chat]
      BY <1>2 DEF SendPublicKey, Write, At
  <2> HIDE DEF nextPublic, nextSeated
  <2> QED
      BY <2>1, <2>3, <2>4
<1>3. CASE ~SendPublicKey(h)
    BY <1>3 DEF Execute, CreateRoom, InsertChat, InsertParticipant, InsertInvitation,
       UpdateStatus, FindOwnKey, SavePrivateKey, JoinRoom, chatServer
<1> QED
    BY <1>2, <1>3

\* Who is told it is in a chat has its key in the room, or had one before;
\* a request that joins and ends otherwise is refused.
LEMMA AnswerEffect ==
    ASSUME TablesType, RequestsHold, NEW h \in Handler, Execute(h),
           NEW r, r = request[h]
    PROVE  /\ failed \subseteq failed'
           /\ \/ told' = told
              \/ told' = told \cup {<<r.chat, r.user>>} /\ r.step = "public"
              \/ /\ told' = told \cup {<<r.chat, r.user>>} /\ r.step = "ownKey"
                 /\ private[r.chat][r.user] # {}
           /\ request'[h] = Idle /\ <<r.chat, r.user>> \notin failed' =>
                 \/ r.kind \in {"invite", "decline"}
                 \/ r.step = "ownKey"
                 \/ r.step = "public" /\ (r.chat \in rooms /\ r.user \in members[r.chat]
                                             => public'[r.chat][r.user] = r.id)
<1>1. /\ r.chat \in Chat /\ r.user \in User /\ r.id \in Number
      /\ r \in InProgress /\ WellFormed(r)
    BY AnswersType, Executes
<1>2. r.kind \in Kind /\ r.step \in Steps(r.kind)
    BY <1>1 DEF InProgress, WellFormed
<1>3. CASE FindOwnKey(h) /\ private[r.chat][r.user] # {}
    BY <1>3 DEF FindOwnKey, At
<1>4. ASSUME Proceed(h), request'[h] = Idle
      PROVE  Follows(r.kind)[r.step] = "done"
  <2>1. r.step # "done" /\ Statement \ {"done"} # {} /\ r \in InProgress
      BY <1>1 DEF InProgress, Statement
  <2> DEFINE n == [r EXCEPT !.step = Follows(r.kind)[r.step]]
  <2>2. n.step = Follows(r.kind)[r.step]
      BY <1>1 DEF InProgress
  <2>3. Follows(r.kind)[r.step] # "done" => request'[h] = n
      BY <1>4 DEF Proceed, RequestsHold
  <2> QED
      BY <1>4, <2>2, <2>3 DEF Idle
<1>5. CASE Proceed(h)
  <2>1. failed' = failed
      BY <1>5 DEF Proceed
  <2>2. told' # told => told' = told \cup {<<r.chat, r.user>>} /\ r.step = "public"
      BY <1>2, <1>5, LastStatement DEF Proceed
  <2>3. request'[h] = Idle => r.kind \in {"invite", "decline"} \/ r.step = "public"
      BY <1>2, <1>4, <1>5, LastStatement DEF Kind
  <2>4. CASE r.step = "public" /\ r.chat \in rooms /\ r.user \in members[r.chat]
    <3>1. SendPublicKey(h)
        BY <2>4, StatementOf
    <3>2. public' = [public EXCEPT ![r.chat][r.user] = r.id] \/ Fail(h)
        BY <2>4, <3>1 DEF SendPublicKey, Write
    <3>3. public' = [public EXCEPT ![r.chat][r.user] = r.id] =>
             public'[r.chat][r.user] = r.id
        BY <1>1, PutCell DEF TablesType
    <3>4. Fail(h) => <<r.chat, r.user>> \in failed'
        BY DEF Fail
    <3> QED
        BY <2>1, <2>2, <2>3, <3>2, <3>3, <3>4
  <2> QED
      BY <2>1, <2>2, <2>3, <2>4
<1>6. CASE Fail(h)
    BY <1>6 DEF Fail
<1> QED
    BY <1>3, <1>5, <1>6 DEF Execute, CreateRoom, InsertChat, InsertParticipant,
       InsertInvitation, UpdateStatus, FindOwnKey, SavePrivateKey, JoinRoom, SendPublicKey, Write

-----------------------------------------------------------------------------
(* The invariant, statement by statement.                                  *)

\* Statements write only about chats whose room was created.
LEMMA CreatedExecute ==
    ASSUME TypeOK, RequestsHold, Created, NEW h \in Handler, Execute(h)
    PROVE  Created'
<1> PICK r : r = request[h]
    OBVIOUS
<1>0. TablesType
    BY TypeOfTables
<1>1. /\ r \in InProgress /\ WellFormed(r) /\ r.chat \in Chat /\ r.user \in User
      /\ r.id \in Number /\ r.id # NoKey
    BY <1>0, Executes, AnswersType DEF InProgress, NoKey
<1>2. \/ rooms' = rooms /\ used' = used
      \/ rooms' = rooms \cup {r.chat} /\ used' = used \cup {r.chat} /\ r.chat \notin used
    BY <1>0, RoomEffect
<1>3. r.step # "room" => r.chat \in used
    BY <1>1 DEF WellFormed
<1>4. chats' \subseteq used'
  <2>1. CASE InsertChat(h)
      BY <1>2, <1>3, <2>1 DEF InsertChat, Write, At, Created
  <2>2. CASE ~InsertChat(h)
    <3>1. chats' = chats
        BY <2>2 DEF Execute, CreateRoom, InsertParticipant, InsertInvitation, UpdateStatus,
           FindOwnKey, SavePrivateKey, JoinRoom, SendPublicKey, tables
    <3> QED
        BY <1>2, <3>1 DEF Created
  <2> QED
      BY <2>1, <2>2
<1>5. ASSUME NEW i \in 1..MaxRequests, invitations'[i].status # "none"
      PROVE  invitations'[i].chat \in used' /\ invitations'[i].invitee \in User
  <2>1. CASE InsertInvitation(h)
    <3> DEFINE row == [chat |-> r.chat, inviter |-> r.user, invitee |-> r.invitee,
                       status |-> "pending"]
    <3>1. r.kind \in {"create", "invite"}
        BY <1>1, <2>1, Scripts DEF InsertInvitation, At, InProgress, WellFormed, Kind, Steps,
           AcceptScript, DeclineScript, JoinScript
    <3>2. row.chat \in used /\ row.invitee \in User
        BY <1>1, <1>3, <2>1, <3>1 DEF InsertInvitation, At, WellFormed
    <3>3. invitations' \in {invitations, [invitations EXCEPT ![r.id] = row]}
        BY <2>1 DEF InsertInvitation, Write
    <3>4. DOMAIN invitations = 1..MaxRequests
        BY DEF TypeOK
    <3> HIDE DEF row
    <3>5. invitations'[i] = invitations[i] \/ invitations'[i] = row
        BY <3>3, <3>4
    <3> QED
        BY <1>2, <1>5, <3>2, <3>5 DEF Created
  <2>2. CASE UpdateStatus(h)
    <3> DEFINE row == [invitations[r.invitation] EXCEPT
                         !.status = IF r.kind = "accept" THEN "accepted" ELSE "declined"]
    <3>1. /\ r.invitation \in 1..MaxRequests
          /\ invitations[r.invitation].chat \in used
          /\ invitations[r.invitation].invitee \in User
        BY <1>1, <2>2 DEF UpdateStatus, At, WellFormed, Created
    <3>2. invitations[r.invitation] \in
              [chat : Chat \cup {NoChat}, inviter : User \cup {NoUser},
               invitee : User \cup {NoUser},
               status : {"none", "pending", "accepted", "declined"}]
        BY <3>1 DEF TypeOK
    <3>3. row.chat = invitations[r.invitation].chat
          /\ row.invitee = invitations[r.invitation].invitee
        BY <3>2
    <3>4. invitations' \in {invitations, [invitations EXCEPT ![r.invitation] = row]}
        BY <2>2 DEF UpdateStatus, Write
    <3>5. DOMAIN invitations = 1..MaxRequests
        BY DEF TypeOK
    <3> HIDE DEF row
    <3>6. invitations'[i] = invitations[i] \/ invitations'[i] = row
        BY <3>4, <3>5
    <3> QED
        BY <1>2, <1>5, <3>1, <3>3, <3>6 DEF Created
  <2>3. CASE ~InsertInvitation(h) /\ ~UpdateStatus(h)
    <3>1. invitations' = invitations
        BY <2>3 DEF Execute, CreateRoom, InsertChat, InsertParticipant, FindOwnKey,
           SavePrivateKey, JoinRoom, SendPublicKey, tables
    <3> QED
        BY <1>2, <1>5, <3>1 DEF Created
  <2> QED
      BY <2>1, <2>2, <2>3
<1>6. ASSUME NEW c \in Chat \ used'
      PROVE  seated'[c] = {} /\ \A u \in User : private'[c][u] = {}
  <2>1. c \in Chat \ used /\ (c # r.chat \/ r.step = "room")
      BY <1>2, <1>3, <1>6
  <2>2. seated'[c] = seated[c]
      BY <1>0, <2>1, PublicEffect
  <2>3. \A u \in User : private'[c][u] = private[c][u]
      BY <1>0, <2>1, PrivateEffect
  <2> QED
      BY <2>1, <2>2, <2>3 DEF Created
<1>7. ASSUME NEW c \in Chat \ rooms' PROVE members'[c] = {}
    BY <1>0, <1>2, <1>7, RoomEffect DEF Created
<1>8. ASSUME NEW c \in Chat, NEW u \in User, public'[c][u] # NoKey
      PROVE  u \in members'[c]
  <2>1. members[c] \subseteq members'[c]
      BY <1>0, RoomEffect
  <2>2. public'[c][u] = public[c][u] \/ (c = r.chat /\ u = r.user /\ u \in members[c])
      BY <1>0, <1>1, PublicEffect
  <2> QED
      BY <1>8, <2>1, <2>2 DEF Created
<1>9. rooms' \subseteq used'
    BY <1>2 DEF Created
<1> QED
    BY <1>4, <1>5, <1>6, <1>7, <1>8, <1>9 DEF Created

\* The keys stay with the requests that made them.
LEMMA OwnKeysExecute ==
    ASSUME TypeOK, RequestsHold, OwnKeys, NEW h \in Handler, Execute(h)
    PROVE  OwnKeys'
<1> PICK r : r = request[h]
    OBVIOUS
<1>0. TablesType
    BY TypeOfTables
<1>1. /\ r \in InProgress /\ r # Idle /\ r.chat \in Chat /\ r.user \in User
      /\ r.id \in 1..requests /\ UNCHANGED requests
    BY <1>0, Executes, AnswersType DEF InProgress
<1>2. \A d \in Chat, w \in User :
        \/ private'[d][w] = private[d][w]
        \/ /\ d = r.chat /\ w = r.user /\ r.step = "private"
           /\ private'[d][w] = private[d][w] \cup {r.id}
    BY <1>0, PrivateEffect
<1>3. r.step = "private" => \A d \in Chat, w \in User :
                               d # r.chat \/ w # r.user => r.id \notin private[d][w]
  <2>1. CASE r.step = "private" /\ HasPrivate(r)
      BY <2>1 DEF HasPrivate
  <2> QED
      BY <2>1 DEF OwnKeys
<1>4. \A c \in Chat, u \in User : private'[c][u] \subseteq 1..requests'
    BY <1>1, <1>2 DEF OwnKeys
<1>5. ASSUME NEW c \in Chat, NEW d \in Chat, NEW u \in User, NEW v \in User,
             NEW k \in private'[c][u] \cap private'[d][v]
      PROVE  c = d /\ u = v
    BY <1>2, <1>3, <1>5 DEF OwnKeys
<1>6. ASSUME NEW g \in Handler, NEW c \in Chat, NEW u \in User,
             request'[g].id \in private'[c][u]
      PROVE  HasPrivate(request[g])'
  <2>1. CASE g # h
    <3>1. request'[g] = request[g]
        BY <2>1, Executes DEF Advance, RequestsHold
    <3>2. r.id # request[g].id
        BY <1>1, <2>1 DEF RequestsHold
    <3>3. request[g].id \in private[c][u]
        BY <1>2, <1>6, <3>1, <3>2
    <3> QED
        BY <3>1, <3>3 DEF OwnKeys, HasPrivate
  <2>2. CASE g = h /\ request' = [request EXCEPT ![h] = Idle]
    <3>1. request'[h].id = 0
        BY <2>2 DEF RequestsHold, Idle
    <3>2. 0 \notin private'[c][u]
        BY <1>4
    <3> QED
        BY <1>6, <2>2, <3>1, <3>2
  <2>3. ASSUME g = h, NEW n, Advance(h, n) PROVE HasPrivate(request[g])'
    <3>1. /\ request'[h] = n /\ n.id = r.id /\ n.kind = r.kind
          /\ HasPrivate(r) => HasPrivate(n)
        BY <1>1, <2>3, Advanced
    <3>2. HasPrivate(r) \/ r.step = "private"
        BY <1>2, <1>6, <2>3, <3>1 DEF OwnKeys
    <3>3. ASSUME r.step = "private" PROVE HasPrivate(n)
      <4>1. r.kind \in {"create", "accept", "join"} /\ r.step \in Steps(r.kind)
          <5>1. r.kind \in Kind /\ r.step \in Steps(r.kind)
              BY <1>1 DEF InProgress, RequestsHold, WellFormed
          <5> QED
              BY <3>3, <5>1, WhoSeats
      <4>2. n.step = Follows(r.kind)[r.step]
          BY <1>1, <2>3 DEF Advance, InProgress
      <4> QED
          BY <3>1, <3>3, <4>1, <4>2, Scripts DEF HasPrivate, CreateScript, AcceptScript, JoinScript
    <3> QED
        BY <2>3, <3>1, <3>2, <3>3 DEF HasPrivate
  <2> QED
      BY <2>1, <2>2, <2>3, Executes
<1> QED
    BY <1>4, <1>5, <1>6 DEF OwnKeys

\* What a request has done is still done when it or another goes on.
LEMMA DoneSoFarExecute ==
    ASSUME TypeOK, RequestsHold, Created, DoneSoFar, NEW h \in Handler, Execute(h)
    PROVE  DoneSoFar'
<1> PICK r : r = request[h]
    OBVIOUS
<1>0. TablesType
    BY TypeOfTables
<1>1. /\ r \in InProgress /\ r # Idle /\ r.chat \in Chat /\ r.user \in User
      /\ r.id \in 1..requests
    BY <1>0, Executes, AnswersType DEF InProgress
<1>2. /\ \A d \in Chat, w \in User : participants'[d][w] >= participants[d][w]
      /\ \A d \in Chat, w \in User : participants[d][w] \in Nat /\ participants'[d][w] \in Nat
      /\ \A d \in Chat, w \in User : private[d][w] \subseteq private'[d][w]
      /\ \A d \in Chat : members[d] \subseteq members'[d]
  <2>1. TablesType'
      BY <1>0, TablesStep DEF Next
  <2>2. \A d \in Chat, w \in User : participants'[d][w] >= participants[d][w]
      BY <1>0, ParticipantEffect
  <2>3. \A d \in Chat, w \in User : private[d][w] \subseteq private'[d][w]
      BY <1>0, PrivateEffect
  <2>4. \A d \in Chat : members[d] \subseteq members'[d]
      BY <1>0, RoomEffect
  <2>5. \A d \in Chat, w \in User : participants[d][w] \in Nat /\ participants'[d][w] \in Nat
      BY <1>0, <2>1 DEF TablesType
  <2> QED
      BY <2>2, <2>3, <2>4, <2>5
<1>3. /\ r.step = "participant" /\ request'[h] # Idle => participants'[r.chat][r.user] > 0
      /\ r.step = "private" /\ request'[h] # Idle => r.id \in private'[r.chat][r.user]
      /\ r.step = "join" /\ request'[h] # Idle =>
            /\ r.chat \in rooms /\ r.user \notin members[r.chat]
            /\ r.user \in members'[r.chat]
    BY <1>0, ParticipantEffect, PrivateEffect, RoomEffect
<1>4. \A d \in Chat, w \in User :
         public'[d][w] = public[d][w] \/ (r.step = "public" /\ d = r.chat /\ w = r.user)
    BY <1>0, PublicEffect
<1>5. ASSUME NEW g \in Handler, g # h
      PROVE  request'[g] = request[g]
    BY <1>5, Executes DEF Advance, RequestsHold
<1>6. ASSUME NEW g \in Handler, HasSeat(request[g]), request[g].chat \in rooms'
      PROVE  /\ request[g].chat \in rooms /\ request[g].chat \in Chat
             /\ request[g].user \in User /\ request[g].user \in members[request[g].chat]
  <2>1. /\ request[g] \in InProgress /\ request[g].chat \in used
      BY <1>6 DEF RequestsHold, HasSeat, Idle, WellFormed
  <2>2. request[g].chat \in rooms
      BY <1>0, <1>6, <2>1, RoomEffect
  <2> QED
      BY <1>6, <2>1, <2>2 DEF DoneSoFar, InProgress
<1> DEFINE Kept(g) ==
        LET q == request'[g] IN
        /\ HasPlace(q) => participants'[q.chat][q.user] > 0
        /\ HasPrivate(q) => q.id \in private'[q.chat][q.user]
        /\ HasSeat(q) /\ q.chat \in rooms' =>
              /\ q.user \in members'[q.chat]
              /\ public'[q.chat][q.user] = NoKey
              /\ \A f \in Handler \ {g} :
                    HasSeat(request'[f]) =>
                        <<request'[f].chat, request'[f].user>> # <<q.chat, q.user>>
<1>7. ASSUME NEW n, Advance(h, n)
      PROVE  /\ request'[h] = n /\ n # Idle /\ n.id = r.id /\ n.user = r.user /\ n.chat = r.chat
             /\ r.step # "public"
             /\ HasPlace(n) => HasPlace(r) \/ r.step = "participant"
             /\ HasPrivate(n) => HasPrivate(r) \/ r.step = "private"
             /\ HasSeat(n) => HasSeat(r) \/ r.step = "join"
    BY <1>1, <1>7, Advanced
<1>8. ASSUME NEW g \in Handler, g # h PROVE Kept(g)
  <2> PICK q : q = request[g]
      OBVIOUS
  <2>1. request'[g] = q
      BY <1>5, <1>8
  <2>2. HasPlace(q) \/ HasPrivate(q) => q \in InProgress
      BY DEF RequestsHold, HasPlace, HasPrivate, Idle
  <2>3. HasPlace(q) => participants'[q.chat][q.user] > 0
      BY <1>2, <2>2 DEF DoneSoFar, InProgress
  <2>4. HasPrivate(q) => q.id \in private'[q.chat][q.user]
      BY <1>2, <2>2 DEF DoneSoFar, InProgress
  <2>5. ASSUME HasSeat(q), q.chat \in rooms'
        PROVE  /\ q.user \in members'[q.chat]
               /\ public'[q.chat][q.user] = NoKey
               /\ \A f \in Handler \ {g} :
                     HasSeat(request'[f]) =>
                         <<request'[f].chat, request'[f].user>> # <<q.chat, q.user>>
    <3>1. /\ q.chat \in rooms /\ q.chat \in Chat /\ q.user \in User
          /\ q.user \in members[q.chat]
        BY <1>6, <2>5
    <3>2. /\ public[q.chat][q.user] = NoKey
          /\ \A f \in Handler \ {g} : HasSeat(request[f]) =>
                <<request[f].chat, request[f].user>> # <<q.chat, q.user>>
        BY <2>5, <3>1 DEF DoneSoFar
    <3>3. public'[q.chat][q.user] = NoKey
        BY <1>4, <1>8, <3>1, <3>2 DEF HasSeat
    <3>4. ASSUME NEW f \in Handler \ {g}, HasSeat(request'[f])
          PROVE  <<request'[f].chat, request'[f].user>> # <<q.chat, q.user>>
      <4>1. CASE f # h
          BY <1>5, <3>2, <3>4, <4>1
      <4>2. CASE f = h
        <5>1. PICK n : Advance(h, n)
            BY <3>4, <4>2, Executes DEF HasSeat, Idle, RequestsHold
        <5>2. request'[h] = n /\ n.user = r.user /\ n.chat = r.chat
              /\ (HasSeat(r) \/ r.step = "join") /\ n # Idle
            BY <1>7, <3>4, <4>2, <5>1
        <5>3. r.step = "join" => r.user \notin members[r.chat]
            BY <1>3, <5>2
        <5> QED
            BY <1>8, <3>1, <3>2, <4>2, <5>2, <5>3
      <4> QED
          BY <4>1, <4>2
    <3> QED
        BY <1>2, <3>1, <3>3, <3>4
  <2> QED
      BY <2>1, <2>3, <2>4, <2>5
<1>9. CASE request' = [request EXCEPT ![h] = Idle]
  <2>1. request'[h] = Idle
      BY <1>9 DEF RequestsHold
  <2>2. Kept(h)
      BY <2>1 DEF HasPlace, HasPrivate, HasSeat, Idle
  <2> QED
      BY <1>8, <2>2 DEF DoneSoFar
<1>10. ASSUME NEW n, Advance(h, n) PROVE DoneSoFar'
  <2>1. /\ request'[h] = n /\ n # Idle /\ n.id = r.id /\ n.user = r.user /\ n.chat = r.chat
        /\ r.step # "public"
        /\ HasPlace(n) => HasPlace(r) \/ r.step = "participant"
        /\ HasPrivate(n) => HasPrivate(r) \/ r.step = "private"
        /\ HasSeat(n) => HasSeat(r) \/ r.step = "join"
      BY <1>7, <1>10
  <2>2. HasPlace(n) => participants'[n.chat][n.user] > 0
    <3>1. HasPlace(r) => participants[r.chat][r.user] > 0
        BY DEF DoneSoFar
    <3> QED
        BY <1>1, <1>2, <1>3, <2>1, <3>1
  <2>3. HasPrivate(n) => n.id \in private'[n.chat][n.user]
    <3>1. HasPrivate(r) => r.id \in private[r.chat][r.user]
        BY DEF DoneSoFar
    <3> QED
        BY <1>1, <1>2, <1>3, <2>1, <3>1
  <2>4. ASSUME HasSeat(n), n.chat \in rooms'
        PROVE  /\ n.user \in members'[n.chat]
               /\ public'[n.chat][n.user] = NoKey
               /\ \A f \in Handler \ {h} :
                     HasSeat(request'[f]) =>
                         <<request'[f].chat, request'[f].user>> # <<n.chat, n.user>>
    <3>1. public'[r.chat][r.user] = public[r.chat][r.user]
        BY <1>1, <1>4, <2>1
    <3>2. CASE HasSeat(r)
      <4>1. r.chat \in rooms /\ r.user \in members[r.chat]
          BY <1>6, <2>1, <2>4, <3>2
      <4>2. /\ public[r.chat][r.user] = NoKey
            /\ \A f \in Handler \ {h} : HasSeat(request[f]) =>
                  <<request[f].chat, request[f].user>> # <<r.chat, r.user>>
          BY <3>2, <4>1 DEF DoneSoFar
      <4> QED
          BY <1>1, <1>2, <1>5, <2>1, <3>1, <4>1, <4>2
    <3>3. CASE r.step = "join"
      <4>1. r.chat \in rooms /\ r.user \notin members[r.chat] /\ r.user \in members'[r.chat]
          BY <1>3, <2>1, <3>3
      <4>2. public[r.chat][r.user] = NoKey
          BY <1>1, <4>1 DEF Created
      <4>3. ASSUME NEW f \in Handler \ {h}, HasSeat(request'[f])
            PROVE  <<request'[f].chat, request'[f].user>> # <<r.chat, r.user>>
        <5>1. request'[f] = request[f] /\ HasSeat(request[f])
            BY <1>5, <4>3
        <5>2. request[f].chat = r.chat => request[f].user \in members[r.chat]
            BY <4>1, <5>1 DEF DoneSoFar
        <5> QED
            BY <4>1, <5>1, <5>2
      <4> QED
          BY <2>1, <3>1, <4>1, <4>2, <4>3
    <3> QED
        BY <2>1, <2>4, <3>2, <3>3
  <2>5. Kept(h)
      BY <2>1, <2>2, <2>3, <2>4
  <2> QED
      BY <1>8, <2>5 DEF DoneSoFar
<1> QED
    BY <1>9, <1>10, Executes

\* A set of users with a place left has at most one of them.
LEMMA PlaceLeft ==
    ASSUME NEW S, S \subseteq User, Cardinality(S) < 2, NEW u \in S, NEW v \in S
    PROVE  u = v
<1> SUFFICES ASSUME u # v PROVE FALSE
    OBVIOUS
<1>1. IsFiniteSet(S)
    BY HasUsers, FS_Subset
<1>2. IsFiniteSet({u, v}) /\ Cardinality({u, v}) = 2
  <2>1. IsFiniteSet({u}) /\ Cardinality({u}) = 1
      BY FS_Singleton
  <2>2. IsFiniteSet({u} \cup {v}) /\ Cardinality({u} \cup {v}) = 2
      BY <2>1, FS_AddElement
  <2>3. {u} \cup {v} = {u, v}
      OBVIOUS
  <2> QED
      BY <2>2, <2>3
<1>3. Cardinality({u, v}) <= Cardinality(S)
    BY <1>1, FS_Subset
<1>4. Cardinality(S) \in Nat
    BY <1>1, FS_CardinalityType
<1> QED
    BY <1>2, <1>3, <1>4

\* A room keeps to two members, and their keys are the ones it gives away.
LEMMA SeatsExecute ==
    ASSUME TypeOK, RequestsHold, Created, DoneSoFar, Seats, NEW h \in Handler, Execute(h)
    PROVE  Seats'
<1> PICK r : r = request[h]
    OBVIOUS
<1>0. TablesType
    BY TypeOfTables
<1>1. /\ r \in InProgress /\ r # Idle /\ r.chat \in Chat /\ r.user \in User
      /\ r.id # NoKey
    BY <1>0, Executes, AnswersType DEF InProgress, NoKey
<1>2. \/ rooms' = rooms
      \/ rooms' = rooms \cup {r.chat} /\ r.chat \notin used /\ r.chat \notin rooms
    BY <1>0, RoomEffect DEF Created
<1>3. \A d \in Chat :
        \/ members'[d] = members[d]
        \/ /\ d = r.chat /\ r.step = "join" /\ members'[d] = members[d] \cup {r.user}
           /\ d \in rooms /\ r.user \notin members[d] /\ Cardinality(members[d]) < 2
    BY <1>0, RoomEffect
<1>4. \/ public' = public /\ seated' = seated
      \/ /\ r.step = "public" /\ r.chat \in rooms /\ r.user \in members[r.chat]
         /\ public'[r.chat][r.user] = r.id
         /\ \A d \in Chat, w \in User :
               <<d, w>> # <<r.chat, r.user>> => public'[d][w] = public[d][w]
         /\ seated'[r.chat] = seated[r.chat] \cup {r.id}
         /\ \A d \in Chat : d # r.chat => seated'[d] = seated[d]
    BY <1>0, PublicEffect
<1>5. \A d \in Chat : members[d] \subseteq User /\ members'[d] \subseteq User
  <2>1. ASSUME NEW d \in Chat PROVE members[d] \subseteq User
      BY <1>0 DEF TablesType
  <2> QED
      BY <1>1, <1>3, <2>1
<1>6. ASSUME NEW c \in Chat, NEW u \in members'[c], NEW v \in members'[c], NEW w \in members'[c]
      PROVE  u = v \/ u = w \/ v = w
  <2>1. CASE members'[c] = members[c]
      BY <2>1 DEF Seats
  <2>2. CASE members'[c] # members[c]
    <3>1. members'[c] = members[c] \cup {r.user} /\ Cardinality(members[c]) < 2
        BY <1>3, <2>2
    <3>2. \A x, y \in members[c] : x = y
        BY <1>5, <3>1, PlaceLeft
    <3> QED
        BY <3>1, <3>2
  <2> QED
      BY <2>1, <2>2
<1>7. r.step = "public" /\ r.chat \in rooms => public[r.chat][r.user] = NoKey
    BY DEF DoneSoFar, HasSeat
<1>8. ASSUME NEW c \in Chat, NEW k \in seated'[c], NEW l \in seated'[c], NEW m \in seated'[c]
      PROVE  k = l \/ k = m \/ l = m
  <2>1. CASE seated'[c] = seated[c]
      BY <2>1 DEF Seats
  <2>2. CASE seated'[c] # seated[c]
    <3>1. /\ c = r.chat /\ c \in rooms /\ r.user \in members[c]
          /\ seated'[c] = seated[c] \cup {r.id}
          /\ public[c][r.user] = NoKey
        BY <1>4, <1>7, <2>2
    <3>2. ASSUME NEW x \in seated[c], NEW y \in seated[c] PROVE x = y
      <4>1. PICK u \in members[c] : x = public[c][u] /\ x # NoKey
          BY <3>1 DEF Seats
      <4>2. PICK v \in members[c] : y = public[c][v] /\ y # NoKey
          BY <3>1 DEF Seats
      <4>3. u # r.user /\ v # r.user
          BY <3>1, <4>1, <4>2
      <4> QED
          BY <3>1, <4>1, <4>2, <4>3 DEF Seats
    <3> QED
        BY <3>1, <3>2
  <2> QED
      BY <2>1, <2>2
<1>9. ASSUME NEW c \in rooms'
      PROVE  seated'[c] = {public'[c][u] : u \in members'[c]} \ {NoKey}
  <2>1. c \in Chat
      BY <1>0, <1>1, <1>2 DEF TablesType
  <2>2. CASE c \notin rooms
    <3>1. c \notin used /\ c = r.chat
        BY <1>2, <1>9, <2>2
    <3>2. seated[c] = {} /\ members[c] = {}
        BY <2>1, <2>2, <3>1 DEF Created
    <3>3. members'[c] = {} /\ seated'[c] = {}
        BY <1>3, <1>4, <2>1, <2>2, <3>1, <3>2
    <3> QED
        BY <3>3
  <2>3. CASE c \in rooms
    <3>1. seated[c] = {public[c][u] : u \in members[c]} \ {NoKey}
        BY <2>3 DEF Seats
    <3>2. CASE members'[c] # members[c]
      <4>1. /\ members'[c] = members[c] \cup {r.user} /\ r.user \notin members[c]
            /\ public' = public /\ seated' = seated
          BY <1>3, <1>4, <2>1, <3>2
      <4>2. public[c][r.user] = NoKey
          BY <1>1, <2>1, <4>1 DEF Created
      <4> QED
          BY <3>1, <4>1, <4>2
    <3>3. CASE members'[c] = members[c] /\ (c # r.chat \/ (public' = public /\ seated' = seated))
      <4>1. seated'[c] = seated[c]
          BY <1>4, <2>1, <3>3
      <4>2. \A u \in members[c] : public'[c][u] = public[c][u]
          BY <1>4, <1>5, <2>1, <3>3
      <4> QED
          BY <3>1, <3>3, <4>1, <4>2
    <3>4. CASE members'[c] = members[c] /\ c = r.chat /\ ~(public' = public /\ seated' = seated)
      <4>1. /\ r.user \in members[c] /\ public'[c][r.user] = r.id
            /\ seated'[c] = seated[c] \cup {r.id} /\ public[c][r.user] = NoKey
          BY <1>4, <1>7, <3>4
      <4>2. \A u \in members[c] : u # r.user => public'[c][u] = public[c][u]
          BY <1>4, <1>5, <2>1, <3>4
      <4> QED
          BY <1>1, <3>1, <3>4, <4>1, <4>2
    <3> QED
        BY <3>2, <3>3, <3>4
  <2> QED
      BY <2>2, <2>3
<1>10. \A c \in Chat : NoKey \notin seated'[c]
    BY <1>1, <1>4 DEF Seats
<1> QED
    BY <1>6, <1>8, <1>9, <1>10 DEF Seats

\* The one who gets in is a participant, the key that is sent was saved.
LEMMA PlacesExecute ==
    ASSUME TypeOK, RequestsHold, Created, DoneSoFar, MembersAreParticipants, PublicHasPrivate,
           NEW h \in Handler, Execute(h)
    PROVE  MembersAreParticipants' /\ PublicHasPrivate'
<1> PICK r : r = request[h]
    OBVIOUS
<1>0. TablesType /\ TablesType' /\ r.chat \in Chat /\ r.user \in User
    BY TypeOfTables, AnswersType, TablesStep DEF Next
<1>1. ASSUME NEW c \in Chat, NEW u \in members'[c] PROVE participants'[c][u] > 0
  <2>1. u \in User /\ participants[c][u] \in Nat /\ participants'[c][u] \in Nat
      BY <1>0, <1>1 DEF TablesType
  <2>2. participants'[c][u] >= participants[c][u]
      BY <1>0, <2>1, ParticipantEffect
  <2>3. u \in members[c] \/ (c = r.chat /\ u = r.user /\ r.step = "join")
      BY <1>0, <1>1, RoomEffect
  <2>4. participants[c][u] > 0
      BY <2>3 DEF MembersAreParticipants, DoneSoFar, HasPlace
  <2> QED
      BY <2>1, <2>2, <2>4
<1>2. ASSUME NEW c \in Chat, NEW u \in User, public'[c][u] # NoKey
      PROVE  public'[c][u] \in private'[c][u]
  <2>1. private[c][u] \subseteq private'[c][u]
      BY <1>0, PrivateEffect
  <2>2. \/ public'[c][u] = public[c][u]
        \/ c = r.chat /\ u = r.user /\ r.step = "public" /\ public'[c][u] = r.id
      BY <1>0, PublicEffect
  <2>3. public'[c][u] \in private[c][u]
      BY <1>2, <2>2 DEF PublicHasPrivate, DoneSoFar, HasPrivate
  <2> QED
      BY <2>1, <2>3
<1> QED
    BY <1>1, <1>2 DEF MembersAreParticipants, PublicHasPrivate

\* A key that is not the room's is its request's, until that fails.
LEMMA KeysAccountedExecute ==
    ASSUME TypeOK, RequestsHold, Created, OwnKeys, DoneSoFar, KeysAccounted,
           NEW h \in Handler, Execute(h)
    PROVE  KeysAccounted'
<1> PICK r : r = request[h]
    OBVIOUS
<1>0. TablesType /\ TablesType' /\ r.chat \in Chat /\ r.user \in User
    BY TypeOfTables, AnswersType, TablesStep DEF Next
<1>1. /\ r \in InProgress /\ r # Idle /\ WellFormed(r)
      /\ r.kind \in Kind /\ r.step \in Steps(r.kind)
    BY Executes DEF InProgress, WellFormed
<1>2. \A d \in Chat, w \in User :
        \/ private'[d][w] = private[d][w]
        \/ /\ d = r.chat /\ w = r.user /\ r.step = "private"
           /\ private'[d][w] = private[d][w] \cup {r.id}
    BY <1>0, PrivateEffect
<1>3. /\ failed \subseteq failed'
      /\ \/ told' = told
         \/ told' = told \cup {<<r.chat, r.user>>} /\ r.step = "public"
         \/ /\ told' = told \cup {<<r.chat, r.user>>} /\ r.step = "ownKey"
            /\ private[r.chat][r.user] # {}
      /\ request'[h] = Idle /\ <<r.chat, r.user>> \notin failed' =>
            \/ r.kind \in {"invite", "decline"}
            \/ r.step = "ownKey"
            \/ r.step = "public" /\ (r.chat \in rooms /\ r.user \in members[r.chat]
                                        => public'[r.chat][r.user] = r.id)
    BY <1>0, AnswerEffect
<1>4. \A d \in Chat, w \in User :
         \/ public'[d][w] = public[d][w]
         \/ d = r.chat /\ w = r.user /\ public[d][w] = NoKey
    BY <1>0, PublicEffect DEF DoneSoFar, HasSeat
<1>5. \A g \in Handler : g # h => request'[g] = request[g]
    BY Executes DEF Advance, RequestsHold
<1>6. \/ request'[h] = Idle
      \/ request'[h].chat = r.chat /\ request'[h].user = r.user /\ request'[h].id = r.id
  <2>1. CASE request' = [request EXCEPT ![h] = Idle]
      BY <2>1 DEF RequestsHold
  <2>2. ASSUME NEW n, Advance(h, n)
        PROVE  request'[h].chat = r.chat /\ request'[h].user = r.user /\ request'[h].id = r.id
      BY <1>1, <2>2, Advanced
  <2> QED
      BY <2>1, <2>2, Executes
<1>7. ASSUME NEW c \in rooms', NEW u \in User, <<c, u>> \notin failed', NEW k \in private'[c][u]
      PROVE  \/ k = public'[c][u]
             \/ \E g \in Handler : /\ request'[g].chat = c
                                   /\ request'[g].user = u
                                   /\ request'[g].id = k
  <2>1. c \in Chat
      BY <1>0 DEF TablesType
  <2>2. CASE c \notin rooms
    <3>1. c \notin used
        BY <1>0, <2>2, RoomEffect
    <3>2. private'[c][u] = {}
        BY <1>1, <1>2, <2>1, <3>1 DEF Created, WellFormed
    <3> QED
        BY <3>2
  <2>3. CASE c \in rooms /\ k \notin private[c][u]
    <3>1. c = r.chat /\ u = r.user /\ k = r.id /\ r.step = "private"
        BY <1>2, <1>7, <2>1, <2>3
    <3>2. r.kind \notin {"invite", "decline"}
        BY <1>1, <3>1, WhoSeats
    <3>3. request'[h] # Idle
        BY <1>3, <1>7, <3>1, <3>2
    <3> QED
        BY <1>6, <3>1, <3>3
  <2>4. CASE c \in rooms /\ k \in private[c][u]
    <3>1. \/ k = public[c][u]
          \/ \E g \in Handler : request[g].chat = c /\ request[g].user = u /\ request[g].id = k
        BY <1>3, <1>7, <2>4 DEF KeysAccounted
    <3>2. CASE k = public[c][u]
      <4>1. k # NoKey
          BY <2>1, <2>4 DEF OwnKeys, NoKey
      <4> QED
          BY <1>4, <2>1, <3>2, <4>1
    <3>3. ASSUME NEW g \in Handler, g # h, request[g].chat = c, request[g].user = u,
                 request[g].id = k
          PROVE  \E f \in Handler : /\ request'[f].chat = c
                                    /\ request'[f].user = u
                                    /\ request'[f].id = k
        BY <1>5, <3>3
    <3>4. CASE r.chat = c /\ r.user = u /\ r.id = k
      <4>1. HasPrivate(r)
          BY <2>1, <2>4, <3>4 DEF OwnKeys
      <4>2. r.step \in {"join", "public"} /\ r.kind \notin {"invite", "decline"}
          BY <1>1, <4>1, WhoSeats DEF HasPrivate
      <4>3. CASE request'[h] = Idle
        <5>1. r.step = "public"
            BY <1>3, <1>7, <3>4, <4>2, <4>3
        <5>2. r.user \in members[r.chat]
            BY <2>4, <3>4, <5>1 DEF DoneSoFar, HasSeat
        <5> QED
            BY <1>3, <1>7, <2>4, <3>4, <4>2, <4>3, <5>1, <5>2
      <4> QED
          BY <1>6, <3>4, <4>3
    <3> QED
        BY <3>1, <3>2, <3>3, <3>4
  <2> QED
      BY <2>2, <2>3, <2>4
<1>8. ASSUME NEW t \in told'
      PROVE  participants'[t[1]][t[2]] > 0 /\ private'[t[1]][t[2]] # {}
  <2>1. t[1] \in Chat /\ t[2] \in User
      BY <1>0 DEF TablesType
  <2>2. participants[t[1]][t[2]] > 0 /\ private[t[1]][t[2]] # {}
    <3>1. CASE t \in told
        BY <3>1 DEF KeysAccounted
    <3>2. CASE t \notin told
      <4>1. /\ t = <<r.chat, r.user>> /\ r.step \in {"public", "ownKey"}
            /\ r.step = "ownKey" => private[r.chat][r.user] # {}
          BY <1>3, <1>8, <3>2
      <4>2. participants[r.chat][r.user] > 0
          BY <4>1 DEF DoneSoFar, HasPlace
      <4>3. r.step = "public" => r.id \in private[r.chat][r.user]
          BY DEF DoneSoFar, HasPrivate
      <4> QED
          BY <4>1, <4>2, <4>3
    <3> QED
        BY <3>1, <3>2
  <2>3. participants'[t[1]][t[2]] >= participants[t[1]][t[2]]
      BY <1>0, <2>1, ParticipantEffect
  <2>4. participants[t[1]][t[2]] \in Nat /\ participants'[t[1]][t[2]] \in Nat
      BY <1>0, <2>1 DEF TablesType
  <2>5. private[t[1]][t[2]] \subseteq private'[t[1]][t[2]]
      BY <1>2, <2>1
  <2> QED
      BY <2>2, <2>3, <2>4, <2>5
<1> QED
    BY <1>7, <1>8 DEF KeysAccounted

\* Contexts and messages are written by others, and their keys stay.
LEMMA SecretsExecute ==
    ASSUME TypeOK, RequestsHold, Secrets, NEW h \in Handler, Execute(h)
    PROVE  Secrets'
<1>0. TablesType
    BY TypeOfTables
<1>1. UNCHANGED <<messages, contexts>>
    BY DEF Execute, CreateRoom, InsertChat, InsertParticipant, InsertInvitation, UpdateStatus,
       FindOwnKey, SavePrivateKey, JoinRoom, SendPublicKey, tables
<1>2. \A c \in Chat, u \in User : private[c][u] \subseteq private'[c][u]
    BY <1>0, PrivateEffect
<1>3. \A c \in Chat : seated[c] \subseteq seated'[c]
    BY <1>0, PublicEffect
<1>4. ASSUME NEW c \in Chat, NEW x, SecretOf(c, x) PROVE SecretOf(c, x)'
  <2>1. CASE x = NoContext
      BY <2>1 DEF SecretOf
  <2>2. ASSUME NEW u \in User, NEW v \in User, u # v, x.own \in private[c][u],
               x.other \in private[c][v] \cap seated[c]
        PROVE  SecretOf(c, x)'
      BY <1>2, <1>3, <2>2 DEF SecretOf
  <2> QED
      BY <1>4, <2>1, <2>2 DEF SecretOf
<1> QED
    BY <1>1, <1>4 DEF Secrets

-----------------------------------------------------------------------------
(* The other steps.                                                        *)

\* The part of the invariant that is not about types and records.
KeptInv ==
    /\ Created /\ OwnKeys /\ DoneSoFar /\ Seats /\ KeysAccounted /\ Secrets
    /\ MembersAreParticipants /\ PublicHasPrivate

\* An idle handler has done nothing, and works for nobody.
LEMMA IdleHandler ==
    ~HasPlace(Idle) /\ ~HasPrivate(Idle) /\ ~HasSeat(Idle) /\ Idle.chat \notin Chat
BY HasChats DEF HasPlace, HasPrivate, HasSeat, Idle

\* A request that arrives has done nothing and has a new number.
LEMMA ArriveKeeps ==
    ASSUME TypeOK, RequestsHold, KeptInv, NEW h \in Handler, Arrive(h)
    PROVE  KeptInv'
<1>1. PICK r : NewRequest(h, r)
    BY ArrivesNew DEF KeptInv
<1>2. /\ UNCHANGED <<chats, participants, invitations, private, messages, rooms, members, public,
                     contexts, used, seated, told, failed>>
      /\ request[h] = Idle /\ requests' = requests + 1
      /\ ~HasPlace(r) /\ ~HasPrivate(r) /\ ~HasSeat(r) /\ r.id = requests + 1
    BY <1>1 DEF NewRequest, tables, chatServer
<1>3. request'[h] = r /\ \A g \in Handler \ {h} : request'[g] = request[g]
    BY <1>1 DEF NewRequest, RequestsHold
<1>4. requests \in Nat
    BY DEF TypeOK, Number
<1>5. Created'
    BY <1>2 DEF KeptInv, Created
<1>6. OwnKeys'
  <2>1. ASSUME NEW c \in Chat, NEW u \in User
        PROVE  private'[c][u] \subseteq 1..requests' /\ r.id \notin private'[c][u]
    <3>1. private[c][u] \subseteq 1..requests
        BY DEF KeptInv, OwnKeys
    <3> QED
        BY <1>2, <1>4, <3>1
  <2>2. ASSUME NEW g \in Handler, NEW c \in Chat, NEW u \in User, request'[g].id \in private'[c][u]
        PROVE  HasPrivate(request'[g])
      BY <1>2, <1>3, <2>1, <2>2 DEF KeptInv, OwnKeys
  <2>3. \A c, d \in Chat, u, v \in User :
          private'[c][u] \cap private'[d][v] # {} => c = d /\ u = v
      BY <1>2 DEF KeptInv, OwnKeys
  <2> QED
      BY <2>1, <2>2, <2>3 DEF OwnKeys, HasPrivate
<1>7. DoneSoFar'
  <2>1. ASSUME NEW g \in Handler, NEW q, q = request'[g]
        PROVE  /\ HasPlace(q) => participants'[q.chat][q.user] > 0
               /\ HasPrivate(q) => q.id \in private'[q.chat][q.user]
               /\ HasSeat(q) /\ q.chat \in rooms' =>
                     /\ q.user \in members'[q.chat]
                     /\ public'[q.chat][q.user] = NoKey
                     /\ \A f \in Handler \ {g} : HasSeat(request'[f]) =>
                           <<request'[f].chat, request'[f].user>> # <<q.chat, q.user>>
    <3>1. CASE g = h
        BY <1>2, <1>3, <2>1, <3>1
    <3>2. CASE g # h
      <4>1. q = request[g]
          BY <1>3, <2>1, <3>2
      <4>2. \A f \in Handler : HasSeat(request'[f]) => request'[f] = request[f]
          BY <1>2, <1>3
      <4> QED
          BY <1>2, <4>1, <4>2 DEF KeptInv, DoneSoFar
    <3> QED
        BY <3>1, <3>2
  <2> QED
      BY <2>1 DEF DoneSoFar, HasPlace, HasPrivate, HasSeat
<1>8. Seats'
    BY <1>2 DEF KeptInv, Seats
<1>9. KeysAccounted'
  <2>1. ASSUME NEW c \in rooms, NEW u \in User, <<c, u>> \notin failed, NEW k \in private[c][u],
               k # public[c][u]
        PROVE  \E g \in Handler : /\ request'[g].chat = c
                                  /\ request'[g].user = u
                                  /\ request'[g].id = k
    <3>1. PICK g \in Handler : request[g].chat = c /\ request[g].user = u /\ request[g].id = k
        BY <2>1 DEF KeptInv, KeysAccounted
    <3>2. c \in Chat
        BY DEF TypeOK
    <3>3. g # h
        BY <1>2, <3>1, <3>2, IdleHandler
    <3> QED
        BY <1>3, <3>1, <3>3
  <2> QED
      BY <1>2, <2>1 DEF KeptInv, KeysAccounted
<1>10. Secrets'
    BY <1>2 DEF KeptInv, Secrets, SecretOf
<1>11. MembersAreParticipants' /\ PublicHasPrivate'
    BY <1>2 DEF KeptInv, MembersAreParticipants, PublicHasPrivate
<1> QED
    BY <1>5, <1>6, <1>7, <1>8, <1>9, <1>10, <1>11 DEF KeptInv

\* The page is opened with one of the user's own keys and a key the room
\* gives for another member.
LEMMA OpenKeeps ==
    ASSUME TypeOK, KeptInv, NEW u \in User, NEW c \in Chat, OpenChat(u, c)
    PROVE  KeptInv'
<1> USE DEF tables, chatServer, seen
<1>1. PICK own \in private[c][u], v \in User \ {u} :
         /\ public[c][v] # NoKey
         /\ contexts' = [contexts EXCEPT ![c][u] = [own |-> own, other |-> public[c][v]]]
    BY DEF OpenChat
<1>2. c \in rooms /\ UNCHANGED <<chats, participants, invitations, private, messages, rooms,
                                 members, public, request, requests, used, seated, told, failed>>
    BY DEF OpenChat
<1>3. own \in Number /\ public[c][v] \in Number
    BY DEF TypeOK
<1> DEFINE x == [own |-> own, other |-> public[c][v]]
<1>4. SecretOf(c, x)
  <2>1. public[c][v] \in private[c][v]
      BY <1>1 DEF KeptInv, PublicHasPrivate
  <2>2. v \in members[c]
      BY <1>1 DEF KeptInv, Created
  <2>3. public[c][v] \in seated[c]
      BY <1>1, <1>2, <2>2 DEF KeptInv, Seats
  <2> QED
      BY <1>1, <2>1, <2>3 DEF SecretOf
<1>5. /\ contexts'[c][u] = x
      /\ \A d \in Chat, w \in User : <<d, w>> # <<c, u>> => contexts'[d][w] = contexts[d][w]
  <2>1. x \in Context
      BY <1>3 DEF Context
  <2> HIDE DEF x
  <2>2. contexts' = [contexts EXCEPT ![c][u] = x]
      BY <1>1 DEF x
  <2> QED
      BY <2>1, <2>2, PutCell DEF TypeOK
<1>6. Secrets'
  <2> HIDE DEF x
  <2>1. \A d \in Chat : \A y : SecretOf(d, y) => SecretOf(d, y)'
      BY <1>2 DEF SecretOf
  <2>2. ASSUME NEW d \in Chat, NEW w \in User PROVE SecretOf(d, contexts'[d][w])
      BY <1>4, <1>5 DEF KeptInv, Secrets
  <2> QED
      BY <1>2, <2>2 DEF KeptInv, Secrets, SecretOf
<1>7. Created' /\ OwnKeys' /\ DoneSoFar' /\ Seats' /\ KeysAccounted'
    BY <1>2 DEF KeptInv, Created, OwnKeys, DoneSoFar, Seats, KeysAccounted, HasPlace, HasPrivate,
       HasSeat
<1>8. MembersAreParticipants' /\ PublicHasPrivate'
    BY <1>2 DEF KeptInv, MembersAreParticipants, PublicHasPrivate
<1> QED
    BY <1>6, <1>7, <1>8 DEF KeptInv

\* A message is encrypted with the context there is.
LEMMA SendKeeps ==
    ASSUME TypeOK, KeptInv, NEW u \in User, NEW c \in Chat, SendMessage(u, c)
    PROVE  KeptInv'
<1> USE DEF tables, chatServer, seen
<1>1. /\ messages' = [messages EXCEPT ![c] = messages[c] \cup {contexts[c][u]}]
      /\ UNCHANGED <<chats, participants, invitations, private, rooms, members, public, request,
                     contexts, requests, used, seated, told, failed>>
    BY DEF SendMessage
<1>2. \A d \in Chat : messages'[d] \subseteq messages[d] \cup (IF d = c THEN {contexts[c][u]} ELSE {})
    BY <1>1 DEF TypeOK
<1>3. Secrets'
  <2>1. ASSUME NEW d \in Chat, NEW x \in messages'[d] PROVE SecretOf(d, x)
      BY <1>2 DEF KeptInv, Secrets
  <2> QED
      BY <1>1, <2>1 DEF KeptInv, Secrets, SecretOf
<1>4. Created' /\ OwnKeys' /\ DoneSoFar' /\ Seats' /\ KeysAccounted'
    BY <1>1 DEF KeptInv, Created, OwnKeys, DoneSoFar, Seats, KeysAccounted, HasPlace, HasPrivate,
       HasSeat
<1>5. MembersAreParticipants' /\ PublicHasPrivate'
    BY <1>1 DEF KeptInv, MembersAreParticipants, PublicHasPrivate
<1> QED
    BY <1>3, <1>4, <1>5 DEF KeptInv

\* A restart of the web server refuses every request in progress.
LEMMA RestartWebKeeps ==
    ASSUME TypeOK, RequestsHold, KeptInv, RestartWeb
    PROVE  KeptInv'
<1> USE DEF tables, chatServer
<1>1. UNCHANGED <<chats, participants, invitations, private, messages, rooms, members, public,
                  requests, used, seated, told>>
    BY DEF RestartWeb
<1>2. \A h \in Handler : request'[h] = Idle
    BY DEF RestartWeb
<1>3. \A c \in Chat, u \in User : contexts'[c][u] = NoContext
    BY DEF RestartWeb
<1>4. OwnKeys'
  <2>1. \A c \in Chat, u \in User : Idle.id \notin private[c][u]
      BY DEF KeptInv, OwnKeys, Idle
  <2> QED
      BY <1>1, <1>2, <2>1 DEF KeptInv, OwnKeys
<1>5. DoneSoFar'
    BY <1>2, IdleHandler DEF DoneSoFar, HasPlace, HasPrivate, HasSeat
<1>6. KeysAccounted'
  <2>1. ASSUME NEW c \in rooms, NEW u \in User, <<c, u>> \notin failed', NEW k \in private[c][u]
        PROVE  k = public[c][u]
    <3> SUFFICES ASSUME k # public[c][u] PROVE FALSE
        OBVIOUS
    <3>1. c \in Chat /\ failed \subseteq failed'
        BY DEF TypeOK, RestartWeb
    <3>2. PICK h \in Handler : request[h].chat = c /\ request[h].user = u
        BY <2>1, <3>1 DEF KeptInv, KeysAccounted
    <3>3. request[h] # Idle
        BY <3>1, <3>2, IdleHandler
    <3>4. request[h].step # "done"
        BY <3>3 DEF RequestsHold, InProgress
    <3>5. <<request[h].chat, request[h].user>> \in failed'
        BY <3>4 DEF RestartWeb, At
    <3> QED
        BY <2>1, <3>2, <3>5
  <2> QED
      BY <1>1, <2>1 DEF KeptInv, KeysAccounted
<1>7. Secrets'
    BY <1>1, <1>3 DEF KeptInv, Secrets, SecretOf
<1>8. Created' /\ Seats' /\ MembersAreParticipants' /\ PublicHasPrivate'
    BY <1>1 DEF KeptInv, Created, Seats, MembersAreParticipants, PublicHasPrivate
<1> QED
    BY <1>4, <1>5, <1>6, <1>7, <1>8 DEF KeptInv

\* A restart of the chat server empties its memory; the keys it gave away
\* are remembered by nobody but the contexts.
LEMMA RestartChatServerKeeps ==
    ASSUME TypeOK, KeptInv, RestartChatServer
    PROVE  KeptInv'
<1> USE DEF tables, seen
<1>1. UNCHANGED <<chats, participants, invitations, private, messages, request, contexts,
                  requests, used, seated, told, failed>>
    BY DEF RestartChatServer
<1>2. /\ rooms' = {} /\ \A c \in Chat : members'[c] = {}
      /\ \A c \in Chat, u \in User : public'[c][u] = NoKey
    BY DEF RestartChatServer
<1>3. Created'
    BY <1>1, <1>2 DEF KeptInv, Created
<1>4. OwnKeys'
    BY <1>1 DEF KeptInv, OwnKeys, HasPrivate
<1>5. DoneSoFar'
    BY <1>1, <1>2 DEF KeptInv, DoneSoFar, HasPlace, HasPrivate, HasSeat
<1>6. Seats'
    BY <1>1, <1>2 DEF KeptInv, Seats
<1>7. KeysAccounted'
    BY <1>1, <1>2 DEF KeptInv, KeysAccounted
<1>8. Secrets'
    BY <1>1 DEF KeptInv, Secrets, SecretOf
<1>9. MembersAreParticipants' /\ PublicHasPrivate'
    BY <1>2 DEF MembersAreParticipants, PublicHasPrivate
<1> QED
    BY <1>3, <1>4, <1>5, <1>6, <1>7, <1>8, <1>9 DEF KeptInv

-----------------------------------------------------------------------------
(* The theorems.                                                           *)

\* It holds at first.
LEMMA ChatInit == Init => ChatInv
<1> SUFFICES ASSUME Init PROVE ChatInv
    OBVIOUS
<1> USE DEF Init, NoKey
<1>1. RequestsHold
    BY DEF RequestsHold
<1>2. TablesType
  <2>1. /\ chats \subseteq Chat /\ rooms \subseteq Chat /\ used \subseteq Chat
        /\ participants \in [Chat -> [User -> Nat]]
        /\ private \in [Chat -> [User -> SUBSET Number]]
        /\ messages \in [Chat -> SUBSET Context]
        /\ members \in [Chat -> SUBSET User]
        /\ seated \in [Chat -> SUBSET Number]
        /\ told \subseteq Chat \X User /\ failed \subseteq Chat \X User
      OBVIOUS
  <2>2. 0 \in Number
      BY RequestsBound DEF Number
  <2>3. public \in [Chat -> [User -> Number]] /\ requests \in Number
      BY <2>2
  <2>4. NoContext \in Context
      BY <2>2 DEF NoContext, Context
  <2>5. contexts \in [Chat -> [User -> Context]]
      BY <2>4
  <2>6. NoInvitation \in [chat : Chat \cup {NoChat}, inviter : User \cup {NoUser},
                          invitee : User \cup {NoUser},
                          status : {"none", "pending", "accepted", "declined"}]
      BY DEF NoInvitation
  <2> QED
      BY <2>1, <2>3, <2>5, <2>6 DEF TablesType
<1>3. Created
    BY DEF Created, NoInvitation
<1>4. OwnKeys
    BY DEF OwnKeys
<1>5. DoneSoFar
    BY IdleHandler DEF DoneSoFar
<1>6. Seats /\ KeysAccounted /\ Secrets
    BY DEF Seats, KeysAccounted, Secrets, SecretOf
<1>7. MembersAreParticipants /\ PublicHasPrivate
    BY DEF MembersAreParticipants, PublicHasPrivate
<1> QED
    BY <1>1, <1>2, <1>3, <1>4, <1>5, <1>6, <1>7, TypeOfAll DEF ChatInv

\* Every step of the web application and of either server's restart keeps it.
LEMMA ChatStep == ChatInv /\ [Next]_vars => ChatInv'
<1> SUFFICES ASSUME ChatInv, [Next]_vars PROVE ChatInv'
    OBVIOUS
<1>0. TypeOK /\ RequestsHold /\ KeptInv /\ Created
    BY DEF ChatInv, KeptInv
<1>1. TypeOK' /\ RequestsHold'
  <2>1. TablesType'
      BY <1>0, TypeOfTables, TablesStep
  <2>2. RequestsHold'
      BY <1>0, RequestsStep
  <2> QED
      BY <2>1, <2>2, TypeOfAll, PTL
<1>2. ASSUME NEW h \in Handler, Execute(h) PROVE KeptInv'
    BY <1>0, <1>2, CreatedExecute, OwnKeysExecute, DoneSoFarExecute, SeatsExecute, PlacesExecute,
       KeysAccountedExecute, SecretsExecute DEF KeptInv
<1>3. ASSUME UNCHANGED vars PROVE KeptInv'
    BY <1>0, <1>3 DEF vars, tables, chatServer, seen, KeptInv, Created, OwnKeys, DoneSoFar, Seats,
       KeysAccounted, Secrets, SecretOf, MembersAreParticipants, PublicHasPrivate, HasPlace,
       HasPrivate, HasSeat
<1>4. ASSUME NEW h \in Handler, Arrive(h) PROVE KeptInv'
    BY <1>0, <1>4, ArriveKeeps
<1>5. ASSUME NEW u \in User, NEW c \in Chat, OpenChat(u, c) \/ SendMessage(u, c) PROVE KeptInv'
    BY <1>0, <1>5, OpenKeeps, SendKeeps
<1>6. ASSUME RestartWeb \/ RestartChatServer PROVE KeptInv'
    BY <1>0, <1>6, RestartWebKeeps, RestartChatServerKeeps
<1>7. KeptInv'
    BY <1>2, <1>3, <1>4, <1>5, <1>6 DEF Next
<1> QED
    BY <1>1, <1>7 DEF ChatInv, KeptInv

\* It holds always.
LEMMA ChatInvariant == Spec => []ChatInv
BY ChatInit, ChatStep, PTL DEF Spec

\* Every variable keeps its type and no request runs into the statements of
\* another handler (create_chat.go:44-176, invitations.go:30-315,
\* chat.go:243-345).
THEOREM Types == Spec => []TypeOK
<1>1. ChatInv => TypeOK
    BY DEF ChatInv
<1> QED
    BY <1>1, ChatInvariant, PTL

\* Whoever is in a chat's room is among the chat's participants, though two
\* servers keep the two (create_chat.go:107-154, invitations.go:277-313,
\* chat.go:278-335).
THEOREM Places == Spec => []MembersAreParticipants
<1>1. ChatInv => MembersAreParticipants
    BY DEF ChatInv
<1> QED
    BY <1>1, ChatInvariant, PTL

\* A key the room gives away is one whose private key was saved
\* (create_chat.go:144-165).
THEOREM SavedBeforeSent == Spec => []PublicHasPrivate
<1>1. ChatInv => PublicHasPrivate
    BY DEF ChatInv
<1> QED
    BY <1>1, ChatInvariant, PTL

\* A user that was told it is in a chat, with nothing of its own refused or
\* going on, is a participant and a member with the one key the room has of
\* it (create_chat.go:107-176, invitations.go:277-315, chat.go:278-345).
THEOREM Seated == Spec => []ToldMeansSeated
<1>1. ChatInv => ToldMeansSeated
  <2> SUFFICES ASSUME ChatInv, NEW c \in rooms, NEW u \in User,
                      <<c, u>> \in told \ failed, ~Busy(c, u)
               PROVE  participants[c][u] > 0 /\ u \in members[c] /\ private[c][u] = {public[c][u]}
      BY DEF ToldMeansSeated
  <2>1. c \in Chat
      BY DEF ChatInv, TypeOK
  <2>2. participants[c][u] > 0 /\ private[c][u] # {}
      BY DEF ChatInv, KeysAccounted
  <2>3. \A k \in private[c][u] : k = public[c][u]
      BY DEF ChatInv, KeysAccounted, Busy
  <2>4. private[c][u] \subseteq 1..requests
      BY <2>1 DEF ChatInv, OwnKeys
  <2>5. public[c][u] # NoKey
      BY <2>2, <2>3, <2>4 DEF NoKey
  <2> QED
      BY <2>1, <2>2, <2>3, <2>5 DEF ChatInv, Created
<1> QED
    BY <1>1, ChatInvariant, PTL

\* All that is encrypted in a chat with a key its room ever had is encrypted
\* with the same two keys (chat.go:158-178).
THEOREM OneSecret == Spec => []SecretsAgree
<1>1. ASSUME ChatInv, NEW c \in Chat, NEW x, SecretOf(c, x), x.own \in seated[c]
      PROVE  {x.own, x.other} = seated[c]
  <2>1. x # NoContext
      BY <1>1 DEF ChatInv, Seats, NoContext
  <2>2. PICK u \in User, v \in User : /\ u # v
                                      /\ x.own \in private[c][u]
                                      /\ x.other \in private[c][v] \cap seated[c]
      BY <1>1, <2>1 DEF SecretOf
  <2>3. x.own # x.other
      BY <1>1, <2>2 DEF ChatInv, OwnKeys
  <2>4. \A k \in seated[c] : k = x.own \/ k = x.other
      BY <1>1, <2>2, <2>3 DEF ChatInv, Seats
  <2> QED
      BY <1>1, <2>2, <2>4
<1>2. ChatInv => SecretsAgree
    BY <1>1 DEF ChatInv, Secrets, SecretsAgree
<1> QED
    BY <1>2, ChatInvariant, PTL

\* A room never replaces a member's key: only the request that was let in
\* sends one (invitations.go:253-269, chat.go:308-335).
THEOREM FinalKeys == Spec => KeysAreFinal
<1>1. ASSUME ChatInv, [Next]_vars, NEW c \in rooms \cap rooms', NEW u \in User,
             public[c][u] # NoKey
      PROVE  public'[c][u] = public[c][u]
  <2> USE DEF tables, chatServer, seen
  <2>0. TypeOK /\ RequestsHold /\ Created /\ DoneSoFar /\ TablesType /\ c \in Chat
      BY <1>1, TypeOfTables DEF ChatInv, TablesType
  <2>1. ASSUME NEW h \in Handler, Execute(h) PROVE public'[c][u] = public[c][u]
    <3> PICK r : r = request[h]
        OBVIOUS
    <3>1. \/ public' = public
          \/ /\ r.step = "public" /\ r.chat \in rooms
             /\ <<c, u>> # <<r.chat, r.user>> => public'[c][u] = public[c][u]
        BY <2>0, <2>1, PublicEffect
    <3>2. r.step = "public" /\ r.chat \in rooms => public[r.chat][r.user] = NoKey
        BY <2>0 DEF DoneSoFar, HasSeat
    <3> QED
        BY <1>1, <3>1, <3>2
  <2>2. ASSUME NEW h \in Handler, Arrive(h) PROVE public' = public
      BY <2>0, <2>2, ArrivesNew DEF NewRequest
  <2> QED
      BY <1>1, <2>1, <2>2 DEF Next, OpenChat, SendMessage, RestartWeb, RestartChatServer, vars
<1>2. ChatInv /\ [Next]_vars =>
        [\A c \in rooms \cap rooms', u \in User :
            public[c][u] # NoKey => public'[c][u] = public[c][u]]_vars
    BY <1>1
<1> QED
    BY <1>2, ChatInvariant, PTL DEF Spec, KeysAreFinal
=============================================================================
