--------------------------- MODULE TerminalClient ---------------------------
(***************************************************************************)
(* The terminal client (client/client.go) in one room: joining, the        *)
(* Diffie-Hellman exchange, and texts.  A client is one run of the         *)
(* program, under an id of its own, with three goroutines: the main loop,  *)
(* the poller of GetPublicKeys and receiveMessages.  They share            *)
(* cipherContext and the flag sharedKeyComputed; the flag has no lock.     *)
(* The flag is written after the context, and no compiler for the targets  *)
(* of the build moves that write across the mutex calls in between.        *)
(*                                                                         *)
(* The server's methods are single steps here, as RoomServer allows, but   *)
(* for the two whose lookup and publication others can come between.  The  *)
(* room has been created.  The secret of clients c and d is the set        *)
(* {c, d}: each derives it from its own private and the other's public     *)
(* key.  Files are left to another module, but for sending one too early.  *)
(***************************************************************************)
EXTENDS Integers, Sequences, FiniteSets

CONSTANTS
    Client,
    NoPeer,         \* no cipherContext yet
    MaxTexts        \* bound on the texts sent

ASSUME ClientsFinite == IsFiniteSet(Client)
ASSUME NoPeerDistinct == NoPeer \notin Client
ASSUME MaxTextsType == MaxTexts \in Nat

VARIABLES
    \* The server and its broker.
    open,           \* the room is in s.rooms
    exchange,       \* the room's exchange exists
    channel,        \* the server's AMQP channel is open
    members,        \* room.Clients
    keys,           \* members whose PublicKey the room has
    bound,          \* clients whose queue is bound to the exchange
    queue,          \* queue[c]: what will reach client c, in order
    \* The clients.
    stage,          \* main: "new", "joined", "keySet", "running", "panicked", "gone"
    ctx,            \* cipherContext: the client whose public key made it
    computed,       \* sharedKeyComputed
    poller,         \* "ask", "call", "init", "flag", "done"
    answer,         \* the other client the poller got a key of
    receiver,       \* "start", "loop", "init", "flag"
    heard,          \* the client whose key receiveMessages got
    out,            \* the text SendMessage was called with
    texts,          \* texts typed so far
    \* What was seen of it.
    shown,          \* shown[c]: texts client c decrypted and printed
    missed,         \* texts a client lost that was ready for them
    confirmed,      \* texts reported to their author as sent
    published,      \* texts that reached the exchange
    departed        \* somebody left the room

room == <<open, exchange, members, keys>>
amqp == <<channel, bound, queue>>
cipher == <<ctx, computed>>
loops == <<poller, answer, receiver, heard>>
seen == <<shown, missed, confirmed, published>>
vars == <<room, amqp, stage, cipher, loops, out, texts, seen, departed>>

-----------------------------------------------------------------------------
(* Helpers.                                                                *)

Id == 0..MaxTexts       \* 0: no text

NoText == [id |-> 0, secret |-> {}]

Secret(c) == {c, ctx[c]}

\* Client d has the context that decrypts a text encrypted under secret.
Ready(d, secret) == d \in bound /\ ctx[d] # NoPeer /\ Secret(d) = secret

KeyMessage(c) ==
    [kind |-> "public_key", from |-> c, id |-> 0, secret |-> {}, ready |-> {}]

TextMessage(c) ==
    [kind |-> "message", from |-> c, id |-> out[c].id, secret |-> out[c].secret,
     ready |-> {d \in Client : Ready(d, out[c].secret)}]

Message == [kind : {"public_key", "message"}, from : Client, id : Id,
            secret : SUBSET (Client \cup {NoPeer}), ready : SUBSET Client]

\* Mutant: ReceiveMessages passes a client's own messages on.
Broadcast_Echo(m) ==
    queue' = [d \in Client |-> IF d \in bound THEN Append(queue[d], m) ELSE queue[d]]

\* A fanout exchange copies a message to the queues bound at that moment;
\* ReceiveMessages skips those the client sent itself.
Broadcast(m) ==
    queue' = [d \in Client |->
                IF d \in bound /\ d # m.from THEN Append(queue[d], m) ELSE queue[d]]

\* The channel closes: nothing that the broker has not delivered will come.
ChannelDies ==
    /\ channel' = FALSE
    /\ bound' = {}
    /\ \E n \in [Client -> 0..(MaxTexts + Cardinality(Client))] :
          /\ \A c \in Client : n[c] <= Len(queue[c])
          /\ queue' = [c \in Client |-> SubSeq(queue[c], 1, n[c])]

\* A client process ends; its locals do not matter any more.
Ends(S, how) ==
    /\ stage' = [c \in Client |-> IF c \in S THEN how ELSE stage[c]]
    /\ ctx' = [c \in Client |-> IF c \in S THEN NoPeer ELSE ctx[c]]
    /\ computed' = [c \in Client |-> c \notin S /\ computed[c]]
    /\ poller' = [c \in Client |-> IF c \in S THEN "done" ELSE poller[c]]
    /\ answer' = [c \in Client |-> IF c \in S THEN NoPeer ELSE answer[c]]
    /\ receiver' = [c \in Client |-> IF c \in S THEN "start" ELSE receiver[c]]
    /\ heard' = [c \in Client |-> IF c \in S THEN NoPeer ELSE heard[c]]
    /\ out' = [c \in Client |-> IF c \in S THEN NoText ELSE out[c]]

\* The queue of a process that is gone.
Unsubscribed(c) ==
    /\ bound' = bound \ {c}
    /\ queue' = [queue EXCEPT ![c] = <<>>]

Runs(c) == stage[c] = "running"

-----------------------------------------------------------------------------
(* main up to the goroutines.                                              *)

\* Mutant: the room takes a third client.
JoinRoom_ThirdIn(c) ==
    /\ stage[c] = "new" /\ open
    /\ Cardinality(members) <= 2
    /\ members' = members \cup {c}
    /\ stage' = [stage EXCEPT ![c] = "joined"]
    /\ UNCHANGED <<open, exchange, keys, amqp, cipher, loops, out, texts, seen, departed>>

\* A client that is refused exits and leaves nothing behind; one the server
\* let in before Redis failed exits too, as if killed here.
JoinRoom(c) ==
    /\ stage[c] = "new" /\ open
    /\ Cardinality(members) < 2
    /\ members' = members \cup {c}
    /\ stage' = [stage EXCEPT ![c] = "joined"]
    /\ UNCHANGED <<open, exchange, keys, amqp, cipher, loops, out, texts, seen, departed>>

\* SendPublicKey: the room gets the key.  Without a room the answer says so,
\* but the client looks at the error of the call only, and goes on.
RegisterKey(c) ==
    /\ stage[c] = "joined"
    /\ IF open
       THEN /\ keys' = keys \cup {c}
            /\ stage' = [stage EXCEPT ![c] = "keySet"]
       ELSE /\ stage' = [stage EXCEPT ![c] = "running"]
            /\ UNCHANGED keys
    /\ UNCHANGED <<open, exchange, members, amqp, cipher, loops, out, texts, seen, departed>>

\* The rest of SendPublicKey.  A failure of Redis, before the publication or
\* after it, is reported in the answer, which the client does not look at.
PublishKey(c) ==
    /\ stage[c] = "keySet"
    /\ stage' = [stage EXCEPT ![c] = "running"]
    /\ \/ UNCHANGED amqp
       \/ /\ channel /\ exchange
          /\ Broadcast(KeyMessage(c))
          /\ UNCHANGED <<channel, bound>>
       \/ channel /\ ~exchange /\ ChannelDies
    /\ UNCHANGED <<room, cipher, loops, out, texts, seen, departed>>

\* An error of the call ends the client, which stays a member.
PublishKeyFails(c) ==
    /\ stage[c] = "keySet" /\ ~channel
    /\ Ends({c}, "gone")
    /\ UNCHANGED <<room, amqp, texts, seen, departed>>

\* The room was closed meanwhile: the server panics, every call and every
\* stream breaks, and the clients exit.
ServerPanics(c) ==
    /\ stage[c] = "keySet" /\ channel /\ ~open
    /\ Ends(Client, "gone")
    /\ open' = FALSE
    /\ channel' = FALSE
    /\ members' = {} /\ keys' = {}
    /\ bound' = {}
    /\ queue' = [d \in Client |-> <<>>]
    /\ UNCHANGED <<exchange, texts, seen, departed>>

-----------------------------------------------------------------------------
(* The poller: every two seconds until the flag is set.                    *)

\* The flag is not set: GetPublicKeys is called, and whatever it returns is
\* used, though receiveMessages may have set the flag meanwhile.
PollAsks(c) ==
    /\ Runs(c) /\ poller[c] = "ask" /\ ~computed[c]
    /\ poller' = [poller EXCEPT ![c] = "call"]
    /\ UNCHANGED <<room, amqp, stage, cipher, answer, receiver, heard, out, texts, seen, departed>>

\* It returns the keys of the members; the first one of another client is
\* taken.
PollKeys(c) ==
    /\ Runs(c) /\ poller[c] = "call" /\ open
    /\ \E d \in keys \ {c} : answer' = [answer EXCEPT ![c] = d]
    /\ poller' = [poller EXCEPT ![c] = "init"]
    /\ UNCHANGED <<room, amqp, stage, cipher, receiver, heard, out, texts, seen, departed>>

\* Mutant: the keys are asked for once.
PollNothing_Stops(c) ==
    /\ Runs(c) /\ poller[c] = "call"
    /\ open => keys \ {c} = {}
    /\ poller' = [poller EXCEPT ![c] = "done"]
    /\ UNCHANGED <<room, amqp, stage, cipher, answer, receiver, heard, out, texts, seen, departed>>

\* No room, or no such key: the poller sleeps, and looks at the flag again.
PollNothing(c) ==
    /\ Runs(c) /\ poller[c] = "call"
    /\ open => keys \ {c} = {}
    /\ poller' = [poller EXCEPT ![c] = "ask"]
    /\ UNCHANGED <<room, amqp, stage, cipher, answer, receiver, heard, out, texts, seen, departed>>

PollStops(c) ==
    /\ Runs(c) /\ poller[c] = "ask" /\ computed[c]
    /\ poller' = [poller EXCEPT ![c] = "done"]
    /\ UNCHANGED <<room, amqp, stage, cipher, answer, receiver, heard, out, texts, seen, departed>>

PollInit(c) ==
    /\ Runs(c) /\ poller[c] = "init"
    /\ ctx' = [ctx EXCEPT ![c] = answer[c]]
    /\ poller' = [poller EXCEPT ![c] = "flag"]
    /\ UNCHANGED <<room, amqp, stage, computed, answer, receiver, heard, out, texts, seen, departed>>

PollFlag(c) ==
    /\ Runs(c) /\ poller[c] = "flag"
    /\ computed' = [computed EXCEPT ![c] = TRUE]
    /\ poller' = [poller EXCEPT ![c] = "done"]
    /\ answer' = [answer EXCEPT ![c] = NoPeer]
    /\ UNCHANGED <<room, amqp, stage, ctx, receiver, heard, out, texts, seen, departed>>

-----------------------------------------------------------------------------
(* receiveMessages.                                                        *)

\* The server declares, binds and consumes the client's queue.
Subscribe(c) ==
    /\ Runs(c) /\ receiver[c] = "start"
    /\ open /\ channel /\ exchange
    /\ bound' = bound \cup {c}
    /\ receiver' = [receiver EXCEPT ![c] = "loop"]
    /\ UNCHANGED <<room, channel, queue, stage, cipher, poller, answer, heard,
                   out, texts, seen, departed>>

\* Without a room or a channel the stream breaks and the client exits; to
\* bind to an exchange that is gone closes the channel.
SubscribeFails(c) ==
    /\ Runs(c) /\ receiver[c] = "start"
    /\ ~(open /\ channel /\ exchange)
    /\ Ends({c}, "gone")
    /\ IF open /\ channel THEN ChannelDies ELSE UNCHANGED amqp
    /\ UNCHANGED <<room, texts, seen, departed>>

Consume(c) == queue' = [queue EXCEPT ![c] = Tail(@)]

HasNext(c, kind) ==
    /\ Runs(c) /\ receiver[c] = "loop"
    /\ queue[c] # <<>> /\ Head(queue[c]).kind = kind

\* The first key of another client is used, unless the poller was faster.
ReceiveKey(c) ==
    /\ HasNext(c, "public_key")
    /\ Consume(c)
    /\ IF computed[c]
       THEN UNCHANGED <<receiver, heard>>
       ELSE /\ receiver' = [receiver EXCEPT ![c] = "init"]
            /\ heard' = [heard EXCEPT ![c] = Head(queue[c]).from]
    /\ UNCHANGED <<room, channel, bound, stage, cipher, poller, answer,
                   out, texts, seen, departed>>

\* Mutant: the flag is set before the context.
ReceiveInit_FlagFirst(c) ==
    /\ Runs(c) /\ receiver[c] = "init"
    /\ computed' = [computed EXCEPT ![c] = TRUE]
    /\ receiver' = [receiver EXCEPT ![c] = "flag"]
    /\ UNCHANGED <<room, amqp, stage, ctx, poller, answer, heard, out, texts, seen, departed>>

ReceiveInit(c) ==
    /\ Runs(c) /\ receiver[c] = "init"
    /\ ctx' = [ctx EXCEPT ![c] = heard[c]]
    /\ receiver' = [receiver EXCEPT ![c] = "flag"]
    /\ UNCHANGED <<room, amqp, stage, computed, poller, answer, heard, out, texts, seen, departed>>

ReceiveFlag(c) ==
    /\ Runs(c) /\ receiver[c] = "flag"
    /\ computed' = [computed EXCEPT ![c] = TRUE]
    /\ receiver' = [receiver EXCEPT ![c] = "loop"]
    /\ heard' = [heard EXCEPT ![c] = NoPeer]
    /\ UNCHANGED <<room, amqp, stage, ctx, poller, answer, out, texts, seen, departed>>

\* Mutant: a text is dropped until the flag is set, not the context.
ReceiveText_NeedsFlag(c) ==
    LET m == Head(queue[c]) IN
    /\ HasNext(c, "message")
    /\ Consume(c)
    /\ IF computed[c] /\ Secret(c) = m.secret
       THEN /\ shown' = [shown EXCEPT ![c] = Append(@, m.id)]
            /\ UNCHANGED missed
       ELSE /\ missed' = IF c \in m.ready THEN missed \cup {m.id} ELSE missed
            /\ UNCHANGED shown
    /\ UNCHANGED <<room, channel, bound, stage, cipher, loops, out, texts,
                   confirmed, published, departed>>

\* Mutant: receiveMessages returns at a text it cannot decrypt yet.
ReceiveText_Returns(c) ==
    LET m == Head(queue[c]) IN
    /\ HasNext(c, "message")
    /\ Consume(c)
    /\ IF ctx[c] = NoPeer
       THEN receiver' = [receiver EXCEPT ![c] = "returned"] /\ UNCHANGED shown
       ELSE shown' = [shown EXCEPT ![c] = Append(@, m.id)] /\ UNCHANGED receiver
    /\ UNCHANGED <<room, channel, bound, stage, cipher, poller, answer, heard,
                   out, texts, missed, confirmed, published, departed>>

\* Without a context, or with one for another peer, the text is lost.
ReceiveText(c) ==
    LET m == Head(queue[c]) IN
    /\ HasNext(c, "message")
    /\ Consume(c)
    /\ IF ctx[c] # NoPeer /\ Secret(c) = m.secret
       THEN /\ shown' = [shown EXCEPT ![c] = Append(@, m.id)]
            /\ UNCHANGED missed
       ELSE /\ missed' = IF c \in m.ready THEN missed \cup {m.id} ELSE missed
            /\ UNCHANGED shown
    /\ UNCHANGED <<room, channel, bound, stage, cipher, loops, out, texts,
                   confirmed, published, departed>>

-----------------------------------------------------------------------------
(* The main loop.                                                          *)

AtPrompt(c) == Runs(c) /\ out[c] = NoText

\* The text is encrypted and SendMessage finds the room.
SendText(c) ==
    /\ AtPrompt(c) /\ computed[c] /\ texts < MaxTexts
    /\ texts' = texts + 1
    /\ IF open
       THEN /\ out' = [out EXCEPT ![c] = [id |-> texts + 1, secret |-> Secret(c)]]
            /\ UNCHANGED confirmed
       ELSE /\ confirmed' = confirmed \cup {texts + 1}
            /\ UNCHANGED out
    /\ UNCHANGED <<room, amqp, stage, cipher, loops, shown, missed, published, departed>>

\* SendMessage publishes and answers.  The client reports the text as sent
\* whatever the answer says.
PublishText(c) ==
    /\ Runs(c) /\ out[c] # NoText
    /\ out' = [out EXCEPT ![c] = NoText]
    /\ confirmed' = confirmed \cup {out[c].id}
    /\ \/ /\ channel /\ exchange
          /\ Broadcast(TextMessage(c))
          /\ published' = published \cup {out[c].id}
          /\ UNCHANGED <<channel, bound>>
       \/ channel /\ ~exchange /\ ChannelDies /\ UNCHANGED published
       \/ ~channel /\ UNCHANGED <<amqp, published>>
    /\ UNCHANGED <<room, stage, cipher, loops, texts, shown, missed, departed>>

\* "send-file" is looked at before the flag is: with no context the client
\* panics.
SendFileEarly(c) ==
    /\ AtPrompt(c) /\ ctx[c] = NoPeer
    /\ Ends({c}, "panicked")
    /\ Unsubscribed(c)
    /\ UNCHANGED <<room, channel, texts, seen, departed>>

\* "/exit"
Exit(c) ==
    /\ AtPrompt(c)
    /\ IF open
       THEN /\ members' = members \ {c}
            /\ keys' = keys \ {c}
            /\ departed' = TRUE
       ELSE UNCHANGED <<members, keys, departed>>
    /\ Ends({c}, "gone")
    /\ Unsubscribed(c)
    /\ UNCHANGED <<open, exchange, channel, texts, seen>>

\* "/close".  When Redis fails the room is served on without an exchange.
Close(c) ==
    /\ AtPrompt(c)
    /\ Ends({c}, "gone")
    /\ IF open /\ channel
       THEN /\ exchange' = FALSE
            /\ open' \in {TRUE, FALSE}
            /\ bound' = {}
            /\ queue' = [queue EXCEPT ![c] = <<>>]
       ELSE Unsubscribed(c) /\ UNCHANGED <<open, exchange>>
    /\ UNCHANGED <<members, keys, channel, texts, seen, departed>>

\* The process is killed: the server keeps it as a member.
Kill(c) ==
    /\ stage[c] \in {"joined", "keySet", "running"}
    /\ Ends({c}, "gone")
    /\ Unsubscribed(c)
    /\ UNCHANGED <<room, channel, texts, seen, departed>>

-----------------------------------------------------------------------------
Init ==
    /\ open = TRUE /\ exchange = TRUE /\ channel = TRUE
    /\ members = {} /\ keys = {} /\ bound = {}
    /\ queue = [c \in Client |-> <<>>]
    /\ stage = [c \in Client |-> "new"]
    /\ ctx = [c \in Client |-> NoPeer]
    /\ computed = [c \in Client |-> FALSE]
    /\ poller = [c \in Client |-> "ask"]
    /\ answer = [c \in Client |-> NoPeer]
    /\ receiver = [c \in Client |-> "start"]
    /\ heard = [c \in Client |-> NoPeer]
    /\ out = [c \in Client |-> NoText]
    /\ texts = 0
    /\ shown = [c \in Client |-> <<>>]
    /\ missed = {} /\ confirmed = {} /\ published = {}
    /\ departed = FALSE

\* What the clients' goroutines do without the user.
Poll(c) == PollAsks(c) \/ PollKeys(c) \/ PollNothing(c) \/ PollStops(c)
           \/ PollInit(c) \/ PollFlag(c)

Listen(c) == Subscribe(c) \/ SubscribeFails(c) \/ ReceiveKey(c)
             \/ ReceiveInit(c) \/ ReceiveFlag(c) \/ ReceiveText(c)

Start(c) == JoinRoom(c) \/ RegisterKey(c) \/ PublishKey(c)
            \/ PublishKeyFails(c) \/ ServerPanics(c)

Prompt(c) == SendText(c) \/ PublishText(c) \/ SendFileEarly(c)
             \/ Exit(c) \/ Close(c) \/ Kill(c)

Next == \E c \in Client : Start(c) \/ Poll(c) \/ Listen(c) \/ Prompt(c)

Spec == Init /\ [][Next]_vars

\* Goroutines that can run do; the user owes nothing.
Fairness == \A c \in Client : WF_vars(Poll(c)) /\ WF_vars(Listen(c))

FairSpec == Spec /\ Fairness

-----------------------------------------------------------------------------
(* Properties.                                                             *)

TypeOK ==
    /\ {open, exchange, channel, departed} \subseteq BOOLEAN
    /\ members \subseteq Client /\ keys \subseteq Client /\ bound \subseteq Client
    /\ queue \in [Client -> Seq(Message)]
    /\ stage \in [Client -> {"new", "joined", "keySet", "running", "panicked", "gone"}]
    /\ ctx \in [Client -> Client \cup {NoPeer}]
    /\ computed \in [Client -> BOOLEAN]
    /\ poller \in [Client -> {"ask", "call", "init", "flag", "done"}]
    /\ answer \in [Client -> Client \cup {NoPeer}]
    /\ receiver \in [Client -> {"start", "loop", "init", "flag"}]
    /\ heard \in [Client -> Client \cup {NoPeer}]
    /\ out \in [Client -> [id : Id, secret : SUBSET (Client \cup {NoPeer})]]
    /\ texts \in Id
    /\ shown \in [Client -> Seq(Id)]
    /\ missed \subseteq Id /\ confirmed \subseteq Id /\ published \subseteq Id

\* Whoever finds sharedKeyComputed set may use cipherContext without a nil
\* check, as the main loop does (client.go:243-249): each of the two
\* goroutines that may set the flag has set the context before.
FlagMeansContext == \A c \in Client : computed[c] => ctx[c] # NoPeer

\* As long as nobody has left, two clients that have a context have it with
\* each other, though each took "the first other key" it saw by one of two
\* ways (client.go:162-179, 313-329).
PairAgrees ==
    ~departed => \A c, d \in Client : ctx[c] = d => ctx[d] \in {NoPeer, c}

\* A client shows texts of others only, each once and in the order they
\* were typed.
InOrder ==
    \A c \in Client :
        /\ \A i, j \in DOMAIN shown[c] : i < j => shown[c][i] < shown[c][j]
        /\ \A i \in DOMAIN queue[c] : queue[c][i].from # c

\* As long as nobody has left, a text published to a client that has the
\* right context is not lost by it, though the flag may not be set yet and
\* the other goroutine may be about to make the context anew
\* (client.go:339-351).
ReadyLosesNothing == ~departed => missed = {}

\* The inductive invariant.  What a goroutine is about to use is there, and
\* only a client that has subscribed is sent anything.
Goroutines ==
    \A c \in Client :
        /\ poller[c] = "init" => answer[c] # NoPeer
        /\ receiver[c] = "init" => heard[c] # NoPeer
        /\ computed[c] \/ poller[c] = "flag" \/ receiver[c] = "flag" => ctx[c] # NoPeer
        /\ ctx[c] # NoPeer \/ receiver[c] # "start" => Runs(c)
        /\ receiver[c] = "start" => c \notin bound /\ queue[c] = <<>>

\* Until somebody leaves, the two members are all a client can hear of.
Together ==
    ~departed =>
        /\ Cardinality(members) <= 2
        /\ keys \subseteq members
        /\ \A c \in Client :
              /\ stage[c] \in {"joined", "keySet", "running"} => c \in members
              /\ {ctx[c], answer[c], heard[c]} \subseteq (members \ {c}) \cup {NoPeer}
              /\ \A i \in DOMAIN queue[c] : queue[c][i].from \in members \ {c}

\* A text stays readable for a client that was ready for it.
StillReadable ==
    ~departed =>
        \A c \in Client : \A i \in DOMAIN queue[c] :
            queue[c][i].kind = "message" /\ c \in queue[c][i].ready
                => ctx[c] # NoPeer /\ Secret(c) = queue[c][i].secret

Inv == TypeOK /\ Goroutines /\ Together /\ StillReadable /\ ReadyLosesNothing

\* A running client gets a context once another member's key is in the room,
\* even if the publication of that key was missed or never happened.
KeysMeet ==
    \A c, d \in Client : c # d =>
        (Runs(c) /\ open /\ d \in keys
            ~> computed[c] \/ ~Runs(c) \/ ~open \/ d \notin keys)

\* A text that is on its way to a client is read by it, or the client or the
\* channel is gone.
QueuesDrain ==
    \A c \in Client : queue[c] # <<>> ~> queue[c] = <<>>

\* client.go:264 reports a text as sent when SendMessage has published it.
SentWasPublished == confirmed \subseteq published

\* client.go:242-246: the client waits for its context before it encrypts.
NoNilContext == \A c \in Client : stage[c] # "panicked"
=============================================================================
