------------------------ MODULE TerminalClientProofs ------------------------
(***************************************************************************)
(* Proofs about TerminalClient, for any finite set of clients and any      *)
(* number of texts.                                                        *)
(***************************************************************************)
EXTENDS TerminalClient, FiniteSetTheorems, SequenceTheorems, TLAPS

-----------------------------------------------------------------------------
(* What the helpers do to the queues and to the clients.                   *)

\* Every message of queue[c] was there before.
Kept(c) == \A i \in DOMAIN queue'[c] : \E j \in DOMAIN queue[c] : queue'[c][i] = queue[c][j]

\* A published message is the only new one, and only for bound clients other
\* than its sender.
LEMMA BroadcastFacts ==
    ASSUME TypeOK, NEW m \in Message, Broadcast(m)
    PROVE  /\ queue' \in [Client -> Seq(Message)]
           /\ \A c \in Client :
                 /\ c \notin bound \/ c = m.from => queue'[c] = queue[c]
                 /\ \A i \in DOMAIN queue'[c] :
                       \/ c # m.from /\ c \in bound /\ queue'[c][i] = m
                       \/ \E j \in DOMAIN queue[c] : queue'[c][i] = queue[c][j]
<1>1. queue \in [Client -> Seq(Message)]
    BY DEF TypeOK
<1>2. queue' = [d \in Client |->
                 IF d \in bound /\ d # m.from THEN Append(queue[d], m) ELSE queue[d]]
    BY DEF Broadcast
<1>3. ASSUME NEW c \in Client
      PROVE  /\ queue'[c] \in Seq(Message)
             /\ c \notin bound \/ c = m.from => queue'[c] = queue[c]
             /\ \A i \in DOMAIN queue'[c] :
                   \/ c # m.from /\ c \in bound /\ queue'[c][i] = m
                   \/ \E j \in DOMAIN queue[c] : queue'[c][i] = queue[c][j]
  <2>1. CASE c \in bound /\ c # m.from
    <3>1. queue'[c] = Append(queue[c], m) /\ queue[c] \in Seq(Message)
        BY <1>1, <1>2, <1>3, <2>1
    <3>2. /\ queue'[c] \in Seq(Message)
          /\ Len(queue'[c]) = Len(queue[c]) + 1
          /\ \A i \in 1..Len(queue[c]) : queue'[c][i] = queue[c][i]
          /\ queue'[c][Len(queue[c]) + 1] = m
        BY <3>1, AppendProperties
    <3>3. DOMAIN queue'[c] = 1..(Len(queue[c]) + 1) /\ DOMAIN queue[c] = 1..Len(queue[c])
        BY <3>1, <3>2, LenProperties
    <3> QED
        BY <2>1, <3>1, <3>2, <3>3, LenProperties
  <2>2. CASE ~(c \in bound /\ c # m.from)
      BY <1>1, <1>2, <1>3, <2>2
  <2> QED
      BY <2>1, <2>2
<1> QED
    BY <1>2, <1>3

\* When the channel closes, some messages are lost and none is new.
LEMMA ChannelDiesFacts ==
    ASSUME TypeOK, ChannelDies
    PROVE  /\ channel' = FALSE /\ bound' = {}
           /\ queue' \in [Client -> Seq(Message)]
           /\ \A c \in Client : Kept(c) /\ (queue[c] = <<>> => queue'[c] = <<>>)
<1>1. PICK n \in [Client -> 0..(MaxTexts + Cardinality(Client))] :
         /\ \A c \in Client : n[c] <= Len(queue[c])
         /\ queue' = [c \in Client |-> SubSeq(queue[c], 1, n[c])]
    BY DEF ChannelDies
<1>2. ASSUME NEW c \in Client
      PROVE  /\ queue'[c] \in Seq(Message)
             /\ Kept(c) /\ (queue[c] = <<>> => queue'[c] = <<>>)
  <2>1. queue[c] \in Seq(Message) /\ queue'[c] = SubSeq(queue[c], 1, n[c])
      BY <1>1, <1>2 DEF TypeOK
  <2>2. Cardinality(Client) \in Nat
      BY ClientsFinite, FS_CardinalityType
  <2>3. n[c] \in 0..(MaxTexts + Cardinality(Client)) /\ n[c] <= Len(queue[c])
      BY <1>1, <1>2
  <2>4. n[c] \in Nat /\ n[c] <= Len(queue[c])
      BY <2>2, <2>3, MaxTextsType
  <2>5. Len(queue[c]) \in Nat /\ DOMAIN queue[c] = 1..Len(queue[c])
      BY <2>1, LenProperties
  <2>6. /\ queue'[c] \in Seq(Message)
        /\ Len(queue'[c]) = n[c]
        /\ \A i \in 1..n[c] : queue'[c][i] = queue[c][i]
      BY <2>1, <2>4, <2>5, SubSeqProperties
  <2>7. DOMAIN queue'[c] = 1..n[c]
      BY <2>6, LenProperties
  <2>9. Kept(c)
      BY <2>4, <2>5, <2>6, <2>7 DEF Kept
  <2>10. queue[c] = <<>> => queue'[c] = <<>>
    <3> SUFFICES ASSUME queue[c] = <<>> PROVE queue'[c] = <<>>
        OBVIOUS
    <3>1. n[c] = 0
        BY <2>4
    <3> QED
        BY <2>6, <3>1, EmptySeq
  <2> QED
      BY <2>6, <2>9, <2>10
<1> QED
    BY <1>1, <1>2 DEF ChannelDies

\* Reading the first message of a queue.
LEMMA ConsumeFacts ==
    ASSUME TypeOK, NEW c \in Client, NEW kind, HasNext(c, kind), Consume(c)
    PROVE  /\ queue' \in [Client -> Seq(Message)]
           /\ \A d \in Client : Kept(d)
           /\ \A d \in Client \ {c} : queue'[d] = queue[d]
           /\ 1 \in DOMAIN queue[c] /\ Head(queue[c]) = queue[c][1]
           /\ Head(queue[c]) \in Message
<1>1. queue[c] \in Seq(Message) /\ queue[c] # <<>>
    BY DEF TypeOK, HasNext
<1>2. /\ Tail(queue[c]) \in Seq(Message)
      /\ Len(Tail(queue[c])) = Len(queue[c]) - 1
      /\ \A i \in 1..Len(Tail(queue[c])) : Tail(queue[c])[i] = queue[c][i + 1]
      /\ Head(queue[c]) = queue[c][1]
    BY <1>1, HeadTailProperties
<1>3. /\ DOMAIN queue[c] = 1..Len(queue[c]) /\ Len(queue[c]) \in Nat
      /\ DOMAIN Tail(queue[c]) = 1..Len(Tail(queue[c]))
    BY <1>1, <1>2, LenProperties
<1>4. Len(queue[c]) > 0
    BY <1>1, EmptySeq
<1>5. queue' = [queue EXCEPT ![c] = Tail(queue[c])]
    BY DEF Consume
<1>6. 1 \in DOMAIN queue[c]
    BY <1>3, <1>4
<1>7. Head(queue[c]) \in Message
    BY <1>1, <1>2, <1>3, <1>4, ElementOfSeq
<1>8. queue'[c] = Tail(queue[c]) /\ \A d \in Client \ {c} : queue'[d] = queue[d]
    BY <1>5 DEF TypeOK
<1>9. Kept(c)
    BY <1>2, <1>3, <1>8 DEF Kept
<1>10. queue' \in [Client -> Seq(Message)]
    BY <1>2, <1>5 DEF TypeOK
<1>11. \A d \in Client : Kept(d)
    BY <1>8, <1>9 DEF Kept
<1> QED
    BY <1>2, <1>6, <1>7, <1>8, <1>10, <1>11

\* The clients that end, and those that go on.
LEMMA EndsFacts ==
    ASSUME TypeOK, NEW S \in SUBSET Client, NEW how \in {"gone", "panicked"}, Ends(S, how)
    PROVE  /\ stage' \in [Client -> {"new", "joined", "keySet", "running", "panicked", "gone"}]
           /\ ctx' \in [Client -> Client \cup {NoPeer}]
           /\ computed' \in [Client -> BOOLEAN]
           /\ poller' \in [Client -> {"ask", "call", "init", "flag", "done"}]
           /\ answer' \in [Client -> Client \cup {NoPeer}]
           /\ receiver' \in [Client -> {"start", "loop", "init", "flag"}]
           /\ heard' \in [Client -> Client \cup {NoPeer}]
           /\ out' \in [Client -> [id : Id, secret : SUBSET (Client \cup {NoPeer})]]
           /\ \A c \in S : /\ stage'[c] = how /\ ctx'[c] = NoPeer /\ ~computed'[c]
                           /\ poller'[c] = "done" /\ receiver'[c] = "start"
                           /\ answer'[c] = NoPeer /\ heard'[c] = NoPeer
           /\ \A c \in Client \ S :
                 /\ stage'[c] = stage[c] /\ ctx'[c] = ctx[c] /\ (computed'[c] => computed[c])
                 /\ poller'[c] = poller[c] /\ receiver'[c] = receiver[c]
                 /\ answer'[c] = answer[c] /\ heard'[c] = heard[c]
<1>1. NoText \in [id : Id, secret : SUBSET (Client \cup {NoPeer})]
    BY MaxTextsType DEF NoText, Id
<1>2. /\ stage' = [c \in Client |-> IF c \in S THEN how ELSE stage[c]]
      /\ ctx' = [c \in Client |-> IF c \in S THEN NoPeer ELSE ctx[c]]
      /\ poller' = [c \in Client |-> IF c \in S THEN "done" ELSE poller[c]]
      /\ answer' = [c \in Client |-> IF c \in S THEN NoPeer ELSE answer[c]]
      /\ receiver' = [c \in Client |-> IF c \in S THEN "start" ELSE receiver[c]]
      /\ heard' = [c \in Client |-> IF c \in S THEN NoPeer ELSE heard[c]]
      /\ out' = [c \in Client |-> IF c \in S THEN NoText ELSE out[c]]
      /\ computed' = [c \in Client |-> c \notin S /\ computed[c]]
    BY DEF Ends
<1>3. computed' \in [Client -> BOOLEAN]
    BY <1>2
<1>4. \A c \in Client : computed'[c] = (c \notin S /\ computed[c])
    BY <1>2
<1>5. \A c \in S : ~computed'[c]
    BY <1>4, Zenon
<1>6. \A c \in Client \ S : computed'[c] => computed[c]
    BY <1>4, Zenon
<1>7. /\ stage' \in [Client -> {"new", "joined", "keySet", "running", "panicked", "gone"}]
      /\ ctx' \in [Client -> Client \cup {NoPeer}]
      /\ poller' \in [Client -> {"ask", "call", "init", "flag", "done"}]
      /\ answer' \in [Client -> Client \cup {NoPeer}]
      /\ receiver' \in [Client -> {"start", "loop", "init", "flag"}]
      /\ heard' \in [Client -> Client \cup {NoPeer}]
    BY <1>2 DEF TypeOK
<1>8. out' \in [Client -> [id : Id, secret : SUBSET (Client \cup {NoPeer})]]
    BY <1>1, <1>2 DEF TypeOK
<1> QED
    BY <1>2, <1>3, <1>5, <1>6, <1>7, <1>8
-----------------------------------------------------------------------------
(* Type correctness.                                                       *)

Step(c) == Start(c) \/ Poll(c) \/ Listen(c) \/ Prompt(c)

\* A published key is a message.
LEMMA KeyMessageType ==
    ASSUME NEW c \in Client
    PROVE  KeyMessage(c) \in Message /\ KeyMessage(c).from = c
           /\ KeyMessage(c).kind = "public_key"
BY MaxTextsType DEF KeyMessage, Message, Id

\* A published text is a message.
LEMMA TextMessageType ==
    ASSUME TypeOK, NEW c \in Client
    PROVE  /\ TextMessage(c) \in Message /\ TextMessage(c).from = c
           /\ TextMessage(c).ready = {d \in Client : Ready(d, out[c].secret)}
           /\ TextMessage(c).secret = out[c].secret
<1>1. out[c] \in [id : Id, secret : SUBSET (Client \cup {NoPeer})]
    BY DEF TypeOK
<1> QED
    BY <1>1 DEF TextMessage, Message

\* Emptying a queue brings nothing new.
LEMMA EmptiedKept ==
    ASSUME TypeOK, NEW c \in Client, queue' = [queue EXCEPT ![c] = <<>>]
    PROVE  \A d \in Client : Kept(d)
<1>1. DOMAIN queue'[c] = {}
    BY DEF TypeOK
<1>2. \A d \in Client \ {c} : queue'[d] = queue[d]
    BY DEF TypeOK
<1> QED
    BY <1>1, <1>2 DEF Kept

\* A client at its prompt, or one that ends, leaves its queue behind.
LEMMA UnsubscribedFacts ==
    ASSUME TypeOK, NEW c \in Client, Unsubscribed(c)
    PROVE  /\ bound' = bound \ {c}
           /\ queue' \in [Client -> Seq(Message)]
           /\ queue'[c] = <<>>
           /\ \A d \in Client : d # c => queue'[d] = queue[d]
           /\ \A d \in Client : Kept(d)
<1>1. <<>> \in Seq(Message)
    BY EmptySeq
<1> QED
    BY <1>1, EmptiedKept DEF TypeOK, Unsubscribed

\* No text being sent is a value out can have.
LEMMA NoTextType == NoText \in [id : Id, secret : SUBSET (Client \cup {NoPeer})]
BY MaxTextsType DEF NoText, Id

\* A step keeps the types.
LEMMA TypeStep ==
    ASSUME TypeOK, NEW c \in Client, Step(c)
    PROVE  TypeOK'
<1>1. CASE JoinRoom(c)
    BY <1>1 DEF TypeOK, JoinRoom, room, amqp, cipher, loops, seen
<1>2. CASE RegisterKey(c)
  <2>1. stage' \in [Client -> {"new", "joined", "keySet", "running", "panicked", "gone"}]
    <3>1. stage' = [stage EXCEPT ![c] = "keySet"] \/ stage' = [stage EXCEPT ![c] = "running"]
        BY <1>2 DEF RegisterKey
    <3> QED
        BY <3>1 DEF TypeOK
  <2>2. keys' \subseteq Client
      BY <1>2 DEF TypeOK, RegisterKey
  <2> QED
      BY <1>2, <2>1, <2>2 DEF TypeOK, RegisterKey, room, amqp, cipher, loops, seen
<1>3. CASE PublishKey(c)
  <2>1. queue' \in [Client -> Seq(Message)] /\ bound' \subseteq Client /\ channel' \in BOOLEAN
      BY <1>3, BroadcastFacts, ChannelDiesFacts, KeyMessageType DEF TypeOK, PublishKey, amqp
  <2> QED
      BY <1>3, <2>1 DEF TypeOK, PublishKey, room, amqp, cipher, loops, seen
<1>4. CASE PublishKeyFails(c)
  <2>1. Ends({c}, "gone")
      BY <1>4 DEF PublishKeyFails
  <2>2. queue' \in [Client -> Seq(Message)]
      BY <1>4 DEF TypeOK, PublishKeyFails, amqp
  <2>3. bound' \subseteq Client /\ members' \subseteq Client /\ keys' \subseteq Client
        /\ {open', exchange', channel', departed'} \subseteq BOOLEAN
      BY <1>4 DEF TypeOK, PublishKeyFails, amqp, room
  <2>4. texts' = texts /\ UNCHANGED seen
      BY <1>4 DEF PublishKeyFails
  <2> QED
      BY <2>1, <2>2, <2>3, <2>4, EndsFacts DEF TypeOK, seen
<1>5. CASE ServerPanics(c)
  <2>1. Ends(Client, "gone")
      BY <1>5 DEF ServerPanics
  <2>2. queue' \in [Client -> Seq(Message)]
      BY <1>5, EmptySeq DEF TypeOK, ServerPanics, amqp
  <2>3. bound' \subseteq Client /\ members' \subseteq Client /\ keys' \subseteq Client
        /\ {open', exchange', channel', departed'} \subseteq BOOLEAN
      BY <1>5, EmptySeq DEF TypeOK, ServerPanics, amqp, room
  <2>4. texts' = texts /\ UNCHANGED seen
      BY <1>5 DEF ServerPanics
  <2> QED
      BY <2>1, <2>2, <2>3, <2>4, EndsFacts DEF TypeOK, seen
<1>6. CASE PollKeys(c)
    BY <1>6 DEF TypeOK, PollKeys, room, amqp, cipher, loops, seen
<1>7. CASE PollAsks(c)
    BY <1>7 DEF TypeOK, PollAsks, room, amqp, cipher, loops, seen
<1>8. CASE PollNothing(c)
    BY <1>8 DEF TypeOK, PollNothing, room, amqp, cipher, loops, seen
<1>9. CASE PollStops(c)
    BY <1>9 DEF TypeOK, PollStops, room, amqp, cipher, loops, seen
<1>10. CASE PollInit(c)
    BY <1>10 DEF TypeOK, PollInit, room, amqp, cipher, loops, seen
<1>11. CASE PollFlag(c)
    BY <1>11 DEF TypeOK, PollFlag, room, amqp, cipher, loops, seen
<1>12. CASE Subscribe(c)
    BY <1>12 DEF TypeOK, Subscribe, room, amqp, cipher, loops, seen
<1>13. CASE SubscribeFails(c)
  <2>1. Ends({c}, "gone")
      BY <1>13 DEF SubscribeFails
  <2>2. queue' \in [Client -> Seq(Message)]
      BY <1>13, ChannelDiesFacts DEF TypeOK, SubscribeFails, amqp
  <2>3. bound' \subseteq Client /\ members' \subseteq Client /\ keys' \subseteq Client
        /\ {open', exchange', channel', departed'} \subseteq BOOLEAN
      BY <1>13, ChannelDiesFacts DEF TypeOK, SubscribeFails, amqp, room
  <2>4. texts' = texts /\ UNCHANGED seen
      BY <1>13 DEF SubscribeFails
  <2> QED
      BY <2>1, <2>2, <2>3, <2>4, EndsFacts DEF TypeOK, seen
<1>14. CASE ReceiveKey(c)
  <2>1. queue' \in [Client -> Seq(Message)] /\ Head(queue[c]) \in Message
      BY <1>14, ConsumeFacts DEF ReceiveKey
  <2>2. Head(queue[c]).from \in Client
      BY <2>1 DEF Message
  <2> QED
      BY <1>14, <2>1, <2>2 DEF TypeOK, ReceiveKey, room, amqp, cipher, loops, seen
<1>15. CASE ReceiveInit(c)
    BY <1>15 DEF TypeOK, ReceiveInit, room, amqp, cipher, loops, seen
<1>16. CASE ReceiveFlag(c)
    BY <1>16 DEF TypeOK, ReceiveFlag, room, amqp, cipher, loops, seen
<1>17. CASE ReceiveText(c)
  <2>1. queue' \in [Client -> Seq(Message)] /\ Head(queue[c]) \in Message
      BY <1>17, ConsumeFacts DEF ReceiveText
  <2>2. shown' \in [Client -> Seq(Id)]
    <3>1. CASE shown' = [shown EXCEPT ![c] = Append(@, Head(queue[c]).id)]
      <4>1. Head(queue[c]).id \in Id
          BY <2>1 DEF Message
      <4> QED
          BY <3>1, <4>1, AppendProperties DEF TypeOK
    <3>2. CASE shown' = shown
        BY <3>2 DEF TypeOK
    <3> QED
        BY <1>17, <3>1, <3>2 DEF ReceiveText
  <2>3. missed' \subseteq Id
      BY <1>17, <2>1 DEF TypeOK, ReceiveText, Message
  <2> QED
      BY <1>17, <2>1, <2>2, <2>3 DEF TypeOK, ReceiveText, room, amqp, cipher, loops, seen
<1>18. CASE SendText(c)
  <2>1. texts + 1 \in Id /\ Secret(c) \subseteq Client \cup {NoPeer}
      BY <1>18, MaxTextsType DEF TypeOK, SendText, Id, Secret
  <2>2. [id |-> texts + 1, secret |-> Secret(c)]
          \in [id : Id, secret : SUBSET (Client \cup {NoPeer})]
      BY <2>1
  <2>3. out' \in [Client -> [id : Id, secret : SUBSET (Client \cup {NoPeer})]]
      BY <1>18, <2>2 DEF TypeOK, SendText
  <2>4. texts' \in Id /\ confirmed' \subseteq Id
      BY <1>18, <2>1 DEF TypeOK, SendText
  <2> QED
      BY <1>18, <2>3, <2>4 DEF TypeOK, SendText, room, amqp, cipher, loops, seen
<1>19. CASE PublishText(c)
  <2>1. queue' \in [Client -> Seq(Message)] /\ bound' \subseteq Client /\ channel' \in BOOLEAN
      BY <1>19, BroadcastFacts, ChannelDiesFacts, TextMessageType DEF TypeOK, PublishText, amqp
  <2>2. out[c].id \in Id
      BY <1>19 DEF TypeOK, PublishText
  <2>3. out' \in [Client -> [id : Id, secret : SUBSET (Client \cup {NoPeer})]]
      BY <1>19, NoTextType DEF TypeOK, PublishText
  <2>4. published' \subseteq Id /\ confirmed' \subseteq Id
      BY <1>19, <2>2 DEF TypeOK, PublishText
  <2> QED
      BY <1>19, <2>1, <2>3, <2>4 DEF TypeOK, PublishText, room, cipher, loops
<1>20. CASE SendFileEarly(c)
  <2>1. Ends({c}, "panicked")
      BY <1>20 DEF SendFileEarly
  <2>2. queue' \in [Client -> Seq(Message)]
      BY <1>20, UnsubscribedFacts DEF TypeOK, SendFileEarly, amqp
  <2>3. bound' \subseteq Client /\ members' \subseteq Client /\ keys' \subseteq Client
        /\ {open', exchange', channel', departed'} \subseteq BOOLEAN
      BY <1>20, UnsubscribedFacts DEF TypeOK, SendFileEarly, amqp, room
  <2>4. texts' = texts /\ UNCHANGED seen
      BY <1>20 DEF SendFileEarly
  <2> QED
      BY <2>1, <2>2, <2>3, <2>4, EndsFacts DEF TypeOK, seen
<1>21. CASE Exit(c)
  <2>1. Ends({c}, "gone")
      BY <1>21 DEF Exit
  <2>2. queue' \in [Client -> Seq(Message)]
      BY <1>21, UnsubscribedFacts DEF TypeOK, Exit, amqp
  <2>3. bound' \subseteq Client /\ members' \subseteq Client /\ keys' \subseteq Client
        /\ {open', exchange', channel', departed'} \subseteq BOOLEAN
      BY <1>21, UnsubscribedFacts DEF TypeOK, Exit, amqp, room
  <2>4. texts' = texts /\ UNCHANGED seen
      BY <1>21 DEF Exit
  <2> QED
      BY <2>1, <2>2, <2>3, <2>4, EndsFacts DEF TypeOK, seen
<1>22. CASE Close(c)
  <2>1. Ends({c}, "gone")
      BY <1>22 DEF Close
  <2>2. queue' \in [Client -> Seq(Message)]
    <3>1. <<>> \in Seq(Message)
        BY EmptySeq
    <3>2. [queue EXCEPT ![c] = <<>>] \in [Client -> Seq(Message)]
        BY <3>1 DEF TypeOK
    <3> QED
        BY <1>22, <3>2 DEF Close, Unsubscribed
  <2>3. bound' \subseteq Client /\ members' \subseteq Client /\ keys' \subseteq Client
        /\ {open', exchange', channel', departed'} \subseteq BOOLEAN
      BY <1>22, UnsubscribedFacts, EmptySeq DEF TypeOK, Close, amqp, room
  <2>4. texts' = texts /\ UNCHANGED seen
      BY <1>22 DEF Close
  <2> QED
      BY <2>1, <2>2, <2>3, <2>4, EndsFacts DEF TypeOK, seen
<1>23. CASE Kill(c)
  <2>1. Ends({c}, "gone")
      BY <1>23 DEF Kill
  <2>2. queue' \in [Client -> Seq(Message)]
      BY <1>23, UnsubscribedFacts DEF TypeOK, Kill, amqp
  <2>3. bound' \subseteq Client /\ members' \subseteq Client /\ keys' \subseteq Client
        /\ {open', exchange', channel', departed'} \subseteq BOOLEAN
      BY <1>23, UnsubscribedFacts DEF TypeOK, Kill, amqp, room
  <2>4. texts' = texts /\ UNCHANGED seen
      BY <1>23 DEF Kill
  <2> QED
      BY <2>1, <2>2, <2>3, <2>4, EndsFacts DEF TypeOK, seen
<1> QED
    BY <1>1, <1>2, <1>3, <1>4, <1>5, <1>6, <1>7, <1>8, <1>9, <1>10, <1>11, <1>12, <1>13, <1>14,
       <1>15, <1>16, <1>17, <1>18, <1>19, <1>20, <1>21, <1>22, <1>23 DEF Step, Start, Poll,
       Listen, Prompt

\* Clients that end keep their queues empty, and the others go on.
LEMMA EndsGoroutines ==
    ASSUME TypeOK, Goroutines, NEW S \in SUBSET Client,
           NEW how \in {"gone", "panicked"}, Ends(S, how),
           bound' \subseteq bound,
           \A d \in S : d \notin bound' /\ queue'[d] = <<>>,
           \A d \in Client \ S : queue[d] = <<>> => queue'[d] = <<>>
    PROVE  Goroutines'
<1> SUFFICES ASSUME NEW d \in Client
             PROVE  (/\ poller[d] = "init" => answer[d] # NoPeer
                     /\ receiver[d] = "init" => heard[d] # NoPeer
                     /\ computed[d] \/ poller[d] = "flag" \/ receiver[d] = "flag" => ctx[d] # NoPeer
                     /\ ctx[d] # NoPeer \/ receiver[d] # "start" => Runs(d)
                     /\ receiver[d] = "start" => d \notin bound /\ queue[d] = <<>>)'
    BY DEF Goroutines
<1>1. CASE d \in S
  <2>1. /\ ctx'[d] = NoPeer /\ ~computed'[d] /\ poller'[d] = "done"
        /\ receiver'[d] = "start"
      BY <1>1, EndsFacts
  <2> QED
      BY <1>1, <2>1
<1>2. CASE d \notin S
  <2>1. /\ stage'[d] = stage[d] /\ ctx'[d] = ctx[d] /\ (computed'[d] => computed[d])
        /\ poller'[d] = poller[d] /\ receiver'[d] = receiver[d]
        /\ answer'[d] = answer[d] /\ heard'[d] = heard[d]
      BY <1>2, EndsFacts
  <2> QED
      BY <1>2, <2>1 DEF Goroutines, Runs
<1> QED
    BY <1>1, <1>2

\* A step keeps what a goroutine has to use, and the queues of those that
\* have not subscribed empty.
LEMMA GoroutinesStep ==
    ASSUME TypeOK, Goroutines, NEW c \in Client, Step(c)
    PROVE  Goroutines'
<1>1. CASE JoinRoom(c)
    BY <1>1, NoPeerDistinct DEF TypeOK, Goroutines, JoinRoom, room, amqp, cipher, loops, seen,
       Runs
<1>2. CASE RegisterKey(c)
    BY <1>2, NoPeerDistinct DEF TypeOK, Goroutines, RegisterKey, room, amqp, cipher, loops, seen,
       Runs
<1>3. CASE PublishKey(c)
  <2>1. /\ bound' \subseteq bound
        /\ \A d \in Client : d \notin bound /\ queue[d] = <<>> => queue'[d] = <<>>
      BY <1>3, BroadcastFacts, ChannelDiesFacts, KeyMessageType DEF PublishKey, amqp
  <2> QED
      BY <1>3, <2>1 DEF TypeOK, Goroutines, PublishKey, room, cipher, loops, seen, Runs
<1>4. CASE PublishKeyFails(c)
  <2>1. Ends({c}, "gone")
      BY <1>4 DEF PublishKeyFails
  <2>2. bound' = bound /\ queue' = queue /\ ~Runs(c)
      BY <1>4 DEF PublishKeyFails, amqp, Runs
  <2> QED
      BY <2>1, <2>2, EndsGoroutines DEF Goroutines, Runs
<1>5. CASE ServerPanics(c)
  <2>1. Ends(Client, "gone")
      BY <1>5 DEF ServerPanics
  <2>2. bound' = {} /\ \A d \in Client : queue'[d] = <<>>
      BY <1>5 DEF ServerPanics
  <2> QED
      BY <2>1, <2>2, EndsGoroutines DEF Goroutines, Runs
<1>6. CASE PollKeys(c)
    BY <1>6, NoPeerDistinct DEF TypeOK, Goroutines, PollKeys, room, amqp, cipher, loops, seen,
       Runs
<1>7. CASE PollAsks(c)
    BY <1>7, NoPeerDistinct DEF TypeOK, Goroutines, PollAsks, room, amqp, cipher, loops, seen,
       Runs
<1>8. CASE PollNothing(c)
    BY <1>8, NoPeerDistinct DEF TypeOK, Goroutines, PollNothing, room, amqp, cipher, loops,
       seen, Runs
<1>9. CASE PollStops(c)
    BY <1>9, NoPeerDistinct DEF TypeOK, Goroutines, PollStops, room, amqp, cipher, loops, seen,
       Runs
<1>10. CASE PollInit(c)
    BY <1>10, NoPeerDistinct DEF TypeOK, Goroutines, PollInit, room, amqp, cipher, loops, seen,
       Runs
<1>11. CASE PollFlag(c)
    BY <1>11, NoPeerDistinct DEF TypeOK, Goroutines, PollFlag, room, amqp, cipher, loops, seen,
       Runs
<1>12. CASE Subscribe(c)
    BY <1>12, NoPeerDistinct DEF TypeOK, Goroutines, Subscribe, room, amqp, cipher, loops, seen,
       Runs
<1>13. CASE SubscribeFails(c)
  <2>1. Ends({c}, "gone")
      BY <1>13 DEF SubscribeFails
  <2>2. /\ bound' \subseteq bound /\ receiver[c] = "start"
        /\ \A d \in Client : queue[d] = <<>> => queue'[d] = <<>>
      BY <1>13, ChannelDiesFacts DEF SubscribeFails, amqp
  <2> QED
      BY <2>1, <2>2, EndsGoroutines DEF Goroutines, Runs
<1>14. CASE ReceiveKey(c)
  <2>1. receiver[c] = "loop" /\ \A d \in Client \ {c} : queue'[d] = queue[d]
      BY <1>14, ConsumeFacts DEF ReceiveKey, HasNext
  <2>2. Head(queue[c]) \in Message
      BY <1>14, ConsumeFacts DEF ReceiveKey
  <2>3. Head(queue[c]).from # NoPeer
      BY <2>2, NoPeerDistinct DEF Message
  <2> QED
      BY <1>14, <2>1, <2>3 DEF TypeOK, Goroutines, ReceiveKey, cipher, loops, Runs
<1>15. CASE ReceiveInit(c)
    BY <1>15, NoPeerDistinct DEF TypeOK, Goroutines, ReceiveInit, room, amqp, cipher, loops,
       seen, Runs
<1>16. CASE ReceiveFlag(c)
    BY <1>16, NoPeerDistinct DEF TypeOK, Goroutines, ReceiveFlag, room, amqp, cipher, loops,
       seen, Runs
<1>17. CASE ReceiveText(c)
  <2>1. receiver[c] = "loop" /\ \A d \in Client \ {c} : queue'[d] = queue[d]
      BY <1>17, ConsumeFacts DEF ReceiveText, HasNext
  <2>2. Head(queue[c]) \in Message
      BY <1>17, ConsumeFacts DEF ReceiveText
  <2>3. Head(queue[c]).from # NoPeer
      BY <2>2, NoPeerDistinct DEF Message
  <2> QED
      BY <1>17, <2>1, <2>3 DEF TypeOK, Goroutines, ReceiveText, cipher, loops, Runs
<1>18. CASE SendText(c)
    BY <1>18, NoPeerDistinct DEF TypeOK, Goroutines, SendText, room, amqp, cipher, loops, seen,
       Runs
<1>19. CASE PublishText(c)
  <2>1. /\ bound' \subseteq bound
        /\ \A d \in Client : d \notin bound /\ queue[d] = <<>> => queue'[d] = <<>>
      BY <1>19, BroadcastFacts, ChannelDiesFacts, TextMessageType DEF PublishText, amqp
  <2> QED
      BY <1>19, <2>1 DEF TypeOK, Goroutines, PublishText, room, cipher, loops, Runs
<1>20. CASE SendFileEarly(c)
  <2>1. Ends({c}, "panicked")
      BY <1>20 DEF SendFileEarly
  <2>2. /\ bound' = bound \ {c} /\ queue'[c] = <<>>
        /\ \A d \in Client : d # c => queue'[d] = queue[d]
      BY <1>20, UnsubscribedFacts DEF SendFileEarly
  <2> QED
      BY <2>1, <2>2, EndsGoroutines DEF Goroutines, Runs
<1>21. CASE Exit(c)
  <2>1. Ends({c}, "gone")
      BY <1>21 DEF Exit
  <2>2. /\ bound' = bound \ {c} /\ queue'[c] = <<>>
        /\ \A d \in Client : d # c => queue'[d] = queue[d]
      BY <1>21, UnsubscribedFacts DEF Exit
  <2> QED
      BY <2>1, <2>2, EndsGoroutines DEF Goroutines, Runs
<1>22. CASE Close(c)
  <2>1. Ends({c}, "gone")
      BY <1>22 DEF Close
  <2>2. /\ bound' \subseteq bound /\ c \notin bound' /\ queue'[c] = <<>>
        /\ \A d \in Client : d # c => queue'[d] = queue[d]
      BY <1>22 DEF Close, Unsubscribed, TypeOK
  <2> QED
      BY <2>1, <2>2, EndsGoroutines DEF Goroutines, Runs
<1>23. CASE Kill(c)
  <2>1. Ends({c}, "gone")
      BY <1>23 DEF Kill
  <2>2. /\ bound' = bound \ {c} /\ queue'[c] = <<>>
        /\ \A d \in Client : d # c => queue'[d] = queue[d]
      BY <1>23, UnsubscribedFacts DEF Kill
  <2> QED
      BY <2>1, <2>2, EndsGoroutines DEF Goroutines, Runs
<1> QED
    BY <1>1, <1>2, <1>3, <1>4, <1>5, <1>6, <1>7, <1>8, <1>9, <1>10, <1>11, <1>12, <1>13, <1>14,
       <1>15, <1>16, <1>17, <1>18, <1>19, <1>20, <1>21, <1>22, <1>23 DEF Step, Start, Poll,
       Listen, Prompt

\* A client that ends drops its peers, and nobody else gets new ones.
LEMMA EndsTogether ==
    ASSUME TypeOK, Together, ~departed, NEW c \in Client,
           NEW how \in {"gone", "panicked"}, Ends({c}, how),
           members' = members, keys' = keys, \A d \in Client : Kept(d)
    PROVE  Together'
<1>1. ASSUME NEW d \in Client
      PROVE  /\ stage'[d] \in {"joined", "keySet", "running"} => d \in members
             /\ {ctx'[d], answer'[d], heard'[d]} \subseteq (members \ {d}) \cup {NoPeer}
    BY <1>1, EndsFacts DEF Together
<1>2. \A d \in Client : \A i \in DOMAIN queue'[d] : queue'[d][i].from \in members \ {d}
    BY DEF Kept, Together
<1> QED
    BY <1>1, <1>2 DEF Together

\* A step keeps the two members together, until one of them leaves.
LEMMA TogetherStep ==
    ASSUME TypeOK, Together, NEW c \in Client, Step(c)
    PROVE  Together'
<1> SUFFICES ASSUME ~departed' PROVE Together'
    BY DEF Together
<1>1. CASE JoinRoom(c)
  <2>1. /\ members' = members \cup {c} /\ keys' = keys /\ queue' = queue
        /\ ctx' = ctx /\ answer' = answer /\ heard' = heard
        /\ stage' = [stage EXCEPT ![c] = "joined"] /\ departed' = departed
      BY <1>1 DEF JoinRoom, amqp, cipher, loops
  <2>2. IsFiniteSet(members) /\ Cardinality(members) \in Nat /\ Cardinality(members) < 2
      BY <1>1, ClientsFinite, FS_Subset, FS_CardinalityType DEF JoinRoom, TypeOK
  <2>3. Cardinality(members') <= 2
      BY <2>1, <2>2, FS_AddElement
  <2> QED
      BY <2>1, <2>3 DEF Together, TypeOK
<1>2. CASE RegisterKey(c)
    BY <1>2 DEF TypeOK, Together, RegisterKey, room, amqp, cipher, loops, Runs
<1>3. CASE PublishKey(c)
  <2>1. ~departed /\ c \in members
      BY <1>3 DEF PublishKey, Together, Runs
  <2>2. KeyMessage(c) \in Message /\ KeyMessage(c).from = c
      BY KeyMessageType
  <2>3. \A d \in Client : \A i \in DOMAIN queue'[d] :
          \/ d # c /\ queue'[d][i] = KeyMessage(c)
          \/ \E j \in DOMAIN queue[d] : queue'[d][i] = queue[d][j]
    <3>1. CASE Broadcast(KeyMessage(c))
        BY <2>2, <3>1, BroadcastFacts
    <3>2. CASE ChannelDies
        BY <3>2, ChannelDiesFacts DEF Kept
    <3>3. CASE queue' = queue
        BY <3>3
    <3> QED
        BY <1>3, <3>1, <3>2, <3>3 DEF PublishKey, amqp
  <2>4. \A d \in Client : \A i \in DOMAIN queue'[d] : queue'[d][i].from \in members \ {d}
      BY <2>1, <2>2, <2>3 DEF Together
  <2>5. /\ UNCHANGED <<members, keys, ctx, answer, heard>>
        /\ \A d \in Client : stage'[d] \in {"joined", "keySet", "running"} => d \in members
      BY <1>3, <2>1 DEF PublishKey, room, cipher, loops, TypeOK, Together
  <2> QED
      BY <2>1, <2>4, <2>5 DEF Together
<1>4. CASE PublishKeyFails(c)
  <2>1. Ends({c}, "gone") /\ ~departed
      BY <1>4 DEF PublishKeyFails, TypeOK
  <2>2. \A d \in Client : Kept(d)
      BY <1>4 DEF PublishKeyFails, Kept, amqp
  <2>3. members' = members /\ keys' = keys
      BY <1>4 DEF PublishKeyFails, room
  <2> QED
      BY <2>1, <2>2, <2>3, EndsTogether
<1>5. CASE ServerPanics(c)
  <2>1. /\ Ends(Client, "gone") /\ members' = {} /\ keys' = {}
        /\ queue' = [d \in Client |-> <<>>]
      BY <1>5 DEF ServerPanics
  <2>2. Cardinality(members') = 0
      BY <2>1, FS_EmptySet
  <2>3. \A d \in Client : DOMAIN queue'[d] = {}
      BY <2>1
  <2> QED
      BY <2>1, <2>2, <2>3, EndsFacts DEF Together
<1>6. CASE PollKeys(c)
    BY <1>6 DEF TypeOK, Together, PollKeys, room, amqp, cipher, loops, Runs
<1>7. CASE PollAsks(c)
    BY <1>7 DEF TypeOK, Together, PollAsks, room, amqp, cipher, loops, Runs
<1>8. CASE PollNothing(c)
    BY <1>8 DEF TypeOK, Together, PollNothing, room, amqp, cipher, loops, Runs
<1>9. CASE PollStops(c)
    BY <1>9 DEF TypeOK, Together, PollStops, room, amqp, cipher, loops, Runs
<1>10. CASE PollInit(c)
    BY <1>10 DEF TypeOK, Together, PollInit, room, amqp, cipher, loops, Runs
<1>11. CASE PollFlag(c)
    BY <1>11 DEF TypeOK, Together, PollFlag, room, amqp, cipher, loops, Runs
<1>12. CASE Subscribe(c)
    BY <1>12 DEF TypeOK, Together, Subscribe, room, amqp, cipher, loops, Runs
<1>13. CASE SubscribeFails(c)
  <2>1. Ends({c}, "gone") /\ ~departed
      BY <1>13 DEF SubscribeFails, TypeOK
  <2>2. \A d \in Client : Kept(d)
      BY <1>13, ChannelDiesFacts DEF SubscribeFails, Kept, amqp
  <2>3. members' = members /\ keys' = keys
      BY <1>13 DEF SubscribeFails, room
  <2> QED
      BY <2>1, <2>2, <2>3, EndsTogether
<1>14. CASE ReceiveKey(c)
  <2>1. ~departed /\ UNCHANGED <<members, keys, ctx, answer, stage>>
      BY <1>14 DEF ReceiveKey, room, cipher, loops
  <2>2. \A d \in Client : Kept(d)
      BY <1>14, ConsumeFacts DEF ReceiveKey
  <2>3. Head(queue[c]).from \in members \ {c}
      BY <1>14, <2>1, ConsumeFacts DEF ReceiveKey, Together
  <2>4. \A d \in Client : heard'[d] \in (members \ {d}) \cup {NoPeer}
    <3>1. heard' = heard \/ heard' = [heard EXCEPT ![c] = Head(queue[c]).from]
        BY <1>14 DEF ReceiveKey, loops
    <3>2. \A d \in Client : heard[d] \in (members \ {d}) \cup {NoPeer}
        BY <2>1 DEF Together
    <3>3. heard \in [Client -> Client \cup {NoPeer}]
        BY DEF TypeOK
    <3> QED
        BY <2>3, <3>1, <3>2, <3>3
  <2>5. \A d \in Client : \A i \in DOMAIN queue'[d] : queue'[d][i].from \in members \ {d}
      BY <2>1, <2>2 DEF Kept, Together
  <2> QED
      BY <2>1, <2>4, <2>5 DEF Together
<1>15. CASE ReceiveInit(c)
    BY <1>15 DEF TypeOK, Together, ReceiveInit, room, amqp, cipher, loops, Runs
<1>16. CASE ReceiveFlag(c)
    BY <1>16 DEF TypeOK, Together, ReceiveFlag, room, amqp, cipher, loops, Runs
<1>17. CASE ReceiveText(c)
  <2>1. ~departed /\ UNCHANGED <<members, keys, ctx, answer, stage>>
      BY <1>17 DEF ReceiveText, room, cipher, loops
  <2>2. \A d \in Client : Kept(d)
      BY <1>17, ConsumeFacts DEF ReceiveText
  <2>3. Head(queue[c]).from \in members \ {c}
      BY <1>17, <2>1, ConsumeFacts DEF ReceiveText, Together
  <2>4. \A d \in Client : heard'[d] \in (members \ {d}) \cup {NoPeer}
    <3>1. heard' = heard \/ heard' = [heard EXCEPT ![c] = Head(queue[c]).from]
        BY <1>17 DEF ReceiveText, loops
    <3>2. \A d \in Client : heard[d] \in (members \ {d}) \cup {NoPeer}
        BY <2>1 DEF Together
    <3>3. heard \in [Client -> Client \cup {NoPeer}]
        BY DEF TypeOK
    <3> QED
        BY <2>3, <3>1, <3>2, <3>3
  <2>5. \A d \in Client : \A i \in DOMAIN queue'[d] : queue'[d][i].from \in members \ {d}
      BY <2>1, <2>2 DEF Kept, Together
  <2> QED
      BY <2>1, <2>4, <2>5 DEF Together
<1>18. CASE SendText(c)
    BY <1>18 DEF TypeOK, Together, SendText, room, amqp, cipher, loops, Runs
<1>19. CASE PublishText(c)
  <2>1. ~departed /\ c \in members
      BY <1>19 DEF PublishText, Together, Runs
  <2>2. TextMessage(c) \in Message /\ TextMessage(c).from = c
      BY TextMessageType
  <2>3. \A d \in Client : \A i \in DOMAIN queue'[d] :
          \/ d # c /\ queue'[d][i] = TextMessage(c)
          \/ \E j \in DOMAIN queue[d] : queue'[d][i] = queue[d][j]
    <3>1. CASE Broadcast(TextMessage(c))
        BY <2>2, <3>1, BroadcastFacts
    <3>2. CASE ChannelDies
        BY <3>2, ChannelDiesFacts DEF Kept
    <3>3. CASE queue' = queue
        BY <3>3
    <3> QED
        BY <1>19, <3>1, <3>2, <3>3 DEF PublishText, amqp
  <2>4. \A d \in Client : \A i \in DOMAIN queue'[d] : queue'[d][i].from \in members \ {d}
      BY <2>1, <2>2, <2>3 DEF Together
  <2>5. /\ UNCHANGED <<members, keys, ctx, answer, heard>>
        /\ \A d \in Client : stage'[d] \in {"joined", "keySet", "running"} => d \in members
      BY <1>19, <2>1 DEF PublishText, room, cipher, loops, Runs, TypeOK, Together
  <2> QED
      BY <2>1, <2>4, <2>5 DEF Together
<1>20. CASE SendFileEarly(c)
  <2>1. Ends({c}, "panicked") /\ ~departed
      BY <1>20 DEF SendFileEarly, TypeOK
  <2>2. \A d \in Client : Kept(d)
      BY <1>20, UnsubscribedFacts DEF SendFileEarly, TypeOK
  <2>3. members' = members /\ keys' = keys
      BY <1>20 DEF SendFileEarly, room
  <2> QED
      BY <2>1, <2>2, <2>3, EndsTogether
<1>21. CASE Exit(c)
  <2>1. Ends({c}, "gone") /\ ~departed
      BY <1>21 DEF Exit, TypeOK
  <2>2. \A d \in Client : Kept(d)
      BY <1>21, UnsubscribedFacts DEF Exit, TypeOK
  <2>3. members' = members /\ keys' = keys
      BY <1>21 DEF Exit, room
  <2> QED
      BY <2>1, <2>2, <2>3, EndsTogether
<1>22. CASE Close(c)
  <2>1. Ends({c}, "gone") /\ ~departed
      BY <1>22 DEF Close, TypeOK
  <2>2. \A d \in Client : Kept(d)
      BY <1>22, UnsubscribedFacts, EmptiedKept DEF Close, TypeOK
  <2>3. members' = members /\ keys' = keys
      BY <1>22 DEF Close, room
  <2> QED
      BY <2>1, <2>2, <2>3, EndsTogether
<1>23. CASE Kill(c)
  <2>1. Ends({c}, "gone") /\ ~departed
      BY <1>23 DEF Kill, TypeOK
  <2>2. \A d \in Client : Kept(d)
      BY <1>23, UnsubscribedFacts DEF Kill, TypeOK
  <2>3. members' = members /\ keys' = keys
      BY <1>23 DEF Kill, room
  <2> QED
      BY <2>1, <2>2, <2>3, EndsTogether
<1> QED
    BY <1>1, <1>2, <1>3, <1>4, <1>5, <1>6, <1>7, <1>8, <1>9, <1>10, <1>11, <1>12, <1>13, <1>14,
       <1>15, <1>16, <1>17, <1>18, <1>19, <1>20, <1>21, <1>22, <1>23 DEF Step, Start, Poll,
       Listen, Prompt

-----------------------------------------------------------------------------
(* Two members agree on their secret, and no ready client loses a text.    *)

\* Of two members each has one other.
LEMMA OnePeer ==
    ASSUME TypeOK, Together, ~departed, NEW c \in members,
           NEW a \in members \ {c}, NEW b \in members \ {c}
    PROVE  a = b
<1>1. IsFiniteSet(members) /\ Cardinality(members) \in Nat /\ Cardinality(members) <= 2
    BY ClientsFinite, FS_Subset, FS_CardinalityType DEF TypeOK, Together
<1> SUFFICES ASSUME a # b PROVE FALSE
    OBVIOUS
<1>2. IsFiniteSet({c}) /\ Cardinality({c}) = 1
    BY FS_Singleton
<1>3. IsFiniteSet({c} \cup {a}) /\ Cardinality({c} \cup {a}) = 2
    BY <1>2, FS_AddElement
<1>4. Cardinality({c} \cup {a} \cup {b}) = 3
    BY <1>3, FS_AddElement
<1>5. Cardinality({c} \cup {a} \cup {b}) <= Cardinality(members)
    BY <1>1, FS_Subset
<1> QED
    BY <1>1, <1>4, <1>5

\* Contexts come from the other of the two members, so they agree.
LEMMA AgreeFromTogether == TypeOK /\ Goroutines /\ Together => PairAgrees
<1> SUFFICES ASSUME TypeOK, Goroutines, Together, ~departed,
                    NEW c \in Client, NEW d \in Client, ctx[c] = d, ctx[d] # NoPeer
             PROVE  ctx[d] = c
    BY DEF PairAgrees
<1>1. d # NoPeer
    BY NoPeerDistinct
<1>2. c \in members /\ d \in members /\ c # d /\ ctx[d] \in members \ {d}
    BY <1>1 DEF Together, Goroutines, Runs
<1> QED
    BY <1>2, OnePeer

\* As long as nobody leaves, a context is made anew only for the same peer.
LEMMA ContextStays ==
    ASSUME TypeOK, Goroutines, Together, NEW c \in Client, Step(c), ~departed
    PROVE  \A d \in Client : \/ ctx[d] # NoPeer => ctx'[d] = ctx[d]
                              \/ queue'[d] = <<>>
<1>1. CASE JoinRoom(c)
    BY <1>1 DEF JoinRoom, cipher
<1>2. CASE RegisterKey(c)
    BY <1>2 DEF RegisterKey, cipher
<1>3. CASE PublishKey(c)
    BY <1>3 DEF PublishKey, cipher
<1>4. CASE PublishKeyFails(c)
  <2>1. Ends({c}, "gone")
      BY <1>4 DEF PublishKeyFails
  <2>2. queue'[c] = <<>>
      BY <1>4 DEF PublishKeyFails, Goroutines, Runs, amqp
  <2> QED
      BY <2>1, <2>2, EndsFacts
<1>5. CASE ServerPanics(c)
    BY <1>5 DEF ServerPanics
<1>6. CASE PollKeys(c)
    BY <1>6 DEF PollKeys, cipher
<1>7. CASE PollAsks(c)
    BY <1>7 DEF PollAsks, cipher
<1>8. CASE PollNothing(c)
    BY <1>8 DEF PollNothing, cipher
<1>9. CASE PollStops(c)
    BY <1>9 DEF PollStops, cipher
<1>10. CASE PollInit(c)
  <2>1. /\ c \in members /\ answer[c] # NoPeer
        /\ ctx' = [ctx EXCEPT ![c] = answer[c]]
        /\ {ctx[c], answer[c]} \subseteq (members \ {c}) \cup {NoPeer}
      BY <1>10 DEF PollInit, Goroutines, Together, Runs
  <2>2. ctx[c] # NoPeer => answer[c] = ctx[c]
      BY <2>1, OnePeer
  <2> QED
      BY <2>1, <2>2 DEF TypeOK
<1>11. CASE PollFlag(c)
    BY <1>11 DEF PollFlag, cipher
<1>12. CASE Subscribe(c)
    BY <1>12 DEF Subscribe, cipher
<1>13. CASE SubscribeFails(c)
  <2>1. Ends({c}, "gone")
      BY <1>13 DEF SubscribeFails
  <2>2. queue'[c] = <<>>
      BY <1>13, ChannelDiesFacts DEF SubscribeFails, Goroutines, amqp
  <2> QED
      BY <2>1, <2>2, EndsFacts
<1>14. CASE ReceiveKey(c)
    BY <1>14 DEF ReceiveKey, cipher
<1>15. CASE ReceiveInit(c)
  <2>1. /\ c \in members /\ heard[c] # NoPeer
        /\ ctx' = [ctx EXCEPT ![c] = heard[c]]
        /\ {ctx[c], heard[c]} \subseteq (members \ {c}) \cup {NoPeer}
      BY <1>15 DEF ReceiveInit, Goroutines, Together, Runs
  <2>2. ctx[c] # NoPeer => heard[c] = ctx[c]
      BY <2>1, OnePeer
  <2> QED
      BY <2>1, <2>2 DEF TypeOK
<1>16. CASE ReceiveFlag(c)
    BY <1>16 DEF ReceiveFlag, cipher
<1>17. CASE ReceiveText(c)
    BY <1>17 DEF ReceiveText, cipher
<1>18. CASE SendText(c)
    BY <1>18 DEF SendText, cipher
<1>19. CASE PublishText(c)
    BY <1>19 DEF PublishText, cipher
<1>20. CASE SendFileEarly(c)
  <2>1. Ends({c}, "panicked")
      BY <1>20 DEF SendFileEarly
  <2>2. queue'[c] = <<>>
      BY <1>20, UnsubscribedFacts DEF SendFileEarly
  <2> QED
      BY <2>1, <2>2, EndsFacts
<1>21. CASE Exit(c)
  <2>1. Ends({c}, "gone")
      BY <1>21 DEF Exit
  <2>2. queue'[c] = <<>>
      BY <1>21, UnsubscribedFacts DEF Exit
  <2> QED
      BY <2>1, <2>2, EndsFacts
<1>22. CASE Close(c)
  <2>1. Ends({c}, "gone")
      BY <1>22 DEF Close
  <2>2. queue'[c] = <<>>
      BY <1>22, UnsubscribedFacts DEF Close, Unsubscribed, TypeOK
  <2> QED
      BY <2>1, <2>2, EndsFacts
<1>23. CASE Kill(c)
  <2>1. Ends({c}, "gone")
      BY <1>23 DEF Kill
  <2>2. queue'[c] = <<>>
      BY <1>23, UnsubscribedFacts DEF Kill
  <2> QED
      BY <2>1, <2>2, EndsFacts
<1> QED
    BY <1>1, <1>2, <1>3, <1>4, <1>5, <1>6, <1>7, <1>8, <1>9, <1>10, <1>11, <1>12, <1>13, <1>14,
       <1>15, <1>16, <1>17, <1>18, <1>19, <1>20, <1>21, <1>22, <1>23 DEF Step, Start, Poll,
       Listen, Prompt

\* What is in a queue after a step was there before, or is a public key, or
\* the text just published.
LEMMA NewMessages ==
    ASSUME TypeOK, NEW c \in Client, Step(c)
    PROVE  \A d \in Client : \A i \in DOMAIN queue'[d] :
              \/ \E j \in DOMAIN queue[d] : queue'[d][i] = queue[d][j]
              \/ queue'[d][i].kind = "public_key"
              \/ PublishText(c) /\ queue'[d][i] = TextMessage(c)
<1>1. CASE JoinRoom(c)
    BY <1>1 DEF JoinRoom, amqp
<1>2. CASE RegisterKey(c)
    BY <1>2 DEF RegisterKey, amqp
<1>3. CASE PublishKey(c)
  <2>1. CASE Broadcast(KeyMessage(c))
      BY <1>3, <2>1, BroadcastFacts, KeyMessageType DEF PublishKey
  <2>2. CASE ChannelDies
      BY <2>2, ChannelDiesFacts DEF Kept
  <2>3. CASE queue' = queue
      BY <2>3
  <2> QED
      BY <1>3, <2>1, <2>2, <2>3 DEF PublishKey, amqp
<1>4. CASE PublishKeyFails(c)
    BY <1>4 DEF PublishKeyFails, amqp
<1>5. CASE ServerPanics(c)
    BY <1>5 DEF ServerPanics
<1>6. CASE PollKeys(c)
    BY <1>6 DEF PollKeys, amqp
<1>7. CASE PollAsks(c)
    BY <1>7 DEF PollAsks, amqp
<1>8. CASE PollNothing(c)
    BY <1>8 DEF PollNothing, amqp
<1>9. CASE PollStops(c)
    BY <1>9 DEF PollStops, amqp
<1>10. CASE PollInit(c)
    BY <1>10 DEF PollInit, amqp
<1>11. CASE PollFlag(c)
    BY <1>11 DEF PollFlag, amqp
<1>12. CASE Subscribe(c)
    BY <1>12 DEF Subscribe, amqp
<1>13. CASE SubscribeFails(c)
    BY <1>13, ChannelDiesFacts DEF SubscribeFails, Kept, amqp
<1>14. CASE ReceiveKey(c)
    BY <1>14, ConsumeFacts DEF ReceiveKey, Kept
<1>15. CASE ReceiveInit(c)
    BY <1>15 DEF ReceiveInit, amqp
<1>16. CASE ReceiveFlag(c)
    BY <1>16 DEF ReceiveFlag, amqp
<1>17. CASE ReceiveText(c)
    BY <1>17, ConsumeFacts DEF ReceiveText, Kept
<1>18. CASE SendText(c)
    BY <1>18 DEF SendText, amqp
<1>19. CASE PublishText(c)
  <2>1. CASE Broadcast(TextMessage(c))
      BY <1>19, <2>1, BroadcastFacts, TextMessageType DEF PublishText
  <2>2. CASE ChannelDies
      BY <2>2, ChannelDiesFacts DEF Kept
  <2>3. CASE queue' = queue
      BY <2>3
  <2> QED
      BY <1>19, <2>1, <2>2, <2>3 DEF PublishText, amqp
<1>20. CASE SendFileEarly(c)
    BY <1>20, UnsubscribedFacts DEF SendFileEarly, Kept
<1>21. CASE Exit(c)
    BY <1>21, UnsubscribedFacts DEF Exit, Kept
<1>22. CASE Close(c)
    BY <1>22, EmptiedKept, UnsubscribedFacts DEF Close, Kept
<1>23. CASE Kill(c)
    BY <1>23, UnsubscribedFacts DEF Kill, Kept
<1> QED
    BY <1>1, <1>2, <1>3, <1>4, <1>5, <1>6, <1>7, <1>8, <1>9, <1>10, <1>11, <1>12, <1>13, <1>14,
       <1>15, <1>16, <1>17, <1>18, <1>19, <1>20, <1>21, <1>22, <1>23 DEF Step, Start, Poll,
       Listen, Prompt

\* Once somebody has left, somebody has left.
LEMMA DepartedStays ==
    ASSUME TypeOK, NEW c \in Client, Step(c), ~departed'
    PROVE  ~departed
BY DEF Step, Start, Poll, Listen, Prompt, JoinRoom, RegisterKey, PublishKey, PublishKeyFails,
   ServerPanics, PollAsks, PollKeys, PollNothing, PollStops, PollInit, PollFlag, Subscribe,
   SubscribeFails, ReceiveKey, ReceiveInit, ReceiveFlag, ReceiveText, SendText, PublishText,
   SendFileEarly, Exit, Close, Kill

\* A step leaves the texts in the queues readable.
LEMMA ReadableStep ==
    ASSUME TypeOK, Goroutines, Together, StillReadable, NEW c \in Client, Step(c)
    PROVE  StillReadable'
<1> SUFFICES ASSUME ~departed', NEW d \in Client, NEW i \in DOMAIN queue'[d],
                    queue'[d][i].kind = "message", d \in queue'[d][i].ready
             PROVE  ctx'[d] # NoPeer /\ {d, ctx'[d]} = queue'[d][i].secret
    BY DEF StillReadable, Secret
<1>1. ~departed
    BY DepartedStays
<1>2. ctx[d] # NoPeer => ctx'[d] = ctx[d]
    BY <1>1, ContextStays
<1>3. CASE \E j \in DOMAIN queue[d] : queue'[d][i] = queue[d][j]
    BY <1>1, <1>2, <1>3 DEF StillReadable, Secret
<1>4. CASE PublishText(c) /\ queue'[d][i] = TextMessage(c)
  <2>1. ctx[d] # NoPeer /\ Secret(d) = queue'[d][i].secret
      BY <1>4, TextMessageType DEF Ready
  <2> QED
      BY <1>2, <2>1 DEF Secret
<1> QED
    BY <1>3, <1>4, NewMessages

\* A step loses no text of a ready client.
LEMMA MissedStep ==
    ASSUME TypeOK, StillReadable, ReadyLosesNothing, NEW c \in Client, Step(c)
    PROVE  ReadyLosesNothing'
<1> SUFFICES ASSUME ~departed' PROVE missed' = {}
    BY DEF ReadyLosesNothing
<1>1. ~departed /\ missed = {}
    BY DepartedStays DEF ReadyLosesNothing
<1>2. CASE ReceiveText(c)
  <2>1. c \in Head(queue[c]).ready => ctx[c] # NoPeer /\ Secret(c) = Head(queue[c]).secret
      BY <1>1, <1>2, ConsumeFacts DEF ReceiveText, HasNext, StillReadable
  <2> QED
      BY <1>1, <1>2, <2>1 DEF ReceiveText
<1>3. CASE ~ReceiveText(c)
    BY <1>1, <1>3 DEF Step, Start, Poll, Listen, Prompt, seen, JoinRoom, RegisterKey,
       PublishKey, PublishKeyFails, ServerPanics, PollAsks, PollKeys, PollNothing, PollStops,
       PollInit, PollFlag, Subscribe, SubscribeFails, ReceiveKey, ReceiveInit, ReceiveFlag,
       SendText, PublishText, SendFileEarly, Exit, Close, Kill
<1> QED
    BY <1>2, <1>3

-----------------------------------------------------------------------------
(* The theorems.                                                           *)

\* Before anybody has joined the invariant holds.
LEMMA InvInit == Init => Inv
<1> SUFFICES ASSUME Init PROVE Inv
    OBVIOUS
<1>1. <<>> \in Seq(Message) /\ <<>> \in Seq(Id) /\ Cardinality({}) = 0
    BY EmptySeq, FS_EmptySet
<1>2. TypeOK
  <2>1. queue \in [Client -> Seq(Message)] /\ shown \in [Client -> Seq(Id)]
      BY <1>1 DEF Init
  <2>2. /\ out \in [Client -> [id : Id, secret : SUBSET (Client \cup {NoPeer})]]
        /\ texts \in Id
      BY NoTextType, MaxTextsType DEF Init, Id
  <2>3. computed \in [Client -> BOOLEAN] /\ {open, exchange, channel, departed} \subseteq BOOLEAN
      BY DEF Init
  <2> QED
      BY <2>1, <2>2, <2>3 DEF Init, TypeOK
<1>3. Goroutines
    BY DEF Init, Goroutines
<1>4. Together
    BY <1>1 DEF Init, Together
<1>5. StillReadable /\ ReadyLosesNothing
    BY DEF Init, StillReadable, ReadyLosesNothing
<1> QED
    BY <1>2, <1>3, <1>4, <1>5 DEF Inv

\* Every step, or none, keeps the invariant.
LEMMA InvNext == Inv /\ [Next]_vars => Inv'
<1> SUFFICES ASSUME Inv, [Next]_vars PROVE Inv'
    OBVIOUS
<1>1. ASSUME NEW c \in Client, Step(c)
      PROVE  Inv'
    BY <1>1, TypeStep, GoroutinesStep, TogetherStep, ReadableStep, MissedStep DEF Inv
<1>2. CASE UNCHANGED vars
    BY <1>2 DEF Inv, TypeOK, Goroutines, Together, StillReadable, ReadyLosesNothing,
       vars, room, amqp, cipher, loops, seen, Runs, Secret
<1> QED
    BY <1>1, <1>2 DEF Next, Step

\* The inductive invariant of the clients.
THEOREM Invariant == Spec => []Inv
<1> QED
    BY InvInit, InvNext, PTL DEF Spec

\* The main loop never uses a cipher context that is not there: whichever of
\* the two goroutines set the flag, it had set the context before.
THEOREM FlagImpliesContext == Spec => []FlagMeansContext
<1>1. Inv => FlagMeansContext
    BY DEF Inv, Goroutines, FlagMeansContext
<1> QED
    BY <1>1, Invariant, PTL

\* Two clients that have a context have it with each other, until somebody
\* leaves the room.
THEOREM SecretsAgree == Spec => []PairAgrees
<1>1. Inv => PairAgrees
    BY AgreeFromTogether DEF Inv
<1> QED
    BY <1>1, Invariant, PTL

\* Until somebody leaves the room, no text is lost by a client that was ready
\* for it when it was published.
THEOREM NothingLost == Spec => []ReadyLosesNothing
<1>1. Inv => ReadyLosesNothing
    BY DEF Inv
<1> QED
    BY <1>1, Invariant, PTL

-----------------------------------------------------------------------------
(* Texts are shown in the order they were typed.                           *)

\* Whoever is at work has one of the room's two places, even after others
\* left, and only a running client has a text on its way.
TwoPlaces ==
    /\ Cardinality(members) <= 2
    /\ \A c \in Client : /\ stage[c] \in {"joined", "keySet", "running"} => c \in members
                         /\ out[c] # NoText => Runs(c)

IsText(m) == m.kind = "message"

\* What a client was shown comes before what is queued for it, which comes
\* before what another client is about to publish, which is not yet numbered
\* like the next text.
OrderedAt(c) ==
    /\ \A i, j \in DOMAIN shown[c] : i < j => shown[c][i] < shown[c][j]
    /\ \A i, j \in DOMAIN queue[c] :
          i < j /\ IsText(queue[c][i]) /\ IsText(queue[c][j])
              => queue[c][i].id < queue[c][j].id
    /\ \A i \in DOMAIN shown[c], j \in DOMAIN queue[c] :
          IsText(queue[c][j]) => shown[c][i] < queue[c][j].id
    /\ \A i \in DOMAIN queue[c] : queue[c][i].from # c
    /\ \A d \in Client \ {c} : out[d] # NoText =>
          /\ \A i \in DOMAIN shown[c] : shown[c][i] < out[d].id
          /\ \A i \in DOMAIN queue[c] : IsText(queue[c][i]) => queue[c][i].id < out[d].id
    /\ \A i \in DOMAIN shown[c] : shown[c][i] <= texts
    /\ \A i \in DOMAIN queue[c] : queue[c][i].id <= texts
    /\ out[c].id <= texts

Ordered == \A c \in Client : OrderedAt(c)

\* The clients that end have no text on its way.
LEMMA EndsOut ==
    ASSUME TypeOK, NEW S \in SUBSET Client, NEW how, Ends(S, how)
    PROVE  \A c \in Client : out'[c] = IF c \in S THEN NoText ELSE out[c]
BY DEF Ends

\* Places, texts on their way and what was shown, step by step.
LEMMA PlacesStep ==
    ASSUME TypeOK, TwoPlaces, NEW c \in Client, Step(c)
    PROVE  TwoPlaces'
<1>1. CASE JoinRoom(c)
  <2>1. /\ members' = members \cup {c} /\ out' = out
        /\ stage' = [stage EXCEPT ![c] = "joined"] /\ stage[c] = "new"
      BY <1>1 DEF JoinRoom
  <2>2. IsFiniteSet(members) /\ Cardinality(members) \in Nat /\ Cardinality(members) < 2
      BY <1>1, ClientsFinite, FS_Subset, FS_CardinalityType DEF JoinRoom, TypeOK
  <2>3. Cardinality(members \cup {c}) = IF c \in members THEN Cardinality(members)
                                      ELSE Cardinality(members) + 1
      BY <2>2, FS_AddElement
  <2>4. Cardinality(members') <= 2
      BY <2>1, <2>2, <2>3
  <2> QED
      BY <2>1, <2>4 DEF TwoPlaces, TypeOK, Runs
<1>2. CASE RegisterKey(c) \/ PublishKey(c)
  <2>1. /\ members' = members /\ out' = out /\ stage[c] \in {"joined", "keySet"}
        /\ \/ stage' = [stage EXCEPT ![c] = "keySet"]
           \/ stage' = [stage EXCEPT ![c] = "running"]
      BY <1>2 DEF RegisterKey, PublishKey, room
  <2> QED
      BY <2>1 DEF TwoPlaces, TypeOK, Runs
<1>3. CASE \E how \in {"gone", "panicked"} : Ends({c}, how) /\ members' \in {members, members \ {c}}
  <2>1. PICK how \in {"gone", "panicked"} :
           Ends({c}, how) /\ members' \in {members, members \ {c}}
      BY <1>3
  <2>2. /\ \A d \in Client : out'[d] = IF d = c THEN NoText ELSE out[d]
        /\ stage'[c] = how /\ \A d \in Client \ {c} : stage'[d] = stage[d]
    <3>1. \A d \in Client : out'[d] = IF d \in {c} THEN NoText ELSE out[d]
        BY <2>1, EndsOut
    <3>2. stage' = [d \in Client |-> IF d \in {c} THEN how ELSE stage[d]]
        BY <2>1 DEF Ends
    <3> QED
        BY <3>1, <3>2
  <2>3. IsFiniteSet(members) /\ Cardinality(members) \in Nat
      BY ClientsFinite, FS_Subset, FS_CardinalityType DEF TypeOK
  <2>4. Cardinality(members') <= Cardinality(members) /\ Cardinality(members') \in Nat
    <3>1. members' \subseteq members
        BY <2>1
    <3> QED
        BY <2>3, <3>1, FS_Subset, FS_CardinalityType
  <2>5. Cardinality(members') <= 2
      BY <2>3, <2>4 DEF TwoPlaces
  <2> QED
      BY <2>1, <2>2, <2>5 DEF TwoPlaces, Runs
<1>4. CASE ServerPanics(c)
  <2>1. Ends(Client, "gone") /\ members' = {}
      BY <1>4 DEF ServerPanics
  <2>2. \A d \in Client : out'[d] = NoText /\ stage'[d] = "gone"
      BY <2>1, EndsOut, EndsFacts
  <2> QED
      BY <2>1, <2>2, FS_EmptySet DEF TwoPlaces
<1>5. CASE /\ UNCHANGED <<members, stage>>
           /\ \A d \in Client : out'[d] # NoText => out[d] # NoText \/ Runs(d)
    BY <1>5 DEF TwoPlaces, Runs
<1>6. CASE SendText(c) \/ PublishText(c)
  <2>1. UNCHANGED <<members, stage>> /\ Runs(c)
      BY <1>6 DEF SendText, PublishText, AtPrompt, room
  <2>2. \A d \in Client \ {c} : out'[d] = out[d]
      BY <1>6 DEF SendText, PublishText, TypeOK
  <2> QED
      BY <1>5, <2>1, <2>2
<1>7. CASE PublishKeyFails(c) \/ SubscribeFails(c) \/ SendFileEarly(c) \/ Exit(c)
           \/ Close(c) \/ Kill(c)
    BY <1>3, <1>7 DEF PublishKeyFails, SubscribeFails, SendFileEarly, Exit, Close, Kill, room
<1>8. CASE Poll(c) \/ Subscribe(c) \/ ReceiveKey(c) \/ ReceiveInit(c) \/ ReceiveFlag(c)
           \/ ReceiveText(c)
    BY <1>5, <1>8 DEF Poll, PollAsks, PollKeys, PollNothing, PollStops, PollInit, PollFlag,
       Subscribe, ReceiveKey, ReceiveInit, ReceiveFlag, ReceiveText, room
<1> QED
    BY <1>1, <1>2, <1>4, <1>6, <1>7, <1>8 DEF Step, Start, Listen, Prompt

\* queue'[d] is queue[d] without its head, its tail's end, or all of it.
Cut(d) ==
    \E n \in {0, 1} : \A i \in DOMAIN queue'[d] :
        i + n \in DOMAIN queue[d] /\ queue'[d][i] = queue[d][i + n]

\* queue'[d] is queue[d] and m.
Grown(d, m) ==
    \E n \in Nat : /\ DOMAIN queue[d] = 1..n /\ DOMAIN queue'[d] = 1..(n + 1)
                   /\ \A i \in 1..n : queue'[d][i] = queue[d][i]
                   /\ queue'[d][n + 1] = m

\* A queue that does not change is cut nowhere.
LEMMA UncutQueue ==
    ASSUME TypeOK, NEW d \in Client, queue'[d] = queue[d]
    PROVE  Cut(d)
<1>1. DOMAIN queue[d] = 1..Len(queue[d]) /\ Len(queue[d]) \in Nat
    BY LenProperties DEF TypeOK
<1>2. \A i \in DOMAIN queue'[d] : i + 0 \in DOMAIN queue[d] /\ queue'[d][i] = queue[d][i + 0]
    BY <1>1
<1> QED
    BY <1>2 DEF Cut

\* What is published comes last, at those who are bound.
LEMMA BroadcastGrows ==
    ASSUME TypeOK, NEW m \in Message, Broadcast(m), NEW d \in Client
    PROVE  Cut(d) \/ (Grown(d, m) /\ d \in bound /\ d # m.from)
<1>1. CASE d \in bound /\ d # m.from
  <2>1. queue[d] \in Seq(Message) /\ queue'[d] = Append(queue[d], m)
      BY <1>1 DEF TypeOK, Broadcast
  <2>2. /\ queue'[d] \in Seq(Message)
        /\ Len(queue'[d]) = Len(queue[d]) + 1
        /\ \A i \in 1..Len(queue[d]) : queue'[d][i] = queue[d][i]
        /\ queue'[d][Len(queue[d]) + 1] = m
      BY <2>1, AppendProperties
  <2>3. /\ DOMAIN queue'[d] = 1..(Len(queue[d]) + 1) /\ DOMAIN queue[d] = 1..Len(queue[d])
        /\ Len(queue[d]) \in Nat
      BY <2>1, <2>2, LenProperties
  <2> QED
      BY <1>1, <2>2, <2>3 DEF Grown
<1>2. CASE ~(d \in bound /\ d # m.from)
    BY <1>2, BroadcastFacts, UncutQueue
<1> QED
    BY <1>1, <1>2

\* A channel that dies cuts the ends of queues.
LEMMA ChannelDiesCuts ==
    ASSUME TypeOK, ChannelDies, NEW d \in Client
    PROVE  Cut(d)
<1>1. PICK n \in [Client -> 0..(MaxTexts + Cardinality(Client))] :
         /\ \A c \in Client : n[c] <= Len(queue[c])
         /\ queue' = [c \in Client |-> SubSeq(queue[c], 1, n[c])]
    BY DEF ChannelDies
<1>2. queue[d] \in Seq(Message) /\ queue'[d] = SubSeq(queue[d], 1, n[d])
    BY <1>1 DEF TypeOK
<1>3. Cardinality(Client) \in Nat
    BY ClientsFinite, FS_CardinalityType
<1>4. n[d] \in 0..(MaxTexts + Cardinality(Client)) /\ n[d] <= Len(queue[d])
    BY <1>1
<1>5. n[d] \in Nat
    BY <1>3, <1>4, MaxTextsType
<1>6. Len(queue[d]) \in Nat /\ DOMAIN queue[d] = 1..Len(queue[d])
    BY <1>2, LenProperties
<1>7. /\ queue'[d] \in Seq(Message)
      /\ Len(queue'[d]) = n[d]
      /\ \A i \in 1..n[d] : queue'[d][i] = queue[d][i]
    BY <1>2, <1>4, <1>5, <1>6, SubSeqProperties
<1>8. DOMAIN queue'[d] = 1..n[d]
    BY <1>7, LenProperties
<1>9. \A i \in DOMAIN queue'[d] : i + 0 \in DOMAIN queue[d] /\ queue'[d][i] = queue[d][i + 0]
    BY <1>4, <1>5, <1>6, <1>7, <1>8
<1> QED
    BY <1>9 DEF Cut

\* Reading a message cuts the head off.
LEMMA ConsumeCuts ==
    ASSUME TypeOK, NEW c \in Client, NEW kind, HasNext(c, kind), Consume(c)
    PROVE  /\ \A i \in DOMAIN queue'[c] :
                 i + 1 \in DOMAIN queue[c] /\ i + 1 > 1 /\ queue'[c][i] = queue[c][i + 1]
           /\ \A d \in Client : Cut(d)
<1>1. queue[c] \in Seq(Message) /\ queue[c] # <<>>
    BY DEF TypeOK, HasNext
<1>2. /\ Tail(queue[c]) \in Seq(Message)
      /\ Len(Tail(queue[c])) = Len(queue[c]) - 1
      /\ \A i \in 1..Len(Tail(queue[c])) : Tail(queue[c])[i] = queue[c][i + 1]
    BY <1>1, HeadTailProperties
<1>3. /\ DOMAIN queue[c] = 1..Len(queue[c]) /\ Len(queue[c]) \in Nat
      /\ DOMAIN Tail(queue[c]) = 1..Len(Tail(queue[c]))
    BY <1>1, <1>2, LenProperties
<1>4. queue'[c] = Tail(queue[c]) /\ \A d \in Client \ {c} : queue'[d] = queue[d]
    BY DEF TypeOK, Consume
<1>5. \A i \in DOMAIN queue'[c] :
        i + 1 \in DOMAIN queue[c] /\ i + 1 > 1 /\ queue'[c][i] = queue[c][i + 1]
    BY <1>2, <1>3, <1>4
<1>6. Cut(c)
    BY <1>5 DEF Cut
<1> QED
    BY <1>4, <1>5, <1>6, UncutQueue

\* Emptying a queue cuts it all off.
LEMMA EmptiedCuts ==
    ASSUME TypeOK, NEW c \in Client, queue' = [queue EXCEPT ![c] = <<>>]
    PROVE  \A d \in Client : Cut(d)
<1>1. DOMAIN queue'[c] = {}
    BY DEF TypeOK
<1>2. Cut(c)
    BY <1>1 DEF Cut
<1>3. \A d \in Client \ {c} : queue'[d] = queue[d]
    BY DEF TypeOK
<1> QED
    BY <1>2, <1>3, UncutQueue

\* Queues are cut, or a key or a text is appended to those of other clients.
LEMMA QueuesStep ==
    ASSUME TypeOK, NEW c \in Client, Step(c), NEW d \in Client
    PROVE  \/ Cut(d)
           \/ Grown(d, KeyMessage(c)) /\ d # c
           \/ Grown(d, TextMessage(c)) /\ d # c /\ d \in bound /\ PublishText(c)
<1>1. CASE queue' = queue
    BY <1>1, UncutQueue
<1>2. CASE PublishKey(c)
    BY <1>1, <1>2, BroadcastGrows, ChannelDiesCuts, KeyMessageType DEF PublishKey, amqp
<1>3. CASE PublishText(c)
    BY <1>1, <1>3, BroadcastGrows, ChannelDiesCuts, TextMessageType DEF PublishText, amqp
<1>4. CASE ReceiveKey(c) \/ ReceiveText(c)
    BY <1>4, ConsumeCuts DEF ReceiveKey, ReceiveText
<1>5. CASE SendFileEarly(c) \/ Exit(c) \/ Close(c) \/ Kill(c)
    BY <1>5, EmptiedCuts DEF SendFileEarly, Exit, Close, Kill, Unsubscribed
<1>6. CASE ServerPanics(c)
  <2>1. DOMAIN queue'[d] = {}
      BY <1>6 DEF ServerPanics
  <2> QED
      BY <2>1 DEF Cut
<1>7. CASE SubscribeFails(c)
    BY <1>1, <1>7, ChannelDiesCuts DEF SubscribeFails, amqp
<1>8. CASE JoinRoom(c) \/ RegisterKey(c) \/ PublishKeyFails(c) \/ Poll(c) \/ Subscribe(c)
           \/ ReceiveInit(c) \/ ReceiveFlag(c) \/ SendText(c)
    BY <1>1, <1>8 DEF JoinRoom, RegisterKey, PublishKeyFails, Poll, PollAsks, PollKeys,
       PollNothing, PollStops, PollInit, PollFlag, Subscribe, ReceiveInit, ReceiveFlag,
       SendText, amqp
<1> QED
    BY <1>2, <1>3, <1>4, <1>5, <1>6, <1>7, <1>8 DEF Step, Start, Listen, Prompt

\* Only SendText numbers a text, and only ReceiveText shows one.
LEMMA TextsStep ==
    ASSUME TypeOK, NEW c \in Client, Step(c), ~SendText(c), ~ReceiveText(c)
    PROVE  /\ UNCHANGED <<shown, texts>>
           /\ \A d \in Client : out'[d] \in {out[d], NoText}
           /\ PublishText(c) => out[c] # NoText /\ out'[c] = NoText /\ Runs(c)
<1>1. CASE PublishText(c)
    BY <1>1 DEF PublishText, TypeOK, seen
<1>2. CASE PublishKeyFails(c) \/ SubscribeFails(c) \/ SendFileEarly(c) \/ Exit(c) \/ Close(c)
           \/ Kill(c)
  <2>1. {c} \in SUBSET Client /\ UNCHANGED <<shown, texts>>
      BY <1>2 DEF PublishKeyFails, SubscribeFails, SendFileEarly, Exit, Close, Kill, seen
  <2>2. \E how \in {"gone", "panicked"} : Ends({c}, how)
      BY <1>2 DEF PublishKeyFails, SubscribeFails, SendFileEarly, Exit, Close, Kill
  <2>3. \A d \in Client : out'[d] \in {out[d], NoText}
      BY <2>1, <2>2, EndsOut
  <2>4. ~PublishText(c) \/ (out[c] # NoText /\ out'[c] = NoText /\ Runs(c))
      BY <1>1
  <2> QED
      BY <1>1, <2>1, <2>3
<1>3. CASE ServerPanics(c)
  <2>1. UNCHANGED <<shown, texts>> /\ Ends(Client, "gone")
      BY <1>3 DEF ServerPanics, seen
  <2> QED
      BY <1>1, <2>1, EndsOut
<1>4. CASE JoinRoom(c) \/ RegisterKey(c) \/ PublishKey(c) \/ Poll(c) \/ Subscribe(c)
           \/ ReceiveKey(c) \/ ReceiveInit(c) \/ ReceiveFlag(c)
  <2>1. UNCHANGED <<shown, texts, out>>
      BY <1>4 DEF JoinRoom, RegisterKey, PublishKey, Poll, PollAsks, PollKeys, PollNothing,
         PollStops, PollInit, PollFlag, Subscribe, ReceiveKey, ReceiveInit, ReceiveFlag, seen
  <2> QED
      BY <1>1, <2>1
<1> QED
    BY <1>1, <1>2, <1>3, <1>4 DEF Step, Start, Listen, Prompt

\* No three clients are at work.
LEMMA NoThird ==
    ASSUME TypeOK, TwoPlaces, NEW c \in members, NEW a \in members \ {c},
           NEW b \in members \ {c}
    PROVE  a = b
<1>1. IsFiniteSet(members) /\ Cardinality(members) \in Nat /\ Cardinality(members) <= 2
    BY ClientsFinite, FS_Subset, FS_CardinalityType DEF TypeOK, TwoPlaces
<1> SUFFICES ASSUME a # b PROVE FALSE
    OBVIOUS
<1>2. IsFiniteSet({c}) /\ Cardinality({c}) = 1
    BY FS_Singleton
<1>3. IsFiniteSet({c} \cup {a}) /\ Cardinality({c} \cup {a}) = 2
    BY <1>2, FS_AddElement
<1>4. Cardinality({c} \cup {a} \cup {b}) = 3
    BY <1>3, FS_AddElement
<1>5. Cardinality({c} \cup {a} \cup {b}) <= Cardinality(members)
    BY <1>1, FS_Subset
<1> QED
    BY <1>1, <1>4, <1>5

\* What is shown, queued and on its way has numbers of texts.
LEMMA NumberTypes ==
    ASSUME TypeOK, NEW d \in Client
    PROVE  /\ \A i \in DOMAIN shown[d] : shown[d][i] \in Nat
           /\ \A i \in DOMAIN queue[d] : queue[d][i].id \in Nat
           /\ out[d].id \in Nat /\ texts \in Nat
           /\ DOMAIN shown[d] \subseteq Nat /\ DOMAIN queue[d] \subseteq Nat
<1> USE MaxTextsType DEF Id
<1>1. shown[d] \in Seq(Id) /\ queue[d] \in Seq(Message)
    BY DEF TypeOK
<1>2. /\ DOMAIN shown[d] = 1..Len(shown[d]) /\ DOMAIN queue[d] = 1..Len(queue[d])
      /\ Len(shown[d]) \in Nat /\ Len(queue[d]) \in Nat
    BY <1>1, LenProperties
<1>3. \A i \in DOMAIN shown[d] : shown[d][i] \in Id
    BY <1>1, <1>2, ElementOfSeq
<1>4. \A i \in DOMAIN queue[d] : queue[d][i] \in Message
    BY <1>1, <1>2, ElementOfSeq
<1>5. \A i \in DOMAIN queue[d] : queue[d][i].id \in Id
    BY <1>4 DEF Message
<1>6. out[d].id \in Id /\ texts \in Id
    BY DEF TypeOK
<1> QED
    BY <1>2, <1>3, <1>5, <1>6

\* Nothing comes out of order while nothing is published to the client, shown
\* to it or numbered.
LEMMA CutOrdered ==
    ASSUME TypeOK, TypeOK', NEW d \in Client, OrderedAt(d), Cut(d), UNCHANGED <<shown, texts>>,
           \A e \in Client : out'[e] \in {out[e], NoText}
    PROVE  OrderedAt(d)'
<1>1. PICK n \in {0, 1} : \A i \in DOMAIN queue'[d] :
         i + n \in DOMAIN queue[d] /\ queue'[d][i] = queue[d][i + n]
    BY DEF Cut
<1>2. DOMAIN queue[d] \subseteq Nat /\ out[d].id \in Nat /\ texts \in Nat
    BY NumberTypes
<1>3. DOMAIN queue'[d] \subseteq Nat
  <2>1. queue'[d] \in Seq(Message)
      BY DEF TypeOK
  <2> QED
      BY <2>1, LenProperties
<1>4. ASSUME NEW i \in DOMAIN queue'[d], NEW j \in DOMAIN queue'[d], i < j,
             IsText(queue'[d][i]), IsText(queue'[d][j])
      PROVE  queue'[d][i].id < queue'[d][j].id
  <2>1. i + n \in DOMAIN queue[d] /\ j + n \in DOMAIN queue[d] /\ i + n < j + n
      BY <1>1, <1>3, <1>4
  <2>2. queue'[d][i] = queue[d][i + n] /\ queue'[d][j] = queue[d][j + n]
      BY <1>1
  <2> QED
      BY <1>4, <2>1, <2>2 DEF OrderedAt
<1>5. ASSUME NEW i \in DOMAIN queue'[d]
      PROVE  /\ IsText(queue'[d][i]) => \A k \in DOMAIN shown[d] : shown[d][k] < queue'[d][i].id
             /\ queue'[d][i].from # d
             /\ \A e \in Client \ {d} : out[e] # NoText =>
                   (IsText(queue'[d][i]) => queue'[d][i].id < out[e].id)
             /\ queue'[d][i].id <= texts
    BY <1>1 DEF OrderedAt
<1>6. \A e \in Client \ {d} : out'[e] # NoText =>
        /\ \A i \in DOMAIN shown[d] : shown[d][i] < out'[e].id
        /\ \A i \in DOMAIN queue'[d] : IsText(queue'[d][i]) => queue'[d][i].id < out'[e].id
    BY <1>5 DEF OrderedAt
<1>7. out'[d].id <= texts
    BY <1>2 DEF OrderedAt, NoText
<1> QED
    BY <1>4, <1>5, <1>6, <1>7 DEF OrderedAt, IsText

\* A message that is appended is a key, or comes after all the texts there.
LEMMA GrownOrdered ==
    ASSUME TypeOK, NEW d \in Client, OrderedAt(d), UNCHANGED <<shown, texts>>,
           NEW m, Grown(d, m), m.from # d, m.id \in Nat, m.id <= texts,
           \A e \in Client : out'[e] \in {out[e], NoText},
           IsText(m) => /\ \A i \in DOMAIN shown[d] : shown[d][i] < m.id
                        /\ \A i \in DOMAIN queue[d] : IsText(queue[d][i]) => queue[d][i].id < m.id
                        /\ \A e \in Client \ {d} : out'[e] = NoText
    PROVE  OrderedAt(d)'
<1>1. PICK n \in Nat : /\ DOMAIN queue[d] = 1..n /\ DOMAIN queue'[d] = 1..(n + 1)
                       /\ \A i \in 1..n : queue'[d][i] = queue[d][i]
                       /\ queue'[d][n + 1] = m
    BY DEF Grown
<1>2. out[d].id \in Nat /\ texts \in Nat
    BY NumberTypes
<1>3. ASSUME NEW i \in DOMAIN queue'[d], NEW j \in DOMAIN queue'[d], i < j,
             IsText(queue'[d][i]), IsText(queue'[d][j])
      PROVE  queue'[d][i].id < queue'[d][j].id
  <2>1. i \in DOMAIN queue[d] /\ queue'[d][i] = queue[d][i]
      BY <1>1, <1>3
  <2>2. CASE j = n + 1
      BY <1>1, <1>3, <2>1, <2>2
  <2>3. CASE j # n + 1
    <3>1. j \in DOMAIN queue[d] /\ queue'[d][j] = queue[d][j]
        BY <1>1, <2>3
    <3> QED
        BY <1>3, <2>1, <3>1 DEF OrderedAt
  <2> QED
      BY <2>2, <2>3
<1>4. ASSUME NEW i \in DOMAIN queue'[d]
      PROVE  /\ IsText(queue'[d][i]) => \A k \in DOMAIN shown[d] : shown[d][k] < queue'[d][i].id
             /\ queue'[d][i].from # d
             /\ \A e \in Client \ {d} : out'[e] # NoText =>
                   (IsText(queue'[d][i]) => queue'[d][i].id < out'[e].id)
             /\ queue'[d][i].id <= texts
  <2>1. CASE i = n + 1
      BY <1>1, <2>1
  <2>2. CASE i # n + 1
    <3>1. i \in DOMAIN queue[d] /\ queue'[d][i] = queue[d][i]
        BY <1>1, <2>2
    <3> QED
        BY <3>1 DEF OrderedAt
  <2> QED
      BY <2>1, <2>2
<1>5. \A e \in Client \ {d} : out'[e] # NoText =>
        \A i \in DOMAIN shown[d] : shown[d][i] < out'[e].id
    BY DEF OrderedAt
<1>6. out'[d].id <= texts
    BY <1>2 DEF OrderedAt, NoText
<1> QED
    BY <1>3, <1>4, <1>5, <1>6 DEF OrderedAt, IsText

\* The next text comes after all others.
LEMMA SendOrdered ==
    ASSUME TypeOK, Ordered, NEW c \in Client, SendText(c)
    PROVE  Ordered'
<1>1. UNCHANGED <<shown, queue>> /\ texts' = texts + 1
    BY DEF SendText, amqp
<1>2. \A d \in Client : out'[d] = out[d] \/ out'[d].id = texts + 1
    BY DEF SendText, TypeOK
<1>3. ASSUME NEW d \in Client PROVE OrderedAt(d)'
  <2>1. /\ \A i \in DOMAIN shown[d] : shown[d][i] \in Nat
        /\ \A i \in DOMAIN queue[d] : queue[d][i].id \in Nat
        /\ out[d].id \in Nat /\ texts \in Nat
      BY NumberTypes
  <2>2. OrderedAt(d)
      BY DEF Ordered
  <2>3. /\ \A i \in DOMAIN shown[d] : shown[d][i] <= texts + 1 /\ shown[d][i] < texts + 1
        /\ \A i \in DOMAIN queue[d] : queue[d][i].id <= texts + 1 /\ queue[d][i].id < texts + 1
        /\ out'[d].id <= texts + 1
      BY <1>2, <2>1, <2>2 DEF OrderedAt
  <2>4. \A e \in Client \ {d} : out'[e] # NoText =>
          /\ \A i \in DOMAIN shown[d] : shown[d][i] < out'[e].id
          /\ \A i \in DOMAIN queue[d] : IsText(queue[d][i]) => queue[d][i].id < out'[e].id
      BY <1>2, <2>2, <2>3 DEF OrderedAt
  <2> QED
      BY <1>1, <2>2, <2>3, <2>4 DEF OrderedAt, IsText
<1> QED
    BY <1>3 DEF Ordered

\* The head of the queue is shown, or not, and what is left comes after it.
LEMMA ReceiveOrdered ==
    ASSUME TypeOK, TypeOK', Ordered, NEW c \in Client, ReceiveText(c)
    PROVE  Ordered'
<1>1. HasNext(c, "message") /\ Consume(c) /\ UNCHANGED <<texts, out>>
    BY DEF ReceiveText
<1>2. /\ \A d \in Client \ {c} : queue'[d] = queue[d]
      /\ 1 \in DOMAIN queue[c] /\ Head(queue[c]) = queue[c][1] /\ IsText(queue[c][1])
    BY <1>1, ConsumeFacts DEF HasNext, IsText
<1>3. /\ \A i \in DOMAIN queue'[c] :
            i + 1 \in DOMAIN queue[c] /\ i + 1 > 1 /\ queue'[c][i] = queue[c][i + 1]
      /\ \A d \in Client : Cut(d)
    BY <1>1, ConsumeCuts
<1> DEFINE id == queue[c][1].id
<1>4. \/ shown' = shown
      \/ shown' = [shown EXCEPT ![c] = Append(shown[c], id)]
    BY <1>2 DEF ReceiveText
<1>5. CASE shown' = shown
    BY <1>1, <1>3, <1>5, CutOrdered DEF Ordered
<1>6. CASE shown' = [shown EXCEPT ![c] = Append(shown[c], id)]
  <2>1. ASSUME NEW d \in Client \ {c} PROVE OrderedAt(d)'
    <3>1. shown'[d] = shown[d] /\ queue'[d] = queue[d] /\ OrderedAt(d)
        BY <1>2, <1>6 DEF TypeOK, Ordered
    <3> QED
        BY <1>1, <3>1 DEF OrderedAt, IsText
  <2>2. shown[c] \in Seq(Id) /\ shown'[c] = Append(shown[c], id) /\ id \in Id
    <3>1. Head(queue[c]) \in Message
        BY <1>1, ConsumeFacts
    <3> QED
        BY <1>2, <1>6, <3>1 DEF TypeOK, Message
  <2> DEFINE n == Len(shown[c])
  <2>3. /\ n \in Nat /\ DOMAIN shown[c] = 1..n /\ DOMAIN shown'[c] = 1..(n + 1)
        /\ \A i \in 1..n : shown'[c][i] = shown[c][i]
        /\ shown'[c][n + 1] = id
      BY <2>2, AppendProperties, LenProperties
  <2> HIDE DEF n
  <2>4. OrderedAt(c) /\ id <= texts
      BY <1>2 DEF Ordered, OrderedAt
  <2>5. \A i, j \in DOMAIN shown'[c] : i < j => shown'[c][i] < shown'[c][j]
    <3> SUFFICES ASSUME NEW i \in DOMAIN shown'[c], NEW j \in DOMAIN shown'[c], i < j
                 PROVE  shown'[c][i] < shown'[c][j]
        OBVIOUS
    <3>1. i \in 1..n /\ shown'[c][i] = shown[c][i]
        BY <2>3
    <3>2. CASE j = n + 1
        BY <1>2, <2>3, <2>4, <3>1, <3>2 DEF OrderedAt
    <3>3. CASE j # n + 1
        BY <2>3, <2>4, <3>1, <3>3 DEF OrderedAt
    <3> QED
        BY <3>2, <3>3
  <2>6. \A i \in DOMAIN shown'[c] : \/ i \in DOMAIN shown[c] /\ shown'[c][i] = shown[c][i]
                                 \/ shown'[c][i] = id
      BY <2>3
  <2>7. /\ \A j \in DOMAIN queue'[c] : IsText(queue'[c][j]) =>
              /\ id < queue'[c][j].id
              /\ \A i \in DOMAIN shown[c] : shown[c][i] < queue'[c][j].id
        /\ \A d \in Client \ {c} : out[d] # NoText => id < out[d].id
      BY <1>2, <1>3, <2>4 DEF OrderedAt
  <2>8. /\ \A i, j \in DOMAIN queue'[c] :
              i < j /\ IsText(queue'[c][i]) /\ IsText(queue'[c][j])
                  => queue'[c][i].id < queue'[c][j].id
        /\ \A i \in DOMAIN queue'[c] : queue'[c][i].from # c /\ queue'[c][i].id <= texts
        /\ \A d \in Client \ {c} : out[d] # NoText =>
              \A i \in DOMAIN queue'[c] : IsText(queue'[c][i]) => queue'[c][i].id < out[d].id
    <3>1. DOMAIN queue'[c] \subseteq Nat
      <4>1. queue'[c] \in Seq(Message)
          BY DEF TypeOK
      <4> QED
          BY <4>1, LenProperties
    <3>2. \A i, j \in DOMAIN queue'[c] : i < j => i + 1 < j + 1
        BY <3>1
    <3> QED
        BY <1>3, <2>4, <3>2 DEF OrderedAt
  <2>9. /\ \A i \in DOMAIN shown'[c], j \in DOMAIN queue'[c] :
              IsText(queue'[c][j]) => shown'[c][i] < queue'[c][j].id
        /\ \A d \in Client \ {c} : out[d] # NoText =>
              \A i \in DOMAIN shown'[c] : shown'[c][i] < out[d].id
        /\ \A i \in DOMAIN shown'[c] : shown'[c][i] <= texts
        /\ out[c].id <= texts
      BY <2>4, <2>6, <2>7 DEF OrderedAt
  <2>10. OrderedAt(c)'
      BY <1>1, <2>5, <2>8, <2>9 DEF OrderedAt, IsText
  <2> QED
      BY <2>1, <2>10 DEF Ordered
<1> QED
    BY <1>4, <1>5, <1>6

\* A step keeps the order: of the two clients at work one at most publishes
\* to the other.
LEMMA OrderedStep ==
    ASSUME TypeOK, TypeOK', Goroutines, TwoPlaces, Ordered, NEW c \in Client, Step(c)
    PROVE  Ordered'
<1>1. CASE SendText(c)
    BY <1>1, SendOrdered
<1>2. CASE ReceiveText(c)
    BY <1>2, ReceiveOrdered
<1>3. CASE ~SendText(c) /\ ~ReceiveText(c)
  <2>1. /\ UNCHANGED <<shown, texts>>
        /\ \A e \in Client : out'[e] \in {out[e], NoText}
        /\ PublishText(c) => out[c] # NoText /\ out'[c] = NoText /\ Runs(c)
      BY <1>3, TextsStep
  <2>2. ASSUME NEW d \in Client PROVE OrderedAt(d)'
    <3>1. OrderedAt(d) /\ texts \in Nat /\ out[c].id \in Nat
        BY NumberTypes DEF Ordered
    <3>2. CASE Cut(d)
        BY <2>1, <3>1, <3>2, CutOrdered
    <3>3. CASE Grown(d, KeyMessage(c)) /\ d # c
      <4>1. /\ KeyMessage(c).id = 0 /\ KeyMessage(c).from = c
            /\ ~IsText(KeyMessage(c))
          BY DEF KeyMessage, IsText
      <4> QED
          BY <2>1, <3>1, <3>3, <4>1, GrownOrdered
    <3>4. CASE Grown(d, TextMessage(c)) /\ d # c /\ d \in bound /\ PublishText(c)
      <4>1. TextMessage(c).id = out[c].id /\ TextMessage(c).from = c
          BY DEF TextMessage
      <4>2. out[c].id <= texts
          BY DEF Ordered, OrderedAt
      <4>3. /\ \A i \in DOMAIN shown[d] : shown[d][i] < out[c].id
            /\ \A i \in DOMAIN queue[d] : IsText(queue[d][i]) => queue[d][i].id < out[c].id
          BY <2>1, <3>1, <3>4 DEF OrderedAt
      <4>4. ASSUME NEW e \in Client \ {d} PROVE out'[e] = NoText
        <5>1. c \in members /\ d \in members
            BY <2>1, <3>4 DEF TwoPlaces, Goroutines, Runs
        <5>2. out[e] # NoText => e \in members
            BY DEF TwoPlaces, Runs
        <5>3. e # c => out[e] = NoText
            BY <3>4, <5>1, <5>2, NoThird
        <5> QED
            BY <2>1, <3>4, <5>3
      <4> QED
          BY <2>1, <3>1, <3>4, <4>1, <4>2, <4>3, <4>4, GrownOrdered
    <3> QED
        BY <3>2, <3>3, <3>4, QueuesStep
  <2> QED
      BY <2>2 DEF Ordered
<1> QED
    BY <1>1, <1>2, <1>3

\* Nobody is at work and nothing is typed at first.
LEMMA OrderInit == Init => TwoPlaces /\ Ordered
<1> SUFFICES ASSUME Init PROVE TwoPlaces /\ Ordered
    OBVIOUS
<1>1. TwoPlaces
    BY FS_EmptySet DEF Init, TwoPlaces
<1>2. \A c \in Client : DOMAIN queue[c] = {} /\ DOMAIN shown[c] = {}
    BY DEF Init
<1>3. Ordered
    BY <1>2 DEF Init, Ordered, OrderedAt, NoText
<1> QED
    BY <1>1, <1>3

\* The invariant with the places and the order.
LEMMA OrderInvariant == Spec => [](Inv /\ TwoPlaces /\ Ordered)
<1>1. Inv /\ TwoPlaces /\ Ordered /\ [Next]_vars => (TwoPlaces /\ Ordered)'
  <2> SUFFICES ASSUME Inv, TwoPlaces, Ordered, [Next]_vars PROVE TwoPlaces' /\ Ordered'
      OBVIOUS
  <2>1. TypeOK /\ TypeOK' /\ Goroutines
      BY InvNext DEF Inv
  <2>2. ASSUME NEW c \in Client, Step(c) PROVE TwoPlaces' /\ Ordered'
      BY <2>1, <2>2, PlacesStep, OrderedStep
  <2>3. CASE UNCHANGED vars
      BY <2>3 DEF vars, room, amqp, seen, TwoPlaces, Ordered, OrderedAt, IsText, Runs
  <2> QED
      BY <2>2, <2>3 DEF Next, Step
<1> QED
    BY <1>1, InvInit, InvNext, OrderInit, PTL DEF Spec

\* Every variable of the clients and of their server keeps its type.
THEOREM Types == Spec => []TypeOK
<1>1. Inv => TypeOK
    BY DEF Inv
<1> QED
    BY <1>1, Invariant, PTL

\* A client shows texts of others only, each once and in the order they were
\* typed, whoever leaves and whatever closes meanwhile (client.go:298-355).
THEOREM ShownInOrder == Spec => []InOrder
<1>1. Ordered => InOrder
    BY DEF Ordered, OrderedAt, InOrder
<1> QED
    BY <1>1, OrderInvariant, PTL
=============================================================================
