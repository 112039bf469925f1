--------------------------- MODULE DeliveryProofs ---------------------------
(***************************************************************************)
(* Proofs about Delivery, for any finite set of clients, any set of file   *)
(* names, any size of files, number of sends, length of a page and set of   *)
(* modes and paddings.                                                      *)
(***************************************************************************)
EXTENDS Delivery, FiniteSetTheorems, SequenceTheorems, WellFoundedInduction, TLAPS

-----------------------------------------------------------------------------
(* Calls and queues.                                                       *)

\* A call that goes on has the number of a send, and one of a file a chunk
\* left to publish.
CallsHold ==
    \A c \in Client :
        /\ call[c].pc # "idle" => call[c].id \in 1..sends
        /\ call[c].pc # "publish" => call[c].name = NoName
        /\ IsFile(call[c]) => call[c].index < call[c].total

\* A client that runs has its stream, or nothing was ever queued for it; and
\* nobody is sent its own messages.
QueuesHold ==
    \A c \in Client :
        /\ status[c] = "running" => stream[c] \in {"none", "open"}
        /\ stream[c] = "none" => queue[c] = <<>>
        /\ \A i \in DOMAIN queue[c] :
              /\ queue[c][i].from # c
              /\ IsFile(queue[c][i]) => queue[c][i].index < queue[c][i].total

TypesHold == TypeOK /\ CallsHold /\ QueuesHold

\* queue'[d] is the first messages of queue[d].
Cut(d) ==
    \E n \in Nat : /\ DOMAIN queue'[d] = 1..n /\ DOMAIN queue'[d] \subseteq DOMAIN queue[d]
                   /\ \A i \in DOMAIN queue'[d] : queue'[d][i] = queue[d][i]

\* queue'[d] is queue[d] and m.
Grown(d, m) ==
    \E n \in Nat : /\ DOMAIN queue[d] = 1..n /\ DOMAIN queue'[d] = 1..(n + 1)
                   /\ \A i \in 1..n : queue'[d][i] = queue[d][i]
                   /\ queue'[d][n + 1] = m

\* queue'[d] is queue[d] without its head.
Consumed(d) ==
    \E n \in Nat : /\ DOMAIN queue[d] = 1..(n + 1) /\ DOMAIN queue'[d] = 1..n
                   /\ \A i \in 1..n : queue'[d][i] = queue[d][i + 1]

\* The positions of a queue.
LEMMA Positions ==
    ASSUME TypeOK, NEW c \in Client
    PROVE  /\ queue[c] \in Seq(Message) /\ Len(queue[c]) \in Nat
           /\ DOMAIN queue[c] = 1..Len(queue[c])
           /\ \A i \in DOMAIN queue[c] : queue[c][i] \in Message
<1>1. queue[c] \in Seq(Message)
    BY DEF TypeOK
<1>2. Len(queue[c]) \in Nat /\ DOMAIN queue[c] = 1..Len(queue[c])
    BY <1>1, LenProperties
<1> QED
    BY <1>1, <1>2, ElementOfSeq

\* A queue that stays is its own beginning.
LEMMA SameIsCut ==
    ASSUME TypeOK, NEW d \in Client, queue'[d] = queue[d]
    PROVE  Cut(d)
BY Positions DEF Cut

\* What is published comes last, at those who have a stream.
LEMMA BroadcastFacts ==
    ASSUME TypeOK, NEW m \in Message, Broadcast(m)
    PROVE  /\ queue' \in [Client -> Seq(Message)]
           /\ \A d \in Client :
                 IF d # m.from /\ stream[d] \in {"open", "broken"}
                 THEN Grown(d, m) ELSE queue'[d] = queue[d]
<1>1. queue' = [d \in Client |-> IF d # m.from /\ stream[d] \in {"open", "broken"}
                                 THEN Append(queue[d], m) ELSE queue[d]]
    BY DEF Broadcast
<1>2. ASSUME NEW d \in Client PROVE /\ Append(queue[d], m) \in Seq(Message)
                                    /\ queue[d] \in Seq(Message)
    BY Positions, AppendProperties
<1>3. ASSUME NEW d \in Client, d # m.from /\ stream[d] \in {"open", "broken"}
      PROVE  Grown(d, m)
  <2>1. queue'[d] = Append(queue[d], m) /\ queue[d] \in Seq(Message) /\ Len(queue[d]) \in Nat
        /\ DOMAIN queue[d] = 1..Len(queue[d])
      BY <1>1, <1>3, Positions
  <2>2. /\ queue'[d] \in Seq(Message)
        /\ Len(queue'[d]) = Len(queue[d]) + 1
        /\ \A i \in 1..Len(queue[d]) : queue'[d][i] = queue[d][i]
        /\ queue'[d][Len(queue[d]) + 1] = m
      BY <2>1, AppendProperties
  <2>3. DOMAIN queue'[d] = 1..(Len(queue[d]) + 1)
      BY <2>2, LenProperties
  <2> QED
      BY <2>1, <2>2, <2>3 DEF Grown
<1>4. queue' \in [Client -> Seq(Message)]
    BY <1>1, <1>2
<1> QED
    BY <1>1, <1>3, <1>4

\* A channel that dies leaves the beginnings of queues.
LEMMA ChannelDiesFacts ==
    ASSUME TypeOK, ChannelDies
    PROVE  queue' \in [Client -> Seq(Message)] /\ \A d \in Client : Cut(d)
<1>1. PICK n \in [Client -> 0..(MaxSends * MaxChunks)] :
         /\ \A c \in Client : n[c] <= Len(queue[c])
         /\ queue' = [c \in Client |-> SubSeq(queue[c], 1, n[c])]
    BY DEF ChannelDies
<1>2. ASSUME NEW d \in Client
      PROVE  SubSeq(queue[d], 1, n[d]) \in Seq(Message) /\ Cut(d)
  <2>1. /\ queue[d] \in Seq(Message) /\ Len(queue[d]) \in Nat
        /\ DOMAIN queue[d] = 1..Len(queue[d])
      BY Positions
  <2>2. n[d] \in 0..(MaxSends * MaxChunks) /\ n[d] <= Len(queue[d])
      BY <1>1
  <2>3. n[d] \in Nat
      BY <2>2
  <2> PICK s : s = SubSeq(queue[d], 1, n[d])
      OBVIOUS
  <2>4. /\ s \in Seq(Message) /\ Len(s) = n[d]
        /\ \A i \in 1..n[d] : s[i] = queue[d][i]
      BY <2>1, <2>2, <2>3, SubSeqProperties
  <2>5. DOMAIN s = 1..n[d]
      BY <2>4, LenProperties
  <2>6. queue'[d] = s
      BY <1>1
  <2>7. 1..n[d] \subseteq 1..Len(queue[d])
      BY <2>1, <2>2, <2>3
  <2>8. Cut(d)
      BY <2>1, <2>3, <2>4, <2>5, <2>6, <2>7 DEF Cut
  <2> QED
      BY <2>4, <2>8
<1> QED
    BY <1>1, <1>2

\* Reading takes the head.
LEMMA ConsumeFacts ==
    ASSUME TypeOK, NEW c \in Client, queue[c] # <<>>, Consume(c)
    PROVE  /\ queue' \in [Client -> Seq(Message)]
           /\ Consumed(c)
           /\ \A d \in Client \ {c} : queue'[d] = queue[d]
           /\ 1 \in DOMAIN queue[c] /\ Head(queue[c]) = queue[c][1]
           /\ Head(queue[c]) \in Message
<1>1. /\ queue[c] \in Seq(Message) /\ Len(queue[c]) \in Nat
      /\ DOMAIN queue[c] = 1..Len(queue[c])
      /\ \A i \in DOMAIN queue[c] : queue[c][i] \in Message
    BY Positions
<1>2. Len(queue[c]) > 0
    BY <1>1, EmptySeq
<1>3. /\ Tail(queue[c]) \in Seq(Message)
      /\ Len(Tail(queue[c])) = Len(queue[c]) - 1
      /\ \A i \in 1..Len(Tail(queue[c])) : Tail(queue[c])[i] = queue[c][i + 1]
      /\ Head(queue[c]) = queue[c][1]
    BY <1>1, HeadTailProperties
<1>4. DOMAIN Tail(queue[c]) = 1..(Len(queue[c]) - 1)
    BY <1>3, LenProperties
<1>5. queue' = [queue EXCEPT ![c] = Tail(queue[c])]
    BY DEF Consume
<1>6. queue'[c] = Tail(queue[c]) /\ \A d \in Client \ {c} : queue'[d] = queue[d]
    BY <1>5 DEF TypeOK
<1>7. queue' \in [Client -> Seq(Message)]
    BY <1>3, <1>5 DEF TypeOK
<1>8. 1 \in DOMAIN queue[c] /\ Head(queue[c]) = queue[c][1] /\ Head(queue[c]) \in Message
    BY <1>1, <1>2, <1>3
<1>9. Consumed(c)
  <2>1. Len(queue[c]) - 1 \in Nat /\ 1..Len(queue[c]) = 1..((Len(queue[c]) - 1) + 1)
      BY <1>1, <1>2
  <2> QED
      BY <1>1, <1>3, <1>4, <1>6, <2>1 DEF Consumed
<1> QED
    BY <1>6, <1>7, <1>8, <1>9

\* A queue is left as it is, cut, emptied of its head, or given a message.
NothingNew(d) ==
    \A i \in DOMAIN queue'[d] : \E j \in DOMAIN queue[d] : queue'[d][i] = queue[d][j]

\* A queue that is cut or read has nothing new.
LEMMA OldMessages ==
    ASSUME NEW d \in Client, Cut(d) \/ Consumed(d)
    PROVE  NothingNew(d)
<1>1. CASE Cut(d)
    BY <1>1 DEF Cut, NothingNew
<1>2. CASE Consumed(d)
  <2>1. PICK n \in Nat : /\ DOMAIN queue[d] = 1..(n + 1) /\ DOMAIN queue'[d] = 1..n
                         /\ \A i \in 1..n : queue'[d][i] = queue[d][i + 1]
      BY <1>2 DEF Consumed
  <2>2. \A i \in 1..n : i + 1 \in 1..(n + 1)
      OBVIOUS
  <2> QED
      BY <2>1, <2>2 DEF NothingNew
<1> QED
    BY <1>1, <1>2

\* A cell of a map of maps is written, and no other.
LEMMA PutEntry ==
    ASSUME NEW V, NEW f \in [Client -> [FileKey -> V]], NEW c \in Client, NEW key \in FileKey,
           NEW v \in V
    PROVE  LET g == [f EXCEPT ![c][key] = v] IN
           /\ g \in [Client -> [FileKey -> V]]
           /\ g[c][key] = v
           /\ \A d \in Client, k \in FileKey : <<d, k>> # <<c, key>> => g[d][k] = f[d][k]
<1>1. [f[c] EXCEPT ![key] = v] \in [FileKey -> V]
    OBVIOUS
<1>2. [f EXCEPT ![c][key] = v] = [f EXCEPT ![c] = [f[c] EXCEPT ![key] = v]]
    OBVIOUS
<1>3. PICK row : row = [f[c] EXCEPT ![key] = v]
    OBVIOUS
<1>4. row[key] = v /\ \A k \in FileKey : k # key => row[k] = f[c][k]
    BY <1>3
<1> QED
    BY <1>1, <1>2, <1>3, <1>4

\* What a call publishes is a message.
LEMMA MessageOfType ==
    ASSUME TypeOK, NEW c \in Client
    PROVE  /\ MessageOf(c) \in Message /\ MessageOf(c).from = c
           /\ MessageOf(c).name = call[c].name /\ MessageOf(c).id = call[c].id
           /\ MessageOf(c).index = call[c].index /\ MessageOf(c).total = call[c].total
           /\ call[c].id \in Id /\ call[c].index \in Nat /\ call[c].total \in Nat
           /\ call[c].total <= MaxChunks
<1>1. call[c] \in Call
    BY DEF TypeOK
<1>2. /\ call[c].name \in Name \cup {NoName} /\ call[c].id \in Id
      /\ call[c].index \in 0..(MaxChunks - 1) /\ call[c].total \in 0..MaxChunks
    BY <1>1 DEF Call
<1>3. call[c].index \in Nat /\ call[c].total \in Nat /\ call[c].total <= MaxChunks
    BY <1>2, BoundsType
<1> QED
    BY <1>2, <1>3 DEF MessageOf, Message

\* A chunk is stored in the entry of its sender and name.
LEMMA SlotFacts ==
    ASSUME TypeOK, NEW c \in Client, NEW m \in Message, IsFile(m), m.index < m.total
    PROVE  /\ Key(m) \in FileKey
           /\ m.index \in Nat /\ m.total \in Nat /\ m.total <= MaxChunks
           /\ Slots(c, m) \in Seq(Chunk \cup {NoChunk})
           /\ Slots(c, m) = IF chunks[c][Key(m)] # <<>> THEN chunks[c][Key(m)]
                            ELSE [i \in 1..m.total |-> NoChunk]
           /\ Len(Slots(c, m)) \in Nat /\ DOMAIN Slots(c, m) = 1..Len(Slots(c, m))
           /\ chunks[c][Key(m)] = <<>> => Len(Slots(c, m)) = m.total
           /\ Decrypted(m) \subseteq Chunk
           /\ \A data \in Decrypted(m) :
                 data = Garbled \/ data = [id |-> m.id, index |-> m.index, total |-> m.total]
<1>1. /\ m.from \in Client /\ m.name \in Name /\ m.id \in Id
      /\ m.index \in 0..(MaxChunks - 1) /\ m.total \in 0..MaxChunks
    BY DEF Message, IsFile
<1>2. m.index \in Nat /\ m.total \in Nat /\ m.total \in 1..MaxChunks /\ m.total <= MaxChunks
    BY <1>1, BoundsType
<1>3. Key(m) \in FileKey
    BY <1>1 DEF Key, FileKey
<1>4. [id |-> m.id, index |-> m.index, total |-> m.total] \in Content
    BY <1>1, <1>2 DEF Content
<1>5. Decrypted(m) \subseteq Chunk
    BY <1>4 DEF Decrypted, Chunk
<1>6. chunks[c][Key(m)] \in Seq(Chunk \cup {NoChunk})
    BY <1>3 DEF TypeOK
<1> PICK empty : empty = [i \in 1..m.total |-> NoChunk]
    OBVIOUS
<1>7. empty \in Seq(Chunk \cup {NoChunk}) /\ Len(empty) = m.total
  <2>1. empty \in [1..m.total -> Chunk \cup {NoChunk}]
      OBVIOUS
  <2>2. empty \in Seq(Chunk \cup {NoChunk})
      BY <1>2, <2>1, SeqDef
  <2> QED
      BY <1>2, <2>1, <2>2, LenProperties
<1>8. Slots(c, m) = IF chunks[c][Key(m)] # <<>> THEN chunks[c][Key(m)] ELSE empty
    BY DEF Slots
<1>9. Slots(c, m) \in Seq(Chunk \cup {NoChunk})
    BY <1>6, <1>7, <1>8
<1>10. Len(Slots(c, m)) \in Nat /\ DOMAIN Slots(c, m) = 1..Len(Slots(c, m))
    BY <1>9, LenProperties
<1> QED
    BY <1>2, <1>3, <1>5, <1>7, <1>8, <1>9, <1>10 DEF Decrypted

\* What the entry is then.
LEMMA StoredFacts ==
    ASSUME TypeOK, NEW c \in Client, NEW m \in Message, IsFile(m), m.index < m.total,
           m.index < Len(Slots(c, m)), NEW data \in Decrypted(m)
    PROVE  /\ Stored(c, m, data) \in Seq(Chunk \cup {NoChunk})
           /\ Len(Stored(c, m, data)) = Len(Slots(c, m))
           /\ DOMAIN Stored(c, m, data) = 1..Len(Slots(c, m))
           /\ Stored(c, m, data)[m.index + 1] = data
           /\ \A i \in 1..Len(Slots(c, m)) :
                 i # m.index + 1 => Stored(c, m, data)[i] = Slots(c, m)[i]
<1> PICK s : s = Slots(c, m)
    OBVIOUS
<1>1. /\ s \in Seq(Chunk \cup {NoChunk}) /\ Len(s) \in Nat /\ DOMAIN s = 1..Len(s)
      /\ data \in Chunk /\ m.index \in Nat
    BY SlotFacts
<1>2. m.index + 1 \in 1..Len(s)
    BY <1>1
<1> PICK t : t = [s EXCEPT ![m.index + 1] = data]
    OBVIOUS
<1>3. t = Stored(c, m, data)
    BY DEF Stored
<1>4. /\ t \in Seq(Chunk \cup {NoChunk}) /\ Len(t) = Len(s)
      /\ t[m.index + 1] = data /\ \A i \in 1..Len(s) : i # m.index + 1 => t[i] = s[i]
    BY <1>1, <1>2, ExceptSeq
<1>5. DOMAIN t = 1..Len(s)
    BY <1>4, LenProperties
<1> QED
    BY <1>3, <1>4, <1>5

\* The chunk a receiver is about to handle.
LEMMA NextChunkFacts ==
    ASSUME TypesHold, NEW c \in Client, NextChunk(c), NEW m, m = Head(queue[c])
    PROVE  /\ m \in Message /\ IsFile(m) /\ m.index < m.total /\ m.from # c
           /\ 1 \in DOMAIN queue[c] /\ m = queue[c][1] /\ queue[c] # <<>>
           /\ status[c] = "running" /\ stream[c] = "open"
<1>1. /\ queue[c] \in Seq(Message) /\ Len(queue[c]) \in Nat
      /\ DOMAIN queue[c] = 1..Len(queue[c])
      /\ \A i \in DOMAIN queue[c] : queue[c][i] \in Message
    BY Positions DEF TypesHold
<1>2. queue[c] # <<>> /\ IsFile(m) /\ status[c] = "running" /\ stream[c] = "open"
    BY DEF NextChunk, HasNext
<1>3. Len(queue[c]) > 0 /\ m = queue[c][1]
    BY <1>1, <1>2, EmptySeq, HeadTailProperties
<1>4. 1 \in DOMAIN queue[c]
    BY <1>1, <1>3
<1> QED
    BY <1>1, <1>2, <1>3, <1>4 DEF TypesHold, QueuesHold

-----------------------------------------------------------------------------
(* Types.                                                                  *)

Step(c) ==
    \/ ReceiveMessages(c) \/ ReceiveMessagesFails(c) \/ Kill(c) \/ InitCipher(c)
    \/ SendText(c) \/ SendFile(c) \/ Serve(c) \/ Receive(c)

\* A call that begins.
LEMMA SendFacts ==
    ASSUME TypesHold, NEW c \in Client, SendText(c) \/ SendFile(c)
    PROVE  \E name \in Name \cup {NoName}, total \in 0..MaxChunks, k \in Call :
              /\ k = [pc |-> "publish", name |-> name, id |-> sends + 1, index |-> 0,
                      total |-> total]
              /\ Send(c, name, total)
              /\ name # NoName => total > 0
              /\ call' = [call EXCEPT ![c] = k]
              /\ sends' = sends + 1 /\ sends' \in Id /\ sends \in Nat
<1>1. sends \in Id /\ sends \in Nat /\ sends < MaxSends
    BY DEF TypesHold, TypeOK, Id, SendText, SendFile, Send
<1>2. sends + 1 \in Id
    BY <1>1, BoundsType DEF Id
<1>3. PICK name \in Name \cup {NoName}, total \in 0..MaxChunks :
         Send(c, name, total) /\ (name # NoName => total > 0)
  <2>1. CASE SendText(c)
      BY <2>1, BoundsType DEF SendText
  <2>2. CASE SendFile(c)
    <3>1. PICK name \in Name, total \in 1..MaxChunks : Send(c, name, total)
        BY <2>2 DEF SendFile
    <3>2. total \in 0..MaxChunks /\ total > 0
        BY BoundsType
    <3> QED
        BY <3>1, <3>2
  <2> QED
      BY <2>1, <2>2
<1> DEFINE k == [pc |-> "publish", name |-> name, id |-> sends + 1, index |-> 0, total |-> total]
<1>4. k \in Call
    BY <1>2, BoundsType DEF Call
<1> QED
    BY <1>1, <1>2, <1>3, <1>4 DEF Send

\* A call goes on to the next chunk, or ends.
LEMMA PublishChunkFacts ==
    ASSUME TypesHold, NEW c \in Client, PublishChunk(c), NEW m, m = MessageOf(c)
    PROVE  /\ m \in Message /\ m.from = c /\ IsFile(m) /\ m.index < m.total
           /\ Broadcast(m) /\ lost' = lost \cup Misses(m)
           /\ call[c].pc = "publish" /\ call[c].name = m.name /\ channel
           /\ m.index \in Nat /\ m.total \in Nat
           /\ IF m.index + 1 = m.total THEN call' = [call EXCEPT ![c] = Idle]
              ELSE \E k \in Call : /\ call' = [call EXCEPT ![c] = k]
                                   /\ k.pc = "publish" /\ k.name = m.name /\ k.id = m.id
                                   /\ k.index = m.index + 1 /\ k.total = m.total
                                   /\ m.index + 1 < m.total
<1>1. /\ m \in Message /\ m.from = c /\ m.name = call[c].name /\ m.id = call[c].id
      /\ m.index = call[c].index /\ m.total = call[c].total
      /\ m.index \in Nat /\ m.total \in Nat /\ m.total <= MaxChunks
    BY MessageOfType DEF TypesHold
<1>2. /\ IsFile(m) /\ Broadcast(m) /\ lost' = lost \cup Misses(m) /\ channel
      /\ call[c].pc = "publish"
      /\ m.index + 1 = m.total => call' = [call EXCEPT ![c] = Idle]
      /\ m.index + 1 # m.total =>
            call' = [call EXCEPT ![c] = [call[c] EXCEPT !.index = call[c].index + 1]]
  <2>1. IsFile(m) /\ Broadcast(m) /\ lost' = lost \cup Misses(m) /\ channel
      BY DEF PublishChunk
  <2>2. call[c].pc = "publish"
      BY DEF PublishChunk
  <2>3. call' = [call EXCEPT ![c] = IF m.index + 1 = m.total THEN Idle
                                    ELSE [call[c] EXCEPT !.index = m.index + 1]]
      BY DEF PublishChunk
  <2> QED
      BY <1>1, <2>1, <2>2, <2>3
<1>3. m.index < m.total
    BY <1>1, <1>2 DEF TypesHold, CallsHold, IsFile
<1>4. ASSUME m.index + 1 # m.total
      PROVE  LET k == [call[c] EXCEPT !.index = call[c].index + 1] IN
             /\ k \in Call /\ k.pc = "publish" /\ k.name = m.name /\ k.id = m.id
             /\ k.index = m.index + 1 /\ k.total = m.total /\ m.index + 1 < m.total
  <2>1. m.index + 1 < m.total /\ m.index + 1 \in 0..(MaxChunks - 1)
      BY <1>1, <1>3, <1>4, BoundsType
  <2>2. call[c] \in Call
      BY DEF TypesHold, TypeOK
  <2>3. /\ call[c].name \in Name \cup {NoName} /\ call[c].id \in Id
        /\ call[c].total \in 0..MaxChunks
      BY <2>2 DEF Call
  <2> QED
      BY <1>1, <1>2, <2>1, <2>2, <2>3 DEF Call
<1> QED
    BY <1>1, <1>2, <1>3, <1>4

\* What a step of Delivery does to the queues.
LEMMA QueuesStep ==
    ASSUME TypesHold, NEW c \in Client, Step(c)
    PROVE  /\ queue' \in [Client -> Seq(Message)]
           /\ \A d \in Client :
                 \/ queue'[d] = queue[d]
                 \/ /\ queue'[d] = <<>> /\ d = c /\ SendFails(c)
                 \/ /\ Consumed(d) /\ d = c /\ Receive(c) /\ queue[c] # <<>>
                 \/ /\ Grown(d, MessageOf(c)) /\ d # c /\ stream[d] \in {"open", "broken"}
                    /\ PublishChunk(c) \/ PublishText(c)
<1>0. TypeOK /\ queue \in [Client -> Seq(Message)]
    BY DEF TypesHold, TypeOK
<1>1. CASE PublishChunk(c) \/ PublishText(c)
  <2>1. Broadcast(MessageOf(c)) /\ MessageOf(c) \in Message /\ MessageOf(c).from = c
      BY <1>0, <1>1, MessageOfType DEF PublishChunk, PublishText
  <2> QED
      BY <1>0, <1>1, <2>1, BroadcastFacts
<1>2. CASE Receive(c)
  <2>1. Consume(c) /\ queue[c] # <<>>
      BY <1>2 DEF Receive, ReceiveText, SkipChunk, DecryptPanics, StorePanics, KeepChunk,
         SaveFile, SaveFails, NextChunk, Completes, HasNext
  <2> QED
      BY <1>0, <1>2, <2>1, ConsumeFacts
<1>3. CASE SendFails(c)
  <2>1. queue' = [queue EXCEPT ![c] = <<>>] /\ <<>> \in Seq(Message)
      BY <1>3, EmptySeq DEF SendFails
  <2> QED
      BY <1>0, <1>3, <2>1
<1>4. CASE queue' = queue
    BY <1>0, <1>4
<1> QED
    BY <1>1, <1>2, <1>3, <1>4 DEF Step, Serve, ReceiveMessages, ReceiveMessagesFails, Kill,
       InitCipher, SendText, SendFile, Send, PublishFails, InsertText, broker

\* A call goes on as k.
NextCall(c, k) ==
    /\ k \in Call /\ call' = [call EXCEPT ![c] = k]
    /\ sends' \in Id /\ sends <= sends'
    /\ k.pc # "idle" => k.id \in 1..sends'
    /\ k.pc # "publish" => k.name = NoName
    /\ k.name # NoName => k.index < k.total

\* What a step does to the calls.
LEMMA CallsStep ==
    ASSUME TypesHold, NEW c \in Client, Step(c)
    PROVE  /\ call' \in [Client -> Call] /\ \A d \in Client \ {c} : call'[d] = call[d]
           /\ sends' \in Id /\ sends <= sends' /\ CallsHold'
<1>0. /\ call \in [Client -> Call] /\ sends \in Id /\ sends \in Nat /\ CallsHold
      /\ Idle \in Call
  <2>1. Idle \in Call
      BY BoundsType DEF Call, Idle, Id
  <2> QED
      BY <2>1 DEF TypesHold, TypeOK, Id
<1>1. ASSUME NEW k, NextCall(c, k)
      PROVE  /\ call' \in [Client -> Call] /\ \A d \in Client \ {c} : call'[d] = call[d]
             /\ sends' \in Id /\ sends <= sends' /\ CallsHold'
  <2>1. call' \in [Client -> Call] /\ call'[c] = k /\ \A d \in Client \ {c} : call'[d] = call[d]
      BY <1>0, <1>1 DEF NextCall
  <2>2. 1..sends \subseteq 1..sends'
      BY <1>0, <1>1 DEF Id, NextCall
  <2> QED
      BY <1>0, <1>1, <2>1, <2>2 DEF CallsHold, IsFile, NextCall
<1>2. CASE SendText(c) \/ SendFile(c)
  <2>1. PICK name \in Name \cup {NoName}, total \in 0..MaxChunks, k \in Call :
           /\ k = [pc |-> "publish", name |-> name, id |-> sends + 1, index |-> 0, total |-> total]
           /\ name # NoName => total > 0
           /\ call' = [call EXCEPT ![c] = k]
           /\ sends' = sends + 1 /\ sends' \in Id
      BY <1>2, SendFacts
  <2>2. k.id \in 1..sends' /\ (k.name # NoName => k.index < k.total) /\ k.pc = "publish"
      BY <1>0, <2>1
  <2>3. sends <= sends'
      BY <1>0, <2>1
  <2>4. NextCall(c, k)
      BY <2>1, <2>2, <2>3 DEF NextCall
  <2> QED
      BY <1>1, <2>4
<1>3. CASE PublishChunk(c)
  <2>1. sends' = sends /\ sends <= sends
      BY <1>0, <1>3 DEF PublishChunk
  <2> PICK m : m = MessageOf(c)
      OBVIOUS
  <2>2. CASE m.index + 1 = m.total
    <3>1. call' = [call EXCEPT ![c] = Idle]
        BY <1>3, <2>2, PublishChunkFacts
    <3>2. NextCall(c, Idle)
        BY <1>0, <2>1, <3>1 DEF NextCall, Idle
    <3> QED
        BY <1>1, <3>2
  <2>3. CASE m.index + 1 # m.total
    <3>1. PICK k \in Call : /\ call' = [call EXCEPT ![c] = k]
                            /\ k.pc = "publish" /\ k.name = m.name /\ k.id = m.id
                            /\ k.index = m.index + 1 /\ k.total = m.total
                            /\ m.index + 1 < m.total
        BY <1>3, <2>3, PublishChunkFacts
    <3>2. k.id \in 1..sends
        BY <1>3, <3>1 DEF PublishChunk, TypesHold, CallsHold, MessageOf
    <3>3. k.index < k.total
        BY <3>1
    <3>4. NextCall(c, k)
        BY <1>0, <2>1, <3>1, <3>2, <3>3 DEF NextCall
    <3> QED
        BY <1>1, <3>4
  <2> QED
      BY <2>2, <2>3
<1>4. CASE PublishText(c)
  <2> PICK k : k = [call[c] EXCEPT !.pc = "insert"]
      OBVIOUS
  <2>1. k \in Call /\ k.pc = "insert" /\ k.name = call[c].name /\ k.id = call[c].id
      BY <1>0 DEF Call
  <2>2. sends' = sends /\ call' = [call EXCEPT ![c] = k] /\ call[c].name = NoName
        /\ call[c].pc = "publish"
      BY <1>4 DEF PublishText, IsFile
  <2>3. k.id \in 1..sends
      BY <1>0, <2>1, <2>2 DEF CallsHold
  <2>4. NextCall(c, k)
      BY <1>0, <2>1, <2>2, <2>3 DEF NextCall
  <2> QED
      BY <1>1, <2>4
<1>5. CASE PublishFails(c) \/ InsertText(c)
  <2>1. call' = [call EXCEPT ![c] = Idle] /\ sends' = sends
      BY <1>5 DEF PublishFails, InsertText, Return
  <2>2. NextCall(c, Idle)
      BY <1>0, <2>1 DEF NextCall, Idle
  <2> QED
      BY <1>1, <2>2
<1>6. CASE UNCHANGED <<call, sends>>
    BY <1>0, <1>6 DEF CallsHold, IsFile
<1> QED
    BY <1>2, <1>3, <1>4, <1>5, <1>6 DEF Step, Serve, Receive, ReceiveMessages,
       ReceiveMessagesFails, Kill, InitCipher, SendFails, ReceiveText, SkipChunk, DecryptPanics,
       StorePanics, KeepChunk, SaveFile, SaveFails

\* What a step does to the streams and to the clients.
LEMMA StreamsStep ==
    ASSUME TypesHold, NEW c \in Client, Step(c)
    PROVE  /\ channel' = channel
           /\ stream' \in [Client -> {"none", "open", "broken", "ended"}]
           /\ status' \in [Client -> Status]
           /\ \A d \in Client \ {c} : stream'[d] = stream[d] /\ status'[d] = status[d]
           /\ status'[c] = "running" => stream'[c] \in {"none", "open"} /\ status[c] = "running"
           /\ stream'[c] = "none" => stream[c] = "none"
           /\ status'[c] = "store panicked" => status[c] = "store panicked" \/ StorePanics(c)
           /\ status'[c] = "decrypt panicked" =>
                 status[c] = "decrypt panicked" \/ DecryptPanics(c)
<1>0. /\ stream \in [Client -> {"none", "open", "broken", "ended"}]
      /\ status \in [Client -> Status]
      /\ status[c] = "running" => stream[c] \in {"none", "open"}
      /\ {"running", "killed", "store panicked", "decrypt panicked"} \subseteq Status
    BY DEF TypesHold, TypeOK, QueuesHold, Status
<1>1. CASE ReceiveMessages(c)
    BY <1>0, <1>1 DEF ReceiveMessages
<1>2. CASE ReceiveMessagesFails(c)
    BY <1>0, <1>2 DEF ReceiveMessagesFails, broker
<1>3. CASE Kill(c)
    BY <1>0, <1>3 DEF Kill, Stops
<1>4. CASE SendFails(c)
    BY <1>0, <1>4 DEF SendFails
<1>5. CASE StorePanics(c)
    BY <1>0, <1>5 DEF StorePanics, Stops
<1>6. CASE DecryptPanics(c)
    BY <1>0, <1>6 DEF DecryptPanics, Stops
<1>7. CASE UNCHANGED <<channel, stream, status>>
    BY <1>0, <1>7
<1> QED
    BY <1>1, <1>2, <1>3, <1>4, <1>5, <1>6, <1>7 DEF Step, Serve, Receive, InitCipher, SendText,
       SendFile, Send, PublishChunk, PublishText, PublishFails, InsertText, ReceiveText,
       SkipChunk, KeepChunk, SaveFile, SaveFails, broker

\* After chunk m came out as data, c has slots for m's file, n of them counted.
Stores(c, m, data, slots, n) ==
    /\ chunks' = [chunks EXCEPT ![c][Key(m)] = slots]
    /\ count' = [count EXCEPT ![c][Key(m)] = n]
    /\ lost' \in {lost, lost \cup {<<c, Key(m)>>}}
    /\ data = Garbled => <<c, Key(m)>> \in lost'
    /\ \/ /\ slots = <<>> /\ n = 0
          /\ count[c][Key(m)] + 1 = Len(Slots(c, m))
       \/ /\ slots = Stored(c, m, data) /\ n = count[c][Key(m)] + 1
          /\ count[c][Key(m)] + 1 # Len(Slots(c, m)) \/ <<c, Key(m)>> \in lost'

\* The entry that a chunk kept, saved or not saved leaves behind.
LEMMA StoreStep ==
    ASSUME TypesHold, NEW c \in Client, KeepChunk(c) \/ SaveFile(c) \/ SaveFails(c),
           NEW m, m = Head(queue[c])
    PROVE  /\ NextChunk(c) /\ m.index < Len(Slots(c, m)) /\ Key(m) \in FileKey
           /\ \E data \in Decrypted(m), slots \in Seq(Chunk \cup {NoChunk}), n \in Nat :
                 Stores(c, m, data, slots, n)
<1>0. /\ TypeOK /\ NextChunk(c) /\ m.index < Len(Slots(c, m))
    BY DEF TypesHold, KeepChunk, SaveFile, SaveFails, Completes
<1>1. /\ m \in Message /\ IsFile(m) /\ m.index < m.total /\ Key(m) \in FileKey
    BY <1>0, NextChunkFacts, SlotFacts
<1>2. /\ <<>> \in Seq(Chunk \cup {NoChunk})
      /\ \A data \in Decrypted(m) : Stored(c, m, data) \in Seq(Chunk \cup {NoChunk})
    BY <1>0, <1>1, StoredFacts, EmptySeq
<1>3. count[c][Key(m)] \in Nat /\ count[c][Key(m)] + 1 \in Nat /\ 0 \in Nat
    BY <1>0, <1>1 DEF TypeOK
<1>4. CASE KeepChunk(c)
  <2>1. PICK data \in Decrypted(m) :
           /\ chunks' = [chunks EXCEPT ![c][Key(m)] = Stored(c, m, data)]
           /\ lost' = IF data = Garbled THEN lost \cup {<<c, Key(m)>>} ELSE lost
      BY <1>4 DEF KeepChunk
  <2>2. /\ count' = [count EXCEPT ![c][Key(m)] = count[c][Key(m)] + 1]
        /\ count[c][Key(m)] + 1 # Len(Slots(c, m))
      BY <1>4 DEF KeepChunk
  <2> QED
      BY <1>0, <1>1, <1>2, <1>3, <2>1, <2>2 DEF Stores
<1>5. CASE SaveFile(c)
  <2>1. PICK data \in Decrypted(m) :
           lost' = IF data = Garbled THEN lost \cup {<<c, Key(m)>>} ELSE lost
      BY <1>5 DEF SaveFile
  <2>2. /\ chunks' = [chunks EXCEPT ![c][Key(m)] = <<>>]
        /\ count' = [count EXCEPT ![c][Key(m)] = 0]
        /\ count[c][Key(m)] + 1 = Len(Slots(c, m))
      BY <1>5 DEF SaveFile, Completes
  <2> QED
      BY <1>0, <1>1, <1>2, <1>3, <2>1, <2>2 DEF Stores
<1>6. CASE SaveFails(c)
  <2>1. PICK data \in Decrypted(m) : chunks' = [chunks EXCEPT ![c][Key(m)] = Stored(c, m, data)]
      BY <1>6 DEF SaveFails
  <2>2. /\ count' = [count EXCEPT ![c][Key(m)] = count[c][Key(m)] + 1]
        /\ lost' = lost \cup {<<c, Key(m)>>}
      BY <1>6 DEF SaveFails
  <2> QED
      BY <1>0, <1>1, <1>2, <1>3, <2>1, <2>2 DEF Stores
<1> QED
    BY <1>4, <1>5, <1>6

\* What is kept of the files of others, and what is missed of them.
LEMMA CollectorStep ==
    ASSUME TypesHold, NEW c \in Client, Step(c)
    PROVE  /\ ready' \subseteq Client
           /\ chunks' \in [Client -> [FileKey -> Seq(Chunk \cup {NoChunk})]]
           /\ count' \in [Client -> [FileKey -> Nat]]
           /\ lost' \subseteq Client \X FileKey
<1>0. TypeOK
    BY DEF TypesHold
<1> PICK m : m = Head(queue[c])
    OBVIOUS
<1>1. CASE KeepChunk(c) \/ SaveFile(c) \/ SaveFails(c)
  <2>0. PICK data \in Decrypted(m), slots \in Seq(Chunk \cup {NoChunk}), n \in Nat :
           Stores(c, m, data, slots, n)
      BY <1>1, StoreStep
  <2>1. /\ Key(m) \in FileKey
        /\ chunks' = [chunks EXCEPT ![c][Key(m)] = slots]
        /\ count' = [count EXCEPT ![c][Key(m)] = n]
        /\ lost' \in {lost, lost \cup {<<c, Key(m)>>}}
      BY <1>1, <2>0, StoreStep DEF Stores
  <2>2. /\ chunks' \in [Client -> [FileKey -> Seq(Chunk \cup {NoChunk})]]
        /\ count' \in [Client -> [FileKey -> Nat]]
      BY <1>0, <2>1, PutEntry DEF TypeOK
  <2>3. ready' = ready
      BY <1>1 DEF KeepChunk, SaveFile, SaveFails
  <2> QED
      BY <1>0, <2>1, <2>2, <2>3 DEF TypeOK
<1>2. CASE SkipChunk(c)
  <2>1. Key(m) \in FileKey
      BY <1>0, <1>2, NextChunkFacts, SlotFacts DEF SkipChunk
  <2>2. lost' = lost \cup {<<c, Key(m)>>} /\ UNCHANGED <<ready, chunks, count>>
      BY <1>2 DEF SkipChunk, collector
  <2> QED
      BY <1>0, <2>1, <2>2 DEF TypeOK
<1>3. CASE PublishChunk(c)
  <2>1. Key(MessageOf(c)) \in FileKey
      BY <1>3, PublishChunkFacts DEF Key, FileKey, IsFile, Message
  <2>2. lost' = lost \cup Misses(MessageOf(c)) /\ UNCHANGED <<ready, chunks, count>>
      BY <1>3 DEF PublishChunk, collector
  <2>3. Misses(MessageOf(c)) \subseteq Client \X FileKey
      BY <2>1 DEF Misses
  <2>4. lost \subseteq Client \X FileKey
      BY <1>0 DEF TypeOK
  <2>5. /\ ready \subseteq Client
        /\ chunks \in [Client -> [FileKey -> Seq(Chunk \cup {NoChunk})]]
        /\ count \in [Client -> [FileKey -> Nat]]
      BY <1>0 DEF TypeOK
  <2> QED
      BY <2>2, <2>3, <2>4, <2>5
<1>4. CASE InitCipher(c)
    BY <1>0, <1>4 DEF InitCipher, TypeOK, collector
<1>5. CASE UNCHANGED <<ready, chunks, count, lost>>
    BY <1>0, <1>5 DEF TypeOK
<1> QED
    BY <1>1, <1>2, <1>3, <1>4, <1>5 DEF Step, Serve, Receive, ReceiveMessages,
       ReceiveMessagesFails, Kill, SendText, SendFile, Send, SendFails, PublishText,
       PublishFails, InsertText, ReceiveText, DecryptPanics, StorePanics, collector

\* The row of c's text is added to the table.
AddedRow(c) ==
    \E n \in Nat : /\ DOMAIN rows = 1..n /\ DOMAIN rows' = 1..(n + 1)
                   /\ \A i \in 1..n : rows'[i] = rows[i]
                   /\ rows'[n + 1] = Row(c)

\* What a step does to the table, and to what is known of its texts.
LEMMA TableStep ==
    ASSUME TypesHold, NEW c \in Client, Step(c)
    PROVE  /\ rows' \in Seq([id : Id, from : Client])
           /\ published' \subseteq Id /\ refused' \subseteq Id
           /\ \/ rows' = rows
              \/ AddedRow(c) /\ InsertText(c) /\ Row(c) = [id |-> call[c].id, from |-> c]
<1>0. /\ TypeOK /\ rows \in Seq([id : Id, from : Client])
      /\ published \subseteq Id /\ refused \subseteq Id /\ call[c].id \in Id
    BY MessageOfType DEF TypesHold, TypeOK
<1>1. CASE InsertText(c)
  <2>1. rows' \in {rows, Append(rows, Row(c))} /\ refused' \in {refused, refused \cup {call[c].id}}
        /\ published' = published
      BY <1>1 DEF InsertText
  <2>2. Row(c) \in [id : Id, from : Client]
      BY <1>0 DEF Row
  <2>3. ASSUME rows' = Append(rows, Row(c))
        PROVE  rows' \in Seq([id : Id, from : Client]) /\ AddedRow(c)
    <3>1. /\ rows' \in Seq([id : Id, from : Client]) /\ Len(rows') = Len(rows) + 1
          /\ \A i \in 1..Len(rows) : rows'[i] = rows[i]
          /\ rows'[Len(rows) + 1] = Row(c)
        BY <1>0, <2>2, <2>3, AppendProperties
    <3>2. Len(rows) \in Nat /\ DOMAIN rows = 1..Len(rows) /\ DOMAIN rows' = 1..(Len(rows) + 1)
        BY <1>0, <3>1, LenProperties
    <3> QED
        BY <3>1, <3>2 DEF AddedRow
  <2> QED
      BY <1>0, <1>1, <2>1, <2>3 DEF Row
<1>2. CASE PublishText(c)
    BY <1>0, <1>2 DEF PublishText
<1>3. CASE PublishFails(c)
    BY <1>0, <1>3 DEF PublishFails
<1>4. CASE UNCHANGED table
    BY <1>0, <1>4 DEF table
<1> QED
    BY <1>1, <1>2, <1>3, <1>4 DEF Step, Serve, Receive, ReceiveMessages, ReceiveMessagesFails,
       Kill, InitCipher, SendText, SendFile, Send, SendFails, PublishChunk, ReceiveText,
       SkipChunk, DecryptPanics, StorePanics, KeepChunk, SaveFile, SaveFails

\* The queues hold what the receiver may be given.
LEMMA QueuesKept ==
    ASSUME TypesHold, NEW c \in Client, Step(c)
    PROVE  QueuesHold'
<1> SUFFICES ASSUME NEW d \in Client
             PROVE  /\ status'[d] = "running" => stream'[d] \in {"none", "open"}
                    /\ stream'[d] = "none" => queue'[d] = <<>>
                    /\ \A i \in DOMAIN queue'[d] :
                          /\ queue'[d][i].from # d
                          /\ IsFile(queue'[d][i]) => queue'[d][i].index < queue'[d][i].total
    BY DEF QueuesHold, IsFile
<1>0. /\ TypeOK
      /\ status[d] = "running" => stream[d] \in {"none", "open"}
      /\ stream[d] = "none" => queue[d] = <<>>
      /\ \A i \in DOMAIN queue[d] :
            /\ queue[d][i].from # d
            /\ IsFile(queue[d][i]) => queue[d][i].index < queue[d][i].total
    BY DEF TypesHold, QueuesHold
<1>a. d # c => stream'[d] = stream[d] /\ status'[d] = status[d]
    BY StreamsStep
<1>b. /\ status'[c] = "running" => stream'[c] \in {"none", "open"}
      /\ stream'[c] = "none" => stream[c] = "none"
    BY StreamsStep
<1>1. status'[d] = "running" => stream'[d] \in {"none", "open"}
    BY <1>0, <1>a, <1>b
<1>2. stream'[d] = "none" => stream[d] = "none"
    BY <1>a, <1>b
<1>3. CASE queue'[d] = queue[d]
    BY <1>0, <1>1, <1>2, <1>3
<1>4. CASE queue'[d] = <<>>
    BY <1>1, <1>4
<1>5. CASE Consumed(d) /\ queue[c] # <<>> /\ d = c
    BY <1>0, <1>1, <1>2, <1>5, OldMessages DEF NothingNew
<1>6. CASE Grown(d, MessageOf(c)) /\ d # c /\ stream[d] \in {"open", "broken"}
           /\ (PublishChunk(c) \/ PublishText(c))
  <2>0. PICK m : m = MessageOf(c)
      OBVIOUS
  <2>1. m.from = c /\ (IsFile(m) => m.index < m.total)
      BY <1>0, <2>0, MessageOfType DEF TypesHold, CallsHold, IsFile
  <2>2. PICK n \in Nat : /\ DOMAIN queue[d] = 1..n /\ DOMAIN queue'[d] = 1..(n + 1)
                         /\ \A i \in 1..n : queue'[d][i] = queue[d][i]
                         /\ queue'[d][n + 1] = m
      BY <1>6, <2>0 DEF Grown
  <2>3. \A i \in DOMAIN queue'[d] : i = n + 1 \/ i \in 1..n
      BY <2>2
  <2>4. stream'[d] # "none"
      BY <1>2, <1>6
  <2> QED
      BY <1>0, <1>1, <1>6, <2>1, <2>2, <2>3, <2>4
<1> QED
    BY <1>3, <1>4, <1>5, <1>6, QueuesStep

\* A channel that dies only cuts queues.
LEMMA ChannelDiesTypes ==
    ASSUME TypesHold, ChannelDies
    PROVE  /\ TypesHold'
           /\ UNCHANGED <<stream, call, table, status, ready, cipher, collector, sends, lost>>
<1>1. /\ channel' = FALSE
      /\ UNCHANGED <<stream, call, table, status, ready, cipher, collector, sends, lost>>
    BY DEF ChannelDies
<1>2. queue' \in [Client -> Seq(Message)] /\ \A d \in Client : Cut(d) /\ NothingNew(d)
    BY ChannelDiesFacts, OldMessages DEF TypesHold
<1>3. TypeOK'
    BY <1>1, <1>2 DEF TypesHold, TypeOK, table, collector
<1>4. CallsHold'
    BY <1>1 DEF TypesHold, CallsHold, IsFile
<1>5. ASSUME NEW d \in Client
      PROVE  /\ status'[d] = "running" => stream'[d] \in {"none", "open"}
             /\ stream'[d] = "none" => queue'[d] = <<>>
             /\ \A i \in DOMAIN queue'[d] :
                   /\ queue'[d][i].from # d
                   /\ IsFile(queue'[d][i]) => queue'[d][i].index < queue'[d][i].total
  <2>1. /\ status[d] = "running" => stream[d] \in {"none", "open"}
        /\ stream[d] = "none" => queue[d] = <<>>
        /\ \A i \in DOMAIN queue[d] :
              /\ queue[d][i].from # d
              /\ IsFile(queue[d][i]) => queue[d][i].index < queue[d][i].total
      BY DEF TypesHold, QueuesHold
  <2>2. ASSUME queue[d] = <<>> PROVE queue'[d] = <<>>
    <3>1. PICK n \in Nat : DOMAIN queue'[d] = 1..n /\ DOMAIN queue'[d] \subseteq DOMAIN queue[d]
        BY <1>2 DEF Cut
    <3>a. queue[d] \in Seq(Message) /\ Len(queue[d]) = 0 /\ DOMAIN queue[d] = 1..0
        BY <2>2, Positions, EmptySeq DEF TypesHold
    <3>2. queue'[d] \in Seq(Message) /\ DOMAIN queue'[d] = {}
      <4>1. DOMAIN queue'[d] \subseteq 1..0 /\ 1..0 = {}
          BY <3>1, <3>a
      <4> QED
          BY <1>2, <4>1
    <3>3. Len(queue'[d]) \in Nat /\ DOMAIN queue'[d] = 1..Len(queue'[d])
        BY <3>2, LenProperties
    <3>4. Len(queue'[d]) = 0
      <4>1. ASSUME NEW k \in Nat, 1..k = {} PROVE k = 0
          BY <4>1
      <4>2. 1..Len(queue'[d]) = {}
          BY <3>2, <3>3
      <4> QED
          BY <3>3, <4>1, <4>2
    <3> QED
        BY <3>2, <3>4, EmptySeq
  <2> QED
      BY <1>1, <1>2, <2>1, <2>2 DEF NothingNew
<1> QED
    BY <1>1, <1>3, <1>4, <1>5 DEF TypesHold, QueuesHold, IsFile

\* No step changes the mode and the padding.
LEMMA CipherStays ==
    ASSUME NEW c \in Client, Step(c)
    PROVE  cipher' = cipher
BY DEF Step, Serve, Receive, ReceiveMessages, ReceiveMessagesFails, Kill, InitCipher, SendText,
   SendFile, Send, SendFails, PublishChunk, PublishText, PublishFails, InsertText, ReceiveText,
   SkipChunk, DecryptPanics, StorePanics, KeepChunk, SaveFile, SaveFails

\* Every step keeps the types, the calls and the queues.
LEMMA TypesKept ==
    ASSUME TypesHold, [Next]_vars
    PROVE  TypesHold'
<1>1. ASSUME NEW c \in Client, Step(c)
      PROVE  TypesHold'
  <2>1. TypeOK'
      BY <1>1, QueuesStep, CallsStep, StreamsStep, CollectorStep, TableStep, CipherStays
         DEF TypesHold, TypeOK, Status
  <2> QED
      BY <1>1, <2>1, CallsStep, QueuesKept DEF TypesHold
<1>2. CASE UNCHANGED vars
    BY <1>2 DEF TypesHold, TypeOK, CallsHold, QueuesHold, IsFile, vars, broker, table, collector
<1> QED
    BY <1>1, <1>2, ChannelDiesTypes DEF Next, Step

\* The first state.
LEMMA InitTypes ==
    ASSUME Init
    PROVE  TypesHold
<1>1. <<>> \in Seq(Message) /\ <<>> \in Seq([id : Id, from : Client])
      /\ <<>> \in Seq(Chunk \cup {NoChunk})
    BY EmptySeq
<1>2. Idle \in Call /\ 0 \in Id /\ Idle.name = NoName /\ Idle.pc = "idle"
    BY BoundsType DEF Idle, Call, Id
<1>3. TypeOK
    BY <1>1, <1>2 DEF Init, TypeOK, Status
<1>4. CallsHold
    BY <1>2 DEF Init, CallsHold, IsFile
<1>5. QueuesHold
    BY DEF Init, QueuesHold
<1> QED
    BY <1>3, <1>4, <1>5 DEF TypesHold

\* Calls, queues, tables and maps keep their types whatever is sent, missed
\* and lost: no chunk is published beyond a file's total, and none is stored
\* beyond its entry (server.go:480-585, client.go:383-445).
THEOREM Types == Spec => []TypeOK
<1>1. Spec => []TypesHold
    BY InitTypes, TypesKept, PTL DEF Spec
<1>2. TypesHold => TypeOK
    BY DEF TypesHold
<1> QED
    BY <1>1, <1>2, PTL

-----------------------------------------------------------------------------
(* The table.                                                              *)

\* A row's number is that of a send of its sender, before the one going on.
RowsHold ==
    \A i \in DOMAIN rows :
        /\ rows[i].id \in 1..sends /\ rows[i].id \in published
        /\ call[rows[i].from].pc # "idle" => rows[i].id < call[rows[i].from].id

\* The rows of one sender are in the order of its sends.
RowsOrdered ==
    \A i, j \in DOMAIN rows : i < j /\ rows[i].from = rows[j].from => rows[i].id < rows[j].id

\* A text that was published is in the table, refused, or being inserted.
Accounted(id) ==
    \/ \E i \in DOMAIN rows : rows[i].id = id
    \/ id \in refused
    \/ \E c \in Client : call[c].pc = "insert" /\ call[c].id = id

PublishedAccounted ==
    /\ \A c \in Client : call[c].pc = "insert" => call[c].id \in published
    /\ \A id \in published : Accounted(id)

TableHold == RowsHold /\ RowsOrdered /\ PublishedAccounted

TableInv == TypesHold /\ TableHold

\* What a step does to one call.
CallGoes(c) ==
    \/ call' = call /\ sends' = sends /\ table' = table
    \/ /\ call[c].pc = "idle" /\ call'[c].pc = "publish" /\ call'[c].id = sends + 1
       /\ sends' = sends + 1 /\ table' = table
    \/ /\ call[c].pc = "publish" /\ sends' = sends /\ table' = table
       /\ call'[c].pc = "publish" => call'[c].id = call[c].id
       /\ call'[c].pc \in {"idle", "publish"}
    \/ /\ call[c].pc = "publish" /\ sends' = sends
       /\ call'[c].pc = "insert" /\ call'[c].id = call[c].id
       /\ published' = published \cup {call[c].id} /\ UNCHANGED <<rows, refused>>
    \/ /\ call[c].pc = "publish" /\ sends' = sends /\ call'[c].pc = "idle"
       /\ refused \subseteq refused' /\ UNCHANGED <<rows, published>>
    \/ /\ call[c].pc = "insert" /\ sends' = sends /\ call'[c].pc = "idle"
       /\ UNCHANGED published /\ refused \subseteq refused'
       /\ \/ AddedRow(c)
          \/ rows' = rows /\ call[c].id \in refused'

\* The six ways a call goes.
LEMMA CallGoesStep ==
    ASSUME TypesHold, NEW c \in Client, Step(c)
    PROVE  CallGoes(c)
<1>0. /\ call \in [Client -> Call] /\ rows \in Seq([id : Id, from : Client])
      /\ call[c] \in Call /\ Idle.pc = "idle"
    BY DEF TypesHold, TypeOK, Idle
<1>1. CASE SendText(c) \/ SendFile(c)
  <2>1. PICK name \in Name \cup {NoName}, total \in 0..MaxChunks, k \in Call :
           /\ k = [pc |-> "publish", name |-> name, id |-> sends + 1, index |-> 0, total |-> total]
           /\ Send(c, name, total) /\ call' = [call EXCEPT ![c] = k] /\ sends' = sends + 1
      BY <1>1, SendFacts
  <2>2. call'[c].pc = "publish" /\ call'[c].id = sends + 1
      BY <1>0, <2>1
  <2> QED
      BY <2>1, <2>2 DEF CallGoes, Send, table
<1>2. CASE PublishChunk(c)
  <2>0. PICK m : m = MessageOf(c)
      OBVIOUS
  <2>1. /\ call[c].pc = "publish" /\ sends' = sends /\ table' = table /\ m.id = call[c].id
      BY <1>2, <2>0 DEF PublishChunk, MessageOf, table
  <2>2. call'[c].pc \in {"idle", "publish"} /\ (call'[c].pc = "publish" => call'[c].id = m.id)
    <3>1. CASE m.index + 1 = m.total
      <4>1. call' = [call EXCEPT ![c] = Idle]
          BY <1>2, <2>0, <3>1, PublishChunkFacts
      <4> QED
          BY <1>0, <4>1
    <3>2. CASE m.index + 1 # m.total
      <4>1. PICK k \in Call : call' = [call EXCEPT ![c] = k] /\ k.pc = "publish" /\ k.id = m.id
          BY <1>2, <2>0, <3>2, PublishChunkFacts
      <4> QED
          BY <1>0, <4>1
    <3> QED
        BY <3>1, <3>2
  <2> QED
      BY <2>1, <2>2 DEF CallGoes
<1>3. CASE PublishText(c)
  <2>1. call' = [call EXCEPT ![c] = [call[c] EXCEPT !.pc = "insert"]]
      BY <1>3 DEF PublishText
  <2>2. call'[c].pc = "insert" /\ call'[c].id = call[c].id
      BY <1>0, <2>1 DEF Call
  <2> QED
      BY <1>3, <2>2 DEF CallGoes, PublishText
<1>4. CASE PublishFails(c)
  <2>1. call'[c].pc = "idle"
      BY <1>0, <1>4 DEF PublishFails, Return
  <2> QED
      BY <1>4, <2>1 DEF CallGoes, PublishFails
<1>5. CASE InsertText(c)
  <2>1. call'[c].pc = "idle"
      BY <1>0, <1>5 DEF InsertText, Return
  <2>2. AddedRow(c) \/ rows' = rows
      BY <1>5, TableStep
  <2>3. /\ call[c].pc = "insert" /\ sends' = sends /\ published' = published
        /\ \/ rows' = Append(rows, Row(c)) /\ refused' = refused
           \/ refused' = refused \cup {call[c].id}
      BY <1>5 DEF InsertText
  <2>4. rows' = Append(rows, Row(c)) => rows' # rows
    <3>1. Row(c) \in [id : Id, from : Client]
        BY MessageOfType DEF Row, TypesHold
    <3> QED
        BY <1>0, <3>1, AppendProperties, LenProperties
  <2> QED
      BY <2>1, <2>2, <2>3, <2>4 DEF CallGoes
<1>6. CASE call' = call /\ sends' = sends /\ table' = table
    BY <1>6 DEF CallGoes
<1> QED
    BY <1>1, <1>2, <1>3, <1>4, <1>5, <1>6 DEF Step, Serve, Receive, ReceiveMessages,
       ReceiveMessagesFails, Kill, InitCipher, SendFails, ReceiveText, SkipChunk, DecryptPanics,
       StorePanics, KeepChunk, SaveFile, SaveFails, table

\* The rows after a step are those before it, and perhaps the one added last.
LEMMA RowsStep ==
    ASSUME TypesHold, NEW c \in Client, Step(c)
    PROVE  /\ \A i \in DOMAIN rows : i \in DOMAIN rows' /\ rows'[i] = rows[i]
           /\ \A i \in DOMAIN rows' \ DOMAIN rows :
                 /\ rows'[i].id = call[c].id /\ rows'[i].from = c /\ call[c].pc = "insert"
                 /\ \A j \in DOMAIN rows' : j \in DOMAIN rows \/ j = i
           /\ \A i \in DOMAIN rows, j \in DOMAIN rows' : j < i => j \in DOMAIN rows
           /\ DOMAIN rows' \subseteq Nat
<1>0. /\ Len(rows) \in Nat /\ DOMAIN rows = 1..Len(rows)
    BY LenProperties DEF TypesHold, TypeOK
<1>1. CASE rows' = rows
    BY <1>0, <1>1
<1>2. CASE AddedRow(c) /\ InsertText(c) /\ Row(c) = [id |-> call[c].id, from |-> c]
  <2>1. PICK n \in Nat : /\ DOMAIN rows = 1..n /\ DOMAIN rows' = 1..(n + 1)
                         /\ \A i \in 1..n : rows'[i] = rows[i]
                         /\ rows'[n + 1] = Row(c)
      BY <1>2 DEF AddedRow
  <2>2. call[c].pc = "insert" /\ rows'[n + 1].id = call[c].id /\ rows'[n + 1].from = c
      BY <1>2, <2>1 DEF InsertText
  <2>3. /\ 1..n \subseteq 1..(n + 1) /\ (1..(n + 1)) \ (1..n) = {n + 1} /\ n + 1 \notin 1..n
        /\ \A j \in 1..(n + 1) : j \in 1..n \/ j = n + 1
        /\ \A i \in 1..n, j \in 1..(n + 1) : j < i => j \in 1..n
      BY <2>1
  <2> QED
      BY <2>1, <2>2, <2>3
<1> QED
    BY <1>1, <1>2, TableStep

\* Rows stay below the call that goes on.
LEMMA RowsKept ==
    ASSUME TableInv, NEW c \in Client, Step(c)
    PROVE  RowsHold' /\ RowsOrdered'
<1>0. /\ TypesHold /\ RowsHold /\ RowsOrdered /\ PublishedAccounted /\ CallsHold
      /\ sends \in Nat /\ sends' \in Nat /\ sends <= sends'
      /\ \A i \in DOMAIN rows : rows[i].from \in Client
      /\ \A d \in Client \ {c} : call'[d] = call[d]
  <2>1. TypesHold /\ RowsHold /\ RowsOrdered /\ PublishedAccounted /\ CallsHold /\ TypeOK
      BY DEF TableInv, TableHold, TypesHold
  <2>2. sends' \in Id /\ sends <= sends' /\ \A d \in Client \ {c} : call'[d] = call[d]
      BY <2>1, CallsStep
  <2>3. sends \in Nat /\ sends' \in Nat
      BY <2>1, <2>2 DEF TypeOK, Id
  <2>4. rows \in Seq([id : Id, from : Client]) /\ DOMAIN rows = 1..Len(rows)
      BY <2>1, LenProperties DEF TypeOK
  <2>5. \A i \in DOMAIN rows : rows[i] \in [id : Id, from : Client]
      BY <2>4, ElementOfSeq
  <2> QED
      BY <2>1, <2>2, <2>3, <2>5
<1>1. CallGoes(c)
    BY <1>0, CallGoesStep
<1>2. published \subseteq published'
    BY <1>1 DEF CallGoes, table
<1>3. \A i \in DOMAIN rows : call'[c].pc # "idle" /\ rows[i].from = c => rows[i].id < call'[c].id
    BY <1>0, <1>1 DEF CallGoes, RowsHold
<1>4. RowsHold'
  <2> SUFFICES ASSUME NEW i \in DOMAIN rows'
               PROVE  /\ rows'[i].id \in 1..sends' /\ rows'[i].id \in published'
                      /\ call'[rows'[i].from].pc # "idle" => rows'[i].id < call'[rows'[i].from].id
      BY DEF RowsHold
  <2>1. CASE i \in DOMAIN rows
    <3>1. rows'[i] = rows[i] /\ rows[i].id \in 1..sends'
        BY <1>0, <2>1, RowsStep DEF RowsHold
    <3> QED
        BY <1>0, <1>2, <1>3, <2>1, <3>1 DEF RowsHold
  <2>2. CASE i \notin DOMAIN rows
    <3>1. rows'[i].id = call[c].id /\ rows'[i].from = c /\ call[c].pc = "insert"
        BY <1>0, <2>2, RowsStep
    <3>2. call'[c].pc = "idle"
        BY <1>1, <2>2, <3>1 DEF CallGoes, table
    <3>3. call[c].id \in 1..sends' /\ call[c].id \in published
        BY <1>0, <3>1 DEF CallsHold, PublishedAccounted
    <3> QED
        BY <1>2, <3>1, <3>2, <3>3
  <2> QED
      BY <2>1, <2>2
<1>5. RowsOrdered'
  <2> SUFFICES ASSUME NEW i \in DOMAIN rows', NEW j \in DOMAIN rows', i < j,
                      rows'[i].from = rows'[j].from
               PROVE  rows'[i].id < rows'[j].id
      BY DEF RowsOrdered
  <2>1. CASE j \in DOMAIN rows
    <3>1. i \in DOMAIN rows
        BY <1>0, <2>1, RowsStep
    <3> QED
        BY <1>0, <2>1, <3>1, RowsStep DEF RowsOrdered
  <2>2. CASE j \notin DOMAIN rows
    <3>1. rows'[j].id = call[c].id /\ rows'[j].from = c /\ call[c].pc = "insert"
          /\ (i \in DOMAIN rows \/ i = j)
        BY <1>0, <2>2, RowsStep
    <3>2. i # j
      <4>1. i \in Nat
          BY <1>0, RowsStep
      <4> QED
          BY <4>1
    <3> QED
        BY <1>0, <3>1, <3>2, RowsStep DEF RowsHold
  <2> QED
      BY <2>1, <2>2
<1> QED
    BY <1>4, <1>5

\* No published text is forgotten.
LEMMA PublishedKept ==
    ASSUME TableInv, NEW c \in Client, Step(c)
    PROVE  PublishedAccounted'
<1>0. /\ TypesHold /\ PublishedAccounted /\ RowsHold
      /\ \A d \in Client \ {c} : call'[d] = call[d]
    BY CallsStep DEF TableInv, TableHold
<1>1. CallGoes(c)
    BY <1>0, CallGoesStep
<1>2. published \subseteq published' /\ refused \subseteq refused'
    BY <1>1 DEF CallGoes, table
<1>3. ASSUME NEW d \in Client, call'[d].pc = "insert"
      PROVE  call'[d].id \in published'
  <2>1. CASE d = c
      BY <1>0, <1>1, <1>3, <2>1 DEF CallGoes, PublishedAccounted, table
  <2>2. CASE d # c
      BY <1>0, <1>2, <1>3, <2>2 DEF PublishedAccounted
  <2> QED
      BY <2>1, <2>2
<1>4. ASSUME NEW id \in published, Accounted(id)
      PROVE  Accounted(id)'
  <2>1. CASE \E i \in DOMAIN rows : rows[i].id = id
      BY <1>0, <2>1, RowsStep DEF Accounted
  <2>2. CASE id \in refused
      BY <1>2, <2>2 DEF Accounted
  <2>3. CASE \E d \in Client : call[d].pc = "insert" /\ call[d].id = id
    <3>1. PICK d \in Client : call[d].pc = "insert" /\ call[d].id = id
        BY <2>3
    <3>2. CASE call'[d] = call[d]
        BY <3>1, <3>2 DEF Accounted
    <3>3. CASE d = c /\ call'[c] # call[c]
      <4>1. AddedRow(c) \/ call[c].id \in refused'
          BY <1>1, <3>1, <3>3 DEF CallGoes
      <4>2. ASSUME AddedRow(c)
            PROVE  \E i \in DOMAIN rows' : rows'[i].id = id
        <5>1. PICK n \in Nat : DOMAIN rows' = 1..(n + 1) /\ rows'[n + 1] = Row(c)
            BY <4>2 DEF AddedRow
        <5> QED
            BY <3>1, <3>3, <5>1 DEF Row
      <4> QED
          BY <3>1, <3>3, <4>1, <4>2 DEF Accounted
    <3> QED
        BY <1>0, <3>2, <3>3
  <2> QED
      BY <1>4, <2>1, <2>2, <2>3 DEF Accounted
<1>5. ASSUME NEW id \in published', id \notin published
      PROVE  Accounted(id)'
    BY <1>1, <1>5 DEF CallGoes, Accounted, table
<1> QED
    BY <1>0, <1>3, <1>4, <1>5 DEF PublishedAccounted

\* Every step keeps the table in step with the calls.
LEMMA TableKept ==
    ASSUME TableInv, [Next]_vars
    PROVE  TableInv'
<1>1. TypesHold'
    BY TypesKept DEF TableInv
<1>2. ASSUME NEW c \in Client, Step(c)
      PROVE  TableHold'
    BY <1>2, RowsKept, PublishedKept DEF TableHold
<1>3. ASSUME UNCHANGED <<call, table, sends>>
      PROVE  TableHold'
    BY <1>3 DEF TableInv, TableHold, RowsHold, RowsOrdered, PublishedAccounted, Accounted, table
<1>4. CASE ChannelDies
    BY <1>1, <1>3, <1>4 DEF ChannelDies, TableInv
<1>5. CASE UNCHANGED vars
    BY <1>1, <1>3, <1>5 DEF vars, TableInv
<1> QED
    BY <1>1, <1>2, <1>4, <1>5 DEF Next, Step, TableInv

\* The empty table.
LEMMA InitTable ==
    ASSUME Init
    PROVE  TableInv
<1>1. rows = <<>> /\ published = {} /\ call = [c \in Client |-> Idle] /\ Idle.pc = "idle"
    BY DEF Init, Idle
<1>2. DOMAIN rows = {}
    BY <1>1
<1> QED
    BY <1>1, <1>2, InitTypes DEF TableInv, TableHold, RowsHold, RowsOrdered, PublishedAccounted

\* What a sender wrote after a text on the page stands before it there.
LEMMA PageOrdered ==
    ASSUME TableInv, NEW i \in DOMAIN History, NEW j \in DOMAIN rows,
           rows[j].from = History[i].from, rows[j].id > History[i].id
    PROVE  \E k \in DOMAIN History : k < i /\ History[k] = rows[j]
<1>1. rows \in Seq([id : Id, from : Client])
    BY DEF TableInv, TypesHold, TypeOK
<1>2. Len(rows) \in Nat /\ DOMAIN rows = 1..Len(rows)
    BY <1>1, LenProperties
<1> PICK n : n = IF Len(rows) < PageLimit THEN Len(rows) ELSE PageLimit
    OBVIOUS
<1> PICK len : len = Len(rows)
    OBVIOUS
<1>3. n \in Nat /\ n <= len /\ len \in Nat
    BY <1>2, BoundsType
<1>4. DOMAIN History = 1..n /\ \A k \in 1..n : History[k] = rows[len + 1 - k]
    BY DEF History
<1>5. i \in 1..n /\ j \in 1..len
    BY <1>2, <1>4
<1>6. len + 1 - i \in 1..len
    BY <1>3, <1>5
<1>7. len + 1 - i < j
  <2>1. ~(j < len + 1 - i) /\ j # len + 1 - i
    <3>1. rows[j].id \in Nat /\ rows[len + 1 - i].id \in Nat
        BY <1>2, <1>6 DEF TableInv, TableHold, RowsHold
    <3>2. ~(rows[j].id < rows[len + 1 - i].id) /\ rows[j].id # rows[len + 1 - i].id
        BY <1>4, <1>5, <3>1
    <3> QED
        BY <1>2, <1>4, <1>5, <1>6, <3>2 DEF TableInv, TableHold, RowsOrdered
  <2> QED
      BY <1>3, <1>5, <2>1
<1>8. /\ len + 1 - j \in 1..n /\ len + 1 - j < i
      /\ len + 1 - (len + 1 - j) = j
    BY <1>3, <1>5, <1>7
<1>9. History[len + 1 - j] = rows[j]
    BY <1>4, <1>8
<1> QED
    BY <1>4, <1>8, <1>9

\* The table has every text once, those of a sender in the order they were
\* sent and none that was never published; a published text is in it, refused,
\* or being inserted; and a page of the history leaves out old texts only
\* (server.go:440-478, 648).
THEOREM HistoryIsTold == Spec => []HistoryTold
<1>1. Spec => []TableInv
    BY InitTable, TableKept, PTL DEF Spec
<1>2. TableInv => HistoryTold
  <2> SUFFICES ASSUME TableInv PROVE HistoryTold
      OBVIOUS
  <2>1. \A i \in DOMAIN History, j \in DOMAIN rows :
           rows[j].from = History[i].from /\ rows[j].id > History[i].id =>
               \E k \in DOMAIN History : k < i /\ History[k] = rows[j]
      BY PageOrdered
  <2>2. RowsOrdered /\ RowsHold /\ PublishedAccounted
      BY DEF TableInv, TableHold
  <2> QED
      BY <2>1, <2>2 DEF RowsOrdered, RowsHold, PublishedAccounted, Accounted, HistoryTold
<1> QED
    BY <1>1, <1>2, PTL

-----------------------------------------------------------------------------
(* Files.                                                                  *)

\* Some file of key already has this copy number.
Taken(files, key, k) == \E f \in files : f.key = key /\ f.copy = k

\* What a receiver has on disk are finitely many files.
FilesHold ==
    /\ disk = [c \in Client |-> disk[c]]
    /\ \A c \in Client : IsFiniteSet(disk[c])

FilesInv == FilesHold /\ NothingOverwritten

\* Among one more numbers than there are files, one is free: no two numbers
\* are those of one file.
LEMMA SomeFree ==
    ASSUME NEW files, IsFiniteSet(files), NEW key
    PROVE  \E k \in 0..Cardinality(files) : ~Taken(files, key, k)
<1>1. Cardinality(files) \in Nat
    BY FS_CardinalityType
<1>2. /\ IsFiniteSet(0..Cardinality(files))
      /\ Cardinality(0..Cardinality(files)) = Cardinality(files) + 1
    BY <1>1, FS_Interval
<1> SUFFICES ASSUME \A k \in 0..Cardinality(files) : Taken(files, key, k)
             PROVE  FALSE
    OBVIOUS
<1> DEFINE of == [k \in 0..Cardinality(files) |-> CHOOSE f \in files : f.key = key /\ f.copy = k]
<1>3. ASSUME NEW k \in 0..Cardinality(files)
      PROVE  of[k] \in files /\ of[k].copy = k
    BY DEF Taken
<1>4. of \in [0..Cardinality(files) -> files]
    BY <1>3
<1> HIDE DEF of
<1>5. PICK i, j \in 0..Cardinality(files) : i # j /\ of[i] = of[j]
    BY <1>1, <1>2, <1>4, FS_PigeonHole
<1> QED
    BY <1>3, <1>5

Below == {pair \in Nat \X Nat : pair[1] < pair[2]}

\* A set of numbers that is not empty has a least one.
LEMMA LeastNumber ==
    ASSUME NEW S \in SUBSET Nat, S # {}
    PROVE  \E k \in S : \A j \in S : <<j, k>> \notin Below
<1>1. IsWellFoundedOn(Below, Nat)
    BY NatLessThanWellFounded, Zenon DEF OpToRel, Below
<1> QED
    BY <1>1, WFMin

\* So there is a first free one, and the copy that is written is free.
LEMMA FreeCopyIsFree ==
    ASSUME NEW c \in Client, IsFiniteSet(disk[c]), NEW key
    PROVE  ~Taken(disk[c], key, FreeCopy(c, key))
<1>1. Cardinality(disk[c]) \in Nat
    BY FS_CardinalityType
<1> DEFINE free == {k \in 0..Cardinality(disk[c]) : ~Taken(disk[c], key, k)}
<1>2. free \subseteq Nat /\ free # {}
    BY <1>1, SomeFree
<1>3. PICK k \in free : \A j \in free : <<j, k>> \notin Below
    BY <1>2, LeastNumber
<1>4. \A j \in 0..(k - 1) : Taken(disk[c], key, j)
  <2> SUFFICES ASSUME NEW j \in 0..(k - 1), ~Taken(disk[c], key, j) PROVE FALSE
      OBVIOUS
  <2>1. k \in Nat /\ k \in 0..Cardinality(disk[c])
      BY <1>2
  <2>2. j \in 0..Cardinality(disk[c]) /\ j < k /\ j \in Nat
      BY <1>1, <2>1
  <2>3. j \in free /\ <<j, k>> \in Below
      BY <2>1, <2>2 DEF Below
  <2> QED
      BY <1>3, <2>3
<1>5. \E i \in 0..Cardinality(disk[c]) :
         /\ ~ \E f \in disk[c] : f.key = key /\ f.copy = i
         /\ \A j \in 0..(i - 1) : \E f \in disk[c] : f.key = key /\ f.copy = j
    BY <1>3, <1>4 DEF Taken
<1> QED
    BY <1>5 DEF FreeCopy, Taken

\* What a step does to a disk: nothing, or a file is added under a free name.
LEMMA FilesStep ==
    ASSUME NEW c \in Client, Step(c)
    PROVE  \/ disk' = disk
           \/ /\ SaveFile(c) \/ SaveFails(c)
              /\ \E key, data, exact :
                    disk' = [disk EXCEPT ![c] =
                               @ \cup {File(key, FreeCopy(c, key), data, exact)}]
<1>1. CASE SaveFile(c)
    BY <1>1, Zenon DEF SaveFile
<1>2. CASE SaveFails(c)
    BY <1>2, Zenon DEF SaveFails
<1>3. CASE disk' = disk
    BY <1>3
<1> QED
    BY <1>1, <1>2, <1>3 DEF Step, Serve, Receive, ReceiveMessages, ReceiveMessagesFails, Kill,
       InitCipher, SendText, SendFile, Send, SendFails, PublishChunk, PublishText, PublishFails,
       InsertText, ReceiveText, SkipChunk, DecryptPanics, StorePanics, KeepChunk, collector

\* No file takes the place of another.
LEMMA FilesKept ==
    ASSUME FilesInv, [Next]_vars
    PROVE  FilesInv'
<1>1. ASSUME NEW c \in Client, Step(c)
      PROVE  FilesInv'
  <2>1. CASE disk' = disk
      BY <2>1 DEF FilesInv, FilesHold, NothingOverwritten
  <2>2. ASSUME NEW key, NEW data, NEW exact,
               disk' = [disk EXCEPT ![c] = @ \cup {File(key, FreeCopy(c, key), data, exact)}]
        PROVE  FilesInv'
    <3> PICK new : new = File(key, FreeCopy(c, key), data, exact)
        OBVIOUS
    <3>1. new.key = key /\ new.copy = FreeCopy(c, key)
        BY DEF File
    <3>2. /\ disk'[c] = disk[c] \cup {new}
          /\ \A d \in Client \ {c} : disk'[d] = disk[d]
          /\ disk' = [d \in Client |-> disk'[d]]
        BY <2>2 DEF FilesInv, FilesHold
    <3>3. IsFiniteSet(disk'[c])
        BY <3>2, FS_AddElement DEF FilesInv, FilesHold
    <3>4. ~Taken(disk[c], key, FreeCopy(c, key))
        BY FreeCopyIsFree DEF FilesInv, FilesHold
    <3>5. ASSUME NEW f \in disk'[c], NEW g \in disk'[c], f.key = g.key, f.copy = g.copy
          PROVE  f = g
        BY <3>1, <3>2, <3>4, <3>5 DEF Taken, FilesInv, NothingOverwritten
    <3> QED
        BY <3>2, <3>3, <3>5 DEF FilesInv, FilesHold, NothingOverwritten
  <2> QED
      BY <1>1, <2>1, <2>2, FilesStep
<1>2. CASE disk' = disk
    BY <1>2 DEF FilesInv, FilesHold, NothingOverwritten
<1> QED
    BY <1>1, <1>2 DEF Next, Step, ChannelDies, vars, collector

\* No received file is ever written over another: the name that is written
\* is the first that no file of that sender and name has (client.go:411-427).
THEOREM FilesKeepNames == Spec => []NothingOverwritten
<1>1. Init => FilesInv
    BY FS_EmptySet DEF Init, FilesInv, FilesHold, NothingOverwritten
<1>2. FilesInv => NothingOverwritten
    BY DEF FilesInv
<1> QED
    BY <1>1, <1>2, FilesKept, PTL DEF Spec

-----------------------------------------------------------------------------
(* Chunks.                                                                 *)

\* The i-th message of c's queue is a chunk of key.
Of(c, key, i) == IsFile(queue[c][i]) /\ Key(queue[c][i]) = key

\* No chunk of key is queued for c.
Nothing(c, key) == \A i \in DOMAIN queue[c] : ~Of(c, key, i)

\* m is the first chunk of key that is queued for c.
Opens(c, key, m) ==
    \E i \in DOMAIN queue[c] :
        /\ Of(c, key, i) /\ queue[c][i] = m
        /\ \A k \in DOMAIN queue[c] : k < i => ~Of(c, key, k)

\* m is the last one.
Closes(c, key, m) ==
    \E i \in DOMAIN queue[c] :
        /\ Of(c, key, i) /\ queue[c][i] = m
        /\ \A k \in DOMAIN queue[c] : i < k => ~Of(c, key, k)

\* y is the first one after x.
Meets(c, key, x, y) ==
    \E i, j \in DOMAIN queue[c] :
        /\ i < j /\ Of(c, key, i) /\ Of(c, key, j)
        /\ queue[c][i] = x /\ queue[c][j] = y
        /\ \A k \in DOMAIN queue[c] : i < k /\ k < j => ~Of(c, key, k)

\* After chunk x comes the next one of its file, or the first of another.
Follows(x, y) ==
    \/ y.id = x.id /\ y.total = x.total /\ y.index = x.index + 1
    \/ x.index + 1 = x.total /\ y.index = 0

\* m is the chunk that c's entry of key waits for.
Starts(c, key, m) ==
    IF chunks[c][key] = <<>> THEN m.index = 0
    ELSE /\ m.id = chunks[c][key][1].id
         /\ m.total = Len(chunks[c][key]) /\ m.index = count[c][key]

\* c's entry of key holds the first chunks of one file, and not all of them.
Collected(c, key) ==
    IF chunks[c][key] = <<>> THEN count[c][key] = 0
    ELSE /\ count[c][key] \in 1..(Len(chunks[c][key]) - 1)
         /\ chunks[c][key][1].id \in Id
         /\ \A i \in 1..Len(chunks[c][key]) :
               chunks[c][key][i] =
                 IF i <= count[c][key]
                 THEN [id |-> chunks[c][key][1].id, index |-> i - 1,
                       total |-> Len(chunks[c][key])]
                 ELSE NoChunk

\* The queued chunks of key go on where the entry ends, each after the other.
ChunksFollow(c, key) ==
    /\ \A m \in Message : Opens(c, key, m) => Starts(c, key, m)
    /\ \A x, y \in Message : Meets(c, key, x, y) => Follows(x, y)

\* The sender's call goes on where the queue ends.
UpToDate(c, key) ==
    IF call[key[1]].name = key[2]
    THEN /\ Nothing(c, key) => Starts(c, key, MessageOf(key[1]))
         /\ \A m \in Message : Closes(c, key, m) => Follows(m, MessageOf(key[1]))
    ELSE /\ Nothing(c, key) => chunks[c][key] = <<>>
         /\ \A m \in Message : Closes(c, key, m) => m.index + 1 = m.total

\* A receiver that runs and has lost no chunk of another's files of this name.
Whole(c, key) == status[c] = "running" /\ <<c, key>> \notin lost /\ key[1] # c

InStepFor(c, key) ==
    /\ Collected(c, key)
    /\ ChunksFollow(c, key)
    /\ channel => UpToDate(c, key)

InStep == \A c \in Client, key \in FileKey : Whole(c, key) => InStepFor(c, key)

\* A queue that is cut still goes on in the same way.
LEMMA CutChunks ==
    ASSUME TypeOK, NEW c \in Client, NEW key, Cut(c)
    PROVE  /\ \A m : Opens(c, key, m)' => Opens(c, key, m)
           /\ \A x, y : Meets(c, key, x, y)' => Meets(c, key, x, y)
<1>1. PICK n \in Nat : /\ DOMAIN queue'[c] = 1..n /\ DOMAIN queue'[c] \subseteq DOMAIN queue[c]
                       /\ \A i \in DOMAIN queue'[c] : queue'[c][i] = queue[c][i]
    BY DEF Cut
<1>2. \A k \in DOMAIN queue[c] : k \in Nat \ {0}
    BY Positions
<1>3. \A i \in 1..n : Of(c, key, i)' <=> Of(c, key, i)
    BY <1>1 DEF Of
<1>4. \A i \in 1..n, k \in DOMAIN queue[c] : k < i => k \in 1..n
    BY <1>1, <1>2
<1>5. ASSUME NEW m, Opens(c, key, m)' PROVE Opens(c, key, m)
    BY <1>1, <1>3, <1>4, <1>5 DEF Opens
<1>6. ASSUME NEW x, NEW y, Meets(c, key, x, y)' PROVE Meets(c, key, x, y)
    BY <1>1, <1>3, <1>4, <1>6 DEF Meets
<1> QED
    BY <1>5, <1>6

\* A message of another kind changes nothing for key.
LEMMA GrownOther ==
    ASSUME NEW c \in Client, NEW key, NEW m, Grown(c, m), ~(IsFile(m) /\ Key(m) = key)
    PROVE  /\ \A x : Opens(c, key, x)' => Opens(c, key, x)
           /\ \A x, y : Meets(c, key, x, y)' => Meets(c, key, x, y)
           /\ \A x : Closes(c, key, x)' => Closes(c, key, x)
           /\ Nothing(c, key)' => Nothing(c, key)
<1>1. PICK n \in Nat : /\ DOMAIN queue[c] = 1..n /\ DOMAIN queue'[c] = 1..(n + 1)
                       /\ \A i \in 1..n : queue'[c][i] = queue[c][i]
                       /\ queue'[c][n + 1] = m
    BY DEF Grown
<1>2. ~Of(c, key, n + 1)' /\ \A i \in 1..n : Of(c, key, i)' <=> Of(c, key, i)
    BY <1>1 DEF Of
<1>3. 1..n \subseteq 1..(n + 1) /\ \A k \in 1..(n + 1) : k \in 1..n \/ k = n + 1
    OBVIOUS
<1>4. ASSUME NEW x, Opens(c, key, x)' PROVE Opens(c, key, x)
    BY <1>1, <1>2, <1>3, <1>4 DEF Opens
<1>5. ASSUME NEW x, NEW y, Meets(c, key, x, y)' PROVE Meets(c, key, x, y)
    BY <1>1, <1>2, <1>3, <1>5 DEF Meets
<1>6. ASSUME NEW x, Closes(c, key, x)' PROVE Closes(c, key, x)
    BY <1>1, <1>2, <1>3, <1>6 DEF Closes
<1>7. Nothing(c, key)' => Nothing(c, key)
    BY <1>1, <1>2, <1>3 DEF Nothing
<1> QED
    BY <1>4, <1>5, <1>6, <1>7

\* A chunk of key comes last.
LEMMA GrownSame ==
    ASSUME NEW c \in Client, NEW key, NEW m, Grown(c, m), IsFile(m), Key(m) = key
    PROVE  /\ \A x : Opens(c, key, x)' => Opens(c, key, x) \/ (Nothing(c, key) /\ x = m)
           /\ \A x, y : Meets(c, key, x, y)' =>
                           Meets(c, key, x, y) \/ (Closes(c, key, x) /\ y = m)
           /\ \A x : Closes(c, key, x)' => x = m
           /\ ~Nothing(c, key)'
<1>1. PICK n \in Nat : /\ DOMAIN queue[c] = 1..n /\ DOMAIN queue'[c] = 1..(n + 1)
                       /\ \A i \in 1..n : queue'[c][i] = queue[c][i]
                       /\ queue'[c][n + 1] = m
    BY DEF Grown
<1>2. Of(c, key, n + 1)' /\ \A i \in 1..n : Of(c, key, i)' <=> Of(c, key, i)
    BY <1>1 DEF Of
<1>3. /\ 1..n \subseteq 1..(n + 1) /\ n + 1 \in 1..(n + 1)
      /\ \A k \in 1..(n + 1) : k \in 1..n \/ k = n + 1
      /\ \A k \in 1..n : k < n + 1
      /\ \A k \in 1..(n + 1) : ~(n + 1 < k)
    OBVIOUS
<1>4. ASSUME NEW x, Opens(c, key, x)'
      PROVE  Opens(c, key, x) \/ (Nothing(c, key) /\ x = m)
  <2>1. PICK i \in 1..(n + 1) : /\ Of(c, key, i)' /\ queue'[c][i] = x
                                /\ \A k \in 1..(n + 1) : k < i => ~Of(c, key, k)'
      BY <1>1, <1>4 DEF Opens
  <2>2. CASE i \in 1..n
      BY <1>1, <1>2, <1>3, <2>1, <2>2 DEF Opens
  <2>3. CASE i = n + 1
      BY <1>1, <1>2, <1>3, <2>1, <2>3 DEF Nothing
  <2> QED
      BY <1>3, <2>1, <2>2, <2>3
<1>5. ASSUME NEW x, NEW y, Meets(c, key, x, y)'
      PROVE  Meets(c, key, x, y) \/ (Closes(c, key, x) /\ y = m)
  <2>1. PICK i, j \in 1..(n + 1) :
           /\ i < j /\ Of(c, key, i)' /\ Of(c, key, j)'
           /\ queue'[c][i] = x /\ queue'[c][j] = y
           /\ \A k \in 1..(n + 1) : i < k /\ k < j => ~Of(c, key, k)'
      BY <1>1, <1>5 DEF Meets
  <2>2. i \in 1..n
      BY <1>3, <2>1
  <2>3. CASE j \in 1..n
      BY <1>1, <1>2, <1>3, <2>1, <2>2, <2>3 DEF Meets
  <2>4. CASE j = n + 1
      BY <1>1, <1>2, <1>3, <2>1, <2>2, <2>4 DEF Closes
  <2> QED
      BY <1>3, <2>1, <2>3, <2>4
<1>6. ASSUME NEW x, Closes(c, key, x)' PROVE x = m
    BY <1>1, <1>2, <1>3, <1>6 DEF Closes
<1>7. ~Nothing(c, key)'
    BY <1>1, <1>2, <1>3 DEF Nothing
<1> QED
    BY <1>4, <1>5, <1>6, <1>7

\* A head of another kind changes nothing for key.
LEMMA ConsumedOther ==
    ASSUME NEW c \in Client, NEW key, Consumed(c), ~Of(c, key, 1)
    PROVE  /\ \A x : Opens(c, key, x)' => Opens(c, key, x)
           /\ \A x, y : Meets(c, key, x, y)' => Meets(c, key, x, y)
           /\ \A x : Closes(c, key, x)' => Closes(c, key, x)
           /\ Nothing(c, key)' => Nothing(c, key)
<1>1. PICK n \in Nat : /\ DOMAIN queue[c] = 1..(n + 1) /\ DOMAIN queue'[c] = 1..n
                       /\ \A i \in 1..n : queue'[c][i] = queue[c][i + 1]
    BY DEF Consumed
<1>2. /\ \A i \in 1..n : i + 1 \in 1..(n + 1) /\ i + 1 # 1 /\ 1 < i + 1
      /\ \A k \in 1..(n + 1) : k = 1 \/ \E i \in 1..n : k = i + 1
      /\ \A i, j \in 1..n : i < j <=> i + 1 < j + 1
      /\ 1 \in 1..(n + 1)
  <2>1. \A k \in 1..(n + 1) : k = 1 \/ (k - 1 \in 1..n /\ k = (k - 1) + 1)
      OBVIOUS
  <2> QED
      BY <2>1
<1>3. \A i \in 1..n : Of(c, key, i)' <=> Of(c, key, i + 1)
    BY <1>1 DEF Of
<1>4. ASSUME NEW x, Opens(c, key, x)' PROVE Opens(c, key, x)
  <2>1. PICK i \in 1..n : /\ Of(c, key, i)' /\ queue'[c][i] = x
                          /\ \A k \in 1..n : k < i => ~Of(c, key, k)'
      BY <1>1, <1>4 DEF Opens
  <2>2. i + 1 \in 1..(n + 1) /\ Of(c, key, i + 1) /\ queue[c][i + 1] = x
      BY <1>1, <1>2, <1>3, <2>1
  <2>3. ASSUME NEW k \in 1..(n + 1), k < i + 1
        PROVE  ~Of(c, key, k)
    <3>1. CASE k = 1
        BY <3>1
    <3>2. CASE k # 1
      <4>1. PICK l \in 1..n : k = l + 1
          BY <1>2, <3>2
      <4>2. l < i
          BY <1>2, <2>3, <4>1
      <4> QED
          BY <1>3, <2>1, <4>1, <4>2
    <3> QED
        BY <3>1, <3>2
  <2> QED
      BY <1>1, <2>2, <2>3 DEF Opens
<1>5. ASSUME NEW x, NEW y, Meets(c, key, x, y)' PROVE Meets(c, key, x, y)
  <2>1. PICK i, j \in 1..n :
           /\ i < j /\ Of(c, key, i)' /\ Of(c, key, j)'
           /\ queue'[c][i] = x /\ queue'[c][j] = y
           /\ \A k \in 1..n : i < k /\ k < j => ~Of(c, key, k)'
      BY <1>1, <1>5 DEF Meets
  <2>2. /\ i + 1 \in 1..(n + 1) /\ j + 1 \in 1..(n + 1) /\ i + 1 < j + 1
        /\ Of(c, key, i + 1) /\ Of(c, key, j + 1)
        /\ queue[c][i + 1] = x /\ queue[c][j + 1] = y
      BY <1>1, <1>2, <1>3, <2>1
  <2>3. ASSUME NEW k \in 1..(n + 1), i + 1 < k, k < j + 1
        PROVE  ~Of(c, key, k)
    <3>1. k # 1
        BY <2>1, <2>3
    <3>2. PICK l \in 1..n : k = l + 1
        BY <1>2, <3>1
    <3>3. i < l /\ l < j
        BY <1>2, <2>3, <3>2
    <3> QED
        BY <1>3, <2>1, <3>2, <3>3
  <2> QED
      BY <1>1, <2>2, <2>3 DEF Meets
<1>6. ASSUME NEW x, Closes(c, key, x)' PROVE Closes(c, key, x)
  <2>1. PICK i \in 1..n : /\ Of(c, key, i)' /\ queue'[c][i] = x
                          /\ \A k \in 1..n : i < k => ~Of(c, key, k)'
      BY <1>1, <1>6 DEF Closes
  <2>2. i + 1 \in 1..(n + 1) /\ Of(c, key, i + 1) /\ queue[c][i + 1] = x
      BY <1>1, <1>2, <1>3, <2>1
  <2>3. ASSUME NEW k \in 1..(n + 1), i + 1 < k
        PROVE  ~Of(c, key, k)
    <3>1. k # 1
        BY <2>1, <2>3
    <3>2. PICK l \in 1..n : k = l + 1
        BY <1>2, <3>1
    <3>3. i < l
        BY <1>2, <2>3, <3>2
    <3> QED
        BY <1>3, <2>1, <3>2, <3>3
  <2> QED
      BY <1>1, <2>2, <2>3 DEF Closes
<1>7. ASSUME Nothing(c, key)', NEW k \in 1..(n + 1), k # 1
      PROVE  ~Of(c, key, k)
  <2>1. PICK i \in 1..n : k = i + 1
      BY <1>2, <1>7
  <2>2. ~Of(c, key, i)'
      BY <1>1, <1>7 DEF Nothing
  <2> QED
      BY <1>3, <2>1, <2>2
<1>8. Nothing(c, key)' => Nothing(c, key)
    BY <1>1, <1>7 DEF Nothing
<1> QED
    BY <1>4, <1>5, <1>6, <1>8

\* A head of key makes way for the next one.
LEMMA ConsumedSame ==
    ASSUME NEW c \in Client, NEW key, NEW m, Consumed(c), Of(c, key, 1), queue[c][1] = m
    PROVE  /\ Opens(c, key, m)
           /\ \A x : Opens(c, key, x)' => Meets(c, key, m, x)
           /\ \A x, y : Meets(c, key, x, y)' => Meets(c, key, x, y)
           /\ \A x : Closes(c, key, x)' => Closes(c, key, x)
           /\ Nothing(c, key)' => Closes(c, key, m)
<1>1. PICK n \in Nat : /\ DOMAIN queue[c] = 1..(n + 1) /\ DOMAIN queue'[c] = 1..n
                       /\ \A i \in 1..n : queue'[c][i] = queue[c][i + 1]
    BY DEF Consumed
<1>2. /\ \A i \in 1..n : i + 1 \in 1..(n + 1) /\ i + 1 # 1 /\ 1 < i + 1
      /\ \A k \in 1..(n + 1) : k = 1 \/ \E i \in 1..n : k = i + 1
      /\ \A i, j \in 1..n : i < j <=> i + 1 < j + 1
      /\ 1 \in 1..(n + 1)
  <2>1. \A k \in 1..(n + 1) : k = 1 \/ (k - 1 \in 1..n /\ k = (k - 1) + 1)
      OBVIOUS
  <2> QED
      BY <2>1
<1>3. \A i \in 1..n : Of(c, key, i)' <=> Of(c, key, i + 1)
    BY <1>1 DEF Of
<1>4. ASSUME NEW x, Opens(c, key, x)' PROVE Meets(c, key, m, x)
  <2>1. PICK i \in 1..n : /\ Of(c, key, i)' /\ queue'[c][i] = x
                          /\ \A k \in 1..n : k < i => ~Of(c, key, k)'
      BY <1>1, <1>4 DEF Opens
  <2>2. /\ i + 1 \in 1..(n + 1) /\ 1 < i + 1 /\ Of(c, key, i + 1) /\ queue[c][i + 1] = x
      BY <1>1, <1>2, <1>3, <2>1
  <2>3. ASSUME NEW k \in 1..(n + 1), 1 < k, k < i + 1
        PROVE  ~Of(c, key, k)
    <3>1. k # 1
        BY <2>3
    <3>2. PICK l \in 1..n : k = l + 1
        BY <1>2, <3>1
    <3>3. l < i
        BY <1>2, <2>3, <3>2
    <3> QED
        BY <1>3, <2>1, <3>2, <3>3
  <2> QED
      BY <1>1, <1>2, <2>2, <2>3 DEF Meets
<1>5. ASSUME NEW x, NEW y, Meets(c, key, x, y)' PROVE Meets(c, key, x, y)
  <2>1. PICK i, j \in 1..n :
           /\ i < j /\ Of(c, key, i)' /\ Of(c, key, j)'
           /\ queue'[c][i] = x /\ queue'[c][j] = y
           /\ \A k \in 1..n : i < k /\ k < j => ~Of(c, key, k)'
      BY <1>1, <1>5 DEF Meets
  <2>2. /\ i + 1 \in 1..(n + 1) /\ j + 1 \in 1..(n + 1) /\ i + 1 < j + 1
        /\ Of(c, key, i + 1) /\ Of(c, key, j + 1)
        /\ queue[c][i + 1] = x /\ queue[c][j + 1] = y
      BY <1>1, <1>2, <1>3, <2>1
  <2>3. ASSUME NEW k \in 1..(n + 1), i + 1 < k, k < j + 1
        PROVE  ~Of(c, key, k)
    <3>1. k # 1
        BY <2>1, <2>3
    <3>2. PICK l \in 1..n : k = l + 1
        BY <1>2, <3>1
    <3>3. i < l /\ l < j
        BY <1>2, <2>3, <3>2
    <3> QED
        BY <1>3, <2>1, <3>2, <3>3
  <2> QED
      BY <1>1, <2>2, <2>3 DEF Meets
<1>6. ASSUME NEW x, Closes(c, key, x)' PROVE Closes(c, key, x)
  <2>1. PICK i \in 1..n : /\ Of(c, key, i)' /\ queue'[c][i] = x
                          /\ \A k \in 1..n : i < k => ~Of(c, key, k)'
      BY <1>1, <1>6 DEF Closes
  <2>2. i + 1 \in 1..(n + 1) /\ Of(c, key, i + 1) /\ queue[c][i + 1] = x
      BY <1>1, <1>2, <1>3, <2>1
  <2>3. ASSUME NEW k \in 1..(n + 1), i + 1 < k
        PROVE  ~Of(c, key, k)
    <3>1. k # 1
        BY <2>1, <2>3
    <3>2. PICK l \in 1..n : k = l + 1
        BY <1>2, <3>1
    <3>3. i < l
        BY <1>2, <2>3, <3>2
    <3> QED
        BY <1>3, <2>1, <3>2, <3>3
  <2> QED
      BY <1>1, <2>2, <2>3 DEF Closes
<1>7. Opens(c, key, m)
    BY <1>1, <1>2 DEF Opens
<1>8. ASSUME Nothing(c, key)', NEW k \in 1..(n + 1), k # 1
      PROVE  ~Of(c, key, k)
  <2>1. PICK i \in 1..n : k = i + 1
      BY <1>2, <1>8
  <2>2. ~Of(c, key, i)'
      BY <1>1, <1>8 DEF Nothing
  <2> QED
      BY <1>3, <2>1, <2>2
<1>9. Nothing(c, key)' => Closes(c, key, m)
  <2>1. \A k \in 1..(n + 1) : 1 < k => k # 1
      OBVIOUS
  <2> QED
      BY <1>1, <1>2, <1>8, <2>1 DEF Closes
<1> QED
    BY <1>4, <1>5, <1>6, <1>7, <1>9

\* The next slot of an entry is the one its next chunk goes to.
LEMMA EntryFits ==
    ASSUME TypeOK, NEW c \in Client, NEW m \in Message, IsFile(m), m.index < m.total,
           Collected(c, Key(m)), Starts(c, Key(m), m)
    PROVE  /\ Len(Slots(c, m)) = m.total /\ count[c][Key(m)] = m.index
           /\ \A i \in 1..m.total :
                 Slots(c, m)[i] = IF i <= m.index
                                  THEN [id |-> m.id, index |-> i - 1, total |-> m.total]
                                  ELSE NoChunk
<1>1. /\ m.index \in Nat /\ m.total \in Nat
      /\ Slots(c, m) = IF chunks[c][Key(m)] # <<>> THEN chunks[c][Key(m)]
                       ELSE [i \in 1..m.total |-> NoChunk]
      /\ chunks[c][Key(m)] = <<>> => Len(Slots(c, m)) = m.total
    BY SlotFacts
<1>2. CASE chunks[c][Key(m)] = <<>>
  <2>1. /\ m.index = 0 /\ count[c][Key(m)] = 0 /\ Len(Slots(c, m)) = m.total
        /\ Slots(c, m) = [i \in 1..m.total |-> NoChunk]
      BY <1>1, <1>2 DEF Collected, Starts
  <2>2. \A i \in 1..m.total : ~(i <= m.index)
      BY <1>1, <2>1
  <2> QED
      BY <1>1, <2>1, <2>2
<1>3. CASE chunks[c][Key(m)] # <<>>
    BY <1>1, <1>3 DEF Collected, Starts
<1> QED
    BY <1>2, <1>3

\* As many numbers as the last one says.
LEMMA CountTo ==
    ASSUME NEW n \in Nat
    PROVE  Cardinality(1..n) = n
<1>1. 1 \in Int /\ n \in Int
    OBVIOUS
<1>2. Cardinality(1..n) = IF 1 > n THEN 0 ELSE n - 1 + 1
    BY <1>1, FS_Interval
<1> QED
    BY <1>2

\* Slots that are all filled are joined as they are.
LEMMA FilledWhole ==
    ASSUME NEW n \in Nat, NEW s, s = [i \in 1..n |-> s[i]], \A i \in 1..n : s[i] # NoChunk
    PROVE  Filled(s) = s
<1> DEFINE full == {i \in DOMAIN s : s[i] # NoChunk}
<1>1. DOMAIN s = 1..n /\ full = 1..n
    OBVIOUS
<1> HIDE DEF full
<1>2. Cardinality(full) = n
    BY <1>1, CountTo
<1> DEFINE nth(k) == CHOOSE i \in full : Cardinality({j \in full : j <= i}) = k
<1>3. ASSUME NEW k \in 1..n
      PROVE  nth(k) = k
  <2>1. ASSUME NEW i \in full
        PROVE  Cardinality({j \in full : j <= i}) = i
    <3>1. {j \in full : j <= i} = 1..i
        BY <1>1
    <3>2. i \in Nat
        BY <1>1
    <3> QED
        BY <3>1, <3>2, CountTo
  <2>2. k \in full
      BY <1>1
  <2> QED
      BY <2>1, <2>2
<1> HIDE DEF nth
<1>4. Filled(s) = [k \in 1..Cardinality(full) |-> s[nth(k)]]
    BY Zenon DEF Filled, full, nth
<1>5. Filled(s) = [k \in 1..n |-> s[k]]
    BY <1>2, <1>3, <1>4
<1> QED
    BY <1>5

\* Chunks stay missed and spoiled.
LEMMA LostGrows ==
    ASSUME TypesHold, NEW a \in Client, Step(a)
    PROVE  lost \subseteq lost'
<1>1. CASE KeepChunk(a) \/ SaveFile(a) \/ SaveFails(a)
    BY <1>1, StoreStep DEF Stores
<1> QED
    BY <1>1 DEF Step, Serve, Receive, ReceiveMessages, ReceiveMessagesFails, Kill, InitCipher,
       SendText, SendFile, Send, SendFails, PublishChunk, PublishText, PublishFails, InsertText,
       ReceiveText, SkipChunk, DecryptPanics, StorePanics

\* Who runs and has lost nothing of key after a step did so before it.
LEMMA WholeBefore ==
    ASSUME TypesHold, NEW a \in Client, Step(a), NEW c \in Client, NEW key, Whole(c, key)'
    PROVE  Whole(c, key)
<1>1. c # a => status'[c] = status[c]
    BY StreamsStep
<1>2. status'[a] = "running" => status[a] = "running"
    BY StreamsStep
<1> QED
    BY <1>1, <1>2, LostGrows DEF Whole

\* Only the receiver of a chunk writes the entry of its key.
LEMMA EntryStep ==
    ASSUME TypesHold, NEW a \in Client, Step(a), NEW c \in Client, NEW key \in FileKey
    PROVE  \/ chunks'[c][key] = chunks[c][key] /\ count'[c][key] = count[c][key]
           \/ /\ a = c /\ key = Key(Head(queue[c]))
              /\ KeepChunk(c) \/ SaveFile(c) \/ SaveFails(c)
<1>1. CASE KeepChunk(a) \/ SaveFile(a) \/ SaveFails(a)
  <2> PICK m : m = Head(queue[a])
      OBVIOUS
  <2>1. PICK data \in Decrypted(m), slots \in Seq(Chunk \cup {NoChunk}), n \in Nat :
           Stores(a, m, data, slots, n)
      BY <1>1, StoreStep
  <2>2. Key(m) \in FileKey
      BY <1>1, StoreStep
  <2>3. ASSUME <<c, key>> # <<a, Key(m)>>
        PROVE  chunks'[c][key] = chunks[c][key] /\ count'[c][key] = count[c][key]
    <3>1. /\ chunks' = [chunks EXCEPT ![a][Key(m)] = slots]
          /\ count' = [count EXCEPT ![a][Key(m)] = n]
        BY <2>1 DEF Stores
    <3>2. /\ chunks \in [Client -> [FileKey -> Seq(Chunk \cup {NoChunk})]]
          /\ count \in [Client -> [FileKey -> Nat]]
        BY DEF TypesHold, TypeOK
    <3>3. chunks'[c][key] = chunks[c][key]
        BY <2>2, <2>3, <3>1, <3>2, PutEntry
    <3>4. count'[c][key] = count[c][key]
        BY <2>2, <2>3, <3>1, <3>2, PutEntry
    <3> QED
        BY <3>3, <3>4
  <2> QED
      BY <1>1, <2>3
<1>2. CASE UNCHANGED <<chunks, count>>
    BY <1>2
<1> QED
    BY <1>1, <1>2 DEF Step, Serve, Receive, ReceiveMessages, ReceiveMessagesFails, Kill,
       InitCipher, SendText, SendFile, Send, SendFails, PublishChunk, PublishText, PublishFails,
       InsertText, ReceiveText, SkipChunk, DecryptPanics, StorePanics, collector

\* What a step does to the call that a file of this name could come from.
LEMMA SenderStep ==
    ASSUME TypesHold, NEW a \in Client, Step(a), NEW d \in Client, NEW name \in Name, channel'
    PROVE  \/ call'[d] = call[d]
           \/ call[d].name # name /\ call'[d].name = name /\ call'[d].index = 0
           \/ call[d].name # name /\ call'[d].name # name
           \/ a = d /\ PublishChunk(d) /\ call[d].name = name
<1>0. /\ call \in [Client -> Call] /\ NoName # name /\ Idle.name = NoName /\ channel
      /\ CallsHold
    BY StreamsStep, DistinctValues DEF TypesHold, TypeOK, Idle
<1>1. CASE a # d
    BY <1>1, CallsStep
<1>2. CASE a = d /\ (SendText(d) \/ SendFile(d))
  <2>1. PICK other \in Name \cup {NoName}, total \in 0..MaxChunks, k \in Call :
           /\ k = [pc |-> "publish", name |-> other, id |-> sends + 1, index |-> 0,
                   total |-> total]
           /\ Send(d, other, total) /\ call' = [call EXCEPT ![d] = k]
      BY <1>2, SendFacts
  <2>2. call[d].pc = "idle"
      BY <2>1 DEF Send
  <2>3. call[d].name = NoName
      BY <1>0, <2>2 DEF CallsHold
  <2>4. call'[d].index = 0
      BY <1>0, <2>1
  <2> QED
      BY <1>0, <2>3, <2>4
<1>3. CASE a = d /\ PublishChunk(d)
  <2> PICK m : m = MessageOf(d)
      OBVIOUS
  <2>1. m.name = call[d].name
      BY DEF MessageOf
  <2>2. CASE m.index + 1 = m.total
    <3>1. call' = [call EXCEPT ![d] = Idle]
        BY <1>3, <2>2, PublishChunkFacts
    <3> QED
        BY <1>0, <1>3, <3>1
  <2>3. CASE m.index + 1 # m.total
    <3>1. PICK k \in Call : call' = [call EXCEPT ![d] = k] /\ k.name = m.name
        BY <1>3, <2>3, PublishChunkFacts
    <3> QED
        BY <1>0, <1>3, <2>1, <3>1
  <2> QED
      BY <2>2, <2>3
<1>4. CASE a = d /\ PublishText(d)
  <2>1. call[d].name = NoName /\ call' = [call EXCEPT ![d] = [call[d] EXCEPT !.pc = "insert"]]
      BY <1>4 DEF PublishText, IsFile
  <2>2. call'[d].name = NoName
      BY <1>0, <2>1 DEF Call
  <2> QED
      BY <1>0, <2>1, <2>2
<1>5. CASE a = d /\ PublishFails(d)
    BY <1>0, <1>5 DEF PublishFails
<1>6. CASE a = d /\ InsertText(d)
  <2>1. call[d].name = NoName /\ call' = [call EXCEPT ![d] = Idle]
      BY <1>0, <1>6 DEF InsertText, Return, CallsHold
  <2> QED
      BY <1>0, <2>1
<1>7. CASE call' = call
    BY <1>7
<1> QED
    BY <1>1, <1>2, <1>3, <1>4, <1>5, <1>6, <1>7 DEF Step, Serve, Receive, ReceiveMessages,
       ReceiveMessagesFails, Kill, InitCipher, SendFails, ReceiveText, SkipChunk, DecryptPanics,
       StorePanics, KeepChunk, SaveFile, SaveFails

\* For key, the queue keeps its chunks, or some of them.
Narrowed(c, key) ==
    /\ \A x \in Message : Opens(c, key, x)' => Opens(c, key, x)
    /\ \A x, y \in Message : Meets(c, key, x, y)' => Meets(c, key, x, y)
    /\ \A x \in Message : Closes(c, key, x)' => Closes(c, key, x)
    /\ Nothing(c, key)' => Nothing(c, key)

\* A step that gives c no chunk of key and takes none.
LEMMA OtherStep ==
    ASSUME TypesHold, NEW c \in Client, NEW key \in FileKey, InStepFor(c, key),
           Narrowed(c, key), chunks'[c][key] = chunks[c][key], count'[c][key] = count[c][key],
           channel' => \/ call'[key[1]] = call[key[1]]
                       \/ /\ call[key[1]].name # key[2] /\ call'[key[1]].name = key[2]
                          /\ call'[key[1]].index = 0
                       \/ call[key[1]].name # key[2] /\ call'[key[1]].name # key[2],
           channel' => channel
    PROVE  InStepFor(c, key)'
<1>1. Collected(c, key)'
    BY DEF InStepFor, Collected
<1>2. \A m : Starts(c, key, m)' <=> Starts(c, key, m)
    BY DEF Starts
<1>3. ChunksFollow(c, key)'
    BY <1>2 DEF InStepFor, ChunksFollow, Narrowed
<1>4. ASSUME channel'
      PROVE  UpToDate(c, key)'
  <2>0. UpToDate(c, key)
      BY <1>4 DEF InStepFor
  <2>1. CASE call'[key[1]] = call[key[1]]
    <3>1. MessageOf(key[1])' = MessageOf(key[1])
        BY <2>1 DEF MessageOf
    <3>2. Starts(c, key, MessageOf(key[1]))' <=> Starts(c, key, MessageOf(key[1]))
        BY <3>1 DEF Starts
    <3>3. \A m : Follows(m, MessageOf(key[1]))' <=> Follows(m, MessageOf(key[1]))
        BY <3>1 DEF Follows
    <3> QED
        BY <2>0, <2>1, <3>2, <3>3 DEF UpToDate, Narrowed
  <2>2. CASE call[key[1]].name # key[2] /\ call'[key[1]].name = key[2]
             /\ call'[key[1]].index = 0
    <3>1. (MessageOf(key[1]).index)' = 0
        BY <2>2 DEF MessageOf
    <3>2. chunks[c][key] = <<>> => Starts(c, key, MessageOf(key[1]))'
        BY <3>1 DEF Starts
    <3>3. \A m : m.index + 1 = m.total => Follows(m, MessageOf(key[1]))'
        BY <3>1 DEF Follows
    <3> QED
        BY <2>0, <2>2, <3>2, <3>3 DEF UpToDate, Narrowed
  <2>3. CASE call[key[1]].name # key[2] /\ call'[key[1]].name # key[2]
      BY <2>0, <2>3 DEF UpToDate, Narrowed
  <2> QED
      BY <1>4, <2>1, <2>2, <2>3
<1> QED
    BY <1>1, <1>3, <1>4 DEF InStepFor

\* The chunk that the sender publishes is the one the receiver waits for.
LEMMA PublishedStep ==
    ASSUME TypesHold, NEW c \in Client, NEW key \in FileKey, Whole(c, key), InStepFor(c, key),
           PublishChunk(key[1]), call[key[1]].name = key[2], <<c, key>> \notin lost'
    PROVE  InStepFor(c, key)'
<1> PICK d : d = key[1]
    OBVIOUS
<1> PICK m : m = MessageOf(d)
    OBVIOUS
<1>0. /\ TypeOK /\ QueuesHold /\ d \in Client /\ d # c /\ d = key[1] /\ m = MessageOf(d)
      /\ call \in [Client -> Call] /\ status[c] = "running" /\ key = <<d, key[2]>>
      /\ key[2] \in Name
  <2>1. key[1] \in Client /\ key[2] \in Name /\ key = <<key[1], key[2]>>
      BY DEF FileKey
  <2> QED
      BY <2>1 DEF TypesHold, TypeOK, Whole
<1>1. /\ m \in Message /\ m.from = d /\ IsFile(m) /\ m.index < m.total /\ Broadcast(m)
      /\ lost' = lost \cup Misses(m) /\ channel /\ m.name = key[2]
      /\ m.index \in Nat /\ m.total \in Nat
    BY <1>0, PublishChunkFacts
<1>2. Key(m) = key
    BY <1>0, <1>1 DEF Key
<1>3. stream[c] = "open"
  <2>1. stream[c] \in {"none", "open"}
      BY <1>0 DEF QueuesHold
  <2>2. stream[c] # "none"
      BY <1>0, <1>1, <1>2 DEF Misses
  <2> QED
      BY <2>1, <2>2
<1>4. Grown(c, m)
    BY <1>0, <1>1, <1>3, BroadcastFacts
<1>5. UNCHANGED <<chunks, count, channel>>
    BY <1>0 DEF PublishChunk, collector
<1>6. Collected(c, key)' /\ \A x : Starts(c, key, x)' <=> Starts(c, key, x)
    BY <1>5 DEF InStepFor, Collected, Starts
<1>7. UpToDate(c, key) /\ ChunksFollow(c, key)
    BY <1>1 DEF InStepFor
<1>8. /\ Nothing(c, key) => Starts(c, key, m)
      /\ \A x \in Message : Closes(c, key, x) => Follows(x, m)
    BY <1>0, <1>7 DEF UpToDate
<1>9. ChunksFollow(c, key)'
    BY <1>1, <1>2, <1>4, <1>6, <1>7, <1>8, GrownSame DEF ChunksFollow
<1>10. ~Nothing(c, key)' /\ \A x \in Message : Closes(c, key, x)' => x = m
    BY <1>1, <1>2, <1>4, GrownSame
<1>11. UpToDate(c, key)'
  <2>1. CASE m.index + 1 = m.total
    <3>1. call' = [call EXCEPT ![d] = Idle]
        BY <1>0, <2>1, PublishChunkFacts
    <3>2. call'[d].name = NoName
        BY <1>0, <3>1 DEF Idle
    <3> QED
        BY <1>0, <1>10, <2>1, <3>2, DistinctValues DEF UpToDate
  <2>2. CASE m.index + 1 # m.total
    <3>1. PICK k \in Call : /\ call' = [call EXCEPT ![d] = k]
                            /\ k.name = m.name /\ k.id = m.id
                            /\ k.index = m.index + 1 /\ k.total = m.total
        BY <1>0, <2>2, PublishChunkFacts
    <3>2. call'[d] = k
        BY <1>0, <3>1
    <3>3. Follows(m, MessageOf(d)')
        BY <3>1, <3>2 DEF Follows, MessageOf
    <3>4. Follows(m, MessageOf(key[1]))'
        BY <1>0, <3>3 DEF Follows
    <3> QED
        BY <1>0, <1>1, <1>10, <3>1, <3>2, <3>4 DEF UpToDate
  <2> QED
      BY <2>1, <2>2
<1> QED
    BY <1>6, <1>9, <1>11 DEF InStepFor

\* What the entry is once the head, a chunk that came out right, is stored.
StoredRight(c, key, m) ==
    /\ count'[c][key] = m.index + 1
    /\ Len(chunks'[c][key]) = m.total /\ chunks'[c][key] # <<>>
    /\ \A i \in 1..m.total :
          chunks'[c][key][i] = IF i <= m.index + 1
                               THEN [id |-> m.id, index |-> i - 1, total |-> m.total]
                               ELSE NoChunk

\* A chunk that was waited for is the last of its file and the entry goes,
\* or it is stored and the entry grows.
LEMMA KeptStep ==
    ASSUME TypesHold, NEW c \in Client, KeepChunk(c) \/ SaveFile(c) \/ SaveFails(c),
           NEW m, m = Head(queue[c]), Collected(c, Key(m)), Starts(c, Key(m), m),
           <<c, Key(m)>> \notin lost'
    PROVE  \/ /\ m.index + 1 = m.total
              /\ chunks'[c][Key(m)] = <<>> /\ count'[c][Key(m)] = 0
           \/ m.index + 1 < m.total /\ StoredRight(c, Key(m), m)
<1>0. TypeOK /\ NextChunk(c) /\ m.index < Len(Slots(c, m)) /\ Key(m) \in FileKey
    BY StoreStep DEF TypesHold
<1>1. m \in Message /\ IsFile(m) /\ m.index < m.total
    BY <1>0, NextChunkFacts
<1>2. m.index \in Nat /\ m.total \in Nat
    BY <1>0, <1>1, SlotFacts
<1>3. /\ Len(Slots(c, m)) = m.total /\ count[c][Key(m)] = m.index
      /\ \A i \in 1..m.total :
            Slots(c, m)[i] = IF i <= m.index
                             THEN [id |-> m.id, index |-> i - 1, total |-> m.total]
                             ELSE NoChunk
    BY <1>0, <1>1, EntryFits
<1>4. PICK data \in Decrypted(m), slots \in Seq(Chunk \cup {NoChunk}), n \in Nat :
         Stores(c, m, data, slots, n)
    BY StoreStep
<1>5. data = [id |-> m.id, index |-> m.index, total |-> m.total]
    BY <1>0, <1>1, <1>4, SlotFacts DEF Stores
<1>6. chunks'[c][Key(m)] = slots /\ count'[c][Key(m)] = n
  <2>1. /\ chunks' = [chunks EXCEPT ![c][Key(m)] = slots]
        /\ count' = [count EXCEPT ![c][Key(m)] = n]
      BY <1>4 DEF Stores
  <2>2. /\ chunks \in [Client -> [FileKey -> Seq(Chunk \cup {NoChunk})]]
        /\ count \in [Client -> [FileKey -> Nat]]
      BY <1>0 DEF TypeOK
  <2>3. chunks'[c][Key(m)] = slots
      BY <1>0, <2>1, <2>2, PutEntry
  <2>4. count'[c][Key(m)] = n
      BY <1>0, <2>1, <2>2, PutEntry
  <2> QED
      BY <2>3, <2>4
<1>7. CASE slots = <<>> /\ n = 0 /\ count[c][Key(m)] + 1 = Len(Slots(c, m))
    BY <1>3, <1>6, <1>7
<1>8. CASE /\ slots = Stored(c, m, data) /\ n = count[c][Key(m)] + 1
           /\ count[c][Key(m)] + 1 # Len(Slots(c, m))
  <2>1. /\ Len(slots) = m.total /\ slots[m.index + 1] = data
        /\ \A i \in 1..m.total : i # m.index + 1 => slots[i] = Slots(c, m)[i]
      BY <1>0, <1>1, <1>3, <1>8, StoredFacts
  <2>2. slots # <<>>
      BY <1>1, <1>2, <2>1, EmptySeq
  <2>3. n = m.index + 1 /\ m.index + 1 < m.total
      BY <1>1, <1>2, <1>3, <1>8
  <2>4. ASSUME NEW i \in 1..m.total
        PROVE  slots[i] = IF i <= m.index + 1
                          THEN [id |-> m.id, index |-> i - 1, total |-> m.total]
                          ELSE NoChunk
    <3>1. CASE i = m.index + 1
      <4>1. i - 1 = m.index
          BY <1>2, <3>1
      <4> QED
          BY <1>5, <2>1, <3>1, <4>1
    <3>2. CASE i # m.index + 1
      <4>1. i <= m.index + 1 <=> i <= m.index
          BY <1>2, <3>2
      <4> QED
          BY <1>3, <2>1, <3>2, <4>1
    <3> QED
        BY <3>1, <3>2
  <2>5. StoredRight(c, Key(m), m)
      BY <1>6, <2>1, <2>2, <2>3, <2>4 DEF StoredRight
  <2> QED
      BY <2>3, <2>5
<1> QED
    BY <1>4, <1>7, <1>8 DEF Stores

\* The receiver stays in step when it reads a chunk of key.
LEMMA ConsumedStep ==
    ASSUME TypesHold, NEW c \in Client, NEW key \in FileKey, Whole(c, key), Whole(c, key)',
           InStepFor(c, key), Receive(c), Consumed(c), queue[c] # <<>>, Of(c, key, 1)
    PROVE  InStepFor(c, key)'
<1> PICK m : m = Head(queue[c])
    OBVIOUS
<1>0. /\ TypeOK /\ QueuesHold /\ CallsHold
      /\ queue[c] \in Seq(Message) /\ queue[c][1] = m /\ m = Head(queue[c])
      /\ 1 \in DOMAIN queue[c]
      /\ \A i \in DOMAIN queue[c] : queue[c][i] \in Message
  <2>1. TypeOK /\ Consume(c)
      BY DEF TypesHold, Receive, ReceiveText, SkipChunk, DecryptPanics, StorePanics, KeepChunk,
         SaveFile, SaveFails
  <2> QED
      BY <2>1, Positions, ConsumeFacts DEF TypesHold
<1>1. m \in Message /\ IsFile(m) /\ Key(m) = key /\ m.index < m.total
    BY <1>0 DEF Of, QueuesHold
<1>2. m.index \in Nat /\ m.total \in Nat
    BY <1>0, <1>1, SlotFacts
<1>3. KeepChunk(c) \/ SaveFile(c) \/ SaveFails(c)
  <2>1. ~ReceiveText(c)
      BY <1>0, <1>1 DEF ReceiveText
  <2>2. ~SkipChunk(c)
      BY <1>0, <1>1 DEF SkipChunk, Whole
  <2>3. ~StorePanics(c)
      BY <1>0 DEF StorePanics, Stops, Whole, TypeOK
  <2>4. ~DecryptPanics(c)
      BY <1>0 DEF DecryptPanics, Stops, Whole, TypeOK
  <2> QED
      BY <2>1, <2>2, <2>3, <2>4 DEF Receive
<1>4. /\ Opens(c, key, m)
      /\ \A x : Opens(c, key, x)' => Meets(c, key, m, x)
      /\ \A x, y : Meets(c, key, x, y)' => Meets(c, key, x, y)
      /\ \A x : Closes(c, key, x)' => Closes(c, key, x)
      /\ Nothing(c, key)' => Closes(c, key, m)
    BY <1>0, ConsumedSame
<1>5. Collected(c, key) /\ Starts(c, key, m) /\ ChunksFollow(c, key)
    BY <1>1, <1>4 DEF InStepFor, ChunksFollow
<1>6. \/ m.index + 1 = m.total /\ chunks'[c][key] = <<>> /\ count'[c][key] = 0
      \/ m.index + 1 < m.total /\ StoredRight(c, key, m)
    BY <1>0, <1>1, <1>3, <1>5, KeptStep DEF Whole
<1>7. UNCHANGED <<call, channel>>
    BY <1>3 DEF KeepChunk, SaveFile, SaveFails
<1>8. Collected(c, key)'
  <2>1. CASE m.index + 1 = m.total /\ chunks'[c][key] = <<>> /\ count'[c][key] = 0
      BY <2>1 DEF Collected
  <2>2. CASE m.index + 1 < m.total /\ StoredRight(c, key, m)
    <3>1. 1 \in 1..m.total /\ 1 <= m.index + 1 /\ m.index + 1 \in 1..(m.total - 1)
        BY <1>2, <2>2
    <3>2. chunks'[c][key][1].id = m.id /\ m.id \in Id
      <4>1. chunks'[c][key][1] = [id |-> m.id, index |-> 1 - 1, total |-> m.total]
          BY <2>2, <3>1 DEF StoredRight
      <4> QED
          BY <1>1, <4>1 DEF Message
    <3> QED
        BY <2>2, <3>1, <3>2 DEF StoredRight, Collected
  <2> QED
      BY <1>6, <2>1, <2>2
<1>9. ASSUME NEW y, Follows(m, y), y.index < y.total
      PROVE  Starts(c, key, y)'
  <2>1. CASE m.index + 1 = m.total /\ chunks'[c][key] = <<>>
    <3>1. y.index = 0
        BY <1>2, <1>9, <2>1 DEF Follows
    <3> QED
        BY <2>1, <3>1 DEF Starts
  <2>2. CASE m.index + 1 < m.total /\ StoredRight(c, key, m)
    <3>1. 1 \in 1..m.total /\ 1 <= m.index + 1 /\ m.index + 1 # m.total
        BY <1>2, <2>2
    <3>2. chunks'[c][key][1].id = m.id
      <4>1. chunks'[c][key][1] = [id |-> m.id, index |-> 1 - 1, total |-> m.total]
          BY <2>2, <3>1 DEF StoredRight
      <4> QED
          BY <4>1
    <3>3. y.id = m.id /\ y.total = m.total /\ y.index = m.index + 1
        BY <1>9, <3>1 DEF Follows
    <3> QED
        BY <2>2, <3>2, <3>3 DEF StoredRight, Starts
  <2> QED
      BY <1>6, <2>1, <2>2
<1>10. ChunksFollow(c, key)'
  <2>1. ASSUME NEW y \in Message, Opens(c, key, y)'
        PROVE  Starts(c, key, y)'
    <3>1. Meets(c, key, m, y)
        BY <1>4, <2>1
    <3>2. y.index < y.total
        BY <1>0, <3>1 DEF Meets, Of, QueuesHold
    <3> QED
        BY <1>1, <1>5, <1>9, <3>1, <3>2 DEF ChunksFollow
  <2> QED
      BY <1>4, <1>5, <2>1 DEF ChunksFollow, Follows
<1>11. ASSUME channel'
       PROVE  UpToDate(c, key)'
  <2>1. UpToDate(c, key)
      BY <1>7, <1>11 DEF InStepFor
  <2>2. key[1] \in Client /\ MessageOf(key[1])' = MessageOf(key[1])
      BY <1>7 DEF FileKey, MessageOf
  <2>3. CASE call[key[1]].name = key[2]
    <3>1. IsFile(call[key[1]])
        BY <2>3, DistinctValues DEF IsFile, FileKey
    <3>2. MessageOf(key[1]).index < MessageOf(key[1]).total
        BY <1>0, <2>2, <3>1 DEF CallsHold, MessageOf
    <3>3. ASSUME Nothing(c, key)'
          PROVE  Starts(c, key, MessageOf(key[1]))'
      <4>1. Follows(m, MessageOf(key[1]))
          BY <1>1, <1>4, <2>1, <2>3, <3>3 DEF UpToDate
      <4> PICK y : y = MessageOf(key[1])
          OBVIOUS
      <4>2. Starts(c, key, y)'
          BY <1>9, <3>2, <4>1
      <4> QED
          BY <2>2, <4>2 DEF Starts
    <3>4. ASSUME NEW x \in Message, Closes(c, key, x)'
          PROVE  Follows(x, MessageOf(key[1]))'
      <4>1. Follows(x, MessageOf(key[1]))
          BY <1>4, <2>1, <2>3, <3>4 DEF UpToDate
      <4> QED
          BY <2>2, <4>1 DEF Follows
    <3> QED
        BY <1>7, <2>3, <3>3, <3>4 DEF UpToDate
  <2>4. CASE call[key[1]].name # key[2]
    <3>1. ASSUME Nothing(c, key)'
          PROVE  chunks'[c][key] = <<>>
      <4>1. m.index + 1 = m.total
          BY <1>1, <1>4, <2>1, <2>4, <3>1 DEF UpToDate
      <4> QED
          BY <1>2, <1>6, <4>1
    <3> QED
        BY <1>4, <1>7, <2>1, <2>4, <3>1 DEF UpToDate
  <2> QED
      BY <2>3, <2>4
<1> QED
    BY <1>8, <1>10, <1>11 DEF InStepFor

\* Every step of a client or of its handlers keeps receivers in step.
LEMMA InStepStep ==
    ASSUME TypesHold, InStep, NEW a \in Client, Step(a)
    PROVE  InStep'
<1> SUFFICES ASSUME NEW c \in Client, NEW key \in FileKey, Whole(c, key)'
             PROVE  InStepFor(c, key)'
    BY DEF InStep
<1>0. /\ TypeOK /\ QueuesHold /\ key[1] \in Client /\ key[2] \in Name /\ key = <<key[1], key[2]>>
    BY DEF TypesHold, FileKey
<1>1. Whole(c, key) /\ InStepFor(c, key)
    BY WholeBefore DEF InStep
<1>2. CASE a = c /\ queue[c] # <<>> /\ Receive(c) /\ Consumed(c) /\ Of(c, key, 1)
    BY <1>1, <1>2, ConsumedStep
<1>3. CASE a = key[1] /\ PublishChunk(key[1]) /\ call[key[1]].name = key[2]
    BY <1>1, <1>3, PublishedStep DEF Whole
<1>4. ASSUME ~(a = c /\ queue[c] # <<>> /\ Receive(c) /\ Consumed(c) /\ Of(c, key, 1)),
             ~(a = key[1] /\ PublishChunk(key[1]) /\ call[key[1]].name = key[2])
      PROVE  InStepFor(c, key)'
  <2>1. chunks'[c][key] = chunks[c][key] /\ count'[c][key] = count[c][key]
    <3> SUFFICES ASSUME a = c, key = Key(Head(queue[c])),
                        KeepChunk(c) \/ SaveFile(c) \/ SaveFails(c)
                 PROVE  FALSE
        BY EntryStep
    <3>1. NextChunk(c) /\ Consume(c) /\ Receive(c)
        BY StoreStep DEF KeepChunk, SaveFile, SaveFails, Receive
    <3>2. queue[c] # <<>> /\ Of(c, key, 1)
        BY <3>1, NextChunkFacts DEF Of
    <3>3. Consumed(c)
        BY <1>0, <3>1, <3>2, ConsumeFacts
    <3> QED
        BY <1>4, <3>1, <3>2, <3>3
  <2>2. Narrowed(c, key)
    <3>1. CASE queue'[c] = queue[c]
      <4>1. /\ \A i : Of(c, key, i)' <=> Of(c, key, i)
            /\ DOMAIN queue'[c] = DOMAIN queue[c]
          BY <3>1 DEF Of
      <4> QED
          BY <3>1, <4>1 DEF Narrowed, Opens, Closes, Meets, Nothing
    <3>2. CASE SendFails(c)
        BY <1>0, <1>1, <3>2 DEF SendFails, QueuesHold, Whole
    <3>3. CASE Consumed(c) /\ c = a /\ Receive(a) /\ queue[a] # <<>>
        BY <1>4, <3>3, ConsumedOther DEF Narrowed
    <3>4. CASE Grown(c, MessageOf(a)) /\ (PublishChunk(a) \/ PublishText(a))
      <4> PICK m : m = MessageOf(a)
          OBVIOUS
      <4>1. ASSUME IsFile(m), Key(m) = key
            PROVE  FALSE
        <5>1. m.from = a /\ m.name = call[a].name
            BY DEF MessageOf
        <5>2. a = key[1] /\ call[a].name = key[2] /\ IsFile(call[a])
            BY <1>0, <4>1, <5>1 DEF Key, IsFile
        <5> QED
            BY <1>4, <3>4, <5>2 DEF PublishText
      <4> QED
          BY <3>4, <4>1, GrownOther DEF Narrowed
    <3> QED
        BY <3>1, <3>2, <3>3, <3>4, QueuesStep
  <2>3. channel' => \/ call'[key[1]] = call[key[1]]
                    \/ /\ call[key[1]].name # key[2] /\ call'[key[1]].name = key[2]
                       /\ call'[key[1]].index = 0
                    \/ call[key[1]].name # key[2] /\ call'[key[1]].name # key[2]
      BY <1>0, <1>4, SenderStep
  <2>4. channel' => channel
      BY StreamsStep
  <2> QED
      BY <1>1, <2>1, <2>2, <2>3, <2>4, OtherStep
<1> QED
    BY <1>2, <1>3, <1>4

\* When the channel dies nothing more is published, and queues go on as before.
LEMMA InStepDies ==
    ASSUME TypesHold, InStep, ChannelDies
    PROVE  InStep'
<1> SUFFICES ASSUME NEW c \in Client, NEW key \in FileKey, Whole(c, key)'
             PROVE  InStepFor(c, key)'
    BY DEF InStep
<1>1. channel' = FALSE /\ UNCHANGED <<chunks, count, status, lost>>
    BY DEF ChannelDies, collector
<1>2. Collected(c, key) /\ ChunksFollow(c, key)
    BY <1>1 DEF Whole, InStep, InStepFor
<1>3. Collected(c, key)' /\ \A m : Starts(c, key, m)' <=> Starts(c, key, m)
    BY <1>1, <1>2 DEF Collected, Starts
<1>4. Cut(c) /\ TypeOK
    BY ChannelDiesFacts DEF TypesHold
<1>5. /\ \A m : Opens(c, key, m)' => Opens(c, key, m)
      /\ \A x, y : Meets(c, key, x, y)' => Meets(c, key, x, y)
    BY <1>4, CutChunks
<1> QED
    BY <1>1, <1>2, <1>3, <1>5 DEF InStepFor, ChunksFollow

InStepInv == TypesHold /\ InStep

\* Every step keeps receivers in step.
LEMMA InStepKept ==
    ASSUME InStepInv, [Next]_vars
    PROVE  InStepInv'
<1>1. TypesHold'
    BY TypesKept DEF InStepInv
<1>2. CASE UNCHANGED vars
    BY <1>1, <1>2 DEF InStepInv, InStep, InStepFor, Whole, Collected, ChunksFollow, UpToDate,
       Opens, Closes, Meets, Nothing, Of, IsFile, Key, Follows, Starts, MessageOf,
       vars, broker, collector
<1> QED
    BY <1>1, <1>2, InStepStep, InStepDies DEF InStepInv, Next, Step

\* Nothing is queued, collected or sent at first.
LEMMA InitInStep ==
    ASSUME Init
    PROVE  InStepInv
<1> SUFFICES ASSUME NEW c \in Client, NEW key \in FileKey
             PROVE  InStepFor(c, key)
    BY InitTypes DEF InStepInv, InStep
<1>1. /\ queue[c] = <<>> /\ chunks[c][key] = <<>> /\ count[c][key] = 0
      /\ key[1] \in Client /\ key[2] \in Name
    BY DEF Init, FileKey
<1>2. call[key[1]].name = NoName
    BY <1>1 DEF Init, Idle
<1>3. DOMAIN queue[c] = {}
    BY <1>1
<1>4. Collected(c, key)
    BY <1>1 DEF Collected
<1>5. ChunksFollow(c, key)
    BY <1>3 DEF ChunksFollow, Opens, Meets
<1>6. UpToDate(c, key)
    BY <1>1, <1>2, <1>3, DistinctValues DEF UpToDate, Closes
<1> QED
    BY <1>4, <1>5, <1>6 DEF InStepFor

\* A receiver that dies storing a chunk has lost a chunk of that very key.
LEMMA PanicStep ==
    ASSUME InStepInv, NEW c \in Client, StorePanics(c)
    PROVE  \E key \in FileKey : <<c, key>> \in lost
<1> PICK m : m = Head(queue[c])
    OBVIOUS
<1>0. /\ TypeOK /\ TypesHold /\ InStep /\ NextChunk(c) /\ ~(m.index < Len(Slots(c, m)))
  <2>1. TypeOK /\ TypesHold /\ InStep /\ NextChunk(c) /\ m.index >= Len(Slots(c, m))
      BY DEF InStepInv, TypesHold, StorePanics
  <2>2. m \in Message /\ IsFile(m) /\ m.index < m.total
      BY <2>1, NextChunkFacts
  <2>3. m.index \in Nat /\ Len(Slots(c, m)) \in Nat
      BY <2>1, <2>2, SlotFacts
  <2> QED
      BY <2>1, <2>3
<1>1. /\ m \in Message /\ IsFile(m) /\ m.index < m.total /\ m.from # c /\ status[c] = "running"
      /\ 1 \in DOMAIN queue[c] /\ m = queue[c][1]
    BY <1>0, NextChunkFacts
<1>2. Key(m) \in FileKey /\ Key(m)[1] = m.from
    BY <1>0, <1>1, SlotFacts DEF Key
<1> SUFFICES ASSUME <<c, Key(m)>> \notin lost
             PROVE  FALSE
    BY <1>2
<1>3. InStepFor(c, Key(m))
    BY <1>0, <1>1, <1>2 DEF InStep, Whole
<1>4. Opens(c, Key(m), m)
  <2>1. \A k \in DOMAIN queue[c] : ~(k < 1)
      BY <1>0, Positions
  <2> QED
      BY <1>1, <2>1 DEF Opens, Of
<1>5. Len(Slots(c, m)) = m.total
    BY <1>0, <1>1, <1>3, <1>4, EntryFits DEF InStepFor, ChunksFollow
<1> QED
    BY <1>0, <1>1, <1>5

PanicInv == InStepInv /\ PanicNeedsLoss

\* Every step keeps it so: what was lost stays lost.
LEMMA PanicKept ==
    ASSUME PanicInv, [Next]_vars
    PROVE  PanicInv'
<1>1. InStepInv' /\ InStepInv /\ TypesHold
    BY InStepKept DEF PanicInv, InStepInv
<1>2. ASSUME NEW a \in Client, Step(a)
      PROVE  PanicNeedsLoss'
  <2>0. \A c \in Client : c # a => status'[c] = status[c]
      BY <1>1, <1>2, StreamsStep
  <2>1. ASSUME NEW c \in Client, status'[c] = "store panicked"
        PROVE  \E key \in FileKey : <<c, key>> \in lost'
    <3>1. status[c] = "store panicked" \/ StorePanics(c)
        BY <1>1, <1>2, <2>0, <2>1, StreamsStep
    <3>2. \E key \in FileKey : <<c, key>> \in lost
        BY <1>1, <3>1, PanicStep DEF PanicInv, PanicNeedsLoss
    <3> QED
        BY <1>1, <1>2, <3>2, LostGrows
  <2>2. ASSUME NEW c \in Client, status'[c] = "decrypt panicked"
        PROVE  cipher' = [mode |-> "RandomDelta", padding |-> "ANSIX923"]
    <3>1. status[c] = "decrypt panicked" \/ DecryptPanics(c)
        BY <1>1, <1>2, <2>0, <2>2, StreamsStep
    <3>2. cipher = [mode |-> "RandomDelta", padding |-> "ANSIX923"]
        BY <3>1 DEF PanicInv, PanicNeedsLoss, DecryptPanics
    <3> QED
        BY <1>2, <3>2, CipherStays
  <2> QED
      BY <2>1, <2>2 DEF PanicNeedsLoss
<1>3. CASE UNCHANGED <<status, cipher, lost>>
    BY <1>1, <1>3 DEF PanicInv, PanicNeedsLoss
<1> QED
    BY <1>1, <1>2, <1>3 DEF PanicInv, Next, Step, ChannelDies, vars

\* receiveMessages dies storing a chunk only after a chunk was lost or
\* spoiled, or a file could not be written: otherwise chunks come in the
\* order of their files, one file after the other, and an entry is as long
\* as the file its next chunk is of (client.go:383-389).  Else it dies in
\* Decrypt alone, of RandomDelta with ANSIX923 (symmetric.go:821).
THEOREM PanicsNeedLoss == Spec => []PanicNeedsLoss
<1>1. Init => PanicInv
  <2>1. Init => PanicNeedsLoss
      BY DEF Init, PanicNeedsLoss
  <2> QED
      BY <2>1, InitInStep DEF PanicInv
<1>2. PanicInv => PanicNeedsLoss
    BY DEF PanicInv
<1> QED
    BY <1>1, <1>2, PanicKept, PTL DEF Spec

\* data are the chunks of one file, all of them and in order.
WholeFile(data) ==
    \E id \in Id : data = [i \in 1..Len(data) |->
                             [id |-> id, index |-> i - 1, total |-> Len(data)]]

\* What is joined when nothing was lost is the file.
LEMMA SavedData ==
    ASSUME InStepInv, NEW c \in Client, SaveFile(c), NEW m, m = Head(queue[c]),
           NEW data \in Decrypted(m), data # Garbled, <<c, Key(m)>> \notin lost
    PROVE  WholeFile(Filled(Stored(c, m, data)))
<1>0. /\ TypeOK /\ TypesHold /\ InStep /\ NextChunk(c) /\ m.index < Len(Slots(c, m))
      /\ count[c][Key(m)] + 1 = Len(Slots(c, m))
    BY DEF InStepInv, TypesHold, SaveFile, Completes
<1>1. /\ m \in Message /\ IsFile(m) /\ m.index < m.total /\ m.from # c /\ status[c] = "running"
      /\ 1 \in DOMAIN queue[c] /\ m = queue[c][1]
    BY <1>0, NextChunkFacts
<1>2. /\ Key(m) \in FileKey /\ Key(m)[1] = m.from /\ m.index \in Nat /\ m.total \in Nat
      /\ data \in Chunk /\ data = [id |-> m.id, index |-> m.index, total |-> m.total]
    BY <1>0, <1>1, SlotFacts DEF Key
<1>3. InStepFor(c, Key(m))
    BY <1>0, <1>1, <1>2 DEF InStep, Whole
<1>4. Opens(c, Key(m), m)
  <2>1. \A k \in DOMAIN queue[c] : ~(k < 1)
      BY <1>0, Positions
  <2> QED
      BY <1>1, <2>1 DEF Opens, Of
<1>5. /\ Len(Slots(c, m)) = m.total /\ count[c][Key(m)] = m.index
      /\ \A i \in 1..m.total :
            Slots(c, m)[i] = IF i <= m.index
                             THEN [id |-> m.id, index |-> i - 1, total |-> m.total]
                             ELSE NoChunk
    BY <1>0, <1>1, <1>3, <1>4, EntryFits DEF InStepFor, ChunksFollow
<1> PICK s : s = Stored(c, m, data)
    OBVIOUS
<1>6. /\ s \in Seq(Chunk \cup {NoChunk}) /\ Len(s) = m.total /\ DOMAIN s = 1..m.total
      /\ s[m.index + 1] = data /\ m.index + 1 = m.total
      /\ \A i \in 1..m.total : i # m.index + 1 => s[i] = Slots(c, m)[i]
    BY <1>0, <1>1, <1>5, StoredFacts
<1>7. ASSUME NEW i \in 1..m.total
      PROVE  s[i] = [id |-> m.id, index |-> i - 1, total |-> m.total]
  <2>1. CASE i = m.index + 1
    <3>1. i - 1 = m.index
        BY <1>2, <2>1
    <3> QED
        BY <1>2, <1>6, <2>1, <3>1
  <2>2. CASE i # m.index + 1
    <3>1. i <= m.index
        BY <1>2, <1>6, <2>2
    <3> QED
        BY <1>5, <1>6, <2>2, <3>1
  <2> QED
      BY <2>1, <2>2
<1>8. s = [i \in 1..m.total |-> s[i]]
    BY <1>6, SeqDef
<1>9. ASSUME NEW i \in 1..m.total
      PROVE  s[i] # NoChunk
  <2>1. m.id \in Id /\ m.total \in 1..MaxChunks /\ i - 1 \in 0..(MaxChunks - 1)
      BY <1>1, <1>2, BoundsType DEF Message
  <2>2. [id |-> m.id, index |-> i - 1, total |-> m.total] \in Content
      BY <2>1 DEF Content
  <2> QED
      BY <1>7, <2>2, SlotValues DEF Chunk
<1>10. Filled(s) = s
    BY <1>2, <1>8, <1>9, FilledWhole
<1>11. s = [i \in 1..Len(s) |-> [id |-> m.id, index |-> i - 1, total |-> Len(s)]]
    BY <1>6, <1>7, <1>8
<1>12. WholeFile(s)
  <2>1. m.id \in Id
      BY <1>1 DEF Message
  <2> QED
      BY <1>11, <2>1 DEF WholeFile
<1> QED
    BY <1>10, <1>12

SavedInv == InStepInv /\ FilesInv /\ SavedExactly

\* A file that a step adds is whole when it is marked so.
LEMMA AddedFile ==
    ASSUME SavedInv, NEW c \in Client, SaveFile(c) \/ SaveFails(c)
    PROVE  \/ disk' = disk
           \/ \E new : /\ disk' = [disk EXCEPT ![c] = @ \cup {new}]
                       /\ new.exact => WholeFile(new.data)
<1> PICK m : m = Head(queue[c])
    OBVIOUS
<1>1. CASE SaveFile(c)
  <2>1. PICK data \in Decrypted(m) :
           disk' = [disk EXCEPT ![c] = @ \cup
                      {File(Key(m), FreeCopy(c, Key(m)), Filled(Stored(c, m, data)),
                            <<c, Key(m)>> \notin lost /\ data # Garbled)}]
      BY <1>1 DEF SaveFile
  <2> PICK new : new = File(Key(m), FreeCopy(c, Key(m)), Filled(Stored(c, m, data)),
                            <<c, Key(m)>> \notin lost /\ data # Garbled)
      OBVIOUS
  <2>2. /\ new.data = Filled(Stored(c, m, data))
        /\ new.exact = (<<c, Key(m)>> \notin lost /\ data # Garbled)
      BY DEF File
  <2>3. new.exact => WholeFile(new.data)
      BY <1>1, <2>2, SavedData DEF SavedInv
  <2> QED
      BY <2>1, <2>3
<1>2. CASE SaveFails(c)
  <2>1. \/ disk' = disk
        \/ disk' = [disk EXCEPT ![c] = @ \cup {File(Key(m), FreeCopy(c, Key(m)), <<>>, FALSE)}]
      BY <1>2 DEF SaveFails
  <2>2. ~File(Key(m), FreeCopy(c, Key(m)), <<>>, FALSE).exact
      BY DEF File
  <2> QED
      BY <2>1, <2>2
<1> QED
    BY <1>1, <1>2

\* Files stay, and those that are added are as they should be.
LEMMA SavedKept ==
    ASSUME SavedInv, [Next]_vars
    PROVE  SavedInv'
<1>1. InStepInv' /\ FilesInv'
    BY InStepKept, FilesKept DEF SavedInv
<1>2. ASSUME disk' = disk
      PROVE  SavedExactly'
    BY <1>2 DEF SavedInv, SavedExactly
<1>3. ASSUME NEW a \in Client, SaveFile(a) \/ SaveFails(a), disk' # disk
      PROVE  SavedExactly'
  <2>1. PICK new : /\ disk' = [disk EXCEPT ![a] = @ \cup {new}]
                   /\ new.exact => WholeFile(new.data)
      BY <1>3, AddedFile
  <2>2. \A c \in Client : disk'[c] \subseteq disk[c] \cup {new}
      BY <2>1 DEF SavedInv, FilesInv, FilesHold
  <2>3. ASSUME NEW c \in Client, NEW f \in disk'[c], f.exact
        PROVE  WholeFile(f.data)
    <3>1. CASE f = new
        BY <2>1, <2>3, <3>1
    <3>2. CASE f \in disk[c]
        BY <2>3, <3>2 DEF SavedInv, SavedExactly, WholeFile
    <3> QED
        BY <2>2, <3>1, <3>2
  <2> QED
      BY <2>3 DEF SavedExactly, WholeFile
<1>4. SavedExactly'
    BY <1>2, <1>3, FilesStep DEF SavedInv, Next, Step, ChannelDies, vars, collector
<1> QED
    BY <1>1, <1>4 DEF SavedInv

\* A receiver that has lost and spoiled no chunk of a sender's files of one
\* name saves such a file exactly as it was sent: all of its chunks in order
\* and none of another, though chunks are only counted and files of one name
\* share an entry (client.go:373-445).  A chunk that Decrypt made something
\* else of is spoiled, a file of one chunk without its zeros too.
THEOREM FilesSavedExactly == Spec => []SavedExactly
<1>1. Init => SavedInv
  <2>1. Init => SavedExactly
      BY DEF Init, SavedExactly
  <2>2. Init => FilesInv
      BY FS_EmptySet DEF Init, FilesInv, FilesHold, NothingOverwritten
  <2> QED
      BY <2>1, <2>2, InitInStep DEF SavedInv
<1>2. SavedInv => SavedExactly
    BY DEF SavedInv
<1> QED
    BY <1>1, <1>2, SavedKept, PTL DEF Spec
=============================================================================
