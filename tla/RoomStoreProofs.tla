-------------------------- MODULE RoomStoreProofs --------------------------
(***************************************************************************)
(* More proofs about RoomServer: what its memory, Redis and the broker     *)
(* have to do with each other.                                             *)
(***************************************************************************)
EXTENDS RoomServerProofs

-----------------------------------------------------------------------------
(* The broker: exchanges, their records in Redis, and the channel.         *)

\* A room whose id was handed out has had an exchange.
ExchangeKnown == \A r \in known : exchange[r] # "none"

\* What CreateRoom and CloseRoom rely on between their steps.
WriterKnows ==
    \A h \in Handler :
        /\ call[h].pc \in {"createRedis", "createExchange"} =>
              exchange[call[h].room] = "none"
        /\ call[h].pc = "createExchange" => call[h].room \in redisRooms
        /\ call[h].pc = "closeRedis" => exchange[call[h].room] = "deleted"

BrokerInv == ExchangeKnown /\ WriterKnows /\ ChannelLoss /\ RecordOutlivesExchange

\* Only the holder of roomsMutex declares and deletes, and the others wait:
\* what it knows about its room is true at its next step.
LEMMA OneWriter ==
    ASSUME LocksOwned, NEW g \in Handler, NEW h \in Handler, g # h,
           call[g].pc \in {"createRedis", "createExchange", "closeExchange", "closeRedis"}
    PROVE  call[h].pc \notin {"createRedis", "createExchange", "closeExchange", "closeRedis"}
BY DEF LocksOwned

\* A step of a call keeps the broker's part of the invariant.
LEMMA BrokerCall ==
    ASSUME Inv, BrokerInv, NEW h \in Handler, Acquire(h) \/ Continue(h), ~ComparePanic(h)
    PROVE  BrokerInv'
<1> DEFINE room == call[h].room
<1> USE DEF At, memory, redis, broker, ids
<1>0. /\ TypeOK /\ CallsWellFormed /\ LocksOwned /\ IdsFresh
      /\ exchange \in [Room -> {"none", "declared", "deleted"}]
      /\ rooms \subseteq Room /\ known \subseteq Room /\ channel \in BOOLEAN
    BY DEF Inv, TypeOK
<1>1. \A g \in Handler \ {h} : call'[g] = call[g]
    BY <1>0, OtherCalls
<1>2. CASE CreateRedis(h)
  <2>1. room \in Room /\ UNCHANGED <<server, rooms, exchange, channel, known>>
        /\ redisRooms \subseteq redisRooms'
      BY <1>0, <1>2, InCall DEF CreateRedis
  <2>2. \/ call'[h].pc = "idle"
        \/ call'[h].pc = "createExchange" /\ call'[h].room = room /\ room \in redisRooms'
      BY <1>0, <1>2, GotoFacts, ReturnFacts DEF CreateRedis
  <2>3. WriterKnows'
      BY <1>1, <1>2, <2>1, <2>2 DEF BrokerInv, WriterKnows, CreateRedis
  <2> QED
      BY <2>1, <2>3 DEF BrokerInv, ExchangeKnown, ChannelLoss, RecordOutlivesExchange
<1>3. CASE CreateExchange(h)
  <2>1. /\ room \in Room /\ UNCHANGED <<server, rooms, redisRooms, channel>>
        /\ call'[h].pc = "idle"
        /\ \/ UNCHANGED <<exchange, known>>
           \/ /\ exchange' = [exchange EXCEPT ![room] = "declared"]
              /\ known' = known \cup {room}
      BY <1>0, <1>3, InCall, ReturnFacts DEF CreateExchange
  <2>2. exchange[room] = "none" /\ room \in redisRooms
      BY <1>3 DEF CreateExchange, BrokerInv, WriterKnows
  <2>3. \A g \in Handler \ {h} :
            call[g].pc \notin {"createRedis", "createExchange", "closeExchange", "closeRedis"}
      BY <1>0, <1>3, OneWriter DEF CreateExchange
  <2>4. WriterKnows'
      BY <1>1, <2>1, <2>3 DEF WriterKnows
  <2> QED
      BY <1>0, <2>1, <2>2, <2>4 DEF BrokerInv, ExchangeKnown, ChannelLoss, RecordOutlivesExchange
<1>4. CASE CloseExchange(h)
  <2>1. /\ room \in Room /\ UNCHANGED <<server, rooms, redisRooms, channel, known>>
        /\ \/ UNCHANGED exchange /\ call'[h].pc = "idle"
           \/ /\ exchange' = [exchange EXCEPT ![room] = "deleted"]
              /\ call'[h].pc = "closeRedis" /\ call'[h].room = room
      BY <1>0, <1>4, InCall, GotoFacts, ReturnFacts DEF CloseExchange
  <2>2. \A g \in Handler \ {h} :
            call[g].pc \notin {"createRedis", "createExchange", "closeExchange", "closeRedis"}
      BY <1>0, <1>4, OneWriter DEF CloseExchange
  <2>3. WriterKnows'
      BY <1>0, <1>1, <2>1, <2>2 DEF WriterKnows
  <2> QED
      BY <1>0, <2>1, <2>3 DEF BrokerInv, ExchangeKnown, ChannelLoss, RecordOutlivesExchange
<1>5. CASE CloseRedis(h)
  <2>1. /\ UNCHANGED <<server, exchange, channel, known>>
        /\ rooms' \subseteq rooms
        /\ redisRooms \ {room} \subseteq redisRooms'
        /\ call'[h].pc = "idle"
      BY <1>0, <1>5, ReturnFacts DEF CloseRedis
  <2>2. exchange[room] = "deleted"
      BY <1>5 DEF CloseRedis, BrokerInv, WriterKnows
  <2>3. \A g \in Handler \ {h} :
            call[g].pc \notin {"createRedis", "createExchange", "closeExchange", "closeRedis"}
      BY <1>0, <1>5, OneWriter DEF CloseRedis
  <2>4. WriterKnows'
      BY <1>1, <2>1, <2>3 DEF WriterKnows
  <2> QED
      BY <2>1, <2>2, <2>4 DEF BrokerInv, ExchangeKnown, ChannelLoss, RecordOutlivesExchange
<1>6. CASE PublishKey(h) \/ PublishMessage(h) \/ BindQueue(h)
  <2>1. /\ UNCHANGED <<server, rooms, redisRooms, exchange, known>>
        /\ channel' = (channel /\ exchange[room] = "declared")
        /\ call'[h].pc \in {"idle", "fetchKeys"}
      BY <1>0, <1>6, GotoFacts, ReturnFacts DEF PublishKey, PublishMessage, BindQueue
  <2>2. room \in known /\ room \in Room
      BY <1>0, <1>6, InCall DEF PublishKey, PublishMessage, BindQueue, CallsWellFormed, PC
  <2>3. channel /\ ~channel' => exchange[room] = "deleted"
      BY <1>0, <2>1, <2>2 DEF BrokerInv, ExchangeKnown
  <2>4. ChannelLoss'
      BY <1>0, <2>1, <2>2, <2>3 DEF BrokerInv, ChannelLoss
  <2>5. WriterKnows'
      BY <1>1, <2>1 DEF BrokerInv, WriterKnows
  <2> QED
      BY <2>1, <2>4, <2>5 DEF BrokerInv, ExchangeKnown, RecordOutlivesExchange
<1>7. CASE \/ JoinEnter(h) \/ JoinInsert(h) \/ JoinRedis(h) \/ LeaveEnter(h)
           \/ LeaveRedis(h) \/ SetKey(h) \/ SaveKey(h) \/ FetchKeys(h)
           \/ CompareKeys(h) \/ LogAllKeys(h)
  <2>1. UNCHANGED <<server, rooms, redisRooms, exchange, channel, known>>
      BY <1>7 DEF JoinEnter, JoinInsert, JoinRedis, LeaveEnter, LeaveRedis, SetKey,
         SaveKey, FetchKeys, CompareKeys, LogAllKeys
  <2>2. call'[h].pc \notin {"createRedis", "createExchange", "closeRedis"}
      BY <1>0, <1>7, GotoFacts, ReturnFacts, CountedFacts DEF JoinEnter, JoinInsert,
         JoinRedis, LeaveEnter, LeaveRedis, SetKey, SaveKey, FetchKeys, CompareKeys, LogAllKeys
  <2>3. WriterKnows'
      BY <1>1, <2>1, <2>2 DEF BrokerInv, WriterKnows
  <2> QED
      BY <2>1, <2>3 DEF BrokerInv, ExchangeKnown, ChannelLoss, RecordOutlivesExchange
<1> QED
    BY <1>2, <1>3, <1>4, <1>5, <1>6, <1>7 DEF Acquire, Continue

\* A call that arrives keeps it: CreateRoom takes an id that left no trace.
LEMMA BrokerArrive ==
    ASSUME Inv, BrokerInv, NEW h \in Handler, Arrive(h)
    PROVE  BrokerInv'
<1>0. TypeOK /\ IdsFresh
    BY DEF Inv
<1>1. PICK c \in Client, r \in Room :
        \/ CreateRoom(h, c, r)
        \/ CloseRoom(h, c, r)
        \/ JoinRoom(h, c, r)
        \/ LeaveRoom(h, c, r)
        \/ \E k \in Key : SendPublicKey(h, c, r, k)
        \/ SendMessage(h, c, r)
        \/ ReceiveMessages(h, c, r)
    BY DEF Arrive
<1>2. UNCHANGED <<server, redisRooms, exchange, channel, known>>
    BY <1>1 DEF CreateRoom, CloseRoom, JoinRoom, LeaveRoom, SendPublicKey,
       SendMessage, ReceiveMessages, Lookup, memory, redis, broker, ids
<1>3. \/ CreateRoom(h, c, r) /\ rooms' = rooms \cup {r} /\ exchange[r] = "none"
      \/ rooms' = rooms
    BY <1>0, <1>1 DEF CreateRoom, CloseRoom, JoinRoom, LeaveRoom, SendPublicKey,
       SendMessage, ReceiveMessages, Lookup, memory, IdsFresh
<1>4. /\ \A g \in Handler \ {h} : call'[g] = call[g]
      /\ \/ call'[h].pc = "createRedis" /\ call'[h].room = r /\ exchange[r] = "none"
         \/ call'[h].pc \notin {"createRedis", "createExchange", "closeRedis"}
    BY <1>0, <1>1, BeginFacts DEF CreateRoom, CloseRoom, JoinRoom, LeaveRoom, SendPublicKey,
       SendMessage, ReceiveMessages, Lookup, IdsFresh
<1>5. WriterKnows'
    BY <1>2, <1>4 DEF BrokerInv, WriterKnows
<1>6. RecordOutlivesExchange'
    BY <1>2, <1>3 DEF BrokerInv, RecordOutlivesExchange
<1> QED
    BY <1>2, <1>5, <1>6 DEF BrokerInv, ExchangeKnown, ChannelLoss

\* Every step keeps it.
LEMMA BrokerNext == Inv /\ BrokerInv /\ [Next]_vars => BrokerInv'
<1> SUFFICES ASSUME Inv, BrokerInv, [Next]_vars PROVE BrokerInv'
    OBVIOUS
<1>1. ASSUME NEW how \in {"crashed", "panicked"}, Halt(how) PROVE BrokerInv'
    BY <1>1 DEF Halt, Idle, ids, BrokerInv, ExchangeKnown, WriterKnows, ChannelLoss,
       RecordOutlivesExchange
<1>2. CASE Restart
    BY <1>2 DEF Restart, redis, ids, BrokerInv, ExchangeKnown, WriterKnows, ChannelLoss,
       RecordOutlivesExchange
<1>3. CASE UNCHANGED vars
    BY <1>3 DEF vars, memory, redis, broker, ids, BrokerInv, ExchangeKnown, WriterKnows,
       ChannelLoss, RecordOutlivesExchange
<1> QED
    BY <1>1, <1>2, <1>3, BrokerArrive, BrokerCall DEF Next, Crash, ComparePanic

\* It holds from the start.
LEMMA BrokerInvariant == Spec => []BrokerInv
<1>1. Init => BrokerInv
    BY DEF Init, Idle, BrokerInv, ExchangeKnown, WriterKnows, ChannelLoss,
       RecordOutlivesExchange
<1> QED
    BY <1>1, BrokerNext, Invariant, PTL DEF Spec

\* However the calls of all rooms interleave on the one channel, a live
\* server loses it only after some CloseRoom has deleted an exchange
\* (server.go:124, 174, 321, 440, 507).
THEOREM ChannelOutlivesRooms == Spec => []ChannelLoss
<1>1. BrokerInv => ChannelLoss
    BY DEF BrokerInv
<1> QED
    BY <1>1, BrokerInvariant, PTL

\* A served room that has its exchange has its record in Redis, whichever
\* calls to the two stores fail (server.go:108-130, 172-189).
THEOREM RecordsOutlive == Spec => []RecordOutlivesExchange
<1>1. BrokerInv => RecordOutlivesExchange
    BY DEF BrokerInv
<1> QED
    BY <1>1, BrokerInvariant, PTL

-----------------------------------------------------------------------------
(* The keys in Redis.  A client that makes one call at a time has at most  *)
(* one handler, and nobody but that handler writes the client's entries:   *)
(* the locks would not be enough, as SendPublicKey drops room.mutex between*)
(* its two writes.                                                         *)

OneHandlerEach ==
    \A g, h \in Handler :
        g # h /\ call[g].pc # "idle" /\ call[h].pc # "idle"
            => call[g].client # call[h].client

\* What JoinRoom and SendPublicKey have stored for their client is still
\* there when they write to Redis.
WritesOwn ==
    \A h \in Handler :
        LET stored == clients[call[h].room][call[h].client] IN
        /\ call[h].pc = "joinRedis" => stored = NoKey
        /\ call[h].pc = "saveKey" => stored = call[h].key

KeySynced(r, c) ==
    \/ clients[r][c] \in {NoKey, Absent}
    \/ <<r, c>> \in unsynced
    \/ SavingKey(r, c)
    \/ redisKeys[r][c] = clients[r][c]

KeysInv ==
    OneCallEach => /\ OneHandlerEach
                   /\ WritesOwn
                   /\ \A r \in rooms, c \in Client : KeySynced(r, c)

\* A step inside a call starts no call, so no client gets a second one.
LEMMA OneHandlerStep ==
    ASSUME TypeOK, CallsWellFormed, OneHandlerEach, NEW h \in Handler,
           Acquire(h) \/ Continue(h), ~ComparePanic(h)
    PROVE  OneHandlerEach'
<1>1. /\ call[h].pc # "idle"
      /\ \A g \in Handler \ {h} : call'[g] = call[g]
    BY OtherCalls DEF Acquire, Continue, At, CreateRedis, CreateExchange, CloseExchange,
       CloseRedis, JoinEnter, JoinInsert, JoinRedis, LeaveEnter, LeaveRedis, SetKey, SaveKey,
       PublishKey, FetchKeys, CompareKeys, LogAllKeys, PublishMessage, BindQueue
<1>2. call'[h].pc = "idle" \/ call'[h].client = call[h].client
    BY GotoFacts, ReturnFacts, CountedFacts DEF Acquire, Continue, CreateRedis, CreateExchange,
       CloseExchange, CloseRedis, JoinEnter, JoinInsert, JoinRedis, LeaveEnter, LeaveRedis,
       SetKey, SaveKey, PublishKey, FetchKeys, CompareKeys, LogAllKeys, PublishMessage, BindQueue
<1> QED
    BY <1>1, <1>2 DEF OneHandlerEach

\* A step that writes no entry but its own client's leaves what it owes to
\* its own next step, and to its own entry.
LEMMA OwnEntries ==
    ASSUME TypeOK, CallsWellFormed, OneHandlerEach, WritesOwn, NEW h \in Handler,
           call[h].pc # "idle",
           \A g \in Handler \ {h} : call'[g] = call[g],
           \A r \in Room, c \in Client : c # call[h].client => clients'[r][c] = clients[r][c],
           call'[h].pc = "joinRedis" => clients'[call'[h].room][call'[h].client] = NoKey,
           call'[h].pc = "saveKey" => clients'[call'[h].room][call'[h].client] = call'[h].key
    PROVE  WritesOwn'
<1>1. ASSUME NEW g \in Handler \ {h}, call[g].pc # "idle"
      PROVE  clients'[call[g].room][call[g].client] = clients[call[g].room][call[g].client]
    BY <1>1, InCall DEF OneHandlerEach
<1> QED
    BY <1>1 DEF WritesOwn

\* Entries nobody wrote are as they were.
LEMMA OtherEntries ==
    ASSUME NEW r, NEW c, NEW h \in Handler,
           KeySynced(r, c), <<r, c>> # <<call[h].room, call[h].client>>,
           \A g \in Handler \ {h} : call'[g] = call[g],
           clients'[r][c] = clients[r][c],
           redisKeys'[r][c] = redisKeys[r][c],
           <<r, c>> \in unsynced => <<r, c>> \in unsynced'
    PROVE  KeySynced(r, c)'
<1>1. SavingKey(r, c) => SavingKey(r, c)'
    BY DEF SavingKey
<1> QED
    BY <1>1 DEF KeySynced

\* A step of a call keeps the agreement.
LEMMA KeysCall ==
    ASSUME OneCallEach, Inv, KeysInv, NEW h \in Handler, Acquire(h) \/ Continue(h),
           ~ComparePanic(h)
    PROVE  KeysInv'
<1> PICK r, c : r = call[h].room /\ c = call[h].client
    OBVIOUS
<1> DEFINE Synced == \A q \in rooms, d \in Client : KeySynced(q, d)
<1> USE DEF At, memory, redis, broker, ids
<1>0. /\ TypeOK /\ CallsWellFormed /\ OneHandlerEach /\ WritesOwn /\ Synced
      /\ rooms \subseteq Room
      /\ clients \in [Room -> [Client -> Key \cup {NoKey, Absent}]]
      /\ redisKeys \in [Room -> [Client -> Key \cup {NoKey}]]
    BY DEF Inv, TypeOK, KeysInv
<1>1. \A g \in Handler \ {h} : call'[g] = call[g]
    BY <1>0, OtherCalls
<1>2. OneHandlerEach'
    BY <1>0, OneHandlerStep
<1>3. SUFFICES WritesOwn' /\ Synced'
    BY <1>2 DEF KeysInv
<1>4. CASE SaveKey(h)
  <2>1. /\ r \in Room /\ c \in Client /\ call[h].pc = "saveKey"
        /\ UNCHANGED <<clients, rooms>>
        /\ call'[h].pc \in {"idle", "publishKey"}
      BY <1>0, <1>4, InCall, GotoFacts, ReturnFacts DEF SaveKey
  <2>2. WritesOwn'
      BY <1>0, <1>1, <2>1, OwnEntries
  <2>3. \A q \in Room, d \in Client : <<q, d>> # <<r, c>> =>
            redisKeys'[q][d] = redisKeys[q][d] /\ (<<q, d>> \in unsynced => <<q, d>> \in unsynced')
      BY <1>0, <1>4 DEF SaveKey
  <2>4. KeySynced(r, c)'
      BY <1>0, <1>4, <2>1 DEF SaveKey, WritesOwn, KeySynced
  <2>5. ASSUME NEW q \in rooms', NEW d \in Client, <<q, d>> # <<r, c>>
        PROVE  KeySynced(q, d)'
    <3>1. q \in rooms /\ q \in Room /\ clients'[q][d] = clients[q][d]
        BY <1>0, <2>1
    <3> QED
        BY <1>0, <1>1, <2>3, <2>5, <3>1, OtherEntries
  <2> QED
      BY <2>2, <2>4, <2>5
<1>5. CASE SetKey(h) \/ JoinInsert(h) \/ LeaveEnter(h)
  <2>1. /\ r \in Room /\ c \in Client /\ call[h].pc \notin {"idle", "saveKey"}
        /\ UNCHANGED <<rooms, redisKeys, unsynced>>
      BY <1>0, <1>5, InCall DEF SetKey, JoinInsert, LeaveEnter
  <2>2. \/ /\ UNCHANGED clients
           /\ call'[h].pc = "idle"
        \/ /\ clients' = [clients EXCEPT ![r][c] = call[h].key]
           /\ call'[h].pc = "saveKey" /\ call'[h].room = r /\ call'[h].client = c
           /\ call'[h].key = call[h].key
        \/ /\ clients' = [clients EXCEPT ![r][c] = NoKey]
           /\ call'[h].pc = "joinRedis" /\ call'[h].room = r /\ call'[h].client = c
        \/ /\ clients' = [clients EXCEPT ![r][c] = Absent]
           /\ call'[h].pc = "leaveRedis"
      BY <1>0, <1>5, GotoFacts, ReturnFacts DEF SetKey, JoinInsert, LeaveEnter
  <2>3. \A q \in Room, d \in Client : <<q, d>> # <<r, c>> => clients'[q][d] = clients[q][d]
      BY <1>0, <2>2
  <2>4. WritesOwn'
    <3>1. /\ call'[h].pc = "joinRedis" => clients'[call'[h].room][call'[h].client] = NoKey
          /\ call'[h].pc = "saveKey" => clients'[call'[h].room][call'[h].client] = call'[h].key
        BY <1>0, <2>1, <2>2
    <3> QED
        BY <1>0, <1>1, <2>1, <2>3, <3>1, OwnEntries
  <2>5. UNCHANGED clients \/ KeySynced(r, c)'
      BY <1>0, <2>1, <2>2 DEF KeySynced, SavingKey
  <2>6. ASSUME NEW q \in rooms', NEW d \in Client, <<q, d>> # <<r, c>>
        PROVE  KeySynced(q, d)'
    <3>1. q \in rooms /\ q \in Room /\ clients'[q][d] = clients[q][d]
        BY <1>0, <2>1, <2>3, <2>6
    <3> QED
        BY <1>0, <1>1, <2>1, <2>6, <3>1, OtherEntries
  <2>7. UNCHANGED clients /\ r \in rooms => KeySynced(r, c)'
    <3>1. SavingKey(r, c) => SavingKey(r, c)'
        BY <1>1, <2>1 DEF SavingKey
    <3> QED
        BY <1>0, <2>1, <3>1 DEF KeySynced
  <2> QED
      BY <2>1, <2>4, <2>5, <2>6, <2>7
<1>6. CASE JoinRedis(h) \/ LeaveRedis(h)
  <2>1. /\ r \in Room /\ c \in Client /\ call[h].pc \notin {"idle", "saveKey"}
        /\ UNCHANGED <<clients, rooms, redisKeys>>
        /\ call'[h].pc = "idle"
        /\ unsynced \ {<<r, c>>} \subseteq unsynced'
      BY <1>0, <1>6, InCall, ReturnFacts DEF JoinRedis, LeaveRedis, WriteMembers
  <2>2. WritesOwn'
      BY <1>0, <1>1, <2>1, OwnEntries
  <2>3. clients[r][c] \in {NoKey, Absent}
    <3>1. CASE JoinRedis(h)
        BY <1>0, <3>1 DEF JoinRedis, WritesOwn
    <3>2. CASE LeaveRedis(h)
        BY <2>1, <3>2 DEF LeaveRedis, Inv, HolderKnows, Members, Inside
    <3> QED
        BY <1>6, <3>1, <3>2
  <2>4. ASSUME NEW q \in rooms', NEW d \in Client, <<q, d>> # <<r, c>>
        PROVE  KeySynced(q, d)'
      BY <1>0, <1>1, <2>1, <2>4, OtherEntries
  <2> QED
      BY <2>1, <2>2, <2>3, <2>4 DEF KeySynced
<1>7. CASE CloseRedis(h)
  <2>1. /\ r \in Room /\ call[h].pc \notin {"idle", "saveKey"}
        /\ UNCHANGED clients
        /\ rooms' \subseteq rooms
        /\ call'[h].pc = "idle"
        /\ r \notin rooms' \/ {r} \X Client \subseteq unsynced'
      BY <1>0, <1>7, InCall, ReturnFacts DEF CloseRedis
  <2>2. \A q \in Room, d \in Client : q # r =>
            redisKeys'[q][d] = redisKeys[q][d] /\ (<<q, d>> \in unsynced => <<q, d>> \in unsynced')
      BY <1>0, <1>7 DEF CloseRedis
  <2>3. WritesOwn'
      BY <1>0, <1>1, <2>1, OwnEntries
  <2>4. ASSUME NEW q \in rooms', NEW d \in Client
        PROVE  KeySynced(q, d)'
    <3>1. CASE q = r
        BY <2>1, <3>1 DEF KeySynced
    <3>2. CASE q # r
      <4>1. q \in Room /\ q \in rooms /\ <<q, d>> # <<r, c>>
          BY <1>0, <2>1, <3>2
      <4> QED
          BY <1>0, <1>1, <2>1, <2>2, <3>2, <4>1, OtherEntries
    <3> QED
        BY <3>1, <3>2
  <2> QED
      BY <2>3, <2>4
<1>8. CASE \/ CreateRedis(h) \/ CreateExchange(h) \/ CloseExchange(h) \/ JoinEnter(h)
           \/ PublishKey(h) \/ FetchKeys(h) \/ CompareKeys(h) \/ LogAllKeys(h)
           \/ PublishMessage(h) \/ BindQueue(h)
  <2>1. /\ call[h].pc \notin {"idle", "saveKey"}
        /\ UNCHANGED <<clients, rooms, redisKeys, unsynced>>
      BY <1>8 DEF CreateRedis, CreateExchange, CloseExchange, JoinEnter, PublishKey,
         FetchKeys, CompareKeys, LogAllKeys, PublishMessage, BindQueue
  <2>2. call'[h].pc \notin {"joinRedis", "saveKey"}
      BY <1>0, <1>8, GotoFacts, ReturnFacts, CountedFacts DEF CreateRedis, CreateExchange,
         CloseExchange, JoinEnter, PublishKey, FetchKeys, CompareKeys, LogAllKeys,
         PublishMessage, BindQueue
  <2>3. WritesOwn'
      BY <1>1, <2>1, <2>2, <1>0 DEF WritesOwn
  <2>4. \A q, d : SavingKey(q, d) => SavingKey(q, d)'
      BY <1>1, <2>1 DEF SavingKey
  <2> QED
      BY <1>0, <2>1, <2>3, <2>4 DEF KeySynced
<1> QED
    BY <1>4, <1>5, <1>6, <1>7, <1>8 DEF Acquire, Continue

\* A call that arrives keeps it: the client has no other, and the room of a
\* CreateRoom has nobody in it.
LEMMA KeysArrive ==
    ASSUME OneCallEach, Inv, KeysInv, NEW h \in Handler, Arrive(h)
    PROVE  KeysInv'
<1>0. TypeOK /\ IdsFresh /\ OneHandlerEach /\ WritesOwn
    BY DEF Inv, KeysInv
<1>1. PICK c \in Client, r \in Room :
        \/ CreateRoom(h, c, r)
        \/ CloseRoom(h, c, r)
        \/ JoinRoom(h, c, r)
        \/ LeaveRoom(h, c, r)
        \/ \E k \in Key : SendPublicKey(h, c, r, k)
        \/ SendMessage(h, c, r)
        \/ ReceiveMessages(h, c, r)
    BY DEF Arrive
<1>2. UNCHANGED <<clients, redisKeys, unsynced>>
    BY <1>1 DEF CreateRoom, CloseRoom, JoinRoom, LeaveRoom, SendPublicKey,
       SendMessage, ReceiveMessages, Lookup, memory, redis, broker, ids
<1>3. /\ call[h].pc = "idle"
      /\ \A g \in Handler : call[g].client # c
      /\ \A g \in Handler \ {h} : call'[g] = call[g]
      /\ call'[h].client = c
      /\ call'[h].pc \notin {"joinRedis", "saveKey"}
    BY <1>0, <1>1, BeginFacts DEF CreateRoom, CloseRoom, JoinRoom, LeaveRoom, SendPublicKey,
       SendMessage, ReceiveMessages, Lookup, Arrives, At
<1>4. rooms' = rooms \/ (rooms' = rooms \cup {r} /\ \A d \in Client : clients[r][d] = Absent)
    BY <1>0, <1>1 DEF CreateRoom, CloseRoom, JoinRoom, LeaveRoom, SendPublicKey,
       SendMessage, ReceiveMessages, Lookup, memory, IdsFresh
<1>5. OneHandlerEach'
    BY <1>0, <1>3 DEF OneHandlerEach
<1>6. WritesOwn'
    BY <1>0, <1>2, <1>3 DEF WritesOwn
<1>7. \A q, d : SavingKey(q, d) => SavingKey(q, d)'
    BY <1>3 DEF SavingKey
<1>8. \A q \in rooms', d \in Client : KeySynced(q, d)'
    BY <1>2, <1>4, <1>7 DEF KeysInv, KeySynced
<1> QED
    BY <1>5, <1>6, <1>8 DEF KeysInv

\* Every step keeps it.
LEMMA KeysNext == Inv /\ KeysInv /\ [Next]_vars => KeysInv'
<1> SUFFICES ASSUME OneCallEach, Inv, KeysInv, [Next]_vars PROVE KeysInv'
    BY DEF KeysInv
<1>1. ASSUME NEW how \in {"crashed", "panicked"}, Halt(how) PROVE KeysInv'
    BY <1>1 DEF Halt, Idle, KeysInv, OneHandlerEach, WritesOwn
<1>2. CASE Restart
    BY <1>2 DEF Restart, redis, KeysInv, OneHandlerEach, WritesOwn, KeySynced, SavingKey
<1>3. CASE UNCHANGED vars
    BY <1>3 DEF vars, memory, redis, KeysInv, OneHandlerEach, WritesOwn, KeySynced, SavingKey
<1> QED
    BY <1>1, <1>2, <1>3, KeysArrive, KeysCall DEF Next, Crash, ComparePanic

\* A client that waits for each answer before its next call finds in Redis
\* the key the room has for it, unless a write of its own failed, though
\* the two are written under different locks (server.go:308-312).
THEOREM KeysAgree == Spec => []KeyStoreAgreement
<1>1. Init => KeysInv
    BY DEF Init, Idle, KeysInv, OneHandlerEach, WritesOwn
<1>2. KeysInv => KeyStoreAgreement
    BY DEF KeysInv, KeyStoreAgreement, KeySynced
<1> QED
    BY <1>1, <1>2, KeysNext, Invariant, PTL DEF Spec
=============================================================================
