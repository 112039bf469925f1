-------------------------- MODULE RoomServerProofs --------------------------
(***************************************************************************)
(* Proofs about RoomServer, for any finite set of clients and any sets of  *)
(* rooms, keys and handlers.                                               *)
(***************************************************************************)
EXTENDS RoomServer, FiniteSetTheorems, TLAPS

\* Counting the clients with some property is counting a finite set.
LEMMA CountClients ==
    ASSUME NEW S, S \subseteq Client
    PROVE  IsFiniteSet(S) /\ Cardinality(S) \in Nat
BY FiniteClients, FS_Subset, FS_CardinalityType

-----------------------------------------------------------------------------
(* Type correctness.                                                       *)

\* Moving a call to another step, ending it and starting one.
LEMMA GotoType ==
    ASSUME call \in [Handler -> Call], NEW h \in Handler, NEW pc \in PC, Goto(h, pc)
    PROVE  call' \in [Handler -> Call]
BY DEF Goto, Call

\* The idle call is a call.
LEMMA IdleType == Idle \in Call
BY DEF Idle, Call, PC

\* A handler that returns has an idle call again.
LEMMA ReturnType ==
    ASSUME call \in [Handler -> Call], NEW h \in Handler, Return(h)
    PROVE  call' \in [Handler -> Call]
BY IdleType DEF Return

\* A call that begins on a room and a key is a call.
LEMMA BeginType ==
    ASSUME call \in [Handler -> Call], NEW h \in Handler, NEW c \in Client,
           NEW r \in Room, NEW pc \in PC, NEW k \in Key \cup {NoKey},
           Begin(h, c, r, pc, k)
    PROVE  call' \in [Handler -> Call]
BY DEF Begin, Call

\* A call that begins is recorded with its client, its room and its key.
LEMMA LookupType ==
    ASSUME TypeOK, NEW h \in Handler, NEW c \in Client, NEW r \in Room,
           NEW pc \in PC, NEW k \in Key \cup {NoKey}, Lookup(h, c, r, pc, k)
    PROVE  TypeOK'
BY BeginType DEF TypeOK, Lookup, memory, redis, broker, ids

\* Every way a call arrives keeps the types.
LEMMA ArriveType ==
    ASSUME TypeOK, NEW h \in Handler, Arrive(h)
    PROVE  TypeOK'
<1>1. PICK c \in Client, r \in Room :
        \/ CreateRoom(h, c, r)
        \/ CloseRoom(h, c, r)
        \/ JoinRoom(h, c, r)
        \/ LeaveRoom(h, c, r)
        \/ \E k \in Key : SendPublicKey(h, c, r, k)
        \/ SendMessage(h, c, r)
        \/ ReceiveMessages(h, c, r)
    BY DEF Arrive
<1>2. CASE CreateRoom(h, c, r)
    BY <1>2, BeginType DEF TypeOK, CreateRoom, PC, redis, broker
<1>3. CASE CloseRoom(h, c, r)
    BY <1>3, BeginType DEF TypeOK, CloseRoom, PC, redis, broker, ids
<1>4. CASE JoinRoom(h, c, r)
    BY <1>4, LookupType DEF JoinRoom, PC
<1>5. CASE LeaveRoom(h, c, r)
    BY <1>5, LookupType DEF LeaveRoom, PC
<1>6. ASSUME NEW k \in Key, SendPublicKey(h, c, r, k) PROVE TypeOK'
    BY <1>6, LookupType DEF SendPublicKey, PC
<1>7. CASE SendMessage(h, c, r)
    BY <1>7, LookupType DEF SendMessage, PC
<1>8. CASE ReceiveMessages(h, c, r)
    BY <1>8, LookupType DEF ReceiveMessages, PC
<1> QED
    BY <1>1, <1>2, <1>3, <1>4, <1>5, <1>6, <1>7, <1>8

\* The end of the process keeps the types.
LEMMA HaltType ==
    ASSUME TypeOK, NEW how \in {"crashed", "panicked"}, Halt(how)
    PROVE  TypeOK'
BY IdleType DEF TypeOK, Halt, ids

\* Updates of a table, and of a row of it.
LEMMA Put ==
    ASSUME NEW S, NEW V, NEW f \in [S -> V], NEW s \in S, NEW v \in V
    PROVE  [f EXCEPT ![s] = v] \in [S -> V]
OBVIOUS

\* The same for one client's entry in a room's map of members.
LEMMA PutClient ==
    ASSUME TypeOK, NEW r \in Room, NEW c \in Client, NEW v \in Key \cup {NoKey, Absent}
    PROVE  [clients EXCEPT ![r][c] = v] \in [Room -> [Client -> Key \cup {NoKey, Absent}]]
BY DEF TypeOK

\* The same for one client's entry in a room's Redis hash of keys.
LEMMA PutKey ==
    ASSUME TypeOK, NEW r \in Room, NEW c \in Client, NEW v \in Key
    PROVE  [redisKeys EXCEPT ![r][c] = v] \in [Room -> [Client -> Key \cup {NoKey}]]
BY DEF TypeOK

\* Storing the number of keys found in Redis.
LEMMA CountedType ==
    ASSUME call \in [Handler -> Call], NEW h \in Handler, NEW n \in Nat, Counted(h, n)
    PROVE  call' \in [Handler -> Call]
<1>1. call' = [call EXCEPT ![h] = [[call[h] EXCEPT !.pc = "compareKeys"]
                                        EXCEPT !.count = n]]
    BY DEF Counted
<1>2. [[call[h] EXCEPT !.pc = "compareKeys"] EXCEPT !.count = n] \in Call
    BY DEF Call, PC
<1> QED
    BY <1>1, <1>2, Put

\* The room and the client of a call that has begun.
LEMMA InCall ==
    ASSUME TypeOK, CallsWellFormed, NEW h \in Handler, call[h].pc # "idle"
    PROVE  call[h].room \in Room /\ call[h].client \in Client
BY DEF TypeOK, CallsWellFormed

\* A step inside a call keeps the types.
LEMMA ContinueType ==
    ASSUME TypeOK, CallsWellFormed, NEW h \in Handler, Acquire(h) \/ Continue(h)
    PROVE  TypeOK'
<1> USE DEF TypeOK, At, PC, memory, redis, broker, ids
<1>1. CASE CreateRedis(h)
    BY <1>1, InCall, GotoType, ReturnType DEF CreateRedis
<1>2. CASE CreateExchange(h)
  <2>1. call' \in [Handler -> Call]
      BY <1>2, ReturnType DEF CreateExchange
  <2>2. call[h].room \in Room
      BY <1>2, InCall DEF CreateExchange
  <2>3. exchange' \in [Room -> {"none", "declared", "deleted"}]
      BY <1>2, <2>2, Put DEF CreateExchange
  <2> QED
      BY <1>2, <2>1, <2>2, <2>3 DEF CreateExchange
<1>3. CASE CloseExchange(h)
    BY <1>3, InCall, GotoType, ReturnType DEF CloseExchange
<1>4. CASE CloseRedis(h)
  <2>1. call' \in [Handler -> Call]
      BY <1>4, ReturnType DEF CloseRedis
  <2>2. call[h].room \in Room
      BY <1>4, InCall DEF CloseRedis
  <2>3. [c \in Client |-> NoKey] \in [Client -> Key \cup {NoKey}]
      OBVIOUS
  <2>4. redisRooms' \subseteq Room /\ redisClients' \in [Room -> SUBSET Client]
      BY <1>4, <2>2 DEF CloseRedis
  <2>5. redisKeys' \in [Room -> [Client -> Key \cup {NoKey}]]
      BY <1>4, <2>2, <2>3, Put DEF CloseRedis
  <2>6. unsynced' \subseteq Room \X Client
      BY <1>4, <2>2 DEF CloseRedis
  <2> QED
      BY <1>4, <2>1, <2>2, <2>3, <2>4, <2>5, <2>6 DEF CloseRedis
<1>5. CASE JoinEnter(h)
    BY <1>5, InCall, GotoType, ReturnType DEF JoinEnter
<1>6. CASE JoinInsert(h)
    BY <1>6, InCall, GotoType DEF JoinInsert
<1>7. CASE JoinRedis(h)
  <2>1. call' \in [Handler -> Call]
      BY <1>7, ReturnType DEF JoinRedis
  <2>2. call[h].room \in Room /\ call[h].client \in Client
      BY <1>7, InCall DEF JoinRedis
  <2>3. redisClients' \in [Room -> SUBSET Client] /\ unsynced' \subseteq Room \X Client
    <3>1. redisClients[call[h].room] \cup {call[h].client} \in SUBSET Client
        BY <2>2
    <3>2. [redisClients EXCEPT ![call[h].room] =
              redisClients[call[h].room] \cup {call[h].client}] \in [Room -> SUBSET Client]
        BY <3>1, <2>2
    <3> QED
        BY <1>7, <2>2, <3>2 DEF JoinRedis, WriteMembers
  <2> QED
      BY <1>7, <2>1, <2>2, <2>3 DEF JoinRedis
<1>8. CASE LeaveEnter(h)
  <2>1. call' \in [Handler -> Call]
      BY <1>8, GotoType, ReturnType DEF LeaveEnter
  <2>2. call[h].room \in Room /\ call[h].client \in Client
      BY <1>8, InCall DEF LeaveEnter
  <2>3. clients' \in [Room -> [Client -> Key \cup {NoKey, Absent}]]
    <3>1. [clients EXCEPT ![call[h].room][call[h].client] = Absent]
            \in [Room -> [Client -> Key \cup {NoKey, Absent}]]
        BY <2>2, PutClient
    <3> QED
        BY <1>8, <3>1 DEF LeaveEnter
  <2> QED
      BY <1>8, <2>1, <2>2, <2>3 DEF LeaveEnter
<1>9. CASE LeaveRedis(h)
  <2>1. call' \in [Handler -> Call]
      BY <1>9, ReturnType DEF LeaveRedis
  <2>2. call[h].room \in Room /\ call[h].client \in Client
      BY <1>9, InCall DEF LeaveRedis
  <2>3. redisClients' \in [Room -> SUBSET Client] /\ unsynced' \subseteq Room \X Client
    <3>1. redisClients[call[h].room] \ {call[h].client} \in SUBSET Client
        BY <2>2
    <3>2. [redisClients EXCEPT ![call[h].room] =
              redisClients[call[h].room] \ {call[h].client}] \in [Room -> SUBSET Client]
        BY <3>1, <2>2
    <3> QED
        BY <1>9, <2>2, <3>2 DEF LeaveRedis, WriteMembers
  <2> QED
      BY <1>9, <2>1, <2>2, <2>3 DEF LeaveRedis
<1>10. CASE SetKey(h)
  <2>1. call' \in [Handler -> Call]
      BY <1>10, GotoType, ReturnType DEF SetKey
  <2>2. call[h].room \in Room /\ call[h].client \in Client /\ call[h].key \in Key
      BY <1>10, InCall DEF SetKey, CallsWellFormed
  <2>3. clients' \in [Room -> [Client -> Key \cup {NoKey, Absent}]]
    <3>1. [clients EXCEPT ![call[h].room][call[h].client] = call[h].key]
            \in [Room -> [Client -> Key \cup {NoKey, Absent}]]
        BY <2>2, PutClient
    <3> QED
        BY <1>10, <3>1 DEF SetKey
  <2> QED
      BY <1>10, <2>1, <2>2, <2>3 DEF SetKey
<1>11. CASE SaveKey(h)
  <2>1. call' \in [Handler -> Call]
      BY <1>11, GotoType, ReturnType DEF SaveKey
  <2>2. call[h].room \in Room /\ call[h].client \in Client /\ call[h].key \in Key
      BY <1>11, InCall DEF SaveKey, CallsWellFormed
  <2>3. redisKeys' \in [Room -> [Client -> Key \cup {NoKey}]]
    <3>1. [redisKeys EXCEPT ![call[h].room][call[h].client] = call[h].key]
            \in [Room -> [Client -> Key \cup {NoKey}]]
        BY <2>2, PutKey
    <3> QED
        BY <1>11, <3>1 DEF SaveKey
  <2>4. unsynced' \subseteq Room \X Client
      BY <1>11, <2>2 DEF SaveKey
  <2> QED
      BY <1>11, <2>1, <2>2, <2>3, <2>4 DEF SaveKey
<1>12. CASE PublishKey(h)
    BY <1>12, InCall, GotoType, ReturnType DEF PublishKey
<1>13. CASE FetchKeys(h)
  <2>1. Cardinality({d \in Client : redisKeys[call[h].room][d] # NoKey}) \in Nat
      BY CountClients
  <2>2. call' \in [Handler -> Call]
      BY <1>13, <2>1, CountedType, ReturnType DEF FetchKeys
  <2> QED
      BY <1>13, <2>1, <2>2 DEF FetchKeys
<1>14. CASE CompareKeys(h)
    BY <1>14, InCall, GotoType, ReturnType DEF CompareKeys
<1>15. CASE LogAllKeys(h)
    BY <1>15, InCall, ReturnType DEF LogAllKeys
<1>16. CASE PublishMessage(h)
    BY <1>16, InCall, ReturnType DEF PublishMessage
<1>17. CASE BindQueue(h)
    BY <1>17, InCall, ReturnType DEF BindQueue
<1>18. CASE ComparePanic(h)
    BY <1>18, HaltType DEF ComparePanic
<1> QED
    BY <1>1, <1>2, <1>3, <1>4, <1>5, <1>6, <1>7, <1>8, <1>9, <1>10, <1>11, <1>12, <1>13, <1>14, <1>15, <1>16, <1>17, <1>18 DEF Acquire, Continue
-----------------------------------------------------------------------------
(* Calls and locks.                                                        *)

\* The records after a call moves, ends or begins.
LEMMA GotoFacts ==
    ASSUME TypeOK, NEW h \in Handler, NEW pc, Goto(h, pc)
    PROVE  /\ call'[h].pc = pc
           /\ call'[h].client = call[h].client
           /\ call'[h].room = call[h].room
           /\ call'[h].key = call[h].key
           /\ \A g \in Handler \ {h} : call'[g] = call[g]
BY DEF TypeOK, Goto, Call

\* What the records are after a call returns.
LEMMA ReturnFacts ==
    ASSUME TypeOK, NEW h \in Handler, Return(h)
    PROVE  /\ call'[h].pc = "idle"
           /\ call'[h].client = NoClient
           /\ call'[h].room = NoRoom
           /\ \A g \in Handler \ {h} : call'[g] = call[g]
BY DEF TypeOK, Return, Idle

\* What the records are after a call begins.
LEMMA BeginFacts ==
    ASSUME TypeOK, NEW h \in Handler, NEW c, NEW r, NEW pc, NEW k,
           Begin(h, c, r, pc, k)
    PROVE  /\ call'[h].pc = pc
           /\ call'[h].client = c
           /\ call'[h].room = r
           /\ call'[h].key = k
           /\ \A g \in Handler \ {h} : call'[g] = call[g]
BY DEF TypeOK, Begin

\* What the records are after the keys were counted.
LEMMA CountedFacts ==
    ASSUME TypeOK, NEW h \in Handler, NEW n, Counted(h, n)
    PROVE  /\ call'[h].pc = "compareKeys"
           /\ call'[h].client = call[h].client
           /\ call'[h].room = call[h].room
           /\ call'[h].key = call[h].key
           /\ \A g \in Handler \ {h} : call'[g] = call[g]
BY DEF TypeOK, Counted, Call

\* A call in progress is on a used room, and knows it from CreateRoom.
LEMMA CallsStep ==
    ASSUME TypeOK, CallsWellFormed, IdsFresh, NEW h \in Handler, Arrive(h) \/ Acquire(h) \/ Continue(h)
    PROVE  CallsWellFormed'
<1> USE DEF At, PC, memory, redis, broker, ids, IdsFresh, CallsWellFormed
<1>1. ASSUME NEW c \in Client, NEW r \in Room, CreateRoom(h, c, r)
      PROVE  CallsWellFormed'
    BY <1>1, BeginFacts DEF CreateRoom, Arrives
<1>2. ASSUME NEW c \in Client, NEW r \in Room, CloseRoom(h, c, r)
      PROVE  CallsWellFormed'
    BY <1>2, BeginFacts DEF CloseRoom, Arrives
<1>3. ASSUME NEW c \in Client, NEW r \in Room, NEW k \in Key \cup {NoKey},
             NEW pc \in {"joinEnter", "leaveEnter", "setKey", "publishMessage", "bindQueue"},
             pc = "setKey" => k \in Key,
             Lookup(h, c, r, pc, k)
      PROVE  CallsWellFormed'
    BY <1>3, BeginFacts DEF Lookup, Arrives
<1>4. CASE Arrive(h)
    BY <1>1, <1>2, <1>3, <1>4 DEF Arrive, JoinRoom, LeaveRoom, SendPublicKey, SendMessage, ReceiveMessages
<1>5. CASE CreateRedis(h)
    BY <1>5, InCall, GotoFacts, ReturnFacts DEF CreateRedis
<1>6. CASE CreateExchange(h)
    BY <1>6, InCall, ReturnFacts DEF CreateExchange
<1>7. CASE CloseExchange(h)
    BY <1>7, InCall, GotoFacts, ReturnFacts DEF CloseExchange
<1>8. CASE CloseRedis(h)
    BY <1>8, InCall, ReturnFacts DEF CloseRedis
<1>9. CASE JoinEnter(h)
    BY <1>9, InCall, GotoFacts, ReturnFacts DEF JoinEnter
<1>10. CASE JoinInsert(h)
    BY <1>10, InCall, GotoFacts DEF JoinInsert
<1>11. CASE JoinRedis(h)
    BY <1>11, InCall, ReturnFacts DEF JoinRedis
<1>12. CASE LeaveEnter(h)
    BY <1>12, InCall, GotoFacts, ReturnFacts DEF LeaveEnter
<1>13. CASE LeaveRedis(h)
    BY <1>13, InCall, ReturnFacts DEF LeaveRedis
<1>14. CASE SetKey(h)
    BY <1>14, InCall, GotoFacts, ReturnFacts DEF SetKey
<1>15. CASE SaveKey(h)
    BY <1>15, InCall, GotoFacts, ReturnFacts DEF SaveKey
<1>16. CASE PublishKey(h)
    BY <1>16, InCall, GotoFacts, ReturnFacts DEF PublishKey
<1>17. CASE FetchKeys(h)
    BY <1>17, InCall, CountedFacts, ReturnFacts DEF FetchKeys
<1>18. CASE CompareKeys(h)
    BY <1>18, InCall, GotoFacts, ReturnFacts DEF CompareKeys
<1>19. CASE LogAllKeys(h)
    BY <1>19, InCall, ReturnFacts DEF LogAllKeys
<1>20. CASE PublishMessage(h)
    BY <1>20, InCall, ReturnFacts DEF PublishMessage
<1>21. CASE BindQueue(h)
    BY <1>21, InCall, ReturnFacts DEF BindQueue
<1>22. CASE ComparePanic(h)
    BY <1>22 DEF ComparePanic, Halt, Idle
<1> QED
    BY <1>4, <1>5, <1>6, <1>7, <1>8, <1>9, <1>10, <1>11, <1>12, <1>13, <1>14, <1>15, <1>16, <1>17, <1>18, <1>19, <1>20, <1>21, <1>22 DEF Acquire, Continue

\* A mutex is held by exactly the handler that is in its section.
LEMMA LocksStep ==
    ASSUME TypeOK, CallsWellFormed, LocksOwned, NEW h \in Handler, Arrive(h) \/ Acquire(h) \/ Continue(h)
    PROVE  LocksOwned'
<1> USE DEF At, PC, memory, redis, broker, ids, LocksOwned
<1>0. roomMutex \in [Room -> Handler \cup {Free}]
          BY DEF TypeOK
<1>1. ASSUME NEW c \in Client, NEW r \in Room, CreateRoom(h, c, r)
      PROVE  LocksOwned'
    BY <1>1, <1>0, DistinctValues, BeginFacts DEF CreateRoom, Arrives
<1>2. ASSUME NEW c \in Client, NEW r \in Room, CloseRoom(h, c, r)
      PROVE  LocksOwned'
    BY <1>2, <1>0, DistinctValues, BeginFacts DEF CloseRoom, Arrives
<1>3. ASSUME NEW c \in Client, NEW r \in Room, NEW k \in Key \cup {NoKey},
             NEW pc \in {"joinEnter", "leaveEnter", "setKey", "publishMessage", "bindQueue"},
             pc = "setKey" => k \in Key,
             Lookup(h, c, r, pc, k)
      PROVE  LocksOwned'
    BY <1>3, <1>0, DistinctValues, BeginFacts DEF Lookup, Arrives
<1>4. CASE Arrive(h)
    BY <1>1, <1>2, <1>3, <1>4 DEF Arrive, JoinRoom, LeaveRoom, SendPublicKey, SendMessage, ReceiveMessages
<1>5. CASE CreateRedis(h)
    BY <1>5, <1>0, DistinctValues, InCall, GotoFacts, ReturnFacts DEF CreateRedis
<1>6. CASE CreateExchange(h)
    BY <1>6, <1>0, DistinctValues, InCall, ReturnFacts DEF CreateExchange
<1>7. CASE CloseExchange(h)
    BY <1>7, <1>0, DistinctValues, InCall, GotoFacts, ReturnFacts DEF CloseExchange
<1>8. CASE CloseRedis(h)
    BY <1>8, <1>0, DistinctValues, InCall, ReturnFacts DEF CloseRedis
<1>9. CASE JoinEnter(h)
    BY <1>9, <1>0, DistinctValues, InCall, GotoFacts, ReturnFacts DEF JoinEnter
<1>10. CASE JoinInsert(h)
    BY <1>10, <1>0, DistinctValues, InCall, GotoFacts DEF JoinInsert
<1>11. CASE JoinRedis(h)
    BY <1>11, <1>0, DistinctValues, InCall, ReturnFacts DEF JoinRedis
<1>12. CASE LeaveEnter(h)
    BY <1>12, <1>0, DistinctValues, InCall, GotoFacts, ReturnFacts DEF LeaveEnter
<1>13. CASE LeaveRedis(h)
    BY <1>13, <1>0, DistinctValues, InCall, ReturnFacts DEF LeaveRedis
<1>14. CASE SetKey(h)
    BY <1>14, <1>0, DistinctValues, InCall, GotoFacts, ReturnFacts DEF SetKey
<1>15. CASE SaveKey(h)
    BY <1>15, <1>0, DistinctValues, InCall, GotoFacts, ReturnFacts DEF SaveKey
<1>16. CASE PublishKey(h)
    BY <1>16, <1>0, DistinctValues, InCall, GotoFacts, ReturnFacts DEF PublishKey
<1>17. CASE FetchKeys(h)
    BY <1>17, <1>0, DistinctValues, InCall, CountedFacts, ReturnFacts DEF FetchKeys
<1>18. CASE CompareKeys(h)
    BY <1>18, <1>0, DistinctValues, InCall, GotoFacts, ReturnFacts DEF CompareKeys
<1>19. CASE LogAllKeys(h)
    BY <1>19, <1>0, DistinctValues, InCall, ReturnFacts DEF LogAllKeys
<1>20. CASE PublishMessage(h)
    BY <1>20, <1>0, DistinctValues, InCall, ReturnFacts DEF PublishMessage
<1>21. CASE BindQueue(h)
    BY <1>21, <1>0, DistinctValues, InCall, ReturnFacts DEF BindQueue
<1>22. CASE ComparePanic(h)
    BY <1>22, <1>0, DistinctValues DEF ComparePanic, Halt, Idle
<1> QED
    BY <1>4, <1>5, <1>6, <1>7, <1>8, <1>9, <1>10, <1>11, <1>12, <1>13, <1>14, <1>15, <1>16, <1>17, <1>18, <1>19, <1>20, <1>21, <1>22 DEF Acquire, Continue

-----------------------------------------------------------------------------
(* Rooms.                                                                  *)

\* Once begun, a call touches no room but its own, and makes no id.
LEMMA OneRoom ==
    ASSUME TypeOK, CallsWellFormed, NEW h \in Handler,
           Acquire(h) \/ Continue(h), ~ComparePanic(h)
    PROVE  /\ call[h].room \in used
           /\ used' = used
           /\ rooms' \subseteq rooms
           /\ known' \subseteq known \cup {call[h].room}
           /\ \A q \in Room \ {call[h].room} :
                 /\ clients'[q] = clients[q]
                 /\ roomMutex'[q] = roomMutex[q]
                 /\ redisClients'[q] = redisClients[q]
                 /\ exchange'[q] = exchange[q]
<1> USE DEF At, memory, redis, broker, ids
<1>0. /\ clients \in [Room -> [Client -> Key \cup {NoKey, Absent}]]
      /\ roomMutex \in [Room -> Handler \cup {Free}]
      /\ redisClients \in [Room -> SUBSET Client]
      /\ exchange \in [Room -> {"none", "declared", "deleted"}]
    BY DEF TypeOK
<1>00. call[h].room \in used
    BY DEF CallsWellFormed, Acquire, Continue, CreateRedis, CreateExchange, CloseExchange, CloseRedis, JoinEnter, JoinInsert, JoinRedis, LeaveEnter, LeaveRedis, SetKey, SaveKey, PublishKey, FetchKeys, CompareKeys, LogAllKeys, PublishMessage, BindQueue
<1>1. CASE CreateRedis(h)
    BY <1>0, <1>00, <1>1 DEF CreateRedis
<1>2. CASE CreateExchange(h)
    BY <1>0, <1>00, <1>2 DEF CreateExchange
<1>3. CASE CloseExchange(h)
    BY <1>0, <1>00, <1>3 DEF CloseExchange
<1>4. CASE CloseRedis(h)
    BY <1>0, <1>00, <1>4 DEF CloseRedis
<1>5. CASE JoinEnter(h)
    BY <1>0, <1>00, <1>5 DEF JoinEnter
<1>6. CASE JoinInsert(h)
    BY <1>0, <1>00, <1>6 DEF JoinInsert
<1>7. CASE JoinRedis(h)
    BY <1>0, <1>00, <1>7 DEF JoinRedis, WriteMembers
<1>8. CASE LeaveEnter(h)
    BY <1>0, <1>00, <1>8 DEF LeaveEnter
<1>9. CASE LeaveRedis(h)
    BY <1>0, <1>00, <1>9 DEF LeaveRedis, WriteMembers
<1>10. CASE SetKey(h)
    BY <1>0, <1>00, <1>10 DEF SetKey
<1>11. CASE SaveKey(h)
    BY <1>0, <1>00, <1>11 DEF SaveKey
<1>12. CASE PublishKey(h)
    BY <1>0, <1>00, <1>12 DEF PublishKey
<1>13. CASE FetchKeys(h)
    BY <1>0, <1>00, <1>13 DEF FetchKeys
<1>14. CASE CompareKeys(h)
    BY <1>0, <1>00, <1>14 DEF CompareKeys
<1>15. CASE LogAllKeys(h)
    BY <1>0, <1>00, <1>15 DEF LogAllKeys
<1>16. CASE PublishMessage(h)
    BY <1>0, <1>00, <1>16 DEF PublishMessage
<1>17. CASE BindQueue(h)
    BY <1>0, <1>00, <1>17 DEF BindQueue
<1> QED
    BY <1>1, <1>2, <1>3, <1>4, <1>5, <1>6, <1>7, <1>8, <1>9, <1>10, <1>11, <1>12, <1>13, <1>14, <1>15, <1>16, <1>17 DEF Acquire, Continue

\* A call that begins leaves all rooms as they were; CreateRoom takes a new id.
LEMMA ArriveFrame ==
    ASSUME NEW h \in Handler, Arrive(h)
    PROVE  /\ UNCHANGED <<clients, roomMutex, redisClients, unsynced, exchange, known>>
           /\ used \subseteq used'
           /\ rooms' \subseteq rooms \cup used'
           /\ rooms \subseteq used => rooms' \subseteq used'
BY DEF Arrive, CreateRoom, CloseRoom, JoinRoom, LeaveRoom, SendPublicKey,
       SendMessage, ReceiveMessages, Lookup, memory, redis, broker, ids

\* Only what was created has left a trace.
LEMMA IdsStep ==
    ASSUME TypeOK, CallsWellFormed, IdsFresh, NEW h \in Handler,
           Arrive(h) \/ Acquire(h) \/ Continue(h)
    PROVE  IdsFresh'
<1>1. CASE Arrive(h)
    BY <1>1, ArriveFrame DEF IdsFresh
<1>2. CASE ComparePanic(h)
    BY <1>2 DEF ComparePanic, Halt, IdsFresh, ids
<1>3. CASE (Acquire(h) \/ Continue(h)) /\ ~ComparePanic(h)
    BY <1>3, OneRoom DEF IdsFresh
<1> QED
    BY <1>1, <1>2, <1>3

\* What an assignment to one entry of a room's map does to its members.
LEMMA InsideRemove ==
    ASSUME TypeOK, NEW r \in Room, NEW c \in Client,
           clients' = [clients EXCEPT ![r][c] = Absent]
    PROVE  /\ Inside(clients'[r]) = Inside(clients[r]) \ {c}
           /\ \A q \in Room \ {r} : clients'[q] = clients[q]
BY DEF TypeOK, Inside

\* The same for an assignment that makes the client a member.
LEMMA InsideAdd ==
    ASSUME TypeOK, NEW r \in Room, NEW c \in Client, NEW v \in Key \cup {NoKey},
           clients' = [clients EXCEPT ![r][c] = v]
    PROVE  /\ Inside(clients'[r]) = Inside(clients[r]) \cup {c}
           /\ \A q \in Room \ {r} : clients'[q] = clients[q]
BY DistinctValues DEF TypeOK, Inside

\* The members of a room are finitely many.
LEMMA InsideFinite ==
    ASSUME NEW map
    PROVE  IsFiniteSet(Inside(map)) /\ Cardinality(Inside(map)) \in Nat
BY CountClients DEF Inside

\* The other calls wait while h takes a step, and h gets to hold room.mutex
\* by the steps that take it.
LEMMA OtherCalls ==
    ASSUME TypeOK, NEW h \in Handler, Acquire(h) \/ Continue(h), ~ComparePanic(h)
    PROVE  /\ \A g \in Handler \ {h} : call'[g] = call[g]
           /\ call'[h].pc = "joinInsert" => JoinEnter(h)
           /\ call'[h].pc = "joinRedis" => JoinInsert(h)
           /\ call'[h].pc = "leaveRedis" => LeaveEnter(h)
<1>1. CASE CreateRedis(h)
    BY <1>1, GotoFacts, ReturnFacts DEF CreateRedis
<1>2. CASE CreateExchange(h)
    BY <1>2, ReturnFacts DEF CreateExchange
<1>3. CASE CloseExchange(h)
    BY <1>3, GotoFacts, ReturnFacts DEF CloseExchange
<1>4. CASE CloseRedis(h)
    BY <1>4, ReturnFacts DEF CloseRedis
<1>5. CASE JoinEnter(h)
    BY <1>5, GotoFacts, ReturnFacts DEF JoinEnter
<1>6. CASE JoinInsert(h)
    BY <1>6, GotoFacts, ReturnFacts DEF JoinInsert
<1>7. CASE JoinRedis(h)
    BY <1>7, ReturnFacts DEF JoinRedis
<1>8. CASE LeaveEnter(h)
    BY <1>8, GotoFacts, ReturnFacts DEF LeaveEnter
<1>9. CASE LeaveRedis(h)
    BY <1>9, ReturnFacts DEF LeaveRedis
<1>10. CASE SetKey(h)
    BY <1>10, GotoFacts, ReturnFacts DEF SetKey
<1>11. CASE SaveKey(h)
    BY <1>11, GotoFacts, ReturnFacts DEF SaveKey
<1>12. CASE PublishKey(h)
    BY <1>12, GotoFacts, ReturnFacts DEF PublishKey
<1>13. CASE FetchKeys(h)
    BY <1>13, CountedFacts, ReturnFacts DEF FetchKeys
<1>14. CASE CompareKeys(h)
    BY <1>14, GotoFacts, ReturnFacts DEF CompareKeys
<1>15. CASE LogAllKeys(h)
    BY <1>15, ReturnFacts DEF LogAllKeys
<1>16. CASE PublishMessage(h)
    BY <1>16, ReturnFacts DEF PublishMessage
<1>17. CASE BindQueue(h)
    BY <1>17, ReturnFacts DEF BindQueue
<1> QED
    BY <1>1, <1>2, <1>3, <1>4, <1>5, <1>6, <1>7, <1>8, <1>9, <1>10, <1>11, <1>12, <1>13, <1>14, <1>15, <1>16, <1>17 DEF Acquire, Continue

\* The map of a room changes only by its holder or while nobody holds it.
LEMMA ClientsLocked ==
    ASSUME TypeOK, LocksOwned, NEW h \in Handler, Acquire(h) \/ Continue(h), ~ComparePanic(h),
           clients' # clients
    PROVE  roomMutex[call[h].room] \in {Free, h}
BY DEF Acquire, Continue, LocksOwned, At, memory, CreateRedis, CreateExchange, CloseExchange, CloseRedis, JoinEnter, JoinInsert, JoinRedis, LeaveEnter, LeaveRedis, SetKey, SaveKey, PublishKey, FetchKeys, CompareKeys, LogAllKeys, PublishMessage, BindQueue

\* While a handler holds room.mutex, what it knows about the room stays true.
LEMMA HolderStep ==
    ASSUME TypeOK, CallsWellFormed, LocksOwned, HolderKnows, NEW h \in Handler,
           Arrive(h) \/ Acquire(h) \/ Continue(h)
    PROVE  HolderKnows'
<1> DEFINE inside(g) == Inside(clients[call[g].room])
           Knows(g) ==
               /\ call[g].pc = "joinInsert" => /\ Cardinality(inside(g)) < 2
                                               /\ call[g].client \notin inside(g)
               /\ call[g].pc = "joinRedis" => call[g].client \in inside(g)
               /\ call[g].pc = "leaveRedis" => call[g].client \notin inside(g)
<1> SUFFICES ASSUME NEW g \in Handler PROVE Knows(g)'
    BY DEF HolderKnows, Members
<1>0. Knows(g)
    BY DEF HolderKnows, Members
<1>1. CASE Arrive(h)
  <2>1. clients' = clients
      BY <1>1, ArriveFrame
  <2>2. \/ call'[g] = call[g]
        \/ call'[g].pc \notin {"joinInsert", "joinRedis", "leaveRedis"}
      BY <1>1, BeginFacts DEF Arrive, CreateRoom, CloseRoom, JoinRoom, LeaveRoom,
         SendPublicKey, SendMessage, ReceiveMessages, Lookup
  <2> QED
      BY <1>0, <2>1, <2>2
<1>2. CASE ComparePanic(h)
    BY <1>2 DEF ComparePanic, Halt, Idle
<1>3. CASE (Acquire(h) \/ Continue(h)) /\ ~ComparePanic(h) /\ g # h
  <2>1. call'[g] = call[g]
      BY <1>3, OtherCalls
  <2>2. CASE call[g].pc \in {"joinInsert", "joinRedis", "leaveRedis"}
    <3>1. roomMutex[call[g].room] = g /\ call[g].room \in Room
        BY <2>2, InCall DEF LocksOwned
    <3>2. clients'[call[g].room] = clients[call[g].room]
        BY <1>3, <3>1, OneRoom, ClientsLocked, DistinctValues
    <3> QED
        BY <1>0, <2>1, <3>2
  <2> QED
      BY <2>1, <2>2
<1>4. CASE JoinEnter(h) /\ g = h
    BY <1>4, GotoFacts, ReturnFacts, InsideFinite DEF JoinEnter, Members, memory
<1>5. CASE JoinInsert(h) /\ g = h
  <2>1. call[h].room \in Room /\ call[h].client \in Client
      BY <1>5, InCall DEF JoinInsert, At
  <2>2. call[h].client \in Inside(clients'[call[h].room])
    <3>1. clients' = [clients EXCEPT ![call[h].room][call[h].client] = NoKey]
        BY <1>5 DEF JoinInsert
    <3>2. Inside(clients'[call[h].room])
            = Inside(clients[call[h].room]) \cup {call[h].client}
        BY <2>1, <3>1, InsideAdd
    <3> QED
        BY <3>2
  <2> QED
      BY <1>5, <2>2, GotoFacts DEF JoinInsert
<1>6. CASE LeaveEnter(h) /\ g = h
  <2>1. call[h].room \in Room /\ call[h].client \in Client
      BY <1>6, InCall DEF LeaveEnter, At
  <2>2. CASE call[h].client \in Members(call[h].room)
    <3>1. call[h].client \notin Inside(clients'[call[h].room])
        BY <1>6, <2>1, <2>2, InsideRemove DEF LeaveEnter
    <3> QED
        BY <1>6, <2>2, <3>1, GotoFacts DEF LeaveEnter
  <2> QED
      BY <1>6, <2>2, ReturnFacts DEF LeaveEnter
<1>7. CASE /\ Acquire(h) \/ Continue(h)
           /\ g = h
           /\ ~(ComparePanic(h) \/ JoinEnter(h) \/ JoinInsert(h) \/ LeaveEnter(h))
    BY <1>7, OtherCalls
<1> QED
    BY <1>1, <1>2, <1>3, <1>4, <1>5, <1>6, <1>7

\* So no insertion makes a third member.
LEMMA CapacityStep ==
    ASSUME TypeOK, CallsWellFormed, HolderKnows, Capacity, NEW h \in Handler,
           Arrive(h) \/ Acquire(h) \/ Continue(h)
    PROVE  Capacity'
<1> DEFINE r == call[h].room
           c == call[h].client
<1> SUFFICES ASSUME NEW q \in Room
             PROVE  Cardinality(Inside(clients'[q])) <= 2
    BY DEF Capacity, Members
<1>0. Cardinality(Inside(clients[q])) <= 2
    BY DEF Capacity, Members
<1>1. CASE UNCHANGED clients
    BY <1>0, <1>1
<1>2. CASE Arrive(h)
    BY <1>1, <1>2, ArriveFrame
<1>3. CASE ComparePanic(h)
  <2>1. Inside(clients'[q]) = {}
      BY <1>3 DEF ComparePanic, Halt, Inside
  <2> QED
      BY <2>1, FS_EmptySet
<1>4. CASE JoinInsert(h)
  <2>1. r \in Room /\ c \in Client
      BY <1>4, InCall DEF JoinInsert, At
  <2>2. /\ Cardinality(Inside(clients[r])) < 2
        /\ c \notin Inside(clients[r])
      BY <1>4 DEF JoinInsert, At, HolderKnows, Members
  <2>3. clients' = [clients EXCEPT ![r][c] = NoKey]
      BY <1>4 DEF JoinInsert
  <2>4. CASE q = r
    <3>1. Inside(clients'[r]) = Inside(clients[r]) \cup {c}
        BY <2>1, <2>3, InsideAdd
    <3>2. Cardinality(Inside(clients[r]) \cup {c}) = Cardinality(Inside(clients[r])) + 1
        BY <2>2, InsideFinite, FS_AddElement
    <3> QED
        BY <2>2, <2>4, <3>1, <3>2, InsideFinite
  <2> QED
      BY <1>0, <2>1, <2>3, <2>4, InsideAdd
<1>5. CASE LeaveEnter(h)
  <2>1. r \in Room /\ c \in Client
      BY <1>5, InCall DEF LeaveEnter, At
  <2>2. CASE clients' = [clients EXCEPT ![r][c] = Absent]
    <3>1. Inside(clients'[q]) \subseteq Inside(clients[q])
        BY <2>1, <2>2, InsideRemove
    <3>2. Cardinality(Inside(clients'[q])) <= Cardinality(Inside(clients[q]))
        BY <3>1, InsideFinite, FS_Subset
    <3> QED
        BY <1>0, <3>2, InsideFinite
  <2> QED
      BY <1>1, <1>5, <2>2 DEF LeaveEnter
<1>6. CASE SetKey(h)
  <2>1. r \in Room /\ c \in Client
      BY <1>6, InCall DEF SetKey, At
  <2>2. CASE /\ clients' = [clients EXCEPT ![r][c] = call[h].key]
             /\ c \in Inside(clients[r])
    <3>1. call[h].key \in Key
        BY <1>6 DEF SetKey, At, CallsWellFormed
    <3>2. Inside(clients'[q]) = Inside(clients[q])
      <4>1. call[h].key \in Key \cup {NoKey}
          BY <3>1
      <4>2. /\ Inside(clients'[r]) = Inside(clients[r]) \cup {c}
            /\ \A p \in Room \ {r} : clients'[p] = clients[p]
          BY <2>1, <2>2, <4>1, InsideAdd
      <4> QED
          BY <2>2, <4>2
    <3> QED
        BY <1>0, <3>2
  <2> QED
      BY <1>1, <1>6, <2>2 DEF SetKey, Members
<1>7. CASE /\ Acquire(h) \/ Continue(h)
           /\ ~(ComparePanic(h) \/ JoinInsert(h) \/ LeaveEnter(h) \/ SetKey(h))
    BY <1>1, <1>7 DEF Acquire, Continue, memory, CreateRedis, CreateExchange, CloseExchange, CloseRedis, JoinEnter, JoinRedis, LeaveRedis, SaveKey, PublishKey, FetchKeys, CompareKeys, LogAllKeys, PublishMessage, BindQueue
<1> QED
    BY <1>2, <1>3, <1>4, <1>5, <1>6, <1>7

-----------------------------------------------------------------------------
(* Redis.                                                                  *)

\* A step of a call leaves the Redis bookkeeping of other rooms alone.
LEMMA OtherPairs ==
    ASSUME TypeOK, CallsWellFormed, NEW h \in Handler,
           Acquire(h) \/ Continue(h), ~ComparePanic(h),
           NEW q \in Room \ {call[h].room}, NEW c \in Client
    PROVE  <<q, c>> \in unsynced => <<q, c>> \in unsynced'
BY DEF Acquire, Continue, WriteMembers, redis, CreateRedis, CreateExchange, CloseExchange, CloseRedis, JoinEnter, JoinInsert, JoinRedis, LeaveEnter, LeaveRedis, SetKey, SaveKey, PublishKey, FetchKeys, CompareKeys, LogAllKeys, PublishMessage, BindQueue

\* What a step does to the Redis fields of its own room.
LEMMA RedisStep ==
    ASSUME TypeOK, CallsWellFormed, LocksOwned, IdsFresh, HolderKnows, RedisInStep,
           NEW h \in Handler, Arrive(h) \/ Acquire(h) \/ Continue(h)
    PROVE  RedisInStep'
<1> DEFINE Writing(g, r, c) == /\ call[g].room = r /\ call[g].client = c
                               /\ call[g].pc \in {"joinRedis", "leaveRedis"}
           Agree(r, c) == c \in redisClients[r] <=> c \in Inside(clients[r])
           InStep(r, c) == \/ <<r, c>> \in unsynced
                           \/ \E g \in Handler : Writing(g, r, c)
                           \/ Agree(r, c)
           room == call[h].room
           client == call[h].client
<1> SUFFICES ASSUME NEW r \in rooms', NEW c \in Client PROVE InStep(r, c)'
    BY DEF RedisInStep, Members
<1>0. r \in rooms => InStep(r, c)
    BY DEF RedisInStep, Members
<1>1. CASE Arrive(h)
  <2>1. UNCHANGED <<clients, redisClients, unsynced>>
      BY <1>1, ArriveFrame
  <2>2. \A g \in Handler : Writing(g, r, c) => Writing(g, r, c)'
      BY <1>1, BeginFacts DEF Arrive, CreateRoom, CloseRoom, JoinRoom, LeaveRoom,
         SendPublicKey, SendMessage, ReceiveMessages, Lookup, Arrives, At
  <2>3. CASE r \in rooms
      BY <1>0, <2>1, <2>2, <2>3
  <2>4. CASE r \notin rooms
    <3>1. PICK b \in Client, q \in Room : CreateRoom(h, b, q)
        BY <1>1, <2>4 DEF Arrive, CloseRoom, JoinRoom, LeaveRoom,
           SendPublicKey, SendMessage, ReceiveMessages, Lookup, memory
    <3>2. r \in Room \ used
        BY <2>4, <3>1 DEF CreateRoom
    <3>3. clients[r] = [d \in Client |-> Absent] /\ redisClients[r] = {}
        BY <3>2 DEF IdsFresh
    <3> QED
        BY <2>1, <3>3 DEF Inside
  <2> QED
      BY <2>3, <2>4
<1>2. CASE ComparePanic(h)
    BY <1>2 DEF ComparePanic, Halt
<1>3. CASE (Acquire(h) \/ Continue(h)) /\ ~ComparePanic(h) /\ r # room
  <2>1. r \in rooms /\ r \in Room \ {room}
      BY <1>3, OneRoom DEF TypeOK
  <2>2. clients'[r] = clients[r] /\ redisClients'[r] = redisClients[r]
      BY <1>3, <2>1, OneRoom
  <2>3. \A g \in Handler : Writing(g, r, c) => Writing(g, r, c)'
      BY <1>3, OtherCalls
  <2>4. <<r, c>> \in unsynced => <<r, c>> \in unsynced'
      BY <1>3, <2>1, OtherPairs
  <2> QED
      BY <1>0, <2>1, <2>2, <2>3, <2>4
<1>4. ASSUME Acquire(h) \/ Continue(h), ~ComparePanic(h), r = room
      PROVE  InStep(r, c)'
  <2>0. r \in rooms /\ r \in Room
      BY <1>4, OneRoom DEF TypeOK
  <2>1. \A g \in Handler \ {h} : Writing(g, r, c) => Writing(g, r, c)'
      BY <1>4, OtherCalls
  <2>2. \/ <<r, c>> \in unsynced
        \/ \E g \in Handler \ {h} : Writing(g, r, c)
        \/ Agree(r, c)
        \/ Writing(h, r, c)
      BY <1>0, <2>0
  <2>3. CASE JoinInsert(h)
    <3>1. clients' = [clients EXCEPT ![room][client] = NoKey] /\ client \in Client
        BY <2>3, InCall DEF JoinInsert, At
    <3>2. Inside(clients'[r]) = Inside(clients[r]) \cup {client}
        BY <1>4, <2>0, <3>1, InsideAdd
    <3>3. ~Writing(h, r, c) /\ UNCHANGED <<redisClients, unsynced>>
        BY <2>3 DEF JoinInsert, At, redis
    <3>4. c = client => Writing(h, r, c)'
        BY <1>4, <2>3, GotoFacts DEF JoinInsert
    <3> QED
        BY <2>1, <2>2, <3>2, <3>3, <3>4
  <2>4. CASE LeaveEnter(h)
    <3>1. CASE client \in Members(room)
      <4>1. clients' = [clients EXCEPT ![room][client] = Absent] /\ client \in Client
          BY <2>4, <3>1, InCall DEF LeaveEnter, At
      <4>2. Inside(clients'[r]) = Inside(clients[r]) \ {client}
          BY <1>4, <2>0, <4>1, InsideRemove
      <4>3. ~Writing(h, r, c) /\ UNCHANGED <<redisClients, unsynced>>
          BY <2>4 DEF LeaveEnter, At, redis
      <4>4. c = client => Writing(h, r, c)'
          BY <1>4, <2>4, <3>1, GotoFacts DEF LeaveEnter
      <4> QED
          BY <2>1, <2>2, <4>2, <4>3, <4>4
    <3>2. CASE client \notin Members(room)
      <4>1. ~Writing(h, r, c) /\ UNCHANGED <<clients, redisClients, unsynced>>
          BY <2>4, <3>2 DEF LeaveEnter, At, redis
      <4> QED
          BY <2>1, <2>2, <4>1
    <3> QED
        BY <3>1, <3>2
  <2>5. CASE SetKey(h)
    <3>1. ~Writing(h, r, c) /\ UNCHANGED <<redisClients, unsynced>>
        BY <2>5 DEF SetKey, At, redis
    <3>2. Inside(clients'[r]) = Inside(clients[r])
      <4>1. CASE client \in Members(room)
        <5>1. clients' = [clients EXCEPT ![room][client] = call[h].key]
              /\ client \in Client /\ call[h].key \in Key \cup {NoKey}
            BY <2>5, <4>1, InCall DEF SetKey, At, CallsWellFormed
        <5>2. Inside(clients'[r]) = Inside(clients[r]) \cup {client}
            BY <1>4, <2>0, <5>1, InsideAdd
        <5> QED
            BY <1>4, <4>1, <5>2 DEF Members
      <4>2. CASE client \notin Members(room)
          BY <2>5, <4>2 DEF SetKey
      <4> QED
          BY <4>1, <4>2
    <3> QED
        BY <2>1, <2>2, <3>1, <3>2
  <2>6. CASE JoinRedis(h)
    <3>1. clients' = clients /\ client \in Inside(clients[r])
        BY <1>4, <2>6 DEF JoinRedis, At, HolderKnows, Members
    <3>2. WriteMembers(room, client, redisClients[room] \cup {client})
        BY <2>6 DEF JoinRedis
    <3>3. redisClients'[r] \in {redisClients[r], redisClients[r] \cup {client}}
        BY <1>4, <2>0, <3>2 DEF WriteMembers, TypeOK
    <3>4. c = client => <<r, c>> \in unsynced' \/ Agree(r, c)'
        BY <1>4, <2>0, <3>1, <3>2 DEF WriteMembers, TypeOK
    <3>5. c # client => (<<r, c>> \in unsynced => <<r, c>> \in unsynced')
                        /\ (Agree(r, c) => Agree(r, c)') /\ ~Writing(h, r, c)
        BY <1>4, <2>0, <3>1, <3>2, <3>3 DEF WriteMembers
    <3> QED
        BY <2>1, <2>2, <3>4, <3>5
  <2>7. CASE LeaveRedis(h)
    <3>1. clients' = clients /\ client \notin Inside(clients[r])
        BY <1>4, <2>7 DEF LeaveRedis, At, HolderKnows, Members
    <3>2. WriteMembers(room, client, redisClients[room] \ {client})
        BY <2>7 DEF LeaveRedis
    <3>3. redisClients'[r] \in {redisClients[r], redisClients[r] \ {client}}
        BY <1>4, <2>0, <3>2 DEF WriteMembers, TypeOK
    <3>4. c = client => <<r, c>> \in unsynced' \/ Agree(r, c)'
        BY <1>4, <2>0, <3>1, <3>2 DEF WriteMembers, TypeOK
    <3>5. c # client => (<<r, c>> \in unsynced => <<r, c>> \in unsynced')
                        /\ (Agree(r, c) => Agree(r, c)') /\ ~Writing(h, r, c)
        BY <1>4, <2>0, <3>1, <3>2, <3>3 DEF WriteMembers
    <3> QED
        BY <2>1, <2>2, <3>4, <3>5
  <2>8. CASE CloseRedis(h)
    <3>1. rooms' # rooms => r \notin rooms'
        BY <1>4, <2>8 DEF CloseRedis
    <3>2. \/ rooms' = rooms \ {room}
          \/ unsynced' = unsynced \cup ({room} \X Client)
        BY <2>8 DEF CloseRedis
    <3>3. <<r, c>> \in unsynced'
        BY <1>4, <3>2
    <3> QED
        BY <3>3
  <2>9. CASE ~(JoinInsert(h) \/ LeaveEnter(h) \/ SetKey(h) \/ JoinRedis(h)
               \/ LeaveRedis(h) \/ CloseRedis(h))
    <3>1. UNCHANGED <<clients, redisClients>> /\ unsynced \subseteq unsynced'
        BY <1>4, <2>9 DEF Acquire, Continue, memory, redis, CreateRedis,
           CreateExchange, CloseExchange, JoinEnter, SaveKey, PublishKey, FetchKeys,
           CompareKeys, LogAllKeys, PublishMessage, BindQueue
    <3>2. ~Writing(h, r, c)
        BY <1>4, <2>9 DEF Acquire, Continue, At, CreateRedis,
           CreateExchange, CloseExchange, JoinEnter, SaveKey, PublishKey, FetchKeys,
           CompareKeys, LogAllKeys, PublishMessage, BindQueue
    <3> QED
        BY <2>1, <2>2, <3>1, <3>2
  <2> QED
      BY <2>3, <2>4, <2>5, <2>6, <2>7, <2>8, <2>9
<1> QED
    BY <1>1, <1>2, <1>3, <1>4

-----------------------------------------------------------------------------
(* The theorems.                                                           *)

\* A server that has just started has the invariant.
LEMMA InitInv == Init => Inv
<1> SUFFICES ASSUME Init PROVE Inv
    OBVIOUS
<1>1. TypeOK
    BY IdleType DEF Init, TypeOK
<1>2. \A r \in Room : Inside(clients[r]) = {}
    BY DEF Init, Inside
<1>3. CallsWellFormed /\ LocksOwned /\ IdsFresh /\ HolderKnows /\ RedisInStep
    BY DistinctValues DEF Init, Idle, CallsWellFormed, LocksOwned, IdsFresh,
       HolderKnows, RedisInStep
<1>4. Capacity
    BY <1>2, FS_EmptySet DEF Capacity, Members
<1> QED
    BY <1>1, <1>3, <1>4 DEF Inv

\* The death of the process and its restart: there are no calls and no rooms.
LEMMA HaltInv ==
    ASSUME Inv, NEW how \in {"crashed", "panicked"}, Halt(how)
    PROVE  Inv'
<1>1. TypeOK'
    BY HaltType DEF Inv
<1>2. \A r \in Room : Inside(clients'[r]) = {}
    BY DEF Halt, Inside
<1>3. /\ CallsWellFormed' /\ LocksOwned' /\ IdsFresh'
      /\ HolderKnows' /\ RedisInStep'
    BY DistinctValues DEF Halt, Idle, Inv, CallsWellFormed, LocksOwned, IdsFresh,
       HolderKnows, RedisInStep, ids
<1>4. Capacity'
    BY <1>2, FS_EmptySet DEF Capacity, Members
<1> QED
    BY <1>1, <1>3, <1>4 DEF Inv

\* Every step, or none, keeps the invariant.
LEMMA NextInv == Inv /\ [Next]_vars => Inv'
<1> SUFFICES ASSUME Inv, [Next]_vars PROVE Inv'
    OBVIOUS
<1>1. ASSUME NEW h \in Handler, Arrive(h) \/ Acquire(h) \/ Continue(h)
      PROVE  Inv'
  <2>1. TypeOK'
      BY <1>1, ArriveType, ContinueType DEF Inv
  <2> QED
      BY <1>1, <2>1, CallsStep, LocksStep, IdsStep, HolderStep, CapacityStep,
         RedisStep DEF Inv
<1>2. CASE Crash
    BY <1>2, HaltInv DEF Crash
<1>3. ASSUME \/ Restart
             \/ UNCHANGED vars
      PROVE  Inv'
  <2>1. UNCHANGED <<rooms, clients, roomsMutex, roomMutex, redis, exchange, ids, call>>
      BY <1>3 DEF Restart, vars, memory, broker
  <2>2. TypeOK'
      BY <1>3, <2>1 DEF Inv, TypeOK, Restart, vars, memory, redis, broker, ids
  <2>3. /\ CallsWellFormed' /\ LocksOwned' /\ IdsFresh'
        /\ HolderKnows' /\ Capacity' /\ RedisInStep'
      BY <2>1 DEF Inv, CallsWellFormed, LocksOwned, IdsFresh, HolderKnows,
         Capacity, RedisInStep, Members, redis, ids
  <2> QED
      BY <2>2, <2>3 DEF Inv
<1> QED
    BY <1>1, <1>2, <1>3 DEF Next

\* The invariant holds in every reachable state, whatever the number of
\* rooms, clients and calls in progress.
THEOREM Invariant == Spec => []Inv
<1>1. Init => Inv
    BY InitInv
<1>2. Inv /\ [Next]_vars => Inv'
    BY NextInv
<1> QED
    BY <1>1, <1>2, PTL DEF Spec

\* Every variable keeps its type.
THEOREM TypeCorrect == Spec => []TypeOK
<1>1. Inv => TypeOK
    BY DEF Inv
<1> QED
    BY <1>1, Invariant, PTL

\* No interleaving of JoinRoom, LeaveRoom, CloseRoom and crashes ever puts a
\* third client into a room object (server.go:208-226).
THEOREM AtMostTwo == Spec => []Capacity
<1>1. Inv => Capacity
    BY DEF Inv
<1> QED
    BY <1>1, Invariant, PTL

\* While nobody holds the mutex of a served room, the only differences
\* between its members in memory and in Redis come from failed writes.
THEOREM RedisTracks == Spec => []RedisTracksMembers
<1>1. Inv => RedisTracksMembers
  <2> SUFFICES ASSUME Inv, NEW r \in rooms, NEW c \in Client,
                      roomMutex[r] = Free, <<r, c>> \notin unsynced
               PROVE  c \in redisClients[r] <=> c \in Members(r)
      BY DEF RedisTracksMembers
  <2>1. \A h \in Handler : call[h].room = r =>
            call[h].pc \notin {"joinRedis", "leaveRedis"}
      BY DistinctValues DEF Inv, LocksOwned
  <2> QED
      BY <2>1 DEF Inv, RedisInStep
<1> QED
    BY <1>1, Invariant, PTL

-----------------------------------------------------------------------------
(* RoomServer implements RoomSpec.                                         *)

\* Whatever leaves the map, the ids and the members of the served rooms as
\* they were is no step of the abstract rooms.
LEMMA Stutter ==
    ASSUME rooms' = rooms, used' = used,
           \A r \in rooms : Inside(clients'[r]) = Inside(clients[r])
    PROVE  UNCHANGED Abstract!vars
BY DEF Abstract!vars, Members

\* A set of fewer than two elements has no two that differ.
LEMMA AtMostOne ==
    ASSUME NEW S, IsFiniteSet(S), Cardinality(S) < 2
    PROVE  \A d, e \in S : d = e
<1> SUFFICES ASSUME NEW d \in S, NEW e \in S, d # e PROVE FALSE
    OBVIOUS
<1>1. IsFiniteSet({d}) /\ Cardinality({d}) = 1
    BY FS_Singleton
<1>2. Cardinality({d} \cup {e}) = 2
    BY <1>1, FS_AddElement
<1>3. Cardinality({d} \cup {e}) <= Cardinality(S)
    BY FS_Subset
<1>4. Cardinality(S) \in Nat
    BY FS_CardinalityType
<1> QED
    BY <1>2, <1>3, <1>4

\* A served room with one member at most takes in a new one.
LEMMA JoinStep ==
    ASSUME NEW r \in Room, NEW c, r \in rooms, rooms' = rooms, used' = used,
           c \notin Inside(clients[r]),
           \A d, e \in Inside(clients[r]) : d = e,
           Inside(clients'[r]) = Inside(clients[r]) \cup {c},
           \A q \in Room \ {r} : Inside(clients'[q]) = Inside(clients[q])
    PROVE  Abstract!Join(r, c)
<1> DEFINE now == [q \in Room |-> IF q \in rooms THEN Inside(clients[q]) ELSE {}]
           later == [q \in Room |-> IF q \in rooms THEN Inside(clients'[q]) ELSE {}]
<1>1. now[r] = Inside(clients[r])
    OBVIOUS
<1>2. \A q \in Room : later[q] = IF q = r THEN now[r] \cup {c} ELSE now[q]
    OBVIOUS
<1>3. later = [now EXCEPT ![r] = now[r] \cup {c}]
  <2> HIDE DEF now
  <2>1. now = [q \in Room |-> now[q]]
      BY DEF now
  <2>2. later = [q \in Room |-> later[q]]
      OBVIOUS
  <2> HIDE DEF later
  <2> QED
      BY <1>2, <2>1, <2>2
<1> QED
    BY <1>1, <1>3 DEF Abstract!Join, Members

\* A step of a call is one abstract step or none.
LEMMA CallRefines ==
    ASSUME Inv, NEW h \in Handler, Acquire(h) \/ Continue(h), ~ComparePanic(h)
    PROVE  Abstract!Next \/ UNCHANGED Abstract!vars
<1> DEFINE room == call[h].room
           client == call[h].client
<1>0. TypeOK /\ CallsWellFormed /\ LocksOwned /\ HolderKnows /\ rooms \subseteq Room
    BY DEF Inv, TypeOK
<1>1. CASE JoinInsert(h)
  <2>1. /\ clients' = [clients EXCEPT ![room][client] = NoKey]
        /\ room \in Room /\ client \in Client
        /\ rooms' = rooms /\ used' = used
      BY <1>0, <1>1, InCall DEF JoinInsert, At, ids
  <2>2. Inside(clients'[room]) = Inside(clients[room]) \cup {client}
      BY <1>0, <2>1, InsideAdd
  <2>3. \A q \in Room \ {room} : clients'[q] = clients[q]
      BY <1>0, <2>1, InsideAdd
  <2>4. Cardinality(Inside(clients[room])) < 2 /\ client \notin Inside(clients[room])
      BY <1>0, <1>1 DEF JoinInsert, At, HolderKnows, Members
  <2>5. CASE room \in rooms
    <3>1. \A d, e \in Inside(clients[room]) : d = e
        BY <1>0, <2>1, <2>4, InsideFinite, AtMostOne
    <3>2. PICK r \in Room, c \in Client : r = room /\ c = client
        BY <2>1
    <3>3. Abstract!Join(r, c)
        BY <2>1, <2>2, <2>3, <2>4, <2>5, <3>1, <3>2, JoinStep
    <3> QED
        BY <3>3 DEF Abstract!Next
  <2>6. CASE room \notin rooms
      BY <1>0, <2>1, <2>3, <2>6, Stutter
  <2> QED
      BY <2>5, <2>6
<1>2. CASE LeaveEnter(h)
  <2>1. room \in Room /\ client \in Client /\ rooms' = rooms /\ used' = used
      BY <1>0, <1>2, InCall DEF LeaveEnter, At, ids
  <2>2. CASE client \in Inside(clients[room])
    <3>1. clients' = [clients EXCEPT ![room][client] = Absent]
        BY <1>2, <2>2 DEF LeaveEnter, Members
    <3>2. /\ Inside(clients'[room]) = Inside(clients[room]) \ {client}
          /\ \A q \in Room \ {room} : clients'[q] = clients[q]
        BY <1>0, <2>1, <3>1, InsideRemove
    <3>3. CASE room \in rooms
      <4>1. Abstract!Leave(room, client)
          BY <2>1, <2>2, <3>2, <3>3 DEF Abstract!Leave, Members
      <4> QED
          BY <2>1, <4>1 DEF Abstract!Next, Abstract!Leave
    <3>4. CASE room \notin rooms
        BY <1>0, <2>1, <3>2, <3>4, Stutter
    <3> QED
        BY <3>3, <3>4
  <2>3. CASE client \notin Inside(clients[room])
    <3>1. clients' = clients
        BY <1>2, <2>3 DEF LeaveEnter, Members
    <3> QED
        BY <2>1, <3>1, Stutter
  <2> QED
      BY <2>2, <2>3
<1>3. CASE SetKey(h)
  <2>1. room \in Room /\ client \in Client /\ rooms' = rooms /\ used' = used
        /\ call[h].key \in Key \cup {NoKey}
      BY <1>0, <1>3, InCall DEF SetKey, At, ids, CallsWellFormed
  <2>2. CASE client \in Inside(clients[room])
    <3>1. clients' = [clients EXCEPT ![room][client] = call[h].key]
        BY <1>3, <2>2 DEF SetKey, Members
    <3>2. /\ Inside(clients'[room]) = Inside(clients[room]) \cup {client}
          /\ \A q \in Room \ {room} : clients'[q] = clients[q]
        BY <1>0, <2>1, <3>1, InsideAdd
    <3> QED
        BY <1>0, <2>1, <2>2, <3>2, Stutter
  <2>3. CASE client \notin Inside(clients[room])
    <3>1. clients' = clients
        BY <1>3, <2>3 DEF SetKey, Members
    <3> QED
        BY <2>1, <3>1, Stutter
  <2> QED
      BY <2>2, <2>3
<1>4. CASE CloseRedis(h)
  <2>1. clients' = clients /\ used' = used
      BY <1>4 DEF CloseRedis, ids
  <2>2. CASE rooms' = rooms
      BY <2>1, <2>2, Stutter
  <2>3. CASE rooms' # rooms
    <3>1. rooms' = rooms \ {room} /\ room \in rooms
        BY <1>4, <2>3 DEF CloseRedis
    <3>2. room \in Room /\ room \in used
        BY <1>0, <3>1 DEF Inv, IdsFresh
    <3>3. Abstract!Close(room)
        BY <2>1, <3>1, <3>2 DEF Abstract!Close, Members
    <3> QED
        BY <3>2, <3>3 DEF Abstract!Next, Abstract!Close
  <2> QED
      BY <2>2, <2>3
<1>5. CASE ~(JoinInsert(h) \/ LeaveEnter(h) \/ SetKey(h) \/ CloseRedis(h))
  <2>1. rooms' = rooms /\ used' = used /\ clients' = clients
      BY <1>5 DEF Acquire, Continue, memory, ids, CreateRedis, CreateExchange,
         CloseExchange, JoinEnter, JoinRedis, LeaveRedis, SaveKey, PublishKey,
         FetchKeys, CompareKeys, LogAllKeys, PublishMessage, BindQueue
  <2> QED
      BY <2>1, Stutter
<1> QED
    BY <1>1, <1>2, <1>3, <1>4, <1>5

\* The death of the process is the abstract crash.
LEMMA HaltRefines ==
    ASSUME Inv, NEW how, Halt(how)
    PROVE  Abstract!Next
<1>1. rooms \subseteq used /\ rooms' = {} /\ used' = used
    BY DEF Inv, IdsFresh, Halt, ids
<1>2. Abstract!Crash
    BY <1>1 DEF Abstract!Crash
<1> QED
    BY <1>2 DEF Abstract!Next

\* Every step is one of the abstract rooms, or changes nothing they show.
LEMMA StepRefines == Inv /\ [Next]_vars => [Abstract!Next]_(Abstract!vars)
<1> SUFFICES ASSUME Inv, [Next]_vars PROVE Abstract!Next \/ UNCHANGED Abstract!vars
    OBVIOUS
<1>1. ASSUME NEW h \in Handler, Arrive(h)
      PROVE  Abstract!Next \/ UNCHANGED Abstract!vars
  <2>1. ASSUME NEW c \in Client, NEW r \in Room, CreateRoom(h, c, r)
        PROVE  Abstract!Next
    <3>1. /\ r \notin used /\ r \notin rooms
          /\ used' = used \cup {r} /\ rooms' = rooms \cup {r} /\ clients' = clients
        BY <2>1 DEF CreateRoom, Inv, IdsFresh
    <3>2. Inside(clients[r]) = {}
        BY <3>1 DEF Inv, IdsFresh, Inside
    <3>3. Abstract!Open(r)
        BY <3>1, <3>2 DEF Abstract!Open, Members
    <3> QED
        BY <3>3 DEF Abstract!Next
  <2>2. (rooms' = rooms /\ used' = used /\ clients' = clients)
        \/ \E c \in Client, r \in Room : CreateRoom(h, c, r)
      BY <1>1 DEF Arrive, CloseRoom, JoinRoom, LeaveRoom, SendPublicKey,
         SendMessage, ReceiveMessages, Lookup, memory, ids
  <2> QED
      BY <2>1, <2>2, Stutter
<1>2. ASSUME NEW h \in Handler, Acquire(h) \/ Continue(h)
      PROVE  Abstract!Next \/ UNCHANGED Abstract!vars
    BY <1>2, CallRefines, HaltRefines DEF ComparePanic
<1>3. CASE Crash
    BY <1>3, HaltRefines DEF Crash
<1>4. CASE Restart \/ UNCHANGED vars
  <2>1. rooms' = rooms /\ used' = used /\ clients' = clients
      BY <1>4 DEF Restart, vars, memory, ids
  <2> QED
      BY <2>1, Stutter
<1> QED
    BY <1>1, <1>2, <1>3, <1>4 DEF Next

\* The server's rooms behave as RoomSpec says, for any number of rooms,
\* clients and handlers: the room map is a correct implementation of rooms
\* that open once, hold at most two clients and never come back.
THEOREM Refinement == Spec => ImplementsRoomSpec
<1>1. Init => Abstract!Init
    BY DEF Init, Abstract!Init
<1>2. Inv /\ [Next]_vars => [Abstract!Next]_(Abstract!vars)
    BY StepRefines
<1> QED
    BY <1>1, <1>2, Invariant, PTL DEF Spec, ImplementsRoomSpec, Abstract!Spec
=============================================================================
