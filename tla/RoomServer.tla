----------------------------- MODULE RoomServer -----------------------------
(***************************************************************************)
(* The gRPC chat server (server/server.go, server/redis_store.go).         *)
(*                                                                         *)
(* gRPC runs every call in a goroutine of its own, a handler.  A handler's *)
(* steps are separated where the code takes or drops a lock and at each    *)
(* call to Redis or RabbitMQ, any of which may fail.  OneCallEach says     *)
(* whether a client waits for an answer before its next call, as the       *)
(* terminal client does, or has several connections, as a web user may.    *)
(* Reads that change nothing (GetRoom, GetPublicKeys, GetRoomHistory, and  *)
(* every call answered "not found") have no action.                        *)
(*                                                                         *)
(* Left to other modules: the queues behind an exchange and the contents   *)
(* of messages.  Room ids (32 random bits) are taken not to repeat, and    *)
(* the broker to close the channel only on a protocol error.               *)
(***************************************************************************)
EXTENDS Integers, FiniteSets

CONSTANTS
    Room,           \* the ids generateRoomID can return
    Client,
    Key,            \* public keys, in hex
    Handler,        \* goroutines serving calls
    OneCallEach,    \* no client has two calls in progress
    NoKey,          \* the empty string: a client that has sent no key
    Absent,         \* not in room.Clients
    NoRoom, NoClient,
    Free            \* an unlocked mutex

ASSUME OneCallEachType == OneCallEach \in BOOLEAN
ASSUME FiniteClients == IsFiniteSet(Client)
ASSUME DistinctValues ==
    /\ NoKey \notin Key /\ Absent \notin Key /\ NoKey # Absent
    /\ Free \notin Handler /\ NoRoom \notin Room /\ NoClient \notin Client

VARIABLES
    server,         \* "up", "crashed" or "panicked"
    rooms,          \* the keys of s.rooms
    clients,        \* clients[r][c]: Absent, NoKey or the key of a member
    roomsMutex,     \* writer of s.roomsMutex
    roomMutex,      \* holder of room.mutex, per room object
    redisRooms,     \* Redis: rooms with a "room:<id>" hash
    redisClients,   \* Redis: "room:<id>:clients"
    redisKeys,      \* Redis: "room:<id>:public_keys"
    exchange,       \* RabbitMQ: "none", "declared" or "deleted"
    channel,        \* the server's one AMQP channel is open
    used,           \* ids generated so far
    known,          \* ids some CreateRoom returned to its caller
    call,           \* call[h]: the call handler h is executing
    unsynced        \* ghost: pairs <<r, c>> some Redis write of which failed
                    \* since c's last successful join or leave

memory == <<server, rooms, clients, roomsMutex, roomMutex>>
redis == <<redisRooms, redisClients, redisKeys, unsynced>>
broker == <<exchange, channel>>
ids == <<used, known>>
vars == <<memory, redis, broker, ids, call>>

-----------------------------------------------------------------------------
(* Helpers.                                                                *)

PC == {"idle", "createRedis", "createExchange", "closeExchange", "closeRedis",
       "joinEnter", "joinInsert", "joinRedis", "leaveEnter", "leaveRedis",
       "setKey", "saveKey", "publishKey", "fetchKeys", "compareKeys",
       "logAllKeys", "publishMessage", "bindQueue"}

Call == [pc : PC, client : Client \cup {NoClient}, room : Room \cup {NoRoom},
         key : Key \cup {NoKey}, count : Nat]

Idle == [pc |-> "idle", client |-> NoClient, room |-> NoRoom,
         key |-> NoKey, count |-> 0]

\* The clients in one room.Clients map.
Inside(map) == {c \in Client : map[c] # Absent}

Members(r) == Inside(clients[r])

At(h, pc) == server = "up" /\ call[h].pc = pc

Goto(h, pc) == call' = [call EXCEPT ![h].pc = pc]

Return(h) == call' = [call EXCEPT ![h] = Idle]

\* HSet or HDel of client c in "room:<id>:clients".  A write that reports an
\* error (a timeout, a cancelled call) may have been applied all the same;
\* the caller goes on to report the error and undoes nothing in memory.
WriteMembers(r, c, set) ==
    LET written == [redisClients EXCEPT ![r] = set] IN
    \/ /\ redisClients' = written
       /\ unsynced' = unsynced \ {<<r, c>>}
    \/ /\ redisClients' \in {redisClients, written}
       /\ unsynced' = unsynced \cup {<<r, c>>}

\* A call of client c reaches an idle handler, while no writer has s.rooms.
Arrives(h, c) ==
    /\ At(h, "idle")
    /\ roomsMutex = Free
    /\ OneCallEach => \A g \in Handler : call[g].client # c

Begin(h, c, r, pc, k) ==
    call' = [call EXCEPT ![h] =
                [pc |-> pc, client |-> c, room |-> r, key |-> k, count |-> 0]]

\* RLock, s.rooms[id], RUnlock: the lookup a call on a room begins with.
Lookup(h, c, r, pc, k) ==
    /\ Arrives(h, c)
    /\ r \in known \cap rooms
    /\ Begin(h, c, r, pc, k)
    /\ UNCHANGED <<memory, redis, broker, ids>>

-----------------------------------------------------------------------------
(* CreateRoom: roomsMutex is held from the insertion into the map to the   *)
(* return, and an error leaves what was done before it.                    *)

\* Mutant: nothing keeps generateRoomID from returning an old id.
CreateRoom_OldId(h, c, r) ==
    /\ Arrives(h, c)
    /\ used' = used \cup {r}
    /\ roomsMutex' = h
    /\ rooms' = rooms \cup {r}
    /\ Begin(h, c, r, "createRedis", NoKey)
    /\ UNCHANGED <<server, clients, roomMutex, redis, broker, known>>

CreateRoom(h, c, r) ==
    /\ Arrives(h, c)
    /\ r \notin used
    /\ used' = used \cup {r}
    /\ roomsMutex' = h
    /\ rooms' = rooms \cup {r}
    /\ Begin(h, c, r, "createRedis", NoKey)
    /\ UNCHANGED <<server, clients, roomMutex, redis, broker, known>>

CreateRedis(h) ==
    /\ At(h, "createRedis")
    /\ \/ /\ redisRooms' = redisRooms \cup {call[h].room}
          /\ Goto(h, "createExchange")
          /\ UNCHANGED roomsMutex
       \/ /\ redisRooms' \in {redisRooms, redisRooms \cup {call[h].room}}
          /\ Return(h)
          /\ roomsMutex' = Free
    /\ UNCHANGED <<server, rooms, clients, roomMutex, redisClients, redisKeys,
                   unsynced, broker, ids>>

\* Mutant: the id is returned whether or not the exchange was declared.
CreateExchange_Unchecked(h) ==
    /\ At(h, "createExchange")
    /\ Return(h)
    /\ roomsMutex' = Free
    /\ known' = known \cup {call[h].room}
    /\ exchange' \in {exchange, [exchange EXCEPT ![call[h].room] = "declared"]}
    /\ UNCHANGED <<server, rooms, clients, roomMutex, redis, channel, used>>

CreateExchange(h) ==
    /\ At(h, "createExchange")
    /\ Return(h)
    /\ roomsMutex' = Free
    /\ IF channel
       THEN /\ exchange' = [exchange EXCEPT ![call[h].room] = "declared"]
            /\ known' = known \cup {call[h].room}
       ELSE UNCHANGED <<exchange, known>>
    /\ UNCHANGED <<server, rooms, clients, roomMutex, redis, channel, used>>

-----------------------------------------------------------------------------
(* CloseRoom: the exchange, then Redis, then the map, all under roomsMutex *)
(* and without room.mutex: calls that looked the room up before run on.    *)

CloseRoom(h, c, r) ==
    /\ Arrives(h, c)
    /\ r \in known \cap rooms
    /\ roomsMutex' = h
    /\ Begin(h, c, r, "closeExchange", NoKey)
    /\ UNCHANGED <<server, rooms, clients, roomMutex, redis, broker, ids>>

\* Mutant: Redis is cleaned before the exchange is deleted.
CloseExchange_RedisFirst(h) ==
    /\ At(h, "closeExchange")
    /\ redisRooms' = redisRooms \ {call[h].room}
    /\ Goto(h, "closeRedis")
    /\ UNCHANGED <<memory, redisClients, redisKeys, unsynced, broker, ids>>

CloseExchange(h) ==
    /\ At(h, "closeExchange")
    /\ IF channel
       THEN /\ exchange' = [exchange EXCEPT ![call[h].room] = "deleted"]
            /\ Goto(h, "closeRedis")
            /\ UNCHANGED roomsMutex
       ELSE /\ Return(h)
            /\ roomsMutex' = Free
            /\ UNCHANGED exchange
    /\ UNCHANGED <<server, rooms, clients, roomMutex, redis, channel, ids>>

\* DeleteRoom removes the room's three Redis keys in one command.
CloseRedis(h) ==
    LET r == call[h].room
        deleted ==
            /\ redisRooms' = redisRooms \ {r}
            /\ redisClients' = [redisClients EXCEPT ![r] = {}]
            /\ redisKeys' = [redisKeys EXCEPT ![r] = [c \in Client |-> NoKey]]
    IN
    /\ At(h, "closeRedis")
    /\ Return(h)
    /\ roomsMutex' = Free
    /\ \/ /\ deleted
          /\ unsynced' = unsynced \ ({r} \X Client)
          /\ rooms' = rooms \ {r}
       \/ /\ deleted \/ UNCHANGED <<redisRooms, redisClients, redisKeys>>
          /\ unsynced' = unsynced \cup ({r} \X Client)
          /\ UNCHANGED rooms
    /\ UNCHANGED <<server, clients, roomMutex, broker, ids>>

-----------------------------------------------------------------------------
(* JoinRoom: the pointer found by the lookup is used after roomsMutex was  *)
(* dropped; room.mutex is held from the checks to the return.              *)

JoinRoom(h, c, r) == Lookup(h, c, r, "joinEnter", NoKey)

\* Mutant: the check lets a third client in.
JoinEnter_TooMany(h) ==
    LET r == call[h].room IN
    /\ At(h, "joinEnter")
    /\ roomMutex[r] = Free
    /\ IF Cardinality(Members(r)) > 2 \/ call[h].client \in Members(r)
       THEN Return(h) /\ UNCHANGED roomMutex
       ELSE Goto(h, "joinInsert") /\ roomMutex' = [roomMutex EXCEPT ![r] = h]
    /\ UNCHANGED <<server, rooms, clients, roomsMutex, redis, broker, ids>>

\* Mutant: two JoinRooms may be between the check and the insertion.
JoinEnter_Unlocked(h) ==
    LET r == call[h].room IN
    /\ At(h, "joinEnter")
    /\ IF Cardinality(Members(r)) >= 2 \/ call[h].client \in Members(r)
       THEN Return(h) /\ UNCHANGED roomMutex
       ELSE Goto(h, "joinInsert") /\ roomMutex' = [roomMutex EXCEPT ![r] = h]
    /\ UNCHANGED <<server, rooms, clients, roomsMutex, redis, broker, ids>>

\* Lock, and the two checks: room full, already joined.
JoinEnter(h) ==
    LET r == call[h].room IN
    /\ At(h, "joinEnter")
    /\ roomMutex[r] = Free
    /\ IF Cardinality(Members(r)) >= 2 \/ call[h].client \in Members(r)
       THEN Return(h) /\ UNCHANGED roomMutex
       ELSE Goto(h, "joinInsert") /\ roomMutex' = [roomMutex EXCEPT ![r] = h]
    /\ UNCHANGED <<server, rooms, clients, roomsMutex, redis, broker, ids>>

\* Mutant: the mutex is dropped before the Redis call.
JoinInsert_Unlocks(h) ==
    /\ At(h, "joinInsert")
    /\ clients' = [clients EXCEPT ![call[h].room][call[h].client] = NoKey]
    /\ roomMutex' = [roomMutex EXCEPT ![call[h].room] = Free]
    /\ Goto(h, "joinRedis")
    /\ UNCHANGED <<server, rooms, roomsMutex, redis, broker, ids>>

JoinInsert(h) ==
    /\ At(h, "joinInsert")
    /\ clients' = [clients EXCEPT ![call[h].room][call[h].client] = NoKey]
    /\ Goto(h, "joinRedis")
    /\ UNCHANGED <<server, rooms, roomsMutex, roomMutex, redis, broker, ids>>

\* Mutant: no deferred unlock, and the error path forgets it.
JoinRedis_KeepsLock(h) ==
    LET r == call[h].room IN
    /\ At(h, "joinRedis")
    /\ WriteMembers(r, call[h].client, redisClients[r] \cup {call[h].client})
    /\ roomMutex' = IF <<r, call[h].client>> \in unsynced' THEN roomMutex
                    ELSE [roomMutex EXCEPT ![r] = Free]
    /\ Return(h)
    /\ UNCHANGED <<server, rooms, clients, roomsMutex, redisRooms, redisKeys,
                   broker, ids>>

JoinRedis(h) ==
    LET r == call[h].room IN
    /\ At(h, "joinRedis")
    /\ WriteMembers(r, call[h].client, redisClients[r] \cup {call[h].client})
    /\ roomMutex' = [roomMutex EXCEPT ![r] = Free]
    /\ Return(h)
    /\ UNCHANGED <<server, rooms, clients, roomsMutex, redisRooms, redisKeys,
                   broker, ids>>

-----------------------------------------------------------------------------
(* LeaveRoom.  Only the membership field is removed from Redis: the        *)
(* client's public key stays there.                                        *)

LeaveRoom(h, c, r) == Lookup(h, c, r, "leaveEnter", NoKey)

LeaveEnter(h) ==
    LET r == call[h].room IN
    /\ At(h, "leaveEnter")
    /\ roomMutex[r] = Free
    /\ IF call[h].client \in Members(r)
       THEN /\ clients' = [clients EXCEPT ![r][call[h].client] = Absent]
            /\ roomMutex' = [roomMutex EXCEPT ![r] = h]
            /\ Goto(h, "leaveRedis")
       ELSE Return(h) /\ UNCHANGED <<clients, roomMutex>>
    /\ UNCHANGED <<server, rooms, roomsMutex, redis, broker, ids>>

LeaveRedis(h) ==
    LET r == call[h].room IN
    /\ At(h, "leaveRedis")
    /\ WriteMembers(r, call[h].client, redisClients[r] \ {call[h].client})
    /\ roomMutex' = [roomMutex EXCEPT ![r] = Free]
    /\ Return(h)
    /\ UNCHANGED <<server, rooms, clients, roomsMutex, redisRooms, redisKeys,
                   broker, ids>>

-----------------------------------------------------------------------------
(* SendPublicKey: room.mutex is dropped after the assignment; Redis, the   *)
(* broker, Redis again and a second lookup follow without any lock.        *)

SendPublicKey(h, c, r, k) == Lookup(h, c, r, "setKey", k)

\* Mutant: the client's id is stored where its key belongs.
SetKey_StoresId(h) ==
    LET r == call[h].room IN
    /\ At(h, "setKey")
    /\ roomMutex[r] = Free
    /\ call[h].client \in Members(r)
    /\ clients' = [clients EXCEPT ![r][call[h].client] = call[h].client]
    /\ Goto(h, "saveKey")
    /\ UNCHANGED <<server, rooms, roomsMutex, roomMutex, redis, broker, ids>>

SetKey(h) ==
    LET r == call[h].room IN
    /\ At(h, "setKey")
    /\ roomMutex[r] = Free
    /\ IF call[h].client \in Members(r)
       THEN /\ clients' = [clients EXCEPT ![r][call[h].client] = call[h].key]
            /\ Goto(h, "saveKey")
       ELSE Return(h) /\ UNCHANGED clients
    /\ UNCHANGED <<server, rooms, roomsMutex, roomMutex, redis, broker, ids>>

\* Mutant: the error of the Redis write is only logged.
SaveKey_IgnoresError(h) ==
    /\ At(h, "saveKey")
    /\ redisKeys' \in {redisKeys,
                       [redisKeys EXCEPT ![call[h].room][call[h].client] = call[h].key]}
    /\ Goto(h, "publishKey")
    /\ UNCHANGED <<memory, redisRooms, redisClients, unsynced, broker, ids>>

SaveKey(h) ==
    LET r == call[h].room
        saved == [redisKeys EXCEPT ![r][call[h].client] = call[h].key]
    IN
    /\ At(h, "saveKey")
    /\ \/ /\ redisKeys' = saved
          /\ UNCHANGED unsynced
          /\ Goto(h, "publishKey")
       \/ /\ redisKeys' \in {redisKeys, saved}
          /\ unsynced' = unsynced \cup {<<r, call[h].client>>}
          /\ Return(h)
    /\ UNCHANGED <<memory, redisRooms, redisClients, broker, ids>>

\* A publish to an exchange that is not there closes the channel it was
\* made on; the call that made it learns nothing, and the next ones only
\* once the broker's answer has come.
PublishKey(h) ==
    /\ At(h, "publishKey")
    /\ Goto(h, "fetchKeys") \/ (~channel /\ Return(h))
    /\ channel' = (channel /\ exchange[call[h].room] = "declared")
    /\ UNCHANGED <<memory, redis, exchange, ids>>

Counted(h, n) ==
    call' = [call EXCEPT ![h].pc = "compareKeys", ![h].count = n]

FetchKeys(h) ==
    /\ At(h, "fetchKeys")
    /\ \/ Counted(h, Cardinality({c \in Client : redisKeys[call[h].room][c] # NoKey}))
       \/ Return(h)
    /\ UNCHANGED <<memory, redis, broker, ids>>

\* The process is gone: its memory and its calls with it.  Redis, RabbitMQ
\* and the ids handed out remain.
Halt(how) ==
    /\ server' = how
    /\ rooms' = {}
    /\ clients' = [r \in Room |-> [c \in Client |-> Absent]]
    /\ roomsMutex' = Free
    /\ roomMutex' = [r \in Room |-> Free]
    /\ channel' = FALSE
    /\ unsynced' = {}
    /\ call' = [h \in Handler |-> Idle]
    /\ UNCHANGED <<redisRooms, redisClients, redisKeys, exchange, ids>>

\* s.rooms[req.RoomId].Clients without a check: a nil dereference when the
\* room was closed after the lookup, and no handler recovers from it.
CompareKeys(h) ==
    LET r == call[h].room IN
    /\ At(h, "compareKeys")
    /\ roomsMutex = Free
    /\ r \in rooms
    /\ IF call[h].count >= Cardinality(Members(r))
       THEN Goto(h, "logAllKeys")
       ELSE Return(h)
    /\ UNCHANGED <<memory, redis, broker, ids>>

ComparePanic(h) ==
    /\ At(h, "compareKeys")
    /\ roomsMutex = Free
    /\ call[h].room \notin rooms
    /\ Halt("panicked")

LogAllKeys(h) ==
    /\ At(h, "logAllKeys")
    /\ Return(h)
    /\ UNCHANGED <<memory, redis, broker, ids>>

-----------------------------------------------------------------------------
(* SendMessage and ReceiveMessages, as far as they touch this module's     *)
(* state: both use the exchange of a room looked up earlier.               *)

SendMessage(h, c, r) == Lookup(h, c, r, "publishMessage", NoKey)

PublishMessage(h) ==
    /\ At(h, "publishMessage")
    /\ Return(h)
    /\ channel' = (channel /\ exchange[call[h].room] = "declared")
    /\ UNCHANGED <<memory, redis, exchange, ids>>

ReceiveMessages(h, c, r) == Lookup(h, c, r, "bindQueue", NoKey)

\* With the queue bound the handler waits for its consumer to fail
\* (server.go:635), perhaps for ever, and holds no lock and nothing of a room:
\* for the rooms it is over.  The wait is modelled in Delivery.
BindQueue(h) ==
    /\ At(h, "bindQueue")
    /\ Return(h)
    /\ channel' = (channel /\ exchange[call[h].room] = "declared")
    /\ UNCHANGED <<memory, redis, exchange, ids>>

-----------------------------------------------------------------------------
(* The process dies, and somebody starts it again.                         *)

Crash == server = "up" /\ Halt("crashed")

Restart ==
    /\ server # "up"
    /\ server' = "up"
    /\ channel' = TRUE
    /\ UNCHANGED <<rooms, clients, roomsMutex, roomMutex, redis, exchange, ids, call>>

-----------------------------------------------------------------------------
Init ==
    /\ server = "up"
    /\ rooms = {}
    /\ clients = [r \in Room |-> [c \in Client |-> Absent]]
    /\ roomsMutex = Free
    /\ roomMutex = [r \in Room |-> Free]
    /\ redisRooms = {}
    /\ redisClients = [r \in Room |-> {}]
    /\ redisKeys = [r \in Room |-> [c \in Client |-> NoKey]]
    /\ exchange = [r \in Room |-> "none"]
    /\ channel = TRUE
    /\ used = {}
    /\ known = {}
    /\ call = [h \in Handler |-> Idle]
    /\ unsynced = {}

Arrive(h) ==
    \E c \in Client, r \in Room :
        \/ CreateRoom(h, c, r)
        \/ CloseRoom(h, c, r)
        \/ JoinRoom(h, c, r)
        \/ LeaveRoom(h, c, r)
        \/ \E k \in Key : SendPublicKey(h, c, r, k)
        \/ SendMessage(h, c, r)
        \/ ReceiveMessages(h, c, r)

\* The steps that wait for a mutex, and those that do not.
Acquire(h) == JoinEnter(h) \/ LeaveEnter(h) \/ SetKey(h)
              \/ CompareKeys(h) \/ ComparePanic(h)

Continue(h) ==
    \/ CreateRedis(h) \/ CreateExchange(h)
    \/ CloseExchange(h) \/ CloseRedis(h)
    \/ JoinInsert(h) \/ JoinRedis(h)
    \/ LeaveRedis(h)
    \/ SaveKey(h) \/ PublishKey(h) \/ FetchKeys(h) \/ LogAllKeys(h)
    \/ PublishMessage(h) \/ BindQueue(h)

Next ==
    \/ \E h \in Handler : Arrive(h) \/ Acquire(h) \/ Continue(h)
    \/ Crash
    \/ Restart

Spec == Init /\ [][Next]_vars

\* Go schedules every runnable goroutine, and its mutexes hand the lock over
\* to a goroutine that keeps waiting for it.
Fairness == \A h \in Handler : WF_vars(Continue(h)) /\ SF_vars(Acquire(h))

FairSpec == Spec /\ Fairness

-----------------------------------------------------------------------------
(* Properties.                                                             *)

\* Every variable has the shape the code's types give it.
TypeOK ==
    /\ server \in {"up", "crashed", "panicked"}
    /\ rooms \subseteq Room
    /\ clients \in [Room -> [Client -> Key \cup {NoKey, Absent}]]
    /\ roomsMutex \in Handler \cup {Free}
    /\ roomMutex \in [Room -> Handler \cup {Free}]
    /\ redisRooms \subseteq Room
    /\ redisClients \in [Room -> SUBSET Client]
    /\ redisKeys \in [Room -> [Client -> Key \cup {NoKey}]]
    /\ exchange \in [Room -> {"none", "declared", "deleted"}]
    /\ channel \in BOOLEAN
    /\ used \subseteq Room
    /\ known \subseteq Room
    /\ call \in [Handler -> Call]
    /\ unsynced \subseteq Room \X Client

\* No room object, not even one closed while a JoinRoom was on its way in,
\* ever holds more than two clients (server.go:211).
Capacity == \A r \in Room : Cardinality(Members(r)) <= 2

\* While nobody holds a served room's mutex, Redis and the room agree on who
\* is inside, but for the clients one of whose Redis writes failed
\* (server.go:226-238, 269-278).
RedisTracksMembers ==
    \A r \in rooms, c \in Client :
        roomMutex[r] = Free /\ <<r, c>> \notin unsynced
            => (c \in redisClients[r] <=> c \in Members(r))

SavingKey(r, c) ==
    \E h \in Handler :
        call[h].pc = "saveKey" /\ call[h].room = r /\ call[h].client = c

\* A client that makes one call at a time finds in Redis the key the room
\* has for it, though SendPublicKey writes the two under different locks
\* (server.go:308-312).
KeyStoreAgreement ==
    OneCallEach => \A r \in rooms, c \in Client :
        \/ clients[r][c] \in {NoKey, Absent}
        \/ <<r, c>> \in unsynced
        \/ SavingKey(r, c)
        \/ redisKeys[r][c] = clients[r][c]

\* All rooms share one AMQP channel.  A live server loses it only after some
\* CloseRoom has deleted an exchange: no interleaving of the other calls
\* makes it publish or bind to an exchange that is not there
\* (server.go:124, 174, 321, 440, 507).
ChannelLoss ==
    server = "up" /\ ~channel => \E r \in Room : exchange[r] = "deleted"

\* A room that is served and still has its exchange has its Redis record:
\* CreateRoom writes Redis first, CloseRoom deletes the exchange first.
RecordOutlivesExchange ==
    \A r \in rooms : exchange[r] = "declared" => r \in redisRooms

\* The inductive invariant.  The calls in progress are those of the type; a
\* call that is not creating its room got the id from CreateRoom.
CallsWellFormed ==
    \A h \in Handler :
        /\ call[h].pc # "idle" => /\ call[h].client \in Client
                                  /\ call[h].room \in used
        /\ call[h].pc \in PC \ {"idle", "createRedis", "createExchange"}
              => call[h].room \in known
        /\ call[h].pc \in {"setKey", "saveKey"} => call[h].key \in Key

\* Who holds a mutex, and where its holder is.
LocksOwned ==
    /\ \A h \in Handler :
          /\ (roomsMutex = h) <=> (call[h].pc \in {"createRedis", "createExchange",
                                                   "closeExchange", "closeRedis"})
          /\ call[h].pc \in {"joinInsert", "joinRedis", "leaveRedis"}
                => roomMutex[call[h].room] = h
    /\ \A r \in Room, h \in Handler :
          roomMutex[r] = h => /\ call[h].room = r
                              /\ call[h].pc \in {"joinInsert", "joinRedis", "leaveRedis"}

\* Ids are used before they are served or handed out, and a room nobody
\* created has left no trace.
IdsFresh ==
    /\ rooms \subseteq used
    /\ known \subseteq used
    /\ \A r \in Room \ used :
          /\ clients[r] = [c \in Client |-> Absent]
          /\ redisClients[r] = {}
          /\ roomMutex[r] = Free
          /\ exchange[r] = "none"

\* What the holder of room.mutex may rely on between its steps.
HolderKnows ==
    \A h \in Handler :
        LET inside == Members(call[h].room) IN
        /\ call[h].pc = "joinInsert" => /\ Cardinality(inside) < 2
                                        /\ call[h].client \notin inside
        /\ call[h].pc = "joinRedis" => call[h].client \in inside
        /\ call[h].pc = "leaveRedis" => call[h].client \notin inside

\* Redis and memory agree but for the client the holder of room.mutex is
\* about to write.
RedisInStep ==
    \A r \in rooms, c \in Client :
        \/ <<r, c>> \in unsynced
        \/ \E h \in Handler : /\ call[h].room = r /\ call[h].client = c
                              /\ call[h].pc \in {"joinRedis", "leaveRedis"}
        \/ c \in redisClients[r] <=> c \in Members(r)

Inv == TypeOK /\ CallsWellFormed /\ LocksOwned /\ IdsFresh
       /\ HolderKnows /\ Capacity /\ RedisInStep

\* Every call returns, or dies with the process (ReceiveMessages: comes to its
\* wait for the consumer): no mutex is kept by a handler that is gone, and no
\* two handlers wait for one another.
Progress == \A h \in Handler : call[h].pc # "idle" ~> call[h].pc = "idle"

Abstract == INSTANCE RoomSpec WITH
    status <- [r \in Room |-> IF r \in rooms THEN "open"
                              ELSE IF r \in used THEN "gone" ELSE "new"],
    members <- [r \in Room |-> IF r \in rooms THEN Members(r) ELSE {}]

\* The rooms in the map behave as RoomSpec says: joins never exceed the
\* capacity, and a room that was closed or lost in a crash stays gone.
ImplementsRoomSpec == Abstract!Spec

\* The nil check at the top of SendPublicKey (server.go:289-294) says what a
\* missing room gets: the answer "room not found", and not a panic.
NoPanic == server # "panicked"

\* server.go:351-354: "all public keys received" is logged only when every
\* client of the room has sent its key.
AllKeysReported ==
    [][\A h \in Handler :
        call[h].pc = "compareKeys" /\ call'[h].pc = "logAllKeys"
            => \A c \in Members(call[h].room) : clients[call[h].room][c] \in Key]_vars
=============================================================================
