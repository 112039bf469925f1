# A TLA+ model of cryptokurs

cryptokurs is an end-to-end encrypted chat for two: a gRPC chat server that
keeps rooms in memory, Redis and RabbitMQ, a terminal client, a web
application over PostgreSQL, and home-made symmetric ciphers (LOKI97, RC5) with
their modes. These modules model it from the Go source. Paths below are
relative to `src/`.

Contents: 1 the system, 2 the plan, 3 the modules and the code, 4 the runs,
5 fairness, 6 the proofs, 7 findings, 8 what is left out.

## 1. The system

| Component | State it keeps | Operations | What makes it correct |
|---|---|---|---|
| Chat server (`server/server.go`, `server/redis_store.go`) | `s.rooms` (map of rooms, `roomsMutex`), `room.Clients` (`room.mutex`), per room three Redis hashes and a fanout exchange, one AMQP channel for all rooms | CreateRoom, CloseRoom, JoinRoom, LeaveRoom, SendPublicKey, SendMessage, ReceiveMessages; reads: GetRoom, GetPublicKeys, GetRoomHistory | never three clients in a room; memory and Redis agree; no lock is leaked; the shared channel survives; a closed room stays closed |
| Message delivery (server and RabbitMQ) | one auto-delete queue per stream | publish, bind, consume | each client gets the others' messages once and in order |
| Terminal client (`client/client.go`) | `cipherContext` (mutex), `sharedKeyComputed` (no lock), chunks of files being received | main loop, poller, receiveMessages, sendFile | whoever uses the context has one, both sides derive the same secret, no text is lost |
| File transfer (server and client) | chunk maps keyed by sender and name | SendMessage with type file, the file branch of receiveMessages | what is saved is what was sent |
| Web chat (`web/handlers/chat.go`, `create_chat.go`, `invitations.go`, `lobby.go`, `shipper.go`) | tables users, chats, chat_participants, invitations, user_private_keys, messages; a map of cipher contexts | create a chat, invite, answer, join, send, show | who is in a room is a participant of its chat, no public key without its private one, no key replaced, and who was told it is in the chat is |
| Accounts and notifications (`auth.go`, `logout.go`, `middleware/auth.go`, `ws.go`) | users, session cookies, a map of WebSocket connections | register, log in, connect, notify | one user per name, a connected user is found |
| Ciphers (`algorithm/*.go`) | round keys, IV | block ciphers, modes, padding, files, Diffie-Hellman | decryption undoes encryption |

How they interact: clients and web handlers call the chat server over gRPC; every
call runs in a goroutine of its own. The server writes Redis and publishes to
RabbitMQ; each open ReceiveMessages stream consumes its own queue. The web
application has its own database and calls the chat server in the middle of its
handlers. The terminal client has three goroutines that share two variables.

What is hard in it:

- handlers drop `roomsMutex` after the lookup and use the room pointer after it,
  drop `room.mutex` before Redis, and look the room up a second time;
- a call does several things in three stores, each of which may fail, and undoes
  nothing;
- one AMQP channel serves all rooms and dies as a whole;
- two goroutines of the client may both create the context, at any time relative
  to the messages that need it;
- processes die: the server forgets its rooms but Redis and the exchanges stay, a
  killed client stays a member.

`PROJECT.json` lists the single hazards at their lines.

## 2. Plan

In the order of importance. All five parts are modelled and checked.

1. **RoomServer**, with **RoomSpec** as what it promises: the rooms, their two
   kinds of mutexes, Redis and the exchanges. Proved: every invariant of its runs and
   the refinement.
2. **TerminalClient**: two clients of a room, their goroutines, and the context they
   make. Proved: every invariant of its runs.
3. **Delivery**: the texts and files of a room on their way: chunks published while
   the channel may die, the queue, the messages table, and what the receiver's maps
   make of the chunks. Proved: every invariant of its run.
4. **WebChat** and **WebSession**: the web handlers as sequences of statements, beside
   an abstract chat server; accounts and the map of WebSocket connections. Proved: every
   invariant of their runs, and the action property on keys.
5. **Ciphers** (BlockCipher, CipherContext, CipherFile, Words): key expansion and
   rounds, modes and paddings, files as streams. Proved: every invariant of its run.

Left to do: the arithmetic of Diffie-Hellman.

## 3. Modules and code

### RoomSpec
What the server promises about rooms with no locks, stores or broker: a room is
opened once, holds at most two clients, and after it was closed, or the process
died, never comes back.

### RoomServer (`server/server.go`, `server/redis_store.go`)
One record `call[h]` per handler goroutine holds where the method is and its
locals. A method is cut where it takes or drops a lock and at each call to Redis or
RabbitMQ:

| Method | Actions |
|---|---|
| CreateRoom 92-140 | CreateRoom, CreateRedis, CreateExchange (all under `roomsMutex`) |
| CloseRoom 162-194 | CloseRoom, CloseExchange, CloseRedis (all under `roomsMutex`, none under `room.mutex`) |
| JoinRoom 197-245 | JoinRoom (lookup), JoinEnter (lock, the two checks), JoinInsert, JoinRedis |
| LeaveRoom 248-283 | LeaveRoom (lookup), LeaveEnter, LeaveRedis |
| SendPublicKey 286-361 | SendPublicKey (lookup), SetKey, SaveKey, PublishKey, FetchKeys, CompareKeys or ComparePanic, LogAllKeys |
| SendMessage 364-479 | SendMessage (lookup), PublishMessage |
| ReceiveMessages 482-530 | ReceiveMessages (lookup), BindQueue |
| the process | Crash, Restart, and the panic of ComparePanic |

After BindQueue the handler of ReceiveMessages waits for its consumer to fail (`<-done`, 635), perhaps for
ever. It holds no lock then and uses nothing of the room, so here its slot is free for another call;
Delivery models the wait (`stream`).

`clients[r]` is the map of the room *object* and survives the deletion of `r` from
`rooms`: a JoinRoom that looked the room up before CloseRoom still works on it. A
Redis call that reports an error may have been applied or not. `unsynced` is
history: the pairs of room and client one of whose Redis writes failed since the last
that succeeded; no action reads it.

The broker (external): declaring and deleting an exchange works while the
channel is open; to publish or bind to an exchange that is not there closes the
channel, which the publishing call does not notice. This is how `server.go` uses the
library: `Publish` is not confirmed, `ExchangeDelete` is idempotent.

Simplifications: ids do not repeat among the bounded set (`generateRoomID` draws 32
random bits; the mutant `CreateRoom_OldId` shows what a repetition breaks); waiting
readers of `roomsMutex` are not distinguished, since a reader holds it only for one
map access.

### TerminalClient (`client/client.go`, with the server's delivery)
One room, with the server's methods as single steps except where another call can
come in between: SendPublicKey is cut between storing and publishing the key
(RegisterKey, then PublishKey, PublishKeyFails or ServerPanics), SendMessage
between the lookup and the publication (SendText, PublishText). The client's
actions follow its goroutines:

| Code | Actions |
|---|---|
| main 98-126 | JoinRoom, RegisterKey, PublishKey, PublishKeyFails |
| poller 147-187 | PollAsks (looks at the flag), PollKeys or PollNothing (GetPublicKeys), PollInit, PollFlag, PollStops |
| receiveMessages 268-352 | Subscribe, SubscribeFails, ReceiveKey, ReceiveInit, ReceiveFlag, ReceiveText |
| prompt 189-265 | SendText, PublishText, SendFileEarly, Exit (`/exit`), Close (`/close`) |
| the process | Kill; the clients of a server that panics end too |

`ctx[c]` stands for `cipherContext`: whose public key it was made from, and the secret
of c and d is the set {c, d}, since both sides of a Diffie-Hellman exchange
compute the same number and no third party does. `queue[c]` is what the broker has for
the stream of c; a fanout exchange copies a message to the queues bound at that
moment, and the server drops a client's own messages before it sends them. When the
channel dies each queue keeps what had been delivered by then, any prefix.
`shown`, `missed`, `confirmed`, `published`, `departed` and the field `ready` of
a message record what happened for the properties; no action depends on them.

`sharedKeyComputed` is written by two goroutines and read by three without a lock, a
data race in Go's terms. Its outcomes are taken to be those of interleaved
reads and writes: the flag is one byte, it only goes from false to true, and the write
comes after the mutex calls of `initCipher`, which no compiler of the build moves it
across. A write that is seen late is an interleaving in which it comes late.

A call of a killed client that the server still finishes is, to everybody else, a client that
is killed a little later. A panic of the server between the publication of a key and the second
lookup is, in the same way, clients that are killed after it.

A client that failed to join exits and has no further effect; one the server let in
although it answered failure (Redis failed) is a client that joins and is killed.

### Delivery (`server/server.go`, `client/client.go`)
SendMessage publishes a text and inserts its row, or publishes a file chunk by chunk;
PublishChunk is one turn of that loop, and between two turns anything may happen.

| Code | Actions |
|---|---|
| sendFile, prompt (`client.go` 200-265, 451-496), SendMessage 364-424 | SendText, SendFile |
| SendMessage 426-479 | PublishChunk, PublishText, PublishFails, InsertText |
| ReceiveMessages 482-637 | ReceiveMessages, ReceiveMessagesFails, SendFails |
| GetRoomHistory 640-674 | History (an operator: it only reads) |
| receiveMessages 268-448 | ReceiveText, SkipChunk, DecryptPanics, StorePanics, KeepChunk, SaveFile, SaveFails |
| initCipher 498-571 | InitCipher |
| processes and broker | Kill, ChannelDies |

A file is encrypted as a whole and its chunks are decrypted one by one
(`client.go:373`). `cipher` is the mode and padding of the room, which sender and receiver
share; that they share the key is `PairAgrees` of TerminalClient, and Delivery is about the time in which that
holds, before somebody leaves. PCBC is not among the modes, since `initCipher` does not know it. What Decrypt
makes of a chunk:

- the right bytes (`Decrypted`), always so for a file of one chunk but under Zeros;
- other bytes (`Garbled`): of a chunk of a longer file, and under Zeros also of a file of one chunk
  that ends in zeros, which are cut off with no error (`symmetric.go:811-813`);
- an error (`SkipChunk`): of a chunk of a longer file, never under Zeros;
- a panic (`DecryptPanics`): the last chunk of a longer file may be sixteen bytes, RandomDelta takes
  them for its delta, and ANSIX923 reads a length from nothing (`symmetric.go:747, 821`).

Which it is depends on content, so each is a choice; CipherContext has the computation.
`published`, `refused` and `lost` are history. `Filled` is what appending all
slots makes of them (`client.go` 395-398): those that were filled, in order, picked by their rank.

### WebChat (`web/handlers/create_chat.go`, `invitations.go`, `chat.go`, `shipper.go`)
Each request is the script of its statements in the order of the code (CreateScript,
InviteScript, AcceptScript, DeclineScript, JoinScript), one step per statement:

| Handler | Steps |
|---|---|
| CreateChat | CreateChat, CreateRoom, InsertChat, InsertParticipant, InsertInvitation, SavePrivateKey, JoinRoom, SendPublicKey |
| SendInvitation | SendInvitation, InsertInvitation |
| RespondInvitation | RespondInvitation, UpdateStatus; accepted: InsertParticipant, JoinRoom, SavePrivateKey, SendPublicKey |
| JoinChat | JoinChat, InsertParticipant, FindOwnKey, SavePrivateKey, JoinRoom, SendPublicKey |
| ChatHandler | OpenChat |
| SendMessageHandler | SendMessage |
| the processes | RestartWeb, RestartChatServer |

A statement that reports an error ends the request, and a write may have been applied all
the same; what came before is not undone. The chat server is abstract here: CreateRoom,
JoinRoom and SendPublicKey do what RoomServer shows these calls to do, and it forgets its
rooms in a restart. A key is the number of the request that made it. `used`, `seated`,
`told` and `failed` are history.

### WebSession (`web/handlers/auth.go`, `logout.go`, `ws.go`, `web/middleware/auth.go`)

| Code | Actions |
|---|---|
| Register | Register (the test of the name), InsertUser (the UNIQUE column of the table in the repository's README decides) |
| Login, LogoutHandler, 24 hours | Login, Logout |
| WebSocketHandler | OpenWebSocket, Reply, ReplyReturns, ReadFails, RemoveConnection and CloseConnection (its deferred functions), CloseWebSocket (the browser's end) |
| SendNotification | SendNotification (the lookup under the lock), WriteNotification (after it), NotificationReturns |
| the process | RestartWeb |

Connections are numbered in the order in which they enter the map. The library allows one
writer to a connection at a time; when a reply and a notification are written at once
either of them may panic, which gin recovers from after the deferred functions have run: a
handler that panics goes on at "leaving", and a sender that panics has simply returned.
Hashing passwords and signing tokens are taken to work. `welcomed`, `entered` and
`cutOff` are history.

### Ciphers (`algorithm/*.go`)
Ciphers puts three machines side by side, of which one runs: a call shares nothing with
another that either of them writes.

**BlockCipher** (`loki97.go`, `rc5.go`): SetLokiKey, LokiSubKey, SetRC5Key, RC5SubKey, RC5Mix
(the key expansion, sub-key by sub-key), Begin, Encipher (a round), Return and Decipher (a
round back). The word width, the number of rounds and the constants are parameters.
LOKI97's f is any function of two words: nothing but its being a function matters to
decryption. In the code it writes to its first argument (through KP), which the model may
leave out because that argument is a fresh sum or a copy at every call. RC5 is modelled for
the width the program uses, two words of 64 bits to a block.

**CipherContext** (`symmetric.go`): EncryptRefuses is for no data, Encrypt pads and starts, EncryptBlock does one
block with what its mode carries from block to block, EncryptReturns; Decrypt, DecryptBlock,
DecryptReturns the way back. In ECB and CTR each block has a goroutine, so blocks are done in
any order. DecryptChunk is what the client does with one chunk of a longer file: the mode starts
over in the middle of the data, RandomDelta takes the first block of the chunk for its
delta, and RemovePadding meets whatever bytes come out.

**CipherFile** (`symmetric.go` 894-1061): encryptFile and decryptFile as reads of any size.
They encrypt block by block whatever the context's mode is, and nothing in the
program calls them. Under Zeros they lose the zeros at the end of the last block only, where
Decrypt loses all zeros at the end.

**Words**: exclusive or, rotation and the counter of CTR as functions on numbers, which the MC
module gives to the constants; the laws the others ask for are assumptions that TLC evaluates.

### MC modules
`MCRoomServer`, `MCTerminalClient`, `MCWebChat` and `MCWebSession` add the symmetry sets for
TLC, `MCDelivery` gives the modes and paddings, and `MCCiphers` gives small words, bytes and data.
Definitions named `Operation_Something` in the modules are variants of an operation with a
plausible bug, marked "Mutant"; no specification uses them, and `PROJECT.json` says
which property each of them breaks.

## 4. Runs

| Run | Instance | Shows |
|---|---|---|
| room_safety | 1 room, 3 clients, 1 key, 2 handlers, one call per client; crash, restart and every failure; about 650,000 states | Inv, TypeOK, Capacity, RedisTracksMembers, KeyStoreAgreement, ChannelLoss, RecordOutlivesExchange, ImplementsRoomSpec |
| room_progress | 1 room, 1 client with 2 connections, FairSpec | Progress: every call returns, or waits for its consumer |
| room_panic | 1 client with 2 connections | NoPanic is violated (section 7) |
| room_all_keys | 2 clients, 1 handler | AllKeysReported is violated |
| client_safety | 3 clients, 3 texts; about 284,000 states | Inv, TypeOK, FlagMeansContext, PairAgrees, InOrder, ReadyLosesNothing |
| client_liveness | 3 clients, 1 text, FairSpec; about 75,000 states | KeysMeet, QueuesDrain |
| client_nil | 2 clients | NoNilContext is violated |
| client_sent | 2 clients | SentWasPublished is violated |
| delivery | 2 clients, 1 file name, 2 chunks, 2 sends, pages of 1, ECB with Zeros and RandomDelta with ANSIX923, FairSpec; about 188,000 states | TypeOK, SavedExactly, NothingOverwritten, PanicNeedsLoss, HistoryTold, FilesArrive, BrokenStreamsEnd |
| web_chat | 3 users, 1 chat, 2 handlers, 3 requests, restarts of both servers; about 178,000 states | TypeOK, MembersAreParticipants, PublicHasPrivate, ToldMeansSeated, SecretsAgree, KeysAreFinal |
| web_session | 2 names, 2 passwords, 2 browsers, 2 connections, 2 senders; about 1,160,000 states | AccountsHold, EntriesFollowHandlers |
| ciphers | words and bytes of 2 bits, blocks of 2 bytes, 2 rounds, chunks of 2 blocks, reads of up to 3 bytes, data from none to 2 blocks and a byte; about 116,000 states | BlockRoundTrip, ModesRoundTrip, ContextRoundTrip, FileRoundTrip |

Why these bounds are enough: three clients are one more than a room takes, so the
limit is reached and exceeded by a client that tries; two handlers are enough for
every pair of steps of two methods to be interleaved, and the theorems of section 6
cover any number. One room suffices for what rooms do to one another through the
channel because the room that loses its exchange and the one that publishes may be the
same; the proofs hold for any set of rooms. One key: a property compares a key with
"no key" or with the same client's. With three texts a client may be sent one before,
while and after its context is made; `InOrder` needs two to one client.
Liveness runs without symmetry, with one text: it is about one message on its
way.

For the modules after them: two sends are enough for two files of one name, complete or not,
to meet in the same entry of the maps, from one sender or from both at once; two chunks are the
fewest of which one may come and the other not. A page of one row leaves the other out. Of modes and
paddings there is one that trims and never refuses, and the one that may refuse and panic; every other does a
part of what these do, and the proofs hold for all. Three users and three requests let a
third person try to enter a chat that is being answered for, with two handlers at any two
statements. Two connections are the least for an old handler to outlive a new
entry, two senders for notifications to meet at one. Two rounds are one round and the last,
whose sub-key number wraps; the data reach a full last block, a part of one, none, and zeros at the
end; reads of one to three bytes cut blocks of two at every place. The ciphers run takes every
key and every block of its word size.

`CHECK_DEADLOCK FALSE` is set for the client runs, delivery, web_chat and ciphers: a
chat ends when everybody has left, a bounded number of sends or requests is used
up, and a call that returned has nothing more to do. The room runs and web_session check
deadlock.

Bounds in the model are named: `MaxTexts`, `MaxSends`, `MaxRequests` and `MaxConnections` limit
what users start, `MaxChunks` the length of a file, `PageLimit` is the page of the history (50 in the
code), and the sets given to `Room`, `Client`, `User`, `Chat`, `Handler`, `Browser`, `Sender`,
`Data` and the other sets the rest.

The properties, in short:

- `Capacity`: not even a room object that was closed while a JoinRoom was on its way
  holds three clients.
- `RedisTracksMembers`: while nobody holds the room's mutex, Redis and memory agree on
  the members, up to failed writes.
- `KeyStoreAgreement`: the key in Redis is the one in memory, for clients that wait for
  each answer (with two connections it need not be, since the two writes are under
  different locks; hence the constant OneCallEach).
- `ChannelLoss`: the shared channel is lost only after some CloseRoom has deleted an
  exchange.
- `RecordOutlivesExchange`: a served room with an exchange has its Redis record, by the
  order of CreateRoom and CloseRoom.
- `ImplementsRoomSpec`: the refinement.
- `Progress`: every call returns (ReceiveMessages: comes to its wait for the consumer), so no lock is leaked and
  no two handlers wait for each other.
- `FlagMeansContext`, `PairAgrees`, `InOrder`, `ReadyLosesNothing`: the client's context
  exists when the flag says so, is the peer's, and its texts come in order and are not
  lost once it is there.
- `KeysMeet`: the poller makes up for a publication that was missed.
- `QueuesDrain`: receiveMessages keeps reading.
- `SavedExactly`: a file saved by a receiver that has missed nothing of that name, and for which Decrypt
  changed nothing of it, is one that was sent, all of it. A file trimmed under Zeros counts as changed: the code
  does lose those zeros.
- `NothingOverwritten`: and never over another; `FilesArrive`: a file whose chunks all came is saved.
- `PanicNeedsLoss`: storing a chunk beyond its entry needs an earlier loss; without one the client dies in
  Decrypt only, and only with RandomDelta and ANSIX923.
- `HistoryTold`: the table has each text once, in each sender's order, none that was not
  published, and lacks none but those refused or being inserted; what a page leaves out is older than what it shows
  of the same sender.
- `BrokenStreamsEnd`: a delivery ends the handler of a client that is gone.
- `MembersAreParticipants`, `PublicHasPrivate`, `ToldMeansSeated`: table, room and key store agree
  after any failure in the middle of a request, as far as the order of the statements grants it.
- `KeysAreFinal`: no key in a room is replaced; `SecretsAgree`: whatever was encrypted with a key
  the room knows was encrypted with the same pair, across restarts.
  A user with two private keys (JoinChat and an invitation at once) may encrypt with the one the room
  does not know; the property is about keys the room had.
- `AccountsHold`: registration that was confirmed holds, and a session is its user's.
- `EntriesFollowHandlers`: an entry of the map names a connection that is served or about to be taken
  out, and a served connection is found unless a newer one, or the end of another, took its entry.
- `BlockRoundTrip`, `ModesRoundTrip`, `ContextRoundTrip`, `FileRoundTrip`: decryption undoes encryption,
  but for zeros at the end under Zeros; and the one way for a chunk to make Decrypt panic is ANSIX923
  with RandomDelta and a chunk of one block.

`PairAgrees` and `ReadyLosesNothing` are stated until the first `/exit`: afterwards the
room may take another client while the flag is never reset, and the code makes no such promise
(without the premise `~departed` TLC finds a counterexample to each).

## 5. Fairness

RoomServer: `WF(Continue(h))` for the steps that only call Redis or the broker, since Go runs every
runnable goroutine and the library's calls return (with an error, if need be);
`SF(Acquire(h))` for the steps that wait for a mutex, because `sync.Mutex` and
`sync.RWMutex` hand the lock to a goroutine that waits long enough (starvation mode, and
pending writers that block new readers). No fairness for arrivals, Crash or Restart.

TerminalClient: weak fairness for each client's poller and receiver, which are runnable
whenever their next step is enabled and have no lock to compete for beyond the short one
around the context. The user owes nothing: joining, typing and leaving have no fairness,
nor has the start-up of main.

Delivery: `WF(Serve(c))` for the consumer of a stream and the handler of a SendMessage, and
`WF(Receive(c))` for the client's receiver: each is a goroutine that runs when it has something to do and
competes for nothing. Sending, failures, the exchange of keys and the death of the channel have none.

WebChat, WebSession and Ciphers state safety only and need no fairness.

## 6. Proofs

All theorems hold for every value of the constants, under the named assumptions:
`OneCallEachType`, `FiniteClients`, `DistinctValues` in RoomServer (the set of clients is
finite; the reserved values differ from the others), `ClientsFinite`, `NoPeerDistinct`,
`MaxTextsType` in TerminalClient, `ClientsFinite`, `BoundsType`, `DistinctValues`, `SlotValues`, `CiphersType` in
Delivery (a slot nothing was stored in is not a chunk: nil in the code), `HasUsers`, `HasChats`,
`RequestsBound` in WebChat and `NamesDiffer`, `ConnectionsBound` in WebSession; the ciphers' are
named below. Nothing else is assumed but the library's theorems on finite sets, functions,
sequences and well-founded relations.

**RoomServerProofs.** `Capacity` is not inductive: between the check of JoinEnter and
JoinInsert another handler might insert. `Inv` adds who holds which mutex
(`LocksOwned`), what its holder may rely on between its steps (`HolderKnows`: a room with
fewer than two members and without the client, at "joinInsert"), that calls are on ids
that were generated (`CallsWellFormed`, `IdsFresh`), and that Redis and memory differ only
for the client the mutex's holder is about to write (`RedisInStep`). The proof has one
lemma per conjunct: `ContinueType`, `CallsStep`, `LocksStep`, `IdsStep`, `HolderStep`,
`CapacityStep`, `RedisStep`; `ClientsLocked` (a room's map changes only under its mutex)
and `OneRoom` (a call touches its own room only) carry most of the weight. From `Inv`:
`TypeCorrect`, `AtMostTwo`, `RedisTracks`. `Refinement` maps a room that is in `s.rooms` to
"open", one whose id was used and is not there to "gone", and its members to those of a
served room; only CreateRoom, JoinInsert, LeaveEnter, CloseRedis and the end of the process
are steps of RoomSpec, all others are stuttering steps.

**RoomStoreProofs** builds on `Inv`. `ChannelOutlivesRooms` and `RecordsOutlive` share BrokerInv: a
room whose id was handed out has had an exchange, and what CreateRoom and CloseRoom rely on
between their steps (`WriterKnows`), which nobody else can spoil since `roomsMutex` is theirs
(`OneWriter`). `KeysAgree` cannot rest on the locks: SendPublicKey drops `room.mutex` between
its two writes. It rests on the client, which waits for each answer: KeysInv says that no two
handlers serve one client (`OneHandlerEach`) and that the key a handler is about to save is still
the one in memory (`WritesOwn`).

**TerminalClientProofs.** `Inv` adds to the types what a goroutine is about to use
(`Goroutines`), that until somebody leaves the two members are all anybody's key can come
from (`Together`: from `Cardinality(members) <= 2` and `{ctx, answer, heard}` inside the
other members), and that a text that was published to a ready client stays readable while it
waits in the queue (`StillReadable`). The last is the heart of `NothingLost`: the context may
be replaced while the text waits, but only by one for the same peer (`ContextStays`). From
`Inv`: `Types`, `FlagImpliesContext`, `SecretsAgree`, `NothingLost`. `ShownInOrder` needs more: the numbers
of the texts a client was shown are below those queued for it, these below that of a text still
on its way, and all are at most `texts` (`Ordered`). One sender keeps its own order; that there is
but one other sender at any time is `TwoPlaces`, which, unlike `Together`, also holds after departures.

**DeliveryProofs.** `Types` needs two facts beside the types: the index of a chunk being published or
queued is below its total (`CallsHold`, `QueuesHold`). `HistoryIsTold` adds TableHold: the rows of one
sender have increasing numbers, below that of its call, if one goes on, and every published text is
somewhere; a page shows the last rows, so that of two rows of one sender it never has the older alone.
`FilesKeepNames` is a pigeonhole argument (`SomeFree`: among one more numbers than there are files, one is not
the copy number of a file) and then the least such number (`LeastNumber`). The
other two share the invariant InStep. For each receiver that runs and has lost nothing of a sender and
name it says: the entry holds the first `count` chunks of one file and nothing else (`Collected`); the
chunks of that key in the queue go on where the entry ends, each after the other (`ChunksFollow`); and
while the channel is open the sender's call goes on where the queue ends (`UpToDate`). So the chain from
the sender's loop to the receiver's maps has no gap. Publishing adds to its end (`PublishedStep`), reading
moves its first chunk into the entry (`ConsumedStep`) or ends the receiver, a dying channel cuts it (`InStepDies`), and everything
else leaves the chunks of that key alone (`OtherStep`). `FilesSavedExactly` follows since counting chunks
then means having them all, and `PanicsNeedLoss` since the entry is then as long as the file of the chunk that is
stored (`EntryFits`). Both hold for every set of modes and paddings, whatever Decrypt returns.

**WebChatProofs.** `ChatInv` has to know, of each request in progress, what it has done already; that is read off
the statement it is at (`HasPlace`, `HasPrivate`, `HasSeat`). `DoneSoFar` says that it is still done, whatever
other requests, failures and restarts did. `OwnKeys` says that a private key belongs to one user and chat,
`Seats` that a room has two places and gives away exactly its members' keys, `KeysAccounted` that a
private key other than the room's belongs to a request that goes on, unless one was refused, and `Secrets`
that what was encrypted is of one user's private and the other's public key. `OneSecret` follows from
`OwnKeys` and `Seats`: with two keys seated, both ends name the same two. `FinalKeys` is the action property
`[][...]_vars`, from the same invariant: who is let in has no key yet.

**WebSessionProofs.** `Accounts` rests on `RowsStay`: the database's unique index lets no row change, so what was
told once still holds. `Entries` needs `EntryNames` (an entry is of a connection of that user whose handler
has yet to take it out) and that connections are numbered in the order they open.

**BlockCipherProofs.** `BlocksComeBack` holds for every word width, number of rounds, key and f, from
`WordsExist`, `RoundsType`, `ConstantsType`, `FType` and the laws of exclusive or and of rotation
(`XorLaw`, `RotateLaw`). That the block is back at the end is not inductive: BlockInv says of each
round how the traced halves follow from those before it, and that Decrypt, at round n, holds the
halves Encrypt had after round n. `LokiRoundBack` and `RC5RoundBack` are the algebra of one round,
`Remainder` bounds the number of the sub-key that wraps.

**CipherProofs.** `ContextBlocksComeBack` holds for every block size, permutation, IV and data, from
`SizesType`, `ChunkType`, `XorByteLaw`, `CipherLaw`, `IVType`, `DataType` and `CounterType`. The
invariant ContextInv says what each finished block was made from (Made), that the register of a block follows
from the one before it (Linked), that the feedback is, in either direction, the register
of the next block (Ready), and that modes with a feedback work in order (InOrder); ECB and CTR need no
order, since their blocks depend on the number alone. `NextBlock` is the argument mode by mode.

`ContextDataComesBack` adds ReturnInv: the blocks are those of the data and one with the padding
(PaddedData), the result is what RemovePadding makes of the output (ReturnedOf), and a chunk is made of
blocks, at least one if RandomDelta does not take it (PartOfIt). The rest is about bytes. `PaddedBytes` says
where the data and its padding are among the bytes of the blocks; `PaddingOff` that RemovePadding, which
reads the length from the last byte, finds the data again, whatever bytes ISO10126 filled in; `ZerosTrimmed`
that cutting zeros off data and padding or off the data alone leaves the same; `PanicsOnNothing` that only a
chunk of no blocks makes it panic. They rest on how numbers divide (`Divided`, `Place`), since Bytes finds a
byte by a quotient and a remainder.

`FilesComeBack` has the invariant FileInv, from `BufferType` and the assumptions above. While a file
is encrypted some number of its blocks are written, each the cipher of the file's, and what is pending is less than a
block and goes on where they end (Halfway: Mapped, Remains). Then what was written is the encryption of the
file with its padding (Cipherfile, PaddedFile). While it is decrypted the same holds of that, with one more
fact: fewer blocks are out than there are (HalfwayBack), so that at the end exactly the block with the padding
is left (`LastBlockLeft`). `ReadMore`, `TakeBlocks`, `WriteBlocks` and `MapBlocks` say what a read, Leading and
After, and a write do to such sequences, at whatever byte a read ends; `BlocksBack` that what is out is a
beginning of the file, so that a failure leaves nothing else. `PackageRoundTrips` puts contexts and files together.

`TLC` checks both `Inv` as invariants of the safety runs, and evaluates every assumption.

Only model-checked: the liveness properties (`Progress`, `KeysMeet`, `QueuesDrain`, `FilesArrive`,
`BrokenStreamsEnd`), since liveness under fairness is beyond the prover. Every invariant and action property of
the runs is proved. No module uses RECURSIVE; the counter and the bits of Words are recursive functions, which TLC evaluates and no
proof unfolds (the induction theorems are out of the prover's reach).

## 7. Findings

Four statements of the code's own comments and checks that the code does not keep; each
violation run ends in a short trace.

- `room_panic`: SendPublicKey answers "room not found" for a missing room at its first
  lookup (`server.go:289-294`) and dereferences nil at its second (`server.go:349`) when the room
  was closed in between; the process ends with every room.
- `room_all_keys`: "all public keys received" (`server.go:353`) is concluded from a count of keys in
  Redis, where those of departed clients remain (`redis_store.go:36-38`).
- `client_nil`: "wait for the cipher context" (`client.go:242`) comes after the branch for
  send-file (`client.go:196`), which uses the nil context.
- `client_sent`: "message sent" (`client.go:264`) is printed whatever the answer's Success says.

## 8. Not modelled

- The arithmetic of Diffie-Hellman (primes, exponentiation): the secret of two clients is the pair of their
  keys, as the agreement of both sides makes it. And what is inside LOKI97's f (S-boxes, permutations).
- Rooms the web made are rooms like others: a terminal client that knows the id could enter, leave or close one.
  WebChat has none; what such calls do to a room is RoomServer's.
- Some properties exempt a failure that the code does not prevent (a room whose exchange was deleted, a client
  that joined and was told it failed, a stale context after a departure, a request's leftovers, an entry another
  handler deleted). `PROJECT.json` names them with the hazards, and says there which property states what is left.
- Calls that only read and that no property is about: GetRoom, LobbyHandler, ListInvitationsHandler;
  GetPublicKeys is read by PollKeys and OpenChat, GetRoomHistory is `History`.
- The Async and ToFile variants of Encrypt and Decrypt, which call these in a goroutine or write the
  result to a file; and receiveMessages of the web application (`web/handlers/chat.go:370-419`), which nothing calls.
- The broker's connection to the server as a whole is up: the channel dies of protocol errors
  only, not of the network. Losing it is like losing the channel, until a restart.
- Of a text's journey in Delivery the key exchange is any moment (`InitCipher`), and rooms do not close: these
  are TerminalClient's and RoomServer's.
- Start-up (`main`, `NewChatServer`, routes), the generated protocol code, pages and scripts:
  input and output without state of the system.
