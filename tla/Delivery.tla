------------------------------ MODULE Delivery ------------------------------
(***************************************************************************)
(* Texts and files on their way from one client to the others: SendMessage *)
(* and ReceiveMessages of the server, the messages table, and what the     *)
(* terminal client makes of the chunks it receives.                        *)
(*                                                                         *)
(* A file is encrypted as a whole by the sender, cut by the server, and    *)
(* decrypted chunk by chunk by the receiver, which collects the chunks in  *)
(* maps keyed by sender and file name.  A chunk of a longer file may thus  *)
(* come out right, come out wrong, be refused or end the client, as mode,  *)
(* padding and content have it; a file of one chunk comes out as it was,   *)
(* but under Zeros perhaps without zeros of its own.                       *)
(*                                                                         *)
(* Here a room exists and the key exchange ends when it likes; rooms are   *)
(* RoomServer's, the exchange TerminalClient's.  Sender and receiver have  *)
(* the mode and padding of their room and one key, as PairAgrees has it    *)
(* there: Delivery is about the time before somebody else takes a place.   *)
(***************************************************************************)
EXTENDS Integers, Sequences, FiniteSets

CONSTANTS
    Client,
    Name,           \* file names
    NoName,         \* the file name of a text
    NoChunk,        \* a slot of fileChunks that nothing was stored in
    Garbled,        \* a chunk that was decrypted to something else
    MaxChunks,      \* bound on the chunks of a file
    MaxSends,       \* bound on the texts and files sent
    PageLimit,      \* the LIMIT of GetRoomHistory
    Ciphers         \* mode and padding a room may have

\* What the client takes them for: PCBC it refuses.
Mode == {"ECB", "CBC", "CFB", "OFB", "CTR", "RandomDelta"}
Padding == {"Zeros", "ANSIX923", "PKCS7", "ISO10126"}

ASSUME ClientsFinite == IsFiniteSet(Client)
ASSUME BoundsType == MaxChunks \in Nat \ {0} /\ MaxSends \in Nat /\ PageLimit \in Nat
ASSUME DistinctValues == NoName \notin Name
ASSUME CiphersType == Ciphers \subseteq [mode : Mode, padding : Padding]

VARIABLES
    \* The server and its broker.
    channel,        \* the server's AMQP channel is open
    stream,         \* ReceiveMessages of client c: "none", "open", "broken", "ended"
    queue,          \* queue[c]: bound to the room's exchange
    call,           \* call[c]: the SendMessage of client c in progress
    rows,           \* the messages table
    \* The clients.
    status,         \* status[c]: whether client c runs
    ready,          \* clients with a cipherContext
    cipher,         \* its mode and padding, those of the room
    chunks,         \* fileChunks[key], <<>> where the map has no entry
    count,          \* fileChunkCount[key]
    disk,           \* files under received_files/
    sends,          \* texts and files sent so far
    \* What was seen of it.
    published,      \* texts the broker was given
    refused,        \* texts answered with Success false
    lost            \* <<c, key>>: client c missed or spoiled a chunk of key

broker == <<channel, stream, queue>>
collector == <<chunks, count, disk>>
table == <<rows, published, refused>>
vars == <<broker, call, table, status, ready, cipher, collector, sends, lost>>

-----------------------------------------------------------------------------
(* Helpers.                                                                *)

Id == 0..MaxSends       \* 0: nothing

FileKey == Client \X Name

\* Chunk number index (from 0) of the file sent as id, of total chunks.
Content == [id : Id, index : 0..(MaxChunks - 1), total : 1..MaxChunks]

Chunk == Content \cup {Garbled}

ASSUME SlotValues == NoChunk \notin Chunk

\* How a client is, or what it died of.
Status == {"running", "killed", "store panicked", "decrypt panicked"}

Call == [pc : {"idle", "publish", "insert"}, name : Name \cup {NoName},
         id : Id, index : 0..(MaxChunks - 1), total : 0..MaxChunks]

Idle == [pc |-> "idle", name |-> NoName, id |-> 0, index |-> 0, total |-> 0]

Message == [from : Client, name : Name \cup {NoName}, id : Id,
            index : 0..(MaxChunks - 1), total : 0..MaxChunks]

IsFile(m) == m.name # NoName

Key(m) == <<m.from, m.name>>

Return(c) == call' = [call EXCEPT ![c] = Idle]

\* The response built from a delivery: sender and chunk headers of SendMessage.
MessageOf(c) ==
    [from |-> c, name |-> call[c].name, id |-> call[c].id,
     index |-> call[c].index, total |-> call[c].total]

\* Queues get a copy; one whose handler has returned is read by nobody.
Broadcast(m) ==
    queue' = [d \in Client |->
                IF d # m.from /\ stream[d] \in {"open", "broken"}
                THEN Append(queue[d], m) ELSE queue[d]]

\* Clients that run and have no queue yet miss what is published.
Misses(m) ==
    {<<d, Key(m)>> : d \in {e \in Client \ {m.from} : stream[e] = "none"}}

-----------------------------------------------------------------------------
(* Streams.                                                                *)

\* Queue declared, bound and consumed; the client's receiver has its stream.
ReceiveMessages(c) ==
    /\ status[c] = "running" /\ stream[c] = "none" /\ channel
    /\ stream' = [stream EXCEPT ![c] = "open"]
    /\ UNCHANGED <<channel, queue, call, table, status, ready, cipher, collector, sends, lost>>

\* Without a channel ReceiveMessages reports an error, and the client exits.
ReceiveMessagesFails(c) ==
    /\ status[c] = "running" /\ stream[c] = "none" /\ ~channel
    /\ status' = [status EXCEPT ![c] = "killed"]
    /\ UNCHANGED <<broker, call, table, ready, cipher, collector, sends, lost>>

\* The client's process ends.  Its handler in the server does not notice.
Stops(c, how) ==
    /\ status' = [status EXCEPT ![c] = how]
    /\ stream' = [stream EXCEPT ![c] = IF @ = "open" THEN "broken" ELSE @]

Kill(c) ==
    /\ status[c] = "running"
    /\ Stops(c, "killed")
    /\ UNCHANGED <<channel, queue, call, table, ready, cipher, collector, sends, lost>>

\* Mutant: a failed Send is logged, and the consumer goes on.
SendFails_Continues(c) ==
    /\ stream[c] = "broken" /\ queue[c] # <<>>
    /\ queue' = [queue EXCEPT ![c] = Tail(@)]
    /\ UNCHANGED <<channel, stream, call, table, status, ready, cipher, collector, sends, lost>>

\* The next delivery finds the stream broken: done is signalled and the
\* handler returns.  With no delivery it would wait for ever.
SendFails(c) ==
    /\ stream[c] = "broken" /\ queue[c] # <<>>
    /\ stream' = [stream EXCEPT ![c] = "ended"]
    /\ queue' = [queue EXCEPT ![c] = <<>>]
    /\ UNCHANGED <<channel, call, table, status, ready, cipher, collector, sends, lost>>

\* Some use of an exchange that is gone closes the channel of all rooms:
\* what the broker has not delivered yet will not come, and every handler
\* stays, waiting for a signal nobody will give.
ChannelDies ==
    /\ channel
    /\ channel' = FALSE
    /\ \E n \in [Client -> 0..(MaxSends * MaxChunks)] :
          /\ \A c \in Client : n[c] <= Len(queue[c])
          /\ queue' = [c \in Client |-> SubSeq(queue[c], 1, n[c])]
    /\ UNCHANGED <<stream, call, table, status, ready, cipher, collector, sends, lost>>

-----------------------------------------------------------------------------
(* Sending.                                                                *)

\* The exchange of keys is over for client c.
InitCipher(c) ==
    /\ status[c] = "running" /\ c \notin ready
    /\ ready' = ready \cup {c}
    /\ UNCHANGED <<broker, call, table, status, cipher, collector, sends, lost>>

\* One SendMessage at a time: the client's main loop waits for the answer.
Send(c, name, total) ==
    /\ status[c] = "running" /\ c \in ready
    /\ call[c].pc = "idle" /\ sends < MaxSends
    /\ sends' = sends + 1
    /\ call' = [call EXCEPT ![c] = [pc |-> "publish", name |-> name, id |-> sends + 1,
                                    index |-> 0, total |-> total]]
    /\ UNCHANGED <<broker, table, status, ready, cipher, collector, lost>>

SendText(c) == Send(c, NoName, 0)

SendFile(c) == \E name \in Name, total \in 1..MaxChunks : Send(c, name, total)

\* Mutant: a publication that seemed to fail is made again.
PublishChunk_Twice(c) ==
    LET m == MessageOf(c) IN
    /\ call[c].pc = "publish" /\ IsFile(m) /\ channel
    /\ queue' = [d \in Client |-> IF d # c /\ stream[d] = "open"
                                  THEN queue[d] \o <<m, m>> ELSE queue[d]]
    /\ lost' = lost \cup Misses(m)
    /\ call' = [call EXCEPT ![c] = IF m.index + 1 = m.total THEN Idle
                                   ELSE [@ EXCEPT !.index = @ + 1]]
    /\ UNCHANGED <<channel, stream, table, status, ready, cipher, collector, sends>>

\* Mutant: the loop runs once too often.
PublishChunk_PastEnd(c) ==
    LET m == MessageOf(c) IN
    /\ call[c].pc = "publish" /\ IsFile(m) /\ channel
    /\ Broadcast(m)
    /\ lost' = lost \cup Misses(m)
    /\ call' = [call EXCEPT ![c] = IF m.index = m.total THEN Idle
                                   ELSE [@ EXCEPT !.index = @ + 1]]
    /\ UNCHANGED <<channel, stream, table, status, ready, cipher, collector, sends>>

\* One turn of the loop over the chunks.
PublishChunk(c) ==
    LET m == MessageOf(c) IN
    /\ call[c].pc = "publish" /\ IsFile(m) /\ channel
    /\ Broadcast(m)
    /\ lost' = lost \cup Misses(m)
    /\ call' = [call EXCEPT ![c] = IF m.index + 1 = m.total THEN Idle
                                   ELSE [@ EXCEPT !.index = m.index + 1]]
    /\ UNCHANGED <<channel, stream, table, status, ready, cipher, collector, sends>>

PublishText(c) ==
    /\ call[c].pc = "publish" /\ ~IsFile(call[c]) /\ channel
    /\ Broadcast(MessageOf(c))
    /\ published' = published \cup {call[c].id}
    /\ call' = [call EXCEPT ![c].pc = "insert"]
    /\ UNCHANGED <<channel, stream, rows, refused, status, ready, cipher, collector, sends, lost>>

\* The channel is closed: Success is false, for a file perhaps after some of
\* its chunks.  The client prints that it was sent.
PublishFails(c) ==
    /\ call[c].pc = "publish" /\ ~channel
    /\ Return(c)
    /\ refused' = IF IsFile(call[c]) THEN refused ELSE refused \cup {call[c].id}
    /\ UNCHANGED <<broker, rows, published, status, ready, cipher, collector, sends, lost>>

Row(c) == [id |-> call[c].id, from |-> c]

\* Mutant: a failed insert is tried once more.
InsertText_Retries(c) ==
    /\ call[c].pc = "insert"
    /\ Return(c)
    /\ rows' \in {Append(rows, Row(c)), rows \o <<Row(c), Row(c)>>}
    /\ UNCHANGED <<broker, published, refused, status, ready, cipher, collector, sends, lost>>

\* A failed insert, perhaps applied, is answered with Success false though
\* the peer may be reading the text.
InsertText(c) ==
    /\ call[c].pc = "insert"
    /\ Return(c)
    /\ \/ /\ rows' = Append(rows, Row(c))
          /\ UNCHANGED refused
       \/ /\ rows' \in {rows, Append(rows, Row(c))}
          /\ refused' = refused \cup {call[c].id}
    /\ UNCHANGED <<broker, published, status, ready, cipher, collector, sends, lost>>

\* GetRoomHistory: ORDER BY id DESC LIMIT 50.
History ==
    LET n == IF Len(rows) < PageLimit THEN Len(rows) ELSE PageLimit IN
    [i \in 1..n |-> rows[Len(rows) + 1 - i]]

-----------------------------------------------------------------------------
(* Receiving: receiveMessages of the terminal client, one message a step.  *)

Consume(c) == queue' = [queue EXCEPT ![c] = Tail(@)]

HasNext(c) == status[c] = "running" /\ stream[c] = "open" /\ queue[c] # <<>>

ReceiveText(c) ==
    /\ HasNext(c) /\ ~IsFile(Head(queue[c]))
    /\ Consume(c)
    /\ UNCHANGED <<channel, stream, call, table, status, ready, cipher, collector, sends, lost>>

NextChunk(c) == HasNext(c) /\ IsFile(Head(queue[c]))

\* No cipherContext, or Decrypt reports an error, as it may for what was not
\* encrypted by itself but never under Zeros: the chunk is skipped.
SkipChunk(c) ==
    LET m == Head(queue[c]) IN
    /\ NextChunk(c)
    /\ c \notin ready \/ (m.total > 1 /\ cipher.padding # "Zeros")
    /\ Consume(c)
    /\ lost' = lost \cup {<<c, Key(m)>>}
    /\ UNCHANGED <<channel, stream, call, table, status, ready, cipher, collector, sends>>

\* Decrypt itself panics: the last chunk of a longer file has sixteen bytes,
\* RandomDelta takes them for its delta, and ANSIX923 reads the length from
\* what is left, which is nothing.
DecryptPanics(c) ==
    LET m == Head(queue[c]) IN
    /\ NextChunk(c) /\ c \in ready
    /\ cipher = [mode |-> "RandomDelta", padding |-> "ANSIX923"]
    /\ m.total > 1 /\ m.index = m.total - 1
    /\ Stops(c, "decrypt panicked")
    /\ Consume(c)
    /\ UNCHANGED <<channel, call, table, ready, cipher, collector, sends, lost>>

\* What Decrypt may return: of a chunk that was not encrypted by itself
\* anything, and under Zeros the file without the zeros at its end.
Decrypted(m) ==
    LET right == [id |-> m.id, index |-> m.index, total |-> m.total] IN
    IF m.total = 1 /\ cipher.padding # "Zeros" THEN {right} ELSE {right, Garbled}

\* The entry of the maps that a message finds or makes.
Slots(c, m) ==
    IF chunks[c][Key(m)] # <<>> THEN chunks[c][Key(m)]
    ELSE [i \in 1..m.total |-> NoChunk]

\* fileChunks[fileKey][chunkIndex] beyond the total of the first message.
StorePanics(c) ==
    LET m == Head(queue[c]) IN
    /\ NextChunk(c) /\ c \in ready
    /\ m.index >= Len(Slots(c, m))
    /\ Stops(c, "store panicked")
    /\ Consume(c)
    /\ UNCHANGED <<channel, call, table, ready, cipher, collector, sends, lost>>

\* The chunk is stored and counted.
Stored(c, m, data) == [Slots(c, m) EXCEPT ![m.index + 1] = data]

\* What is joined: a slot that nothing was stored in adds nothing.
Filled(slots) ==
    LET full == {i \in DOMAIN slots : slots[i] # NoChunk}
        nth(k) == CHOOSE i \in full : Cardinality({j \in full : j <= i}) = k
    IN [k \in 1..Cardinality(full) |-> slots[nth(k)]]

\* The first name of "name.ext", "name(1).ext", ... that no file has.
FreeCopy(c, key) ==
    CHOOSE k \in 0..Cardinality(disk[c]) :
        /\ ~ \E f \in disk[c] : f.key = key /\ f.copy = k
        /\ \A j \in 0..(k - 1) : \E f \in disk[c] : f.key = key /\ f.copy = j

File(key, copy, data, exact) ==
    [key |-> key, copy |-> copy, data |-> data, exact |-> exact]

KeepChunk(c) ==
    LET m == Head(queue[c])
        key == Key(m)
    IN
    /\ NextChunk(c) /\ c \in ready
    /\ m.index < Len(Slots(c, m))
    /\ count[c][key] + 1 # Len(Slots(c, m))
    /\ \E data \in Decrypted(m) :
          /\ chunks' = [chunks EXCEPT ![c][key] = Stored(c, m, data)]
          /\ lost' = IF data = Garbled THEN lost \cup {<<c, key>>} ELSE lost
    /\ count' = [count EXCEPT ![c][key] = @ + 1]
    /\ Consume(c)
    /\ UNCHANGED <<channel, stream, call, table, status, ready, cipher, disk, sends>>

\* The number of chunks is the total: what the last chunk of a file does.
Completes(c) ==
    LET m == Head(queue[c]) IN
    /\ NextChunk(c) /\ c \in ready
    /\ m.index < Len(Slots(c, m))
    /\ count[c][Key(m)] + 1 = Len(Slots(c, m))

\* Mutant: the file is written over one of the same name.
SaveFile_Overwrites(c) ==
    LET m == Head(queue[c])
        key == Key(m)
    IN
    /\ Completes(c)
    /\ \E data \in Decrypted(m) :
          /\ disk' = [disk EXCEPT ![c] = @ \cup
                        {File(key, 0, Filled(Stored(c, m, data)),
                              <<c, key>> \notin lost /\ data # Garbled)}]
          /\ lost' = IF data = Garbled THEN lost \cup {<<c, key>>} ELSE lost
    /\ chunks' = [chunks EXCEPT ![c][key] = <<>>]
    /\ count' = [count EXCEPT ![c][key] = 0]
    /\ Consume(c)
    /\ UNCHANGED <<channel, stream, call, table, status, ready, cipher, sends>>

\* Mutant: the entry is not deleted after the file was saved.
SaveFile_KeepsEntry(c) ==
    LET m == Head(queue[c])
        key == Key(m)
    IN
    /\ Completes(c)
    /\ \E data \in Decrypted(m) :
          /\ disk' = [disk EXCEPT ![c] = @ \cup
                        {File(key, FreeCopy(c, key), Filled(Stored(c, m, data)),
                              <<c, key>> \notin lost /\ data # Garbled)}]
          /\ lost' = IF data = Garbled THEN lost \cup {<<c, key>>} ELSE lost
          /\ chunks' = [chunks EXCEPT ![c][key] = Stored(c, m, data)]
    /\ count' = [count EXCEPT ![c][key] = @ + 1]
    /\ Consume(c)
    /\ UNCHANGED <<channel, stream, call, table, status, ready, cipher, sends>>

\* The chunks are joined, saved under a free name, and the maps' entry goes.
SaveFile(c) ==
    LET m == Head(queue[c])
        key == Key(m)
    IN
    /\ Completes(c)
    /\ \E data \in Decrypted(m) :
          /\ disk' = [disk EXCEPT ![c] = @ \cup
                        {File(key, FreeCopy(c, key), Filled(Stored(c, m, data)),
                              <<c, key>> \notin lost /\ data # Garbled)}]
          /\ lost' = IF data = Garbled THEN lost \cup {<<c, key>>} ELSE lost
    /\ chunks' = [chunks EXCEPT ![c][key] = <<>>]
    /\ count' = [count EXCEPT ![c][key] = 0]
    /\ Consume(c)
    /\ UNCHANGED <<channel, stream, call, table, status, ready, cipher, sends>>

\* MkdirAll or WriteFile fails, perhaps with part of the file written: the
\* entry stays with all its chunks, and the next file of the same name adds
\* to it.
SaveFails(c) ==
    LET m == Head(queue[c])
        key == Key(m)
    IN
    /\ Completes(c)
    /\ \E data \in Decrypted(m) :
          /\ chunks' = [chunks EXCEPT ![c][key] = Stored(c, m, data)]
          /\ disk' \in {disk, [disk EXCEPT ![c] = @ \cup
                                 {File(key, FreeCopy(c, key), <<>>, FALSE)}]}
    /\ count' = [count EXCEPT ![c][key] = @ + 1]
    /\ lost' = lost \cup {<<c, key>>}
    /\ Consume(c)
    /\ UNCHANGED <<channel, stream, call, table, status, ready, cipher, sends>>

-----------------------------------------------------------------------------
Init ==
    /\ channel = TRUE
    /\ stream = [c \in Client |-> "none"]
    /\ queue = [c \in Client |-> <<>>]
    /\ call = [c \in Client |-> Idle]
    /\ rows = <<>>
    /\ status = [c \in Client |-> "running"]
    /\ ready = {}
    /\ cipher \in Ciphers
    /\ chunks = [c \in Client |-> [key \in FileKey |-> <<>>]]
    /\ count = [c \in Client |-> [key \in FileKey |-> 0]]
    /\ disk = [c \in Client |-> {}]
    /\ sends = 0
    /\ published = {} /\ refused = {} /\ lost = {}

\* The server: the consumer of a stream and the handler of a SendMessage.
Serve(c) == SendFails(c) \/ PublishChunk(c) \/ PublishText(c)
            \/ PublishFails(c) \/ InsertText(c)

\* The client's receiveMessages.
Receive(c) == ReceiveText(c) \/ SkipChunk(c) \/ DecryptPanics(c)
              \/ StorePanics(c) \/ KeepChunk(c) \/ SaveFile(c) \/ SaveFails(c)

Next ==
    \/ \E c \in Client : \/ ReceiveMessages(c) \/ ReceiveMessagesFails(c)
                         \/ Kill(c) \/ InitCipher(c)
                         \/ SendText(c) \/ SendFile(c)
                         \/ Serve(c) \/ Receive(c)
    \/ ChannelDies

Spec == Init /\ [][Next]_vars

\* Goroutines that can run do; users, failures and the exchange of keys owe
\* nothing.
Fairness == \A c \in Client : WF_vars(Serve(c)) /\ WF_vars(Receive(c))

FairSpec == Spec /\ Fairness

-----------------------------------------------------------------------------
(* Properties.                                                             *)

TypeOK ==
    /\ channel \in BOOLEAN
    /\ stream \in [Client -> {"none", "open", "broken", "ended"}]
    /\ queue \in [Client -> Seq(Message)]
    /\ call \in [Client -> Call]
    /\ rows \in Seq([id : Id, from : Client])
    /\ status \in [Client -> Status]
    /\ ready \subseteq Client
    /\ cipher \in Ciphers
    /\ chunks \in [Client -> [FileKey -> Seq(Chunk \cup {NoChunk})]]
    /\ count \in [Client -> [FileKey -> Nat]]
    /\ sends \in Id
    /\ published \subseteq Id /\ refused \subseteq Id
    /\ lost \subseteq Client \X FileKey

\* A receiver that has lost and spoiled no chunk of a sender's files of one
\* name saves such a file exactly as sent: all of its chunks, in order, and
\* none of another (client.go:373-445), though chunks are counted and not
\* marked, and files of one name share the entry.  A chunk that Decrypt made
\* something else of is spoiled, and under Zeros so is a file of one chunk
\* that lost zeros of its own.
SavedExactly ==
    \A c \in Client : \A f \in disk[c] :
        f.exact => \E id \in Id :
            f.data = [i \in 1..Len(f.data) |->
                        [id |-> id, index |-> i - 1, total |-> Len(f.data)]]

\* No file is written over another: two files of one sender with one name
\* are different files on disk (client.go:411-427).
NothingOverwritten ==
    \A c \in Client : \A f, g \in disk[c] :
        f.key = g.key /\ f.copy = g.copy => f = g

\* receiveMessages dies where it stores a chunk (client.go:389) only after a
\* chunk of some file had been lost or spoiled, or a file could not be
\* written.  With nothing lost before it dies in Decrypt alone (client.go:373,
\* symmetric.go:821), and in no room but those of RandomDelta with ANSIX923.
PanicNeedsLoss ==
    \A c \in Client :
        /\ status[c] = "store panicked" => \E key \in FileKey : <<c, key>> \in lost
        /\ status[c] = "decrypt panicked" =>
              cipher = [mode |-> "RandomDelta", padding |-> "ANSIX923"]

\* The messages table has every text once and the texts of one sender in the
\* order they were sent, none of them unpublished; a published text that is
\* not in it yet is being inserted or was refused (server.go:440-478):
\* publication, insertion and answer are three steps of calls that
\* interleave.  And the page of GetRoomHistory leaves out old texts only: all
\* that a sender wrote after a text on it stands before that text
\* (server.go:648).
HistoryTold ==
    /\ \A i, j \in DOMAIN rows :
          i < j /\ rows[i].from = rows[j].from => rows[i].id < rows[j].id
    /\ \A i \in DOMAIN rows : rows[i].id \in published
    /\ \A id \in published :
          \/ \E i \in DOMAIN rows : rows[i].id = id
          \/ id \in refused
          \/ \E c \in Client : call[c].pc = "insert" /\ call[c].id = id
    /\ \A i \in DOMAIN History, j \in DOMAIN rows :
          rows[j].from = History[i].from /\ rows[j].id > History[i].id =>
              \E k \in DOMAIN History : k < i /\ History[k] = rows[j]

\* The last chunk of the file sent as id waits for a receiver that can
\* decrypt it and has missed nothing of that name.
Arriving(c, id) ==
    /\ HasNext(c) /\ c \in ready
    /\ \E i \in DOMAIN queue[c] :
          LET m == queue[c][i] IN
          /\ IsFile(m) /\ m.id = id /\ m.index = m.total - 1
          /\ <<c, Key(m)>> \notin lost

Arrived(c, id) ==
    \E f \in disk[c] : f.exact /\ \E i \in DOMAIN f.data : f.data[i].id = id

\* A file all of whose chunks reached such a receiver's queue is saved,
\* unless the receiver stops, the channel dies or a chunk is spoiled after
\* all: no file stays in the maps for ever with all its chunks.
FilesArrive ==
    \A c \in Client, id \in 1..MaxSends :
        Arriving(c, id) ~> \/ Arrived(c, id) \/ status[c] # "running" \/ ~channel
                           \/ \E key \in FileKey : <<c, key>> \in lost

\* A delivery ends the handler of a stream whose client is gone
\* (server.go:624-635).
BrokenStreamsEnd ==
    \A c \in Client :
        stream[c] = "broken" /\ queue[c] # <<>> ~> stream[c] = "ended" \/ ~channel
=============================================================================
