-------------------------- MODULE WebSessionProofs --------------------------
(***************************************************************************)
(* Proofs about WebSession, for any sets of users, passwords, browsers and *)
(* senders and any bound on the connections.                               *)
(***************************************************************************)
EXTENDS WebSession, TLAPS

-----------------------------------------------------------------------------
(* The inductive invariant.                                                *)

ConnectionType ==
    [user : User, step : {"reading", "writing", "leaving", "closing"}, open : BOOLEAN]
        \cup {NoConnection}

TypesHold ==
    /\ users \in [User -> Password \cup {NoPassword}]
    /\ form \in [Browser -> [name : User, password : Password] \cup {NoForm}]
    /\ cookie \in [Browser -> User \cup {NoUser}]
    /\ entered \in [Browser -> (User \X Password) \cup {Nothing}]
    /\ welcomed \subseteq User \X Password
    /\ opened \in 0..MaxConnections
    /\ clients \in [User -> 0..opened]
    /\ connection \in [1..MaxConnections -> ConnectionType]
    /\ notifying \in [Sender -> [step : {"found", "writing"}, conn : 1..opened]
                                    \cup {NotNotifying}]

\* A row is never changed, so what was told or given once still is the row.
RowsStay ==
    /\ \A w \in welcomed : users[w[1]] = w[2]
    /\ \A b \in Browser : cookie[b] # NoUser =>
          /\ entered[b] = <<cookie[b], users[cookie[b]]>>
          /\ users[cookie[b]] \in Password

\* Numbers above opened are free.
NotYetOpened ==
    \A k \in 1..MaxConnections : k > opened => connection[k] = NoConnection

EntryNames(u) ==
    clients[u] # 0 => /\ connection[clients[u]].user = u
                      /\ connection[clients[u]].step \in {"reading", "writing", "leaving"}

Reachable(k) ==
    Served(k) /\ k \notin cutOff => clients[connection[k].user] >= k

SessionInv ==
    /\ TypesHold
    /\ RowsStay
    /\ NotYetOpened
    /\ \A u \in User : EntryNames(u)
    /\ \A k \in 1..opened : Reachable(k)

-----------------------------------------------------------------------------
(* What the steps change.                                                  *)

\* Steps of registration and login leave the connections alone.
AccountStep(b) ==
    \/ \E u \in User, p \in Password : Register(b, u, p) \/ Login(b, u, p)
    \/ InsertUser(b) \/ Logout(b)

\* The rest leaves rows and cookies alone.
SocketStep ==
    \/ \E b \in Browser : OpenWebSocket(b)
    \/ \E k \in 1..opened : Serve(k)
    \/ \E s \in Sender : Notify(s)
    \/ RestartWeb

\* Every step is of one of the two kinds.
LEMMA TwoKinds == Next => SocketStep \/ \E b \in Browser : AccountStep(b)
BY DEF Next, Browse, SocketStep, AccountStep

\* An account step keeps the types.
LEMMA AccountTypes ==
    ASSUME TypesHold, NEW b \in Browser, AccountStep(b)
    PROVE  TypesHold'
<1> USE DEF TypesHold, sockets, accounts
<1>1. ASSUME NEW u \in User, NEW p \in Password, Register(b, u, p) PROVE TypesHold'
    BY <1>1 DEF Register
<1>2. ASSUME NEW u \in User, NEW p \in Password, Login(b, u, p) PROVE TypesHold'
    BY <1>2 DEF Login
<1>3. CASE InsertUser(b)
  <2>1. form[b].name \in User /\ form[b].password \in Password
      BY <1>3 DEF InsertUser
  <2>2. users' \in [User -> Password \cup {NoPassword}]
      BY <1>3, <2>1 DEF InsertUser
  <2>3. welcomed' \subseteq User \X Password
      BY <1>3, <2>1 DEF InsertUser
  <2>4. /\ form' \in [Browser -> [name : User, password : Password] \cup {NoForm}]
        /\ UNCHANGED <<cookie, entered, sockets>>
      BY <1>3 DEF InsertUser
  <2> QED
      BY <2>2, <2>3, <2>4
<1>4. CASE Logout(b)
    BY <1>4 DEF Logout
<1> QED
    BY <1>1, <1>2, <1>3, <1>4 DEF AccountStep

\* It writes no row that is there already, and gives a cookie for a row.
LEMMA AccountRows ==
    ASSUME TypesHold, RowsStay, NEW b \in Browser, AccountStep(b)
    PROVE  RowsStay'
<1> USE DEF TypesHold, RowsStay, accounts
<1>1. ASSUME NEW u \in User, NEW p \in Password, Register(b, u, p) PROVE RowsStay'
    BY <1>1 DEF Register
<1>2. ASSUME NEW u \in User, NEW p \in Password, Login(b, u, p) PROVE RowsStay'
    BY <1>2 DEF Login
<1>3. CASE InsertUser(b)
  <2> DEFINE u == form[b].name
             p == form[b].password
  <2>1. u \in User /\ p \in Password
      BY <1>3 DEF InsertUser
  <2>2. /\ cookie' = cookie /\ entered' = entered
        /\ welcomed' \subseteq welcomed \cup {<<u, p>>}
        /\ <<u, p>> \in welcomed' \ welcomed =>
              users[u] = NoPassword /\ users' = [users EXCEPT ![u] = p]
        /\ \/ users' = users
           \/ users[u] = NoPassword /\ users' = [users EXCEPT ![u] = p]
      BY <1>3 DEF InsertUser
  <2>3. \A v \in User : users[v] \in Password => users'[v] = users[v]
      BY <2>1, <2>2, NamesDiffer
  <2>4. ASSUME NEW w \in welcomed' PROVE users'[w[1]] = w[2]
    <3>1. CASE w \in welcomed
      <4>1. w[1] \in User /\ w[2] \in Password /\ users[w[1]] = w[2]
          BY <3>1
      <4> QED
          BY <2>3, <4>1
    <3>2. CASE w \notin welcomed
        BY <2>1, <2>2, <3>2
    <3> QED
        BY <3>1, <3>2
  <2>5. ASSUME NEW a \in Browser, cookie'[a] # NoUser
        PROVE  /\ entered'[a] = <<cookie'[a], users'[cookie'[a]]>>
               /\ users'[cookie'[a]] \in Password
    <3>1. /\ cookie[a] \in User /\ users[cookie[a]] \in Password
          /\ entered[a] = <<cookie[a], users[cookie[a]]>>
        BY <2>2, <2>5
    <3> QED
        BY <2>2, <2>3, <3>1
  <2> QED
      BY <2>4, <2>5
<1>4. CASE Logout(b)
    BY <1>4 DEF Logout
<1> QED
    BY <1>1, <1>2, <1>3, <1>4 DEF AccountStep

\* Other steps write neither.
LEMMA SocketRows ==
    ASSUME RowsStay, SocketStep
    PROVE  RowsStay'
<1>1. UNCHANGED <<users, welcomed, cookie, entered>>
    BY DEF SocketStep, Serve, Notify, OpenWebSocket, CloseWebSocket, Reply, ReplyReturns,
       ReadFails, RemoveConnection, CloseConnection, SendNotification, WriteNotification,
       NotificationReturns, RestartWeb, accounts
<1> QED
    BY <1>1 DEF RowsStay

-----------------------------------------------------------------------------
(* Connections.                                                            *)

\* A handler that is at some statement serves a connection of a user, and
\* keeps its user and its place in the numbering when it goes on.
LEMMA GotoStep ==
    ASSUME TypesHold, NEW k \in 1..opened,
           connection[k].step \in {"reading", "writing", "leaving"},
           NEW step \in {"reading", "writing", "leaving", "closing"}, Goto(k, step)
    PROVE  /\ connection' \in [1..MaxConnections -> ConnectionType]
           /\ connection'[k].user = connection[k].user /\ connection'[k].step = step
           /\ \A j \in 1..MaxConnections : j # k => connection'[j] = connection[j]
           /\ connection[k].user \in User
<1>1. k \in 1..MaxConnections
    BY ConnectionsBound DEF TypesHold
<1>2. connection[k] \in [user : User, step : {"reading", "writing", "leaving", "closing"},
                         open : BOOLEAN]
    BY <1>1 DEF TypesHold, ConnectionType, NoConnection
<1>3. connection' = [connection EXCEPT ![k] = [connection[k] EXCEPT !.step = step]]
    BY DEF Goto
<1>4. [connection[k] EXCEPT !.step = step] \in ConnectionType
    BY <1>2 DEF ConnectionType
<1> QED
    BY <1>1, <1>2, <1>3, <1>4 DEF TypesHold

\* The part of the invariant that is about connections.
SocketInv ==
    /\ TypesHold
    /\ NotYetOpened
    /\ \A u \in User : EntryNames(u)
    /\ \A k \in 1..opened : Reachable(k)

\* A new connection is entered: it is the last one, and only its user's
\* entry changes.
LEMMA OpenStep ==
    ASSUME SocketInv, NEW b \in Browser, OpenWebSocket(b)
    PROVE  SocketInv'
<1> PICK u, n : u = cookie[b] /\ n = opened + 1
    OBVIOUS
<1>0. TypesHold
    BY DEF SocketInv
<1>1. /\ u \in User /\ n \in 1..MaxConnections /\ opened' = n /\ opened \in Nat
      /\ connection' = [connection EXCEPT ![n] = [user |-> u, step |-> "reading", open |-> TRUE]]
      /\ clients' = [clients EXCEPT ![u] = n]
      /\ UNCHANGED <<users, form, welcomed, cookie, entered, notifying, cutOff>>
    BY <1>0, ConnectionsBound DEF OpenWebSocket, TypesHold, accounts
<1>2. TypesHold'
  <2>1. [user |-> u, step |-> "reading", open |-> TRUE] \in ConnectionType
      BY <1>1 DEF ConnectionType
  <2>2. connection' \in [1..MaxConnections -> ConnectionType]
      BY <1>0, <1>1, <2>1 DEF TypesHold
  <2>3. opened' \in 0..MaxConnections /\ 1..opened \subseteq 1..opened'
      BY <1>1, ConnectionsBound
  <2>4. clients' \in [User -> 0..opened']
      BY <1>0, <1>1, <2>3 DEF TypesHold
  <2>5. notifying' \in [Sender -> [step : {"found", "writing"}, conn : 1..opened']
                                       \cup {NotNotifying}]
    <3>1. ASSUME NEW s \in Sender
          PROVE  notifying'[s] \in [step : {"found", "writing"}, conn : 1..opened']
                                       \cup {NotNotifying}
        BY <1>0, <1>1, <2>3 DEF TypesHold
    <3> QED
        BY <1>0, <1>1, <3>1 DEF TypesHold
  <2> QED
      BY <1>0, <1>1, <2>2, <2>3, <2>4, <2>5 DEF TypesHold
<1>3. NotYetOpened'
    BY <1>0, <1>1 DEF SocketInv, NotYetOpened, TypesHold
<1>4. ASSUME NEW v \in User PROVE EntryNames(v)'
  <2>1. CASE v = u
      BY <1>0, <1>1, <2>1 DEF EntryNames, TypesHold
  <2>2. CASE v # u
    <3>1. clients'[v] = clients[v] /\ clients[v] \in 0..opened
        BY <1>0, <1>1, <2>2 DEF TypesHold
    <3>2. clients[v] # 0 => connection'[clients[v]] = connection[clients[v]]
        BY <1>0, <1>1, <3>1, ConnectionsBound DEF TypesHold
    <3> QED
        BY <3>1, <3>2 DEF SocketInv, EntryNames
  <2> QED
      BY <2>1, <2>2
<1>5. ASSUME NEW k \in 1..opened' PROVE Reachable(k)'
  <2>1. CASE k = n
      BY <1>0, <1>1, <2>1 DEF Reachable, TypesHold
  <2>2. CASE k # n
    <3>1. k \in 1..opened /\ k \in 1..MaxConnections /\ connection'[k] = connection[k]
        BY <1>0, <1>1, <2>2, ConnectionsBound DEF TypesHold
    <3>2. Served(k) => connection[k].user \in User
        BY <1>0, <3>1 DEF TypesHold, ConnectionType, Served, NoConnection
    <3>3. ASSUME Served(k)', k \notin cutOff'
          PROVE  clients'[connection'[k].user] >= k
      <4>1. Served(k) /\ k \notin cutOff
          BY <1>1, <3>1, <3>3 DEF Served
      <4>2. clients[connection[k].user] >= k
          BY <3>1, <4>1 DEF SocketInv, Reachable
      <4> QED
          BY <1>0, <1>1, <3>1, <3>2, <4>1, <4>2 DEF TypesHold
    <3> QED
        BY <3>3 DEF Reachable
  <2> QED
      BY <2>1, <2>2
<1> QED
    BY <1>2, <1>3, <1>4, <1>5 DEF SocketInv

\* A handler that goes on without ending leaves its entry valid.
LEMMA GoesOn ==
    ASSUME SocketInv, NEW k \in 1..opened, NEW step \in {"reading", "writing", "leaving"},
           connection[k].step \in {"reading", "writing"}, Goto(k, step),
           UNCHANGED <<clients, opened, cutOff>>
    PROVE  /\ connection' \in [1..MaxConnections -> ConnectionType]
           /\ NotYetOpened'
           /\ \A u \in User : EntryNames(u)'
           /\ \A j \in 1..opened' : Reachable(j)'
<1>0. TypesHold /\ 1..opened \subseteq 1..MaxConnections
    BY ConnectionsBound DEF SocketInv, TypesHold
<1>1. /\ connection' \in [1..MaxConnections -> ConnectionType]
      /\ connection'[k].user = connection[k].user /\ connection'[k].step = step
      /\ \A j \in 1..MaxConnections : j # k => connection'[j] = connection[j]
    BY <1>0, GotoStep
<1>2. NotYetOpened'
    BY <1>0, <1>1 DEF SocketInv, NotYetOpened, TypesHold
<1>3. ASSUME NEW u \in User PROVE EntryNames(u)'
  <2>1. clients[u] \in 0..opened
      BY <1>0 DEF TypesHold
  <2> QED
      BY <1>0, <1>1, <2>1 DEF SocketInv, EntryNames, TypesHold
<1>4. ASSUME NEW j \in 1..opened' PROVE Reachable(j)'
    BY <1>0, <1>1 DEF SocketInv, Reachable, Served
<1> QED
    BY <1>1, <1>2, <1>3, <1>4

\* The steps of a connection's handler.
LEMMA ServeStep ==
    ASSUME SocketInv, NEW k \in 1..opened, Serve(k)
    PROVE  SocketInv'
<1>0. TypesHold /\ k \in 1..MaxConnections /\ 1..opened \subseteq 1..MaxConnections
    BY ConnectionsBound DEF SocketInv, TypesHold
<1>1. UNCHANGED <<users, form, welcomed, cookie, entered, notifying, opened>>
    BY DEF Serve, CloseWebSocket, Reply, ReplyReturns, ReadFails, RemoveConnection,
       CloseConnection, accounts
<1>2. CASE Reply(k) \/ ReplyReturns(k) \/ ReadFails(k)
  <2>1. /\ connection[k].step \in {"reading", "writing"}
        /\ \E step \in {"reading", "writing", "leaving"} : Goto(k, step)
        /\ UNCHANGED <<clients, cutOff>>
      BY <1>2 DEF Reply, ReplyReturns, ReadFails, At
  <2>2. /\ connection' \in [1..MaxConnections -> ConnectionType]
        /\ NotYetOpened'
        /\ \A u \in User : EntryNames(u)'
        /\ \A j \in 1..opened' : Reachable(j)'
      BY <1>1, <2>1, GoesOn
  <2>3. TypesHold'
      BY <1>0, <1>1, <2>1, <2>2 DEF TypesHold
  <2> QED
      BY <2>2, <2>3 DEF SocketInv
<1>3. CASE CloseWebSocket(k)
  <2>1. /\ UNCHANGED <<clients, cutOff>>
        /\ connection' = [connection EXCEPT ![k] = [connection[k] EXCEPT !.open = FALSE]]
        /\ connection[k].open
      BY <1>3 DEF CloseWebSocket
  <2>2. connection[k] \in [user : User, step : {"reading", "writing", "leaving", "closing"},
                           open : BOOLEAN]
      BY <1>0, <2>1 DEF TypesHold, ConnectionType, NoConnection
  <2>3. [connection[k] EXCEPT !.open = FALSE] \in ConnectionType
      BY <2>2 DEF ConnectionType
  <2>4. /\ connection' \in [1..MaxConnections -> ConnectionType]
        /\ connection'[k].user = connection[k].user /\ connection'[k].step = connection[k].step
        /\ \A j \in 1..MaxConnections : j # k => connection'[j] = connection[j]
      BY <1>0, <2>1, <2>2, <2>3 DEF TypesHold
  <2>5. TypesHold'
      BY <1>0, <1>1, <2>1, <2>4 DEF TypesHold
  <2>6. NotYetOpened'
      BY <1>0, <1>1, <2>4 DEF SocketInv, NotYetOpened, TypesHold
  <2>7. ASSUME NEW u \in User PROVE EntryNames(u)'
    <3>1. clients[u] \in 0..opened
        BY <1>0 DEF TypesHold
    <3> QED
        BY <1>0, <2>1, <2>4, <3>1 DEF SocketInv, EntryNames, TypesHold
  <2>8. ASSUME NEW j \in 1..opened' PROVE Reachable(j)'
      BY <1>0, <1>1, <2>1, <2>4 DEF SocketInv, Reachable, Served
  <2> QED
      BY <2>5, <2>6, <2>7, <2>8 DEF SocketInv
<1>4. CASE RemoveConnection(k)
  <2> PICK u : u = connection[k].user
      OBVIOUS
  <2>1. /\ connection[k].step = "leaving" /\ Goto(k, "closing")
        /\ clients' = [clients EXCEPT ![u] = 0]
        /\ cutOff' = cutOff \cup {j \in 1..opened : j # k /\ connection[j].user = u /\ Served(j)}
      BY <1>4 DEF RemoveConnection, At
  <2>2. /\ connection' \in [1..MaxConnections -> ConnectionType]
        /\ connection'[k].user = u /\ connection'[k].step = "closing"
        /\ \A j \in 1..MaxConnections : j # k => connection'[j] = connection[j]
        /\ u \in User
      BY <1>0, <2>1, GotoStep
  <2>3. TypesHold'
      BY <1>0, <1>1, <2>1, <2>2 DEF TypesHold
  <2>4. NotYetOpened'
      BY <1>0, <1>1, <2>2 DEF SocketInv, NotYetOpened, TypesHold
  <2>5. ASSUME NEW v \in User PROVE EntryNames(v)'
    <3>1. CASE v = u
        BY <1>0, <2>1, <3>1 DEF EntryNames, TypesHold
    <3>2. CASE v # u
      <4>1. clients'[v] = clients[v] /\ clients[v] \in 0..opened
          BY <1>0, <2>1, <3>2 DEF TypesHold
      <4>2. clients[v] # 0 => clients[v] # k
          BY <3>2 DEF SocketInv, EntryNames
      <4> QED
          BY <1>0, <2>2, <4>1, <4>2 DEF SocketInv, EntryNames, TypesHold
    <3> QED
        BY <3>1, <3>2
  <2>6. ASSUME NEW j \in 1..opened', Served(j)', j \notin cutOff'
        PROVE  clients'[connection'[j].user] >= j
    <3>1. j \in 1..opened /\ j # k /\ connection'[j] = connection[j]
        BY <1>0, <1>1, <2>2, <2>6 DEF Served
    <3>2. Served(j) /\ j \notin cutOff /\ connection[j].user # u
        BY <2>1, <2>6, <3>1 DEF Served
    <3>3. connection[j].user \in User
      <4>1. j \in 1..MaxConnections /\ connection[j] \in ConnectionType
          BY <1>0, <3>1 DEF TypesHold
      <4>2. connection[j] # NoConnection
          BY <3>2 DEF Served, NoConnection
      <4> QED
          BY <4>1, <4>2 DEF ConnectionType
    <3> QED
        BY <1>0, <2>1, <3>1, <3>2, <3>3 DEF SocketInv, Reachable, TypesHold
  <2> QED
      BY <2>3, <2>4, <2>5, <2>6 DEF SocketInv, Reachable
<1>5. CASE CloseConnection(k)
  <2>1. /\ connection[k].step = "closing"
        /\ connection' = [connection EXCEPT ![k] = NoConnection]
        /\ cutOff' = cutOff \ {k} /\ clients' = clients
      BY <1>5 DEF CloseConnection, At
  <2>2. TypesHold'
      BY <1>0, <1>1, <2>1 DEF TypesHold, ConnectionType
  <2>3. NotYetOpened'
      BY <1>0, <1>1, <2>1 DEF SocketInv, NotYetOpened, TypesHold
  <2>4. ASSUME NEW v \in User PROVE EntryNames(v)'
    <3>1. clients[v] \in 0..opened
        BY <1>0 DEF TypesHold
    <3>2. clients[v] # 0 => clients[v] # k
        BY <2>1 DEF SocketInv, EntryNames
    <3> QED
        BY <1>0, <2>1, <3>1, <3>2 DEF SocketInv, EntryNames, TypesHold
  <2>5. ASSUME NEW j \in 1..opened', Served(j)', j \notin cutOff'
        PROVE  clients'[connection'[j].user] >= j
    <3>1. j \in 1..opened /\ j # k /\ connection'[j] = connection[j]
        BY <1>0, <1>1, <2>1, <2>5 DEF Served, TypesHold, NoConnection
    <3> QED
        BY <2>1, <2>5, <3>1 DEF SocketInv, Reachable, Served
  <2> QED
      BY <2>2, <2>3, <2>4, <2>5 DEF SocketInv, Reachable
<1> QED
    BY <1>2, <1>3, <1>4, <1>5 DEF Serve

\* The steps of SendNotification, the panic it may cause included.
LEMMA NotifyStep ==
    ASSUME SocketInv, NEW s \in Sender, Notify(s)
    PROVE  SocketInv'
<1>0. TypesHold
    BY DEF SocketInv
<1>1. UNCHANGED <<users, form, welcomed, cookie, entered, clients, opened, cutOff>>
    BY DEF Notify, SendNotification, WriteNotification, NotificationReturns, accounts
<1>2. notifying' \in [Sender -> [step : {"found", "writing"}, conn : 1..opened]
                                     \cup {NotNotifying}]
  <2>1. ASSUME NEW u \in User, SendNotification(s, u)
        PROVE  notifying' \in [Sender -> [step : {"found", "writing"}, conn : 1..opened]
                                              \cup {NotNotifying}]
    <3>1. clients[u] # 0 => clients[u] \in 1..opened
        BY <1>0 DEF TypesHold
    <3> QED
        BY <1>0, <2>1, <3>1 DEF SendNotification, TypesHold
  <2>2. CASE WriteNotification(s)
    <3>1. notifying[s] \in [step : {"found", "writing"}, conn : 1..opened]
        BY <1>0, <2>2 DEF WriteNotification, TypesHold, NotNotifying
    <3>2. notifying' = [notifying EXCEPT ![s] = [notifying[s] EXCEPT !.step = "writing"]]
        BY <2>2 DEF WriteNotification
    <3> QED
        BY <1>0, <3>1, <3>2 DEF TypesHold
  <2>3. CASE NotificationReturns(s)
      BY <1>0, <2>3 DEF NotificationReturns, TypesHold
  <2> QED
      BY <2>1, <2>2, <2>3 DEF Notify
<1>3. CASE UNCHANGED connection
  <2>1. TypesHold'
      BY <1>0, <1>1, <1>2, <1>3 DEF TypesHold
  <2> QED
      BY <1>1, <1>3, <2>1 DEF SocketInv, NotYetOpened, EntryNames, Reachable, Served
<1>4. CASE connection' # connection
  <2>1. PICK k \in 1..opened : connection[k].step = "writing" /\ Goto(k, "leaving")
    <3>1. WriteNotification(s)
        BY <1>4 DEF Notify, SendNotification, NotificationReturns
    <3>2. notifying[s].conn \in 1..opened
        BY <1>0, <3>1 DEF WriteNotification, TypesHold, NotNotifying
    <3> QED
        BY <1>4, <3>1, <3>2 DEF WriteNotification, At
  <2>2. /\ connection' \in [1..MaxConnections -> ConnectionType]
        /\ NotYetOpened'
        /\ \A u \in User : EntryNames(u)'
        /\ \A j \in 1..opened' : Reachable(j)'
      BY <1>1, <2>1, GoesOn
  <2>3. TypesHold'
      BY <1>0, <1>1, <1>2, <2>2 DEF TypesHold
  <2> QED
      BY <2>2, <2>3 DEF SocketInv
<1> QED
    BY <1>3, <1>4

\* After a restart there is nothing to enter or to serve.
LEMMA RestartStep ==
    ASSUME SocketInv, RestartWeb
    PROVE  SocketInv'
<1>1. TypesHold'
    BY DEF SocketInv, TypesHold, RestartWeb, ConnectionType
<1>2. \A k \in 1..opened' : ~Served(k)'
    BY <1>1, ConnectionsBound DEF SocketInv, TypesHold, RestartWeb, Served, NoConnection
<1> QED
    BY <1>1, <1>2 DEF SocketInv, RestartWeb, NotYetOpened, EntryNames, Reachable

-----------------------------------------------------------------------------
(* Theorems.                                                               *)

\* The invariant holds from the start.
LEMMA Start == Init => SessionInv
BY ConnectionsBound DEF Init, SessionInv, TypesHold, ConnectionType, RowsStay, NotYetOpened,
   EntryNames, Reachable

\* Every step keeps it.
LEMMA Step == SessionInv /\ [Next]_vars => SessionInv'
<1> SUFFICES ASSUME SessionInv, [Next]_vars PROVE SessionInv'
    OBVIOUS
<1>0. SocketInv /\ TypesHold /\ RowsStay
    BY DEF SessionInv, SocketInv
<1>1. ASSUME NEW b \in Browser, AccountStep(b) PROVE SessionInv'
  <2>1. TypesHold' /\ RowsStay'
      BY <1>0, <1>1, AccountTypes, AccountRows
  <2>2. UNCHANGED sockets
      BY <1>1 DEF AccountStep, Register, InsertUser, Login, Logout
  <2> QED
      BY <2>1, <2>2 DEF SessionInv, NotYetOpened, EntryNames, Reachable, Served, sockets
<1>2. CASE SocketStep
  <2>1. SocketInv'
      BY <1>0, <1>2, OpenStep, ServeStep, NotifyStep, RestartStep DEF SocketStep
  <2>2. RowsStay'
      BY <1>0, <1>2, SocketRows
  <2> QED
      BY <2>1, <2>2 DEF SessionInv, SocketInv
<1>3. CASE UNCHANGED vars
    BY <1>3 DEF vars, accounts, sockets, SessionInv, TypesHold, RowsStay, NotYetOpened,
       EntryNames, Reachable, Served
<1> QED
    BY <1>1, <1>2, <1>3, TwoKinds

\* It holds always.
LEMMA SessionInvariant == Spec => []SessionInv
BY Start, Step, PTL DEF Spec

\* Whoever was told that registration succeeded keeps the name with that
\* password, and a cookie names a user whose password its browser gave,
\* however the registrations of one name interleave (auth.go:53-130).
THEOREM Accounts == Spec => []AccountsHold
<1>1. SessionInv => AccountsHold
    BY DEF SessionInv, RowsStay, AccountsHold
<1> QED
    BY <1>1, SessionInvariant, PTL

\* An entry names a connection whose handler will take it out, and a
\* connection that is served has an entry of its user, unless a later one
\* replaced it or another handler took it (ws.go:50, 77-84).
THEOREM Entries == Spec => []EntriesFollowHandlers
<1>1. SessionInv => EntriesFollowHandlers
    BY DEF SessionInv, EntryNames, Reachable, EntriesFollowHandlers, Served, At
<1> QED
    BY <1>1, SessionInvariant, PTL
=============================================================================
