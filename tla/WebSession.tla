----------------------------- MODULE WebSession -----------------------------
(***************************************************************************)
(* Accounts and notifications of the web application (web/handlers/auth.go,*)
(* logout.go and ws.go, web/middleware/auth.go).                           *)
(*                                                                         *)
(* A browser registers, logs in and keeps a token in a cookie.  The lobby  *)
(* opens a WebSocket connection, whose handler enters it in a map by user  *)
(* name; handlers of other users' requests find it there and write to it   *)
(* after they let go of the lock.  The handler takes the entry out when it *)
(* ends, whichever connection the entry names by then (ws.go:80-84).       *)
(*                                                                         *)
(* gorilla/websocket allows one writer at a time: what two at once do to   *)
(* each other is a data race, after which either may panic.  gin recovers  *)
(* from the panic when the handler's deferred functions have run.          *)
(***************************************************************************)
EXTENDS Integers

CONSTANTS
    User, Password, Browser,
    Sender,             \* goroutines that run SendNotification
    NoUser, NoPassword,
    MaxConnections      \* bound on the connections ever opened

ASSUME NamesDiffer == NoUser \notin User /\ NoPassword \notin Password
ASSUME ConnectionsBound == MaxConnections \in Nat

VARIABLES
    users,          \* users[u]: the password in the row of u; the name is UNIQUE
    form,           \* form[b]: what browser b registers, once found free
    cookie,         \* cookie[b]: the user its token names
    clients,        \* clients[u]: the connection entered for u
    connection,     \* connection[k]: user, browser's end, and where its handler is
    notifying,      \* notifying[s]: where SendNotification is, and with what connection
    opened,         \* connections so far: a greater number is a later connection
    \* What was seen of it.
    welcomed,       \* <<u, p>>: told that registration succeeded
    entered,        \* entered[b]: the name and password b is logged in with
    cutOff          \* connections served when another handler removed their user's entry

accounts == <<users, form, welcomed>>
sockets == <<clients, connection, notifying, opened, cutOff>>
vars == <<accounts, cookie, entered, sockets>>

-----------------------------------------------------------------------------
(* Accounts.                                                               *)

Nothing == <<NoUser, NoPassword>>
NoForm == [name |-> NoUser, password |-> NoPassword]

\* Register: bind and look; a name that exists is sent back to the form.
Register(b, u, p) ==
    /\ form[b] = NoForm /\ users[u] = NoPassword
    /\ form' = [form EXCEPT ![b] = [name |-> u, password |-> p]]
    /\ UNCHANGED <<users, welcomed, cookie, entered, sockets>>

\* Mutant: ON CONFLICT DO UPDATE.
InsertUser_Replaces(b) ==
    LET u == form[b].name
        p == form[b].password
    IN
    /\ form[b] # NoForm
    /\ users' = [users EXCEPT ![u] = p]
    /\ welcomed' = welcomed \cup {<<u, p>>}
    /\ form' = [form EXCEPT ![b] = NoForm]
    /\ UNCHANGED <<cookie, entered, sockets>>

\* The insertion, which the UNIQUE column refuses when another was faster
\* while the password was hashed.  An error is told as such, applied or not.
InsertUser(b) ==
    LET u == form[b].name
        p == form[b].password
        inserted == users' = [users EXCEPT ![u] = p]
    IN
    /\ form[b] # NoForm
    /\ \/ users[u] = NoPassword /\ inserted /\ welcomed' = welcomed \cup {<<u, p>>}
       \/ ((users[u] = NoPassword /\ inserted) \/ UNCHANGED users) /\ UNCHANGED welcomed
    /\ form' = [form EXCEPT ![b] = NoForm]
    /\ UNCHANGED <<cookie, entered, sockets>>

\* A token for whoever knows the password.
Login(b, u, p) ==
    /\ users[u] = p
    /\ cookie' = [cookie EXCEPT ![b] = u]
    /\ entered' = [entered EXCEPT ![b] = <<u, p>>]
    /\ UNCHANGED <<accounts, sockets>>

\* LogoutHandler, which needs a valid token as all of /messenger, or its 24
\* hours are over.  Nothing tells the connections it opened.
Logout(b) ==
    /\ cookie[b] # NoUser
    /\ cookie' = [cookie EXCEPT ![b] = NoUser]
    /\ entered' = [entered EXCEPT ![b] = Nothing]
    /\ UNCHANGED <<accounts, sockets>>

-----------------------------------------------------------------------------
(* Connections: WebSocketHandler.                                          *)

NoConnection == [user |-> NoUser, step |-> "ended", open |-> FALSE]

\* The handler is in its loop.
Served(k) == connection[k].step \in {"reading", "writing"}

\* Goes on at step; its end of the connection stays as it is.
At(k, step) == connection[k].step = step
Goto(k, step) == connection' = [connection EXCEPT ![k].step = step]

\* Mutant: the first connection of a user keeps its entry.
OpenWebSocket_KeepsFirst(b) ==
    LET u == cookie[b] IN
    /\ u # NoUser /\ opened < MaxConnections
    /\ opened' = opened + 1
    /\ connection' = [connection EXCEPT ![opened + 1] =
                        [user |-> u, step |-> "reading", open |-> TRUE]]
    /\ clients' = [clients EXCEPT ![u] = IF @ = 0 THEN opened + 1 ELSE @]
    /\ UNCHANGED <<accounts, cookie, entered, notifying, cutOff>>

\* AuthMiddleware finds the user in the token, and the connection replaces
\* the user's entry.  Connections are numbered in the order of their entries.
OpenWebSocket(b) ==
    LET u == cookie[b] IN
    /\ u # NoUser /\ opened < MaxConnections
    /\ opened' = opened + 1
    /\ connection' = [connection EXCEPT ![opened + 1] =
                        [user |-> u, step |-> "reading", open |-> TRUE]]
    /\ clients' = [clients EXCEPT ![u] = opened + 1]
    /\ UNCHANGED <<accounts, cookie, entered, notifying, cutOff>>

\* The page is left or the network breaks.
CloseWebSocket(k) ==
    /\ connection[k].open
    /\ connection' = [connection EXCEPT ![k].open = FALSE]
    /\ UNCHANGED <<accounts, cookie, entered, clients, notifying, opened, cutOff>>

\* A message of type "chat" is answered with itself or an error.  While a
\* notification is written to the connection the handler may panic.
Reply(k) ==
    /\ At(k, "reading") /\ connection[k].open
    /\ \/ Goto(k, "writing")
       \/ /\ \E s \in Sender : notifying[s] = [step |-> "writing", conn |-> k]
          /\ Goto(k, "leaving")
    /\ UNCHANGED <<accounts, cookie, entered, clients, notifying, opened, cutOff>>

\* Written or not: the break after an error only leaves the switch.
ReplyReturns(k) ==
    /\ At(k, "writing")
    /\ Goto(k, "reading")
    /\ UNCHANGED <<accounts, cookie, entered, clients, notifying, opened, cutOff>>

\* ReadJSON fails on a connection that is closed, or on what is not JSON.
ReadFails(k) ==
    /\ At(k, "reading")
    /\ Goto(k, "leaving")
    /\ UNCHANGED <<accounts, cookie, entered, clients, notifying, opened, cutOff>>

\* The deferred functions: the entry of this user goes, then the connection.
RemoveConnection(k) ==
    LET u == connection[k].user IN
    /\ At(k, "leaving")
    /\ clients' = [clients EXCEPT ![u] = 0]
    /\ cutOff' = cutOff \cup {j \in 1..opened : j # k /\ connection[j].user = u /\ Served(j)}
    /\ Goto(k, "closing")
    /\ UNCHANGED <<accounts, cookie, entered, notifying, opened>>

CloseConnection(k) ==
    /\ At(k, "closing")
    /\ connection' = [connection EXCEPT ![k] = NoConnection]
    /\ cutOff' = cutOff \ {k}
    /\ UNCHANGED <<accounts, cookie, entered, clients, notifying, opened>>

-----------------------------------------------------------------------------
(* SendNotification.                                                       *)

NotNotifying == [step |-> "none", conn |-> 0]

\* Without an entry the notification is dropped without an error.
SendNotification(s, u) ==
    /\ notifying[s] = NotNotifying
    /\ notifying' = [notifying EXCEPT ![s] =
                       IF clients[u] = 0 THEN @ ELSE [step |-> "found", conn |-> clients[u]]]
    /\ UNCHANGED <<accounts, cookie, entered, clients, connection, opened, cutOff>>

\* To the connection found, whatever became of it; a handler that is writing
\* to it may panic.
WriteNotification(s) ==
    LET k == notifying[s].conn IN
    /\ notifying[s].step = "found"
    /\ notifying' = [notifying EXCEPT ![s].step = "writing"]
    /\ UNCHANGED connection \/ (At(k, "writing") /\ Goto(k, "leaving"))
    /\ UNCHANGED <<accounts, cookie, entered, clients, opened, cutOff>>

\* Delivered, an error that is logged, or a panic that ends the request.
NotificationReturns(s) ==
    /\ notifying[s].step = "writing"
    /\ notifying' = [notifying EXCEPT ![s] = NotNotifying]
    /\ UNCHANGED <<accounts, cookie, entered, clients, connection, opened, cutOff>>

-----------------------------------------------------------------------------
\* The map and the goroutines go; rows and cookies stay, for the key of the
\* tokens is in the program.
RestartWeb ==
    /\ form' = [b \in Browser |-> NoForm]
    /\ clients' = [u \in User |-> 0]
    /\ connection' = [k \in 1..MaxConnections |-> NoConnection]
    /\ notifying' = [s \in Sender |-> NotNotifying]
    /\ cutOff' = {}
    /\ UNCHANGED <<users, welcomed, cookie, entered, opened>>

Init ==
    /\ users = [u \in User |-> NoPassword] /\ welcomed = {}
    /\ form = [b \in Browser |-> NoForm]
    /\ cookie = [b \in Browser |-> NoUser]
    /\ entered = [b \in Browser |-> Nothing]
    /\ clients = [u \in User |-> 0]
    /\ connection = [k \in 1..MaxConnections |-> NoConnection]
    /\ notifying = [s \in Sender |-> NotNotifying]
    /\ opened = 0 /\ cutOff = {}

Browse(b) ==
    \/ \E u \in User, p \in Password : Register(b, u, p) \/ Login(b, u, p)
    \/ InsertUser(b) \/ Logout(b) \/ OpenWebSocket(b)

Serve(k) ==
    \/ CloseWebSocket(k) \/ Reply(k) \/ ReplyReturns(k)
    \/ ReadFails(k) \/ RemoveConnection(k) \/ CloseConnection(k)

Notify(s) ==
    \/ \E u \in User : SendNotification(s, u)
    \/ WriteNotification(s) \/ NotificationReturns(s)

Next ==
    \/ \E b \in Browser : Browse(b)
    \/ \E k \in 1..opened : Serve(k)
    \/ \E s \in Sender : Notify(s)
    \/ RestartWeb

Spec == Init /\ [][Next]_vars

-----------------------------------------------------------------------------
(* Properties.                                                             *)

\* Who was told that registration succeeded keeps the name with that
\* password, though the test and the insertion are two statements and other
\* browsers may register the name in between (auth.go:53-75); and a cookie
\* names a user whose password its browser gave (auth.go:87-130).
AccountsHold ==
    /\ \A w \in welcomed : users[w[1]] = w[2]
    /\ \A b \in Browser : cookie[b] # NoUser =>
          entered[b] = <<cookie[b], users[cookie[b]]>>

\* An entry names a connection of its user whose handler has not ended, so
\* that it will take the entry out, also when a second writer makes it panic
\* (ws.go:50, 77-84).  And a connection that is served can be reached, but
\* when a later one of its user was entered, or when the handler of another
\* one ended since and took the entry with it (ws.go:80).
EntriesFollowHandlers ==
    /\ \A u \in User : LET k == clients[u] IN
          k # 0 => /\ connection[k].user = u
                   /\ Served(k) \/ At(k, "leaving")
    /\ \A k \in 1..opened : Served(k) /\ k \notin cutOff =>
          clients[connection[k].user] >= k
=============================================================================
