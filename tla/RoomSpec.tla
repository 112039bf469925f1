------------------------------ MODULE RoomSpec ------------------------------
(***************************************************************************)
(* What the chat server promises about rooms, with no locks, no Redis and  *)
(* no broker: a room is opened once, holds at most two clients, and   *)
(* after it is closed, or the server process died, it never comes back.    *)
(* RoomServer is the code's protocol; it is checked, and proved, to        *)
(* implement this specification.                                           *)
(***************************************************************************)
CONSTANTS Room, Client

VARIABLES
    status,     \* status[r]: "new", "open" or "gone"
    members     \* members[r]: the clients inside room r

vars == <<status, members>>

Init ==
    /\ status = [r \in Room |-> "new"]
    /\ members = [r \in Room |-> {}]

Open(r) ==
    /\ status[r] = "new"
    /\ status' = [status EXCEPT ![r] = "open"]
    /\ UNCHANGED members

\* A client enters an empty room, or one with a single client inside.
Join(r, c) ==
    /\ status[r] = "open"
    /\ c \notin members[r]
    /\ \A d, e \in members[r] : d = e
    /\ members' = [members EXCEPT ![r] = @ \cup {c}]
    /\ UNCHANGED status

Leave(r, c) ==
    /\ status[r] = "open"
    /\ c \in members[r]
    /\ members' = [members EXCEPT ![r] = @ \ {c}]
    /\ UNCHANGED status

Close(r) ==
    /\ status[r] = "open"
    /\ status' = [status EXCEPT ![r] = "gone"]
    /\ members' = [members EXCEPT ![r] = {}]

\* The room map lives in the server's memory only.
Crash ==
    /\ status' = [r \in Room |-> IF status[r] = "open" THEN "gone" ELSE status[r]]
    /\ members' = [r \in Room |-> {}]

Next ==
    \/ Crash
    \/ \E r \in Room :
        \/ Open(r)
        \/ Close(r)
        \/ \E c \in Client : Join(r, c) \/ Leave(r, c)

Spec == Init /\ [][Next]_vars
=============================================================================
