---------------------------- MODULE MCRoomServer ----------------------------
(* Instances of RoomServer for TLC: handlers, clients, keys and rooms are   *)
(* interchangeable, so the safety runs may identify states that differ by a *)
(* permutation of each.                                                     *)
EXTENDS RoomServer, TLC

Symmetry == Permutations(Handler) \cup Permutations(Client)
            \cup Permutations(Key) \cup Permutations(Room)
=============================================================================
