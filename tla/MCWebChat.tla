------------------------------ MODULE MCWebChat ------------------------------
(* Instances of WebChat for TLC: handlers and users are interchangeable.    *)
EXTENDS WebChat, TLC

Symmetry == Permutations(Handler) \cup Permutations(User)
=============================================================================
