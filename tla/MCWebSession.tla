---------------------------- MODULE MCWebSession ----------------------------
(* Instances of WebSession for TLC: browsers, senders and the rest are      *)
(* interchangeable.                                                         *)
EXTENDS WebSession, TLC

Symmetry == Permutations(Browser) \cup Permutations(Sender) \cup
            Permutations(User) \cup Permutations(Password)
=============================================================================
