-------------------------- MODULE MCTerminalClient --------------------------
(* Instances of TerminalClient for TLC; clients are interchangeable.        *)
EXTENDS TerminalClient, TLC

Symmetry == Permutations(Client)
=============================================================================
