----------------------------- MODULE MCDelivery -----------------------------
(* Instances of Delivery for TLC.                                           *)
EXTENDS Delivery

\* One that trims and never refuses; and one that refuses and panics, and
\* else does what all the others do.
MCCiphers ==
    {[mode |-> "ECB", padding |-> "Zeros"], [mode |-> "RandomDelta", padding |-> "ANSIX923"]}
=============================================================================
