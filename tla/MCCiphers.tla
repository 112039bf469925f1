----------------------------- MODULE MCCiphers -----------------------------
(* Words and bytes of two bits, blocks of two bytes, and a block cipher     *)
(* that mixes the two, for TLC.                                             *)
EXTENDS Ciphers, Words

WordBits == 2

MCXor(x, y) == XorNumber(x, y, WordBits)
MCRol(x, y) == RotateLeft(x, y, WordBits)
MCRor(x, y) == RotateRight(x, y, WordBits)
MCIncrement(b, k) == AddToCounter(b, k, Base)
MCF(x, y) == (x * x + 2 * y + 1) % 4

MCEnc == [b \in Block |-> <<(b[2] + b[1] * b[1] + 1) % Base, (b[1] + 3) % Base>>]
MCDec == [c \in Block |-> CHOOSE b \in Block : MCEnc[b] = c]
MCIV == <<1, 3>>

\* None or up to two full blocks, and none or one byte; 0 and 1 are a zero
\* and a length.
Sample == {0, 1}
MCData ==
    {[blocks |-> b, tail |-> t] :
        b \in UNION {[1..k -> [1..N -> Sample]] : k \in 0..2},
        t \in {<<>>} \cup {<<x>> : x \in Sample}}
=============================================================================
