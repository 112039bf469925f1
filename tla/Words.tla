-------------------------------- MODULE Words --------------------------------
(***************************************************************************)
(* Machine words and byte strings, as the ciphers compute with them: the   *)
(* operators that BlockCipher and CipherContext take as constants, with    *)
(* the laws they are asked to obey.                                        *)
(***************************************************************************)
EXTENDS Integers, Sequences

\* Bit by bit, for numbers below 2^bits.
XorNumber(x, y, bits) ==
    LET sum[i \in 0..bits] ==
          IF i = 0 THEN 0
          ELSE sum[i - 1] + 2^(i - 1) * (((x \div 2^(i - 1)) + (y \div 2^(i - 1))) % 2)
    IN sum[bits]

\* rc5.go: a shift by the whole width leaves 0 in Go, so that a rotation by
\* 0 is none.
RotateLeft(x, y, bits) ==
    LET by == y % bits IN ((x * 2^by) % 2^bits) + (x \div 2^(bits - by))

RotateRight(x, y, bits) ==
    LET by == y % bits IN (x \div 2^by) + ((x * 2^(bits - by)) % 2^bits)

\* incrementCounter: the block's number is added to the counter's bytes from
\* the last to the first, the carry going on until it is spent.
AddToCounter(counter, blockIndex, base) ==
    LET size == Len(counter)
        carry[i \in 0..size] ==     \* into the i-th byte from the right
          IF i = 0 THEN blockIndex
          ELSE (carry[i - 1] \div base)
               + ((counter[size - i + 1] + (carry[i - 1] % base)) \div base)
    IN [i \in 1..size |-> (counter[i] + (carry[size - i] % base)) % base]
=============================================================================
