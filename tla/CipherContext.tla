--------------------------- MODULE CipherContext ---------------------------
(***************************************************************************)
(* A CryptoSymmetricContext (algorithm/symmetric.go): Encrypt pads the     *)
(* data and runs its mode over the blocks, Decrypt runs the mode back and  *)
(* takes the padding off.                                                  *)
(*                                                                         *)
(* ECB and CTR start a goroutine per block, which end in any order; the    *)
(* other modes go from block to block.  The block cipher is any            *)
(* permutation of the blocks (BlockCipher has the two of the program) and  *)
(* fails only on lengths that do not occur here.  A context is made with   *)
(* its key, mode, padding and IV and never changed, so that calls of it    *)
(* share nothing; one call of Encrypt and one of Decrypt are modelled.     *)
(***************************************************************************)
EXTENDS Integers, Sequences

CONSTANTS
    Base,               \* 256: a byte is a number below it
    N,                  \* blockSize, 16
    XorByte(_, _),
    Increment(_, _),    \* incrementCounter
    Enc, Dec,           \* the cipher's Encrypt and Decrypt with the key
    IV,
    Data,               \* what is encrypted
    ChunkBlocks         \* blocks in a chunk of a file, 256 KB of them

Byte == 0..(Base - 1)
Block == [1..N -> Byte]

Mode == {"ECB", "CBC", "PCBC", "CFB", "OFB", "CTR", "RandomDelta"}
Padding == {"Zeros", "ANSIX923", "PKCS7", "ISO10126"}

\* The length of a padding is written in one of its bytes.
ASSUME SizesType == N \in Nat \ {0} /\ Base \in Nat /\ N < Base
ASSUME ChunkType == ChunkBlocks \in Nat \ {0}
ASSUME XorByteLaw ==
    \A x, y \in Byte : XorByte(x, y) \in Byte /\ XorByte(XorByte(x, y), y) = x
ASSUME CipherLaw ==
    /\ Enc \in [Block -> Block] /\ Dec \in [Block -> Block]
    /\ \A b \in Block : Dec[Enc[b]] = b
ASSUME IVType == IV \in Block

\* Data is given as its full blocks and the bytes after them.
ASSUME DataType ==
    \A d \in Data : d.blocks \in Seq(Block) /\ d.tail \in Seq(Byte) /\ Len(d.tail) < N
ASSUME CounterType ==
    \A d \in Data : \A k \in 0..Len(d.blocks) : Increment(IV, k) \in Block

Empty(d) == d.blocks = <<>> /\ d.tail = <<>>

VARIABLES
    mode, padding,
    phase,          \* what the context is doing
    data,           \* what Encrypt was given
    padded,         \* its blocks with the padding
    input, output,  \* blocks going in and coming out
    todo,           \* numbers of the blocks that are not done
    feedback,       \* what the mode carries from block to block
    registers,      \* registers[k]: feedback when Encrypt came to block k
    delta,          \* RandomDelta's
    whole,          \* Decrypt was given all that Encrypt returned
    result          \* what Decrypt returned, or Encrypt instead of blocks

contextVars == <<mode, padding, phase, data, padded, input, output, todo, feedback,
                 registers, delta, whole, result>>

-----------------------------------------------------------------------------
(* Padding.                                                                *)

\* Mutant: the length byte does not count itself.
Filler_ShortLength(p, length, i) ==
    CASE p = "Zeros" -> {0}
      [] p = "ANSIX923" -> IF i = N THEN {length - 1} ELSE {0}
      [] p = "PKCS7" -> {length}
      [] p = "ISO10126" -> IF i = N THEN {length} ELSE Byte

\* What byte i of the last block may be when length bytes are missing.
Filler(p, length, i) ==
    CASE p = "Zeros" -> {0}
      [] p = "ANSIX923" -> IF i = N THEN {length} ELSE {0}
      [] p = "PKCS7" -> {length}
      [] p = "ISO10126" -> IF i = N THEN {length} ELSE Byte

\* AddPadding: there is always one more block, full or not.
LastBlock(p, tail) ==
    {b \in Block : \A i \in 1..N :
        IF i <= Len(tail) THEN b[i] = tail[i] ELSE b[i] \in Filler(p, N - Len(tail), i)}

TrimRight(s) ==
    LET zero(i) == \A j \in i..Len(s) : s[j] = 0
    IN SubSeq(s, 1, CHOOSE i \in 0..Len(s) : zero(i + 1) /\ (i = 0 \/ s[i] # 0))

Returned(s) == [kind |-> "data", bytes |-> s]
Refused == [kind |-> "error", bytes |-> <<>>]
Panicked == [kind |-> "panic", bytes |-> <<>>]
Nothing == [kind |-> "none", bytes |-> <<>>]

\* The length is the last byte.  ANSIX923 takes it from data that may be
\* empty, and does not mind a length of zero.
RemovePadding(p, s) ==
    LET length == s[Len(s)]
        rest == Returned(SubSeq(s, 1, Len(s) - length))
    IN
    CASE p = "Zeros" -> Returned(TrimRight(s))
      [] p = "ANSIX923" -> IF s = <<>> THEN Panicked
                           ELSE IF length > Len(s) THEN Refused ELSE rest
      [] p = "PKCS7" -> IF s = <<>> \/ length = 0 \/ length > Len(s) THEN Refused
                        ELSE IF \E i \in 1..length : s[Len(s) + 1 - i] # length THEN Refused
                        ELSE rest
      [] p = "ISO10126" -> IF s = <<>> \/ length = 0 \/ length > Len(s) THEN Refused ELSE rest

\* The bytes of a sequence of blocks.
Bytes(blocks) ==
    [i \in 1..(N * Len(blocks)) |-> blocks[1 + ((i - 1) \div N)][1 + ((i - 1) % N)]]

-----------------------------------------------------------------------------
(* The modes.                                                              *)

Parallel == {"ECB", "CTR"}

XorBlock(x, y) == [i \in 1..N |-> XorByte(x[i], y[i])]
AddByte(x, y) == IF x + y < Base THEN x + y ELSE x + y - Base
SubByte(x, y) == IF x >= y THEN x - y ELSE x - y + Base
AddBlock(x, d) == [i \in 1..N |-> AddByte(x[i], d[i])]
SubBlock(x, d) == [i \in 1..N |-> SubByte(x[i], d[i])]

Counter(k) == Increment(IV, k - 1)

\* Block k, with f carried over from the blocks before.
Encrypted(f, k, x) ==
    CASE mode = "ECB" -> Enc[x]
      [] mode \in {"CBC", "PCBC"} -> Enc[XorBlock(x, f)]
      [] mode \in {"CFB", "OFB"} -> XorBlock(x, Enc[f])
      [] mode = "CTR" -> XorBlock(x, Enc[Counter(k)])
      [] mode = "RandomDelta" -> AddBlock(x, delta)

Decrypted(f, k, y) ==
    CASE mode = "ECB" -> Dec[y]
      [] mode \in {"CBC", "PCBC"} -> XorBlock(Dec[y], f)
      [] mode \in {"CFB", "OFB"} -> XorBlock(y, Enc[f])
      [] mode = "CTR" -> XorBlock(y, Enc[Counter(k)])
      [] mode = "RandomDelta" -> SubBlock(y, delta)

\* What goes on to the next block when x was encrypted to y.  PCBC keeps two
\* blocks and only ever uses them xored.
AfterEncrypting(f, x, y) ==
    CASE mode \in {"CBC", "CFB"} -> y
      [] mode = "PCBC" -> XorBlock(x, y)
      [] mode = "OFB" -> Enc[f]
      [] OTHER -> f

\* Mutant: CBC goes on from the decrypted block.
AfterDecrypting_Plain(f, y, x) ==
    CASE mode = "CBC" -> x
      [] mode = "CFB" -> y
      [] mode = "PCBC" -> XorBlock(x, y)
      [] mode = "OFB" -> Enc[f]
      [] OTHER -> f

\* And when y was decrypted to x.
AfterDecrypting(f, y, x) ==
    CASE mode \in {"CBC", "CFB"} -> y
      [] mode = "PCBC" -> XorBlock(x, y)
      [] mode = "OFB" -> Enc[f]
      [] OTHER -> f

\* A goroutine per block, or one block after the other.
Turn(k) == k \in todo /\ (mode \in Parallel \/ \A j \in todo : k <= j)

-----------------------------------------------------------------------------
(* Encrypt.                                                                *)

\* There is nothing to encrypt.
EncryptRefuses(d) ==
    /\ phase = "new" /\ Empty(d)
    /\ phase' = "refused"
    /\ result' = Refused
    /\ UNCHANGED <<mode, padding, data, padded, input, output, todo, feedback, registers,
                   delta, whole>>

Encrypt(m, p, d, last, r) ==
    LET blocks == Append(d.blocks, last) IN
    /\ phase = "new" /\ ~Empty(d)
    /\ mode' = m /\ padding' = p /\ data' = d /\ delta' = r
    /\ padded' = blocks /\ input' = blocks
    /\ output' = [k \in 1..Len(blocks) |-> IV]
    /\ registers' = [k \in 1..Len(blocks) |-> IV]
    /\ todo' = 1..Len(blocks)
    /\ feedback' = IV
    /\ phase' = "encrypting"
    /\ UNCHANGED <<whole, result>>

EncryptBlock(k) ==
    LET y == Encrypted(feedback, k, input[k]) IN
    /\ phase = "encrypting" /\ Turn(k)
    /\ output' = [output EXCEPT ![k] = y]
    /\ registers' = [registers EXCEPT ![k] = feedback]
    /\ feedback' = AfterEncrypting(feedback, input[k], y)
    /\ todo' = todo \ {k}
    /\ UNCHANGED <<mode, padding, phase, data, padded, input, delta, whole, result>>

\* RandomDelta puts delta in front.
EncryptReturns ==
    /\ phase = "encrypting" /\ todo = {}
    /\ phase' = "encrypted"
    /\ UNCHANGED <<mode, padding, data, padded, input, output, todo, feedback, registers,
                   delta, whole, result>>

-----------------------------------------------------------------------------
(* Decrypt.                                                                *)

Start(blocks) ==
    /\ input' = blocks /\ output' = [k \in DOMAIN blocks |-> IV]
    /\ todo' = DOMAIN blocks
    /\ feedback' = IV
    /\ phase' = "decrypting"

\* Of all that Encrypt returned; RandomDelta finds its delta in front of it.
Decrypt ==
    /\ phase = "encrypted"
    /\ Start(output)
    /\ whole' = TRUE
    /\ UNCHANGED <<mode, padding, data, padded, registers, delta, result>>

\* The chunks a file is cut into are decrypted one by one (client.go:373).
DecryptChunk(c) ==
    LET sent == IF mode = "RandomDelta" THEN <<delta>> \o output ELSE output
        first == (c - 1) * ChunkBlocks + 1
        last == IF c * ChunkBlocks < Len(sent) THEN c * ChunkBlocks ELSE Len(sent)
        chunk == SubSeq(sent, first, last)
    IN
    /\ phase = "encrypted"
    /\ first <= Len(sent) /\ ChunkBlocks < Len(sent)
    /\ whole' = FALSE
    /\ IF mode = "RandomDelta" THEN delta' = chunk[1] /\ Start(Tail(chunk))
                               ELSE UNCHANGED delta /\ Start(chunk)
    /\ UNCHANGED <<mode, padding, data, padded, registers, result>>

DecryptBlock(k) ==
    LET x == Decrypted(feedback, k, input[k]) IN
    /\ phase = "decrypting" /\ Turn(k)
    /\ output' = [output EXCEPT ![k] = x]
    /\ feedback' = AfterDecrypting(feedback, input[k], x)
    /\ todo' = todo \ {k}
    /\ UNCHANGED <<mode, padding, phase, data, padded, input, registers, delta, whole, result>>

DecryptReturns ==
    /\ phase = "decrypting" /\ todo = {}
    /\ phase' = "decrypted"
    /\ result' = RemovePadding(padding, Bytes(output))
    /\ UNCHANGED <<mode, padding, data, padded, input, output, todo, feedback, registers,
                   delta, whole>>

-----------------------------------------------------------------------------
ContextInit ==
    /\ mode = "none" /\ padding = "none" /\ phase = "new"
    /\ data = [blocks |-> <<>>, tail |-> <<>>]
    /\ padded = <<>> /\ input = <<>> /\ output = <<>> /\ registers = <<>>
    /\ todo = {} /\ feedback = IV /\ delta = IV /\ whole = FALSE /\ result = Nothing

\* Only RandomDelta draws a delta.
ContextNext ==
    \/ phase = "new" /\ \E m \in Mode, p \in Padding, d \in Data :
          \E last \in LastBlock(p, d.tail), r \in (IF m = "RandomDelta" THEN Block ELSE {IV}) :
              Encrypt(m, p, d, last, r)
    \/ \E d \in Data : EncryptRefuses(d)
    \/ \E k \in todo : EncryptBlock(k) \/ DecryptBlock(k)
    \/ EncryptReturns \/ Decrypt \/ DecryptReturns
    \/ \E c \in 1..(Len(output) + 1) : DecryptChunk(c)

ContextSpec == ContextInit /\ [][ContextNext]_contextVars

-----------------------------------------------------------------------------
(* Properties.                                                             *)

\* Every mode undoes itself block by block: a feedback that the two
\* directions update differently, a counter that depends on which goroutine
\* comes first or a delta that is lost would show in some block
\* (symmetric.go:310-765).
ModesRoundTrip ==
    phase = "decrypted" /\ whole => output = padded

\* Decrypt returns the data Encrypt was given and did not refuse, but without
\* the zeros at its end under Zeros (symmetric.go:806-878); and what it does with a chunk of
\* it, which may end in any byte, never panics except for ANSIX923, for
\* which RandomDelta may leave no byte to read the length from (symmetric.go:820).
ContextRoundTrip ==
    LET bytes == Bytes(data.blocks) \o data.tail IN
    phase = "decrypted" =>
        /\ whole => result = Returned(IF padding = "Zeros" THEN TrimRight(bytes) ELSE bytes)
        /\ result.kind = "panic" =>
              padding = "ANSIX923" /\ mode = "RandomDelta" /\ ~whole /\ output = <<>>
=============================================================================
