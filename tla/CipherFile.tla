----------------------------- MODULE CipherFile -----------------------------
(***************************************************************************)
(* Files encrypted and decrypted as a stream (encryptFile, decryptFile,    *)
(* algorithm/symmetric.go:894-1061): a read gives any number of bytes up   *)
(* to the buffer's size, full blocks go out at once, and only the rest is  *)
(* padded.  Whatever the context's mode, the blocks are encrypted one by   *)
(* one.  Reads and writes may fail, and what was written stays.            *)
(***************************************************************************)
EXTENDS CipherContext

CONSTANT BufferSize     \* 1024 blocks, in bytes

ASSUME BufferType == BufferSize \in Nat \ {0}

VARIABLES
    fileStage,
    original,           \* the file that is encrypted
    source,             \* what is still to be read
    pending,            \* pendingData
    written             \* the output file

fileVars == <<fileStage, original, source, pending, written>>

-----------------------------------------------------------------------------
\* Full blocks of s, but not the last `keep` bytes of them.
Leading(s, keep) ==
    LET count == IF Len(s) < keep THEN 0 ELSE (Len(s) - keep) \div N IN
    [k \in 1..count |-> SubSeq(s, (k - 1) * N + 1, k * N)]

After(s, blocks) == SubSeq(s, N * Len(blocks) + 1, Len(s))

Map(cipher, blocks) == [k \in DOMAIN blocks |-> cipher[blocks[k]]]

OpenFile(p, s) ==
    /\ fileStage = "none"
    /\ fileStage' = "encrypting"
    /\ padding' = p
    /\ original' = s /\ source' = s
    /\ pending' = <<>> /\ written' = <<>>

\* Mutant: what is left of the last read is dropped.
EncryptRead_Drops(count) ==
    LET s == pending \o SubSeq(source, 1, count)
        blocks == Leading(s, 0)
    IN
    /\ fileStage = "encrypting" /\ count <= Len(source)
    /\ source' = SubSeq(source, count + 1, Len(source))
    /\ written' = written \o Bytes(Map(Enc, blocks))
    /\ pending' = IF After(s, blocks) = s THEN s ELSE <<>>
    /\ UNCHANGED <<fileStage, padding, original>>

EncryptRead(count) ==
    LET s == pending \o SubSeq(source, 1, count)
        blocks == Leading(s, 0)
    IN
    /\ fileStage = "encrypting" /\ count <= Len(source)
    /\ source' = SubSeq(source, count + 1, Len(source))
    /\ written' = written \o Bytes(Map(Enc, blocks))
    /\ pending' = After(s, blocks)
    /\ UNCHANGED <<fileStage, padding, original>>

\* At the end of the file: the rest and its padding, or a block of padding.
EncryptEnd(last) ==
    /\ fileStage = "encrypting" /\ source = <<>>
    /\ last \in LastBlock(padding, pending)
    /\ written' = written \o Bytes(<<Enc[last]>>)
    /\ fileStage' = "encrypted"
    /\ UNCHANGED <<padding, original, source, pending>>

OpenEncrypted ==
    /\ fileStage = "encrypted"
    /\ fileStage' = "decrypting"
    /\ source' = written
    /\ pending' = <<>> /\ written' = <<>>
    /\ UNCHANGED <<padding, original>>

\* All blocks but the last go out.
DecryptRead(count) ==
    LET s == pending \o SubSeq(source, 1, count)
        blocks == Leading(s, N)
    IN
    /\ fileStage = "decrypting" /\ count <= Len(source)
    /\ source' = SubSeq(source, count + 1, Len(source))
    /\ written' = written \o Bytes(Map(Dec, blocks))
    /\ pending' = After(s, blocks)
    /\ UNCHANGED <<fileStage, padding, original>>

\* The padding is taken off the last block.
DecryptEnd ==
    LET blocks == Leading(pending, N)
        last == After(pending, blocks)
        rest == RemovePadding(padding, Dec[last])
    IN
    /\ fileStage = "decrypting" /\ source = <<>>
    /\ \/ /\ pending = <<>>
          /\ fileStage' = "decrypted" /\ UNCHANGED written
       \/ /\ pending # <<>> /\ Len(pending) % N # 0
          /\ fileStage' = "refused" /\ UNCHANGED written
       \/ /\ pending # <<>> /\ Len(pending) % N = 0
          /\ fileStage' = IF rest.kind = "data" THEN "decrypted" ELSE "refused"
          /\ written' = written \o Bytes(Map(Dec, blocks)) \o rest.bytes
    /\ UNCHANGED <<padding, original, source, pending>>

\* A read or a write fails.
FileFails ==
    /\ fileStage \in {"encrypting", "decrypting"}
    /\ fileStage' = IF fileStage = "encrypting" THEN "not encrypted" ELSE "not decrypted"
    /\ UNCHANGED <<padding, original, source, pending, written>>

-----------------------------------------------------------------------------
FileInit ==
    /\ fileStage = "none"
    /\ original = <<>> /\ source = <<>> /\ pending = <<>> /\ written = <<>>

FileNext ==
    \/ fileStage = "none" /\ \E p \in Padding, d \in Data : OpenFile(p, Bytes(d.blocks) \o d.tail)
    \/ \E count \in 1..BufferSize : EncryptRead(count) \/ DecryptRead(count)
    \/ fileStage = "encrypting" /\ \E last \in LastBlock(padding, pending) : EncryptEnd(last)
    \/ OpenEncrypted \/ DecryptEnd \/ FileFails

-----------------------------------------------------------------------------
(* Properties.                                                             *)

\* However the reads cut a file and its encryption, decryptFile writes the
\* file again, and never anything but a beginning of it, though it stops at
\* any point when something fails (symmetric.go:914-970, 1007-1058).  Under
\* Zeros it loses the zeros at the end of the last block only, where Decrypt
\* loses all at the end (symmetric.go:1046).
FileRoundTrip ==
    LET size == Len(original)
        full == N * (size \div N)
        kept == SubSeq(original, 1, full)
                    \o TrimRight(SubSeq(original, full + 1, size))
    IN
    /\ fileStage = "decrypted" => written = (IF padding = "Zeros" THEN kept ELSE original)
    /\ fileStage \in {"decrypting", "not decrypted"} =>
          /\ Len(written) <= size
          /\ written = SubSeq(original, 1, Len(written))
    /\ fileStage # "refused"
=============================================================================
