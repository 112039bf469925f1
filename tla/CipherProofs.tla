---------------------------- MODULE CipherProofs ----------------------------
(***************************************************************************)
(* For every block size, block cipher, IV and data, in whatever order the  *)
(* goroutines of ECB and CTR end and however reads cut a file: Decrypt and *)
(* decryptFile give back what Encrypt and encryptFile were given, which    *)
(* for Encrypt is not empty.                                               *)
(*                                                                         *)
(* ContextInv says of each ciphertext block which register it was made     *)
(* with (Made) and of the register how it follows from the block before    *)
(* (Linked), and of Decrypt that it carries the same registers along.      *)
(* ReturnInv adds what Encrypt was given and what a chunk of it is, and    *)
(* FileInv says of a file which of its blocks are written and that the     *)
(* rest is what is pending and still to be read.  Between them are the     *)
(* facts about bytes: cut into blocks, padded, trimmed.                    *)
(***************************************************************************)
EXTENDS Ciphers, SequenceTheorems, WellFoundedInduction, TLAPS

\* The numbers of the blocks.
Count == Len(padded)
Index == 1..Count

\* The register of block k, from the blocks before it.
Carried(c, k) ==
    IF k = 1 THEN IV ELSE AfterEncrypting(registers[k - 1], padded[k - 1], c[k - 1])

Made(c, k) == c[k] = Encrypted(registers[k], k, padded[k])

Linked(c, k) == mode \notin Parallel => registers[k] = Carried(c, k)

\* Blocks are done from the first to the last, but by Parallel modes.
InOrder == mode \notin Parallel => \A j \in todo, k \in Index : j <= k => k \in todo

\* What block k will be made with when its turn comes.
Ready(c) ==
    mode \notin Parallel =>
        \A k \in todo : (\A j \in todo : k <= j) => feedback = Carried(c, k)

ContextType ==
    /\ phase \in {"new", "refused", "encrypting", "encrypted", "decrypting", "decrypted"}
    /\ phase \notin {"new", "refused"} =>
          /\ mode \in Mode
          /\ padded \in Seq(Block)
          /\ \A k \in Index : Counter(k) \in Block
    /\ phase \in {"encrypting", "encrypted"} \/ whole => delta \in Block

Working(blocks) ==
    /\ input = blocks
    /\ output \in [Index -> Block]
    /\ todo \subseteq Index
    /\ feedback \in Block
    /\ InOrder

Encrypting ==
    /\ Working(padded)
    /\ registers \in [Index -> Block]
    /\ \A k \in Index \ todo : Made(output, k) /\ Linked(output, k)
    /\ Ready(output)

\* c is what Encrypt makes of padded.
Ciphertext(c) ==
    /\ c \in [Index -> Block]
    /\ registers \in [Index -> Block]
    /\ \A k \in Index : Made(c, k) /\ Linked(c, k)

Decrypting ==
    /\ Working(input)
    /\ Ciphertext(input)
    /\ \A k \in Index \ todo : output[k] = padded[k]
    /\ Ready(input)

ContextInv ==
    /\ ContextType
    /\ phase = "encrypting" => Encrypting
    /\ phase = "encrypted" => Ciphertext(output)
    /\ phase \in {"new", "refused", "encrypting", "encrypted"} => ~whole
    /\ phase = "decrypting" /\ whole => Decrypting
    /\ ModesRoundTrip

-----------------------------------------------------------------------------
(* Blocks.                                                                 *)

\* Adding a block twice takes it out again.
LEMMA XorBlocks ==
    ASSUME NEW x \in Block, NEW y \in Block
    PROVE  XorBlock(x, y) \in Block /\ XorBlock(XorBlock(x, y), y) = x
<1>1. \A i \in 1..N : x[i] \in Byte /\ y[i] \in Byte
  BY DEF Block
<1>2. XorBlock(x, y) \in Block
  BY <1>1, XorByteLaw DEF XorBlock, Block
<1>3. \A i \in 1..N : XorByte(XorBlock(x, y)[i], y[i]) = x[i]
  BY <1>1, XorByteLaw DEF XorBlock
<1> QED BY <1>2, <1>3 DEF XorBlock, Block

\* Subtraction modulo Base undoes addition.
LEMMA DeltaBytes ==
    ASSUME NEW x \in Byte, NEW y \in Byte
    PROVE  AddByte(x, y) \in Byte /\ SubByte(AddByte(x, y), y) = x
BY SizesType DEF Byte, AddByte, SubByte

\* So does it on blocks.
LEMMA DeltaBlocks ==
    ASSUME NEW x \in Block, NEW y \in Block
    PROVE  AddBlock(x, y) \in Block /\ SubBlock(AddBlock(x, y), y) = x
<1>1. \A i \in 1..N : x[i] \in Byte /\ y[i] \in Byte
  BY DEF Block
<1>2. AddBlock(x, y) \in Block
  BY <1>1, DeltaBytes DEF AddBlock, Block
<1>3. \A i \in 1..N : SubByte(AddBlock(x, y)[i], y[i]) = x[i]
  BY <1>1, DeltaBytes DEF AddBlock
<1> QED BY <1>2, <1>3 DEF SubBlock, Block

\* With the same register, delta and number, a block comes back.
LEMMA BlockBack ==
    ASSUME mode \in Mode, delta \in Block, NEW f \in Block, NEW k, Counter(k) \in Block,
           NEW x \in Block
    PROVE  /\ Encrypted(f, k, x) \in Block
           /\ Decrypted(f, k, Encrypted(f, k, x)) = x
<1>1. CASE mode = "ECB"
  BY <1>1, CipherLaw DEF Encrypted, Decrypted
<1>2. CASE mode \in {"CBC", "PCBC"}
  <2>1. XorBlock(x, f) \in Block /\ XorBlock(XorBlock(x, f), f) = x
    BY XorBlocks
  <2> QED BY <1>2, <2>1, CipherLaw DEF Encrypted, Decrypted
<1>3. CASE mode \in {"CFB", "OFB"}
  <2>1. Enc[f] \in Block
    BY CipherLaw
  <2> QED BY <1>3, <2>1, XorBlocks DEF Encrypted, Decrypted
<1>4. CASE mode = "CTR"
  <2>1. Enc[Counter(k)] \in Block
    BY CipherLaw
  <2> QED BY <1>4, <2>1, XorBlocks DEF Encrypted, Decrypted
<1>5. CASE mode = "RandomDelta"
  BY <1>5, DeltaBlocks DEF Encrypted, Decrypted
<1> QED BY <1>1, <1>2, <1>3, <1>4, <1>5 DEF Mode

\* Both directions carry the same block on.
LEMMA CarriedBlock ==
    ASSUME mode \in Mode, NEW f \in Block, NEW x \in Block, NEW y \in Block
    PROVE  /\ AfterEncrypting(f, x, y) \in Block
           /\ AfterDecrypting(f, y, x) = AfterEncrypting(f, x, y)
<1>1. Enc[f] \in Block /\ XorBlock(x, y) \in Block
  BY CipherLaw, XorBlocks
<1> QED BY <1>1 DEF AfterEncrypting, AfterDecrypting, Mode

-----------------------------------------------------------------------------
(* The order of the blocks.                                                *)

\* When block k is done, the one after it is the first that is left.
LEMMA NextBlock ==
    ASSUME Count \in Nat, InOrder, todo \subseteq Index, mode \notin Parallel,
           NEW k \in todo, Turn(k)
    PROVE  /\ \A j \in todo \ {k}, i \in Index : j <= i => i \in todo \ {k}
           /\ \A m \in todo \ {k} : (\A j \in todo \ {k} : m <= j) => m = k + 1
           /\ \A j \in Index \ todo : j - 1 # k
<1>1. \A j \in todo : k <= j /\ j \in Int
  BY DEF Turn, Index
<1>2. \A j \in todo, i \in Index : j <= i => i \in todo
  BY DEF InOrder
<1>3. ASSUME NEW j \in todo \ {k}, NEW i \in Index, j <= i PROVE i \in todo \ {k}
  <2>1. k < j /\ i \in Int /\ k \in Int
    BY <1>1, <1>3 DEF Index
  <2> QED BY <1>2, <1>3, <2>1
<1>4. ASSUME NEW m \in todo \ {k}, \A j \in todo \ {k} : m <= j PROVE m = k + 1
  <2>1. k < m /\ m \in Index /\ k \in Index /\ m \in Int /\ k \in Int
    BY <1>1, <1>4 DEF Index
  <2>2. k + 1 \in Index
    BY <2>1 DEF Index
  <2>3. k + 1 \in todo \ {k}
    BY <1>2, <2>1, <2>2
  <2>4. m <= k + 1
    BY <1>4, <2>3
  <2> QED BY <2>1, <2>4
<1>5. ASSUME NEW j \in Index \ todo, j - 1 = k PROVE FALSE
  <2>1. j \in Int /\ k \in Int /\ k <= j
    BY <1>1, <1>5 DEF Index
  <2> QED BY <1>2, <1>5, <2>1
<1> QED BY <1>3, <1>4, <1>5

\* The operators depend on the mode and the delta, which stay.
LEMMA SameOperators ==
    ASSUME mode' = mode, delta' = delta
    PROVE  /\ \A f, k, x : Encrypted(f, k, x)' = Encrypted(f, k, x)
           /\ \A f, k, x : Decrypted(f, k, x)' = Decrypted(f, k, x)
           /\ \A f, x, y : AfterEncrypting(f, x, y)' = AfterEncrypting(f, x, y)
BY DEF Encrypted, Decrypted, AfterEncrypting, Counter

-----------------------------------------------------------------------------
(* The invariant.                                                          *)

\* At first nothing is encrypted.
LEMMA ContextInitially == ContextInit => ContextInv
BY DEF ContextInit, ContextInv, ContextType, ModesRoundTrip

\* Encrypt starts from the padded blocks.
LEMMA EncryptKeeps ==
    ASSUME ContextInv, NEW m \in Mode, NEW p \in Padding, NEW d \in Data,
           NEW last \in LastBlock(p, d.tail), NEW r \in Block, Encrypt(m, p, d, last, r)
    PROVE  ContextInv'
<1>1. last \in Block
  BY DEF LastBlock
<1>2. d.blocks \in Seq(Block)
  BY DataType
<1>3. padded' = Append(d.blocks, last)
  BY DEF Encrypt
<1>4. padded' \in Seq(Block) /\ Count' = Len(d.blocks) + 1 /\ Len(d.blocks) \in Nat
  BY <1>1, <1>2, <1>3 DEF Count
<1>5. \A k \in Index' : Counter(k)' \in Block
  <2>1. \A k \in Index' : k - 1 \in 0..Len(d.blocks)
    BY <1>4 DEF Index
  <2> QED BY <2>1, CounterType DEF Counter
<1>6. ContextType'
  BY <1>4, <1>5 DEF Encrypt, ContextType
<1>7. /\ input' = padded' /\ todo' = Index' /\ feedback' = IV
      /\ output' = [k \in Index' |-> IV] /\ registers' = [k \in Index' |-> IV]
  BY <1>3, <1>4 DEF Encrypt, Index, Count
<1>8. Working(padded)'
  BY <1>7, IVType DEF Working, InOrder
<1>9. Ready(output)'
  <2>1. SUFFICES ASSUME NEW k \in todo', \A j \in todo' : k <= j
                 PROVE  k = 1
    BY <1>7 DEF Ready, Carried
  <2>2. 1 \in todo' /\ k \in Int /\ k >= 1
    BY <1>4, <1>7, <2>1 DEF Index
  <2> QED BY <2>1, <2>2
<1>10. Encrypting'
  BY <1>7, <1>8, <1>9, IVType DEF Encrypting
<1> QED BY <1>6, <1>10 DEF Encrypt, ContextInv, ModesRoundTrip

\* A block is made with the register the blocks before it left.
LEMMA EncryptBlockKeeps ==
    ASSUME ContextInv, NEW k \in todo, EncryptBlock(k)
    PROVE  ContextInv'
<1>1. /\ Encrypting /\ ContextType /\ ~whole
      /\ mode \in Mode /\ delta \in Block /\ padded \in Seq(Block)
      /\ \A j \in Index : Counter(j) \in Block
      /\ input = padded /\ output \in [Index -> Block] /\ registers \in [Index -> Block]
      /\ todo \subseteq Index /\ feedback \in Block /\ InOrder /\ Count \in Nat
  BY DEF ContextInv, ContextType, Encrypting, Working, EncryptBlock, Count
<1> DEFINE y == Encrypted(feedback, k, padded[k])
<1>2. k \in Index /\ padded[k] \in Block
  BY <1>1 DEF Index, Count
<1>3. y \in Block
  BY <1>1, <1>2, BlockBack
<1>4. /\ output' = [output EXCEPT ![k] = y]
      /\ registers' = [registers EXCEPT ![k] = feedback]
      /\ feedback' = AfterEncrypting(feedback, padded[k], y)
      /\ todo' = todo \ {k} /\ input' = input /\ padded' = padded
      /\ mode' = mode /\ delta' = delta /\ phase' = phase /\ whole' = whole
      /\ Turn(k) /\ phase = "encrypting"
  BY <1>1 DEF EncryptBlock
<1> HIDE DEF y
<1>5. /\ Index' = Index /\ Count' = Count
      /\ \A f, i, x : Encrypted(f, i, x)' = Encrypted(f, i, x)
      /\ \A f, x, z : AfterEncrypting(f, x, z)' = AfterEncrypting(f, x, z)
      /\ \A i : Counter(i)' = Counter(i)
  BY <1>4, SameOperators DEF Index, Count, Counter
<1>6. feedback' \in Block
  BY <1>1, <1>2, <1>3, <1>4, CarriedBlock
<1>7. /\ output' \in [Index -> Block] /\ registers' \in [Index -> Block]
      /\ output'[k] = y /\ registers'[k] = feedback
      /\ \A j \in Index \ {k} : output'[j] = output[j] /\ registers'[j] = registers[j]
  BY <1>1, <1>2, <1>3, <1>4
<1>8. ASSUME NEW j \in Index \ todo' PROVE Made(output, j)'
  <2>1. CASE j = k
    BY <1>4, <1>5, <1>7, <2>1 DEF Made, y
  <2>2. CASE j # k
    <3>1. Made(output, j)
      BY <1>1, <1>4, <1>8, <2>2 DEF Encrypting
    <3> QED BY <1>4, <1>5, <1>7, <1>8, <2>2, <3>1 DEF Made
  <2> QED BY <2>1, <2>2
\* The register of a block only depends on blocks that k does not change.
<1>9. ASSUME NEW j \in Index, j - 1 # k PROVE Carried(output, j)' = Carried(output, j)
  <2>1. j # 1 => j - 1 \in Index \ {k}
    BY <1>1, <1>9 DEF Index
  <2> QED BY <1>4, <1>5, <1>7, <2>1 DEF Carried
<1>10. ASSUME NEW j \in Index \ todo' PROVE Linked(output, j)'
  <2>1. SUFFICES ASSUME mode \notin Parallel
                 PROVE  registers'[j] = Carried(output, j)'
    BY <1>4 DEF Linked
  <2>2. CASE j = k
    <3>1. feedback = Carried(output, k)
      BY <1>1, <1>4, <2>1 DEF Encrypting, Ready, Turn
    <3>2. k - 1 # k
      BY <1>2 DEF Index
    <3> QED BY <1>2, <1>7, <1>9, <2>2, <3>1, <3>2
  <2>3. CASE j # k
    <3>1. j \in Index \ todo
      BY <1>4, <1>10, <2>3
    <3>2. registers[j] = Carried(output, j)
      BY <1>1, <2>1, <3>1 DEF Encrypting, Linked
    <3>3. j - 1 # k
      BY <1>1, <1>4, <2>1, <3>1, NextBlock
    <3> QED BY <1>7, <1>9, <2>3, <3>1, <3>2, <3>3
  <2> QED BY <2>2, <2>3
<1>11. InOrder'
  BY <1>1, <1>4, <1>5, NextBlock DEF InOrder
<1>12. Ready(output)'
  <2>1. SUFFICES ASSUME mode \notin Parallel, NEW i \in todo', \A j \in todo' : i <= j
                 PROVE  feedback' = Carried(output, i)'
    BY <1>4 DEF Ready
  <2>2. i = k + 1
    BY <1>1, <1>4, <2>1, NextBlock
  <2>3. i # 1 /\ i - 1 = k
    BY <1>2, <2>2 DEF Index
  <2> QED BY <1>4, <1>5, <1>7, <2>3 DEF Carried
<1>13. Encrypting'
  BY <1>1, <1>4, <1>5, <1>6, <1>7, <1>8, <1>10, <1>11, <1>12 DEF Encrypting, Working
<1>14. ContextType'
  BY <1>1, <1>4, <1>5 DEF ContextType
<1> QED BY <1>1, <1>4, <1>13, <1>14 DEF ContextInv, ModesRoundTrip

\* All blocks are made when Encrypt returns.
LEMMA EncryptReturnsKeeps ==
    ASSUME ContextInv, EncryptReturns
    PROVE  ContextInv'
<1>1. Encrypting /\ todo = {} /\ ~whole /\ ContextType
  BY DEF ContextInv, EncryptReturns
<1>2. Ciphertext(output)
  BY <1>1 DEF Encrypting, Working, Ciphertext
<1>3. /\ Index' = Index /\ \A i : Counter(i)' = Counter(i)
      /\ \A f, i, x : Encrypted(f, i, x)' = Encrypted(f, i, x)
      /\ \A f, x, z : AfterEncrypting(f, x, z)' = AfterEncrypting(f, x, z)
  BY SameOperators DEF EncryptReturns, Index, Count, Counter
<1>4. Ciphertext(output)'
  BY <1>2, <1>3 DEF EncryptReturns, Ciphertext, Made, Linked, Carried
<1>5. ContextType'
  BY <1>1, <1>3 DEF EncryptReturns, ContextType
<1> QED BY <1>1, <1>4, <1>5 DEF EncryptReturns, ContextInv, ModesRoundTrip

\* Decrypt starts over with the ciphertext.
LEMMA DecryptKeeps ==
    ASSUME ContextInv, Decrypt
    PROVE  ContextInv'
<1>1. Ciphertext(output) /\ ContextType /\ Count \in Nat
  BY DEF ContextInv, ContextType, Decrypt, Count
<1>2. /\ Index' = Index /\ \A i : Counter(i)' = Counter(i)
      /\ \A f, i, x : Encrypted(f, i, x)' = Encrypted(f, i, x)
      /\ \A f, x, z : AfterEncrypting(f, x, z)' = AfterEncrypting(f, x, z)
  BY SameOperators DEF Decrypt, Index, Count, Counter
<1>3. DOMAIN output = Index
  BY <1>1 DEF Ciphertext
<1>4. /\ input' = output /\ todo' = Index /\ feedback' = IV
      /\ output' = [k \in Index |-> IV] /\ registers' = registers
  BY <1>3 DEF Decrypt, Start
<1>5. Ciphertext(input)'
  BY <1>1, <1>2, <1>4 DEF Decrypt, Ciphertext, Made, Linked, Carried
<1>6. Working(input)'
  BY <1>2, <1>4, IVType DEF Working, InOrder
<1>7. Ready(input)'
  <2>1. SUFFICES ASSUME NEW k \in todo', \A j \in todo' : k <= j
                 PROVE  k = 1
    BY <1>4 DEF Ready, Carried
  <2>2. 1 \in todo' /\ k \in Int /\ k >= 1
    BY <1>1, <1>4, <2>1 DEF Index
  <2> QED BY <2>1, <2>2
<1>8. Decrypting'
  BY <1>2, <1>4, <1>5, <1>6, <1>7 DEF Decrypting
<1>9. ContextType'
  BY <1>1, <1>2 DEF Decrypt, Start, ContextType
<1> QED BY <1>8, <1>9 DEF Decrypt, Start, ContextInv, ModesRoundTrip

\* Of a chunk nothing is claimed but that it is no whole.
LEMMA DecryptChunkKeeps ==
    ASSUME ContextInv, NEW c, DecryptChunk(c)
    PROVE  ContextInv'
<1>1. phase' = "decrypting" /\ ~whole'
  BY DEF DecryptChunk, Start
<1>2. ContextType /\ phase \notin {"new", "refused"}
  BY DEF ContextInv, DecryptChunk
<1>3. ContextType'
  BY <1>1, <1>2 DEF DecryptChunk, ContextType, Index, Count, Counter
<1> QED BY <1>1, <1>3 DEF ContextInv, ModesRoundTrip

\* A block comes back with the register it was made with.
LEMMA DecryptBlockKeeps ==
    ASSUME ContextInv, NEW k \in todo, DecryptBlock(k)
    PROVE  ContextInv'
<1>1. /\ ContextType /\ phase = "decrypting"
      /\ mode \in Mode /\ padded \in Seq(Block) /\ Count \in Nat
      /\ \A j \in Index : Counter(j) \in Block
      /\ whole => delta \in Block
  BY DEF ContextInv, ContextType, DecryptBlock, Count
<1>2. /\ mode' = mode /\ delta' = delta /\ padded' = padded /\ phase' = phase
      /\ whole' = whole /\ input' = input /\ registers' = registers
      /\ todo' = todo \ {k} /\ Turn(k)
  BY DEF DecryptBlock
<1>3. /\ Index' = Index /\ Count' = Count
      /\ \A f, i, x : Encrypted(f, i, x)' = Encrypted(f, i, x)
      /\ \A f, x, z : AfterEncrypting(f, x, z)' = AfterEncrypting(f, x, z)
      /\ \A i : Counter(i)' = Counter(i)
  BY <1>2, SameOperators DEF Index, Count, Counter
<1>4. ContextType'
  BY <1>1, <1>2, <1>3 DEF ContextType
<1>5. CASE ~whole
  BY <1>1, <1>2, <1>4, <1>5 DEF ContextInv, ModesRoundTrip
<1>6. CASE whole
  <2>1. /\ Decrypting /\ Ciphertext(input) /\ registers \in [Index -> Block]
        /\ input \in [Index -> Block] /\ output \in [Index -> Block]
        /\ todo \subseteq Index /\ feedback \in Block /\ InOrder
        /\ \A j \in Index : Made(input, j) /\ Linked(input, j)
    BY <1>1, <1>6 DEF ContextInv, Decrypting, Working, Ciphertext
  <2>2. k \in Index /\ padded[k] \in Block /\ input[k] \in Block /\ registers[k] \in Block
    BY <1>1, <2>1 DEF Index, Count
  <2>3. mode \notin Parallel => feedback = registers[k]
    BY <1>2, <2>1, <2>2 DEF Decrypting, Ready, Turn, Linked
  <2>4. input[k] = Encrypted(feedback, k, padded[k])
    <3>1. input[k] = Encrypted(registers[k], k, padded[k])
      BY <2>1, <2>2 DEF Made
    <3>2. CASE mode \in Parallel
      BY <3>1, <3>2 DEF Parallel, Encrypted
    <3>3. CASE mode \notin Parallel
      BY <2>3, <3>1, <3>3
    <3> QED BY <3>2, <3>3
  <2>5. Decrypted(feedback, k, input[k]) = padded[k]
    BY <1>1, <1>6, <2>1, <2>2, <2>4, BlockBack
  <2>6. /\ output' = [output EXCEPT ![k] = padded[k]]
        /\ feedback' = AfterDecrypting(feedback, input[k], padded[k])
    BY <2>5 DEF DecryptBlock
  <2>7. /\ feedback' = AfterEncrypting(feedback, padded[k], input[k])
        /\ feedback' \in Block
    BY <1>1, <2>1, <2>2, <2>6, CarriedBlock
  <2>8. Ciphertext(input)'
    BY <1>2, <1>3, <2>1 DEF Ciphertext, Made, Linked, Carried
  <2>9. InOrder'
    BY <1>1, <1>2, <1>3, <2>1, NextBlock DEF InOrder
  <2>10. Ready(input)'
    <3>1. SUFFICES ASSUME mode \notin Parallel, NEW i \in todo', \A j \in todo' : i <= j
                   PROVE  feedback' = Carried(input, i)'
      BY <1>2 DEF Ready
    <3>2. i = k + 1
      BY <1>1, <1>2, <2>1, <3>1, NextBlock
    <3>3. i # 1 /\ i - 1 = k
      BY <1>1, <2>2, <3>2 DEF Index
    <3> QED BY <1>2, <1>3, <2>3, <2>7, <3>1, <3>3 DEF Carried
  <2>11. /\ output' \in [Index -> Block]
         /\ \A j \in Index \ todo' : output'[j] = padded[j]
    BY <1>2, <2>1, <2>2, <2>6 DEF Decrypting
  <2>12. Decrypting'
    BY <1>2, <1>3, <2>1, <2>7, <2>8, <2>9, <2>10, <2>11 DEF Decrypting, Working
  <2> QED BY <1>1, <1>2, <1>4, <2>12 DEF ContextInv, ModesRoundTrip
<1> QED BY <1>5, <1>6

\* All blocks are back when Decrypt returns.
LEMMA DecryptReturnsKeeps ==
    ASSUME ContextInv, DecryptReturns
    PROVE  ContextInv'
<1>1. ContextType'
  BY DEF ContextInv, DecryptReturns, ContextType, Index, Count, Counter
<1>2. whole => output = padded
  <2>1. SUFFICES ASSUME whole PROVE output = padded
    OBVIOUS
  <2>2. /\ output \in [Index -> Block] /\ \A j \in Index : output[j] = padded[j]
        /\ padded \in Seq(Block)
    BY <2>1 DEF ContextInv, ContextType, DecryptReturns, Decrypting, Working
  <2>3. padded \in [Index -> Block]
    BY <2>2 DEF Index, Count
  <2> QED BY <2>2, <2>3
<1> QED BY <1>1, <1>2 DEF DecryptReturns, ContextInv, ModesRoundTrip

-----------------------------------------------------------------------------
(* The theorem.                                                            *)

\* Every step keeps it.
LEMMA ContextInductive == ContextInv /\ [ContextNext]_contextVars => ContextInv'
<1> SUFFICES ASSUME ContextInv, [ContextNext]_contextVars
             PROVE  ContextInv'
  OBVIOUS
<1>1. ASSUME NEW m \in Mode, NEW p \in Padding, NEW d \in Data, NEW last \in LastBlock(p, d.tail),
             NEW r \in (IF m = "RandomDelta" THEN Block ELSE {IV}), Encrypt(m, p, d, last, r)
      PROVE  ContextInv'
  <2>1. r \in Block
    BY IVType
  <2> QED BY <1>1, <2>1, EncryptKeeps
<1>2. ASSUME NEW k \in todo, EncryptBlock(k) PROVE ContextInv'
  BY <1>2, EncryptBlockKeeps
<1>3. ASSUME NEW k \in todo, DecryptBlock(k) PROVE ContextInv'
  BY <1>3, DecryptBlockKeeps
<1>4. CASE EncryptReturns
  BY <1>4, EncryptReturnsKeeps
<1>5. CASE Decrypt
  BY <1>5, DecryptKeeps
<1>6. CASE DecryptReturns
  BY <1>6, DecryptReturnsKeeps
<1>7. ASSUME NEW c, DecryptChunk(c) PROVE ContextInv'
  BY <1>7, DecryptChunkKeeps
<1>8. ASSUME NEW d \in Data, EncryptRefuses(d) PROVE ContextInv'
  BY <1>8 DEF EncryptRefuses, ContextInv, ContextType, ModesRoundTrip
<1>9. CASE UNCHANGED contextVars
  <2>1. /\ Index' = Index /\ \A i : Counter(i)' = Counter(i)
        /\ \A f, i, x : Encrypted(f, i, x)' = Encrypted(f, i, x)
        /\ \A f, x, z : AfterEncrypting(f, x, z)' = AfterEncrypting(f, x, z)
    BY <1>9, SameOperators DEF contextVars, Index, Count, Counter
  <2>2. ContextType'
    BY <1>9, <2>1 DEF contextVars, ContextInv, ContextType
  <2>3. \A c, k : /\ Made(c, k)' = Made(c, k)
                 /\ Linked(c, k)' = Linked(c, k)
                 /\ Carried(c, k)' = Carried(c, k)
    BY <1>9, <2>1 DEF contextVars, Made, Linked, Carried
  <2> QED BY <1>9, <2>1, <2>2, <2>3
          DEF contextVars, ContextInv, ModesRoundTrip, Encrypting, Decrypting, Ciphertext, Working,
              InOrder, Ready
<1> QED BY <1>1, <1>2, <1>3, <1>4, <1>5, <1>6, <1>7, <1>8, <1>9 DEF ContextNext

\* Whatever the mode, the block cipher, the IV and the data are and whichever
\* goroutine ends first: when Decrypt was given all that Encrypt returned, the
\* blocks it makes of it, before the padding is taken off, are the ones
\* Encrypt started from (symmetric.go:310-765).
THEOREM ContextBlocksComeBack == ContextSpec => []ModesRoundTrip
<1>1. ContextInv => ModesRoundTrip
  BY DEF ContextInv
<1> QED BY <1>1, ContextInitially, ContextInductive, PTL DEF ContextSpec

-----------------------------------------------------------------------------
(* Numbers and sequences.                                                  *)

\* Multiples of M are M apart.
LEMMA Product ==
    ASSUME NEW M \in Nat \ {0}, NEW a \in Int, NEW b \in Int, a < b
    PROVE  M * a + M <= M * b /\ M * a \in Int /\ M * b \in Int
<1>1. M * (b - a) >= M
  OBVIOUS
<1>2. M * (b - a) = M * b - M * a
  OBVIOUS
<1> QED BY <1>1, <1>2

\* The quotient and the rest of a number.
LEMMA Divided ==
    ASSUME NEW M \in Nat \ {0}, NEW q \in Nat, NEW r \in 0..(M - 1)
    PROVE  (M * q + r) \div M = q /\ (M * q + r) % M = r
<1> DEFINE x == M * q + r
           d == x \div M
           m == x % M
<1>1. M * q \in Int /\ x \in Int
  OBVIOUS
<1>2. d \in Int /\ m \in 0..(M - 1) /\ x = M * d + m
  BY <1>1
<1> HIDE DEF d, m
<1>3. ~ d < q
  BY <1>2, Product
<1>4. ~ q < d
  BY <1>2, Product
<1> QED BY <1>2, <1>3, <1>4 DEF d, m

\* A place in `size` blocks of M is a block and a place in it.
LEMMA Place ==
    ASSUME NEW M \in Nat \ {0}, NEW size \in Nat, NEW i \in 0..(M * size - 1)
    PROVE  \E q \in 0..(size - 1), r \in 0..(M - 1) : i = M * q + r
<1> DEFINE d == i \div M
           m == i % M
<1>1. M * size \in Int
  OBVIOUS
<1>2. d \in Int /\ m \in 0..(M - 1) /\ i = M * d + m /\ i \in Nat
  BY <1>1
<1> HIDE DEF d, m
<1>3. ~ d < 0
  <2>1. M * 0 = 0
    OBVIOUS
  <2> QED BY <1>2, <2>1, Product
<1>4. ~ size < d
  BY <1>1, <1>2, Product
<1>5. size # d
  BY <1>1, <1>2
<1> QED BY <1>2, <1>3, <1>4, <1>5

Below == {pair \in Nat \X Nat : pair[1] < pair[2]}

\* A set of numbers that is not empty has a least one.
LEMMA LeastNumber ==
    ASSUME NEW S \in SUBSET Nat, S # {}
    PROVE  \E k \in S : \A j \in S : ~ (j < k)
<1>1. IsWellFoundedOn(Below, Nat)
  BY NatLessThanWellFounded, Zenon DEF OpToRel, Below
<1>2. \E k \in S : \A j \in S : <<j, k>> \notin Below
  BY <1>1, WFMin
<1> QED BY <1>2 DEF Below

\* Sequences that begin alike have the same prefixes.
LEMMA SamePrefix ==
    ASSUME NEW s \in Seq(Byte), NEW plain \in Seq(Byte), Len(plain) <= Len(s),
           \A i \in 1..Len(plain) : s[i] = plain[i], NEW size \in 0..Len(plain)
    PROVE  SubSeq(s, 1, size) = SubSeq(plain, 1, size)
<1>1. Len(s) \in Nat /\ Len(plain) \in Nat
  BY LenProperties
<1>2. size \in Nat /\ size <= Len(s) /\ 1 - 1 = 0 /\ size + 1 - 1 = size
  BY <1>1
<1>3. /\ SubSeq(s, 1, size) = [i \in 1..size |-> s[i]]
      /\ SubSeq(plain, 1, size) = [i \in 1..size |-> plain[i]]
  BY <1>1, <1>2
<1> QED BY <1>1, <1>3

-----------------------------------------------------------------------------
(* The bytes of blocks.                                                    *)

\* They are bytes, N of them for each block.
LEMMA BytesOfBlocks ==
    ASSUME NEW b \in Seq(Block)
    PROVE  /\ N * Len(b) \in Nat
           /\ Bytes(b) \in Seq(Byte) /\ Len(Bytes(b)) = N * Len(b)
           /\ \A q \in 0..(Len(b) - 1), r \in 0..(N - 1) :
                 N * q + r + 1 \in 1..(N * Len(b)) /\ Bytes(b)[N * q + r + 1] = b[q + 1][r + 1]
<1>1. Len(b) \in Nat /\ N \in Nat \ {0} /\ b \in [1..Len(b) -> Block]
  BY SizesType, LenProperties
<1>2. N * Len(b) \in Nat
  BY <1>1
<1>3. ASSUME NEW q \in 0..(Len(b) - 1), NEW r \in 0..(N - 1)
      PROVE  N * q + r + 1 \in 1..(N * Len(b)) /\ Bytes(b)[N * q + r + 1] = b[q + 1][r + 1]
  <2>1. q \in Nat /\ r \in Nat /\ N * q \in Nat /\ N * q + N <= N * Len(b)
    BY <1>1, Product
  <2>2. N * q + r + 1 \in 1..(N * Len(b)) /\ N * q + r + 1 - 1 = N * q + r
    BY <1>1, <1>2, <2>1
  <2>3. (N * q + r) \div N = q /\ (N * q + r) % N = r
    BY <1>1, <2>1, Divided
  <2>4. PICK i : i = N * q + r + 1
    OBVIOUS
  <2>5. i \in 1..(N * Len(b)) /\ i - 1 = N * q + r
    BY <1>2, <2>1, <2>2, <2>4
  <2>6. Bytes(b)[i] = b[1 + ((i - 1) \div N)][1 + ((i - 1) % N)]
    BY <2>5 DEF Bytes
  <2>7. Bytes(b)[i] = b[1 + q][1 + r]
    BY <2>3, <2>5, <2>6
  <2>8. 1 + q = q + 1 /\ 1 + r = r + 1
    BY <2>1
  <2> QED BY <2>4, <2>5, <2>7, <2>8
<1>4. ASSUME NEW i \in 1..(N * Len(b)) PROVE Bytes(b)[i] \in Byte
  <2>1. i - 1 \in 0..(N * Len(b) - 1)
    BY <1>2
  <2>2. PICK q \in 0..(Len(b) - 1), r \in 0..(N - 1) : i - 1 = N * q + r
    BY <1>1, <2>1, Place
  <2>3. N * q + r + 1 = i
    <3>1. N * q \in Int /\ i \in Int /\ r \in Int
      BY <1>1, <1>2
    <3> QED BY <2>2, <3>1
  <2>4. q + 1 \in 1..Len(b) /\ r + 1 \in 1..N
    BY <1>1
  <2>5. b[q + 1][r + 1] \in Byte
    BY <1>1, <2>4 DEF Block
  <2> QED BY <1>3, <2>3, <2>5
<1>5. Bytes(b) \in [1..(N * Len(b)) -> Byte]
  BY <1>4 DEF Bytes
<1> QED BY <1>2, <1>3, <1>5, IsASeq

\* s is plain with length bytes of padding behind it.
PaddedTo(p, s, plain, length) ==
    /\ s \in Seq(Byte) /\ plain \in Seq(Byte)
    /\ length \in 1..N /\ Len(plain) \in Nat /\ Len(s) = Len(plain) + length
    /\ \A i \in 1..Len(plain) : s[i] = plain[i]
    /\ \A i \in 1..length : s[Len(plain) + i] \in Filler(p, length, N - length + i)

\* What Encrypt is given, with the bytes of its padding behind it.
LEMMA PaddedBytes ==
    ASSUME NEW p \in Padding, NEW d \in Data, NEW last \in LastBlock(p, d.tail),
           NEW s, s = Bytes(Append(d.blocks, last)),
           NEW plain, plain = Bytes(d.blocks) \o d.tail,
           NEW length, length = N - Len(d.tail)
    PROVE  PaddedTo(p, s, plain, length)
<1>1. PICK b, size, t : b = d.blocks /\ size = Len(b) /\ t = Len(d.tail)
  OBVIOUS
<1>2. b \in Seq(Block) /\ d.tail \in Seq(Byte)
  BY <1>1, DataType
<1>3. t \in Nat /\ t < N /\ size \in Nat /\ N \in Nat \ {0}
  BY <1>1, <1>2, DataType, SizesType, LenProperties
<1>4. last \in Block /\ \A i \in 1..N :
         IF i <= t THEN last[i] = d.tail[i] ELSE last[i] \in Filler(p, N - t, i)
  BY <1>1 DEF LastBlock
<1>5. /\ Append(b, last) \in Seq(Block) /\ Len(Append(b, last)) = size + 1
      /\ Append(b, last)[size + 1] = last /\ \A q \in 1..size : Append(b, last)[q] = b[q]
  BY <1>1, <1>2, <1>3, <1>4, AppendProperties
<1>6. PICK full : full = N * size
  OBVIOUS
<1>7. full \in Nat
  BY <1>3, <1>6
<1>8. /\ Bytes(b) \in Seq(Byte) /\ Len(Bytes(b)) = full
      /\ \A q \in 0..(size - 1), r \in 0..(N - 1) : Bytes(b)[N * q + r + 1] = b[q + 1][r + 1]
  BY <1>1, <1>2, <1>6, BytesOfBlocks
<1>9. /\ s \in Seq(Byte) /\ Len(s) = full + N
      /\ \A q \in 0..size, r \in 0..(N - 1) : s[N * q + r + 1] = Append(b, last)[q + 1][r + 1]
  <2>1. PICK a : a = Append(b, last)
    OBVIOUS
  <2>2. a \in Seq(Block) /\ Len(a) = size + 1 /\ s = Bytes(a)
    BY <1>1, <1>5, <2>1
  <2>3. /\ s \in Seq(Byte) /\ Len(s) = N * Len(a)
        /\ \A q \in 0..(Len(a) - 1), r \in 0..(N - 1) : s[N * q + r + 1] = a[q + 1][r + 1]
    BY <2>2, BytesOfBlocks
  <2>4. Len(a) - 1 = size
    BY <1>3, <2>2
  <2>5. N * Len(a) = full + N
    BY <1>3, <1>6, <2>2
  <2> QED BY <2>1, <2>3, <2>4, <2>5
<1>10. /\ plain \in Seq(Byte) /\ Len(plain) = full + t
       /\ \A i \in 1..full : plain[i] = Bytes(b)[i]
       /\ \A i \in 1..t : plain[full + i] = d.tail[i]
  <2>1. /\ plain \in Seq(Byte) /\ Len(plain) = full + t
        /\ \A i \in 1..(full + t) : plain[i] = IF i <= full THEN Bytes(b)[i] ELSE d.tail[i - full]
    <3>1. PICK x, y : x = Bytes(b) /\ y = d.tail
      OBVIOUS
    <3>2. x \in Seq(Byte) /\ y \in Seq(Byte) /\ Len(x) = full /\ Len(y) = t /\ plain = x \o y
      BY <1>1, <1>2, <1>8, <3>1
    <3>3. /\ plain \in Seq(Byte) /\ Len(plain) = full + t
          /\ \A i \in 1..(full + t) : plain[i] = IF i <= full THEN x[i] ELSE y[i - full]
      <4>1. /\ x \o y \in Seq(Byte) /\ Len(x \o y) = Len(x) + Len(y)
            /\ \A i \in 1..(Len(x) + Len(y)) :
                  (x \o y)[i] = IF i <= Len(x) THEN x[i] ELSE y[i - Len(x)]
        BY <3>2, ConcatProperties, Zenon
      <4> QED BY <3>2, <4>1, Zenon
    <3> QED BY <3>1, <3>3
  <2>2. ASSUME NEW i \in 1..full PROVE i \in 1..(full + t) /\ i <= full
    BY <1>3, <1>7
  <2>3. ASSUME NEW i \in 1..t PROVE plain[full + i] = d.tail[i]
    <3>1. PICK j : j = full + i
      OBVIOUS
    <3>2. j \in 1..(full + t) /\ ~ (j <= full) /\ j - full = i
      BY <1>3, <1>7, <3>1
    <3> QED BY <2>1, <3>1, <3>2
  <2> QED BY <2>1, <2>2, <2>3
<1>11. ASSUME NEW i \in 1..full PROVE s[i] = Bytes(b)[i]
  <2>1. i - 1 \in 0..(N * size - 1) /\ i \in Nat
    BY <1>7, <1>6
  <2>2. PICK q \in 0..(size - 1), r \in 0..(N - 1) : i - 1 = N * q + r
    BY <1>3, <2>1, Place
  <2>3. N * q + r + 1 = i
    <3>1. N * q \in Int /\ r \in Int
      BY <1>3
    <3> QED BY <2>1, <2>2, <3>1
  <2>4. q \in 0..size /\ q + 1 \in 1..size
    BY <1>3
  <2>5. s[N * q + r + 1] = Append(b, last)[q + 1][r + 1]
    BY <1>9, <2>4
  <2>6. Bytes(b)[N * q + r + 1] = b[q + 1][r + 1]
    BY <1>8
  <2> QED BY <1>5, <2>3, <2>4, <2>5, <2>6
<1>12. ASSUME NEW i \in 1..N PROVE s[full + i] = last[i]
  <2>1. i - 1 \in 0..(N - 1) /\ size \in 0..size
    BY <1>3
  <2>2. s[N * size + (i - 1) + 1] = Append(b, last)[size + 1][i - 1 + 1]
    BY <1>9, <2>1
  <2>3. N * size + (i - 1) + 1 = full + i /\ i - 1 + 1 = i
    BY <1>3, <1>7, <1>6
  <2> QED BY <1>5, <2>2, <2>3
<1>13. length \in 1..N /\ length = N - t /\ Len(plain) \in Nat /\ Len(s) = Len(plain) + length
  <2>1. length = N - t
    BY <1>1
  <2>2. length \in 1..N /\ full + t \in Nat /\ full + t + length = full + N
    <3>1. full \in Nat /\ t \in Nat /\ N \in Nat /\ t < N
      BY <1>3, <1>7
    <3>2. length \in 1..N
      BY <2>1, <3>1
    <3>3. full + t \in Nat
      BY <3>1
    <3>4. full + t + (N - t) = full + N
      BY <3>1
    <3> QED BY <2>1, <3>2, <3>3, <3>4
  <2> QED BY <1>9, <1>10, <2>1, <2>2
<1>14. ASSUME NEW i \in 1..Len(plain) PROVE s[i] = plain[i]
  <2>1. CASE i \in 1..full
    BY <1>10, <1>11, <2>1
  <2>2. CASE i \notin 1..full
    <3>1. PICK j : j = i - full
      OBVIOUS
    <3>2. j \in 1..t /\ j \in 1..N /\ full + j = i /\ j <= t
      BY <1>3, <1>7, <1>10, <2>2, <3>1
    <3> QED BY <1>4, <1>10, <1>12, <3>2
  <2> QED BY <2>1, <2>2
<1>15. ASSUME NEW i \in 1..length PROVE s[Len(plain) + i] \in Filler(p, length, N - length + i)
  <2>1. PICK j : j = t + i
    OBVIOUS
  <2>2. /\ j \in 1..N /\ ~ (j <= t) /\ Len(plain) + i = full + j
        /\ N - length + i = j
    <3>1. full \in Nat /\ t \in Nat /\ N \in Nat /\ t < N /\ length = N - t
      BY <1>3, <1>7, <1>13
    <3>2. j \in 1..N /\ ~ (j <= t) /\ N - length + i = j
      BY <2>1, <3>1
    <3>3. full + t + i = full + j
      BY <2>1, <3>1
    <3>4. Len(plain) + i = full + t + i
      BY <1>10
    <3> QED BY <3>2, <3>3, <3>4
  <2> QED BY <1>4, <1>12, <1>13, <2>2
<1> QED BY <1>9, <1>10, <1>13, <1>14, <1>15 DEF PaddedTo

-----------------------------------------------------------------------------
(* The padding.                                                            *)

\* Byte i of s is the last that is not zero, or there is none and i is 0.
LastNonzero(s, i) == (\A j \in (i + 1)..Len(s) : s[j] = 0) /\ (i = 0 \/ s[i] # 0)

\* There is one such byte.
LEMMA OneLastNonzero ==
    ASSUME NEW s \in Seq(Byte)
    PROVE  /\ \E i \in 0..Len(s) : LastNonzero(s, i)
           /\ \A i, j \in 0..Len(s) : LastNonzero(s, i) /\ LastNonzero(s, j) => i = j
<1>1. Len(s) \in Nat
  BY LenProperties
<1>2. ASSUME NEW i \in 0..Len(s), NEW j \in 0..Len(s), LastNonzero(s, i), LastNonzero(s, j), i < j
      PROVE  FALSE
  BY <1>1, <1>2 DEF LastNonzero
<1>3. \E i \in 0..Len(s) : LastNonzero(s, i)
  <2> DEFINE T == {k \in 0..Len(s) : k = Len(s) \/ s[Len(s) - k] # 0}
  <2>1. T \in SUBSET Nat /\ Len(s) \in T
    BY <1>1
  <2>2. PICK k \in T : \A j \in T : ~ (j < k)
    BY <2>1, LeastNumber
  <2>3. PICK i : i = Len(s) - k
    OBVIOUS
  <2>4. i \in 0..Len(s) /\ (i = 0 \/ s[i] # 0)
    BY <1>1, <2>3
  <2>5. ASSUME NEW j \in (i + 1)..Len(s) PROVE s[j] = 0
    <3>1. PICK m : m = Len(s) - j
      OBVIOUS
    <3>2. m \in 0..Len(s) /\ m < k /\ Len(s) - m = j
      BY <1>1, <2>3, <3>1
    <3>3. m \notin T
      BY <2>2, <3>2
    <3> QED BY <3>2, <3>3
  <2> QED BY <2>4, <2>5 DEF LastNonzero
<1>4. ASSUME NEW i \in 0..Len(s), NEW j \in 0..Len(s), LastNonzero(s, i), LastNonzero(s, j)
      PROVE  i = j
  <2>1. ~ (i < j) /\ ~ (j < i)
    BY <1>2, <1>4
  <2> QED BY <1>1, <2>1
<1> QED BY <1>3, <1>4

\* Zeros behind a sequence make no difference to what is left of it.
LEMMA ZerosTrimmed ==
    ASSUME NEW s \in Seq(Byte), NEW plain \in Seq(Byte), Len(plain) <= Len(s),
           \A i \in 1..Len(plain) : s[i] = plain[i],
           \A i \in (Len(plain) + 1)..Len(s) : s[i] = 0
    PROVE  TrimRight(s) = TrimRight(plain)
<1>1. Len(s) \in Nat /\ Len(plain) \in Nat
  BY LenProperties
<1>2. ASSUME NEW x \in Seq(Byte)
      PROVE  \E i \in 0..Len(x) : LastNonzero(x, i) /\ TrimRight(x) = SubSeq(x, 1, i)
  <2>1. TrimRight(x) = SubSeq(x, 1, CHOOSE i \in 0..Len(x) : LastNonzero(x, i))
    BY DEF TrimRight, LastNonzero
  <2> QED BY <2>1, OneLastNonzero
<1>3. PICK i \in 0..Len(plain) : LastNonzero(plain, i) /\ TrimRight(plain) = SubSeq(plain, 1, i)
  BY <1>2
<1>4. PICK j \in 0..Len(s) : LastNonzero(s, j) /\ TrimRight(s) = SubSeq(s, 1, j)
  BY <1>2
<1>5. LastNonzero(s, i) /\ i \in 0..Len(s)
  <2>1. i \in 0..Len(s)
    BY <1>1
  <2>2. i = 0 \/ s[i] # 0
    BY <1>1, <1>3 DEF LastNonzero
  <2>3. ASSUME NEW k \in (i + 1)..Len(s) PROVE s[k] = 0
    <3>1. k \in (i + 1)..Len(plain) \/ k \in (Len(plain) + 1)..Len(s)
      BY <1>1
    <3>2. k \in (i + 1)..Len(plain) => k \in 1..Len(plain)
      BY <1>1
    <3> QED BY <1>3, <3>1, <3>2 DEF LastNonzero
  <2> QED BY <2>1, <2>2, <2>3 DEF LastNonzero
<1>6. j = i
  BY <1>4, <1>5, OneLastNonzero
<1>7. SubSeq(s, 1, i) = SubSeq(plain, 1, i)
  BY <1>1, SamePrefix
<1> QED BY <1>3, <1>4, <1>6, <1>7



\* What is padded is returned.
LEMMA PaddingOff ==
    ASSUME NEW p \in Padding, NEW s, NEW plain, NEW length, PaddedTo(p, s, plain, length)
    PROVE  RemovePadding(p, s) = Returned(IF p = "Zeros" THEN TrimRight(plain) ELSE plain)
<1>1. /\ s \in Seq(Byte) /\ plain \in Seq(Byte)
      /\ length \in 1..N /\ Len(plain) \in Nat /\ Len(s) = Len(plain) + length
      /\ \A i \in 1..Len(plain) : s[i] = plain[i]
      /\ \A i \in 1..length : s[Len(plain) + i] \in Filler(p, length, N - length + i)
  BY DEF PaddedTo
<1>2. N \in Nat /\ length \in Nat \ {0} /\ length <= N
  BY <1>1, SizesType
<1>3. PICK full : full = Len(plain)
  OBVIOUS
<1>4. full \in Nat /\ Len(s) = full + length /\ length <= Len(s) /\ Len(s) - length = full
      /\ Len(plain) <= Len(s) /\ Len(s) # 0
  <2>1. full \in Nat /\ Len(s) = full + length
    BY <1>1, <1>3, Zenon
  <2>2. PICK m : m = full + length
    OBVIOUS
  <2>3. length <= Len(s) /\ Len(s) - length = full /\ full <= Len(s) /\ Len(s) # 0
    <3>1. length <= m /\ m - length = full /\ full <= m /\ m # 0
      BY <1>2, <2>1, <2>2
    <3>2. Len(s) = m
      BY <2>1, <2>2
    <3> QED BY <3>1, <3>2
  <2>4. Len(plain) <= Len(s)
    BY <1>3, <2>3
  <2> QED BY <2>1, <2>3, <2>4
<1>5. s # <<>>
  BY <1>4
<1>6. SubSeq(s, 1, full) = plain
  <2>1. full \in 0..Len(plain)
    <3>1. full \in 0..full
      BY <1>4
    <3> QED BY <1>3, <3>1
  <2>2. SubSeq(s, 1, full) = SubSeq(plain, 1, full)
    BY <1>1, <1>4, <2>1, SamePrefix
  <2> QED BY <1>1, <1>3, <2>2, SubSeqFull
<1>7. CASE p = "Zeros"
  <2>1. ASSUME NEW i \in (Len(plain) + 1)..Len(s) PROVE s[i] = 0
    <3>1. PICK j : j = i - full
      OBVIOUS
    <3>2. j \in 1..length /\ full + j = i
      <4>1. i \in (full + 1)..(full + length)
        BY <1>3, <1>4
      <4>2. full \in Nat /\ length \in Nat
        BY <1>2, <1>4
      <4> QED BY <3>1, <4>1, <4>2
    <3>3. s[full + j] \in Filler(p, length, N - length + j)
      BY <1>1, <1>3, <3>2
    <3> QED BY <1>7, <3>2, <3>3 DEF Filler
  <2>2. TrimRight(s) = TrimRight(plain)
    BY <1>1, <1>4, <2>1, ZerosTrimmed
  <2> QED BY <1>7, <2>2 DEF RemovePadding
<1>8. CASE p # "Zeros"
  <2>1. s[Len(s)] = length
    <3>1. length \in 1..length /\ N - length + length = N
      BY <1>2
    <3>2. s[full + length] \in Filler(p, length, N)
      BY <1>1, <1>3, <3>1
    <3> QED BY <1>4, <1>8, <3>2 DEF Filler, Padding
  <2>2. PICK rest : rest = Returned(SubSeq(s, 1, Len(s) - s[Len(s)]))
    OBVIOUS
  <2>3. rest = Returned(plain)
    BY <1>4, <1>6, <2>1, <2>2
  <2>4. length # 0 /\ ~ (length > Len(s))
    BY <1>2, <1>4
  <2>5. CASE p = "PKCS7"
    <3>1. ASSUME NEW i \in 1..length PROVE s[Len(s) + 1 - i] = length
      <4>1. PICK j : j = length + 1 - i
        OBVIOUS
      <4>2. j \in 1..length /\ full + j = Len(s) + 1 - i
        BY <1>2, <1>4, <4>1
      <4>3. s[full + j] \in Filler(p, length, N - length + j)
        BY <1>1, <1>3, <4>2
      <4> QED BY <2>5, <4>2, <4>3 DEF Filler
    <3> QED BY <1>5, <2>1, <2>2, <2>3, <2>4, <2>5, <3>1 DEF RemovePadding
  <2>6. CASE p = "ANSIX923"
    BY <1>5, <2>1, <2>2, <2>3, <2>4, <2>6 DEF RemovePadding
  <2>7. CASE p = "ISO10126"
    BY <1>5, <2>1, <2>2, <2>3, <2>4, <2>7 DEF RemovePadding
  <2> QED BY <1>8, <2>5, <2>6, <2>7 DEF Padding
<1> QED BY <1>7, <1>8

\* So what Encrypt is given is returned of its blocks.
LEMMA PaddingComesOff ==
    ASSUME NEW p \in Padding, NEW d \in Data, NEW last \in LastBlock(p, d.tail),
           NEW plain, plain = Bytes(d.blocks) \o d.tail
    PROVE  RemovePadding(p, Bytes(Append(d.blocks, last))) =
              Returned(IF p = "Zeros" THEN TrimRight(plain) ELSE plain)
<1>1. PICK s, length : s = Bytes(Append(d.blocks, last)) /\ length = N - Len(d.tail)
  OBVIOUS
<1>2. PaddedTo(p, s, plain, length)
  BY <1>1, PaddedBytes
<1> QED BY <1>1, <1>2, PaddingOff

\* Decrypt panics over no blocks at all, under ANSIX923.
LEMMA PanicsOnNothing ==
    ASSUME NEW p \in Padding, NEW b \in Seq(Block), RemovePadding(p, Bytes(b)).kind = "panic"
    PROVE  p = "ANSIX923" /\ b = <<>>
<1>1. PICK s : s = Bytes(b)
  OBVIOUS
<1>2. p = "ANSIX923" /\ s = <<>>
  BY <1>1 DEF RemovePadding, Returned, Refused, Padding
<1>3. Len(b) \in Nat /\ N \in Nat \ {0}
  BY SizesType, LenProperties
<1>4. N * Len(b) = 0
  <2>1. Len(s) = N * Len(b)
    BY <1>1, BytesOfBlocks, Zenon
  <2>2. Len(s) = 0
    BY <1>2, EmptySeq
  <2> QED BY <2>1, <2>2
<1>5. ~ (0 < Len(b))
  <2>1. N * 0 = 0
    BY <1>3
  <2> QED BY <1>3, <1>4, <2>1, Product
<1> QED BY <1>2, <1>3, <1>5, EmptySeq

-----------------------------------------------------------------------------
(* What Decrypt returns.                                                   *)

\* The blocks are those of the data, and one with the padding.
PaddedData ==
    phase \notin {"new", "refused"} =>
        /\ padding \in Padding /\ data \in Data
        /\ \E last \in LastBlock(padding, data.tail) : padded = Append(data.blocks, last)

\* A chunk has a block at least, and RandomDelta takes it off.
PartOfIt ==
    phase \in {"decrypting", "decrypted"} /\ ~whole =>
        /\ output \in Seq(Block)
        /\ mode # "RandomDelta" => Len(output) \in 1..Count
        /\ phase = "decrypting" =>
              /\ input \in [1..Len(output) -> Block] /\ todo \subseteq 1..Len(output)
              /\ feedback \in Block /\ delta \in Block

ReturnedOf == phase = "decrypted" => result = RemovePadding(padding, Bytes(output))

ReturnInv == PaddedData /\ PartOfIt /\ ReturnedOf

\* At first nothing is returned.
LEMMA ReturnInitially == ContextInit => ReturnInv
BY DEF ContextInit, ReturnInv, PaddedData, PartOfIt, ReturnedOf

\* Decrypting with what is at hand makes blocks.
LEMMA DecryptedBlock ==
    ASSUME mode \in Mode, NEW f \in Block, NEW y \in Block, NEW k,
           mode = "RandomDelta" => delta \in Block, mode = "CTR" => Counter(k) \in Block
    PROVE  Decrypted(f, k, y) \in Block
<1>1. CASE mode = "ECB"
  BY <1>1, CipherLaw DEF Decrypted
<1>2. CASE mode \in {"CBC", "PCBC"}
  <2>1. Dec[y] \in Block
    BY CipherLaw
  <2> QED BY <1>2, <2>1, XorBlocks DEF Decrypted
<1>3. CASE mode \in {"CFB", "OFB"}
  <2>1. Enc[f] \in Block
    BY CipherLaw
  <2> QED BY <1>3, <2>1, XorBlocks DEF Decrypted
<1>4. CASE mode = "CTR"
  <2>1. Enc[Counter(k)] \in Block
    BY <1>4, CipherLaw
  <2> QED BY <1>4, <2>1, XorBlocks DEF Decrypted
<1>5. CASE mode = "RandomDelta"
  <2>1. SubBlock(y, delta) \in Block
    <3>1. \A i \in 1..N : y[i] \in Byte /\ delta[i] \in Byte
      BY <1>5 DEF Block
    <3>2. ASSUME NEW a \in Byte, NEW b \in Byte PROVE SubByte(a, b) \in Byte
      BY SizesType DEF Byte, SubByte
    <3> QED BY <3>1, <3>2 DEF SubBlock, Block
  <2> QED BY <1>5, <2>1 DEF Decrypted
<1> QED BY <1>1, <1>2, <1>3, <1>4, <1>5 DEF Mode

\* The first and the last block of a chunk that begins after x blocks.
LEMMA ChunkBounds ==
    ASSUME NEW x \in Nat, NEW M \in Nat \ {0}, NEW size \in Nat,
           NEW first, first = x + 1, first <= size,
           NEW last, last = IF x + M < size THEN x + M ELSE size
    PROVE  /\ first \in Int /\ last \in Int /\ 1 <= first /\ last <= size
           /\ first <= last /\ last - first + 1 \in 1..size /\ first..last \subseteq 1..size
OBVIOUS

\* A chunk has between one and all of the blocks that are sent.
LEMMA ChunkOfIt ==
    ASSUME NEW sent \in Seq(Block), NEW c \in Nat \ {0},
           NEW first, first = (c - 1) * ChunkBlocks + 1, first <= Len(sent),
           NEW last, last = IF c * ChunkBlocks < Len(sent) THEN c * ChunkBlocks ELSE Len(sent)
    PROVE  /\ SubSeq(sent, first, last) \in Seq(Block)
           /\ Len(SubSeq(sent, first, last)) \in 1..Len(sent)
<1>1. Len(sent) \in Nat /\ ChunkBlocks \in Nat \ {0} /\ sent \in [1..Len(sent) -> Block]
  BY ChunkType, LenProperties
<1>2. PICK x, y : x = (c - 1) * ChunkBlocks /\ y = c * ChunkBlocks
  OBVIOUS
<1>3. x \in Nat /\ y = x + ChunkBlocks
  <2>1. ASSUME NEW M \in Nat \ {0}, NEW k \in Nat PROVE k * M \in Nat /\ (k + 1) * M = k * M + M
    OBVIOUS
  <2>2. PICK k : k = c - 1
    OBVIOUS
  <2>3. k \in Nat /\ c = k + 1
    BY <2>2
  <2> QED BY <1>1, <1>2, <2>1, <2>2, <2>3
<1>4. /\ first \in Int /\ last \in Int /\ 1 <= first /\ first <= last /\ last <= Len(sent)
      /\ last - first + 1 \in 1..Len(sent) /\ first..last \subseteq 1..Len(sent)
  <2>1. first = x + 1 /\ last = IF x + ChunkBlocks < Len(sent) THEN x + ChunkBlocks ELSE Len(sent)
    BY <1>2, <1>3
  <2> QED BY <1>1, <1>3, <2>1, ChunkBounds
<1>5. ASSUME NEW i \in first..last PROVE sent[i] \in Block
  <2>1. i \in 1..Len(sent)
    BY <1>4, Zenon
  <2> QED BY <1>1, <2>1
<1> QED BY <1>4, <1>5, SubSeqProperties

\* A chunk is blocks, one of them at least before RandomDelta takes its delta.
LEMMA DecryptChunkReturn ==
    ASSUME ContextInv, ReturnInv, NEW c \in Nat \ {0}, DecryptChunk(c)
    PROVE  ReturnInv'
<1>1. /\ phase = "encrypted" /\ Ciphertext(output) /\ delta \in Block /\ padded \in Seq(Block)
      /\ ~whole' /\ phase' = "decrypting" /\ Count \in Nat
      /\ UNCHANGED <<mode, padding, data, padded, result>>
  BY LenProperties DEF DecryptChunk, Start, ContextInv, ContextType, Count
<1>2. output \in Seq(Block) /\ Len(output) = Count
  BY <1>1, IsASeq DEF Ciphertext, Index
<1>3. PICK sent : sent = IF mode = "RandomDelta" THEN <<delta>> \o output ELSE output
  OBVIOUS
<1>4. sent \in Seq(Block) /\ (mode # "RandomDelta" => Len(sent) = Count)
  <2>1. <<delta>> \o output \in Seq(Block)
    BY <1>1, <1>2, ConcatProperties
  <2> QED BY <1>2, <1>3, <2>1
<1>5. PICK first, last : /\ first = (c - 1) * ChunkBlocks + 1
                         /\ last = IF c * ChunkBlocks < Len(sent) THEN c * ChunkBlocks
                                                                  ELSE Len(sent)
  OBVIOUS
<1>6. PICK chunk : chunk = SubSeq(sent, first, last)
  OBVIOUS
<1>7. /\ first <= Len(sent)
      /\ IF mode = "RandomDelta" THEN delta' = chunk[1] /\ Start(Tail(chunk))
                                 ELSE UNCHANGED delta /\ Start(chunk)
  BY <1>3, <1>5, <1>6 DEF DecryptChunk
<1>8. chunk \in Seq(Block) /\ Len(chunk) \in 1..Len(sent)
  BY <1>4, <1>5, <1>6, <1>7, ChunkOfIt
<1>9. PICK blocks \in Seq(Block) : /\ Start(blocks) /\ delta' \in Block
                                   /\ mode # "RandomDelta" => Len(blocks) \in 1..Count
  <2>1. CASE mode = "RandomDelta"
    <3>1. Len(chunk) \in Nat /\ chunk # <<>> /\ 1 \in 1..Len(chunk)
      <4>1. Len(sent) \in Nat
        BY <1>4, LenProperties
      <4> QED BY <1>8, <4>1, EmptySeq
    <3>2. chunk[1] \in Block /\ Tail(chunk) \in Seq(Block)
      BY <1>8, <3>1, ElementOfSeq, HeadTailProperties
    <3> QED BY <1>7, <2>1, <3>2
  <2>2. CASE mode # "RandomDelta"
    BY <1>1, <1>4, <1>7, <1>8, <2>2
  <2> QED BY <2>1, <2>2
<1>10. DOMAIN blocks = 1..Len(blocks) /\ blocks \in [1..Len(blocks) -> Block] /\ Len(blocks) \in Nat
  BY LenProperties
<1>11. /\ input' = blocks /\ todo' = 1..Len(blocks) /\ feedback' = IV
       /\ output' = [k \in 1..Len(blocks) |-> IV]
  BY <1>9, <1>10 DEF Start
<1>12. output' \in Seq(Block) /\ Len(output') = Len(blocks)
  <2>1. output' \in [1..Len(blocks) -> Block]
    BY <1>11, IVType
  <2> QED BY <1>10, <2>1, IsASeq
<1>13. PartOfIt'
  BY <1>1, <1>9, <1>10, <1>11, <1>12, IVType DEF PartOfIt, Count
<1>14. PaddedData' /\ ReturnedOf'
  BY <1>1 DEF ReturnInv, PaddedData, ReturnedOf
<1> QED BY <1>13, <1>14 DEF ReturnInv

\* Every block of a chunk is decrypted to a block.
LEMMA DecryptBlockReturn ==
    ASSUME ContextInv, ReturnInv, NEW k \in todo, DecryptBlock(k)
    PROVE  ReturnInv'
<1>1. /\ phase = "decrypting" /\ mode \in Mode /\ \A j \in Index : Counter(j) \in Block
      /\ UNCHANGED <<mode, padding, data, padded, phase, input, delta, whole, result>>
  BY DEF DecryptBlock, ContextInv, ContextType
<1>2. PaddedData' /\ ReturnedOf'
  BY <1>1 DEF ReturnInv, PaddedData, ReturnedOf
<1>3. CASE whole
  BY <1>1, <1>2, <1>3 DEF ReturnInv, PartOfIt
<1>4. CASE ~whole
  <2>1. PICK size : size = Len(output)
    OBVIOUS
  <2>2. /\ output \in [1..size -> Block] /\ size \in Nat
        /\ mode # "RandomDelta" => size \in 1..Count
        /\ input \in [1..size -> Block] /\ todo \subseteq 1..size
        /\ feedback \in Block /\ delta \in Block
    BY <1>1, <1>4, <2>1, LenProperties DEF ReturnInv, PartOfIt
  <2>3. k \in 1..size /\ input[k] \in Block
    BY <2>2
  <2>4. mode = "CTR" => Counter(k) \in Block
    <3>1. SUFFICES ASSUME mode = "CTR" PROVE k \in Index
      BY <1>1
    <3>2. size \in 1..Count
      BY <2>2, <3>1
    <3>3. Count \in Nat
      BY <1>1, LenProperties DEF ContextInv, ContextType, Count
    <3> QED BY <2>3, <3>2, <3>3 DEF Index
  <2>5. PICK x \in Block : x = Decrypted(feedback, k, input[k])
    BY <1>1, <2>2, <2>3, <2>4, DecryptedBlock
  <2>6. output' = [output EXCEPT ![k] = x] /\ todo' = todo \ {k}
        /\ feedback' = AfterDecrypting(feedback, input[k], x)
    BY <2>5 DEF DecryptBlock
  <2>7. feedback' \in Block
    BY <1>1, <2>2, <2>3, <2>6, CarriedBlock
  <2>8. output' \in [1..size -> Block]
    BY <2>2, <2>3, <2>6
  <2>9. output' \in Seq(Block) /\ Len(output') = size
    BY <2>2, <2>8, IsASeq
  <2>10. PartOfIt'
    BY <1>1, <2>2, <2>6, <2>7, <2>9 DEF PartOfIt, Count
  <2> QED BY <1>2, <2>10 DEF ReturnInv
<1> QED BY <1>3, <1>4

\* The invariant is kept by every step.
LEMMA ReturnInductive == ContextInv /\ ReturnInv /\ [ContextNext]_contextVars => ReturnInv'
<1> SUFFICES ASSUME ContextInv, ReturnInv, [ContextNext]_contextVars
             PROVE  ReturnInv'
  OBVIOUS
<1>1. ASSUME NEW m \in Mode, NEW p \in Padding, NEW d \in Data, NEW last \in LastBlock(p, d.tail),
             NEW r, Encrypt(m, p, d, last, r)
      PROVE  ReturnInv'
  BY <1>1 DEF Encrypt, ReturnInv, PaddedData, PartOfIt, ReturnedOf
<1>2. ASSUME NEW k \in todo, EncryptBlock(k) PROVE ReturnInv'
  BY <1>2 DEF EncryptBlock, ReturnInv, PaddedData, PartOfIt, ReturnedOf
<1>3. ASSUME NEW k \in todo, DecryptBlock(k) PROVE ReturnInv'
  BY <1>3, DecryptBlockReturn
<1>4. CASE EncryptReturns
  BY <1>4 DEF EncryptReturns, ReturnInv, PaddedData, PartOfIt, ReturnedOf
<1>5. CASE Decrypt
  BY <1>5 DEF Decrypt, Start, ReturnInv, PaddedData, PartOfIt, ReturnedOf
<1>6. CASE DecryptReturns
  BY <1>6 DEF DecryptReturns, ReturnInv, PaddedData, PartOfIt, ReturnedOf, Count
<1>7. ASSUME NEW c \in 1..(Len(output) + 1), DecryptChunk(c) PROVE ReturnInv'
  <2>1. c \in Nat \ {0}
    <3>1. Len(output) \in Nat
      <4>1. padded \in Seq(Block) /\ output \in [1..Len(padded) -> Block]
        BY <1>7 DEF DecryptChunk, ContextInv, ContextType, Ciphertext, Index, Count
      <4>2. Len(padded) \in Nat
        BY <4>1, LenProperties
      <4> QED BY <4>1, <4>2, IsASeq, LenProperties
    <3> QED BY <3>1
  <2> QED BY <1>7, <2>1, DecryptChunkReturn
<1>8. ASSUME NEW d \in Data, EncryptRefuses(d) PROVE ReturnInv'
  BY <1>8 DEF EncryptRefuses, ReturnInv, PaddedData, PartOfIt, ReturnedOf
<1>9. CASE UNCHANGED contextVars
  BY <1>9 DEF contextVars, ReturnInv, PaddedData, PartOfIt, ReturnedOf, Count
<1> QED BY <1>1, <1>2, <1>3, <1>4, <1>5, <1>6, <1>7, <1>8, <1>9 DEF ContextNext

\* All the blocks make the data again; a panic needs a chunk without any.
LEMMA DataReturned == ContextInv /\ ReturnInv => ContextRoundTrip
<1> SUFFICES ASSUME ContextInv, ReturnInv, phase = "decrypted"
             PROVE  LET bytes == Bytes(data.blocks) \o data.tail IN
                    /\ whole => result = Returned(IF padding = "Zeros" THEN TrimRight(bytes)
                                                                       ELSE bytes)
                    /\ result.kind = "panic" =>
                          /\ padding = "ANSIX923" /\ mode = "RandomDelta"
                          /\ ~whole /\ output = <<>>
  BY DEF ContextRoundTrip
<1>1. PICK bytes : bytes = Bytes(data.blocks) \o data.tail
  OBVIOUS
<1>2. padding \in Padding /\ data \in Data /\ result = RemovePadding(padding, Bytes(output))
  BY DEF ReturnInv, PaddedData, ReturnedOf
<1>3. PICK last \in LastBlock(padding, data.tail) : padded = Append(data.blocks, last)
  BY DEF ReturnInv, PaddedData
<1>4. CASE whole
  <2>1. output = Append(data.blocks, last)
    BY <1>3, <1>4 DEF ContextInv, ModesRoundTrip
  <2>2. result = Returned(IF padding = "Zeros" THEN TrimRight(bytes) ELSE bytes)
    BY <1>1, <1>2, <2>1, PaddingComesOff
  <2>3. result.kind # "panic"
    BY <2>2 DEF Returned
  <2> QED BY <1>1, <2>2, <2>3
<1>5. CASE ~whole
  <2>1. SUFFICES ASSUME result.kind = "panic"
                 PROVE  padding = "ANSIX923" /\ mode = "RandomDelta" /\ output = <<>>
    BY <1>5
  <2>2. output \in Seq(Block) /\ (mode # "RandomDelta" => Len(output) \in 1..Count)
    BY <1>5 DEF ReturnInv, PartOfIt
  <2>3. padding = "ANSIX923" /\ output = <<>>
    BY <1>2, <2>1, <2>2, PanicsOnNothing
  <2>4. Len(output) = 0
    BY <2>3
  <2> QED BY <2>2, <2>3, <2>4
<1> QED BY <1>4, <1>5

\* For every block size, cipher, mode, padding and data: Decrypt returns what
\* Encrypt was given and did not refuse, which it does with no data at all
\* (but without its last zeros under Zeros), and what it does
\* with a chunk of it panics only where RandomDelta leaves ANSIX923 not even a
\* byte (symmetric.go:806-878).
THEOREM ContextDataComesBack == ContextSpec => []ContextRoundTrip
<1>1. ContextInv /\ ReturnInv /\ [ContextNext]_contextVars => ContextInv' /\ ReturnInv'
  BY ContextInductive, ReturnInductive
<1> QED BY <1>1, DataReturned, ContextInitially, ReturnInitially, PTL DEF ContextSpec

-----------------------------------------------------------------------------
(* Bytes cut into blocks.                                                  *)

\* Block q of the bytes s, from 0 on.
BlockAt(s, q) == [i \in 1..N |-> s[N * q + i]]

\* p and then s are what z has behind its first k bytes.
Remains(z, k, p, s) ==
    /\ z \in Seq(Byte) /\ p \in Seq(Byte) /\ s \in Seq(Byte)
    /\ Len(z) = k + Len(p) + Len(s)
    /\ \A i \in 1..Len(p) : p[i] = z[k + i]
    /\ \A i \in 1..Len(s) : s[i] = z[k + Len(p) + i]

\* w is m blocks, made from the first of z by f.
Mapped(f, w, z, m) ==
    /\ w \in Seq(Byte) /\ Len(w) = N * m
    /\ \A q \in 0..(m - 1) : BlockAt(w, q) = f[BlockAt(z, q)]

\* Sums of products.
LEMMA Blocks ==
    ASSUME NEW M \in Nat \ {0}, NEW a \in Nat, NEW b \in Nat
    PROVE  /\ M * a \in Nat /\ M * b \in Nat /\ M * (a + b) = M * a + M * b
           /\ M * (a + 1) = M * a + M
           /\ a < b => M * a + M <= M * b
           /\ a <= b => M * a <= M * b
<1>1. M * a \in Nat /\ M * b \in Nat /\ M * (a + b) = M * a + M * b /\ M * (a + 1) = M * a + M
  OBVIOUS
<1>2. a < b => M * a + M <= M * b
  BY Product
<1> QED BY <1>1, <1>2

\* A block of bytes there are.
LEMMA BlockThere ==
    ASSUME NEW s \in Seq(Byte), NEW q \in Nat, N * q + N <= Len(s)
    PROVE  BlockAt(s, q) \in Block /\ \A i \in 1..N : BlockAt(s, q)[i] = s[N * q + i]
<1>1. N \in Nat \ {0} /\ Len(s) \in Nat /\ N * q \in Nat
  BY SizesType, LenProperties, Blocks
<1>2. ASSUME NEW i \in 1..N PROVE s[N * q + i] \in Byte
  <2>1. N * q + i \in 1..Len(s)
    BY <1>1
  <2> QED BY <2>1, ElementOfSeq
<1> QED BY <1>2 DEF BlockAt, Block

\* t is x, of length a, and then y, of length b.
Joined(t, x, a, y, b) ==
    /\ t \in Seq(Byte) /\ Len(t) = a + b
    /\ \A i \in 1..(a + b) : t[i] = IF i <= a THEN x[i] ELSE y[i - a]

\* One sequence behind another.
LEMMA Joining ==
    ASSUME NEW x \in Seq(Byte), NEW y \in Seq(Byte)
    PROVE  Joined(x \o y, x, Len(x), y, Len(y))
BY ConcatProperties, Zenon DEF Joined

\* The first bytes of s.
LEMMA Prefix ==
    ASSUME NEW s \in Seq(Byte), NEW c \in 0..Len(s)
    PROVE  /\ SubSeq(s, 1, c) \in Seq(Byte) /\ Len(SubSeq(s, 1, c)) = c
           /\ \A i \in 1..c : SubSeq(s, 1, c)[i] = s[i]
<1>1. Len(s) \in Nat /\ c \in Nat
  BY LenProperties
<1>2. ASSUME NEW i \in 1..c PROVE s[i] \in Byte
  <2>1. i \in 1..Len(s)
    BY <1>1
  <2> QED BY <2>1, ElementOfSeq
<1>3. c - 1 + 1 = c /\ c \in Int /\ (1 <= c \/ c = 0)
  BY <1>1
<1>4. PICK u : u = SubSeq(s, 1, c)
  OBVIOUS
<1>5. /\ u \in Seq(Byte) /\ Len(u) = IF 1 <= c THEN c - 1 + 1 ELSE 0
      /\ \A i \in 1..(c - 1 + 1) : u[i] = s[1 + i - 1]
  BY <1>2, <1>3, <1>4, SubSeqProperties
<1>6. Len(u) = c
  BY <1>3, <1>5
<1>7. ASSUME NEW i \in 1..c PROVE u[i] = s[i]
  <2>1. 1 + i - 1 = i
    BY <1>1
  <2> QED BY <1>3, <1>5, <2>1
<1> QED BY <1>4, <1>5, <1>6, <1>7

\* u is s without its first c bytes.
Behind(u, s, c) ==
    /\ u \in Seq(Byte) /\ Len(u) = Len(s) - c
    /\ \A i \in 1..(Len(s) - c) : u[i] = s[c + i]

\* The bytes of s behind the first c.
LEMMA Suffix ==
    ASSUME NEW s \in Seq(Byte), NEW c \in 0..Len(s), NEW u, u = SubSeq(s, c + 1, Len(s))
    PROVE  Behind(u, s, c)
<1>1. PICK a, b, e : a = c + 1 /\ b = Len(s) /\ e = Len(s) - c
  OBVIOUS
<1>2. b \in Nat /\ c \in Nat /\ c <= b
  BY <1>1, LenProperties
<1>3. a \in Int /\ b \in Int /\ b - a + 1 = e /\ e \in Nat /\ (a <= b \/ e = 0)
  BY <1>1, <1>2
<1>4. ASSUME NEW i \in a..b PROVE s[i] \in Byte
  <2>1. i \in 1..Len(s)
    BY <1>1, <1>2
  <2> QED BY <2>1, ElementOfSeq
<1>5. /\ SubSeq(s, a, b) \in Seq(Byte)
      /\ Len(SubSeq(s, a, b)) = IF a <= b THEN b - a + 1 ELSE 0
      /\ \A i \in 1..(b - a + 1) : SubSeq(s, a, b)[i] = s[a + i - 1]
  BY <1>3, <1>4, SubSeqProperties
<1>6. ASSUME NEW i \in 1..e PROVE a + i - 1 = c + i
  BY <1>1, <1>2, <1>3
<1>7. u = SubSeq(s, a, b)
  BY <1>1
<1>8. Len(u) = e
  <2>1. CASE a <= b
    BY <1>3, <1>5, <1>7, <2>1
  <2>2. CASE ~ (a <= b)
    BY <1>3, <1>5, <1>7, <2>2
  <2> QED BY <2>1, <2>2
<1> QED BY <1>1, <1>3, <1>5, <1>6, <1>7, <1>8 DEF Behind

\* b is the block of the bytes behind the first x of s.
IsPiece(b, s, x) == b \in Block /\ b = [i \in 1..N |-> s[x + i]]

\* N bytes of s.
LEMMA Piece ==
    ASSUME NEW s \in Seq(Byte), NEW x \in Nat, NEW a, a = x + 1, NEW y, y = x + N, y <= Len(s)
    PROVE  IsPiece(SubSeq(s, a, y), s, x)
<1>1. a = x + 1
  OBVIOUS
<1>2. N \in Nat \ {0} /\ Len(s) \in Nat
  BY SizesType, LenProperties
<1>3. a \in Int /\ y \in Int /\ a <= y /\ y - a + 1 = N
  BY <1>1, <1>2
<1>4. ASSUME NEW i \in a..y PROVE s[i] \in Byte
  <2>1. i \in 1..Len(s)
    BY <1>1, <1>2
  <2> QED BY <2>1, ElementOfSeq
<1>5. PICK u : u = SubSeq(s, a, y)
  OBVIOUS
<1>6. /\ u \in Seq(Byte) /\ Len(u) = N
      /\ \A i \in 1..N : u[i] = s[a + i - 1]
  <2>1. /\ SubSeq(s, a, y) \in Seq(Byte)
        /\ Len(SubSeq(s, a, y)) = IF a <= y THEN y - a + 1 ELSE 0
        /\ \A i \in 1..(y - a + 1) : SubSeq(s, a, y)[i] = s[a + i - 1]
    BY <1>3, <1>4, SubSeqProperties
  <2> QED BY <1>3, <1>5, <2>1
<1>7. ASSUME NEW i \in 1..N PROVE a + i - 1 = x + i
  BY <1>1, <1>2
<1>8. u \in [1..N -> Byte]
  BY <1>6, LenProperties
<1> QED BY <1>5, <1>6, <1>7, <1>8 DEF Block, IsPiece

\* A number by its quotient and rest.
LEMMA Quotient ==
    ASSUME NEW M \in Nat \ {0}, NEW d \in Nat
    PROVE  d \div M \in Nat /\ d % M \in 0..(M - 1) /\ d = M * (d \div M) + (d % M)
<1> DEFINE q == d \div M
           r == d % M
<1>1. q \in Int /\ r \in 0..(M - 1) /\ d = M * q + r
  OBVIOUS
<1> HIDE DEF q, r
<1>2. ~ (q < 0)
  <2>1. M * 0 = 0
    OBVIOUS
  <2>2. q < 0 => M * q + M <= 0
    BY <1>1, <2>1, Product
  <2>3. M * q \in Int
    BY <1>1
  <2> QED BY <1>1, <2>2, <2>3
<1> QED BY <1>1, <1>2 DEF q, r

\* What is read goes behind what was pending.
LEMMA ReadMore ==
    ASSUME NEW z, NEW k \in Nat, NEW p, NEW s, Remains(z, k, p, s),
           NEW count \in 1..Len(s), NEW t, t = p \o SubSeq(s, 1, count),
           NEW u, u = SubSeq(s, count + 1, Len(s))
    PROVE  Remains(z, k, t, u)
<1>1. /\ z \in Seq(Byte) /\ p \in Seq(Byte) /\ s \in Seq(Byte)
      /\ Len(p) \in Nat /\ Len(s) \in Nat /\ Len(z) = k + Len(p) + Len(s)
  BY LenProperties DEF Remains
<1>2. PICK a, b : a = Len(p) /\ b = Len(s)
  OBVIOUS
<1>3. a \in Nat /\ b \in Nat /\ count \in 1..b /\ Len(z) = k + a + b
  BY <1>1, <1>2
<1>4. PICK x : x = SubSeq(s, 1, count)
  OBVIOUS
<1>5. x \in Seq(Byte) /\ Len(x) = count /\ \A i \in 1..count : x[i] = s[i]
  <2>1. count \in 0..Len(s)
    BY <1>2, <1>3
  <2> QED BY <1>1, <1>4, <2>1, Prefix
<1>6. u \in Seq(Byte) /\ Len(u) = b - count /\ \A i \in 1..(b - count) : u[i] = s[count + i]
  <2>1. count \in 0..Len(s)
    BY <1>2, <1>3
  <2>2. Behind(u, s, count)
    BY <1>1, <2>1, Suffix
  <2> QED BY <1>2, <2>2 DEF Behind
<1>7. /\ t \in Seq(Byte) /\ Len(t) = a + count
      /\ \A i \in 1..(a + count) : t[i] = IF i <= a THEN p[i] ELSE x[i - a]
  <2>1. t = p \o x /\ p \in Seq(Byte) /\ x \in Seq(Byte) /\ a = Len(p) /\ count = Len(x)
    BY <1>1, <1>2, <1>4, <1>5
  <2>2. Joined(t, p, a, x, count)
    BY <2>1, Joining
  <2> QED BY <2>2 DEF Joined
<1>8. Len(z) = k + Len(t) + Len(u)
  <2>1. k + a + b = k + (a + count) + (b - count)
    BY <1>3
  <2> QED BY <1>3, <1>6, <1>7, <2>1
<1>9. ASSUME NEW i \in 1..Len(t) PROVE t[i] = z[k + i]
  <2>1. i \in 1..(a + count)
    BY <1>7
  <2>2. CASE i <= a
    <3>1. i \in 1..Len(p)
      BY <1>2, <1>3, <2>1, <2>2
    <3> QED BY <1>7, <2>1, <2>2, <3>1 DEF Remains
  <2>3. CASE ~ (i <= a)
    <3>1. PICK j : j = i - a
      OBVIOUS
    <3>2. j \in 1..count /\ j \in 1..b /\ k + a + j = k + i
      BY <1>3, <2>1, <2>3, <3>1
    <3>3. t[i] = s[j]
      BY <1>5, <1>7, <2>1, <2>3, <3>1, <3>2
    <3>4. s[j] = z[k + a + j]
      BY <1>2, <3>2 DEF Remains
    <3> QED BY <3>2, <3>3, <3>4
  <2> QED BY <2>2, <2>3
<1>10. ASSUME NEW i \in 1..Len(u) PROVE u[i] = z[k + Len(t) + i]
  <2>1. i \in 1..(b - count)
    BY <1>6
  <2>2. PICK j : j = count + i
    OBVIOUS
  <2>3. j \in 1..b /\ k + a + j = k + (a + count) + i
    BY <1>3, <2>1, <2>2
  <2>4. u[i] = s[j]
    BY <1>6, <2>1, <2>2
  <2>5. s[j] = z[k + a + j]
    BY <1>2, <2>3 DEF Remains
  <2> QED BY <1>7, <2>3, <2>4, <2>5
<1> QED BY <1>1, <1>6, <1>7, <1>8, <1>9, <1>10 DEF Remains

\* All full blocks of s but for its last bytes, and what is behind them.
Taken(z, m, s, u, keep, blocks, b, rest) ==
    /\ b \in Nat /\ blocks \in Seq(Block)
    /\ \A q \in 0..(b - 1) : /\ blocks[q + 1] = BlockAt(z, m + q)
                             /\ N * (m + q) + N <= Len(z)
    /\ Remains(z, N * (m + b), rest, u)
    /\ N * b \in Nat /\ Len(rest) = Len(s) - N * b
    /\ IF Len(s) < keep THEN b = 0 ELSE Len(s) - keep - N * b \in 0..(N - 1)

\* Full blocks go out, and what is behind them stays.
LEMMA TakeBlocks ==
    ASSUME NEW z, NEW m \in Nat, NEW s, NEW u, Remains(z, N * m, s, u), NEW keep \in Nat,
           NEW blocks, blocks = Leading(s, keep), NEW b, b = Len(blocks),
           NEW rest, rest = After(s, blocks)
    PROVE  Taken(z, m, s, u, keep, blocks, b, rest)
<1>1. PICK a, c, first : /\ a = Len(s) /\ c = Len(u) /\ first = N * m
  OBVIOUS
<1>2. /\ z \in Seq(Byte) /\ s \in Seq(Byte) /\ u \in Seq(Byte)
      /\ Len(z) = first + a + c
      /\ \A i \in 1..a : s[i] = z[first + i]
      /\ \A i \in 1..c : u[i] = z[first + a + i]
  BY <1>1 DEF Remains
<1>3. a \in Nat /\ c \in Nat /\ first \in Nat /\ N \in Nat \ {0}
  BY <1>1, <1>2, SizesType, LenProperties, Blocks
<1>4. PICK count : count = IF a < keep THEN 0 ELSE (a - keep) \div N
  OBVIOUS
<1>5. /\ count \in Nat /\ N * count \in Nat /\ N * count <= a
      /\ IF a < keep THEN count = 0 ELSE a - keep - N * count \in 0..(N - 1)
  <2>1. CASE a < keep
    <3>1. N * 0 = 0
      BY <1>3
    <3> QED BY <1>3, <1>4, <2>1, <3>1
  <2>2. CASE ~ (a < keep)
    <3>1. PICK d : d = a - keep
      OBVIOUS
    <3>2. d \in Nat /\ d <= a
      BY <1>3, <2>2, <3>1
    <3>3. PICK q, r : q = d \div N /\ r = d % N
      OBVIOUS
    <3>4. q \in Nat /\ r \in 0..(N - 1) /\ d = N * q + r
      BY <1>3, <3>2, <3>3, Quotient
    <3>5. N * q \in Nat
      BY <1>3, <3>4, Blocks
    <3>6. count = q
      BY <1>4, <2>2, <3>1, <3>3
    <3>7. d - N * q = r /\ N * q <= d
      BY <1>3, <3>2, <3>4, <3>5
    <3>8. a - keep - N * count \in 0..(N - 1)
      BY <3>1, <3>4, <3>6, <3>7
    <3>9. count \in Nat /\ N * count \in Nat /\ N * count <= a
      <4>1. N * q <= a
        BY <1>3, <3>2, <3>5, <3>7
      <4> QED BY <3>4, <3>5, <3>6, <4>1
    <3> QED BY <2>2, <3>8, <3>9
  <2> QED BY <2>1, <2>2
<1>6. blocks = [k \in 1..count |-> SubSeq(s, (k - 1) * N + 1, k * N)]
  BY <1>1, <1>4 DEF Leading
<1>7. ASSUME NEW q \in 0..(count - 1)
      PROVE  /\ q \in Nat /\ q + 1 \in 1..count
             /\ blocks[q + 1] = BlockAt(z, m + q) /\ blocks[q + 1] \in Block
             /\ N * (m + q) + N <= Len(z)
  <2>1. q \in Nat /\ q + 1 \in 1..count /\ q < count
    BY <1>5
  <2>2. PICK x, y : x = N * q /\ y = x + N
    OBVIOUS
  <2>3. x \in Nat /\ y \in Nat /\ y <= a
    <3>1. x \in Nat /\ x + N <= N * count
      BY <1>3, <1>5, <2>1, <2>2, Blocks
    <3> QED BY <1>3, <1>5, <2>2, <3>1
  <2>4. PICK k, h : k = q + 1 /\ h = x + 1
    OBVIOUS
  <2>5. (k - 1) * N = x /\ (k - 1) * N + 1 = h /\ k * N = y /\ k \in 1..count
    <3>1. k - 1 = q /\ k \in 1..count
      BY <1>5, <2>1, <2>4
    <3>2. q * N = x /\ (q + 1) * N = y
      BY <1>3, <2>1, <2>2
    <3> QED BY <2>4, <3>1, <3>2
  <2>6. blocks[k] = SubSeq(s, h, y)
    BY <1>6, <2>5
  <2>7. blocks[q + 1] = [i \in 1..N |-> s[x + i]] /\ blocks[q + 1] \in Block
    <3>1. IsPiece(SubSeq(s, h, y), s, x)
      BY <1>1, <1>2, <2>2, <2>3, <2>4, Piece
    <3> QED BY <2>4, <2>6, <3>1 DEF IsPiece
  <2>8. N * (m + q) = first + x
    BY <1>1, <1>3, <2>1, <2>2, Blocks
  <2>9. ASSUME NEW i \in 1..N PROVE s[x + i] = z[N * (m + q) + i]
    <3>1. PICK j : j = x + i
      OBVIOUS
    <3>2. j \in 1..a /\ first + j = first + x + i
      BY <1>3, <2>2, <2>3, <3>1
    <3> QED BY <1>2, <2>8, <3>1, <3>2
  <2>10. blocks[q + 1] = BlockAt(z, m + q)
    BY <2>7, <2>9 DEF BlockAt
  <2>11. N * (m + q) + N <= Len(z)
    <3>1. first + x + N <= first + a + c
      BY <1>3, <2>2, <2>3
    <3> QED BY <1>2, <2>8, <3>1
  <2> QED BY <2>1, <2>7, <2>10, <2>11
<1>8. blocks \in Seq(Block) /\ b = count
  <2>1. ASSUME NEW k \in 1..count PROVE blocks[k] \in Block
    <3>1. PICK q : q = k - 1
      OBVIOUS
    <3>2. q \in 0..(count - 1) /\ q + 1 = k
      BY <1>5, <3>1
    <3> QED BY <1>7, <3>2
  <2>2. blocks \in [1..count -> Block]
    BY <1>6, <2>1
  <2> QED BY <1>5, <2>2, IsASeq
<1>9. PICK e : e = N * b
  OBVIOUS
<1>10. e \in 0..a /\ e \in Nat /\ N * (m + b) = first + e
  BY <1>1, <1>3, <1>5, <1>8, <1>9, Blocks
<1>11. /\ rest \in Seq(Byte) /\ Len(rest) = a - e
       /\ \A i \in 1..(a - e) : rest[i] = s[e + i]
  <2>1. rest = SubSeq(s, e + 1, Len(s)) /\ e \in 0..Len(s)
    BY <1>1, <1>9, <1>10 DEF After
  <2>2. Behind(rest, s, e)
    BY <1>2, <2>1, Suffix
  <2> QED BY <1>1, <2>2 DEF Behind
<1>12. Remains(z, first + e, rest, u)
  <2>1. Len(z) = (first + e) + Len(rest) + Len(u)
    <3>1. first + a + c = (first + e) + (a - e) + c
      BY <1>3, <1>10
    <3> QED BY <1>1, <1>2, <1>11, <3>1
  <2>2. ASSUME NEW i \in 1..Len(rest) PROVE rest[i] = z[first + e + i]
    <3>1. PICK j : j = e + i
      OBVIOUS
    <3>2. i \in 1..(a - e) /\ j \in 1..a /\ first + j = first + e + i
      BY <1>3, <1>10, <1>11, <3>1
    <3> QED BY <1>2, <1>11, <3>1, <3>2
  <2>3. ASSUME NEW i \in 1..Len(u) PROVE u[i] = z[first + e + Len(rest) + i]
    <3>1. i \in 1..c /\ first + a + i = first + e + (a - e) + i
      BY <1>1, <1>3, <1>10
    <3> QED BY <1>2, <1>11, <3>1
  <2> QED BY <1>2, <1>11, <2>1, <2>2, <2>3 DEF Remains
<1> QED BY <1>1, <1>3, <1>5, <1>7, <1>8, <1>9, <1>10, <1>11, <1>12 DEF Taken

\* v is w, of m blocks, and then the blocks c, b of them.
Extended(v, w, m, c, b) ==
    /\ v \in Seq(Byte) /\ Len(v) = N * (m + b)
    /\ \A q \in 0..(m - 1) : BlockAt(v, q) = BlockAt(w, q)
    /\ \A q \in 0..(b - 1) : BlockAt(v, m + q) = c[q + 1]

\* Blocks written behind others leave those as they are.
LEMMA WriteBlocks ==
    ASSUME NEW w \in Seq(Byte), NEW m \in Nat, Len(w) = N * m, NEW c \in Seq(Block)
    PROVE  Extended(w \o Bytes(c), w, m, c, Len(c))
<1>1. PICK b, y, v : b = Len(c) /\ y = Bytes(c) /\ v = w \o y
  OBVIOUS
<1>2. PICK first, size : first = N * m /\ size = N * b
  OBVIOUS
<1>3. b \in Nat /\ N \in Nat \ {0} /\ c \in [1..b -> Block]
  BY <1>1, SizesType, LenProperties
<1>4. first \in Nat /\ size \in Nat /\ N * (m + b) = first + size
  BY <1>2, <1>3, Blocks
<1>5. /\ y \in Seq(Byte) /\ Len(y) = size
      /\ \A q \in 0..(b - 1), r \in 0..(N - 1) :
            N * q + r + 1 \in 1..size /\ y[N * q + r + 1] = c[q + 1][r + 1]
  BY <1>1, <1>2, BytesOfBlocks
<1>6. /\ v \in Seq(Byte) /\ Len(v) = first + size
      /\ \A i \in 1..(first + size) : v[i] = IF i <= first THEN w[i] ELSE y[i - first]
  <2>1. Joined(v, w, Len(w), y, Len(y))
    BY <1>1, <1>5, Joining
  <2> QED BY <1>2, <1>5, <2>1 DEF Joined
<1>7. ASSUME NEW q \in 0..(m - 1) PROVE BlockAt(v, q) = BlockAt(w, q)
  <2>1. q \in Nat /\ q < m
    OBVIOUS
  <2>2. PICK x : x = N * q
    OBVIOUS
  <2>3. x \in Nat /\ x + N <= first
    BY <1>2, <1>3, <2>1, <2>2, Blocks
  <2>4. ASSUME NEW i \in 1..N PROVE v[x + i] = w[x + i]
    <3>1. PICK j : j = x + i
      OBVIOUS
    <3>2. j \in 1..(first + size) /\ j <= first
      BY <1>3, <1>4, <2>3, <3>1
    <3> QED BY <1>6, <3>1, <3>2
  <2> QED BY <2>2, <2>4 DEF BlockAt
<1>8. ASSUME NEW q \in 0..(b - 1) PROVE BlockAt(v, m + q) = c[q + 1]
  <2>1. q \in Nat /\ q + 1 \in 1..b
    BY <1>3
  <2>2. PICK x : x = N * q
    OBVIOUS
  <2>3. x \in Nat /\ N * (m + q) = first + x
    BY <1>2, <1>3, <2>1, <2>2, Blocks
  <2>4. ASSUME NEW i \in 1..N PROVE v[first + x + i] = c[q + 1][i]
    <3>1. PICK r, j, h : r = i - 1 /\ j = first + x + i /\ h = x + i
      OBVIOUS
    <3>2. r \in 0..(N - 1) /\ r + 1 = i /\ x + r + 1 = h
      BY <1>3, <2>3, <3>1
    <3>3. h \in 1..size /\ y[h] = c[q + 1][i]
      BY <1>5, <2>2, <3>2
    <3>4. j \in 1..(first + size) /\ ~ (j <= first) /\ j - first = h
      BY <1>4, <2>3, <3>1, <3>3
    <3> QED BY <1>6, <3>1, <3>3, <3>4
  <2>5. c[q + 1] = [i \in 1..N |-> c[q + 1][i]]
    BY <1>3, <2>1 DEF Block
  <2> QED BY <2>3, <2>4, <2>5 DEF BlockAt
<1> QED BY <1>1, <1>4, <1>6, <1>7, <1>8 DEF Extended

\* So more blocks can be made by f and written.
LEMMA MapBlocks ==
    ASSUME NEW f \in [Block -> Block], NEW z, NEW w, NEW m \in Nat, Mapped(f, w, z, m),
           NEW blocks \in Seq(Block), NEW b, b = Len(blocks),
           \A q \in 0..(b - 1) : blocks[q + 1] = BlockAt(z, m + q)
    PROVE  Mapped(f, w \o Bytes(Map(f, blocks)), z, m + b)
<1>1. b \in Nat /\ blocks \in [1..b -> Block]
  BY LenProperties
<1>2. PICK c : c = Map(f, blocks)
  OBVIOUS
<1>3. c = [k \in 1..b |-> f[blocks[k]]]
  BY <1>1, <1>2 DEF Map
<1>4. c \in [1..b -> Block]
  BY <1>1, <1>3
<1>5. c \in Seq(Block) /\ Len(c) = b
  BY <1>1, <1>4, IsASeq
<1>6. PICK v : v = w \o Bytes(c)
  OBVIOUS
<1>7. Extended(v, w, m, c, b)
  BY <1>5, <1>6, WriteBlocks DEF Mapped
<1>8. ASSUME NEW q \in 0..(m + b - 1) PROVE BlockAt(v, q) = f[BlockAt(z, q)]
  <2>1. CASE q \in 0..(m - 1)
    BY <1>7, <2>1 DEF Extended, Mapped
  <2>2. CASE q \notin 0..(m - 1)
    <3>1. PICK j : j = q - m
      OBVIOUS
    <3>2. j \in 0..(b - 1) /\ m + j = q /\ j + 1 \in 1..b
      BY <1>1, <2>2, <3>1
    <3>3. BlockAt(v, q) = c[j + 1] /\ blocks[j + 1] = BlockAt(z, q)
      BY <1>7, <3>2 DEF Extended
    <3> QED BY <1>3, <3>2, <3>3
  <2> QED BY <2>1, <2>2
<1> QED BY <1>2, <1>6, <1>7, <1>8 DEF Extended, Mapped

-----------------------------------------------------------------------------
(* The blocks of a file and its padding.                                   *)

\* x is the file o of M - 1 full blocks and a rest, with its padding.
PaddedFile(x, M, p, o) ==
    /\ M \in Nat \ {0} /\ Len(x) = N * M
    /\ \E length : PaddedTo(p, x, o, length)

\* The rest and the padding are the last block.
LEMMA PaddedSizes ==
    ASSUME NEW x, NEW M, NEW p, NEW o, PaddedFile(x, M, p, o)
    PROVE  /\ x \in Seq(Byte) /\ o \in Seq(Byte) /\ M - 1 \in Nat /\ N * (M - 1) \in Nat
           /\ N * M = N * (M - 1) + N /\ Len(x) = N * (M - 1) + N
           /\ Len(o) \in Nat /\ Len(o) - N * (M - 1) \in 0..(N - 1)
           /\ \A i \in 1..Len(o) : x[i] = o[i]
<1>1. PICK length : PaddedTo(p, x, o, length)
  BY DEF PaddedFile
<1>2. PICK a, k : a = Len(o) /\ k = M - 1
  OBVIOUS
<1>3. k \in Nat /\ k + 1 = M /\ N \in Nat \ {0}
  BY <1>2, SizesType DEF PaddedFile
<1>4. N * k \in Nat /\ N * M = N * k + N
  BY <1>3, Blocks
<1>5. /\ x \in Seq(Byte) /\ o \in Seq(Byte) /\ length \in 1..N /\ a \in Nat
      /\ Len(x) = a + length /\ \A i \in 1..a : x[i] = o[i]
  BY <1>1, <1>2 DEF PaddedTo
<1>6. Len(x) = N * k + N
  BY <1>4 DEF PaddedFile
<1>7. a - N * k \in 0..(N - 1)
  BY <1>3, <1>4, <1>5, <1>6
<1> QED BY <1>2, <1>3, <1>4, <1>5, <1>6, <1>7

\* So a file has as many full blocks as there are before the last.
LEMMA FullBlocks ==
    ASSUME NEW x, NEW M, NEW p, NEW o, PaddedFile(x, M, p, o)
    PROVE  N * (Len(o) \div N) = N * (M - 1)
<1>1. PICK a, k, r : a = Len(o) /\ k = M - 1 /\ r = Len(o) - N * (M - 1)
  OBVIOUS
<1>2. a \in Nat /\ k \in Nat /\ r \in 0..(N - 1) /\ N * k \in Nat /\ r = a - N * k
  BY <1>1, PaddedSizes
<1>3. a = N * k + r /\ N \in Nat \ {0}
  BY <1>2, SizesType
<1>4. a \div N = k
  BY <1>2, <1>3, Divided
<1> QED BY <1>1, <1>4

\* The last block alone is the rest and its padding.
LEMMA PaddedRest ==
    ASSUME NEW x, NEW M, NEW p, NEW o, PaddedFile(x, M, p, o),
           NEW rest, rest = SubSeq(o, N * (M - 1) + 1, Len(o))
    PROVE  \E length : PaddedTo(p, BlockAt(x, M - 1), rest, length)
<1>1. PICK length : PaddedTo(p, x, o, length)
  BY DEF PaddedFile
<1>2. PICK a, k, f, b : a = Len(o) /\ k = M - 1 /\ f = N * (M - 1) /\ b = BlockAt(x, M - 1)
  OBVIOUS
<1>3. /\ x \in Seq(Byte) /\ o \in Seq(Byte) /\ k \in Nat /\ f \in Nat /\ f = N * k
      /\ Len(x) = f + N /\ a \in Nat /\ a - f \in 0..(N - 1)
  BY <1>2, PaddedSizes
<1>4. N \in Nat \ {0}
  BY SizesType
<1>5. /\ length \in 1..N /\ f + N = a + length
      /\ \A i \in 1..a : x[i] = o[i]
      /\ \A i \in 1..length : x[a + i] \in Filler(p, length, N - length + i)
  BY <1>1, <1>2, <1>3 DEF PaddedTo
<1>6. /\ rest \in Seq(Byte) /\ Len(rest) = a - f
      /\ \A i \in 1..(a - f) : rest[i] = o[f + i]
  <2>1. f \in 0..Len(o)
    BY <1>2, <1>3, <1>4
  <2>2. Behind(rest, o, f)
    BY <1>2, <1>3, <2>1, Suffix
  <2> QED BY <1>2, <2>2 DEF Behind
<1>7. b \in Block /\ \A i \in 1..N : b[i] = x[f + i]
  <2>1. x \in Seq(Byte) /\ k \in Nat /\ N * k + N <= Len(x)
    BY <1>3, <1>4
  <2>2. BlockAt(x, k) \in Block /\ \A i \in 1..N : BlockAt(x, k)[i] = x[N * k + i]
    BY <2>1, BlockThere
  <2>3. b = BlockAt(x, k) /\ f = N * k
    BY <1>2, <1>3
  <2> QED BY <2>2, <2>3
<1>8. b \in Seq(Byte) /\ Len(b) = N
  BY <1>4, <1>7, IsASeq DEF Block
<1>9. N = (a - f) + length /\ a - f \in Nat
  <2>1. a \in Nat /\ f \in Nat /\ a - f \in 0..(N - 1) /\ N \in Nat
    BY <1>3, <1>4
  <2>2. length \in Nat /\ f + N = a + length
    BY <1>4, <1>5
  <2> QED BY <2>1, <2>2
<1>10. ASSUME NEW i \in 1..(a - f) PROVE b[i] = rest[i]
  <2>1. PICK j : j = f + i
    OBVIOUS
  <2>2. i \in 1..N /\ j \in 1..a
    BY <1>3, <1>4, <2>1
  <2> QED BY <1>5, <1>6, <1>7, <2>1, <2>2
<1>11. ASSUME NEW i \in 1..length
       PROVE  b[(a - f) + i] \in Filler(p, length, N - length + i)
  <2>1. PICK j : j = (a - f) + i
    OBVIOUS
  <2>2. j \in 1..N /\ f + j = a + i
    BY <1>3, <1>4, <1>5, <2>1
  <2>3. b[j] = x[a + i]
    BY <1>7, <2>2
  <2> QED BY <1>5, <2>1, <2>3
<1>12. PaddedTo(p, b, rest, length)
  BY <1>5, <1>6, <1>8, <1>9, <1>10, <1>11 DEF PaddedTo
<1> QED BY <1>2, <1>12

\* w is a beginning of o.
Begins(w, o) == Len(w) <= Len(o) /\ w = SubSeq(o, 1, Len(w))

\* Blocks decrypted from an encrypted file are those of the file.
LEMMA BlocksBack ==
    ASSUME NEW x, NEW M, NEW p, NEW o, PaddedFile(x, M, p, o),
           NEW c, Mapped(Enc, c, x, M),
           NEW m \in 0..(M - 1), NEW w, Mapped(Dec, w, c, m)
    PROVE  Len(w) = N * m /\ Begins(w, o)
<1>1. PICK a, k, f : a = Len(o) /\ k = M - 1 /\ f = N * m
  OBVIOUS
<1>2. /\ x \in Seq(Byte) /\ o \in Seq(Byte) /\ k \in Nat /\ N * k \in Nat
      /\ Len(x) = N * k + N /\ a \in Nat /\ a - N * k \in 0..(N - 1)
      /\ \A i \in 1..a : x[i] = o[i]
  BY <1>1, PaddedSizes
<1>3. N \in Nat \ {0} /\ m \in Nat /\ m <= k /\ M \in Nat
  <2>1. M \in Nat
    BY DEF PaddedFile
  <2> QED BY <1>1, <1>2, <2>1, SizesType
<1>4. f \in Nat /\ f <= N * k
  BY <1>1, <1>2, <1>3, Blocks
<1>5. f \in 0..a
  BY <1>2, <1>3, <1>4
<1>6. w \in Seq(Byte) /\ Len(w) = f
  BY <1>1 DEF Mapped
<1>7. PICK u : u = SubSeq(o, 1, f)
  OBVIOUS
<1>8. u \in Seq(Byte) /\ Len(u) = f /\ \A i \in 1..f : u[i] = o[i]
  BY <1>1, <1>2, <1>5, <1>7, Prefix
<1>9. ASSUME NEW i \in 1..f PROVE w[i] = u[i]
  <2>1. PICK h : h = i - 1
    OBVIOUS
  <2>2. h \in 0..(N * m - 1)
    BY <1>1, <1>4, <2>1
  <2>3. PICK q \in 0..(m - 1), r \in 0..(N - 1) : h = N * q + r
    BY <1>3, <2>2, Place
  <2>4. PICK y, e : y = N * q /\ e = r + 1
    OBVIOUS
  <2>5. q \in Nat /\ q < m /\ q \in 0..(M - 1) /\ q < k
    BY <1>1, <1>3
  <2>6. y \in Nat /\ y + N <= N * k
    BY <1>2, <1>3, <2>4, <2>5, Blocks
  <2>7. e \in 1..N /\ y + e = i /\ y + N <= Len(x)
    BY <1>2, <1>3, <2>1, <2>3, <2>4, <2>6
  <2>8. BlockAt(x, q) \in Block /\ BlockAt(x, q)[e] = x[i]
    BY <1>2, <2>4, <2>5, <2>7, BlockThere
  <2>9. BlockAt(w, q) = BlockAt(x, q)
    <3>1. BlockAt(w, q) = Dec[BlockAt(c, q)] /\ BlockAt(c, q) = Enc[BlockAt(x, q)]
      BY <2>5 DEF Mapped
    <3> QED BY <2>8, <3>1, CipherLaw
  <2>10. BlockAt(w, q)[e] = w[i]
    BY <2>4, <2>7 DEF BlockAt
  <2>11. i \in 1..a
    BY <1>2, <1>4, <1>5
  <2> QED BY <1>2, <1>8, <2>8, <2>9, <2>10, <2>11
<1>10. w = u
  BY <1>4, <1>6, <1>8, <1>9, LenProperties
<1> QED BY <1>1, <1>5, <1>6, <1>7, <1>10 DEF Begins

-----------------------------------------------------------------------------
(* The invariant of the files.                                             *)

\* m blocks of the file o are written; less than a block is left over.
Halfway(w, o, p, s) ==
    \E m \in Nat : Mapped(Enc, w, o, m) /\ Remains(o, N * m, p, s) /\ Len(p) < N

\* c is a file with its padding, encrypted block by block.
Cipherfile(c, x, M, p, o) == PaddedFile(x, M, p, o) /\ Mapped(Enc, c, x, M)

\* The first blocks of it are decrypted, and never the last.
HalfwayBack(w, o, pad, p, s) ==
    \E x, c, M :
        /\ Cipherfile(c, x, M, pad, o)
        /\ \E m \in 0..(M - 1) : Remains(c, N * m, p, s) /\ Mapped(Dec, w, c, m)

\* The file again, but for the zeros at its end.
Restored(w, o, p) ==
    LET full == N * (Len(o) \div N) IN
    w = IF p = "Zeros" THEN SubSeq(o, 1, full) \o TrimRight(SubSeq(o, full + 1, Len(o))) ELSE o

FileInv ==
    /\ fileStage \in {"none", "encrypting", "encrypted", "decrypting", "decrypted",
                      "not encrypted", "not decrypted"}
    /\ fileStage # "none" => padding \in Padding
    /\ fileStage = "encrypting" => Halfway(written, original, pending, source)
    /\ fileStage = "encrypted" => \E x, M : Cipherfile(written, x, M, padding, original)
    /\ fileStage = "decrypting" => HalfwayBack(written, original, padding, pending, source)
    /\ fileStage = "decrypted" => Restored(written, original, padding)
    /\ fileStage = "not decrypted" => Begins(written, original)

\* At first there is no file.
LEMMA FileInitially == FileInit => FileInv
BY DEF FileInit, FileInv

\* Nothing is done yet.
LEMMA NothingDone ==
    ASSUME NEW f, NEW z \in Seq(Byte)
    PROVE  Mapped(f, <<>>, z, 0) /\ Remains(z, N * 0, <<>>, z)
<1>1. PICK e : e = <<>>
  OBVIOUS
<1>2. e \in Seq(Byte) /\ Len(e) = 0 /\ Len(z) \in Nat
  BY <1>1, EmptySeq, LenProperties
<1>3. N * 0 = 0
  BY SizesType
<1>4. Mapped(f, e, z, 0)
  BY <1>2, <1>3 DEF Mapped
<1>5. Remains(z, 0, e, z)
  <2>1. Len(z) = 0 + Len(e) + Len(z)
    BY <1>2
  <2>2. \A i \in 1..Len(z) : z[i] = z[0 + Len(e) + i]
    BY <1>2
  <2> QED BY <1>2, <2>1, <2>2 DEF Remains
<1> QED BY <1>1, <1>3, <1>4, <1>5

\* A file is opened.
LEMMA OpenFileKeeps ==
    ASSUME NEW p \in Padding, NEW s \in Seq(Byte), OpenFile(p, s)
    PROVE  FileInv'
<1>1. /\ fileStage' = "encrypting" /\ padding' = p /\ original' = s
      /\ source' = s /\ pending' = <<>> /\ written' = <<>>
  BY DEF OpenFile
<1>2. Halfway(<<>>, s, <<>>, s)
  <2>1. Mapped(Enc, <<>>, s, 0) /\ Remains(s, N * 0, <<>>, s)
    BY NothingDone
  <2>2. Len(<<>>) < N
    BY SizesType, EmptySeq
  <2> QED BY <2>1, <2>2 DEF Halfway
<1>3. Halfway(written, original, pending, source)'
  BY <1>1, <1>2, Zenon
<1> QED BY <1>1, <1>3 DEF FileInv

\* Some of it is read.
LEMMA EncryptReadKeeps ==
    ASSUME FileInv, NEW count \in Nat \ {0}, EncryptRead(count)
    PROVE  FileInv'
<1>1. PICK s : s = pending \o SubSeq(source, 1, count)
  OBVIOUS
<1>2. PICK u : u = SubSeq(source, count + 1, Len(source))
  OBVIOUS
<1>3. PICK blocks : blocks = Leading(s, 0)
  OBVIOUS
<1>4. PICK w : w = written \o Bytes(Map(Enc, blocks))
  OBVIOUS
<1>5. PICK rest : rest = After(s, blocks)
  OBVIOUS
<1>6. /\ fileStage = "encrypting" /\ fileStage' = "encrypting" /\ padding \in Padding
      /\ count <= Len(source) /\ source' = u /\ written' = w /\ pending' = rest
      /\ padding' = padding /\ original' = original
  BY <1>1, <1>2, <1>3, <1>4, <1>5 DEF EncryptRead, FileInv
<1>7. PICK m \in Nat : /\ Mapped(Enc, written, original, m)
                       /\ Remains(original, N * m, pending, source)
  BY <1>6 DEF FileInv, Halfway
<1>8. Remains(original, N * m, s, u)
  <2>1. Len(source) \in Nat /\ N * m \in Nat
    BY <1>7, SizesType, LenProperties, Blocks DEF Remains
  <2>2. count \in 1..Len(source)
    BY <1>6, <2>1
  <2> QED BY <1>1, <1>2, <1>7, <2>1, <2>2, ReadMore
<1>9. PICK b : b = Len(blocks)
  OBVIOUS
<1>10. Taken(original, m, s, u, 0, blocks, b, rest)
  BY <1>3, <1>5, <1>8, <1>9, TakeBlocks
<1>11. Mapped(Enc, w, original, m + b)
  BY <1>4, <1>7, <1>9, <1>10, CipherLaw, MapBlocks DEF Taken
<1>12. Len(rest) < N /\ m + b \in Nat
  <2>1. Len(s) \in Nat /\ N \in Nat
    BY <1>8, SizesType, LenProperties DEF Remains
  <2> QED BY <1>7, <1>10, <2>1 DEF Taken
<1>13. Halfway(w, original, rest, u)
  BY <1>10, <1>11, <1>12 DEF Halfway, Taken
<1>14. Halfway(written, original, pending, source)'
  BY <1>6, <1>13, Zenon
<1> QED BY <1>6, <1>14 DEF FileInv

\* What is left over goes out with its padding.
LEMMA EncryptEndKeeps ==
    ASSUME FileInv, NEW last \in LastBlock(padding, pending), EncryptEnd(last)
    PROVE  FileInv'
<1>1. /\ fileStage = "encrypting" /\ source = <<>> /\ fileStage' = "encrypted"
      /\ padding \in Padding /\ padding' = padding /\ original' = original
      /\ written' = written \o Bytes(<<Enc[last]>>)
  BY DEF EncryptEnd, FileInv
<1>2. PICK m \in Nat : /\ Mapped(Enc, written, original, m)
                       /\ Remains(original, N * m, pending, source) /\ Len(pending) < N
  BY <1>1 DEF FileInv, Halfway
<1>3. PICK a, e, f : a = Len(original) /\ e = Len(pending) /\ f = N * m
  OBVIOUS
<1>4. N \in Nat \ {0} /\ f \in Nat /\ e \in Nat /\ e < N /\ N * (m + 1) = f + N
  <2>1. N \in Nat \ {0} /\ Len(pending) \in Nat
    BY <1>2, SizesType, LenProperties DEF Remains
  <2> QED BY <1>2, <1>3, <2>1, Blocks
<1>5. /\ original \in Seq(Byte) /\ a = f + e
      /\ \A i \in 1..e : pending[i] = original[f + i]
  <2>1. Len(original) = N * m + Len(pending) + Len(source) /\ Len(source) = 0
    BY <1>1, <1>2, EmptySeq DEF Remains
  <2>2. a = f + e + 0
    BY <1>3, <2>1
  <2> QED BY <1>2, <1>3, <1>4, <2>2 DEF Remains
<1>6. /\ last \in Block
      /\ \A i \in 1..e : last[i] = pending[i]
      /\ \A i \in 1..N : ~ (i <= e) => last[i] \in Filler(padding, N - e, i)
  <2>1. /\ last \in Block
        /\ \A i \in 1..N : IF i <= e THEN last[i] = pending[i]
                                     ELSE last[i] \in Filler(padding, N - e, i)
    BY <1>3 DEF LastBlock
  <2>2. \A i \in 1..e : i \in 1..N /\ i <= e
    BY <1>4
  <2> QED BY <2>1, <2>2
<1>7. PICK x : x = [i \in 1..(f + N) |-> IF i <= a THEN original[i] ELSE last[i - f]]
  OBVIOUS
<1>8. \A i \in 1..(f + N) : x[i] = IF i <= a THEN original[i] ELSE last[i - f]
  BY <1>7
<1>9. x \in Seq(Byte) /\ Len(x) = f + N
  <2>1. ASSUME NEW i \in 1..(f + N) PROVE x[i] \in Byte
    <3>1. CASE i <= a
      <4>1. i \in 1..Len(original)
        BY <1>3, <1>4, <1>5, <3>1
      <4> QED BY <1>5, <1>8, <3>1, <4>1, ElementOfSeq
    <3>2. CASE ~ (i <= a)
      <4>1. i - f \in 1..N
        BY <1>4, <1>5, <3>2
      <4> QED BY <1>6, <1>8, <3>2, <4>1 DEF Block
    <3> QED BY <3>1, <3>2
  <2>2. x \in [1..(f + N) -> Byte]
    BY <1>7, <2>1
  <2>3. f + N \in Nat
    BY <1>4
  <2> QED BY <2>2, <2>3, IsASeq
<1>10. PaddedFile(x, m + 1, padding, original)
  <2>1. PICK length : length = N - e
    OBVIOUS
  <2>2. length \in 1..N /\ f + N = a + length /\ a \in Nat
    BY <1>4, <1>5, <2>1
  <2>3. ASSUME NEW i \in 1..a PROVE x[i] = original[i]
    <3>1. i \in 1..(f + N) /\ i <= a
      BY <1>4, <2>2
    <3> QED BY <1>8, <3>1
  <2>4. ASSUME NEW i \in 1..length
        PROVE  x[a + i] \in Filler(padding, length, N - length + i)
    <3>1. PICK j : j = N - length + i
      OBVIOUS
    <3>2. /\ j \in 1..N /\ ~ (j <= e) /\ a + i \in 1..(f + N) /\ ~ (a + i <= a)
          /\ (a + i) - f = j
      BY <1>4, <1>5, <2>1, <2>2, <3>1
    <3>3. x[a + i] = last[j]
      BY <1>8, <3>2
    <3> QED BY <1>6, <2>1, <3>1, <3>2, <3>3
  <2>5. PaddedTo(padding, x, original, length)
    BY <1>3, <1>5, <1>9, <2>2, <2>3, <2>4 DEF PaddedTo
  <2>6. m + 1 \in Nat \ {0}
    BY <1>2
  <2> QED BY <1>4, <1>9, <2>5, <2>6 DEF PaddedFile
<1>11. \A q \in 0..(m - 1) : BlockAt(x, q) = BlockAt(original, q)
  <2> TAKE q \in 0..(m - 1)
  <2>1. PICK y : y = N * q
    OBVIOUS
  <2>2. q \in Nat /\ q < m
    BY <1>2
  <2>3. y \in Nat /\ y + N <= f
    BY <1>2, <1>3, <1>4, <2>1, <2>2, Blocks
  <2>4. ASSUME NEW i \in 1..N PROVE x[y + i] = original[y + i]
    <3>1. PICK j : j = y + i
      OBVIOUS
    <3>2. j \in 1..(f + N) /\ j <= a
      BY <1>4, <1>5, <2>3, <3>1
    <3> QED BY <1>8, <3>1, <3>2
  <2> QED BY <2>1, <2>4 DEF BlockAt
<1>12. BlockAt(x, m) = last
  <2>1. ASSUME NEW i \in 1..N PROVE x[f + i] = last[i]
    <3>1. PICK j : j = f + i
      OBVIOUS
    <3>2. j \in 1..(f + N) /\ j - f = i
      BY <1>4, <3>1
    <3>3. CASE i <= e
      <4>1. j <= a /\ i \in 1..e
        BY <1>4, <1>5, <3>1, <3>3
      <4>2. x[j] = original[f + i] /\ pending[i] = original[f + i] /\ last[i] = pending[i]
        BY <1>5, <1>6, <1>8, <3>1, <3>2, <4>1
      <4> QED BY <3>1, <4>2
    <3>4. CASE ~ (i <= e)
      <4>1. ~ (j <= a)
        BY <1>4, <1>5, <3>1, <3>4
      <4> QED BY <1>8, <3>1, <3>2, <4>1
    <3> QED BY <3>3, <3>4
  <2>2. last = [i \in 1..N |-> last[i]]
    BY <1>6 DEF Block
  <2> QED BY <1>3, <2>1, <2>2 DEF BlockAt
<1>13. Mapped(Enc, written \o Bytes(<<Enc[last]>>), x, m + 1)
  <2>1. PICK c : c = <<Enc[last]>>
    OBVIOUS
  <2>2. Enc[last] \in Block
    BY <1>6, CipherLaw
  <2>3. c \in Seq(Block) /\ Len(c) = 1 /\ c[0 + 1] = Enc[last]
    BY <2>1, <2>2
  <2>4. PICK v : v = written \o Bytes(c)
    OBVIOUS
  <2>5. Extended(v, written, m, c, 1)
    BY <1>2, <2>3, <2>4, WriteBlocks DEF Mapped
  <2>6. ASSUME NEW q \in 0..(m + 1 - 1) PROVE BlockAt(v, q) = Enc[BlockAt(x, q)]
    <3>1. CASE q \in 0..(m - 1)
      BY <1>2, <1>11, <2>5, <3>1 DEF Extended, Mapped
    <3>2. CASE q \notin 0..(m - 1)
      <4>1. q = m + 0 /\ q = m /\ 0 \in 0..(1 - 1)
        BY <1>2, <3>2
      <4>2. BlockAt(v, m + 0) = c[0 + 1]
        BY <2>5, <4>1 DEF Extended
      <4> QED BY <1>12, <2>3, <4>1, <4>2
    <3> QED BY <3>1, <3>2
  <2>7. Mapped(Enc, v, x, m + 1)
    BY <2>5, <2>6 DEF Extended, Mapped
  <2> QED BY <2>1, <2>4, <2>7
<1>14. Cipherfile(written', x, m + 1, padding', original')
  BY <1>1, <1>10, <1>13 DEF Cipherfile
<1> QED BY <1>1, <1>14 DEF FileInv

\* The encrypted file is opened.
LEMMA OpenEncryptedKeeps ==
    ASSUME FileInv, OpenEncrypted
    PROVE  FileInv'
<1>1. /\ fileStage = "encrypted" /\ fileStage' = "decrypting" /\ padding \in Padding
      /\ source' = written /\ pending' = <<>> /\ written' = <<>>
      /\ padding' = padding /\ original' = original
  BY DEF OpenEncrypted, FileInv
<1>2. PICK x, M : Cipherfile(written, x, M, padding, original)
  BY <1>1 DEF FileInv
<1>3. PICK c : c = written
  OBVIOUS
<1>4. Mapped(Dec, <<>>, c, 0) /\ Remains(c, N * 0, <<>>, c)
  <2>1. c \in Seq(Byte)
    BY <1>2, <1>3 DEF Cipherfile, Mapped
  <2> QED BY <2>1, NothingDone
<1>5. 0 \in 0..(M - 1)
  BY <1>2 DEF Cipherfile, PaddedFile
<1>6. HalfwayBack(<<>>, original, padding, <<>>, c)
  BY <1>2, <1>3, <1>4, <1>5 DEF HalfwayBack
<1>7. HalfwayBack(written, original, padding, pending, source)'
  BY <1>1, <1>3, <1>6, Zenon
<1> QED BY <1>1, <1>7 DEF FileInv

\* Some of it is read: the last block stays.
LEMMA DecryptReadKeeps ==
    ASSUME FileInv, NEW count \in Nat \ {0}, DecryptRead(count)
    PROVE  FileInv'
<1>1. PICK s : s = pending \o SubSeq(source, 1, count)
  OBVIOUS
<1>2. PICK u : u = SubSeq(source, count + 1, Len(source))
  OBVIOUS
<1>3. PICK blocks : blocks = Leading(s, N)
  OBVIOUS
<1>4. PICK w : w = written \o Bytes(Map(Dec, blocks))
  OBVIOUS
<1>5. PICK rest : rest = After(s, blocks)
  OBVIOUS
<1>6. /\ fileStage = "decrypting" /\ fileStage' = "decrypting" /\ padding \in Padding
      /\ count <= Len(source) /\ source' = u /\ written' = w /\ pending' = rest
      /\ padding' = padding /\ original' = original
  BY <1>1, <1>2, <1>3, <1>4, <1>5 DEF DecryptRead, FileInv
<1>7. PICK x, c, M : /\ Cipherfile(c, x, M, padding, original)
                     /\ \E m \in 0..(M - 1) : /\ Remains(c, N * m, pending, source)
                                              /\ Mapped(Dec, written, c, m)
  BY <1>6 DEF FileInv, HalfwayBack
<1>8. PICK m \in 0..(M - 1) : Remains(c, N * m, pending, source) /\ Mapped(Dec, written, c, m)
  BY <1>7
<1>9. m \in Nat /\ M \in Nat /\ N \in Nat \ {0}
  BY <1>7, SizesType DEF Cipherfile, PaddedFile
<1>10. Remains(c, N * m, s, u)
  <2>1. Len(source) \in Nat /\ N * m \in Nat
    BY <1>8, <1>9, LenProperties, Blocks DEF Remains
  <2>2. count \in 1..Len(source)
    BY <1>6, <2>1
  <2> QED BY <1>1, <1>2, <1>8, <2>1, <2>2, ReadMore
<1>11. PICK b : b = Len(blocks)
  OBVIOUS
<1>12. Taken(c, m, s, u, N, blocks, b, rest)
  BY <1>3, <1>5, <1>9, <1>10, <1>11, TakeBlocks
<1>13. Mapped(Dec, w, c, m + b)
  BY <1>4, <1>8, <1>9, <1>11, <1>12, CipherLaw, MapBlocks DEF Taken
<1>14. m + b \in 0..(M - 1)
  <2>1. /\ b \in Nat /\ N * b \in Nat
        /\ IF Len(s) < N THEN b = 0 ELSE Len(s) - N - N * b \in 0..(N - 1)
    BY <1>12 DEF Taken
  <2>2. CASE Len(s) < N
    BY <1>8, <1>9, <2>1, <2>2
  <2>3. CASE ~ (Len(s) < N)
    <3>1. /\ Len(s) \in Nat /\ Len(u) \in Nat /\ Len(c) = N * m + Len(s) + Len(u)
          /\ Len(c) = N * M
      BY <1>7, <1>10, LenProperties DEF Remains, Cipherfile, Mapped
    <3>2. PICK f, e, g, h : f = N * m /\ e = N * b /\ g = N * M /\ h = N * (m + b)
      OBVIOUS
    <3>3. f \in Nat /\ e \in Nat /\ g \in Nat /\ h = f + e
      BY <1>9, <2>1, <3>2, Blocks
    <3>4. e + N <= Len(s)
      BY <1>9, <2>1, <2>3, <3>1, <3>2, <3>3
    <3>5. h + N <= g
      BY <1>9, <3>1, <3>2, <3>3, <3>4
    <3>6. ~ (M <= m + b)
      <4>1. m + b \in Nat
        BY <1>9, <2>1
      <4>2. M <= m + b => g <= h
        BY <1>9, <3>2, <4>1, Blocks
      <4> QED BY <1>9, <3>3, <3>5, <4>2
    <3> QED BY <1>9, <2>1, <3>6
  <2> QED BY <2>2, <2>3
<1>15. HalfwayBack(w, original, padding, rest, u)
  BY <1>7, <1>12, <1>13, <1>14 DEF HalfwayBack, Taken
<1>16. HalfwayBack(written, original, padding, pending, source)'
  BY <1>6, <1>15, Zenon
<1> QED BY <1>6, <1>16 DEF FileInv

\* v has all blocks but the last, which is left and ends in its padding.
LastBack(p, c, M, s, v, last, tail) ==
    /\ s # <<>> /\ Len(s) % N = 0
    /\ Mapped(Dec, v, c, M - 1)
    /\ RemovePadding(p, last) = Returned(IF p = "Zeros" THEN TrimRight(tail) ELSE tail)

\* What is left at the end is the last block, and its padding comes off.
LEMMA LastBlockLeft ==
    ASSUME NEW p \in Padding, NEW o, NEW x, NEW c, NEW M, Cipherfile(c, x, M, p, o),
           NEW m \in 0..(M - 1), NEW s, Remains(c, N * m, s, <<>>),
           NEW w, Mapped(Dec, w, c, m),
           NEW blocks, blocks = Leading(s, N), NEW last, last = After(s, blocks),
           NEW tail, tail = SubSeq(o, N * (M - 1) + 1, Len(o))
    PROVE  LastBack(p, c, M, s, w \o Bytes(Map(Dec, blocks)), Dec[last], tail)
<1>1. PICK k, f, g, a : k = M - 1 /\ f = N * m /\ g = N * (M - 1) /\ a = Len(s)
  OBVIOUS
<1>2. /\ k \in Nat /\ g \in Nat /\ N * M = g + N /\ M = k + 1 /\ m \in Nat /\ m <= k
      /\ N \in Nat \ {0}
  <2>1. PaddedFile(x, M, p, o)
    BY DEF Cipherfile
  <2>2. M \in Nat \ {0}
    BY <2>1 DEF PaddedFile
  <2>3. g \in Nat /\ N * M = g + N
    BY <1>1, <2>1, PaddedSizes
  <2> QED BY <1>1, <2>2, <2>3, SizesType
<1>3. f \in Nat /\ f <= g
  BY <1>1, <1>2, Blocks
<1>4. /\ c \in Seq(Byte) /\ s \in Seq(Byte) /\ a \in Nat /\ a = g + N - f
      /\ \A i \in 1..a : s[i] = c[f + i]
  <2>1. Len(c) = N * m + Len(s) + Len(<<>>) /\ Len(<<>>) = 0 /\ Len(c) = N * M
    BY EmptySeq DEF Remains, Cipherfile, Mapped
  <2>2. c \in Seq(Byte) /\ s \in Seq(Byte) /\ \A i \in 1..a : s[i] = c[f + i]
    BY <1>1 DEF Remains
  <2>3. a \in Nat
    BY <1>1, <2>2, LenProperties
  <2>4. f + a + 0 = g + N
    BY <1>1, <1>2, <2>1
  <2>5. a = g + N - f
    BY <1>2, <1>3, <2>3, <2>4
  <2> QED BY <2>2, <2>3, <2>5
<1>5. PICK d : d = k - m
  OBVIOUS
<1>6. d \in Nat /\ m + d = k /\ N * d \in Nat /\ g = f + N * d
  <2>1. d \in Nat /\ m + d = k
    BY <1>2, <1>5
  <2> QED BY <1>1, <1>2, <2>1, Blocks
<1>7. a = N * d + N
  BY <1>2, <1>3, <1>4, <1>6
<1>8. s # <<>> /\ Len(s) % N = 0
  <2>1. a = N * (d + 1) + 0 /\ d + 1 \in Nat /\ 0 \in 0..(N - 1)
    BY <1>2, <1>6, <1>7, Blocks
  <2>2. a % N = 0
    BY <1>2, <2>1, Divided
  <2>3. a # 0
    BY <1>2, <1>6, <1>7
  <2>4. s # <<>>
    BY <1>1, <2>3, EmptySeq
  <2> QED BY <1>1, <2>2, <2>4
<1>9. PICK b : b = Len(blocks)
  OBVIOUS
<1>10. Taken(c, m, s, <<>>, N, blocks, b, last)
  BY <1>2, <1>9, TakeBlocks
<1>11. b \in Nat /\ N * b \in Nat /\ a - N - N * b \in 0..(N - 1)
  <2>1. ~ (Len(s) < N)
    BY <1>1, <1>2, <1>6, <1>7
  <2> QED BY <1>1, <1>10, <2>1 DEF Taken
<1>12. b = d
  <2>1. N * b <= N * d /\ N * d < N * b + N
    <3>1. PICK y, z : y = N * b /\ z = N * d
      OBVIOUS
    <3>2. y \in Nat /\ z \in Nat /\ a = z + N /\ a - N - y \in 0..(N - 1)
      BY <1>6, <1>7, <1>11, <3>1
    <3>3. y <= z /\ z < y + N
      BY <1>2, <3>2
    <3> QED BY <3>1, <3>3
  <2>2. b < d => N * b + N <= N * d
    BY <1>2, <1>6, <1>11, Blocks
  <2>3. d < b => N * d + N <= N * b
    BY <1>2, <1>6, <1>11, Blocks
  <2>4. PICK y, z : y = N * b /\ z = N * d
    OBVIOUS
  <2>5. /\ y \in Nat /\ z \in Nat /\ y <= z /\ z < y + N
        /\ b < d => y + N <= z
        /\ d < b => z + N <= y
    BY <1>6, <1>11, <2>1, <2>2, <2>3, <2>4
  <2>6. ~ (b < d) /\ ~ (d < b)
    BY <1>2, <2>5
  <2> QED BY <1>6, <1>11, <2>6
<1>13. Mapped(Dec, w \o Bytes(Map(Dec, blocks)), c, M - 1)
  <2>1. m + b = M - 1
    BY <1>1, <1>6, <1>12
  <2>2. Mapped(Dec, w \o Bytes(Map(Dec, blocks)), c, m + b)
    BY <1>2, <1>9, <1>10, CipherLaw, MapBlocks DEF Taken
  <2> QED BY <2>1, <2>2
<1>14. Remains(c, g, last, <<>>) /\ Len(last) = N
  <2>1. N * (m + b) = g
    BY <1>1, <1>6, <1>12
  <2>2. Len(last) = a - N * b
    BY <1>1, <1>10 DEF Taken
  <2>3. PICK z : z = N * d
    OBVIOUS
  <2>4. Len(last) = a - z /\ a = z + N /\ z \in Nat
    BY <1>6, <1>7, <1>12, <2>2, <2>3
  <2>5. Len(last) = N
    BY <1>2, <2>4
  <2> QED BY <1>10, <2>1, <2>5 DEF Taken
<1>15. last = BlockAt(c, k)
  <2>1. last \in Seq(Byte) /\ \A i \in 1..N : last[i] = c[g + i]
    BY <1>14 DEF Remains
  <2>2. last = [i \in 1..N |-> last[i]]
    <3>1. last \in [1..Len(last) -> Byte]
      BY <2>1, LenProperties
    <3> QED BY <1>14, <3>1
  <2> QED BY <1>1, <2>1, <2>2 DEF BlockAt
<1>16. Dec[last] = BlockAt(x, k)
  <2>1. PaddedFile(x, M, p, o) /\ Mapped(Enc, c, x, M)
    BY DEF Cipherfile
  <2>2. BlockAt(x, k) \in Block
    <3>1. x \in Seq(Byte) /\ Len(x) = g + N
      BY <1>1, <2>1, PaddedSizes
    <3>2. N * k + N <= Len(x)
      BY <1>1, <1>2, <3>1
    <3> QED BY <1>2, <3>1, <3>2, BlockThere
  <2>3. k \in 0..(M - 1)
    BY <1>1, <1>2
  <2>4. BlockAt(c, k) = Enc[BlockAt(x, k)]
    BY <2>1, <2>3 DEF Mapped
  <2> QED BY <1>15, <2>2, <2>4, CipherLaw
<1>17. PICK length : PaddedTo(p, BlockAt(x, M - 1), tail, length)
  BY PaddedRest DEF Cipherfile
<1>18. RemovePadding(p, BlockAt(x, M - 1)) = Returned(IF p = "Zeros" THEN TrimRight(tail) ELSE tail)
  BY <1>17, PaddingOff
<1> QED BY <1>1, <1>8, <1>13, <1>16, <1>18 DEF LastBack

\* A beginning and the rest of it.
LEMMA WholeAgain ==
    ASSUME NEW o \in Seq(Byte), NEW f \in 0..Len(o)
    PROVE  SubSeq(o, 1, f) \o SubSeq(o, f + 1, Len(o)) = o
<1>1. PICK x, y : x = SubSeq(o, 1, f) /\ y = SubSeq(o, f + 1, Len(o))
  OBVIOUS
<1>2. PICK a : a = Len(o)
  OBVIOUS
<1>3. a \in Nat /\ f \in Nat /\ f <= a
  BY <1>2, LenProperties
<1>4. x \in Seq(Byte) /\ Len(x) = f /\ \A i \in 1..f : x[i] = o[i]
  BY <1>1, Prefix
<1>5. y \in Seq(Byte) /\ Len(y) = a - f /\ \A i \in 1..(a - f) : y[i] = o[f + i]
  <2>1. Behind(y, o, f)
    BY <1>1, Suffix
  <2> QED BY <1>2, <2>1 DEF Behind
<1>6. PICK t : t = x \o y
  OBVIOUS
<1>7. /\ t \in Seq(Byte) /\ Len(t) = f + (a - f)
      /\ \A i \in 1..(f + (a - f)) : t[i] = IF i <= f THEN x[i] ELSE y[i - f]
  <2>1. Joined(t, x, Len(x), y, Len(y))
    BY <1>4, <1>5, <1>6, Joining
  <2>2. Joined(t, x, f, y, a - f)
    BY <1>4, <1>5, <2>1
  <2> QED BY <2>2 DEF Joined
<1>8. f + (a - f) = a
  BY <1>3
<1>9. ASSUME NEW i \in 1..a PROVE t[i] = o[i]
  <2>1. CASE i <= f
    <3>1. i \in 1..f
      BY <1>3, <2>1
    <3> QED BY <1>4, <1>7, <1>8, <2>1, <3>1
  <2>2. CASE ~ (i <= f)
    <3>1. PICK j : j = i - f
      OBVIOUS
    <3>2. j \in 1..(a - f) /\ f + j = i
      BY <1>3, <2>2, <3>1
    <3> QED BY <1>5, <1>7, <1>8, <2>2, <3>1, <3>2
  <2> QED BY <2>1, <2>2
<1>10. t = o
  BY <1>2, <1>7, <1>8, <1>9, LenProperties
<1> QED BY <1>1, <1>6, <1>10

\* All is read.
LEMMA DecryptEndKeeps ==
    ASSUME FileInv, DecryptEnd
    PROVE  FileInv'
<1>1. PICK blocks : blocks = Leading(pending, N)
  OBVIOUS
<1>2. PICK last : last = After(pending, blocks)
  OBVIOUS
<1>3. PICK rest : rest = RemovePadding(padding, Dec[last])
  OBVIOUS
<1>4. /\ fileStage = "decrypting" /\ source = <<>> /\ padding \in Padding
      /\ padding' = padding /\ original' = original
  BY DEF DecryptEnd, FileInv
<1>5. PICK x, c, M : /\ Cipherfile(c, x, M, padding, original)
                     /\ \E m \in 0..(M - 1) : /\ Remains(c, N * m, pending, source)
                                              /\ Mapped(Dec, written, c, m)
  BY <1>4 DEF FileInv, HalfwayBack
<1>6. PICK m \in 0..(M - 1) : Remains(c, N * m, pending, <<>>) /\ Mapped(Dec, written, c, m)
  BY <1>4, <1>5
<1>7. PICK f : f = N * (M - 1)
  OBVIOUS
<1>8. PICK tail : tail = SubSeq(original, f + 1, Len(original))
  OBVIOUS
<1>9. PICK w : w = written \o Bytes(Map(Dec, blocks))
  OBVIOUS
<1>10. /\ pending # <<>> /\ Len(pending) % N = 0
       /\ Mapped(Dec, w, c, M - 1)
       /\ rest = Returned(IF padding = "Zeros" THEN TrimRight(tail) ELSE tail)
  <2>1. tail = SubSeq(original, N * (M - 1) + 1, Len(original))
    BY <1>7, <1>8
  <2>2. LastBack(padding, c, M, pending, written \o Bytes(Map(Dec, blocks)), Dec[last], tail)
    BY <1>1, <1>2, <1>4, <1>5, <1>6, <2>1, LastBlockLeft
  <2> QED BY <1>3, <1>9, <2>2 DEF LastBack
<1>11. rest.kind = "data" /\ rest.bytes = IF padding = "Zeros" THEN TrimRight(tail) ELSE tail
  BY <1>10 DEF Returned
<1>12. fileStage' = "decrypted" /\ written' = w \o rest.bytes
  BY <1>1, <1>2, <1>3, <1>9, <1>10, <1>11 DEF DecryptEnd
<1>13. PaddedFile(x, M, padding, original) /\ Mapped(Enc, c, x, M)
  BY <1>5 DEF Cipherfile
<1>14. original \in Seq(Byte) /\ f \in 0..Len(original) /\ N * (Len(original) \div N) = f
  <2>1. /\ original \in Seq(Byte) /\ f \in Nat /\ Len(original) \in Nat
        /\ Len(original) - f \in 0..(N - 1)
    BY <1>7, <1>13, PaddedSizes
  <2>2. f \in 0..Len(original)
    BY <2>1, SizesType
  <2> QED BY <1>7, <1>13, <2>1, <2>2, FullBlocks
<1>15. w = SubSeq(original, 1, f)
  <2>1. M - 1 \in 0..(M - 1)
    BY <1>13 DEF PaddedFile
  <2>2. Len(w) = f /\ Begins(w, original)
    BY <1>7, <1>10, <1>13, <2>1, BlocksBack
  <2> QED BY <2>2 DEF Begins
<1>16. Restored(w \o rest.bytes, original, padding)
  <2>1. CASE padding = "Zeros"
    <3>1. w \o rest.bytes = SubSeq(original, 1, f) \o TrimRight(tail)
      BY <1>11, <1>15, <2>1
    <3> QED BY <1>8, <1>14, <2>1, <3>1 DEF Restored
  <2>2. CASE padding # "Zeros"
    <3>1. w \o rest.bytes = SubSeq(original, 1, f) \o tail
      BY <1>11, <1>15, <2>2
    <3>2. w \o rest.bytes = original
      BY <1>8, <1>14, <3>1, WholeAgain
    <3> QED BY <2>2, <3>2 DEF Restored
  <2> QED BY <2>1, <2>2
<1>17. Restored(written, original, padding)'
  BY <1>4, <1>12, <1>16, Zenon
<1> QED BY <1>4, <1>12, <1>17 DEF FileInv

\* What was written when it fails is a beginning of the file.
LEMMA HalfwayBegins ==
    ASSUME FileInv, fileStage = "decrypting"
    PROVE  Begins(written, original)
<1>1. PICK x, c, M : /\ Cipherfile(c, x, M, padding, original)
                     /\ \E m \in 0..(M - 1) : /\ Remains(c, N * m, pending, source)
                                              /\ Mapped(Dec, written, c, m)
  BY DEF FileInv, HalfwayBack
<1>2. PICK m \in 0..(M - 1) : Mapped(Dec, written, c, m)
  BY <1>1
<1> QED BY <1>1, <1>2, BlocksBack DEF Cipherfile

\* A read or a write fails.
LEMMA FileFailsKeeps ==
    ASSUME FileInv, FileFails
    PROVE  FileInv'
<1>1. /\ padding \in Padding /\ padding' = padding /\ original' = original /\ written' = written
  BY DEF FileFails, FileInv
<1>2. CASE fileStage = "encrypting"
  BY <1>1, <1>2 DEF FileFails, FileInv
<1>3. CASE fileStage = "decrypting"
  <2>1. Begins(written, original)
    BY <1>3, HalfwayBegins
  <2>2. Begins(written, original)'
    BY <1>1, <2>1, Zenon
  <2> QED BY <1>1, <1>3, <2>2 DEF FileFails, FileInv
<1> QED BY <1>2, <1>3 DEF FileFails

\* What is given as data are bytes.
LEMMA DataBytes ==
    ASSUME NEW d \in Data
    PROVE  Bytes(d.blocks) \o d.tail \in Seq(Byte)
<1>1. d.blocks \in Seq(Block) /\ d.tail \in Seq(Byte)
  BY DataType
<1>2. Bytes(d.blocks) \in Seq(Byte)
  BY <1>1, BytesOfBlocks
<1> QED BY <1>1, <1>2, ConcatProperties

\* Only the files' own steps touch an open file.
LEMMA FileInductive == FileInv /\ [Next]_vars => FileInv'
<1> SUFFICES ASSUME FileInv, [Next]_vars
             PROVE  FileInv'
  OBVIOUS
<1>1. CASE fileStage = "none" /\ UNCHANGED fileVars
  BY <1>1 DEF FileInv, fileVars
<1>2. CASE FileNext
  <2>1. ASSUME NEW p \in Padding, NEW d \in Data, OpenFile(p, Bytes(d.blocks) \o d.tail)
        PROVE  FileInv'
    BY <2>1, DataBytes, OpenFileKeeps
  <2>2. ASSUME NEW count \in 1..BufferSize, EncryptRead(count) \/ DecryptRead(count)
        PROVE  FileInv'
    <3>1. count \in Nat \ {0}
      BY BufferType
    <3> QED BY <2>2, <3>1, EncryptReadKeeps, DecryptReadKeeps
  <2>3. ASSUME NEW last \in LastBlock(padding, pending), EncryptEnd(last)
        PROVE  FileInv'
    BY <2>3, EncryptEndKeeps
  <2> QED BY <1>2, <2>1, <2>2, <2>3, OpenEncryptedKeeps, DecryptEndKeeps, FileFailsKeeps
      DEF FileNext
<1>3. CASE UNCHANGED vars
  <2>1. UNCHANGED fileVars /\ padding' = padding
    BY <1>3 DEF vars, contextVars
  <2> QED BY <2>1 DEF FileInv, fileVars
<1> QED BY <1>1, <1>2, <1>3 DEF Next

\* A file that is not restored is a beginning of it.
LEMMA FileComesBack == FileInv => FileRoundTrip
<1> SUFFICES ASSUME FileInv PROVE FileRoundTrip
  OBVIOUS
<1>1. fileStage = "decrypted" => Restored(written, original, padding)
  BY DEF FileInv
<1>2. fileStage \in {"decrypting", "not decrypted"} => Begins(written, original)
  BY HalfwayBegins DEF FileInv
<1>3. fileStage # "refused"
  BY DEF FileInv
<1> QED BY <1>1, <1>2, <1>3 DEF FileRoundTrip, Restored, Begins

\* However the reads cut a file, decryptFile writes it again: its last block
\* is held back until the padding is off, and what a failure leaves is a
\* beginning of the file (symmetric.go:914-970, 1007-1058).
THEOREM FilesComeBack == Spec => []FileRoundTrip
<1>1. Init => FileInv
  BY FileInitially DEF Init
<1> QED BY <1>1, FileComesBack, FileInductive, PTL DEF Spec

-----------------------------------------------------------------------------
(* The package: block ciphers, contexts and files beside one another.      *)

\* A file is opened with a padding of its own, but not while a call of
\* Encrypt or Decrypt is under way.
LEMMA ContextBesideFiles ==
    ContextInv /\ ReturnInv /\ [Next]_vars => ContextInv' /\ ReturnInv'
<1> SUFFICES ASSUME ContextInv, ReturnInv, [Next]_vars
             PROVE  ContextInv' /\ ReturnInv'
  OBVIOUS
<1>1. CASE ContextNext \/ UNCHANGED contextVars
  BY <1>1, ContextInductive, ReturnInductive
<1>2. CASE phase = "new" /\ UNCHANGED <<phase, whole>>
  BY <1>2 DEF ContextInv, ContextType, ModesRoundTrip, ReturnInv, PaddedData, PartOfIt, ReturnedOf
<1> QED BY <1>1, <1>2 DEF Next, vars

\* What the package encrypts comes back, by each of its ways: no step of a
\* block cipher or a file disturbs a context (symmetric.go:310-1061).
THEOREM PackageRoundTrips == Spec => [](ModesRoundTrip /\ ContextRoundTrip /\ FileRoundTrip)
<1>1. Init => ContextInv /\ ReturnInv /\ FileInv
  BY ContextInitially, ReturnInitially, FileInitially DEF Init
<1>2. ContextInv /\ ReturnInv /\ FileInv => ModesRoundTrip /\ ContextRoundTrip /\ FileRoundTrip
  BY DataReturned, FileComesBack DEF ContextInv
<1>3. ContextInv /\ ReturnInv /\ FileInv /\ [Next]_vars => ContextInv' /\ ReturnInv' /\ FileInv'
  BY ContextBesideFiles, FileInductive
<1> QED BY <1>1, <1>2, <1>3, PTL DEF Spec
=============================================================================
