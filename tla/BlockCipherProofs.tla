------------------------- MODULE BlockCipherProofs -------------------------
(***************************************************************************)
(* For every width of the words, number of rounds, key and function f:     *)
(* Decrypt gives back the block that Encrypt was given.                    *)
(*                                                                         *)
(* The invariant relates the block under way to the trace of the           *)
(* encryption: Links says how each entry of the trace follows from the one *)
(* before, Position that the halves are the entry for the current round,   *)
(* in the order the algorithm has them in.                                 *)
(***************************************************************************)
EXTENDS BlockCipher, TLAPS

Algorithms == {"LOKI97", "RC5"}

Working == {"ready", "encrypting", "encrypted", "decrypting", "decrypted"}

\* The values the state can have, stage by stage.
BlockType ==
    /\ stage \in {"fresh", "subkeys", "mixing"} \cup Working
    /\ stage # "fresh" => algorithm \in Algorithms
    /\ stage # "fresh" => subKeys \in [0..(KeyCount - 1) -> Word]
    /\ stage = "mixing" => algorithm = "RC5" /\ n \in Nat
    /\ stage = "subkeys" /\ algorithm = "LOKI97" =>
          keyWords \in [1..5 -> Word] /\ n \in 0..(KeyCount - 1)
    /\ stage \in {"subkeys", "mixing"} /\ algorithm = "RC5" =>
          keyWords \in [1..4 -> Word]
    /\ stage = "subkeys" /\ algorithm = "RC5" => n \in 1..(KeyCount - 1)
    /\ stage \in {"encrypting", "decrypting"} => n \in 1..Rounds
    /\ stage = "encrypted" => n = Rounds
    /\ left \in Word /\ right \in Word
    /\ block \in Word \X Word
    /\ trace \in [0..Rounds -> Word \X Word]

\* One round forth, on pairs.
Round(p, i) ==
    IF algorithm = "LOKI97"
    THEN <<LokiLeft(p[1], p[2], i), LokiRight(p[1], p[2], i)>>
    ELSE <<RC5Left(p[1], p[2], i), RC5Right(RC5Left(p[1], p[2], i), p[2], i)>>

\* One round back, from a pair in the order of the trace.
Unround(p, i) ==
    IF algorithm = "LOKI97"
    THEN <<LokiUnright(p[2], p[1], i), LokiUnleft(p[2], p[1], i)>>
    ELSE <<RC5Unleft(p[1], RC5Unright(p[1], p[2], i), i), RC5Unright(p[1], p[2], i)>>

\* What Encrypt starts its rounds from.
Whitened(p) ==
    IF algorithm = "RC5" THEN <<Plus(p[1], subKeys[0]), Plus(p[2], subKeys[1])>> ELSE p

\* The rounds of the encryption that are done.
Done == CASE stage = "encrypting" -> n - 1
          [] stage \in {"encrypted", "decrypting"} -> Rounds
          [] OTHER -> 0

Links ==
    stage \in {"encrypting", "encrypted", "decrypting"} =>
        /\ trace[0] = Whitened(block)
        /\ \A i \in 1..Done : trace[i] = Round(trace[i - 1], i)

\* left and right are the trace's entry for the round that comes next; LOKI97
\* has them in swapped order once the encryption has ended.
Position ==
    /\ stage = "encrypting" => <<left, right>> = trace[n - 1]
    /\ stage \in {"encrypted", "decrypting"} =>
          trace[n] = IF algorithm = "LOKI97" THEN <<right, left>> ELSE <<left, right>>

BlockInv == BlockType /\ Links /\ Position /\ BlockRoundTrip

-----------------------------------------------------------------------------
(* The arithmetic of words.                                                *)

LEMMA WordArithmetic ==
    ASSUME NEW x \in Word, NEW y \in Word
    PROVE  /\ Plus(x, y) \in Word
           /\ Minus(x, y) \in Word
           /\ Minus(Plus(x, y), y) = x
BY WordsExist DEF Word, Plus, Minus

LEMMA Remainder ==
    ASSUME NEW a \in Nat, NEW b \in Nat \ {0}
    PROVE  a % b \in 0..(b - 1)
OBVIOUS

\* A round on words, with sub-keys that are words, gives words, and going
\* back gives the same words again.
LEMMA LokiRoundBack ==
    ASSUME NEW l \in Word, NEW r \in Word, NEW i \in 1..Rounds,
           algorithm = "LOKI97", subKeys \in [0..(KeyCount - 1) -> Word]
    PROVE  /\ Round(<<l, r>>, i) \in Word \X Word
           /\ Unround(Round(<<l, r>>, i), i) = <<l, r>>
<1>1. \A k \in 1..3 : SK(i, k) \in Word
  <2> SUFFICES ASSUME NEW k \in 1..3 PROVE SK(i, k) \in Word
    OBVIOUS
  <2>1. (3 * i - 3 + k) \in Nat /\ 3 * Rounds \in Nat \ {0}
    BY RoundsType
  <2>2. (3 * i - 3 + k) % (3 * Rounds) \in 0..(3 * Rounds - 1)
    BY <2>1, Remainder
  <2> QED BY <2>2 DEF SK, KeyCount
<1> DEFINE k1 == SK(i, 1)
           k2 == SK(i, 2)
           k3 == SK(i, 3)
           s == Plus(r, k1)
           nl == Plus(s, k3)
           nr == Xor(l, F(s, k2))
<1>2. k1 \in Word /\ k2 \in Word /\ k3 \in Word
  BY <1>1
<1> HIDE DEF k1, k2, k3
<1>3. s \in Word /\ Minus(s, k1) = r
  BY <1>2, WordArithmetic
<1> HIDE DEF s
<1>4. nl \in Word /\ Minus(nl, k3) = s
  BY <1>2, <1>3, WordArithmetic
<1>5. F(s, k2) \in Word
  BY <1>2, <1>3, FType
<1>6. nr \in Word /\ Xor(nr, F(s, k2)) = l
  BY <1>5, XorLaw
<1> HIDE DEF nl, nr
<1>7. Round(<<l, r>>, i) = <<nl, nr>>
  BY DEF Round, LokiLeft, LokiRight, nl, nr, s, k1, k2, k3
<1>8. Unround(<<nl, nr>>, i) = <<Xor(nr, F(Minus(nl, k3), k2)), Minus(Minus(nl, k3), k1)>>
  BY DEF Unround, LokiUnleft, LokiUnright, k1, k2, k3
<1> QED BY <1>3, <1>4, <1>6, <1>7, <1>8

LEMMA RC5RoundBack ==
    ASSUME NEW l \in Word, NEW r \in Word, NEW i \in 1..Rounds,
           algorithm = "RC5", subKeys \in [0..(KeyCount - 1) -> Word]
    PROVE  /\ Round(<<l, r>>, i) \in Word \X Word
           /\ Unround(Round(<<l, r>>, i), i) = <<l, r>>
<1> DEFINE k1 == subKeys[2 * i]
           k2 == subKeys[2 * i + 1]
           x1 == Xor(l, r)
           r1 == Rol(x1, r)
           nl == Plus(r1, k1)
           x2 == Xor(r, nl)
           r2 == Rol(x2, nl)
           nr == Plus(r2, k2)
<1>1. k1 \in Word /\ k2 \in Word
  <2>1. 2 * i \in 0..(KeyCount - 1) /\ 2 * i + 1 \in 0..(KeyCount - 1)
    BY RoundsType DEF KeyCount
  <2> QED BY <2>1
<1> HIDE DEF k1, k2
<1>2. x1 \in Word /\ Xor(x1, r) = l
  BY XorLaw
<1> HIDE DEF x1
<1>3. r1 \in Word /\ Ror(r1, r) = x1
  BY <1>2, RotateLaw
<1> HIDE DEF r1
<1>4. nl \in Word /\ Minus(nl, k1) = r1
  BY <1>1, <1>3, WordArithmetic
<1> HIDE DEF nl
<1>5. x2 \in Word /\ Xor(x2, nl) = r
  BY <1>4, XorLaw
<1> HIDE DEF x2
<1>6. r2 \in Word /\ Ror(r2, nl) = x2
  BY <1>4, <1>5, RotateLaw
<1> HIDE DEF r2
<1>7. nr \in Word /\ Minus(nr, k2) = r2
  BY <1>1, <1>6, WordArithmetic
<1> HIDE DEF nr
<1>8. Round(<<l, r>>, i) = <<nl, nr>>
  BY DEF Round, RC5Left, RC5Right, nl, nr, r1, r2, x1, x2, k1, k2
<1>9. Xor(Ror(Minus(nr, k2), nl), nl) = r
  BY <1>5, <1>6, <1>7
<1>10. Xor(Ror(Minus(nl, k1), r), r) = l
  BY <1>2, <1>3, <1>4
<1>11. Unround(<<nl, nr>>, i) = <<l, r>>
  BY <1>9, <1>10 DEF Unround, RC5Unleft, RC5Unright, k1, k2
<1> QED BY <1>4, <1>7, <1>8, <1>11

LEMMA RoundBack ==
    ASSUME NEW p \in Word \X Word, NEW i \in 1..Rounds,
           algorithm \in Algorithms, subKeys \in [0..(KeyCount - 1) -> Word]
    PROVE  /\ Round(p, i) \in Word \X Word
           /\ Unround(Round(p, i), i) = p
<1>1. PICK l \in Word, r \in Word : p = <<l, r>>
  OBVIOUS
<1>2. CASE algorithm = "LOKI97"
  BY <1>1, <1>2, LokiRoundBack
<1>3. CASE algorithm = "RC5"
  BY <1>1, <1>3, RC5RoundBack
<1> QED BY <1>2, <1>3 DEF Algorithms

-----------------------------------------------------------------------------
(* The invariant.                                                          *)

LEMMA BlockInitially == BlockInit => BlockInv
<1> SUFFICES ASSUME BlockInit PROVE BlockInv
  OBVIOUS
<1>1. 0 \in Word
  BY WordsExist DEF Word
<1> QED BY <1>1 DEF BlockInit, BlockInv, BlockType, Links, Position, BlockRoundTrip, Working

\* The steps of the key expansion only have types to keep.
LEMMA SetKeyTyped ==
    ASSUME BlockInv, NEW x \in Word, NEW y \in Word,
           SetLokiKey(x, y) \/ SetRC5Key(x, y)
    PROVE  BlockInv'
<1>1. 0 \in Word
  BY WordsExist DEF Word
<1>2. CASE SetLokiKey(x, y)
  <2>1. F(x, y) \in Word /\ F(y, x) \in Word
    BY FType
  <2>2. keyWords' \in [1..5 -> Word]
    BY <1>1, <1>2, <2>1 DEF SetLokiKey
  <2> QED BY <1>1, <1>2, <2>2, RoundsType DEF SetLokiKey, BlockInv, BlockType, Links,
             Position, BlockRoundTrip, KeyCount, Algorithms, Working
<1>3. CASE SetRC5Key(x, y)
  <2>1. keyWords' \in [1..4 -> Word]
    BY <1>1, <1>3 DEF SetRC5Key
  <2> QED BY <1>1, <1>3, <2>1, RoundsType, ConstantsType DEF SetRC5Key, BlockInv, BlockType,
             Links, Position, BlockRoundTrip, KeyCount, Algorithms, Working
<1> QED BY <1>2, <1>3

LEMMA LokiSubKeyTyped ==
    ASSUME BlockInv, LokiSubKey
    PROVE  BlockInv'
<1>1. /\ keyWords \in [1..5 -> Word] /\ n \in 0..(KeyCount - 1)
      /\ subKeys \in [0..(KeyCount - 1) -> Word]
  BY DEF BlockInv, BlockType, LokiSubKey
<1>2. \A k \in 1..5 : keyWords[k] \in Word
  BY <1>1
<1> DEFINE g == F(Plus(Plus(keyWords[1], keyWords[3]), keyWords[5]), keyWords[2])
<1>3. g \in Word
  BY <1>2, WordArithmetic, FType
<1>4. Xor(keyWords[1], g) \in Word /\ Plus(keyWords[5], Delta) \in Word
  BY <1>2, <1>3, XorLaw, WordArithmetic, ConstantsType
<1>5. keyWords' \in [1..5 -> Word]
  BY <1>2, <1>4 DEF LokiSubKey
<1>6. subKeys' \in [0..(KeyCount - 1) -> Word]
  BY <1>1, <1>4 DEF LokiSubKey
<1>7. KeyCount' = KeyCount /\ KeyCount \in Nat
  BY RoundsType DEF LokiSubKey, KeyCount
<1> QED BY <1>1, <1>5, <1>6, <1>7 DEF LokiSubKey, BlockInv, BlockType, Links, Position,
           BlockRoundTrip, Algorithms, Working

LEMMA RC5SubKeyTyped ==
    ASSUME BlockInv, RC5SubKey
    PROVE  BlockInv'
<1>1. /\ keyWords \in [1..4 -> Word] /\ n \in 1..(KeyCount - 1)
      /\ subKeys \in [0..(KeyCount - 1) -> Word]
  BY DEF BlockInv, BlockType, RC5SubKey
<1>2. KeyCount' = KeyCount /\ KeyCount \in Nat
  BY RoundsType DEF RC5SubKey, KeyCount
<1>3. Plus(subKeys[n - 1], Q) \in Word
  BY <1>1, <1>2, WordArithmetic, ConstantsType
<1>4. subKeys' \in [0..(KeyCount - 1) -> Word]
  BY <1>1, <1>3 DEF RC5SubKey
<1> QED BY <1>1, <1>2, <1>4 DEF RC5SubKey, BlockInv, BlockType, Links, Position,
           BlockRoundTrip, Algorithms, Working

LEMMA RC5MixTyped ==
    ASSUME BlockInv, RC5Mix
    PROVE  BlockInv'
<1>1. /\ keyWords \in [1..4 -> Word] /\ n \in Nat /\ algorithm = "RC5"
      /\ subKeys \in [0..(KeyCount - 1) -> Word]
  BY DEF BlockInv, BlockType, RC5Mix
<1>2. KeyCount' = KeyCount /\ KeyCount \in Nat \ {0}
  BY RoundsType DEF RC5Mix, KeyCount
<1> DEFINE i == n % KeyCount
           j == 1 + (n % LWords)
           A == Rol(Plus(Plus(subKeys[i], keyWords[3]), keyWords[4]), 3)
           sum == Plus(A, keyWords[4])
           B == Rol(Plus(keyWords[j], sum), sum)
<1>3. i \in 0..(KeyCount - 1) /\ j \in 1..2
  <2>1. i \in 0..(KeyCount - 1)
    BY <1>1, <1>2, Remainder
  <2>2. n % LWords \in 0..1
    BY <1>1, Remainder DEF LWords
  <2> QED BY <2>1, <2>2
<1> HIDE DEF i, j
<1>4. subKeys[i] \in Word /\ \A k \in 1..4 : keyWords[k] \in Word
  BY <1>1, <1>3
<1>5. 3 \in Word
  BY WordsExist DEF Word
<1>6. Plus(Plus(subKeys[i], keyWords[3]), keyWords[4]) \in Word
  BY <1>4, WordArithmetic
<1>7. A \in Word
  BY <1>5, <1>6, RotateLaw
<1> HIDE DEF A
<1>8. sum \in Word
  BY <1>4, <1>7, WordArithmetic
<1> HIDE DEF sum
<1>9. Plus(keyWords[j], sum) \in Word
  BY <1>3, <1>4, <1>8, WordArithmetic
<1>10. B \in Word
  BY <1>8, <1>9, RotateLaw
<1> HIDE DEF B
<1>11. /\ subKeys' = [subKeys EXCEPT ![i] = A]
       /\ keyWords' = [keyWords EXCEPT ![j] = B, ![3] = A, ![4] = B]
  BY DEF RC5Mix, i, j, A, sum, B
<1>12. keyWords' \in [1..4 -> Word]
  BY <1>1, <1>3, <1>7, <1>10, <1>11
<1>13. subKeys' \in [0..(KeyCount - 1) -> Word]
  BY <1>1, <1>7, <1>11
<1> QED BY <1>1, <1>2, <1>12, <1>13 DEF RC5Mix, BlockInv, BlockType, Links, Position,
           BlockRoundTrip, Algorithms, Working

LEMMA BeginKeeps ==
    ASSUME BlockInv, NEW l \in Word, NEW r \in Word, Begin(l, r)
    PROVE  BlockInv'
<1>1. algorithm \in Algorithms /\ subKeys \in [0..(KeyCount - 1) -> Word]
  BY DEF BlockInv, BlockType, Begin
<1>2. KeyCount' = KeyCount /\ KeyCount \in Nat /\ KeyCount > 1
  BY RoundsType DEF Begin, KeyCount
<1>3. subKeys[0] \in Word /\ subKeys[1] \in Word
  BY <1>1, <1>2
<1>4. Plus(l, subKeys[0]) \in Word /\ Plus(r, subKeys[1]) \in Word
  BY <1>3, WordArithmetic
<1>5. left' \in Word /\ right' \in Word
  BY <1>4 DEF Begin
<1>6. trace' = [i \in 0..Rounds |-> <<left', right'>>] /\ block' = <<l, r>> /\ n' = 1
  BY DEF Begin
<1>7. <<left', right'>> = Whitened(block)'
  BY <1>1, <1>6 DEF Begin, Whitened, Algorithms
<1>8. trace'[0] = <<left', right'>>
  BY <1>6, RoundsType
<1>9. Links'
  <2>1. Done' = 0
    BY <1>6 DEF Begin, Done
  <2> QED BY <1>7, <1>8, <2>1 DEF Links
<1>10. Position'
  <2>1. stage' = "encrypting" /\ n' - 1 = 0
    BY <1>6 DEF Begin
  <2> QED BY <1>8, <2>1 DEF Position
<1> QED BY <1>1, <1>2, <1>5, <1>6, <1>9, <1>10, RoundsType
        DEF Begin, BlockInv, BlockType, BlockRoundTrip, Algorithms, Working

LEMMA EncipherKeeps ==
    ASSUME BlockInv, Encipher
    PROVE  BlockInv'
<1>1. /\ algorithm \in Algorithms /\ subKeys \in [0..(KeyCount - 1) -> Word]
      /\ n \in 1..Rounds /\ left \in Word /\ right \in Word
      /\ block \in Word \X Word /\ trace \in [0..Rounds -> Word \X Word]
      /\ trace[n - 1] = <<left, right>>
      /\ trace[0] = Whitened(block)
      /\ \A i \in 1..(n - 1) : trace[i] = Round(trace[i - 1], i)
  BY DEF BlockInv, BlockType, Links, Position, Done, Encipher
<1> DEFINE next == Round(<<left, right>>, n)
<1>2. next \in Word \X Word
  BY <1>1, RoundBack
<1>3. /\ trace' = [trace EXCEPT ![n] = next]
      /\ <<left', right'>> = IF n = Rounds /\ algorithm = "LOKI97"
                             THEN <<next[2], next[1]>> ELSE next
  BY <1>1 DEF Encipher, Round, Algorithms
<1>4. /\ algorithm' = algorithm /\ subKeys' = subKeys /\ block' = block
      /\ KeyCount' = KeyCount
      /\ \A p, i : Round(p, i)' = Round(p, i)
      /\ Whitened(block)' = Whitened(block)
  BY DEF Encipher, KeyCount, Round, LokiLeft, LokiRight, RC5Left, RC5Right, SK, Whitened
<1> HIDE DEF next
<1>5. trace' \in [0..Rounds -> Word \X Word]
  BY <1>1, <1>2, <1>3
<1>6. left' \in Word /\ right' \in Word
  BY <1>2, <1>3
<1>7. trace'[0] = trace[0] /\ \A i \in 1..(n - 1) : trace'[i] = trace[i]
  BY <1>1, <1>3
<1>8. trace'[n] = next /\ trace'[n - 1] = <<left, right>>
  BY <1>1, <1>3
<1>9. \A i \in 1..n : trace'[i] = Round(trace'[i - 1], i)
  <2> SUFFICES ASSUME NEW i \in 1..n PROVE trace'[i] = Round(trace'[i - 1], i)
    OBVIOUS
  <2>1. CASE i = n
    BY <1>8, <2>1 DEF next
  <2>2. CASE i # n
    <3>1. i \in 1..(n - 1) /\ trace'[i - 1] = trace[i - 1]
      BY <1>1, <1>7, <2>2
    <3> QED BY <1>1, <1>7, <3>1
  <2> QED BY <2>1, <2>2
<1>10. Links'
  <2>1. Done' = n
    BY <1>1 DEF Encipher, Done
  <2> QED BY <1>1, <1>4, <1>7, <1>9, <2>1 DEF Links
<1>11. Position'
  <2>1. CASE n = Rounds
    BY <1>2, <1>3, <1>4, <1>8, <2>1 DEF Position, Encipher
  <2>2. CASE n # Rounds
    BY <1>1, <1>2, <1>3, <1>4, <1>8, <2>2 DEF Position, Encipher
  <2> QED BY <2>1, <2>2
<1> QED BY <1>1, <1>4, <1>5, <1>6, <1>10, <1>11, RoundsType
        DEF Encipher, BlockInv, BlockType, BlockRoundTrip, Algorithms, Working

LEMMA ReturnKeeps ==
    ASSUME BlockInv, Return
    PROVE  BlockInv'
<1>1. /\ KeyCount' = KeyCount
      /\ \A p, i : Round(p, i)' = Round(p, i)
      /\ Whitened(block)' = Whitened(block)
      /\ Done' = Done
  BY DEF Return, KeyCount, Round, LokiLeft, LokiRight, RC5Left, RC5Right, SK, Whitened, Done
<1>2. BlockType'
  BY <1>1, RoundsType DEF Return, BlockInv, BlockType, Working
<1>3. Links'
  BY <1>1 DEF Return, BlockInv, Links
<1> QED BY <1>2, <1>3 DEF Return, BlockInv, Position, BlockRoundTrip

LEMMA DecipherKeeps ==
    ASSUME BlockInv, Decipher
    PROVE  BlockInv'
<1>1. /\ algorithm \in Algorithms /\ subKeys \in [0..(KeyCount - 1) -> Word]
      /\ n \in 1..Rounds /\ left \in Word /\ right \in Word
      /\ block \in Word \X Word /\ trace \in [0..Rounds -> Word \X Word]
      /\ trace[n] = IF algorithm = "LOKI97" THEN <<right, left>> ELSE <<left, right>>
      /\ trace[0] = Whitened(block)
      /\ trace[n] = Round(trace[n - 1], n)
  BY DEF BlockInv, BlockType, Links, Position, Done, Decipher
<1> DEFINE back == Unround(trace[n], n)
           last == n = 1
<1>2. back = trace[n - 1] /\ back \in Word \X Word
  <2>1. trace[n - 1] \in Word \X Word
    BY <1>1, RoundsType
  <2> QED BY <1>1, <2>1, RoundBack
<1>3. <<left', right'>> =
         IF ~last THEN IF algorithm = "LOKI97" THEN <<back[2], back[1]>> ELSE back
         ELSE IF algorithm = "LOKI97" THEN back
         ELSE <<Minus(back[1], subKeys[0]), Minus(back[2], subKeys[1])>>
  BY <1>1 DEF Decipher, Unround, Algorithms
<1>4. /\ algorithm' = algorithm /\ subKeys' = subKeys /\ block' = block /\ trace' = trace
      /\ KeyCount' = KeyCount
      /\ \A p, i : Round(p, i)' = Round(p, i)
      /\ Whitened(block)' = Whitened(block)
  BY DEF Decipher, KeyCount, Round, LokiLeft, LokiRight, RC5Left, RC5Right, SK, Whitened
<1> HIDE DEF back
<1>5. subKeys[0] \in Word /\ subKeys[1] \in Word
  BY <1>1, RoundsType DEF KeyCount
<1>6. CASE ~last
  <2>1. left' \in Word /\ right' \in Word
    BY <1>2, <1>3, <1>6
  <2>2. stage' = "decrypting" /\ n' = n - 1 /\ n' \in 1..Rounds
    BY <1>1, <1>6, RoundsType DEF Decipher
  <2>3. Position'
    BY <1>1, <1>2, <1>3, <1>4, <1>6, <2>2 DEF Position, Algorithms
  <2>4. Links'
    <3>1. Done' = Done
      BY <2>2 DEF Decipher, Done
    <3> QED BY <1>4, <2>2, <3>1 DEF Decipher, BlockInv, Links
  <2> QED BY <1>1, <1>4, <2>1, <2>2, <2>3, <2>4
          DEF BlockInv, BlockType, BlockRoundTrip, Algorithms, Working
<1>7. CASE last
  <2>1. back = Whitened(block)
    BY <1>1, <1>2, <1>7
  <2>2. <<left', right'>> = block
    <3>1. PICK x \in Word, y \in Word : block = <<x, y>>
      BY <1>1
    <3>2. CASE algorithm = "LOKI97"
      BY <1>2, <1>3, <1>7, <2>1, <3>1, <3>2 DEF Whitened
    <3>3. CASE algorithm = "RC5"
      <4>1. Minus(Plus(x, subKeys[0]), subKeys[0]) = x
        BY <1>5, <3>1, WordArithmetic
      <4>2. Minus(Plus(y, subKeys[1]), subKeys[1]) = y
        BY <1>5, <3>1, WordArithmetic
      <4> QED BY <1>2, <1>3, <1>7, <2>1, <3>1, <3>3, <4>1, <4>2 DEF Whitened
    <3> QED BY <1>1, <3>2, <3>3 DEF Algorithms
  <2>3. left' \in Word /\ right' \in Word
    BY <1>1, <2>2
  <2>4. stage' = "decrypted"
    BY <1>7 DEF Decipher
  <2> QED BY <1>1, <1>4, <2>2, <2>3, <2>4
          DEF BlockInv, BlockType, Links, Position, BlockRoundTrip, Algorithms, Working
<1> QED BY <1>6, <1>7

LEMMA BlockInductive == BlockInv /\ [BlockNext]_blockVars => BlockInv'
<1> SUFFICES ASSUME BlockInv, [BlockNext]_blockVars PROVE BlockInv'
  OBVIOUS
<1>1. ASSUME NEW x \in Word, NEW y \in Word, SetLokiKey(x, y) \/ SetRC5Key(x, y)
      PROVE  BlockInv'
  BY <1>1, SetKeyTyped
<1>2. ASSUME NEW x \in Word, NEW y \in Word, Begin(x, y) PROVE BlockInv'
  BY <1>2, BeginKeeps
<1>3. CASE LokiSubKey
  BY <1>3, LokiSubKeyTyped
<1>4. CASE RC5SubKey
  BY <1>4, RC5SubKeyTyped
<1>5. CASE RC5Mix
  BY <1>5, RC5MixTyped
<1>6. CASE Encipher
  BY <1>6, EncipherKeeps
<1>7. CASE Return
  BY <1>7, ReturnKeeps
<1>8. CASE Decipher
  BY <1>8, DecipherKeeps
<1>9. CASE UNCHANGED blockVars
  <2>1. /\ KeyCount' = KeyCount /\ Done' = Done
        /\ \A p, i : Round(p, i)' = Round(p, i)
        /\ Whitened(block)' = Whitened(block)
    BY <1>9 DEF blockVars, Done, Whitened, Round, LokiLeft, LokiRight, RC5Left, RC5Right,
                SK, KeyCount
  <2>2. BlockType'
    BY <1>9, <2>1 DEF blockVars, BlockInv, BlockType
  <2>3. Links'
    BY <1>9, <2>1 DEF blockVars, BlockInv, Links
  <2> QED BY <1>9, <2>2, <2>3 DEF blockVars, BlockInv, Position, BlockRoundTrip
<1> QED BY <1>1, <1>2, <1>3, <1>4, <1>5, <1>6, <1>7, <1>8, <1>9 DEF BlockNext

\* Decrypt undoes Encrypt for both ciphers, whatever the key, the number of
\* rounds, the width of the words and the function f.
THEOREM BlocksComeBack == BlockSpec => []BlockRoundTrip
<1>1. BlockSpec => []BlockInv
  BY BlockInitially, BlockInductive, PTL DEF BlockSpec
<1>2. BlockInv => BlockRoundTrip
  BY DEF BlockInv
<1> QED BY <1>1, <1>2, PTL
=============================================================================
