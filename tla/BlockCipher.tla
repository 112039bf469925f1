---------------------------- MODULE BlockCipher ----------------------------
(***************************************************************************)
(* The two block ciphers (algorithm/loki97.go, algorithm/rc5.go): the key  *)
(* expansion, sub-key by sub-key, and one block on its way through the     *)
(* rounds and back.                                                        *)
(*                                                                         *)
(* Words are the 64-bit halves of a block; both programs add and subtract  *)
(* them modulo the width, LOKI97 byte by byte with a carry.  What LOKI97's *)
(* f is built from (KP, E, Sa, P, Sb, loki97.go:226-244) does not matter   *)
(* to any property here: f is any function of two words.  It changes its   *)
(* first argument in place, which is always a fresh sum or a copy.         *)
(***************************************************************************)
EXTENDS Integers

CONSTANTS
    Modulus,        \* 2^64 in the program
    Xor(_, _),
    Rol(_, _), Ror(_, _),
    F(_, _),        \* LOKI97's f
    Delta,          \* LOKI97's constant
    P, Q,           \* RC5's constants
    Rounds          \* 16 of LOKI97, 12 of RC5

Word == 0..(Modulus - 1)

ASSUME WordsExist == Modulus \in Nat /\ Modulus > 3
ASSUME RoundsType == Rounds \in Nat \ {0}
ASSUME ConstantsType == Delta \in Word /\ P \in Word /\ Q \in Word
ASSUME XorLaw == \A x, y \in Word : Xor(x, y) \in Word /\ Xor(Xor(x, y), y) = x
ASSUME RotateLaw ==
    \A x, y \in Word : Rol(x, y) \in Word /\ Ror(x, y) \in Word /\ Ror(Rol(x, y), y) = x
ASSUME FType == \A x, y \in Word : F(x, y) \in Word

VARIABLES
    algorithm,      \* "LOKI97" or "RC5"
    stage,          \* what the cipher is doing
    n,              \* steps of the key expansion, or the round
    subKeys,        \* LOKI97's subKeys, RC5's S
    keyWords,       \* LOKI97: K1, K2, K3, K4 and Delta times n; RC5: L, A and B
    left, right,    \* L and R, A and B
    block,          \* the block that Encrypt was given
    trace           \* trace[i]: left and right after round i of Encrypt

blockVars == <<algorithm, stage, n, subKeys, keyWords, left, right, block, trace>>

-----------------------------------------------------------------------------
Plus(x, y) == IF x + y < Modulus THEN x + y ELSE x + y - Modulus

Minus(x, y) == IF x >= y THEN x - y ELSE x - y + Modulus

KeyCount == IF algorithm = "LOKI97" THEN 3 * Rounds ELSE 2 * (Rounds + 1)

\* The number of words of L: keys have 16 bytes.
LWords == 2

MixSteps == 3 * (2 * (Rounds + 1))

-----------------------------------------------------------------------------
(* SetKey.                                                                 *)

SetLokiKey(Ka, Kb) ==
    /\ stage = "fresh"
    /\ algorithm' = "LOKI97" /\ stage' = "subkeys" /\ n' = 0
    /\ keyWords' = <<F(Ka, Kb), F(Kb, Ka), Kb, Ka, 0>>
    /\ subKeys' = [i \in 0..(3 * Rounds - 1) |-> 0]
    /\ UNCHANGED <<left, right, block, trace>>

\* generateSubkeys: a sub-key, and the four words move on.
LokiSubKey ==
    LET K1 == keyWords[1]
        K2 == keyWords[2]
        K3 == keyWords[3]
        g == F(Plus(Plus(K1, K3), keyWords[5]), K2)
    IN
    /\ stage = "subkeys" /\ algorithm = "LOKI97"
    /\ subKeys' = [subKeys EXCEPT ![n] = Xor(K1, g)]
    /\ keyWords' = <<keyWords[4], K1, K2, K3, Plus(keyWords[5], Delta)>>
    /\ n' = n + 1
    /\ stage' = IF n + 1 = KeyCount THEN "ready" ELSE "subkeys"
    /\ UNCHANGED <<algorithm, left, right, block, trace>>

SetRC5Key(L0, L1) ==
    /\ stage = "fresh"
    /\ algorithm' = "RC5" /\ stage' = "subkeys" /\ n' = 1
    /\ keyWords' = <<L0, L1, 0, 0>>
    /\ subKeys' = [i \in 0..(2 * Rounds + 1) |-> P]
    /\ UNCHANGED <<left, right, block, trace>>

RC5SubKey ==
    /\ stage = "subkeys" /\ algorithm = "RC5"
    /\ subKeys' = [subKeys EXCEPT ![n] = Plus(subKeys[n - 1], Q)]
    /\ IF n + 1 = KeyCount THEN stage' = "mixing" /\ n' = 0
                           ELSE stage' = "subkeys" /\ n' = n + 1
    /\ UNCHANGED <<algorithm, keyWords, left, right, block, trace>>

RC5Mix ==
    LET i == n % KeyCount
        j == 1 + (n % LWords)
        A == Rol(Plus(Plus(subKeys[i], keyWords[3]), keyWords[4]), 3)
        sum == Plus(A, keyWords[4])
        B == Rol(Plus(keyWords[j], sum), sum)
    IN
    /\ stage = "mixing"
    /\ subKeys' = [subKeys EXCEPT ![i] = A]
    /\ keyWords' = [keyWords EXCEPT ![j] = B, ![3] = A, ![4] = B]
    /\ n' = n + 1
    /\ stage' = IF n + 1 = MixSteps THEN "ready" ELSE "mixing"
    /\ UNCHANGED <<algorithm, left, right, block, trace>>

-----------------------------------------------------------------------------
(* Encrypt.                                                                *)

\* A block arrives; RC5 adds the first two sub-keys to it.
Begin(l, r) ==
    /\ stage = "ready"
    /\ block' = <<l, r>>
    /\ left' = IF algorithm = "RC5" THEN Plus(l, subKeys[0]) ELSE l
    /\ right' = IF algorithm = "RC5" THEN Plus(r, subKeys[1]) ELSE r
    /\ trace' = [i \in 0..Rounds |-> <<left', right'>>]
    /\ n' = 1 /\ stage' = "encrypting"
    /\ UNCHANGED <<algorithm, subKeys, keyWords>>

\* The three sub-keys of LOKI97's round i; the last round takes number 0.
SK(i, k) == subKeys[(3 * i - 3 + k) % (3 * Rounds)]

LokiLeft(l, r, i) == Plus(Plus(r, SK(i, 1)), SK(i, 3))
LokiRight(l, r, i) == Xor(l, F(Plus(r, SK(i, 1)), SK(i, 2)))

RC5Left(l, r, i) == Plus(Rol(Xor(l, r), r), subKeys[2 * i])
RC5Right(l, r, i) == Plus(Rol(Xor(r, l), l), subKeys[2 * i + 1])

\* One round; after the last LOKI97 puts the halves out in swapped order.
Encipher ==
    /\ stage = "encrypting"
    /\ LET l == IF algorithm = "LOKI97" THEN LokiLeft(left, right, n)
                                        ELSE RC5Left(left, right, n)
           r == IF algorithm = "LOKI97" THEN LokiRight(left, right, n)
                                        ELSE RC5Right(l, right, n)
           swap == n = Rounds /\ algorithm = "LOKI97"
       IN
       /\ trace' = [trace EXCEPT ![n] = <<l, r>>]
       /\ left' = IF swap THEN r ELSE l
       /\ right' = IF swap THEN l ELSE r
    /\ IF n = Rounds THEN stage' = "encrypted" /\ n' = n
                     ELSE stage' = "encrypting" /\ n' = n + 1
    /\ UNCHANGED <<algorithm, subKeys, keyWords, block>>

-----------------------------------------------------------------------------
(* Decrypt.                                                                *)

Return ==
    /\ stage = "encrypted"
    /\ stage' = "decrypting"
    /\ UNCHANGED <<algorithm, n, subKeys, keyWords, left, right, block, trace>>

\* Mutant: the sub-keys in the order of their numbers.
LokiUnleft_Order(l, r, i) == Minus(Minus(r, SK(i, 1)), SK(i, 2))

LokiUnleft(l, r, i) == Minus(Minus(r, SK(i, 3)), SK(i, 1))
LokiUnright(l, r, i) == Xor(l, F(Minus(r, SK(i, 3)), SK(i, 2)))

RC5Unright(l, r, i) == Xor(Ror(Minus(r, subKeys[2 * i + 1]), l), l)
RC5Unleft(l, r, i) == Xor(Ror(Minus(l, subKeys[2 * i]), r), r)

\* One round back; LOKI97 swaps the halves at the end, RC5 subtracts.
Decipher ==
    /\ stage = "decrypting"
    /\ LET r == IF algorithm = "LOKI97" THEN LokiUnright(left, right, n)
                                        ELSE RC5Unright(left, right, n)
           l == IF algorithm = "LOKI97" THEN LokiUnleft(left, right, n)
                                        ELSE RC5Unleft(left, r, n)
           last == n = 1
       IN
       /\ left' = CASE ~last -> l
                    [] last /\ algorithm = "LOKI97" -> r
                    [] OTHER -> Minus(l, subKeys[0])
       /\ right' = CASE ~last -> r
                     [] last /\ algorithm = "LOKI97" -> l
                     [] OTHER -> Minus(r, subKeys[1])
    /\ IF n = 1 THEN stage' = "decrypted" /\ n' = 0
                ELSE stage' = "decrypting" /\ n' = n - 1
    /\ UNCHANGED <<algorithm, subKeys, keyWords, block, trace>>

-----------------------------------------------------------------------------
BlockInit ==
    /\ algorithm = "none" /\ stage = "fresh" /\ n = 0
    /\ subKeys = <<>> /\ keyWords = <<>>
    /\ left = 0 /\ right = 0 /\ block = <<0, 0>>
    /\ trace = [i \in 0..Rounds |-> <<0, 0>>]

BlockNext ==
    \/ \E x, y \in Word : SetLokiKey(x, y) \/ SetRC5Key(x, y) \/ Begin(x, y)
    \/ LokiSubKey \/ RC5SubKey \/ RC5Mix
    \/ Encipher \/ Return \/ Decipher

BlockSpec == BlockInit /\ [][BlockNext]_blockVars

-----------------------------------------------------------------------------
(* Properties.                                                             *)

\* What Encrypt makes of a block, Decrypt turns back into that block, for
\* both ciphers and every key: each round is undone with the sub-keys it was
\* done with, the last of LOKI97 with the ones whose number wraps to 0
\* (loki97.go:113-136 against 421-444, rc5.go:145-149 against 97-102).
BlockRoundTrip ==
    stage = "decrypted" => <<left, right>> = block
=============================================================================
