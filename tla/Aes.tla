-------------------------------- MODULE Aes --------------------------------
(****************************************************************************)
(* The block cipher of emi_aes.c and the tables of include/emi_aes.h.  A    *)
(* word is the tuple of its four bytes, the highest first, so that byte(w,  *)
(* n) is w[4 - n] and LOAD32H and STORE32H cut a block into words and join  *)
(* them; & with a mask keeps one byte.  The tables are defined as the       *)
(* header's comment says what they hold; S is copied from Te4, the other    *)
(* numbers of the header are not part of the model.                         *)
(****************************************************************************)
EXTENDS Naturals, Sequences
LOCAL INSTANCE Bitwise

Byte  == 0..255
Block == [1..16 -> Byte]

\* x ^ y, as a table: the operator ^^ recomputes every bit.
XorTable    == [x \in Byte |-> [y \in Byte |-> x ^^ y]]
Exor(x, y)  == XorTable[x][y]
Four(Op(_)) == <<Op(1), Op(2), Op(3), Op(4)>>
v (+) w     == Four(LAMBDA i : Exor(v[i], w[i]))

-----------------------------------------------------------------------------
(* Tables                                                                   *)

\* Te4, whose words repeat the S-box four times.
S == [x \in Byte |-> <<
     99, 124, 119, 123, 242, 107, 111, 197,  48,   1, 103,  43, 254, 215, 171, 118,
    202, 130, 201, 125, 250,  89,  71, 240, 173, 212, 162, 175, 156, 164, 114, 192,
    183, 253, 147,  38,  54,  63, 247, 204,  52, 165, 229, 241, 113, 216,  49,  21,
      4, 199,  35, 195,  24, 150,   5, 154,   7,  18, 128, 226, 235,  39, 178, 117,
      9, 131,  44,  26,  27, 110,  90, 160,  82,  59, 214, 179,  41, 227,  47, 132,
     83, 209,   0, 237,  32, 252, 177,  91, 106, 203, 190,  57,  74,  76,  88, 207,
    208, 239, 170, 251,  67,  77,  51, 133,  69, 249,   2, 127,  80,  60, 159, 168,
     81, 163,  64, 143, 146, 157,  56, 245, 188, 182, 218,  33,  16, 255, 243, 210,
    205,  12,  19, 236,  95, 151,  68,  23, 196, 167, 126,  61, 100,  93,  25, 115,
     96, 129,  79, 220,  34,  42, 144, 136,  70, 238, 184,  20, 222,  94,  11, 219,
    224,  50,  58,  10,  73,   6,  36,  92, 194, 211, 172,  98, 145, 149, 228, 121,
    231, 200,  55, 109, 141, 213,  78, 169, 108,  86, 244, 234, 101, 122, 174,   8,
    186, 120,  37,  46,  28, 166, 180, 198, 232, 221, 116,  31,  75, 189, 139, 138,
    112,  62, 181, 102,  72,   3, 246,  14,  97,  53,  87, 185, 134, 193,  29, 158,
    225, 248, 152,  17, 105, 217, 142, 148, 155,  30, 135, 233, 206,  85,  40, 223,
    140, 161, 137,  13, 191, 230,  66, 104,  65, 153,  45,  15, 176,  84, 187,  22 >>[x + 1]]

\* Td4.
Si == [y \in Byte |-> CHOOSE x \in Byte : S[x] = y]

\* The field GF(2^8): x.[02], and x.[c] for the c below 16.
Double == [x \in Byte |-> Exor((2 * x) % 256, IF x < 128 THEN 0 ELSE 27)]
Times(c, x) ==
    LET x2 == Double[x]
        x4 == Double[x2]
        x8 == Double[x4]
        If(bit, y) == IF (c \div bit) % 2 = 1 THEN y ELSE 0
    IN  Exor(Exor(If(1, x), If(2, x2)), Exor(If(4, x4), If(8, x8)))

\* box[x].[m1, m2, m3, m4]
Column(box, m) == [x \in Byte |-> Four(LAMBDA i : Times(m[i], box[x]))]
Same == [x \in Byte |-> x]

TE0 == Column(S, <<2, 1, 1, 3>>)
TE1 == Column(S, <<3, 2, 1, 1>>)
TE2 == Column(S, <<1, 3, 2, 1>>)
TE3 == Column(S, <<1, 1, 3, 2>>)

Te4_3 == Column(S, <<1, 0, 0, 0>>)
Te4_2 == Column(S, <<0, 1, 0, 0>>)
Te4_1 == Column(S, <<0, 0, 1, 0>>)
Te4_0 == Column(S, <<0, 0, 0, 1>>)

TD0 == Column(Si, <<14, 9, 13, 11>>)
TD1 == Column(Si, <<11, 14, 9, 13>>)
TD2 == Column(Si, <<13, 11, 14, 9>>)
TD3 == Column(Si, <<9, 13, 11, 14>>)

Tks0 == Column(Same, <<14, 9, 13, 11>>)
Tks1 == Column(Same, <<11, 14, 9, 13>>)
Tks2 == Column(Same, <<13, 11, 14, 9>>)
Tks3 == Column(Same, <<9, 13, 11, 14>>)

rcon == [i \in 0..9 |-> << <<1, 2, 4, 8, 16, 32, 64, 128, 27, 54>>[i + 1], 0, 0, 0>>]

-----------------------------------------------------------------------------
(* Key schedule                                                             *)

\* LOAD32H of the word that begins at byte i.
LOAD32H(y, i) == <<y[i + 1], y[i + 2], y[i + 3], y[i + 4]>>

\* Faulty variant: the word is substituted but not rotated.
mix_unrotated(w) == Te4_3[w[1]] (+) Te4_2[w[2]] (+) Te4_1[w[3]] (+) Te4_0[w[4]]

setup_mix(w) == Te4_3[w[2]] (+) Te4_2[w[3]] (+) Te4_1[w[4]] (+) Te4_0[w[1]]

\* One turn of the loop for 16 bytes of key: the four words after rk.
NextWords(rk, i) ==
    LET rk4 == rk[1] (+) setup_mix(rk[4]) (+) rcon[i]
        rk5 == rk[2] (+) rk4
        rk6 == rk[3] (+) rk5
    IN  <<rk4, rk5, rk6, rk[4] (+) rk6>>

\* The 44 words of ekey.
ExpandedKey(key) ==
    LET Words[i \in 0..10] ==
          IF i = 0 THEN Four(LAMBDA j : LOAD32H(key, 4 * (j - 1)))
          ELSE LET rk == Words[i - 1]
               IN  rk \o NextWords(SubSeq(rk, Len(rk) - 3, Len(rk)), i - 1)
    IN  Words[10]

\* The words of dkey: the rounds in reverse, all but the first and the last
\* through the inverse of MixColumns.
InverseKey(ekey) ==
    LET last == Len(ekey) - 4
        Mix(w) == Tks0[w[1]] (+) Tks1[w[2]] (+) Tks2[w[3]] (+) Tks3[w[4]]
    IN  [j \in 1..Len(ekey) |->
            LET w == ekey[last - 4 * ((j - 1) \div 4) + ((j - 1) % 4) + 1]
            IN  IF j \in 5..last THEN Mix(w) ELSE w]

\* schedule_key with keylen = 16, which is what both callers pass; the branches
\* for 24 and 32 are left out.
schedule_key(key) ==
    LET ekey == ExpandedKey(key)
    IN  [ekey |-> ekey, dkey |-> InverseKey(ekey)]

-----------------------------------------------------------------------------
(* Blocks                                                                   *)

\* The state's word c, counted around.
At(s, c) == s[(c % 4) + 1]

\* s0..s3 after the initial round key.
FirstRound(pt, rk) == Four(LAMBDA c : LOAD32H(pt, 4 * (c - 1)) (+) rk[c])

\* STORE32H of the four words.
Stored(s) == s[1] \o s[2] \o s[3] \o s[4]

\* The rounds follow each other in s and t by turns; r is the number of the
\* round and rk its four words.
EncryptRound(s, ekey, r) ==
    Four(LAMBDA c : TE0[At(s, c - 1)[1]] (+) TE1[At(s, c)[2]]
                (+) TE2[At(s, c + 1)[3]] (+) TE3[At(s, c + 2)[4]] (+) ekey[4 * r + c])

EncryptLast(s, ekey, r) ==
    Four(LAMBDA c : Te4_3[At(s, c - 1)[1]] (+) Te4_2[At(s, c)[2]]
                (+) Te4_1[At(s, c + 1)[3]] (+) Te4_0[At(s, c + 2)[4]] (+) ekey[4 * r + c])

aes_encrypt(pt, ekey, nr) ==
    LET State[r \in 0..(nr - 1)] ==
          IF r = 0 THEN FirstRound(pt, ekey) ELSE EncryptRound(State[r - 1], ekey, r)
    IN  Stored(EncryptLast(State[nr - 1], ekey, nr))

DecryptRound(s, dkey, r) ==
    Four(LAMBDA c : TD0[At(s, c - 1)[1]] (+) TD1[At(s, c + 2)[2]]
                (+) TD2[At(s, c + 1)[3]] (+) TD3[At(s, c)[4]] (+) dkey[4 * r + c])

\* Td4 & a mask: one byte of Si.
DecryptLast(s, dkey, r) ==
    Four(LAMBDA c : <<Si[At(s, c - 1)[1]], Si[At(s, c + 2)[2]],
                      Si[At(s, c + 1)[3]], Si[At(s, c)[4]]>> (+) dkey[4 * r + c])

aes_decrypt(ct, dkey, nr) ==
    LET State[r \in 0..(nr - 1)] ==
          IF r = 0 THEN FirstRound(ct, dkey) ELSE DecryptRound(State[r - 1], dkey, r)
    IN  Stored(DecryptLast(State[nr - 1], dkey, nr))

-----------------------------------------------------------------------------
(* What the library calls; key is a string, the sequence of its bytes       *)

\* k before the key is written over it.
DefaultKey ==
    <<18, 69, 175, 49, 94, 150, 227, 214, 157, 126, 73, 25, 66, 56, 72, 83,
      26, 4, 50, 148, 165, 213, 78, 32, 232, 33, 80, 6, 10, 77, 88, 138>>

\* The key's bytes go to k[n], ..., k[1]: the string backwards, at most 31 bytes
\* of it, and k[0] stays.
KeyBytes(key) ==
    LET n == IF Len(key) >= 32 THEN 31 ELSE Len(key)
    IN  [i \in 1..32 |-> IF i \in 2..(n + 1) THEN key[n + 2 - i] ELSE DefaultKey[i]]

emi_aes_encrypt(pt, key) == aes_encrypt(pt, schedule_key(KeyBytes(key)).ekey, 10)
emi_aes_decrypt(ct, key) == aes_decrypt(ct, schedule_key(KeyBytes(key)).dkey, 10)
=============================================================================
