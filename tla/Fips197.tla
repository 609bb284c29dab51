------------------------------ MODULE Fips197 ------------------------------
(****************************************************************************)
(* The cipher as its standard defines it: on bytes, without tables.  The    *)
(* state is the sequence of its 16 bytes, column after column.              *)
(****************************************************************************)
EXTENDS Aes

\* The product of two elements of GF(2^8).
Product(x, y) ==
    LET x16 == Double[Double[Double[Double[x]]]]
    IN  Exor(Times(y % 16, x), Times(y \div 16, x16))

\* The S-box: the inverse, then the affine map of the standard.
SubByte ==
    [x \in Byte |->
        LET b       == IF x = 0 THEN 0 ELSE CHOOSE y \in Byte : Product(x, y) = 1
            Rotl(n) == ((b * 2^n) % 256) + ((b * 2^n) \div 256)
        IN  Exor(Exor(Exor(b, Rotl(1)), Exor(Rotl(2), Rotl(3))), Exor(Rotl(4), 99))]

Sixteen(Op(_)) ==
    <<Op(1), Op(2), Op(3), Op(4), Op(5), Op(6), Op(7), Op(8), Op(9), Op(10),
      Op(11), Op(12), Op(13), Op(14), Op(15), Op(16)>>

SubBytes(s) == Sixteen(LAMBDA i : SubByte[s[i]])

\* Row r moves r columns to the left.
ShiftRows(s) == Sixteen(LAMBDA i : s[(((i - 1) + 4 * ((i - 1) % 4)) % 16) + 1])

MixColumns(s) ==
    Sixteen(LAMBDA i :
        LET row   == (i - 1) % 4
            In(r) == s[(i - row) + ((row + r) % 4)]
        IN  Exor(Exor(Times(2, In(0)), Times(3, In(1))), Exor(In(2), In(3))))

AddRoundKey(s, k) == Sixteen(LAMBDA i : Exor(s[i], k[i]))

\* The round key that follows k: each column is the one before it plus the one
\* of k in its place; for the first that one is rotated, substituted, and has
\* the round constant added.
NextRoundKey(k, constant) ==
    LET Column1(i) == Exor(k[i], Exor(SubByte[k[13 + (i % 4)]],
                                      IF i = 1 THEN constant ELSE 0))
        K[i \in 1..16] == IF i <= 4 THEN Column1(i) ELSE Exor(k[i], K[i - 4])
    IN  Sixteen(LAMBDA i : K[i])

\* x^(r - 1)
RoundConstant(r) == <<1, 2, 4, 8, 16, 32, 64, 128, 27, 54>>[r]

\* The cipher on block p with a key of 16 bytes.
Cipher(p, key) ==
    LET RoundKey[r \in 0..10] ==
          IF r = 0 THEN Sixteen(LAMBDA i : key[i])
          ELSE NextRoundKey(RoundKey[r - 1], RoundConstant(r))
        State[r \in 0..10] ==
          IF r = 0 THEN AddRoundKey(p, RoundKey[0])
          ELSE LET s == ShiftRows(SubBytes(State[r - 1]))
               IN  AddRoundKey(IF r < 10 THEN MixColumns(s) ELSE s, RoundKey[r])
    IN  State[10]
=============================================================================
