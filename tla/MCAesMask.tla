----------------------------- MODULE MCAesMask -----------------------------
(* AesMask with the cipher of emi_aes.c.                                    *)
EXTENDS AesMask, Fips197

\* The S-box of the header is the standard's.
ASSUME SBoxAssumption == S = SubByte

\* Keys as users pass them: none, a word, and one that is cut off.
Letters(n) == [i \in 1..n |-> 97 + ((5 * i) % 26)]
Keys == {<<>>, Letters(5), Letters(40)}

Pads   == {[i \in 1..16 |-> (11 * i * i + k) % 256] : k \in {0, 200}}
Strays == {0, 77}

Text(n)  == [i \in 1..n |-> (31 * i + n) % 256]
Payloads == {Text(n) : n \in {7, 16, 30, 52, 53}}

\* What the proofs about AesMask suppose, of these keys and masks.
ASSUME InverseAssumption == CipherInverts

\* The mask that is stored is encrypted as FIPS 197 says, under the key that
\* emi_aes_encrypt makes of the user's (emi_aes.c:418-442).
CipherIsFips ==
    phase = "coded" /\ header = "whole" =>
        [i \in 1..16 |-> mem[size - 17 + i]] = Cipher(sealed.pad, KeyBytes(sealed.key))
=============================================================================
