--------------------------- MODULE AesMaskProofs ---------------------------
(***************************************************************************)
(* Proofs about AesMask, for every message, key, mask and size, and any    *)
(* cipher of which decryption undoes encryption.                           *)
(***************************************************************************)
EXTENDS AesMask, TLAPS

MaskType ==
    /\ size \in Int /\ size <= emi_data_size_per_msg
    /\ header = "whole" => size >= 0
    /\ turns \in Nat
    /\ phase = "plain" => \A i \in Area : i < size => mem[i] \in Char

\* What is in the message between encoding and decoding: its last 16 bytes are
\* the encrypted mask, and under it is what was encoded.
SealedOK == phase = "coded" /\ header = "whole" =>
    /\ size >= 16 /\ sealed.size = size
    /\ sealed.pad \in Pad /\ sealed.key \in Key
    /\ \A i \in Area : i < size => sealed.mem[i] \in Char
    /\ \A i \in 1..16 : mem[size - 17 + i] = Encrypt(sealed.pad, sealed.key)[i]
    /\ \A i \in Area : i < size - 16 /\ MaskIndex(i) # 16 =>
          mem[i] = (sealed.mem[i] - sealed.pad[MaskIndex(i) + 1]) % 256
    /\ \A i \in Area : i >= size => mem[i] = sealed.mem[i]

MaskInv == MaskType /\ SealedOK /\ Restored

LEMMA IndexFacts ==
    ASSUME NEW i \in Area
    PROVE  /\ i \in Int /\ i >= 0 /\ i < emi_data_size_per_msg
           /\ MaskIndex(i) \in 0..16
BY SizeAssumption DEF Area, MaskIndex

\* The mask's byte, where the loops stay inside the array.
LEMMA ByteFacts ==
    ASSUME NEW p \in Pad, NEW x, NEW i \in Area, MaskIndex(i) # 16
    PROVE  MaskByte(p, x, i) = p[MaskIndex(i) + 1] /\ p[MaskIndex(i) + 1] \in Char
<1>1. MaskIndex(i) \in 0..15
  BY IndexFacts
<1>2. p \in [1..16 -> Char]
  BY PadAssumption
<1>. QED BY <1>1, <1>2 DEF MaskByte

\* Subtracting and adding a byte modulo 256 is nothing.
LEMMA ModFacts ==
    ASSUME NEW a \in Char, NEW b \in Char
    PROVE  (((a - b) % 256) + b) % 256 = a
<1>. USE DEF Char
<1>1. CASE a >= b
  <2>1. (a - b) % 256 = a - b
    BY <1>1
  <2>. QED BY <1>1, <2>1
<1>2. CASE a < b
  <2>1. (a - b) % 256 = a - b + 256
    BY <1>2
  <2>2. (a + 256) % 256 = a
    OBVIOUS
  <2>3. ((a - b) % 256) + b = a + 256
    BY <2>1
  <2>. QED BY <2>2, <2>3
<1>. QED BY <1>1, <1>2

LEMMA MaskInit == Init => MaskInv
BY SizeAssumption DEF Init, MaskInv, MaskType, SealedOK, Restored

LEMMA PrepareStep ==
    ASSUME MaskInv, NEW d \in Payload, emi_msg_prepare_return_data(d)
    PROVE  MaskInv'
<1>. USE DEF MaskInv, MaskType, emi_msg_prepare_return_data
<1>1. d \in Seq(Char) /\ Len(d) \in Nat /\ Len(d) <= emi_data_size_per_msg
  BY PayloadAssumption
<1>2. \A i \in Area : i < Len(d) => d[i + 1] \in Char
  BY <1>1, IndexFacts
<1>3. MaskType'
  BY <1>1, <1>2
<1>4. SealedOK' /\ Restored'
  BY DEF SealedOK, Restored
<1>. QED BY <1>3, <1>4

LEMMA EncodeStep ==
    ASSUME CipherInverts, MaskInv, NEW k \in Key, emi_msg_encode_aes(k)
    PROVE  MaskInv'
<1>1. PICK p \in Pad, x \in Stray :
         /\ mem' = [i \in Area |->
                       IF i \in Tail16 THEN Encrypt(p, k)[i - (size - 16) + 1]
                       ELSE IF i < size THEN (mem[i] - MaskByte(p, x, i)) % 256
                       ELSE mem[i]]
         /\ sealed' = [mem |-> mem, size |-> size, key |-> k, pad |-> p]
  BY DEF emi_msg_encode_aes
<1>2. /\ header = "whole" /\ phase' = "coded" /\ size' = size /\ turns' = turns
      /\ header' = IF size < 16 THEN "overwritten" ELSE header
      /\ size \in Int /\ 0 <= size /\ size <= emi_data_size_per_msg
      /\ \A i \in Area : i < size => mem[i] \in Char
  BY DEF emi_msg_encode_aes, MaskInv, MaskType
<1>3. MaskType'
  BY <1>2 DEF MaskInv, MaskType
<1>4. ASSUME size >= 16, NEW i \in 1..16
      PROVE  mem'[size - 17 + i] = Encrypt(p, k)[i]
  <2>1. size - 17 + i \in Area /\ size - 17 + i \in Tail16
    BY <1>2, <1>4, SizeAssumption DEF Area, Tail16
  <2>. DEFINE j == size - 17 + i
  <2>2. j - (size - 16) + 1 = i
    BY <1>2
  <2>3. j \in Area /\ j \in Tail16
    BY <2>1
  <2>. HIDE DEF j
  <2>4. mem'[j] = Encrypt(p, k)[j - (size - 16) + 1]
    BY <1>1, <2>3
  <2>5. mem'[j] = Encrypt(p, k)[i]
    BY <2>2, <2>4
  <2>. QED BY <2>5 DEF j
<1>5. ASSUME NEW i \in Area, i < size - 16, MaskIndex(i) # 16
      PROVE  mem'[i] = (mem[i] - p[MaskIndex(i) + 1]) % 256
  <2>1. i \notin Tail16 /\ i < size
    BY <1>2, <1>5, IndexFacts DEF Tail16
  <2>. QED BY <1>1, <1>5, <2>1, ByteFacts
<1>6. ASSUME NEW i \in Area, i >= size
      PROVE  mem'[i] = mem[i]
  <2>1. i \notin Tail16 /\ ~(i < size)
    BY <1>2, <1>6, IndexFacts DEF Tail16
  <2>. QED BY <1>1, <2>1
<1>7. SealedOK'
  BY <1>1, <1>2, <1>4, <1>5, <1>6 DEF SealedOK
<1>8. Restored'
  BY <1>2 DEF Restored
<1>. QED BY <1>3, <1>7, <1>8 DEF MaskInv

LEMMA DecodeStep ==
    ASSUME CipherInverts, MaskInv, NEW k \in Key, emi_msg_decode_aes(k)
    PROVE  MaskInv'
<1>. DEFINE ct == [i \in 1..16 |-> mem[size - 17 + i]]
            c  == Decrypt(ct, k)
<1>1. PICK x \in Stray :
         mem' = [i \in Area |->
                    IF i \in Tail16 THEN 0
                    ELSE IF i < size - 16 THEN (mem[i] + MaskByte(c, x, i)) % 256
                    ELSE mem[i]]
  BY DEF emi_msg_decode_aes
<1>2. /\ header = "whole" /\ phase = "coded" /\ phase' = "decoded"
      /\ size' = size - 16 /\ opener' = k
      /\ UNCHANGED <<header, sealed, turns>>
      /\ size \in Int /\ size <= emi_data_size_per_msg /\ turns \in Nat
  BY DEF emi_msg_decode_aes, MaskInv, MaskType
<1>3. /\ size >= 16 /\ sealed.size = size
      /\ sealed.pad \in Pad /\ sealed.key \in Key
      /\ \A i \in Area : i < size => sealed.mem[i] \in Char
      /\ \A i \in 1..16 : mem[size - 17 + i] = Encrypt(sealed.pad, sealed.key)[i]
      /\ \A i \in Area : i < size - 16 /\ MaskIndex(i) # 16 =>
            mem[i] = (sealed.mem[i] - sealed.pad[MaskIndex(i) + 1]) % 256
      /\ \A i \in Area : i >= size => mem[i] = sealed.mem[i]
  BY <1>2 DEF SealedOK, MaskInv
<1>4. MaskType'
  BY <1>2, <1>3, SizeAssumption DEF MaskType
<1>5. SealedOK'
  BY <1>2 DEF SealedOK
<1>6. ASSUME k = sealed.key
      PROVE  c = sealed.pad
  <2>1. Encrypt(sealed.pad, k) \in [1..16 -> Char]
        /\ Decrypt(Encrypt(sealed.pad, k), k) = sealed.pad
    BY <1>3, <1>6 DEF CipherInverts
  <2>2. ct = Encrypt(sealed.pad, k)
    BY <1>3, <1>6, <2>1
  <2>. QED BY <2>1, <2>2
<1>. HIDE DEF c
<1>7. ASSUME k = sealed.key, NEW i \in Area, i < size - 16, MaskIndex(i) # 16
      PROVE  mem'[i] = sealed.mem[i]
  <2>1. i \notin Tail16 /\ i < size
    BY <1>2, <1>7, IndexFacts DEF Tail16
  <2>2. mem'[i] = (mem[i] + MaskByte(sealed.pad, x, i)) % 256
    BY <1>1, <1>6, <1>7, <2>1
  <2>. DEFINE b == sealed.pad[MaskIndex(i) + 1]
  <2>3. MaskByte(sealed.pad, x, i) = b /\ b \in Char
    BY <1>3, <1>7, ByteFacts
  <2>4. mem[i] = (sealed.mem[i] - b) % 256 /\ sealed.mem[i] \in Char
    BY <1>3, <1>7, <2>1
  <2>. HIDE DEF b
  <2>5. (((sealed.mem[i] - b) % 256) + b) % 256 = sealed.mem[i]
    BY <2>3, <2>4, ModFacts
  <2>. QED BY <2>2, <2>3, <2>4, <2>5
<1>8. ASSUME NEW i \in Area, i \in (size - 16)..(size - 1)
      PROVE  mem'[i] = 0
  BY <1>1, <1>8 DEF Tail16
<1>9. ASSUME NEW i \in Area, i >= size
      PROVE  mem'[i] = sealed.mem[i]
  <2>1. i \notin Tail16 /\ ~(i < size - 16)
    BY <1>2, <1>9, IndexFacts DEF Tail16
  <2>. QED BY <1>1, <1>3, <1>9, <2>1
<1>10. ASSUME k = sealed.key
       PROVE  Restored'
  <2>1. (size - 16) + 15 = size - 1 /\ (size - 16) + 16 = size
    BY <1>2
  <2>. QED BY <1>2, <1>3, <1>7, <1>8, <1>9, <1>10, <2>1 DEF Restored
<1>11. ASSUME k # sealed.key
       PROVE  Restored'
  BY <1>2, <1>11 DEF Restored
<1>12. Restored'
  BY <1>10, <1>11
<1>. QED BY <1>4, <1>5, <1>12 DEF MaskInv

\* Whatever the message, its size, the mask and the key, decoding with the same
\* key restores it but for the mask's place and every seventeenth byte, if the
\* cipher's decryption undoes its encryption.
THEOREM RestoredCorrect ==
    ASSUME CipherInverts
    PROVE  Spec => []Restored
<1>1. MaskInv /\ [Next]_vars => MaskInv'
  <2>1. CASE UNCHANGED vars
    BY <2>1 DEF vars, MaskInv, MaskType, SealedOK, Restored
  <2>. QED BY <2>1, PrepareStep, EncodeStep, DecodeStep DEF Next
<1>2. MaskInv => Restored
  BY DEF MaskInv
<1>. QED BY <1>1, <1>2, MaskInit, PTL DEF Spec
=============================================================================
