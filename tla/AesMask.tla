------------------------------ MODULE AesMask ------------------------------
(****************************************************************************)
(* Data put into a message and hidden under a random mask: the functions    *)
(* emi_msg_prepare_return_data, emi_msg_encode_aes and emi_msg_decode_aes   *)
(* (emi_if.c:396-449).  Encoding subtracts 16 random bytes from the data,   *)
(* again and again, and stores them, encrypted, in the last 16 bytes of the *)
(* message; decoding takes them from there and adds them again.             *)
(*                                                                          *)
(* mem is the memory behind the message's header.  A message shorter than   *)
(* the stored mask has it written over the fields in front of the data, the *)
(* size among them; the model goes on only while the header is whole.       *)
(****************************************************************************)
EXTENDS Integers, Sequences

CONSTANTS
    Encrypt(_, _),            \* emi_aes_encrypt(pt, ct, key), as a function of pt and key
    Decrypt(_, _),            \* emi_aes_decrypt
    Key,                      \* the keys that users pass
    Pad,                      \* what read(urandom_fd) may give
    Stray,                    \* what may lie behind p and c on the stack
    Payload,                  \* data that users send or return: sequences of bytes
    emi_data_size_per_msg,    \* the configured size of a message's data
    MaxTurns                  \* bound: messages prepared one after the other

Char == 0..255
Area == 0..(emi_data_size_per_msg - 1)

ASSUME PadAssumption == Pad \subseteq [1..16 -> Char] /\ Stray \subseteq Char
ASSUME SizeAssumption == emi_data_size_per_msg \in Nat
ASSUME PayloadAssumption == Payload \subseteq Seq(Char)

\* What the mask takes for granted of the cipher.
CipherInverts == \A k \in Key, p \in Pad :
    Encrypt(p, k) \in [1..16 -> Char] /\ Decrypt(Encrypt(p, k), k) = p

VARIABLES
    mem,       \* [Area -> Char]: msg->data
    size,      \* msg->size
    header,    \* "whole" or "overwritten"
    phase,     \* "plain", "coded" or "decoded"
    sealed,    \* history: what was encoded, with which key and mask
    opener,    \* history: the key of the last decoding
    turns      \* counts Prepare, for the bound

vars == <<mem, size, header, phase, sealed, opener, turns>>

NoText == [mem |-> [i \in Area |-> 0], size |-> 0, key |-> <<>>, pad |-> <<>>]

Init ==
    /\ mem = [i \in Area |-> 0]
    /\ size = 0
    /\ header = "whole"
    /\ phase = "decoded"
    /\ sealed = NoText
    /\ opener = <<>>
    /\ turns = 0

\* The index j after i turns of the loops: it runs to sizeof(p), one too far.
MaskIndex(i) == i % 17

\* p[j] or c[j]; behind the array there is whatever the stack holds.
MaskByte(p, x, i) == IF MaskIndex(i) < 16 THEN p[MaskIndex(i) + 1] ELSE x

\* The last 16 bytes of the message, or of what precedes it.
Tail16 == (size - 16)..(size - 1)

\* A size that is refused leaves everything as it is.
emi_msg_prepare_return_data(d) ==
    /\ header = "whole" /\ turns < MaxTurns
    /\ Len(d) <= emi_data_size_per_msg
    /\ size' = Len(d)
    /\ mem' = [i \in Area |-> IF i < Len(d) THEN d[i + 1] ELSE mem[i]]
    /\ phase' = "plain"
    /\ turns' = turns + 1
    /\ UNCHANGED <<header, sealed, opener>>

\* The random bytes could be read; otherwise the message stays as it is.
emi_msg_encode_aes(key) ==
    /\ header = "whole" /\ phase = "plain"
    /\ \E p \in Pad, x \in Stray :
          /\ mem' = [i \in Area |->
                        IF i \in Tail16 THEN Encrypt(p, key)[i - (size - 16) + 1]
                        ELSE IF i < size THEN (mem[i] - MaskByte(p, x, i)) % 256
                        ELSE mem[i]]
          /\ sealed' = [mem |-> mem, size |-> size, key |-> key, pad |-> p]
    /\ header' = IF size < 16 THEN "overwritten" ELSE header
    /\ phase' = "coded"
    /\ UNCHANGED <<size, opener, turns>>

\* Faulty variant: the size is reduced after the loop, which then unmasks the
\* zeroes behind the data too.
decode_all(key) ==
    /\ header = "whole" /\ phase = "coded"
    /\ \E x \in Stray :
          LET c == Decrypt([i \in 1..16 |-> mem[size - 17 + i]], key)
          IN  mem' = [i \in Area |->
                         IF i \in Tail16 THEN MaskByte(c, x, i)
                         ELSE IF i < size THEN (mem[i] + MaskByte(c, x, i)) % 256
                         ELSE mem[i]]
    /\ size' = size - 16
    /\ phase' = "decoded"
    /\ opener' = key
    /\ UNCHANGED <<header, sealed, turns>>

emi_msg_decode_aes(key) ==
    /\ header = "whole" /\ phase = "coded"
    /\ \E x \in Stray :
          LET c == Decrypt([i \in 1..16 |-> mem[size - 17 + i]], key)
          IN  mem' = [i \in Area |->
                         IF i \in Tail16 THEN 0
                         ELSE IF i < size - 16 THEN (mem[i] + MaskByte(c, x, i)) % 256
                         ELSE mem[i]]
    /\ size' = size - 16
    /\ phase' = "decoded"
    /\ opener' = key
    /\ UNCHANGED <<header, sealed, turns>>

Next ==
    \/ \E d \in Payload : emi_msg_prepare_return_data(d)
    \/ \E k \in Key : emi_msg_encode_aes(k)
    \/ \E k \in Key : emi_msg_decode_aes(k)

Spec == Init /\ [][Next]_vars
-----------------------------------------------------------------------------
(* Properties *)

\* Decoding with the key of the encoding gives the data back, all but the 16
\* bytes that held the mask, which are erased, and but the bytes under which the
\* loops read behind their array (emi_if.c:417, 434): every seventeenth.
Restored ==
    phase = "decoded" /\ turns > 0 /\ opener = sealed.key =>
        /\ size = sealed.size - 16
        /\ \A i \in Area : i < size /\ MaskIndex(i) # 16 => mem[i] = sealed.mem[i]
        /\ \A i \in Area : i \in size..(size + 15) => mem[i] = 0
        /\ \A i \in Area : i >= size + 16 => mem[i] = sealed.mem[i]
=============================================================================
