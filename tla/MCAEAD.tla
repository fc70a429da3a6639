------------------------------- MODULE MCAEAD -------------------------------
(***************************************************************************)
(* Instances of AEAD for TLC.  Full text blocks are two bytes and last     *)
(* blocks one; a cipher block's second byte is 0, which keeps the sets     *)
(* small and still lets every first byte be any bit.  Keys, blocks and     *)
(* pads are records with different fields, so that TLC can compare them.   *)
(* The MAC and its encoding are those of module Encoding, scaled.          *)
(***************************************************************************)
EXTENDS AEAD, SequencesExt

Byte == {0, 1}

MCFullBlock == {<<b, 0>> : b \in Byte}
MCLastBlock == {<<b>> : b \in Byte}
MCBlockLen(t) == Len(t)
MCBlock == [block : MCFullBlock]
MCCompute(k, n, i) == [block |-> <<(k + n + i) % 2, 0>>]
MCXor(b, t) == [j \in 1 .. Len(t) |-> (b.block[j] + t[j]) % 2]

(* ChaCha20-Poly1305: r and s are both per nonce.  AES-GCM: only s is.     *)
MCOneTimeKey == [s : Byte]
MCKeyBytes(b) == [s |-> b.block[1]]
MCStaticKey == [r : {0, 2, 3}]
MCZeroKey == [r |-> 0]
MCSkeyBytes(b) == [r |-> 2 + b.block[1]]

MCTag == 0 .. 1
Modulus == 5
FieldAdd(i, x, y) == (x + y) % Modulus
FieldMul(i, x, y) == (x * y) % Modulus
WordElem(i, w) == (1 + w[1] + 2 * w[2] + 4 * w[3] + 3 * w[4]) % Modulus
Finish(i, a, s) == (a + s) % 2
alg == IF skeyed THEN "GHASH" ELSE "POLY1305"
E == INSTANCE Encoding WITH Wlen <- 4, Base <- 64, ByteBits <- 4,
       field_add <- FieldAdd, field_mul <- FieldMul, encode <- WordElem, finish <- Finish

MCEncodeBoth(a, c) == E!encode_both(alg, a, FlattenSeq(c))
MCMac(words, r, k) == E!mac(alg, words, IF skeyed THEN r.r ELSE 2 + k.s, k.s)

MCAD == {<<>>, <<1>>}
MCPlain  == {<< <<0, 0>> >>, << <<1, 0>>, <<0>> >>}
MCCipher == {<< <<0, 0>> >>, << <<1, 0>>, <<1>> >>, << <<0>> >>}
AllCipher == MCCipher \union {<< <<1, 0>> >>, << <<1, 0>>, <<0>> >>, << <<0, 0>>, <<0>> >>, << <<0, 0>>, <<1>> >>}
=============================================================================
