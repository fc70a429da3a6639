------------------------------ MODULE Encoding ------------------------------
(***************************************************************************)
(* What the one-time MAC of the AEAD construction authenticates:           *)
(* Crypto.AEAD.Encoding turns additional data and ciphertext into MAC      *)
(* words (zero padding, and a last word holding both lengths), which       *)
(* Crypto.Symmetric.MAC reads as the coefficients of a polynomial.         *)
(*                                                                         *)
(* Scaled: Wlen bytes per word (16 in the code), Base values per byte      *)
(* (256); a length takes a quarter of a word, as its 4 bytes of 16 do.     *)
(* An algorithm i is "POLY1305" or "GHASH", the MAC of the code's id.      *)
(***************************************************************************)
EXTENDS Naturals, Sequences, SequencesExt

CONSTANTS
  Wlen, Base, ByteBits,         \* 16, 256 and 8 in the code
  field_add(_, _, _), field_mul(_, _, _), \* the field of the MAC; its zero is 0
  encode(_, _),                 \* a word as a field element
  finish(_, _, _)               \* adds the key's s to the final value

ASSUME EncodingAssumption ==
  /\ Wlen \in Nat /\ Wlen > 0 /\ Wlen % 4 = 0
  /\ Base \in Nat \ {0} /\ ByteBits \in Nat \ {0}

Quarter == Wlen \div 4

Zeros(k) == [j \in 1 .. k |-> 0]

pad_0(b, k) == b \o Zeros(k)

(* uint32_bytes / uint32_be, on a quarter of a word: the lowest byte, and  *)
(* then those of the number shifted down by a byte.                        *)
Shifted(n) ==
  LET f[j \in 0 .. Quarter] == IF j = 0 THEN n ELSE f[j - 1] \div Base IN f
LittleEndian(n) == [j \in 1 .. Quarter |-> Shifted(n)[j - 1] % Base]
BigEndian(n)    == Reverse(LittleEndian(n))

(* A number that has no more bytes than that.                              *)
FitsBytes(n) == Shifted(n)[Quarter] = 0

encode_lengths_poly1305(aadlen, txtlen) ==
  LittleEndian(aadlen) \o Zeros(Quarter) \o LittleEndian(txtlen) \o Zeros(Quarter)

encode_lengths_ghash(aadlen, txtlen) ==
  Zeros(Quarter) \o BigEndian(ByteBits * aadlen) \o Zeros(Quarter) \o BigEndian(ByteBits * txtlen)

(* Mutant: the length of the additional data is left out.                  *)
encode_lengths_txt(i, aadlen, txtlen) ==
  IF i = "POLY1305" THEN encode_lengths_poly1305(0, txtlen)
                         ELSE encode_lengths_ghash(0, txtlen)

encode_lengths(i, aadlen, txtlen) ==
  IF i = "POLY1305" THEN encode_lengths_poly1305(aadlen, txtlen)
                         ELSE encode_lengths_ghash(aadlen, txtlen)

(* encode_bytes, unrolled: a text's words in reverse order, the last one   *)
(* zero-padded.  EncodeEmpty, EncodeLast and EncodeLoop of module          *)
(* AccumulateProofs derive the three cases of its recursion.               *)
WordCount(txt) == (Len(txt) + Wlen - 1) \div Wlen
WordAt(txt, j) ==
  [b \in 1 .. Wlen |-> LET p == (j - 1) * Wlen + b IN IF p <= Len(txt) THEN txt[p] ELSE 0]
encode_bytes(txt) == [k \in 1 .. WordCount(txt) |-> WordAt(txt, WordCount(txt) + 1 - k)]

encode_both(i, a, c) ==
  <<encode_lengths(i, Len(a), Len(c))>> \o encode_bytes(c) \o encode_bytes(a)

(* MAC.poly: the polynomial the words define, evaluated at r.              *)
poly(i, cs, r) ==
  LET n == Len(cs)
      f[k \in 0 .. n] ==  \* of the last k words
        IF k = 0 THEN 0 ELSE field_mul(i, field_add(i, f[k - 1], encode(i, cs[n + 1 - k])), r)
  IN f[n]

mac(i, cs, r, s) == finish(i, poly(i, cs, r), s)
=============================================================================
