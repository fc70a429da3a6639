----------------------------- MODULE Accumulate -----------------------------
(***************************************************************************)
(* `accumulate` of Crypto.AEAD.Encoding, followed by CMA.mac: the words of *)
(* the additional data, those of the ciphertext and the word of lengths    *)
(* are fed one by one to the accumulator of Crypto.Symmetric.UF1CMA, which *)
(* evaluates the MAC's polynomial Horner-style and keeps a ghost log of    *)
(* the words.                                                              *)
(***************************************************************************)
EXTENDS Encoding

CONSTANTS
  Aad, Txt,   \* inputs: byte strings
  Algs,       \* the MACs: a subset of {"POLY1305", "GHASH"}
  Elem(_), S  \* the values of the MAC key's two parts

(* aadmax and txtmax keep the lengths, in bytes and in bits, within 32-bit *)
(* numbers.                                                                *)
ASSUME LengthAssumption ==
  /\ Aad \subseteq Seq(0 .. Base - 1) /\ Txt \subseteq Seq(0 .. Base - 1)
  /\ \A b \in Aad \union Txt : FitsBytes(Len(b)) /\ FitsBytes(ByteBits * Len(b))
  /\ Algs \subseteq {"POLY1305", "GHASH"}

VARIABLES
  i, aad, cipher, r, s, \* algorithm, arguments of the call and MAC key, fixed
  phase,             \* the argument being added
  rest,              \* its bytes not added yet
  a, alog,           \* the accumulator: field element and ghost log
  tag                \* what `mac` writes

vars == <<i, aad, cipher, r, s, phase, rest, a, alog, tag>>

(* CMA.start: a zero accumulator with an empty log.                        *)
Init ==
  /\ i \in Algs /\ aad \in Aad /\ cipher \in Txt /\ r \in Elem(i) /\ s \in S
  /\ phase = "aad" /\ rest = aad
  /\ a = 0 /\ alog = <<>>
  /\ tag = <<>>

(* MAC.update: a := (a + encode w) * r.                                    *)
MACupdate(w) == field_mul(i, field_add(i, a, encode(i, w)), r)

(* CMA.update: log the word and add it.                                    *)
update(w) ==
  /\ alog' = <<w>> \o alog
  /\ a' = MACupdate(w)

(* Mutant: the bytes after the last whole word are dropped.                *)
add_bytes_whole ==
  /\ phase \in {"aad", "cipher"} /\ rest # <<>>
  /\ IF Len(rest) < Wlen
     THEN rest' = <<>> /\ UNCHANGED <<a, alog>>
     ELSE update(SubSeq(rest, 1, Wlen)) /\ rest' = SubSeq(rest, Wlen + 1, Len(rest))
  /\ UNCHANGED <<i, aad, cipher, r, s, phase, tag>>

(* add_bytes: whole words, then the rest zero-padded to one.               *)
add_bytes ==
  /\ phase \in {"aad", "cipher"} /\ rest # <<>>
  /\ IF Len(rest) < Wlen
     THEN update(pad_0(rest, Wlen - Len(rest))) /\ rest' = <<>>
     ELSE update(SubSeq(rest, 1, Wlen)) /\ rest' = SubSeq(rest, Wlen + 1, Len(rest))
  /\ UNCHANGED <<i, aad, cipher, r, s, phase, tag>>

(* accumulate goes from the additional data to the ciphertext and then to  *)
(* the word of lengths.                                                    *)
next_argument ==
  /\ rest = <<>>
  /\ \/ phase = "aad" /\ phase' = "cipher" /\ rest' = cipher
     \/ phase = "cipher" /\ phase' = "lengths" /\ UNCHANGED rest
  /\ UNCHANGED <<i, aad, cipher, r, s, a, alog, tag>>

add_lengths ==
  /\ phase = "lengths"
  /\ update(encode_lengths(i, Len(aad), Len(cipher)))
  /\ phase' = "accumulated"
  /\ UNCHANGED <<i, aad, cipher, r, s, rest, tag>>

(* MAC.finish, called by CMA.mac and by CMA.verify.                        *)
finish_mac ==
  /\ phase = "accumulated"
  /\ tag' = <<finish(i, a, s)>>
  /\ phase' = "done"
  /\ UNCHANGED <<i, aad, cipher, r, s, rest, a, alog>>

Next == add_bytes \/ next_argument \/ add_lengths \/ finish_mac

Spec == Init /\ [][Next]_vars
-----------------------------------------------------------------------------
(* accumulate's postcondition, and mac's: the words logged are encode_both *)
(* of the arguments, and the tag is the MAC of those words.                *)
AccumulateEncodes ==
  phase = "done" =>
    alog = encode_both(i, aad, cipher) /\ tag = <<mac(i, encode_both(i, aad, cipher), r, s)>>

(* lemma_encode_both_inj: no other pair of arguments, of whatever lengths, *)
(* gives the same words, although padding makes different strings equal.   *)
EncodingInjective ==
  phase = "done" =>
    \A b \in Aad, d \in Txt : encode_both(i, b, d) = alog => b = aad /\ d = cipher

=============================================================================
