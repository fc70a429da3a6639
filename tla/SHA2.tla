-------------------------------- MODULE SHA2 --------------------------------
(***************************************************************************)
(* The SHA-2 hashes of snapshots/hacl-c, and HMAC over them.               *)
(*                                                                         *)
(* The compression function is free: the chaining value is the sequence of *)
(* blocks compressed, so two digests are equal only if the same blocks     *)
(* went in.  What is modelled is everything around it: the block counter   *)
(* and its width, the choice of one or two final blocks, the padding and   *)
(* the encoded length, and the buffers HMAC reuses.                        *)
(***************************************************************************)
EXTENDS Integers, Sequences

CONSTANTS
  Alg,          \* the variants: SHA2_256, SHA2_384 and SHA2_512 in the code
  size_block,   \* of each variant: bytes of a block (64, 128, 128),
  size_len_8,   \*   of the encoded length (8, 16, 16),
  size_hash,    \*   of the digest (32, 48, 64),
  CounterWord,  \*   and the range of the block counter (2 ^ 32, 2 ^ 64, 2 ^ 64)
  PadForm       \*   the expression the variant computes pad0len with

ASSUME SHA2Assumption ==
  \A a \in Alg :
    /\ size_len_8[a] \in Nat \ {0} /\ size_block[a] \in Nat /\ size_block[a] > size_len_8[a] + 1
    /\ size_hash[a] \in 1 .. size_block[a]
    /\ CounterWord[a] \in Nat \ {0, 1} /\ CounterWord[a] * size_block[a] * 8 <= 256 ^ size_len_8[a]

(* A byte is a known number, a byte of a digest or a byte under an HMAC    *)
(* pad; none of these equals another.                                      *)
B(n) == <<"byte", n>>

(* b is a string of n bytes.                                               *)
OfLength(b, n) == b = [k \in 1 .. n |-> b[k]]
String(d) == Len(d) \in Nat /\ OfLength(d, Len(d))

(* The block counter can count a message of n bytes.                       *)
Counted(a, n) == n \div size_block[a] < CounterWord[a]

Zeros(n) == [i \in 1 .. n |-> B(0)]
-----------------------------------------------------------------------------
(* The state: chaining value and block counter.                            *)
init(a) == [alg |-> a, hash_w |-> <<>>, counter |-> 0]

(* One block is compressed and counted.                                    *)
update(s, block) ==
  [alg |-> s.alg, hash_w |-> Append(s.hash_w, block),
   counter |-> (s.counter + 1) % CounterWord[s.alg]]

(* The i-th of the blocks in data.                                         *)
BlockAt(a, data, i) == SubSeq(data, (i - 1) * size_block[a] + 1, i * size_block[a])

update_multi(s, data, n) ==
  LET f[i \in 0 .. n] == IF i = 0 THEN s ELSE update(f[i - 1], BlockAt(s.alg, data, i)) IN f[n]

(* The last piece gets one block if the 0x80 and the length fit behind it. *)
nb(a, len) == IF len < size_block[a] - size_len_8[a] THEN 1 ELSE 2

(* Zeros between the 0x80 and the length, as SHA2_256 and SHA2_384 compute *)
(* them and as SHA2_512 does.                                              *)
pad0len_256(block, lenb, len) == (block - ((len + lenb + 1) % block)) % block
pad0len_512(block, lenb, len) == (2 * block - (len + lenb + 1)) % block

pad0len(a, len) ==
  IF PadForm[a] = "512" THEN pad0len_512(size_block[a], size_len_8[a], len)
                        ELSE pad0len_256(size_block[a], size_len_8[a], len)

(* The length in bits, from the block counter and the last piece.          *)
encodedlen(a, n, len) == (n * size_block[a] + len) * 8

(* store64_be, store128_be: byte i, most significant first.                *)
store_be(a, v, i) == B((v \div 256 ^ (size_len_8[a] - i)) % 256)

(* The zeroed buffer with the last piece, the 0x80 and the length in it.   *)
final_blocks(s, data) ==
  LET a   == s.alg
      len == Len(data)
      pos == len + 1 + pad0len(a, len)
  IN [k \in 1 .. nb(a, len) * size_block[a] |->
        CASE k <= len                       -> data[k]
          [] k = len + 1                    -> B(128)
          [] k - pos \in 1 .. size_len_8[a] -> store_be(a, encodedlen(a, s.counter, len), k - pos)
          [] OTHER                          -> B(0)]

update_last(s, data) == update_multi(s, final_blocks(s, data), nb(s.alg, Len(data)))

(* The digest is the first bytes of the chaining value; each byte of it is *)
(* determined by the blocks and by nothing less.                           *)
finish(s) == [i \in 1 .. size_hash[s.alg] |-> <<s.alg, s.hash_w, i>>]

hash(a, input) ==
  LET n == Len(input) \div size_block[a]
  IN finish(update_last(update_multi(init(a), input, n),
                        SubSeq(input, n * size_block[a] + 1, Len(input))))
-----------------------------------------------------------------------------
(* What Ed25519 signs: prefixes of a quarter of a block each in front of   *)
(* the message, which is never copied as a whole.                          *)

(* The block the prefixes and the start of the message are copied to; it   *)
(* has no room for more.                                                   *)
concat(a, prefix, input) ==
  IF Len(prefix) + Len(input) <= size_block[a] THEN prefix \o input ELSE <<"overflow">>

hash_block_and_rest(a, block, msg) ==
  LET n == Len(msg) \div size_block[a]
  IN finish(update_last(update_multi(update(init(a), block), msg, n),
                        SubSeq(msg, n * size_block[a] + 1, Len(msg))))

(* A message of up to 96 bytes fits the block behind the prefix; of a      *)
(* longer one the first 96 bytes fill it.                                  *)
sha512_pre_msg(a, prefix, input) ==
  LET room == size_block[a] - Len(prefix)
  IN IF Len(input) <= room THEN hash(a, concat(a, prefix, input))
     ELSE hash_block_and_rest(a, concat(a, prefix, SubSeq(input, 1, room)),
                              SubSeq(input, room + 1, Len(input)))

(* The same with two prefixes, and 64 bytes.                               *)
sha512_pre_pre2_msg(a, prefix, prefix2, input) == sha512_pre_msg(a, prefix \o prefix2, input)
-----------------------------------------------------------------------------
(* HMAC *)

xor_bytes_inplace(pad, key) == [i \in DOMAIN key |-> <<pad, key[i]>>]

(* Mutant: the pad's block is not counted with the data.                   *)
hmac_core_short(a, key, data) ==
  LET s0 == [init(a) EXCEPT !.hash_w = <<xor_bytes_inplace("ipad", key)>>]
      n0 == Len(data) \div size_block[a]
      s1 == update_last(update_multi(s0, data, n0), SubSeq(data, n0 * size_block[a] + 1, Len(data)))
  IN finish(update_last(update(init(a), xor_bytes_inplace("opad", key)), finish(s1)))

(* Both hashes start from a block of the padded key; the inner digest is   *)
(* written over ipad and hashed from there.                                *)
hmac_core(a, key, data) ==
  LET block == size_block[a]
      n0    == Len(data) \div block
      last0 == SubSeq(data, n0 * block + 1, Len(data))
      ipad  == xor_bytes_inplace("ipad", key)
      s0    == update_last(update_multi(update(init(a), ipad), data, n0), last0)
      hash0 == finish(s0) \o SubSeq(ipad, size_hash[a] + 1, block)
      s1    == update(init(a), xor_bytes_inplace("opad", key))
  IN finish(update_last(s1, SubSeq(hash0, 1, size_hash[a])))

(* The key fills a block of zeros, hashed first if it is longer.           *)
wrap_key(a, key) ==
  LET k == IF Len(key) <= size_block[a] THEN key ELSE hash(a, key)
  IN k \o Zeros(size_block[a] - Len(k))

hmac(a, key, data) == hmac_core(a, wrap_key(a, key), data)
-----------------------------------------------------------------------------
(* References: FIPS 180-4, the whole message followed by a 1 bit, the      *)
(* least number of zeros that aligns it, and its length; FIPS 198-1, a     *)
(* hash under the outer key of a hash under the inner key.                 *)

Padded(a, m) ==
  LET k == CHOOSE n \in 0 .. size_block[a] - 1 :
             (Len(m) + 1 + n + size_len_8[a]) % size_block[a] = 0
  IN m \o <<B(128)>> \o Zeros(k) \o [i \in 1 .. size_len_8[a] |-> store_be(a, 8 * Len(m), i)]

HashOf(a, m) ==
  LET p == Padded(a, m)
      w == [i \in 1 .. Len(p) \div size_block[a] |-> BlockAt(a, p, i)]
  IN [i \in 1 .. size_hash[a] |-> <<a, w, i>>]

HmacOf(a, key, data) ==
  LET k0 == IF Len(key) > size_block[a] THEN HashOf(a, key) ELSE key
      Under(pad) == [i \in 1 .. size_block[a] |-> <<pad, IF i <= Len(k0) THEN k0[i] ELSE B(0)>>]
  IN HashOf(a, Under("opad") \o HashOf(a, Under("ipad") \o data))
=============================================================================
