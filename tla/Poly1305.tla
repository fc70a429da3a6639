------------------------------ MODULE Poly1305 ------------------------------
(***************************************************************************)
(* Poly1305 on three limbs (snapshots/hacl-c/Hacl_Poly1305_64.c): the      *)
(* streaming functions and the one-shot crypto_onetimeauth.  In the code   *)
(* limbs are of 44, 44 and 42 bits, so that a limb shifted out of the      *)
(* array is worth 4 * 5; a block has 16 bytes, a key word four.            *)
(***************************************************************************)
EXTENDS Limbs, Sequences

CONSTANTS
  Byte,        \* values of a byte
  BlockBytes,  \* bytes of a block, of r and of s
  KeepLow,     \* a word of r is clamped to less than this,
  DropLow      \* and to a multiple of this unless it is the first

(* load128_le                                                              *)
Load(m) == LET v[i \in 0 .. Len(m)] == IF i = 0 THEN 0 ELSE v[i - 1] + m[i] * Byte ^ (i - 1)
           IN v[Len(m)]

(* A number over the limbs, the last of them not masked.                   *)
Split(n) == [i \in Ix |-> IF i = Last THEN n \div (Radix ^ i) ELSE (n \div (Radix ^ i)) % Radix]
-----------------------------------------------------------------------------
poly_carry_top_wide(t) ==
  [t EXCEPT ![Last] = @ % Top,
            ![0] = (@ + ((Fold * ((t[Last] \div Top) % Word)) % Word)) % Wide]

poly_fmul(a, b) ==
  LET t == mul_shift_reduce(a, b)
      c == carry_wide(t)
      w == poly_carry_top_wide(c)
      z == copy_from_wide(w)
  IN carry_0_to_1(z)

add_and_multiply(acc, block, r) == LET sum == fsum(acc, block) IN poly_fmul(sum, r)

(* A full block is marked with a bit above it: the marker is or-ed into    *)
(* the last limb, which the block leaves free.                             *)
poly1305_update(st, m) ==
  LET b == Split(Load(m))
      marked == [b EXCEPT ![Last] = @ + (Byte ^ BlockBytes) \div (Radix ^ Last)]
  IN [st EXCEPT !.h = add_and_multiply(@, marked, st.r)]

(* The last block is zero filled after a byte that marks its end.          *)
process_last_block(st, m) ==
  LET block == [i \in 1 .. BlockBytes |->
                  IF i <= Len(m) THEN m[i] ELSE IF i = Len(m) + 1 THEN 1 ELSE 0]
      b == Split(Load(block))
  IN [st EXCEPT !.h = add_and_multiply(@, b, st.r)]

last_pass(acc) ==
  LET f == first_carry_full(acc)
      s == second_carry_full(f)
  IN fcontract_trim(s)
-----------------------------------------------------------------------------
clamp(k) == [i \in DOMAIN k |-> LET w == k[i] % KeepLow
                                IN IF i = 1 THEN w ELSE w - (w % DropLow)]

poly_init(r) == [r |-> Split(Load(clamp(r))), h |-> [i \in Ix |-> 0]]

poly_update(st, blocks) ==
  LET run[i \in 0 .. Len(blocks)] ==
        IF i = 0 THEN st ELSE poly1305_update(run[i - 1], blocks[i])
  IN run[Len(blocks)]

poly_update_last(st, m) ==
  LET s == IF m = <<>> THEN st ELSE process_last_block(st, m)
  IN [s EXCEPT !.h = last_pass(@)]

poly_finish(st, s) == (Eval(st.h) + Load(s)) % (Byte ^ BlockBytes)

poly_onetimeauth(m, r, s) ==
  LET full   == Len(m) \div BlockBytes
      blocks == [j \in 1 .. full |-> SubSeq(m, BlockBytes * (j - 1) + 1, BlockBytes * j)]
  IN poly_finish(poly_update_last(poly_update(poly_init(r), blocks),
                                  SubSeq(m, BlockBytes * full + 1, Len(m))), s)

(* What Poly1305 is: the message as coefficients of a polynomial in r.     *)
PolyOf(m, r, s) ==
  LET full == Len(m) \div BlockBytes
      n    == IF Len(m) % BlockBytes = 0 THEN full ELSE full + 1
      part(j) == LET b == SubSeq(m, BlockBytes * (j - 1) + 1,
                                 IF j <= full THEN BlockBytes * j ELSE Len(m))
                 IN Load(b) + Byte ^ Len(b)
      v[j \in 0 .. n] == IF j = 0 THEN 0 ELSE ((v[j - 1] + part(j)) * Load(clamp(r))) % Modulus
  IN (v[n] + Load(s)) % (Byte ^ BlockBytes)
=============================================================================
