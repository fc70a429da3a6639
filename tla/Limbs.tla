------------------------------- MODULE Limbs --------------------------------
(***************************************************************************)
(* Field elements as arrays of machine words (Hacl_Bignum_* in             *)
(* snapshots/hacl-c/Hacl_Curve25519.c; the same functions with other       *)
(* sizes are in Hacl_Poly1305_64.c).  An element has N limbs of radix      *)
(* Radix, the last of them only Top wide, and stands for its value modulo  *)
(* Top * Radix^(N-1) - Fold.  In the code N = 5, Radix = Top = 2^51,       *)
(* Fold = Wrap = 19, Word = Store = 2^64 and Wide = 2^128.                 *)
(***************************************************************************)
EXTENDS Integers, Bitwise

CONSTANTS
  N,      \* number of limbs
  Radix,  \* weight of a limb
  Top,    \* size of the last limb
  Fold,   \* what a unit above the last limb is worth
  Wrap,   \* what a limb shifted out of the array is worth
  Word,   \* machine words
  Wide,   \* products
  Store   \* the words a number is stored in

Ix == 0 .. N - 1
Last == N - 1

(* The value of an element, what every operation is judged by.             *)
Eval(a) == LET v[i \in Ix] == IF i = 0 THEN a[0] ELSE a[i] * Radix ^ i + v[i - 1] IN v[Last]
Modulus == Top * Radix ^ Last - Fold
-----------------------------------------------------------------------------
(* What runs over from each limb is added to the next; the last one keeps  *)
(* what it gets.                                                           *)
CarryPass(a, width) ==
  LET run[i \in Ix] == IF i = 0 THEN a[0] ELSE (a[i] + (run[i - 1] \div Radix)) % width
  IN [i \in Ix |-> IF i = Last THEN run[i] ELSE run[i] % Radix]

(* Mutant: what is above the last limb is dropped.                         *)
carry_top_lost(b) == [b EXCEPT ![Last] = @ % Top]

carry_top(b) ==
  [b EXCEPT ![Last] = @ % Top, ![0] = (@ + Fold * (b[Last] \div Top)) % Word]

carry_top_wide(t) ==
  [t EXCEPT ![Last] = @ % Top, ![0] = (@ + Fold * ((t[Last] \div Top) % Word)) % Wide]

carry_0_to_1(a) == [a EXCEPT ![0] = @ % Radix, ![1] = (@ + (a[0] \div Radix)) % Word]

carry_wide(t) == CarryPass(t, Wide)
copy_from_wide(t) == [i \in Ix |-> t[i] % Word]

sum_scalar_multiplication(out, in, s) == [i \in Ix |-> (out[i] + in[i] * s) % Wide]

shift_reduce(a) == [i \in Ix |-> IF i = 0 THEN (Wrap * a[Last]) % Word ELSE a[i - 1]]

mul_shift_reduce(a, b) ==
  LET in[k \in Ix]  == IF k = 0 THEN a ELSE shift_reduce(in[k - 1])
      out[k \in Ix] == sum_scalar_multiplication(IF k = 0 THEN [i \in Ix |-> 0] ELSE out[k - 1],
                                                 in[k], b[k])
  IN out[Last]

(* The end of every product: from wide limbs to words.                     *)
Carried(t) ==
  LET c == carry_wide(t)
      z == carry_top_wide(c)
  IN copy_from_wide(z)

fmul(a, b) ==
  LET t == mul_shift_reduce(a, b)
      z == Carried(t)
  IN carry_0_to_1(z)
-----------------------------------------------------------------------------
(* Squares, unrolled for five limbs: each product of two different limbs   *)
(* is taken once and doubled, those above the last limb times Fold.        *)
fsquare__(r) ==
  LET w(x) == x % Word
      d0   == w(r[0] * 2)
      d1   == w(r[1] * 2)
      d2   == w(r[2] * 2 * Fold)
      d419 == w(r[4] * Fold)
      d4   == w(d419 * 2)
      s    == <<r[0] * r[0] + d4 * r[1] + d2 * r[3],
                d0 * r[1] + d4 * r[2] + w(r[3] * Fold) * r[3],
                d0 * r[2] + r[1] * r[1] + d4 * r[3],
                d0 * r[3] + d1 * r[2] + r[4] * d419,
                d0 * r[4] + d1 * r[3] + r[2] * r[2]>>
  IN [i \in Ix |-> s[i + 1] % Wide]

fsquare_(r) ==
  LET t == fsquare__(r)
      z == Carried(t)
  IN carry_0_to_1(z)

fsum(a, b) == [i \in Ix |-> (a[i] + b[i]) % Word]

(* b - a, with eight times the modulus added limb by limb.                 *)
fdifference(a, b) ==
  LET lifted == [i \in Ix |-> (b[i] + 8 * (IF i = 0 THEN Radix - Fold ELSE Radix - 1)) % Word]
  IN [i \in Ix |-> (lifted[i] - a[i]) % Word]

fscalar(b, s) == LET t == [i \in Ix |-> (b[i] * s) % Wide] IN Carried(t)

times_2(a) == [i \in Ix |-> (2 * a[i]) % Word]
reduce_513(a) ==
  LET c == CarryPass(a, Word)
      t == carry_top(c)
  IN carry_0_to_1(t)
-----------------------------------------------------------------------------
(* The canonical form *)

first_carry_full(a) == LET c == CarryPass(a, Word) IN carry_top(c)
second_carry_full(a) == LET t == first_carry_full(a) IN carry_0_to_1(t)

fcontract_trim(a) ==
  LET max(i) == IF i = 0 THEN Radix - Fold ELSE IF i = Last THEN Top - 1 ELSE Radix - 1
      above  == a[0] >= max(0) /\ \A i \in Ix \ {0} : a[i] = max(i)
  IN [i \in Ix |-> IF above THEN a[i] - max(i) ELSE a[i]]

reduce(a) ==
  LET f == first_carry_full(a)
      s == second_carry_full(f)
  IN fcontract_trim(s)

(* An element is read from a number of one bit more, which is dropped, and *)
(* written as N - 1 words, each put together from two limbs.               *)
fexpand(n) == [i \in Ix |-> (n \div (Radix ^ i)) % Radix]
fcontract_store(a) ==
  LET o(j) == ((a[j + 1] * (Radix ^ (j + 1) \div Store ^ j)) | (a[j] \div (Store ^ j \div Radix ^ j)))
                % Store
      n[j \in 0 .. Last] == IF j = 0 THEN 0 ELSE n[j - 1] + o(j - 1) * Store ^ (j - 1)
  IN n[Last]
fcontract(a) == fcontract_store(reduce(a))
=============================================================================
