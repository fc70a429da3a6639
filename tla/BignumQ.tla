------------------------------ MODULE BignumQ -------------------------------
(***************************************************************************)
(* Arithmetic modulo the order of the base point, for Ed25519 signatures   *)
(* (Hacl_Impl_BignumQ_Mul_* in snapshots/hacl-c/Hacl_Ed25519.c): numbers   *)
(* of five limbs, products of ten, and Barrett reduction.  In the code a   *)
(* limb has 56 bits, and a number is kept modulo 2^264, that is, with 40   *)
(* bits in its last limb.  Limbs are counted from 1, the lowest.           *)
(***************************************************************************)
EXTENDS Integers, Sequences

CONSTANTS
  B,      \* weight of a limb
  M,      \* limbs of the order of the base point
  Mu,     \* limbs of the reciprocal of the order
  Low,    \* what div_248 divides by, above four limbs
  High,   \* what div_264 divides by, and mod_264 keeps, above four limbs
  QWord   \* machine words

make_h64_5(f(_)) == <<f(1), f(2), f(3), f(4), f(5)>>
make_h128_9(f(_)) == make_h64_5(f) \o <<f(6), f(7), f(8), f(9)>>
make_h64_10(f(_)) == make_h128_9(f) \o <<f(10)>>

(* References: the value of a number, a long number modulo the order, and  *)
(* a product modulo the order.                                             *)
Val(x) == LET v[i \in 1 .. 5] == IF i = 5 THEN x[5] ELSE x[i] + B * v[i + 1] IN v[1]
Order == Val(M)
LongMod(t) ==
  LET v[i \in 1 .. 10] == IF i = 10 THEN t[10] ELSE (t[i] + B * v[i + 1]) % Order IN v[1]
ProductMod(x, y) ==
  LET v[i \in 1 .. 5] == IF i = 5 THEN (Val(x) * y[5]) % Order
                         ELSE (Val(x) * y[i] + B * v[i + 1]) % Order
  IN v[1]
-----------------------------------------------------------------------------
lt(a, b) == ((a - b) % QWord) \div (QWord \div 2)

(* x - y, with a borrow from each limb to the one below.  The last limb    *)
(* may borrow from beyond, which is worth top; borrow is whether it did.   *)
Subtract(x, y, top) ==
  LET b[i \in 0 .. 5] == IF i = 0 THEN 0 ELSE lt(x[i], y[i] + b[i - 1])
      t(i) == (b[i] * (IF i = 5 THEN top ELSE B) + x[i] - (y[i] + b[i - 1])) % QWord
  IN [borrow |-> b[5], z |-> make_h64_5(t)]

sub_mod_264(x, y) == Subtract(x, y, High).z

(* choose, with a mask in the code                                         *)
subm_conditional(x) == LET s == Subtract(x, M, B) IN IF s.borrow = 1 THEN x ELSE s.z

(* The products of the limbs that meet at place i, and what runs over from *)
(* the place below.                                                        *)
Products(x, y, i) ==
  LET sum[j \in 0 .. 5] == IF j = 0 THEN 0
                           ELSE (IF i + 1 - j \in 1 .. 5 THEN x[j] * y[i + 1 - j] ELSE 0) + sum[j - 1]
  IN sum[5]

mul_5(x, y) == LET z(i) == Products(x, y, i) IN make_h128_9(z)

carry(z) ==
  LET run[i \in 1 .. 10] == (IF i = 10 THEN 0 ELSE z[i]) + (IF i = 1 THEN 0 ELSE run[i - 1] \div B)
      limb(i) == IF i = 10 THEN run[i] % QWord ELSE run[i] % B
  IN make_h64_10(limb)

low_mul_5(x, y) ==
  LET run[i \in 1 .. 5] == Products(x, y, i) + (IF i = 1 THEN 0 ELSE run[i - 1] \div B)
      limb(i) == IF i = 5 THEN (run[i] % QWord) % High ELSE run[i] % B
  IN make_h64_5(limb)

mod_264(t) == LET limb(i) == IF i = 5 THEN t[i] % High ELSE t[i] IN make_h64_5(limb)

(* Division by four limbs and by, each limb being put together from two.   *)
Shifted(t, by) ==
  LET limb(i) == (t[i + 5] % by) * (B \div by) + (t[i + 4] \div by) IN make_h64_5(limb)
div_248(t) == Shifted(t, Low)
div_264(t) == Shifted(t, High)

(* The quotient is estimated with the reciprocal; it may be too small by   *)
(* one, which one conditional subtraction makes up for.                    *)
barrett_reduction(t) ==
  LET qmu_ == carry(mul_5(div_248(t), Mu))
      qmul == low_mul_5(div_264(qmu_), M)
      s    == sub_mod_264(mod_264(t), qmul)
  IN subm_conditional(s)

mul_modq(x, y) == LET z_ == carry(mul_5(x, y)) IN barrett_reduction(z_)

add_modq(x, y) ==
  LET run[i \in 1 .. 5] == x[i] + y[i] + (IF i = 1 THEN 0 ELSE run[i - 1] \div B)
      limb(i) == IF i = 5 THEN run[i] ELSE run[i] % B
      sum == make_h64_5(limb)
  IN subm_conditional(sum)

(* The comparison goes from the last limb down.                            *)
gte_q(s) ==
  LET above[i \in 0 .. 5] == IF i = 0 THEN TRUE
                             ELSE s[i] > M[i] \/ (s[i] = M[i] /\ above[i - 1])
  IN above[5]
=============================================================================
