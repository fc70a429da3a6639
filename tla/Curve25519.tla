----------------------------- MODULE Curve25519 -----------------------------
(***************************************************************************)
(* Field programs and the X25519 ladder (snapshots/hacl-c/Hacl_Curve25519  *)
(* and Hacl_Ed25519).  A field element is its value modulo P with a bound  *)
(* on its limbs, in units of 2^48: module Limbs shows that an operation    *)
(* computes the right value as long as no word overflows, and the bounds   *)
(* say whether one can.  The bounds are those of the code's real sizes     *)
(* (limbs of 51 bits in words of 64); only P is small.                     *)
(***************************************************************************)
EXTENDS Integers, FiniteSets

CONSTANTS
  P,      \* the modulus, 2^255 - 19 in the code
  a24,    \* 121665 in the code
  Bits    \* bits of an encoded element or scalar, 256 in the code

Lost == 10000          \* the bound of an element some limb of which overflowed
Reduced == 9           \* limbs of at most 51 bits and a little
Exact == 8             \* limbs of at most 51 bits
Fits(u) == IF u < 65536 \div 8 THEN u ELSE Lost

El(v, u) == [v |-> v % P, u |-> u]
Zero == El(0, 1)
One == El(1, 1)
-----------------------------------------------------------------------------
fsum(a, b) == El(a.v + b.v, Fits(a.u + b.u))

(* b - a: eight times the modulus is added, which a must not exceed.       *)
fdifference(a, b) == El(b.v - a.v, IF a.u <= 63 THEN Fits(b.u + 64) ELSE Lost)

(* The carry out of the last limb, 19 times 5 products of limbs and        *)
(* divided by 2^51, must fit a word: ua * ub < 2^19 / 95.                  *)
fmul(a, b) == El(a.v * b.v, IF a.u * b.u < 5518 THEN Reduced ELSE Lost)
fsquare(a) == fmul(a, a)

fscalar(a, s) == El(a.v * s, IF a.u < Lost THEN Reduced ELSE Lost)
times_2(a) == El(2 * a.v, Fits(2 * a.u))
reduce_513(a) == El(a.v, IF a.u < Lost THEN Reduced ELSE Lost)
fdifference_reduced(a, b) == reduce_513(fdifference(a, b))

(* The canonical form, from limbs that are nearly reduced.                 *)
reduce(a) == El(a.v, IF a.u <= Reduced THEN Exact ELSE Lost)

(* crecip and crecip_ raise to the power P - 2 and (P + 3) / 8: see        *)
(* crecip_exponent below for how.                                          *)
Pow(v, n) ==
  LET w[k \in 0 .. n] == IF k = 0 THEN 1
                         ELSE IF k % 2 = 1 THEN (w[k - 1] * v) % P
                         ELSE LET h == w[k \div 2] IN (h * h) % P
  IN w[n]
crecip(a) == El(Pow(a.v, P - 2), fmul(a, a).u)
pow2_252m2(a) == El(Pow(a.v, (P + 3) \div 8), fmul(a, a).u)
-----------------------------------------------------------------------------
(* The addition chains, on exponents: an exponent is the set of its one    *)
(* bits, squaring n times shifts it, and multiplying adds two of them.     *)
NoExp == {-1}
Times(e, f) == IF e \cap f = {} THEN e \cup f ELSE NoExp
Squared(e, n) == { i + n : i \in e }

(* The common part of both chains: a is z^11, b is z^(2^50 - 1) and t is   *)
(* b^(2^50).                                                               *)
ChainTo50(z) ==
  LET a0  == Squared(z, 1)
      b0  == Times(Squared(a0, 2), z)
      a   == Times(b0, a0)
      b5  == Times(Squared(a, 1), b0)
      b10 == Times(Squared(b5, 5), b5)
      c20 == Times(Squared(b10, 10), b10)
      c40 == Times(Squared(c20, 20), c20)
      b50 == Times(Squared(c40, 10), b10)
  IN [a |-> a, b |-> b50, t |-> Squared(b50, 50)]

(* The end of both chains: from 2^250 - 1, n squarings and a product.      *)
ChainEnd(ch, n, last) ==
  LET c100 == Times(ch.t, ch.b)
      c200 == Times(Squared(c100, 100), c100)
      t250 == Times(Squared(c200, 50), ch.b)
  IN Times(Squared(t250, n), last)

crecip_exponent(z) == LET ch == ChainTo50(z) IN ChainEnd(ch, 5, ch.a)

(* The chain of Ed25519 takes a new square of z as its last factor.        *)
crecip__exponent(z) == ChainEnd(ChainTo50(z), 2, Squared(z, 1))
-----------------------------------------------------------------------------
(* The Montgomery ladder.  A point is [x, z].                              *)

(* Mutant: the difference is squared in place of the sum.                  *)
fmonty_swapped(p, pq, q) ==
  LET x  == fsum(p.x, p.z)
      z  == fdifference(p.z, p.x)
      xp == fsum(pq.x, pq.z)
      zp == fdifference(pq.z, pq.x)
      xxp == fmul(xp, z)
      zzp == fmul(x, zp)
      xx == fsquare(x)
      zz == fsquare(z)
      dif == fdifference(zz, xx)
  IN [p2 |-> [x |-> fmul(xx, zz), z |-> fmul(fsum(fscalar(dif, a24), xx), dif)],
      p3 |-> [x |-> fsquare(fdifference(zzp, xxp)), z |-> fmul(fsquare(fsum(xxp, zzp)), q.x)]]

(* From p and pq, whose difference is q: twice p, and p + pq.              *)
fmonty(p, pq, q) ==
  LET x  == fsum(p.x, p.z)
      z  == fdifference(p.z, p.x)
      xp == fsum(pq.x, pq.z)
      zp == fdifference(pq.z, pq.x)
      xxp == fmul(xp, z)
      zzp == fmul(x, zp)
      xx == fsquare(x)
      zz == fsquare(z)
      dif == fdifference(zz, xx)
  IN [p2 |-> [x |-> fmul(xx, zz), z |-> fmul(fsum(fscalar(dif, a24), xx), dif)],
      p3 |-> [x |-> fsquare(fsum(xxp, zzp)), z |-> fmul(fsquare(fdifference(zzp, xxp)), q.x)]]

swap_conditional(pair, bit) == IF bit = 1 THEN <<pair[2], pair[1]>> ELSE pair

(* One bit.  The code handles two at a time, to come back to the buffers   *)
(* it began with.                                                          *)
cmult_small_loop_step(nq, nqpq, q, bit) ==
  LET s == swap_conditional(<<nq, nqpq>>, bit)
      m == fmonty(s[1], s[2], q)
  IN swap_conditional(<<m.p2, m.p3>>, bit)

Bit(n, i) == (n \div (2 ^ i)) % 2

(* A loop over the bits of n from the top down.  The choice from one       *)
(* element makes TLC finish a step before the next one uses its result.    *)
OverBits(step(_, _), start, n) ==
  LET run[i \in 0 .. Bits] ==
        IF i = 0 THEN start
        ELSE CHOOSE next \in {step(now, Bit(n, Bits - i)) : now \in {run[i - 1]}} : TRUE
  IN run[Bits]

(* Bytes in the outer loop, bits in the inner one.                         *)
cmult(n, q) ==
  LET step(now, bit) == cmult_small_loop_step(now[1], now[2], q, bit)
  IN OverBits(step, <<[x |-> One, z |-> Zero], q>>, n)[1]

(* The top bit of an encoding is ignored, and what is left may exceed P.   *)
fexpand(u) == El(u % (2 ^ (Bits - 1)), Exact)

scalar_of_point(p) == reduce(fmul(p.x, crecip(p.z)))

clamp_scalar(e) == LET low == e % (2 ^ (Bits - 2)) IN low - (low % 8) + 2 ^ (Bits - 2)

crypto_scalarmult(secret, basepoint) ==
  scalar_of_point(cmult(clamp_scalar(secret), [x |-> fexpand(basepoint), z |-> One]))
-----------------------------------------------------------------------------
(* What the ladder is to compute, in affine coordinates: multiples of a    *)
(* point with abscissa u on B y^2 = x^3 + A x^2 + x, with B such that the  *)
(* ordinate is 1.  Infinity has abscissa 0 when written.                   *)
Inv(v) == Pow(v % P, P - 2)
Infinity == <<-1, -1>>

MontAdd(s, t, u) ==
  LET A == 4 * a24 + 2
      b == (u * (((u * ((u + A) % P)) % P) + 1)) % P
      slope == IF s = t
                 THEN (((3 * s[1] * s[1] + 2 * A * s[1] + 1) % P) * Inv(2 * b * s[2])) % P
                 ELSE ((t[2] - s[2]) * Inv(t[1] - s[1])) % P
      x == (b * ((slope * slope) % P) - A - s[1] - t[1]) % P
  IN IF s = Infinity THEN t ELSE IF t = Infinity THEN s
     ELSE IF s[1] = t[1] /\ (s[2] + t[2]) % P = 0 THEN Infinity
     ELSE <<x, (slope * (s[1] - x) - s[2]) % P>>

MultipleOf(k, u) ==
  LET v == u % P
      step(r, bit) == LET twice == MontAdd(r, r, v)
                      IN IF bit = 1 THEN MontAdd(twice, <<v, 1>>, v) ELSE twice
      end == OverBits(step, Infinity, k)
  IN IF v = 0 \/ end = Infinity THEN 0 ELSE end[1]
=============================================================================
