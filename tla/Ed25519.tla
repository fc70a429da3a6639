------------------------------- MODULE Ed25519 ------------------------------
(***************************************************************************)
(* Points, keys and signatures of Ed25519 (snapshots/hacl-c/Hacl_Ed25519). *)
(* Scalars are numbers: module BignumQ shows that the functions on their   *)
(* limbs reduce them.  SHA-512 is a parameter.                             *)
(***************************************************************************)
EXTENDS Curve25519, Sequences

CONSTANTS
  d,        \* the constant of the curve
  sqrt_m1,  \* a square root of -1
  Gx, Gy,   \* the base point
  Q,        \* its order
  SHA512(_) \* the hash of a sequence of numbers, of twice Bits bits

times_d(a) == fmul(El(d, Exact), a)
times_2d(a) == fmul(a, El(2 * d, Exact))

Point(x, y, z, t) == [x |-> x, y |-> y, z |-> z, t |-> t]

make_g == Point(El(Gx, Exact), El(Gy, Exact), One, El(Gx * Gy, Exact))
make_point_inf == Point(Zero, One, One, Zero)
-----------------------------------------------------------------------------
point_add(p, q) ==
  LET a == fmul(fdifference_reduced(p.x, p.y), fdifference(q.x, q.y))
      b == fmul(fsum(p.y, p.x), fsum(q.y, q.x))
      c == fmul(times_2d(p.t), q.t)
      e == fmul(times_2(p.z), q.z)
      bma == fdifference_reduced(a, b)
      emc == fdifference(c, e)
      epc == fsum(e, c)
      bpa == fsum(b, a)
  IN Point(fmul(bma, emc), fmul(epc, bpa), fmul(epc, emc), fmul(bma, bpa))

(* Mutant: the sums are not reduced before they meet in a product.         *)
point_double_unreduced(p) ==
  LET xx == fsquare(p.x)
      yy == fsquare(p.y)
      h  == fsum(xx, yy)
      e  == fdifference(fsquare(fsum(p.x, p.y)), h)
      g  == fdifference(yy, xx)
      f  == fsum(times_2(fsquare(p.z)), g)
  IN Point(fmul(f, e), fmul(g, h), fmul(f, g), fmul(h, e))

point_double(p) ==
  LET xx == fsquare(p.x)
      yy == fsquare(p.y)
      h  == reduce_513(fsum(xx, yy))
      e  == fdifference(fsquare(fsum(p.x, p.y)), h)
      g  == fdifference_reduced(yy, xx)
      f  == fsum(reduce_513(times_2(fsquare(p.z))), g)
  IN Point(fmul(f, e), fmul(g, h), fmul(f, g), fmul(h, e))

loop_step(pair, bit) ==
  LET s    == swap_conditional(pair, bit)
      next == <<point_double(s[1]), point_add(s[1], s[2])>>
  IN swap_conditional(next, bit)

point_mul(n, p) == OverBits(loop_step, <<make_point_inf, p>>, n)[1]

point_mul_g(n) == point_mul(n, make_g)

x_mod_2(x) == x.v % 2

(* The ordinate, with the parity of the abscissa above it.                 *)
point_compress(p) ==
  LET zinv == crecip(p.z)
      x    == reduce(fmul(p.x, zinv))
      y    == reduce(fmul(p.y, zinv))
  IN y.v + 2 ^ (Bits - 1) * x_mod_2(x)

point_equal_1(p, q) == reduce(fmul(p.x, q.z)) = reduce(fmul(q.x, p.z))
point_equal_2(p, q) == reduce(fmul(p.y, q.z)) = reduce(fmul(q.y, p.z))
point_equal(p, q) == point_equal_1(p, q) /\ point_equal_2(p, q)
-----------------------------------------------------------------------------
Failed == [none |-> TRUE]
is_0(a) == reduce(a).v = 0

(* The root whose parity is sign.                                          *)
recover_x_step_5(x, sign) ==
  IF x_mod_2(x) = sign THEN x ELSE reduce(reduce_513(fdifference(x, Zero)))

(* Mutant: the second candidate for the root is not tried.                 *)
recover_x_one_root(y, sign) ==
  LET y2 == fsquare(El(y, Exact))
      x2 == reduce(fmul(crecip(reduce_513(fsum(times_d(y2), One))), fdifference(One, y2)))
      r1 == reduce(pow2_252m2(x2))
      sq(r) == is_0(reduce_513(fdifference(x2, fsquare(r))))
  IN CASE y >= P                  -> Failed
       [] y < P /\ x2.v = 0       -> IF sign = 0 THEN Zero ELSE Failed
       [] y < P /\ x2.v # 0       -> IF sq(r1) THEN recover_x_step_5(r1, sign) ELSE Failed

(* The abscissa for the ordinate y: x^2 = (y^2 - 1) / (d y^2 + 1).  Not    *)
(* every number is a square; 0 has no other sign.                          *)
recover_x(y, sign) ==
  LET y2 == fsquare(El(y, Exact))
      x2 == reduce(fmul(crecip(reduce_513(fsum(times_d(y2), One))), fdifference(One, y2)))
      r0 == pow2_252m2(x2)
      sq(r) == is_0(reduce_513(fdifference(x2, fsquare(r))))
      r1 == reduce(IF sq(r0) THEN r0 ELSE fmul(r0, El(sqrt_m1, Exact)))
  IN CASE y >= P                  -> Failed
       [] y < P /\ x2.v = 0       -> IF sign = 0 THEN Zero ELSE Failed
       [] y < P /\ x2.v # 0       -> IF sq(r1) THEN recover_x_step_5(r1, sign) ELSE Failed

(* load_51: the ordinate without the sign, which may exceed P.             *)
point_decompress(s) ==
  LET y == s % (2 ^ (Bits - 1))
      x == recover_x(y, Bit(s, Bits - 1))
  IN IF x = Failed THEN Failed
     ELSE Point(x, El(y, Exact), One, fmul(x, El(y, Exact)))
-----------------------------------------------------------------------------
secret_expand(secret) ==
  LET h == SHA512(<<secret>>)
  IN [a |-> clamp_scalar(h % (2 ^ Bits)), prefix |-> h \div (2 ^ Bits)]

point_mul_g_compress(n) == LET p == point_mul_g(n) IN point_compress(p)

secret_to_public(secret) == LET a == secret_expand(secret).a IN point_mul_g_compress(a)

sha512_modq(input) == SHA512(input) % Q

sign(secret, msg) ==
  LET k  == secret_expand(secret)
      a_ == point_mul_g_compress(k.a)
      r  == sha512_modq(<<k.prefix, msg>>)
      rs == point_mul_g_compress(r)
      h  == sha512_modq(<<rs, a_, msg>>)
  IN [R |-> rs, s |-> (r + ((h * k.a) % Q)) % Q]

verify_step_4(s, h, a_, r_) ==
  LET hA  == point_mul(h, a_)
      rhA == point_add(r_, hA)
      sB  == point_mul_g(s)
  IN point_equal(sB, rhA)

(* Mutant: s may be any number.                                            *)
verify_any_s(public, msg, sig) ==
  LET a_ == point_decompress(public)
      r_ == point_decompress(sig.R)
  IN /\ a_ # Failed
     /\ r_ # Failed
     /\ verify_step_4(sig.s, sha512_modq(<<sig.R, public, msg>>), a_, r_)

verify(public, msg, sig) ==
  LET a_ == point_decompress(public)
      r_ == point_decompress(sig.R)
  IN /\ a_ # Failed
     /\ r_ # Failed
     /\ sig.s < Q
     /\ verify_step_4(sig.s, sha512_modq(<<sig.R, public, msg>>), a_, r_)
=============================================================================
