------------------------------- MODULE Arith --------------------------------
(***************************************************************************)
(* The arithmetic of the elliptic curves and of Poly1305, called the way   *)
(* the API calls it: field operations on limbs, numbers modulo the order   *)
(* of the base point, the streaming MAC, X25519 between two parties, and   *)
(* Ed25519 signatures that are made, changed on their way and verified.    *)
(* The parts do not share state and are explored one at a time.            *)
(***************************************************************************)
EXTENDS Ed25519, FiniteSetsExt

CONSTANTS
  LimbA, LimbB,         \* field elements as limbs: sums, and reduced ones
  Scalar,               \* what fscalar multiplies by
  Num, Near, Long,      \* numbers below the order, about the order, and products, as limbs
  Clamped,              \* secret scalars, which are above the order
  QM, QMu,              \* the order and its reciprocal, as limbs
  MacR, MacS,           \* keys of Poly1305
  MacBlocks, MacTails,  \* full blocks and last parts of a message
  MaxBlocks,            \* bound: full blocks of a message
  Us, Secrets,          \* X25519: abscissas and secrets
  Seeds, Msgs,          \* Ed25519: secrets and messages
  Shifts                \* by how often Q the network may change s

F == INSTANCE Limbs WITH N <- 5, Radix <- 8, Top <- 8, Fold <- 3, Wrap <- 3,
                         Word <- 2 ^ 14, Wide <- 2 ^ 28, Store <- 2 ^ 4

Poly == INSTANCE Poly1305 WITH N <- 3, Radix <- 16, Top <- 8, Fold <- 9, Wrap <- 18,
                               Word <- 2 ^ 12, Wide <- 2 ^ 24, Store <- 2 ^ 12, Byte <- 8, BlockBytes <- 3,
                               KeepLow <- 4, DropLow <- 2

BQ == INSTANCE BignumQ WITH B <- 32, M <- QM, Mu <- QMu, Low <- 2, High <- 16, QWord <- 256

VARIABLES
  call,     \* the last call of a function without state, with its results
  auth,     \* a Poly1305 state with the key and the message so far
  signed,   \* signatures that were made
  accepted  \* signatures that were accepted, with key and message

arithVars == <<call, auth, signed, accepted>>

Idle == [op |-> "none"]
Fresh == /\ call = Idle /\ auth = Idle /\ signed = {} /\ accepted = {}

ArithInit == Fresh
-----------------------------------------------------------------------------
(* Field operations on limbs *)

FieldOps(a, b, s) ==
  { <<"fmul", F!fmul(a, b)>>, <<"fsquare", F!fsquare_(a)>>, <<"fsum", F!fsum(a, b)>>,
    <<"fdifference", F!fdifference(b, a)>>, <<"fscalar", F!fscalar(a, s)>>,
    <<"times_2", F!times_2(a)>>, <<"reduce_513", F!reduce_513(a)>>, <<"reduce", F!reduce(b)>> }

CallField(a, b, s) ==
  /\ call' = [op |-> "field", a |-> a, b |-> b, s |-> s, out |-> FieldOps(a, b, s),
              stored |-> F!fcontract(b), loaded |-> F!fexpand(F!Eval(a) % 2 ^ 16)]
  /\ UNCHANGED <<auth, signed, accepted>>

(* sign multiplies the hash by the secret scalar, which is clamped and not *)
(* reduced; all that is added is reduced.                                  *)
CallMulModq(x, y) ==
  /\ call' = [op |-> "mul_modq", x |-> x, y |-> y, out |-> BQ!mul_modq(x, y)]
  /\ UNCHANGED <<auth, signed, accepted>>

CallAddModq(x, y) ==
  /\ call' = [op |-> "add_modq", x |-> x, y |-> y, out |-> BQ!add_modq(x, y)]
  /\ UNCHANGED <<auth, signed, accepted>>

CallBarrett(t) ==
  /\ call' = [op |-> "barrett", t |-> t, out |-> BQ!barrett_reduction(t)]
  /\ UNCHANGED <<auth, signed, accepted>>

CallGte(s) ==
  /\ call' = [op |-> "gte", s |-> s, out |-> BQ!gte_q(s)]
  /\ UNCHANGED <<auth, signed, accepted>>

CallChains ==
  /\ call' = [op |-> "chains", recip |-> crecip_exponent({0}), root |-> crecip__exponent({0})]
  /\ UNCHANGED <<auth, signed, accepted>>
-----------------------------------------------------------------------------
(* Poly1305 *)

MacInit(r, s) ==
  /\ auth' = [op |-> "open", r |-> r, s |-> s, m |-> <<>>, st |-> Poly!poly_init(r), tag |-> -1]
  /\ UNCHANGED <<call, signed, accepted>>

MacUpdate(blocks) ==
  /\ auth.op = "open"
  /\ Len(auth.m) + 3 * Len(blocks) <= 3 * MaxBlocks
  /\ auth' = [auth EXCEPT !.st = Poly!poly_update(@, blocks),
                         !.m = @ \o [i \in 1 .. 3 * Len(blocks) |->
                                       blocks[1 + (i - 1) \div 3][1 + ((i - 1) % 3)]]]
  /\ UNCHANGED <<call, signed, accepted>>

MacUpdateLast(tail) ==
  /\ auth.op = "open"
  /\ auth' = [auth EXCEPT !.op = "last", !.st = Poly!poly_update_last(@, tail), !.m = @ \o tail]
  /\ UNCHANGED <<call, signed, accepted>>

MacFinish ==
  /\ auth.op = "last"
  /\ auth' = [auth EXCEPT !.op = "done", !.tag = Poly!poly_finish(auth.st, auth.s)]
  /\ UNCHANGED <<call, signed, accepted>>
-----------------------------------------------------------------------------
(* X25519: both parties start from the same point, and each applies its    *)
(* secret to what the other made of it.                                    *)
CallScalarmult(a, b, u) ==
  LET ua == crypto_scalarmult(a, u)
      ub == crypto_scalarmult(b, u)
  IN /\ call' = [op |-> "ecdh", a |-> a, b |-> b, u |-> u, ua |-> ua, ub |-> ub,
                 ab |-> crypto_scalarmult(b, ua.v), ba |-> crypto_scalarmult(a, ub.v)]
     /\ UNCHANGED <<auth, signed, accepted>>
-----------------------------------------------------------------------------
(* Ed25519 *)

CallDecompress(s) ==
  LET p == point_decompress(s)
  IN /\ call' = [op |-> "decompress", s |-> s, p |-> p,
                 back |-> IF p = Failed THEN -1 ELSE point_compress(p),
                 dbl |-> IF p = Failed THEN p ELSE point_double(p),
                 sum |-> IF p = Failed THEN p ELSE point_add(p, p)]
     /\ UNCHANGED <<auth, signed, accepted>>

Sign(seed, msg) ==
  /\ signed' = {[seed |-> seed, public |-> secret_to_public(seed), msg |-> msg,
                 sig |-> sign(seed, msg)]}
  /\ UNCHANGED <<call, auth, accepted>>

Publics == { secret_to_public(seed) : seed \in Seeds }

(* A signature arrives as it was made, or with any of another message, the *)
(* key of another party, the other sign of R, and s changed by a multiple  *)
(* of the order.                                                           *)
Arrivals ==
  UNION { { [public |-> pk, msg |-> m, sig |-> [R |-> r, s |-> e.sig.s + k * Q]] :
              pk \in Publics,
              m \in Msgs, r \in {e.sig.R, (e.sig.R + 2 ^ (Bits - 1)) % (2 ^ Bits)},
              k \in { j \in Shifts : e.sig.s + j * Q < 2 ^ Bits } } : e \in signed }

Verify(v) ==
  LET ok == verify(v.public, v.msg, v.sig)
  IN /\ v \in Arrivals
     /\ call' = [op |-> "verify", v |-> v, ok |-> ok]
     /\ accepted' = IF ok THEN accepted \cup {v} ELSE accepted
     /\ UNCHANGED <<auth, signed>>
-----------------------------------------------------------------------------
(* Functions without state are called once; a MAC or a signature runs to   *)
(* its end.                                                                *)
FirstCall ==
  \/ \E a \in LimbA, b \in LimbB, s \in Scalar : CallField(a, b, s)
  \/ \E x \in Num, y \in Num \cup Clamped : CallMulModq(x, y)
  \/ \E x, y \in Num : CallAddModq(x, y)
  \/ \E t \in Long : CallBarrett(t)
  \/ \E s \in Near : CallGte(s)
  \/ CallChains
  \/ \E r \in MacR, s \in MacS : MacInit(r, s)
  \/ \E a, b \in Secrets, u \in Us : CallScalarmult(a, b, u)
  \/ \E s \in 0 .. 2 ^ Bits - 1 : CallDecompress(s)
  \/ \E e \in Seeds, m \in Msgs : Sign(e, m)

ArithNext ==
  \/ Fresh /\ FirstCall
  \/ \E n \in 1 .. MaxBlocks : \E bs \in [1 .. n -> MacBlocks] : MacUpdate(bs)
  \/ \E t \in MacTails : MacUpdateLast(t)
  \/ MacFinish
  \/ \E v \in Arrivals : Verify(v)
-----------------------------------------------------------------------------
(* Every field operation on limbs computes what it stands for modulo p,    *)
(* from limbs as large as the sums and differences of the programs make    *)
(* them: no carry and no fold is lost.  What reduce returns is the one     *)
(* canonical form, in limbs that fcontract_store puts side by side to the  *)
(* number itself; and fexpand reads all of a number but its highest bit.   *)
LimbsAgree ==
  call.op = "field" =>
    LET p == F!Modulus
        a == F!Eval(call.a) % p
        b == F!Eval(call.b) % p
        value(op) == CASE op = "fmul" -> a * b [] op = "fsquare" -> a * a
                       [] op = "fsum" -> a + b [] op = "fdifference" -> a - b
                       [] op = "fscalar" -> a * call.s [] op = "times_2" -> 2 * a
                       [] op = "reduce_513" -> a [] op = "reduce" -> b
    IN /\ \A o \in call.out :
         /\ F!Eval(o[2]) % p = value(o[1]) % p
         /\ o[1] = "reduce" => F!Eval(o[2]) < p /\ \A i \in 0 .. 4 : o[2][i] < 8
       /\ call.stored = b
       /\ F!Eval(call.loaded) = F!Eval(call.a) % 2 ^ 15 /\ \A i \in 0 .. 4 : call.loaded[i] < 8

(* Products and sums modulo the order of the base point, and hashes        *)
(* reduced by Barrett's method, are right and fully reduced: one           *)
(* conditional subtraction is enough, and no borrow is lost on the way.    *)
ModqAgree ==
  /\ call.op = "mul_modq" => BQ!Val(call.out) = BQ!ProductMod(call.x, call.y)
  /\ call.op = "add_modq" => BQ!Val(call.out) = (BQ!Val(call.x) + BQ!Val(call.y)) % BQ!Order
  /\ call.op = "barrett" => BQ!Val(call.out) = BQ!LongMod(call.t)
  /\ call.op = "gte" => call.out = (BQ!Val(call.s) >= BQ!Order)

(* The addition chain of crecip raises to the power 2^255 - 21, that is    *)
(* p - 2, and the one of Ed25519 to 2^252 - 2, that is (p + 3) / 8: the    *)
(* exponents of an inverse and of a square root.                           *)
ChainsAreExponents ==
  call.op = "chains" => /\ call.recip = 0 .. 254 \ {2, 4}
                        /\ call.root = 1 .. 251

(* The tag of a message that came in pieces is the value of its            *)
(* polynomial, whatever the pieces, and crypto_onetimeauth returns the     *)
(* same.  Before the tag is put together the accumulator is canonical,     *)
(* each limb within its bits.                                              *)
TagIsPolynomial ==
  /\ auth.op \in {"last", "done"} =>
       /\ auth.st.h[0] < 16 /\ auth.st.h[1] < 16 /\ auth.st.h[2] < 8
       /\ Poly!Eval(auth.st.h) < Poly!Modulus
  /\ auth.op = "done" => /\ auth.tag = Poly!PolyOf(auth.m, auth.r, auth.s)
                        /\ auth.tag = Poly!poly_onetimeauth(auth.m, auth.r, auth.s)

(* The arithmetic under the curves and the MAC is that of numbers.         *)
ArithmeticAgrees == LimbsAgree /\ ModqAgree /\ ChainsAreExponents /\ TagIsPolynomial

(* X25519 computes multiples of the point by the clamped secret, also for  *)
(* points on the twist, of small order and with abscissas not below p; and *)
(* two parties come to the same shared point.                              *)
LadderIsMultiple ==
  call.op = "ecdh" =>
    /\ call.ua.v = MultipleOf(clamp_scalar(call.a), call.u % (2 ^ (Bits - 1)))
    /\ call.ab.v = call.ba.v

(* A point has one encoding: what is accepted is what compressing gives    *)
(* back, and it is a point of the curve.  Doubling it and adding it to     *)
(* itself agree, and their fourth coordinate stays the product of the      *)
(* first two.                                                              *)
EncodingsCanonical ==
  call.op = "decompress" /\ call.p # Failed =>
    LET x == call.p.x.v
        y == call.p.y.v
    IN /\ call.back = call.s
       /\ (y * y - x * x) % P = (1 + d * (((x * x) % P) * ((y * y) % P) % P)) % P
       /\ point_equal(call.dbl, call.sum)
       /\ \A q \in {call.dbl, call.sum} : (q.x.v * q.y.v) % P = (q.z.v * q.t.v) % P

(* A number that is not accepted as a point is no encoding of one.         *)
EncodingsComplete ==
  call.op = "decompress" /\ call.p = Failed =>
    LET y == call.s % (2 ^ (Bits - 1))
    IN \A x \in 0 .. P - 1 :
         y < P /\ x % 2 = Bit(call.s, Bits - 1) =>
           (y * y - x * x) % P # (1 + d * ((((x * x) % P) * ((y * y) % P)) % P)) % P

(* Compression and decompression are inverse to each other: the numbers    *)
(* point_decompress accepts are the encodings, each of one point.          *)
EncodingsExact == EncodingsCanonical /\ EncodingsComplete

(* No sum, difference or product that the programs of the ladder, of the   *)
(* points and of their encodings go through overflows a word of 64 bits,   *)
(* and the limbs of scalars and of the accumulator stay words too.         *)
NoWordOverflows ==
  /\ call.op \in {"mul_modq", "add_modq"} => \A i \in 1 .. 5 : call.out[i] \in 0 .. 31
  /\ auth.op # "none" => \A i \in 0 .. 2 : auth.st.h[i] \in 0 .. 2 ^ 12 - 1
  /\ call.op = "ecdh" => \A r \in {call.ua, call.ub, call.ab, call.ba} : r.u < Lost
  /\ call.op = "decompress" /\ call.p # Failed =>
       \A q \in {call.p, call.dbl, call.sum} : \A c \in {q.x, q.y, q.z, q.t} : c.u < Lost

(* A signature that arrives as it was made is accepted.                    *)
SignaturesVerify ==
  call.op = "verify" /\ (\E e \in signed : [public |-> e.public, msg |-> e.msg, sig |-> e.sig] = call.v)
    => call.ok

(* For one key, message and R, one s is accepted: nobody can make another  *)
(* signature from one he has seen.                                         *)
OneSignature ==
  \A v, w \in accepted : v.public = w.public /\ v.msg = w.msg /\ v.sig.R = w.sig.R => v = w

(* verify accepts every signature that was made and, for a key, a message  *)
(* and an R, no second one.                                                *)
SignaturesExact == SignaturesVerify /\ OneSignature
=============================================================================
