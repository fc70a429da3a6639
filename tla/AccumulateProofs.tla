-------------------------- MODULE AccumulateProofs --------------------------
(***************************************************************************)
(* Proofs of Accumulate: the loop of accumulate computes the MAC of        *)
(* encode_both, and encode_both is injective, for every size of words,     *)
(* every MAC and all lengths that fit their bytes.                         *)
(***************************************************************************)
EXTENDS Accumulate, Induction, SequenceTheorems

Byte == 0 .. Base - 1
Word == [1 .. Wlen -> Byte]
Bytes == Seq(Byte)
-----------------------------------------------------------------------------
(* Lengths as bytes.                                                       *)

(* Wlen is four quarters.                                                  *)
LEMMA QuarterNat == Quarter \in Nat \ {0} /\ 4 * Quarter = Wlen
BY EncodingAssumption DEF Quarter

(* Each byte is the number before it shifted down: the recursion of        *)
(* uint32_bytes.                                                           *)
LEMMA ShiftedFacts ==
  ASSUME NEW n \in Nat
  PROVE  /\ Shifted(n) \in [0 .. Quarter -> Nat] /\ Shifted(n)[0] = n
         /\ \A j \in 1 .. Quarter : Shifted(n)[j] = Shifted(n)[j - 1] \div Base
<1> DEFINE Q == Quarter
           F == [x \in Nat \X Nat |-> x[1] \div Base]
           Eq(g) == g = [j \in 0 .. Q |-> IF j = 0 THEN n ELSE g[j - 1] \div Base]
<1>q. Q \in Nat
  BY QuarterNat
<1> HIDE DEF Q
<1>1. \A x \in Nat : x \div Base \in Nat
  BY EncodingAssumption
<1>2. F \in [Nat \X Nat -> Nat]
  BY <1>1
<1>3. \A x, j \in Nat : F[<<x, j>>] = x \div Base
  OBVIOUS
<1> HIDE DEF F
<1>r. PICK g : Recursive(g, Nat, n, F, Q)
  BY <1>q, <1>2, RecursionExists
<1>4. g \in [0 .. Q -> Nat] /\ g[0] = n /\ \A j \in 1 .. Q : g[j] = F[<<g[j - 1], j>>]
  BY <1>r DEF Recursive
<1>5. ASSUME NEW j \in 1 .. Q PROVE g[j] = g[j - 1] \div Base
  <2>1. g[j - 1] \in Nat /\ j \in Nat
    BY <1>q, <1>4
  <2> QED  BY <1>3, <1>4, <2>1
<1>6. Eq(g)
  <2>1. \A j \in 0 .. Q : g[j] = IF j = 0 THEN n ELSE g[j - 1] \div Base
    BY <1>q, <1>4, <1>5
  <2> QED  BY <1>4, <2>1
<1>7. Shifted(n) = CHOOSE h : Eq(h)
  BY DEF Shifted, Q
<1>8. Eq(Shifted(n))
  BY <1>6, <1>7
<1>9. \A j \in 0 .. Q : Shifted(n)[j] = g[j]
  <2> DEFINE f == Shifted(n)
             I == {j \in Nat : j <= Q => f[j] = g[j]}
  <2> HIDE DEF f
  <2>f. f = [j \in 0 .. Q |-> IF j = 0 THEN n ELSE f[j - 1] \div Base]
    BY <1>8 DEF f
  <2>1. 0 \in I
    BY <1>q, <1>4, <2>f
  <2>2. ASSUME NEW j \in Nat, j \in I PROVE j + 1 \in I
    <3> SUFFICES ASSUME j + 1 <= Q PROVE f[j + 1] = g[j + 1]
      OBVIOUS
    <3>1. j + 1 \in 1 .. Q /\ j <= Q /\ f[j] = g[j] /\ j + 1 # 0 /\ (j + 1) - 1 = j
      BY <1>q, <2>2
    <3>2. f[j + 1] = f[j] \div Base
      BY <2>f, <3>1
    <3>3. g[j + 1] = g[j] \div Base
      BY <1>5, <3>1
    <3> QED  BY <3>1, <3>2, <3>3
  <2> HIDE DEF I
  <2>3. \A j \in Nat : j \in I
    BY <2>1, <2>2, SetInduction
  <2> QED  BY <1>q, <2>3 DEF I, f
<1> HIDE DEF Eq
<1>10. Shifted(n) \in [0 .. Q -> Nat] /\ Shifted(n)[0] = n
  <2>1. Shifted(n) = [j \in 0 .. Q |-> Shifted(n)[j]]
    BY <1>8 DEF Eq
  <2>2. Shifted(n) = g
    BY <1>4, <1>9, <2>1
  <2> QED  BY <1>4, <2>2
<1>11. \A j \in 1 .. Q : Shifted(n)[j] = Shifted(n)[j - 1] \div Base
  BY <1>5, <1>9, <1>q
<1> QED  BY <1>10, <1>11 DEF Q

(* A number is determined by its bytes, if it has no others.               *)
LEMMA BytesDetermine ==
  ASSUME NEW n \in Nat, NEW m \in Nat, FitsBytes(n), FitsBytes(m),
         \A j \in 1 .. Quarter : Shifted(n)[j - 1] % Base = Shifted(m)[j - 1] % Base
  PROVE  n = m
<1> DEFINE Q == Quarter
           f == Shifted(n)
           g == Shifted(m)
           I == {k \in Nat : k <= Q => f[Q - k] = g[Q - k]}
<1>1. /\ Q \in Nat /\ f[0] = n /\ g[0] = m /\ f \in [0 .. Q -> Nat] /\ g \in [0 .. Q -> Nat]
      /\ \A j \in 1 .. Q : f[j] = f[j - 1] \div Base /\ g[j] = g[j - 1] \div Base
      /\ \A j \in 1 .. Q : f[j - 1] % Base = g[j - 1] % Base
      /\ f[Q] = g[Q]
  BY QuarterNat, ShiftedFacts DEF FitsBytes
<1> HIDE DEF Q, f, g
<1>2. 0 \in I
  BY <1>1
<1>3. \A x, y \in Nat : x \div Base = y \div Base /\ x % Base = y % Base => x = y
  BY EncodingAssumption
<1>4. ASSUME NEW k \in Nat, k \in I PROVE k + 1 \in I
  <2> SUFFICES ASSUME k + 1 <= Q PROVE f[Q - (k + 1)] = g[Q - (k + 1)]
    OBVIOUS
  <2>1. Q - k \in 1 .. Q /\ (Q - k) - 1 = Q - (k + 1) /\ Q - (k + 1) \in 0 .. Q /\ f[Q - k] = g[Q - k]
    BY <1>1, <1>4
  <2> DEFINE x == f[Q - (k + 1)]
             y == g[Q - (k + 1)]
  <2>2. x \in Nat /\ y \in Nat
    BY <1>1, <2>1
  <2>3. x \div Base = y \div Base /\ x % Base = y % Base
    <3>1. f[Q - k] = x \div Base /\ g[Q - k] = y \div Base /\ x % Base = y % Base
      BY <1>1, <2>1
    <3> HIDE DEF x, y
    <3> QED  BY <2>1, <3>1
  <2> HIDE DEF x, y
  <2>4. x = y
    BY <1>3, <2>2, <2>3
  <2> QED  BY <2>4 DEF x, y
<1> HIDE DEF I
<1>5. Q \in I
  BY <1>1, <1>2, <1>4, SetInduction
<1> QED  BY <1>1, <1>5 DEF I

(* What uint32_bytes returns, by place.                                    *)
LEMMA LittleEndianFacts ==
  ASSUME NEW n \in Nat
  PROVE  /\ LittleEndian(n) \in Bytes /\ Len(LittleEndian(n)) = Quarter
         /\ \A j \in 1 .. Quarter : LittleEndian(n)[j] = Shifted(n)[j - 1] % Base
<1>1. \A j \in 1 .. Quarter : Shifted(n)[j - 1] \in Nat
  BY QuarterNat, ShiftedFacts
<1>2. \A x \in Nat : x % Base \in Byte
  BY EncodingAssumption DEF Byte
<1>3. \A j \in 1 .. Quarter : Shifted(n)[j - 1] % Base \in Byte
  BY <1>1, <1>2
<1> HIDE DEF Byte
<1> QED  BY <1>3, QuarterNat DEF LittleEndian, Bytes

(* What uint32_be returns: the same bytes from the other end.              *)
LEMMA BigEndianFacts ==
  ASSUME NEW n \in Nat
  PROVE  /\ BigEndian(n) \in Bytes /\ Len(BigEndian(n)) = Quarter
         /\ \A j \in 1 .. Quarter : BigEndian(n)[(Quarter - j) + 1] = LittleEndian(n)[j]
<1> DEFINE q == LittleEndian(n)
<1>1. q \in Seq(Byte) /\ Len(q) = Quarter /\ Quarter \in Nat
  BY LittleEndianFacts, QuarterNat DEF Bytes
<1>2. BigEndian(n) = [k \in 1 .. Len(q) |-> q[(Len(q) - k) + 1]]
  BY DEF BigEndian, Reverse
<1> HIDE DEF q
<1>3. \A k \in 1 .. Quarter : (Quarter - k) + 1 \in 1 .. Quarter /\ q[(Quarter - k) + 1] \in Byte
  BY <1>1, ElementOfSeq
<1>4. BigEndian(n) \in Bytes /\ Len(BigEndian(n)) = Quarter
  BY <1>1, <1>2, <1>3 DEF Bytes
<1>5. ASSUME NEW j \in 1 .. Quarter PROVE BigEndian(n)[(Quarter - j) + 1] = q[j]
  <2>1. (Quarter - j) + 1 \in 1 .. Quarter /\ (Quarter - ((Quarter - j) + 1)) + 1 = j
    BY <1>1
  <2> QED  BY <1>1, <1>2, <2>1
<1> QED  BY <1>4, <1>5 DEF q

(* What pads a text.                                                       *)
LEMMA ZerosFacts ==
  ASSUME NEW n \in Nat
  PROVE  Zeros(n) \in Bytes /\ Len(Zeros(n)) = n /\ \A k \in 1 .. n : Zeros(n)[k] = 0
BY EncodingAssumption DEF Zeros, Bytes, Byte

(* A word made of quarters, by place.                                      *)
Quarters == {q \in Bytes : Len(q) = Quarter}
Join(d, e, f, g) == d \o e \o f \o g
LEMMA JoinFacts ==
  ASSUME NEW d \in Quarters, NEW e \in Quarters, NEW f \in Quarters, NEW g \in Quarters
  PROVE  /\ Join(d, e, f, g) \in Bytes /\ Len(Join(d, e, f, g)) = Wlen
         /\ \A j \in 1 .. Quarter :
              /\ Join(d, e, f, g)[j] = d[j]
              /\ Join(d, e, f, g)[Quarter + j] = e[j]
              /\ Join(d, e, f, g)[2 * Quarter + j] = f[j]
              /\ Join(d, e, f, g)[3 * Quarter + j] = g[j]
<1> DEFINE x == d \o e
           y == x \o f
           w == y \o g
           Q == Quarter
<1>1. /\ d \in Seq(Byte) /\ e \in Seq(Byte) /\ f \in Seq(Byte) /\ g \in Seq(Byte)
      /\ Len(d) = Q /\ Len(e) = Q /\ Len(f) = Q /\ Len(g) = Q /\ Q \in Nat /\ Wlen = 4 * Q
  BY QuarterNat DEF Quarters, Bytes
<1> HIDE DEF Q
<1>2. /\ x \in Seq(Byte) /\ Len(x) = Q + Q
      /\ \A j \in 1 .. Q + Q : x[j] = IF j <= Q THEN d[j] ELSE e[j - Q]
  <2>1. /\ x \in Seq(Byte) /\ Len(x) = Len(d) + Len(e)
        /\ \A j \in 1 .. Len(d) + Len(e) : x[j] = IF j <= Len(d) THEN d[j] ELSE e[j - Len(d)]
    BY <1>1, ConcatProperties
  <2> HIDE DEF x
  <2> QED  BY <1>1, <2>1
<1> HIDE DEF x
<1>3. /\ y \in Seq(Byte) /\ Len(y) = Q + Q + Q
      /\ \A j \in 1 .. Q + Q + Q : y[j] = IF j <= Q + Q THEN x[j] ELSE f[j - (Q + Q)]
  <2>1. /\ y \in Seq(Byte) /\ Len(y) = Len(x) + Len(f)
        /\ \A j \in 1 .. Len(x) + Len(f) : y[j] = IF j <= Len(x) THEN x[j] ELSE f[j - Len(x)]
    BY <1>1, <1>2, ConcatProperties
  <2> HIDE DEF y
  <2> QED  BY <1>1, <1>2, <2>1
<1> HIDE DEF y
<1>4. /\ w \in Seq(Byte) /\ Len(w) = 4 * Q
      /\ \A j \in 1 .. 4 * Q : w[j] = IF j <= Q + Q + Q THEN y[j] ELSE g[j - (Q + Q + Q)]
  <2>1. /\ w \in Seq(Byte) /\ Len(w) = Len(y) + Len(g)
        /\ \A j \in 1 .. Len(y) + Len(g) : w[j] = IF j <= Len(y) THEN y[j] ELSE g[j - Len(y)]
    BY <1>1, <1>3, ConcatProperties
  <2> HIDE DEF w
  <2> QED  BY <1>1, <1>3, <2>1
<1> HIDE DEF w
<1>5. ASSUME NEW j \in 1 .. Q
      PROVE  w[j] = d[j] /\ w[Q + j] = e[j] /\ w[2 * Q + j] = f[j] /\ w[3 * Q + j] = g[j]
  <2>1. w[j] = d[j]
    BY <1>1, <1>2, <1>3, <1>4
  <2>2. w[Q + j] = e[j]
    BY <1>1, <1>2, <1>3, <1>4
  <2>3. w[2 * Q + j] = f[j]
    BY <1>1, <1>3, <1>4
  <2>4. w[3 * Q + j] = g[j]
    BY <1>1, <1>4
  <2> QED  BY <2>1, <2>2, <2>3, <2>4
<1>6. Join(d, e, f, g) = w
  BY DEF Join, w, y, x
<1> QED  BY <1>1, <1>4, <1>5, <1>6 DEF Q, Bytes

LEMMA JoinAt ==
  ASSUME NEW d \in Quarters, NEW e \in Quarters, NEW f \in Quarters, NEW g \in Quarters,
         NEW j \in 1 .. Quarter
  PROVE  /\ Join(d, e, f, g)[j] = d[j] /\ Join(d, e, f, g)[Quarter + j] = e[j]
         /\ Join(d, e, f, g)[2 * Quarter + j] = f[j] /\ Join(d, e, f, g)[3 * Quarter + j] = g[j]
BY JoinFacts

(* The quarters of a word of lengths.                                      *)
LEMMA QuartersFacts ==
  /\ Zeros(Quarter) \in Quarters
  /\ \A n \in Nat : LittleEndian(n) \in Quarters /\ BigEndian(n) \in Quarters
BY QuarterNat, ZerosFacts, LittleEndianFacts, BigEndianFacts DEF Quarters

(* The word of lengths determines them.                                    *)
LEMMA LengthsDetermine ==
  ASSUME NEW alg \in {"POLY1305", "GHASH"}, NEW x \in Nat, NEW y \in Nat, NEW u \in Nat, NEW v \in Nat,
         \A n \in {x, y, u, v} : FitsBytes(n) /\ FitsBytes(ByteBits * n),
         encode_lengths(alg, x, y) = encode_lengths(alg, u, v)
  PROVE  x = u /\ y = v
<1> DEFINE z == Zeros(Quarter)
<1>z. z \in Quarters
  BY QuartersFacts
<1>1. CASE alg = "POLY1305"
  <2>1. Join(LittleEndian(x), z, LittleEndian(y), z) = Join(LittleEndian(u), z, LittleEndian(v), z)
    BY <1>1 DEF encode_lengths, encode_lengths_poly1305, Join
  <2>2. ASSUME NEW j \in 1 .. Quarter
        PROVE  LittleEndian(x)[j] = LittleEndian(u)[j] /\ LittleEndian(y)[j] = LittleEndian(v)[j]
    <3> DEFINE w == Join(LittleEndian(x), z, LittleEndian(y), z)
    <3> HIDE DEF z
    <3>q. /\ LittleEndian(x) \in Quarters /\ LittleEndian(y) \in Quarters
          /\ LittleEndian(u) \in Quarters /\ LittleEndian(v) \in Quarters
      BY QuartersFacts
    <3>1. w[j] = LittleEndian(x)[j] /\ w[2 * Quarter + j] = LittleEndian(y)[j]
      BY <1>z, <3>q, JoinAt
    <3> DEFINE w1 == Join(LittleEndian(u), z, LittleEndian(v), z)
    <3>2. w1[j] = LittleEndian(u)[j] /\ w1[2 * Quarter + j] = LittleEndian(v)[j]
      BY <1>z, <3>q, JoinAt
    <3>3. w = w1
      BY <2>1
    <3> HIDE DEF w, w1
    <3> QED  BY <3>1, <3>2, <3>3
  <2>3. \A j \in 1 .. Quarter : /\ Shifted(x)[j - 1] % Base = Shifted(u)[j - 1] % Base
                                /\ Shifted(y)[j - 1] % Base = Shifted(v)[j - 1] % Base
    BY <2>2, LittleEndianFacts
  <2> QED  BY <2>3, BytesDetermine
<1>2. CASE alg = "GHASH"
  <2> DEFINE X == ByteBits * x
             Y == ByteBits * y
             U == ByteBits * u
             V == ByteBits * v
  <2>1. Join(z, BigEndian(X), z, BigEndian(Y)) = Join(z, BigEndian(U), z, BigEndian(V))
    BY <1>2 DEF encode_lengths, encode_lengths_ghash, Join
  <2>2. /\ X \in Nat /\ Y \in Nat /\ U \in Nat /\ V \in Nat
        /\ FitsBytes(X) /\ FitsBytes(Y) /\ FitsBytes(U) /\ FitsBytes(V)
    BY EncodingAssumption
  <2>3. (X = U => x = u) /\ (Y = V => y = v)
    BY EncodingAssumption
  <2> HIDE DEF X, Y, U, V
  <2>4. ASSUME NEW j \in 1 .. Quarter
        PROVE  BigEndian(X)[j] = BigEndian(U)[j] /\ BigEndian(Y)[j] = BigEndian(V)[j]
    <3> DEFINE w == Join(z, BigEndian(X), z, BigEndian(Y))
    <3> HIDE DEF z
    <3>q. /\ BigEndian(X) \in Quarters /\ BigEndian(Y) \in Quarters
          /\ BigEndian(U) \in Quarters /\ BigEndian(V) \in Quarters
      BY <2>2, QuartersFacts
    <3>1. w[Quarter + j] = BigEndian(X)[j] /\ w[3 * Quarter + j] = BigEndian(Y)[j]
      BY <1>z, <3>q, JoinAt
    <3> DEFINE w1 == Join(z, BigEndian(U), z, BigEndian(V))
    <3>2. w1[Quarter + j] = BigEndian(U)[j] /\ w1[3 * Quarter + j] = BigEndian(V)[j]
      BY <1>z, <3>q, JoinAt
    <3>3. w = w1
      BY <2>1
    <3> HIDE DEF w, w1
    <3> QED  BY <3>1, <3>2, <3>3
  <2>5. ASSUME NEW j \in 1 .. Quarter
        PROVE  LittleEndian(X)[j] = LittleEndian(U)[j] /\ LittleEndian(Y)[j] = LittleEndian(V)[j]
    <3>1. (Quarter - j) + 1 \in 1 .. Quarter
      BY QuarterNat
    <3> QED  BY <2>2, <2>4, <3>1, BigEndianFacts
  <2>6. \A j \in 1 .. Quarter : /\ Shifted(X)[j - 1] % Base = Shifted(U)[j - 1] % Base
                                /\ Shifted(Y)[j - 1] % Base = Shifted(V)[j - 1] % Base
    BY <2>2, <2>5, LittleEndianFacts
  <2>7. X = U /\ Y = V
    BY <2>2, <2>6, BytesDetermine
  <2> QED  BY <2>3, <2>7
<1> QED  BY <1>1, <1>2
-----------------------------------------------------------------------------
(* Texts as words: the recursion of encode_bytes.                          *)

(* The number of words a length takes is determined by its bounds.         *)
LEMMA CountIs ==
  ASSUME NEW l \in Nat, NEW n \in Int, l <= n * Wlen, n * Wlen < l + Wlen
  PROVE  (l + Wlen - 1) \div Wlen = n
<1> DEFINE x == l + Wlen - 1
           q == x \div Wlen
<1>1. Wlen \in Nat \ {0} /\ x \in Nat
  BY EncodingAssumption
<1>2. q \in Int /\ q * Wlen <= x /\ x < q * Wlen + Wlen
  BY <1>1
<1> HIDE DEF q
<1>3. n * Wlen <= x /\ x < n * Wlen + Wlen
  BY <1>1
<1>4. CASE q < n
  <2>1. (q + 1) * Wlen <= n * Wlen
    BY <1>1, <1>2, <1>4
  <2>2. (q + 1) * Wlen = q * Wlen + Wlen
    BY <1>1, <1>2
  <2>3. q * Wlen \in Int /\ n * Wlen \in Int
    BY <1>1, <1>2
  <2> QED  BY <1>1, <1>2, <1>3, <2>1, <2>2, <2>3
<1>5. CASE n < q
  <2>1. (n + 1) * Wlen <= q * Wlen
    BY <1>1, <1>2, <1>5
  <2>2. (n + 1) * Wlen = n * Wlen + Wlen
    BY <1>1
  <2>3. q * Wlen \in Int /\ n * Wlen \in Int
    BY <1>1, <1>2
  <2> QED  BY <1>1, <1>2, <1>3, <2>1, <2>2, <2>3
<1> QED  BY <1>2, <1>4, <1>5 DEF q

(* Those bounds.                                                           *)
LEMMA CountFacts ==
  ASSUME NEW txt \in Bytes
  PROVE  /\ WordCount(txt) \in Nat /\ Len(txt) \in Nat
         /\ Len(txt) <= WordCount(txt) * Wlen /\ WordCount(txt) * Wlen < Len(txt) + Wlen
<1> DEFINE l == Len(txt)
           q == (l + Wlen - 1) \div Wlen
<1>1. Wlen \in Nat \ {0} /\ l \in Nat
  BY EncodingAssumption, LenProperties DEF Bytes
<1> HIDE DEF l
<1>2. q \in Nat /\ q * Wlen <= l + Wlen - 1 /\ l + Wlen - 1 < q * Wlen + Wlen
  BY <1>1
<1> HIDE DEF q
<1>3. q * Wlen \in Nat
  BY <1>1, <1>2
<1>4. l <= q * Wlen /\ q * Wlen < l + Wlen
  BY <1>1, <1>2, <1>3
<1> QED  BY <1>1, <1>2, <1>4 DEF WordCount, l, q

(* A word of a text, by place.                                             *)
LEMMA WordFacts ==
  ASSUME NEW txt \in Bytes, NEW j \in Nat \ {0}
  PROVE  /\ WordAt(txt, j) \in Word
         /\ \A b \in 1 .. Wlen :
              WordAt(txt, j)[b] = IF (j - 1) * Wlen + b <= Len(txt) THEN txt[(j - 1) * Wlen + b] ELSE 0
<1> DEFINE o == (j - 1) * Wlen
<1>1. o \in Nat /\ Wlen \in Nat /\ 0 \in Byte
  BY EncodingAssumption DEF Byte
<1>2. WordAt(txt, j) = [b \in 1 .. Wlen |-> IF o + b <= Len(txt) THEN txt[o + b] ELSE 0]
  BY DEF WordAt
<1> HIDE DEF o
<1>3. \A b \in 1 .. Wlen : (IF o + b <= Len(txt) THEN txt[o + b] ELSE 0) \in Byte
  BY <1>1, ElementOfSeq, LenProperties DEF Bytes
<1>4. WordAt(txt, j) \in Word
  BY <1>2, <1>3 DEF Word
<1>5. \A b \in 1 .. Wlen : WordAt(txt, j)[b] = IF o + b <= Len(txt) THEN txt[o + b] ELSE 0
  BY <1>2
<1> QED  BY <1>4, <1>5 DEF o

(* Words are equal if their bytes are.                                     *)
LEMMA WordEqual ==
  ASSUME NEW x \in Word, NEW y \in Word, \A b \in 1 .. Wlen : x[b] = y[b]
  PROVE  x = y
<1>1. x = [b \in 1 .. Wlen |-> x[b]] /\ y = [b \in 1 .. Wlen |-> y[b]]
  BY Zenon DEF Word
<1>2. [b \in 1 .. Wlen |-> x[b]] = [b \in 1 .. Wlen |-> y[b]]
  BY Zenon
<1> QED  BY <1>1, <1>2, Zenon

(* The words of a text, by place.                                          *)
LEMMA EncodeType ==
  ASSUME NEW txt \in Bytes
  PROVE  /\ encode_bytes(txt) \in Seq(Word) /\ Len(encode_bytes(txt)) = WordCount(txt)
         /\ \A k \in 1 .. WordCount(txt) : encode_bytes(txt)[k] = WordAt(txt, WordCount(txt) + 1 - k)
<1> DEFINE n == WordCount(txt)
<1>1. n \in Nat
  BY CountFacts
<1>2. encode_bytes(txt) = [k \in 1 .. n |-> WordAt(txt, n + 1 - k)]
  BY DEF encode_bytes
<1> HIDE DEF n
<1>3. \A k \in 1 .. n : n + 1 - k \in Nat \ {0}
  BY <1>1
<1>4. \A k \in 1 .. n : WordAt(txt, n + 1 - k) \in Word
  BY <1>3, WordFacts
<1> QED  BY <1>1, <1>2, <1>4 DEF n

(* The three cases of encode_bytes in the code: nothing is left,           *)
LEMMA EncodeEmpty ==
  ASSUME NEW txt \in Bytes, Len(txt) = 0
  PROVE  encode_bytes(txt) = <<>>
<1>1. WordCount(txt) = 0
  <2>1. 0 <= 0 * Wlen /\ 0 * Wlen < 0 + Wlen
    BY EncodingAssumption
  <2> QED  BY <2>1, CountIs DEF WordCount
<1> QED  BY <1>1, EncodeType, EmptySeq

(* less than a word is left and is padded,                                 *)
LEMMA EncodeLast ==
  ASSUME NEW txt \in Bytes, Len(txt) > 0, Len(txt) < Wlen
  PROVE  pad_0(txt, Wlen - Len(txt)) \in Word /\ encode_bytes(txt) = <<pad_0(txt, Wlen - Len(txt))>>
<1> DEFINE w == pad_0(txt, Wlen - Len(txt))
<1>1. Len(txt) \in Nat /\ Wlen \in Nat /\ Wlen - Len(txt) \in Nat
  BY EncodingAssumption, LenProperties DEF Bytes
<1>2. WordCount(txt) = 1
  <2>1. Len(txt) <= 1 * Wlen /\ 1 * Wlen < Len(txt) + Wlen
    BY <1>1
  <2> QED  BY <1>1, <2>1, CountIs DEF WordCount
<1>3. encode_bytes(txt) \in Seq(Word) /\ Len(encode_bytes(txt)) = 1 /\ encode_bytes(txt)[1] = WordAt(txt, 1)
  <2>1. /\ encode_bytes(txt) \in Seq(Word) /\ Len(encode_bytes(txt)) = WordCount(txt)
        /\ \A k \in 1 .. WordCount(txt) : encode_bytes(txt)[k] = WordAt(txt, WordCount(txt) + 1 - k)
    BY EncodeType, Zenon
  <2>2. 1 \in 1 .. 1 /\ 1 + 1 - 1 = 1
    OBVIOUS
  <2> HIDE DEF w
  <2>3. encode_bytes(txt)[1] = WordAt(txt, 1 + 1 - 1)
    BY <1>2, <2>1, <2>2, Zenon
  <2> QED  BY <1>2, <2>1, <2>2, <2>3
<1>4. /\ WordAt(txt, 1) \in Word
      /\ \A b \in 1 .. Wlen : WordAt(txt, 1)[b] = IF b <= Len(txt) THEN txt[b] ELSE 0
  <2>1. (1 - 1) * Wlen = 0
    BY <1>1
  <2> QED  BY <1>1, <2>1, WordFacts
<1>5. /\ w \in Seq(Byte) /\ Len(w) = Wlen
      /\ \A b \in 1 .. Wlen : w[b] = IF b <= Len(txt) THEN txt[b] ELSE 0
  <2> DEFINE z == Zeros(Wlen - Len(txt))
  <2>1. z \in Seq(Byte) /\ Len(z) = Wlen - Len(txt) /\ \A k \in 1 .. Wlen - Len(txt) : z[k] = 0
    BY <1>1, ZerosFacts DEF Bytes
  <2>2. w = txt \o z
    BY DEF pad_0
  <2> HIDE DEF w, z
  <2>3. /\ w \in Seq(Byte) /\ Len(w) = Len(txt) + Len(z)
        /\ \A b \in 1 .. Len(txt) + Len(z) : w[b] = IF b <= Len(txt) THEN txt[b] ELSE z[b - Len(txt)]
    BY <2>1, <2>2, ConcatProperties DEF Bytes
  <2>4. Len(txt) + Len(z) = Wlen
    BY <1>1, <2>1
  <2> QED  BY <1>1, <2>1, <2>3, <2>4
<1>6. w = WordAt(txt, 1)
  <2>1. w \in [1 .. Wlen -> Byte]
    BY <1>5, LenProperties
  <2> HIDE DEF w
  <2> QED  BY <1>4, <1>5, <2>1 DEF Word
<1> QED  BY <1>3, <1>4, <1>6

(* and a word is split off.                                                *)
LEMMA EncodeLoop ==
  ASSUME NEW txt \in Bytes, Len(txt) >= Wlen
  PROVE  /\ SubSeq(txt, 1, Wlen) \in Word /\ SubSeq(txt, Wlen + 1, Len(txt)) \in Bytes
         /\ encode_bytes(txt) = Append(encode_bytes(SubSeq(txt, Wlen + 1, Len(txt))), SubSeq(txt, 1, Wlen))
<1> DEFINE l == Len(txt)
           w == SubSeq(txt, 1, Wlen)
           t == SubSeq(txt, Wlen + 1, l)
           n == WordCount(txt)
           m == WordCount(t)
<1>1. l \in Nat /\ Wlen \in Nat \ {0} /\ \A k \in 1 .. l : txt[k] \in Byte
  BY EncodingAssumption, LenProperties, ElementOfSeq DEF Bytes
<1>2. w \in Seq(Byte) /\ Len(w) = Wlen /\ \A b \in 1 .. Wlen : w[b] = txt[b]
  <2>1. \A k \in 1 .. Wlen : txt[k] \in Byte
    BY <1>1
  <2> HIDE DEF l
  <2>2. /\ w \in Seq(Byte) /\ Len(w) = IF 1 <= Wlen THEN Wlen - 1 + 1 ELSE 0
        /\ \A b \in 1 .. Wlen - 1 + 1 : w[b] = txt[1 + b - 1]
    BY <1>1, <2>1, SubSeqProperties
  <2> HIDE DEF w
  <2> QED  BY <1>1, <2>2
<1>3. t \in Seq(Byte) /\ Len(t) = l - Wlen /\ \A k \in 1 .. l - Wlen : t[k] = txt[Wlen + k]
  <2>1. \A k \in Wlen + 1 .. l : txt[k] \in Byte
    BY <1>1
  <2>2. /\ t \in Seq(Byte) /\ Len(t) = IF Wlen + 1 <= l THEN l - (Wlen + 1) + 1 ELSE 0
        /\ \A k \in 1 .. l - (Wlen + 1) + 1 : t[k] = txt[Wlen + 1 + k - 1]
    BY <1>1, <2>1, SubSeqProperties
  <2> HIDE DEF t, l
  <2> QED  BY <1>1, <2>2 DEF l
<1> HIDE DEF w, t
<1>4. /\ n \in Nat /\ l <= n * Wlen /\ n * Wlen < l + Wlen
      /\ m \in Nat /\ l - Wlen <= m * Wlen /\ m * Wlen < (l - Wlen) + Wlen
  BY <1>3, CountFacts DEF Bytes
<1>5. n = m + 1
  <2>1. (m + 1) * Wlen = m * Wlen + Wlen /\ m * Wlen \in Nat
    BY <1>1, <1>4
  <2>2. l <= (m + 1) * Wlen /\ (m + 1) * Wlen < l + Wlen
    BY <1>1, <1>4, <2>1
  <2>3. m + 1 \in Int
    BY <1>4
  <2> QED  BY <1>1, <2>2, <2>3, CountIs DEF n, WordCount
<1>6. w = WordAt(txt, 1) /\ w \in Word
  <2>1. /\ WordAt(txt, 1) \in Word
        /\ \A b \in 1 .. Wlen : WordAt(txt, 1)[b] = txt[b]
    <3>1. (1 - 1) * Wlen = 0
      BY <1>1
    <3> QED  BY <1>1, <3>1, WordFacts
  <2>2. w \in [1 .. Wlen -> Byte]
    BY <1>2, LenProperties
  <2> QED  BY <1>2, <2>1, <2>2 DEF Word
<1>7. ASSUME NEW j \in Nat \ {0} PROVE WordAt(t, j) = WordAt(txt, j + 1)
  <2> DEFINE o == (j - 1) * Wlen
  <2>1. o \in Nat /\ ((j + 1) - 1) * Wlen = o + Wlen /\ j + 1 \in Nat \ {0}
    BY <1>1
  <2>2. /\ WordAt(t, j) \in Word
        /\ \A b \in 1 .. Wlen : WordAt(t, j)[b] = IF o + b <= l - Wlen THEN t[o + b] ELSE 0
    BY <1>3, WordFacts DEF Bytes
  <2> HIDE DEF o
  <2>3. /\ WordAt(txt, j + 1) \in Word
        /\ \A b \in 1 .. Wlen :
             WordAt(txt, j + 1)[b] = IF o + Wlen + b <= l THEN txt[o + Wlen + b] ELSE 0
    BY <2>1, WordFacts
  <2>4. ASSUME NEW b \in 1 .. Wlen PROVE WordAt(t, j)[b] = WordAt(txt, j + 1)[b]
    <3>1. o + b \in Nat \ {0} /\ (o + b <= l - Wlen <=> o + Wlen + b <= l) /\ Wlen + (o + b) = o + Wlen + b
      BY <1>1, <2>1
    <3> QED  BY <1>1, <1>3, <2>2, <2>3, <3>1
  <2> DEFINE x == WordAt(t, j)
             y == WordAt(txt, j + 1)
  <2>5. x \in Word /\ y \in Word
    BY <2>2, <2>3, Zenon
  <2>6. \A b \in 1 .. Wlen : x[b] = y[b]
    BY <2>4, Zenon
  <2> HIDE DEF x, y
  <2>7. x = y
    BY <2>5, <2>6, WordEqual, Zenon
  <2> QED  BY <2>7 DEF x, y
<1>8. /\ encode_bytes(txt) \in Seq(Word) /\ Len(encode_bytes(txt)) = n
      /\ \A k \in 1 .. n : encode_bytes(txt)[k] = WordAt(txt, n + 1 - k)
      /\ encode_bytes(t) \in Seq(Word) /\ Len(encode_bytes(t)) = m
      /\ \A k \in 1 .. m : encode_bytes(t)[k] = WordAt(t, m + 1 - k)
  BY <1>3, EncodeType DEF Bytes
<1> HIDE DEF n, m, l
<1>9. ASSUME NEW k \in 1 .. n PROVE encode_bytes(txt)[k] = Append(encode_bytes(t), w)[k]
  <2>1. CASE k = n
    <3>1. n + 1 - k = 1 /\ k = m + 1
      BY <1>4, <1>5, <2>1
    <3>2. Append(encode_bytes(t), w)[m + 1] = w
      BY <1>6, <1>8, AppendProperties
    <3> QED  BY <1>6, <1>8, <3>1, <3>2
  <2>2. CASE k < n
    <3>1. k \in 1 .. m /\ m + 1 - k \in Nat \ {0} /\ (m + 1 - k) + 1 = n + 1 - k
      BY <1>4, <1>5, <2>2
    <3>2. Append(encode_bytes(t), w)[k] = encode_bytes(t)[k]
      BY <1>6, <1>8, <3>1, AppendProperties
    <3> QED  BY <1>7, <1>8, <3>1, <3>2
  <2>3. k = n \/ k < n
    BY <1>4
  <2> QED  BY <2>1, <2>2, <2>3, Zenon
<1>10. encode_bytes(txt) = Append(encode_bytes(t), w)
  <2>1. Append(encode_bytes(t), w) \in Seq(Word) /\ Len(Append(encode_bytes(t), w)) = n
    BY <1>5, <1>6, <1>8, AppendProperties
  <2> DEFINE x == encode_bytes(txt)
             y == Append(encode_bytes(t), w)
  <2>2. x \in Seq(Word) /\ y \in Seq(Word) /\ Len(x) = Len(y) /\ \A k \in 1 .. Len(x) : x[k] = y[k]
    BY <1>8, <1>9, <2>1
  <2> HIDE DEF x, y
  <2>3. x = y
    BY <2>2, SeqEqual
  <2> QED  BY <2>3 DEF x, y
<1> QED  BY <1>3, <1>6, <1>10 DEF l, w, t, Bytes
-----------------------------------------------------------------------------
(* The polynomial of the MAC: poly of Crypto.Symmetric.MAC is 0 for no     *)
(* words, and Horner's step for one word more.                             *)

Horner(alg, x, v, w) == field_mul(alg, field_add(alg, v, encode(alg, w)), x)

(* g[k] is the value after the last k of the words cs, for k up to n.      *)
Values(g, alg, cs, x, n) ==
  g[0] = 0 /\ \A k \in 1 .. n : g[k] = Horner(alg, x, g[k - 1], cs[Len(cs) + 1 - k])

(* There are such values.                                                  *)
LEMMA ValuesExist ==
  ASSUME NEW alg, NEW x, NEW cs, NEW n \in Nat
  PROVE  \E g : Values(g, alg, cs, x, n)
<1> DEFINE H(v, k) == Horner(alg, x, v, cs[Len(cs) + 1 - k])
           Good(g, m) == g[0] = 0 /\ \A k \in 1 .. m : g[k] = H(g[k - 1], k)
           I == {m \in Nat : \E g : Good(g, m)}
<1>0. \A g : Good(g, n) => Values(g, alg, cs, x, n)
  BY DEF Values
<1> HIDE DEF H
<1>1. 0 \in I
  <2>1. Good([k \in 0 .. 0 |-> 0], 0)
    OBVIOUS
  <2> QED  BY <2>1
<1>2. ASSUME NEW m \in Nat, m \in I PROVE m + 1 \in I
  <2>1. PICK g : Good(g, m)
    BY <1>2
  <2> DEFINE h == [k \in 0 .. m + 1 |-> IF k <= m THEN g[k] ELSE H(g[m], m + 1)]
  <2>2. h[0] = 0
    BY <2>1
  <2>3. ASSUME NEW k \in 1 .. m + 1 PROVE h[k] = H(h[k - 1], k)
    <3>1. CASE k <= m
      <4>1. h[k] = g[k] /\ h[k - 1] = g[k - 1] /\ k \in 1 .. m
        BY <3>1
      <4> HIDE DEF h
      <4> QED  BY <2>1, <4>1
    <3>2. CASE k = m + 1
      <4>1. h[k] = H(g[m], k) /\ h[m] = g[m] /\ k - 1 = m
        BY <3>2
      <4> HIDE DEF h
      <4> QED  BY <4>1
    <3> QED  BY <3>1, <3>2
  <2> HIDE DEF h
  <2>4. Good(h, m + 1) /\ m + 1 \in Nat
    BY <2>2, <2>3
  <2> QED  BY <2>4
<1> HIDE DEF I
<1>3. n \in I
  BY <1>1, <1>2, SetInduction
<1> QED  BY <1>0, <1>3 DEF I

(* And their last is the polynomial.                                       *)
LEMMA PolyIs ==
  ASSUME NEW alg, NEW x, NEW cs, Len(cs) \in Nat, NEW g, Values(g, alg, cs, x, Len(cs))
  PROVE  poly(alg, cs, x) = g[Len(cs)]
<1> DEFINE n == Len(cs)
           H(v, k) == field_mul(alg, field_add(alg, v, encode(alg, cs[n + 1 - k])), x)
           Eq(f) == f = [k \in 0 .. n |-> IF k = 0 THEN 0 ELSE H(f[k - 1], k)]
           f == CHOOSE h : Eq(h)
           e == [k \in 0 .. n |-> g[k]]
           I == {k \in Nat : k <= n => f[k] = g[k]}
<1>1. poly(alg, cs, x) = f[n]
  BY DEF poly
<1>2. g[0] = 0 /\ \A k \in 1 .. n : g[k] = H(g[k - 1], k)
  BY DEF Values, Horner
<1> HIDE DEF H, n
<1>n. n \in Nat
  BY DEF n
<1>3. Eq(e)
  <2>1. ASSUME NEW k \in 0 .. n PROVE e[k] = IF k = 0 THEN 0 ELSE H(e[k - 1], k)
    <3>1. CASE k = 0
      BY <1>2, <1>n, <3>1
    <3>2. CASE k # 0
      <4>1. k \in 1 .. n /\ e[k] = g[k] /\ e[k - 1] = g[k - 1]
        BY <1>n, <3>2
      <4> HIDE DEF e
      <4> QED  BY <1>2, <3>2, <4>1
    <3> QED  BY <3>1, <3>2
  <2>2. e = [k \in 0 .. n |-> e[k]]
    OBVIOUS
  <2> HIDE DEF e
  <2> QED  BY <2>1, <2>2
<1> HIDE DEF e
<1>4. Eq(f)
  BY <1>3, Zenon
<1> HIDE DEF f
<1>5. 0 \in I
  BY <1>2, <1>4, <1>n
<1>6. ASSUME NEW k \in Nat, k \in I PROVE k + 1 \in I
  <2> SUFFICES ASSUME k + 1 <= n PROVE f[k + 1] = g[k + 1]
    OBVIOUS
  <2>1. k + 1 \in 1 .. n /\ k + 1 \in 0 .. n /\ k + 1 # 0 /\ (k + 1) - 1 = k /\ f[k] = g[k]
    BY <1>n, <1>6
  <2>2. f[k + 1] = H(f[k], k + 1)
    BY <1>4, <2>1
  <2>3. g[k + 1] = H(g[k], k + 1)
    BY <1>2, <2>1
  <2> QED  BY <2>1, <2>2, <2>3
<1> HIDE DEF I
<1>7. n \in I
  BY <1>5, <1>6, <1>n, SetInduction
<1> QED  BY <1>1, <1>7, <1>n DEF I, n

(* The polynomial of no words.                                             *)
LEMMA PolyEmpty ==
  ASSUME NEW alg, NEW x
  PROVE  poly(alg, <<>>, x) = 0
<1>1. Len(<<>>) = 0
  OBVIOUS
<1>2. PICK g : Values(g, alg, <<>>, x, 0)
  BY ValuesExist
<1> QED  BY <1>1, <1>2, PolyIs DEF Values

(* And of one word more.                                                   *)
LEMMA PolyCons ==
  ASSUME NEW alg, NEW x, NEW cs \in Seq(Word), NEW w \in Word
  PROVE  poly(alg, <<w>> \o cs, x) = Horner(alg, x, poly(alg, cs, x), w)
<1> DEFINE d == <<w>> \o cs
           n == Len(cs)
<1>1. /\ n \in Nat /\ Len(d) = n + 1 /\ d[1] = w
      /\ \A k \in 1 .. n : d[(n + 1) + 1 - k] = cs[n + 1 - k]
  <2>1. <<w>> \in Seq(Word) /\ Len(<<w>>) = 1 /\ <<w>>[1] = w /\ n \in Nat
    OBVIOUS
  <2>2. /\ Len(d) = 1 + n
        /\ \A k \in 1 .. 1 + n : d[k] = IF k <= 1 THEN <<w>>[k] ELSE cs[k - 1]
    BY <2>1, ConcatProperties
  <2> HIDE DEF d, n
  <2>3. ASSUME NEW k \in 1 .. n PROVE d[(n + 1) + 1 - k] = cs[n + 1 - k]
    <3>1. (n + 1) + 1 - k \in 1 .. 1 + n /\ ~((n + 1) + 1 - k <= 1) /\ ((n + 1) + 1 - k) - 1 = n + 1 - k
      BY <2>1
    <3> QED  BY <2>2, <3>1
  <2> QED  BY <2>1, <2>2, <2>3
<1> HIDE DEF d
<1>2. PICK g : Values(g, alg, d, x, n + 1)
  <2>1. n + 1 \in Nat
    BY <1>1
  <2> QED  BY <2>1, ValuesExist
<1>3. poly(alg, d, x) = g[n + 1]
  <2>1. Len(d) \in Nat /\ Values(g, alg, d, x, Len(d))
    BY <1>1, <1>2
  <2>2. poly(alg, d, x) = g[Len(d)]
    BY <2>1, PolyIs, Zenon
  <2> QED  BY <1>1, <2>2
<1>4. Values(g, alg, cs, x, n)
  <2>1. ASSUME NEW k \in 1 .. n PROVE g[k] = Horner(alg, x, g[k - 1], cs[n + 1 - k])
    <3>1. k \in 1 .. n + 1
      BY <1>1
    <3>2. g[k] = Horner(alg, x, g[k - 1], d[(n + 1) + 1 - k])
      BY <1>1, <1>2, <3>1 DEF Values
    <3> QED  BY <1>1, <3>2
  <2> QED  BY <1>2, <2>1 DEF Values
<1>5. poly(alg, cs, x) = g[n]
  BY <1>1, <1>4, PolyIs
<1>6. g[n + 1] = Horner(alg, x, g[n], w)
  <2>1. n + 1 \in 1 .. n + 1 /\ (n + 1) - 1 = n /\ (n + 1) + 1 - (n + 1) = 1
    BY <1>1
  <2>2. g[n + 1] = Horner(alg, x, g[(n + 1) - 1], d[(n + 1) + 1 - (n + 1)])
    BY <1>1, <1>2, <2>1 DEF Values
  <2> QED  BY <1>1, <2>1, <2>2
<1> QED  BY <1>3, <1>5, <1>6 DEF d
-----------------------------------------------------------------------------
(* accumulate, step by step.                                               *)

(* The lengths fill one word.                                              *)
LEMMA LengthsWord ==
  ASSUME NEW alg, NEW x \in Nat, NEW y \in Nat
  PROVE  encode_lengths(alg, x, y) \in Word
<1> DEFINE z == Zeros(Quarter)
           w == encode_lengths(alg, x, y)
<1>1. ByteBits * x \in Nat /\ ByteBits * y \in Nat
  BY EncodingAssumption
<1>2. /\ z \in Quarters /\ LittleEndian(x) \in Quarters /\ LittleEndian(y) \in Quarters
      /\ BigEndian(ByteBits * x) \in Quarters /\ BigEndian(ByteBits * y) \in Quarters
  BY <1>1, QuartersFacts
<1>3. \/ w = Join(LittleEndian(x), z, LittleEndian(y), z)
      \/ w = Join(z, BigEndian(ByteBits * x), z, BigEndian(ByteBits * y))
  BY DEF encode_lengths, encode_lengths_poly1305, encode_lengths_ghash, Join
<1> HIDE DEF w, z
<1>4. w \in Bytes /\ Len(w) = Wlen
  BY <1>2, <1>3, JoinFacts
<1>5. w \in Word
  BY <1>4, LenProperties DEF Word, Bytes
<1> QED  BY <1>5 DEF w

(* The word that a text ends in moves from its encoding to the log.        *)
LEMMA Feed ==
  ASSUME NEW t \in Seq(Word), NEW w \in Word, NEW log \in Seq(Word)
  PROVE  <<w>> \o log \in Seq(Word) /\ Append(t, w) \o log = t \o (<<w>> \o log)
<1>1. <<w>> \in Seq(Word)
  OBVIOUS
<1>2. Append(t, w) = t \o <<w>>
  BY AppendIsConcat
<1>3. (t \o <<w>>) \o log = t \o (<<w>> \o log)
  BY <1>1, ConcatAssociative
<1>4. <<w>> \o log \in Seq(Word)
  BY <1>1, ConcatProperties
<1> QED  BY <1>2, <1>3, <1>4

(* Between two steps the accumulator is the polynomial of the words logged *)
(* and these, with the words still to come, encode the arguments so far.   *)
AccInv ==
  /\ i \in Algs /\ aad \in Aad /\ cipher \in Txt
  /\ rest \in Bytes /\ alog \in Seq(Word) /\ a = poly(i, alog, r)
  /\ phase = "aad" => encode_bytes(rest) \o alog = encode_bytes(aad)
  /\ phase = "cipher" => encode_bytes(rest) \o alog = encode_bytes(cipher) \o encode_bytes(aad)
  /\ phase = "lengths" => alog = encode_bytes(cipher) \o encode_bytes(aad)
  /\ phase \in {"accumulated", "done"} => alog = encode_both(i, aad, cipher)
  /\ phase = "done" => tag = <<finish(i, a, s)>>

(* The arguments are byte strings.                                         *)
LEMMA ArgsBytes == Aad \subseteq Bytes /\ Txt \subseteq Bytes
BY LengthAssumption DEF Bytes, Byte

(* CMA.start establishes the invariant.                                    *)
LEMMA AccInit == Init => AccInv
<1> SUFFICES ASSUME Init PROVE AccInv
  OBVIOUS
<1>1. /\ i \in Algs /\ aad \in Aad /\ cipher \in Txt /\ phase = "aad"
      /\ rest = aad /\ rest \in Bytes /\ alog = <<>> /\ a = 0
  BY ArgsBytes DEF Init
<1>2. alog \in Seq(Word) /\ a = poly(i, alog, r)
  BY <1>1, PolyEmpty
<1>3. encode_bytes(rest) \o alog = encode_bytes(aad)
  <2>1. encode_bytes(rest) \in Seq(Word)
    BY <1>1, EncodeType
  <2> QED  BY <1>1, <2>1, ConcatEmptySeq
<1> QED  BY <1>1, <1>2, <1>3 DEF AccInv

(* What adding a word does to log and accumulator.                         *)
LEMMA UpdateStep ==
  ASSUME AccInv, NEW w \in Word, update(w), i' = i, r' = r
  PROVE  alog' = <<w>> \o alog /\ alog' \in Seq(Word) /\ a' = poly(i', alog', r')
<1>1. alog \in Seq(Word) /\ a = poly(i, alog, r) /\ alog' = <<w>> \o alog /\ a' = Horner(i, r, a, w)
  BY DEF AccInv, update, MACupdate, Horner
<1>2. poly(i, <<w>> \o alog, r) = Horner(i, r, poly(i, alog, r), w)
  BY <1>1, PolyCons
<1>3. <<w>> \o alog \in Seq(Word)
  BY <1>1, Feed, EmptySeq
<1> QED  BY <1>1, <1>2, <1>3

(* add_bytes moves the next word of the argument to the log.               *)
LEMMA AddBytesStep ==
  ASSUME AccInv, add_bytes
  PROVE  AccInv'
<1>1. /\ phase \in {"aad", "cipher"} /\ rest # <<>> /\ phase' = phase
      /\ i' = i /\ aad' = aad /\ cipher' = cipher /\ r' = r
  BY DEF add_bytes
<1>2. rest \in Bytes /\ alog \in Seq(Word) /\ i \in Algs /\ aad \in Aad /\ cipher \in Txt
  BY DEF AccInv
<1>3. PICK w \in Word : /\ update(w) /\ rest' \in Bytes /\ encode_bytes(rest') \in Seq(Word)
                        /\ encode_bytes(rest) = Append(encode_bytes(rest'), w)
  <2>1. CASE Len(rest) < Wlen
    <3> DEFINE w == pad_0(rest, Wlen - Len(rest))
    <3>1. update(w) /\ rest' = <<>>
      BY <2>1 DEF add_bytes
    <3>2. Len(rest) > 0
      BY <1>1, <1>2, EmptySeq, LenProperties DEF Bytes
    <3>3. w \in Word /\ encode_bytes(rest) = <<w>>
      BY <1>2, <2>1, <3>2, EncodeLast
    <3>4. rest' \in Bytes /\ Len(rest') = 0
      BY <3>1 DEF Bytes
    <3>5. encode_bytes(rest') = <<>>
      BY <3>4, EncodeEmpty
    <3> HIDE DEF w
    <3>6. Append(<<>>, w) = <<w>> /\ <<>> \in Seq(Word)
      OBVIOUS
    <3> QED  BY <3>1, <3>3, <3>4, <3>5, <3>6
  <2>2. CASE ~(Len(rest) < Wlen)
    <3> DEFINE w == SubSeq(rest, 1, Wlen)
    <3>1. update(w) /\ rest' = SubSeq(rest, Wlen + 1, Len(rest))
      BY <2>2 DEF add_bytes
    <3>2. Len(rest) >= Wlen
      BY <1>2, <2>2, LenProperties, EncodingAssumption DEF Bytes
    <3>3. w \in Word /\ rest' \in Bytes /\ encode_bytes(rest) = Append(encode_bytes(rest'), w)
      BY <1>2, <3>1, <3>2, EncodeLoop
    <3> HIDE DEF w
    <3>4. encode_bytes(rest') \in Seq(Word)
      BY <3>3, EncodeType
    <3> QED  BY <3>1, <3>3, <3>4
  <2> QED  BY <2>1, <2>2
<1>4. alog' = <<w>> \o alog /\ alog' \in Seq(Word) /\ a' = poly(i', alog', r')
  BY <1>1, <1>3, UpdateStep
<1>5. encode_bytes(rest') \o alog' = encode_bytes(rest) \o alog
  BY <1>2, <1>3, <1>4, Feed
<1> QED  BY <1>1, <1>2, <1>3, <1>4, <1>5 DEF AccInv

(* With nothing left of one argument the next is taken up.                 *)
LEMMA NextArgumentStep ==
  ASSUME AccInv, next_argument
  PROVE  AccInv'
<1>1. /\ rest = <<>> /\ i' = i /\ aad' = aad /\ cipher' = cipher /\ r' = r /\ s' = s
      /\ a' = a /\ alog' = alog /\ tag' = tag
      /\ rest \in Bytes /\ alog \in Seq(Word) /\ i \in Algs /\ aad \in Aad /\ cipher \in Txt
      /\ a = poly(i, alog, r)
  BY DEF next_argument, AccInv
<1>2. encode_bytes(rest) \o alog = alog
  <2>1. encode_bytes(rest) = <<>>
    <3>1. Len(rest) = 0
      BY <1>1
    <3> QED  BY <1>1, <3>1, EncodeEmpty
  <2> QED  BY <1>1, <2>1, ConcatEmptySeq
<1>3. CASE phase = "aad" /\ phase' = "cipher" /\ rest' = cipher
  <2>1. alog = encode_bytes(aad) /\ cipher \in Bytes
    BY <1>1, <1>2, <1>3, ArgsBytes DEF AccInv
  <2> QED  BY <1>1, <1>3, <2>1 DEF AccInv
<1>4. CASE phase = "cipher" /\ phase' = "lengths" /\ UNCHANGED rest
  <2>1. alog = encode_bytes(cipher) \o encode_bytes(aad)
    BY <1>2, <1>4 DEF AccInv
  <2> QED  BY <1>1, <1>4, <2>1 DEF AccInv
<1> QED  BY <1>3, <1>4 DEF next_argument

(* The word of lengths completes encode_both.                              *)
LEMMA AddLengthsStep ==
  ASSUME AccInv, add_lengths
  PROVE  AccInv'
<1> DEFINE w == encode_lengths(i, Len(aad), Len(cipher))
<1>1. /\ phase = "lengths" /\ phase' = "accumulated" /\ update(w)
      /\ i' = i /\ aad' = aad /\ cipher' = cipher /\ r' = r /\ rest' = rest
      /\ rest \in Bytes /\ i \in Algs /\ aad \in Aad /\ cipher \in Txt
      /\ alog = encode_bytes(cipher) \o encode_bytes(aad)
  BY DEF add_lengths, AccInv
<1>2. /\ Len(aad) \in Nat /\ Len(cipher) \in Nat
      /\ encode_bytes(cipher) \in Seq(Word) /\ encode_bytes(aad) \in Seq(Word)
  BY <1>1, ArgsBytes, CountFacts, EncodeType
<1>3. w \in Word
  BY <1>2, LengthsWord
<1>4. encode_both(i, aad, cipher) = (<<w>> \o encode_bytes(cipher)) \o encode_bytes(aad)
  BY DEF encode_both
<1> HIDE DEF w
<1>5. alog' = <<w>> \o alog /\ alog' \in Seq(Word) /\ a' = poly(i', alog', r')
  BY <1>1, <1>3, UpdateStep
<1>6. (<<w>> \o encode_bytes(cipher)) \o encode_bytes(aad)
        = <<w>> \o (encode_bytes(cipher) \o encode_bytes(aad))
  <2>1. <<w>> \in Seq(Word)
    BY <1>3
  <2> QED  BY <1>2, <2>1, ConcatAssociative
<1>7. alog' = encode_both(i', aad', cipher')
  BY <1>1, <1>4, <1>5, <1>6
<1> QED  BY <1>1, <1>5, <1>7 DEF AccInv

(* MAC.finish leaves the accumulator alone.                                *)
LEMMA FinishStep ==
  ASSUME AccInv, finish_mac
  PROVE  AccInv'
BY DEF AccInv, finish_mac

(* Every step keeps the invariant.                                         *)
LEMMA AccNext == AccInv /\ [Next]_vars => AccInv'
<1> SUFFICES ASSUME AccInv, [Next]_vars PROVE AccInv'
  OBVIOUS
<1>1. CASE UNCHANGED vars
  BY <1>1 DEF AccInv, vars
<1> QED  BY <1>1, AddBytesStep, NextArgumentStep, AddLengthsStep, FinishStep DEF Next

(* The loop keeps accumulator, log and arguments in step.                  *)
THEOREM AccumulateInductive == Spec => []AccInv
BY AccInit, AccNext, PTL DEF Spec

(* accumulate followed by mac computes the MAC of encode_both of its       *)
(* arguments, for every word size, byte size, field and length.            *)
THEOREM AccumulateIsMAC == Spec => []AccumulateEncodes
<1>1. AccInv => AccumulateEncodes
  BY DEF AccInv, AccumulateEncodes, mac
<1> QED  BY <1>1, AccumulateInductive, PTL
-----------------------------------------------------------------------------
(* Injectivity.                                                            *)

(* Equal concatenations with first parts of equal length have equal parts. *)
LEMMA ConcatSplit ==
  ASSUME NEW E, NEW u \in Seq(E), NEW v \in Seq(E), NEW x \in Seq(E), NEW y \in Seq(E),
         Len(u) = Len(x), u \o v = x \o y
  PROVE  u = x /\ v = y
<1> DEFINE c == u \o v
           d == x \o y
<1>1. /\ Len(c) = Len(u) + Len(v)
      /\ \A k \in 1 .. Len(u) + Len(v) : c[k] = IF k <= Len(u) THEN u[k] ELSE v[k - Len(u)]
  BY ConcatProperties
<1>2. /\ Len(d) = Len(x) + Len(y)
      /\ \A k \in 1 .. Len(x) + Len(y) : d[k] = IF k <= Len(x) THEN x[k] ELSE y[k - Len(x)]
  BY ConcatProperties
<1>3. c = d /\ Len(u) \in Nat /\ Len(v) \in Nat /\ Len(x) \in Nat /\ Len(y) \in Nat
  BY LenProperties
<1> HIDE DEF c, d
<1>4. Len(v) = Len(y)
  BY <1>1, <1>2, <1>3
<1>5. \A k \in 1 .. Len(u) : u[k] = x[k]
  BY <1>1, <1>2, <1>3, <1>4
<1>6. ASSUME NEW k \in 1 .. Len(v) PROVE v[k] = y[k]
  <2>1. Len(u) + k \in 1 .. Len(u) + Len(v) /\ ~(Len(u) + k <= Len(u)) /\ (Len(u) + k) - Len(u) = k
    BY <1>3
  <2>2. c[Len(u) + k] = v[k] /\ d[Len(u) + k] = y[k]
    BY <1>1, <1>2, <1>3, <1>4, <2>1
  <2> QED  BY <1>3, <2>2
<1>7. u = x
  BY <1>5, SeqEqual
<1>8. v = y
  BY <1>4, <1>6, SeqEqual
<1> QED  BY <1>7, <1>8

(* Texts of the same length are determined by their words.                 *)
LEMMA EncodeDetermines ==
  ASSUME NEW x \in Bytes, NEW y \in Bytes, Len(x) = Len(y), encode_bytes(x) = encode_bytes(y)
  PROVE  x = y
<1> DEFINE n == WordCount(x)
           e == encode_bytes(x)
<1>1. /\ n = WordCount(y) /\ n \in Nat /\ Len(x) \in Nat /\ Len(x) <= n * Wlen
      /\ Wlen \in Nat \ {0}
  BY CountFacts, EncodingAssumption DEF WordCount
<1>2. /\ \A k \in 1 .. n : e[k] = WordAt(x, n + 1 - k)
      /\ \A k \in 1 .. n : e[k] = WordAt(y, n + 1 - k)
  BY <1>1, EncodeType
<1> HIDE DEF n, e
<1>3. ASSUME NEW p \in 1 .. Len(x) PROVE x[p] = y[p]
  <2> DEFINE q == (p - 1) \div Wlen
             b == ((p - 1) % Wlen) + 1
             j == q + 1
  <2>1. p - 1 \in Nat
    BY <1>1
  <2>2. q \in Nat /\ b \in 1 .. Wlen /\ p = q * Wlen + b
    BY <1>1, <2>1
  <2> HIDE DEF q, b
  <2>3. j \in Nat \ {0} /\ j - 1 = q /\ q * Wlen \in Nat
    BY <1>1, <2>2
  <2>4. q < n
    <3> SUFFICES ASSUME n <= q PROVE FALSE
      BY <1>1, <2>2
    <3>1. n * Wlen <= q * Wlen /\ n * Wlen \in Nat
      BY <1>1, <2>2
    <3> QED  BY <1>1, <2>2, <2>3, <3>1
  <2>5. n + 1 - j \in 1 .. n /\ n + 1 - (n + 1 - j) = j
    BY <1>1, <2>2, <2>3, <2>4
  <2>6. WordAt(x, j) = WordAt(y, j)
    BY <1>2, <2>5
  <2>7. WordAt(x, j)[b] = IF q * Wlen + b <= Len(x) THEN x[q * Wlen + b] ELSE 0
    BY <2>2, <2>3, WordFacts
  <2>8. WordAt(y, j)[b] = IF q * Wlen + b <= Len(y) THEN y[q * Wlen + b] ELSE 0
    BY <2>2, <2>3, WordFacts
  <2>9. q * Wlen + b <= Len(x) /\ q * Wlen + b <= Len(y)
    BY <2>2
  <2> HIDE DEF j
  <2> QED  BY <2>2, <2>6, <2>7, <2>8, <2>9
<1> QED  BY <1>3, SeqEqual DEF Bytes

(* lemma_encode_both_inj: encode_both is injective.                        *)
LEMMA BothDetermines ==
  ASSUME NEW alg \in Algs, NEW x \in Aad, NEW y \in Txt, NEW u \in Aad, NEW v \in Txt,
         encode_both(alg, x, y) = encode_both(alg, u, v)
  PROVE  x = u /\ y = v
<1> DEFINE k == encode_lengths(alg, Len(x), Len(y))
           m == encode_lengths(alg, Len(u), Len(v))
           ex == encode_bytes(x)
           ey == encode_bytes(y)
           eu == encode_bytes(u)
           ev == encode_bytes(v)
<1>1. /\ x \in Bytes /\ y \in Bytes /\ u \in Bytes /\ v \in Bytes
      /\ Len(x) \in Nat /\ Len(y) \in Nat /\ Len(u) \in Nat /\ Len(v) \in Nat
      /\ \A n \in {Len(x), Len(y), Len(u), Len(v)} : FitsBytes(n) /\ FitsBytes(ByteBits * n)
      /\ alg \in {"POLY1305", "GHASH"}
  <2>1. x \in Bytes /\ y \in Bytes /\ u \in Bytes /\ v \in Bytes
    BY ArgsBytes
  <2> QED  BY <2>1, LengthAssumption, LenProperties DEF Bytes
<1>2. /\ ex \in Seq(Word) /\ Len(ex) = WordCount(x) /\ ey \in Seq(Word) /\ Len(ey) = WordCount(y)
      /\ eu \in Seq(Word) /\ Len(eu) = WordCount(u) /\ ev \in Seq(Word) /\ Len(ev) = WordCount(v)
  BY <1>1, EncodeType
<1>3. k \in Word /\ m \in Word
  BY <1>1, LengthsWord
<1>4. (<<k>> \o ey) \o ex = (<<m>> \o ev) \o eu
  BY DEF encode_both
<1> HIDE DEF k, m, ex, ey, eu, ev
<1>5. <<k>> \in Seq(Word) /\ <<m>> \in Seq(Word) /\ Len(<<k>>) = 1 /\ Len(<<m>>) = 1
  BY <1>3
<1>6. <<k>> \o (ey \o ex) = <<m>> \o (ev \o eu) /\ ey \o ex \in Seq(Word) /\ ev \o eu \in Seq(Word)
  <2>1. (<<k>> \o ey) \o ex = <<k>> \o (ey \o ex)
    BY <1>2, <1>5, ConcatAssociative
  <2>2. (<<m>> \o ev) \o eu = <<m>> \o (ev \o eu)
    BY <1>2, <1>5, ConcatAssociative
  <2>3. ey \o ex \in Seq(Word) /\ ev \o eu \in Seq(Word)
    BY <1>2, ConcatProperties
  <2> QED  BY <1>4, <2>1, <2>2, <2>3
<1>7. <<k>> = <<m>> /\ ey \o ex = ev \o eu
  <2> DEFINE f == ey \o ex
             g == ev \o eu
  <2>1. <<k>> \o f = <<m>> \o g /\ f \in Seq(Word) /\ g \in Seq(Word)
    BY <1>6
  <2> HIDE DEF f, g
  <2>2. <<k>> = <<m>> /\ f = g
    BY <1>5, <2>1, ConcatSplit
  <2> QED  BY <2>2 DEF f, g
<1>8. Len(x) = Len(u) /\ Len(y) = Len(v)
  <2>1. k = m
    BY <1>7
  <2>2. encode_lengths(alg, Len(x), Len(y)) = encode_lengths(alg, Len(u), Len(v))
    BY <2>1 DEF k, m
  <2> QED  BY <1>1, <2>2, LengthsDetermine
<1>9. ey = ev /\ ex = eu
  <2>1. Len(ey) = Len(ev)
    BY <1>2, <1>8 DEF WordCount
  <2> QED  BY <1>2, <1>7, <2>1, ConcatSplit
<1> QED  BY <1>1, <1>8, <1>9, EncodeDetermines DEF ex, ey, eu, ev

(* No other arguments give the words that were authenticated, although     *)
(* zero padding makes different texts equal: the lengths tell them apart.  *)
THEOREM EncodingIsInjective == Spec => []EncodingInjective
<1>1. AccInv => EncodingInjective
  <2> SUFFICES ASSUME AccInv, phase = "done", NEW b \in Aad, NEW d \in Txt, encode_both(i, b, d) = alog
               PROVE  b = aad /\ d = cipher
    BY DEF EncodingInjective
  <2>1. i \in Algs /\ aad \in Aad /\ cipher \in Txt /\ alog = encode_both(i, aad, cipher)
    BY DEF AccInv
  <2>2. encode_both(i, b, d) = encode_both(i, aad, cipher)
    BY <2>1
  <2> QED  BY <2>1, <2>2, BothDetermines
<1> QED  BY <1>1, AccumulateInductive, PTL
=============================================================================
