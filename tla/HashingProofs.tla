--------------------------- MODULE HashingProofs ----------------------------
(***************************************************************************)
(* Proofs of Hashing: the digest of a state fed piece by piece is the hash *)
(* of the message, for every block size, length and counter.               *)
(***************************************************************************)
EXTENDS Hashing, Induction, SequenceTheorems

-----------------------------------------------------------------------------
(* Strings are sequences, and sequences strings of their length.           *)
LEMMA SeqFun ==
  ASSUME NEW n \in Nat, NEW q, OfLength(q, n)
  PROVE  IsSeq(q) /\ Len(q) = n
BY FunSeq DEF OfLength

(* The other way round.                                                    *)
LEMMA SeqLen ==
  ASSUME NEW q, IsSeq(q)
  PROVE  Len(q) \in Nat /\ OfLength(q, Len(q))
BY SeqIs DEF OfLength
-----------------------------------------------------------------------------
(* Blocks.                                                                 *)

(* The sizes of a variant.                                                 *)
LEMMA Sizes ==
  ASSUME NEW x \in Alg
  PROVE  /\ size_block[x] \in Nat \ {0} /\ size_len_8[x] \in Nat \ {0}
         /\ CounterWord[x] \in Nat \ {0}
         /\ size_hash[x] \in Nat \ {0} /\ size_hash[x] <= size_block[x]
         /\ size_len_8[x] + 1 < size_block[x]
BY SHA2Assumption

(* A state by its fields, and the first n blocks of a message.             *)
State(x, w, c) == [alg |-> x, hash_w |-> w, counter |-> c]
BlocksOf(x, data, n) == [j \in 1 .. n |-> BlockAt(x, data, j)]

(* A block, by place.                                                      *)
LEMMA BlockIs ==
  ASSUME NEW x \in Alg, NEW p, IsSeq(p), NEW j \in Nat \ {0}, j * size_block[x] <= Len(p)
  PROVE  /\ IsSeq(BlockAt(x, p, j)) /\ Len(BlockAt(x, p, j)) = size_block[x]
         /\ \A k \in 1 .. size_block[x] : BlockAt(x, p, j)[k] = p[(j - 1) * size_block[x] + k]
<1> DEFINE n == size_block[x]
           o == (j - 1) * n
           e == j * n
<1>1. n \in Nat /\ o \in Nat /\ e \in Nat /\ e = o + n /\ e <= Len(p)
  <2>1. n \in Nat
    BY Sizes
  <2> QED  BY <2>1
<1>2. BlockAt(x, p, j) = SubSeq(p, o + 1, e)
  BY DEF BlockAt
<1> HIDE DEF n, o, e
<1>3. o <= e /\ e - o = n
  BY <1>1
<1>4. /\ IsSeq(SubSeq(p, o + 1, e)) /\ Len(SubSeq(p, o + 1, e)) = e - o
      /\ \A k \in 1 .. e - o : SubSeq(p, o + 1, e)[k] = p[o + k]
  BY <1>1, <1>3, SeqSub
<1> QED  BY <1>2, <1>3, <1>4 DEF n, o

(* Blocks are equal if their bytes are.                                    *)
SameAt(x, p, j, q, l) ==
  /\ IsSeq(p) /\ IsSeq(q) /\ j * size_block[x] <= Len(p) /\ l * size_block[x] <= Len(q)
  /\ \A k \in 1 .. size_block[x] :
       p[(j - 1) * size_block[x] + k] = q[(l - 1) * size_block[x] + k]

LEMMA BlockEq ==
  ASSUME NEW x \in Alg, NEW p, NEW j \in Nat \ {0}, NEW q, NEW l \in Nat \ {0},
         SameAt(x, p, j, q, l)
  PROVE  BlockAt(x, p, j) = BlockAt(x, q, l)
<1>0. /\ IsSeq(p) /\ IsSeq(q) /\ j * size_block[x] <= Len(p) /\ l * size_block[x] <= Len(q)
      /\ \A k \in 1 .. size_block[x] :
           p[(j - 1) * size_block[x] + k] = q[(l - 1) * size_block[x] + k]
  BY DEF SameAt
<1>1. /\ IsSeq(BlockAt(x, p, j)) /\ Len(BlockAt(x, p, j)) = size_block[x]
      /\ \A k \in 1 .. size_block[x] : BlockAt(x, p, j)[k] = p[(j - 1) * size_block[x] + k]
  BY <1>0, BlockIs
<1>2. /\ IsSeq(BlockAt(x, q, l)) /\ Len(BlockAt(x, q, l)) = size_block[x]
      /\ \A k \in 1 .. size_block[x] : BlockAt(x, q, l)[k] = q[(l - 1) * size_block[x] + k]
  BY <1>0, BlockIs
<1> DEFINE d == BlockAt(x, p, j)
           e == BlockAt(x, q, l)
<1>3. IsSeq(d) /\ IsSeq(e) /\ Len(d) = Len(e) /\ \A k \in 1 .. Len(d) : d[k] = e[k]
  BY <1>0, <1>1, <1>2
<1> HIDE DEF d, e
<1>4. d = e
  BY <1>3, SeqEq
<1> QED  BY <1>4 DEF d, e

(* The first n blocks of a message, as a sequence.                         *)
LEMMA BlocksSeq ==
  ASSUME NEW x, NEW data, NEW n \in Nat
  PROVE  /\ IsSeq(BlocksOf(x, data, n)) /\ Len(BlocksOf(x, data, n)) = n
         /\ \A j \in 1 .. n : BlocksOf(x, data, n)[j] = BlockAt(x, data, j)
<1>1. OfLength(BlocksOf(x, data, n), n)
      /\ \A j \in 1 .. n : BlocksOf(x, data, n)[j] = BlockAt(x, data, j)
  BY DEF OfLength, BlocksOf
<1> QED  BY <1>1, SeqFun

(* What update does to a state.                                            *)
LEMMA UpdateIs ==
  ASSUME NEW x, NEW w, NEW c, NEW b
  PROVE  update(State(x, w, c), b) = State(x, Append(w, b), (c + 1) % CounterWord[x])
<1> DEFINE v == (c + 1) % CounterWord[x]
           u == Append(w, b)
<1>1. update(State(x, w, c), b) = [alg |-> x, hash_w |-> u, counter |-> v]
  BY DEF update, State
<1> QED  BY <1>1 DEF State

(* One block more.                                                         *)
LEMMA BlocksNext ==
  ASSUME NEW x, NEW data, NEW w, IsSeq(w), NEW j \in Nat \ {0}
  PROVE  Append(w \o BlocksOf(x, data, j - 1), BlockAt(x, data, j)) = w \o BlocksOf(x, data, j)
<1> DEFINE u == BlocksOf(x, data, j - 1)
           v == BlocksOf(x, data, j)
           b == BlockAt(x, data, j)
           n == Len(w)
<1>1. /\ IsSeq(u) /\ Len(u) = j - 1 /\ IsSeq(v) /\ Len(v) = j /\ n \in Nat
      /\ (\A k \in 1 .. j - 1 : u[k] = v[k]) /\ v[j] = b
  <2>1. j - 1 \in Nat /\ j \in Nat /\ n \in Nat
    BY SeqLen
  <2>2. IsSeq(u) /\ Len(u) = j - 1 /\ \A k \in 1 .. j - 1 : u[k] = BlockAt(x, data, k)
    BY <2>1, BlocksSeq
  <2>3. IsSeq(v) /\ Len(v) = j /\ \A k \in 1 .. j : v[k] = BlockAt(x, data, k)
    BY <2>1, BlocksSeq
  <2> HIDE DEF u, v, n
  <2> QED  BY <2>1, <2>2, <2>3
<1> HIDE DEF u, v, b
<1> DEFINE d == w \o u
           e == w \o v
           f == Append(d, b)
<1>2. IsSeq(d) /\ Len(d) = n + (j - 1)
      /\ \A k \in 1 .. n + (j - 1) : d[k] = IF k <= n THEN w[k] ELSE u[k - n]
  BY <1>1, SeqCat
<1>3. IsSeq(e) /\ Len(e) = n + j
      /\ \A k \in 1 .. n + j : e[k] = IF k <= n THEN w[k] ELSE v[k - n]
  BY <1>1, SeqCat
<1> HIDE DEF d, e, n
<1>4. IsSeq(f) /\ Len(f) = n + j /\ (\A k \in 1 .. n + (j - 1) : f[k] = d[k]) /\ f[n + j] = b
  <2>1. Len(d) + 1 = n + j
    BY <1>1, <1>2
  <2>2. /\ IsSeq(f) /\ Len(f) = Len(d) + 1 /\ (\A k \in 1 .. Len(d) : f[k] = d[k])
        /\ f[Len(d) + 1] = b
    BY <1>2, SeqAppend
  <2> HIDE DEF f
  <2> QED  BY <1>2, <2>1, <2>2
<1> HIDE DEF f
<1>5. ASSUME NEW k \in 1 .. n + j PROVE f[k] = e[k]
  <2>1. CASE k = n + j
    BY <1>1, <1>3, <1>4, <2>1
  <2>2. CASE k <= n + (j - 1)
    BY <1>1, <1>2, <1>3, <1>4, <2>2
  <2> QED  BY <1>1, <2>1, <2>2
<1>6. f = e
  BY <1>3, <1>4, <1>5, SeqEq
<1> QED  BY <1>6 DEF f, d, e, u, v, b
(* update_multi compresses and counts the blocks of its data, in order.    *)
LEMMA MultiIs ==
  ASSUME NEW x \in Alg, NEW w, IsSeq(w), NEW c \in Nat, NEW data, NEW n \in Nat
  PROVE  update_multi(State(x, w, c % CounterWord[x]), data, n)
           = State(x, w \o BlocksOf(x, data, n), (c + n) % CounterWord[x])
<1> DEFINE m == CounterWord[x]
           s0 == State(x, w, c % m)
           Eq(f) == f = [j \in 0 .. n |->
                           IF j = 0 THEN s0 ELSE update(f[j - 1], BlockAt(x, data, j))]
           G(j) == State(x, w \o BlocksOf(x, data, j), (c + j) % m)
           g == [j \in 0 .. n |-> G(j)]
           f == CHOOSE h : Eq(h)
           I == {j \in Nat : j <= n => f[j] = g[j]}
<1>m. m \in Nat \ {0}
  BY Sizes
<1>0. update_multi(s0, data, n) = f[n]
  <2>1. s0.alg = x
    BY DEF State
  <2> HIDE DEF s0
  <2> QED  BY <2>1 DEF update_multi
<1>1. G(0) = s0
  <2>1. w \o BlocksOf(x, data, 0) = w
    <3>1. IsSeq(BlocksOf(x, data, 0)) /\ Len(BlocksOf(x, data, 0)) = 0
      BY BlocksSeq
    <3> DEFINE v == w \o BlocksOf(x, data, 0)
    <3>2. /\ IsSeq(v) /\ Len(v) = Len(w) + 0
          /\ \A k \in 1 .. Len(w) + 0 : v[k] =
              IF k <= Len(w) THEN w[k] ELSE BlocksOf(x, data, 0)[k - Len(w)]
      BY <3>1, SeqCat
    <3> HIDE DEF v
    <3>3. Len(w) \in Nat
      BY SeqLen
    <3>4. Len(v) = Len(w) /\ \A k \in 1 .. Len(v) : v[k] = w[k]
      BY <3>2, <3>3
    <3>5. v = w
      BY <3>2, <3>4, SeqEq
    <3> QED  BY <3>5 DEF v
  <2>2. c + 0 = c
    OBVIOUS
  <2> QED  BY <2>1, <2>2
<1>2. ASSUME NEW j \in Nat \ {0} PROVE G(j) = update(G(j - 1), BlockAt(x, data, j))
  <2>1. (((c + (j - 1)) % m) + 1) % m = (c + j) % m
    <3>1. c + (j - 1) \in Nat /\ (c + (j - 1)) + 1 = c + j
      OBVIOUS
    <3> HIDE DEF m
    <3> QED  BY <1>m, <3>1, ModNext
  <2>2. update(G(j - 1), BlockAt(x, data, j))
          = State(x, Append(w \o BlocksOf(x, data, j - 1), BlockAt(x, data, j)),
                  (((c + (j - 1)) % m) + 1) % m)
    BY UpdateIs
  <2>3. Append(w \o BlocksOf(x, data, j - 1), BlockAt(x, data, j)) = w \o BlocksOf(x, data, j)
    BY BlocksNext
  <2> QED  BY <2>1, <2>2, <2>3
<1> HIDE DEF G, s0, m
<1>3. Eq(g)
  <2>1. ASSUME NEW j \in 0 .. n
        PROVE  g[j] = IF j = 0 THEN s0 ELSE update(g[j - 1], BlockAt(x, data, j))
    <3>1. CASE j = 0
      BY <1>1, <3>1
    <3>2. CASE j # 0
      <4>1. j \in Nat \ {0} /\ j - 1 \in 0 .. n /\ g[j] = G(j) /\ g[j - 1] = G(j - 1)
        BY <3>2
      <4> HIDE DEF g
      <4> QED  BY <1>2, <3>2, <4>1
    <3> QED  BY <3>1, <3>2
  <2>2. g = [j \in 0 .. n |-> g[j]]
    OBVIOUS
  <2> HIDE DEF g
  <2> QED  BY <2>1, <2>2
<1>g. g[0] = s0 /\ g[n] = G(n) /\ \A j \in 1 .. n : g[j] = update(g[j - 1], BlockAt(x, data, j))
  <2>1. g[0] = G(0) /\ g[n] = G(n)
    OBVIOUS
  <2>2. ASSUME NEW j \in 1 .. n PROVE g[j] = update(g[j - 1], BlockAt(x, data, j))
    <3>1. j \in Nat \ {0} /\ g[j] = G(j) /\ g[j - 1] = G(j - 1)
      OBVIOUS
    <3> HIDE DEF g
    <3> QED  BY <1>2, <3>1
  <2> QED  BY <1>1, <2>1, <2>2
<1> HIDE DEF g
<1>4. Eq(f)
  BY <1>3, Zenon
<1> HIDE DEF f
<1>5. 0 \in I
  BY <1>4, <1>g
<1>6. ASSUME NEW j \in Nat, j \in I PROVE j + 1 \in I
  <2> SUFFICES ASSUME j + 1 <= n PROVE f[j + 1] = g[j + 1]
    OBVIOUS
  <2>1. j + 1 \in 1 .. n /\ j + 1 \in 0 .. n /\ j + 1 # 0 /\ (j + 1) - 1 = j /\ f[j] = g[j]
    BY <1>6
  <2>2. f[j + 1] = update(f[j], BlockAt(x, data, j + 1))
    BY <1>4, <2>1
  <2>3. g[j + 1] = update(g[j], BlockAt(x, data, j + 1))
    BY <1>g, <2>1
  <2> QED  BY <2>1, <2>2, <2>3
<1> HIDE DEF I
<1>7. n \in I
  BY <1>5, <1>6, SetInduction
<1>8. f[n] = g[n]
  BY <1>7 DEF I
<1> QED  BY <1>0, <1>8, <1>g DEF G, s0, m
-----------------------------------------------------------------------------
(* Padding.                                                                *)

(* Both forms of pad0len fill the one or two final blocks exactly.         *)
LEMMA PadFacts ==
  ASSUME NEW x \in Alg, NEW len \in Nat, LastFits(x, len)
  PROVE  /\ pad0len(x, len) \in 0 .. size_block[x] - 1 /\ nb(x, len) \in {1, 2}
         /\ len + 1 + pad0len(x, len) + size_len_8[x] = nb(x, len) * size_block[x]
<1> DEFINE b == size_block[x]
           e == size_len_8[x]
           t == len + e + 1
<1>1. b \in Nat \ {0} /\ e \in Nat /\ t \in Nat /\ t > 0 /\ t < 2 * b
  BY Sizes DEF LastFits
<1>2. nb(x, len) = IF t <= b THEN 1 ELSE 2
  BY Sizes DEF nb
<1>3. pad0len(x, len) \in {(b - (t % b)) % b, (2 * b - t) % b}
  BY DEF pad0len, pad0len_256, pad0len_512
<1>t. t = len + 1 + e
  BY <1>1
<1> HIDE DEF b, t
<1>4. CASE t < b
  <2>1. t % b = t
    BY <1>1, <1>4, ModSmall
  <2>2. (b - t) % b = b - t /\ (2 * b - t) % b = b - t
    <3> DEFINE u == b - t
               v == 2 * b - t
    <3>1. u \in Nat /\ u < b /\ v \in Nat /\ b <= v /\ v < 2 * b /\ v - b = u
      BY <1>1, <1>4
    <3> HIDE DEF u, v
    <3>2. u % b = u /\ v % b = u
      BY <1>1, <3>1, ModSmall
    <3> QED  BY <3>2 DEF u, v
  <2>3. pad0len(x, len) = b - t
    BY <1>3, <2>1, <2>2
  <2> QED  BY <1>1, <1>2, <1>4, <1>t, <2>3 DEF b
<1>5. CASE t = b
  <2>1. b % b = 0
    <3>1. b <= b /\ b < 2 * b /\ b - b = 0
      BY <1>1
    <3> QED  BY <1>1, <3>1, ModSmall
  <2>2. (b - (t % b)) % b = 0 /\ (2 * b - t) % b = 0
    <3>1. b - (t % b) = b /\ 2 * b - t = b
      BY <1>1, <1>5, <2>1
    <3> QED  BY <2>1, <3>1
  <2>3. pad0len(x, len) = 0
    BY <1>3, <2>2
  <2> QED  BY <1>1, <1>2, <1>5, <1>t, <2>3 DEF b
<1>6. CASE t > b
  <2> DEFINE u == 2 * b - t
  <2>1. u \in Nat /\ u < b /\ u > 0 /\ t - b \in Nat /\ t - b < b /\ b - (t - b) = u
    BY <1>1, <1>6
  <2>2. t % b = t - b
    <3>1. b <= t /\ t < 2 * b /\ t \in Nat /\ b \in Nat \ {0}
      BY <1>1, <1>6
    <3> QED  BY <3>1, ModSmall
  <2> HIDE DEF u
  <2>3. u % b = u
    BY <1>1, <2>1, ModSmall
  <2>4. pad0len(x, len) = u
    BY <1>3, <2>1, <2>2, <2>3 DEF u
  <2> QED  BY <1>1, <1>2, <1>6, <1>t, <2>1, <2>4 DEF b, u
<1> QED  BY <1>1, <1>4, <1>5, <1>6

(* It is the least padding there is, whatever whole blocks come before.    *)
LEMMA PadLeast ==
  ASSUME NEW x \in Alg, NEW len \in Nat, LastFits(x, len), NEW c \in Nat,
         NEW k \in 0 .. size_block[x] - 1
  PROVE  (c * size_block[x] + len + 1 + k + size_len_8[x]) % size_block[x] = 0
           <=> k = pad0len(x, len)
<1> DEFINE b == size_block[x]
           e == size_len_8[x]
           h == pad0len(x, len)
           n == nb(x, len)
           y == c * b + len + 1 + k + e
<1>1. b \in Nat \ {0} /\ e \in Nat /\ h \in 0 .. b - 1 /\ n \in {1, 2}
      /\ len + 1 + h + e = n * b
  BY Sizes, PadFacts
<1> HIDE DEF b, e, h, n
<1>k. k \in 0 .. b - 1
  BY DEF b
<1>2. c * b \in Nat /\ n * b \in Nat /\ (c + n) * b = c * b + n * b
      /\ (c + n - 1) * b = c * b + n * b - b
  BY <1>1
<1>3. y = (c + n) * b + (k - h) /\ y = (c + n - 1) * b + (b + k - h) /\ y \in Int
  BY <1>1, <1>2, <1>k
<1> HIDE DEF y
<1>4. CASE k >= h
  <2>1. k - h \in Nat /\ k - h < b /\ c + n \in Int
    BY <1>1, <1>4, <1>k
  <2>2. y % b = k - h
    BY <1>1, <1>3, <2>1, DivMod
  <2>3. y % b = 0 <=> k = h
    BY <1>1, <1>k, <2>1, <2>2
  <2> QED  BY <2>3 DEF y, b, e, h
<1>5. CASE k < h
  <2>1. b + k - h \in Nat /\ b + k - h < b /\ b + k - h > 0 /\ c + n - 1 \in Int
    BY <1>1, <1>5, <1>k
  <2>2. y % b = b + k - h
    BY <1>1, <1>3, <2>1, DivMod
  <2>3. y % b = 0 <=> k = h
    BY <1>1, <1>5, <1>k, <2>1, <2>2
  <2> QED  BY <2>3 DEF y, b, e, h
<1> QED  BY <1>1, <1>4, <1>5, <1>k
(* p is m followed by a bit, h zeros and the length, by place.             *)
PaddedBy(p, x, m, h) ==
  /\ IsSeq(p) /\ Len(p) = Len(m) + 1 + h + size_len_8[x]
  /\ \A k \in 1 .. Len(m) : p[k] = m[k]
  /\ p[Len(m) + 1] = B(128)
  /\ \A k \in 1 .. h : p[Len(m) + 1 + k] = B(0)
  /\ \A k \in 1 .. size_len_8[x] : p[Len(m) + 1 + h + k] = store_be(x, 8 * Len(m), k)

(* The padded message of the standard.                                     *)
LEMMA PaddedIs ==
  ASSUME NEW x \in Alg, NEW len \in Nat, LastFits(x, len), NEW c \in Nat,
         NEW m, IsSeq(m), Len(m) = c * size_block[x] + len
  PROVE  PaddedBy(Padded(x, m), x, m, pad0len(x, len))
<1> DEFINE b == size_block[x]
           e == size_len_8[x]
           h == pad0len(x, len)
           n == Len(m)
           z == CHOOSE j \in 0 .. b - 1 : (n + 1 + j + e) % b = 0
           u == [j \in 1 .. e |-> store_be(x, 8 * n, j)]
           o == Zeros(h)
           p1 == m \o <<B(128)>>
           p2 == p1 \o o
           p3 == p2 \o u
<1>1. b \in Nat \ {0} /\ e \in Nat /\ h \in 0 .. b - 1 /\ n \in Nat
  BY Sizes, PadFacts, SeqLen
<1>2. z = h
  <2>1. \A j \in 0 .. b - 1 : (n + 1 + j + e) % b = 0 <=> j = h
    BY PadLeast
  <2> HIDE DEF b, e, h, n
  <2> QED  BY <1>1, <2>1
<1>3. Padded(x, m) = m \o <<B(128)>> \o Zeros(z) \o u
  BY DEF Padded
<1> HIDE DEF z
<1>4. Padded(x, m) = p3
  BY <1>2, <1>3
<1>5. IsSeq(o) /\ Len(o) = h /\ \A k \in 1 .. h : o[k] = B(0)
  <2>1. OfLength(o, h) /\ \A k \in 1 .. h : o[k] = B(0)
    BY DEF OfLength, Zeros
  <2> QED  BY <1>1, <2>1, SeqFun
<1>6. IsSeq(u) /\ Len(u) = e /\ \A k \in 1 .. e : u[k] = store_be(x, 8 * n, k)
  <2>1. OfLength(u, e) /\ \A k \in 1 .. e : u[k] = store_be(x, 8 * n, k)
    BY DEF OfLength
  <2> HIDE DEF u
  <2> QED  BY <1>1, <2>1, SeqFun
<1> HIDE DEF u, o
<1>7. IsSeq(p1) /\ Len(p1) = n + 1 /\ (\A k \in 1 .. n : p1[k] = m[k]) /\ p1[n + 1] = B(128)
  <2>1. IsSeq(<<B(128)>>) /\ Len(<<B(128)>>) = 1 /\ <<B(128)>>[1] = B(128)
    BY SeqOne
  <2>2. IsSeq(p1) /\ Len(p1) = n + 1
        /\ \A k \in 1 .. n + 1 : p1[k] = IF k <= n THEN m[k] ELSE <<B(128)>>[k - n]
    BY <2>1, SeqCat
  <2> HIDE DEF p1, n
  <2>3. n + 1 \in 1 .. n + 1 /\ ~(n + 1 <= n) /\ (n + 1) - n = 1
    BY <1>1
  <2> QED  BY <1>1, <2>1, <2>2, <2>3
<1> HIDE DEF p1
<1>8. /\ IsSeq(p2) /\ Len(p2) = n + 1 + h
      /\ \A k \in 1 .. n + 1 + h : p2[k] = IF k <= n + 1 THEN p1[k] ELSE o[k - (n + 1)]
  <2>1. /\ IsSeq(p2) /\ Len(p2) = Len(p1) + Len(o)
        /\ \A k \in 1 .. Len(p1) + Len(o) : p2[k] =
            IF k <= Len(p1) THEN p1[k] ELSE o[k - Len(p1)]
    BY <1>5, <1>7, SeqCat
  <2> HIDE DEF p2, n, h
  <2>2. Len(p1) = n + 1 /\ Len(p1) + Len(o) = n + 1 + h
    BY <1>1, <1>5, <1>7
  <2> QED  BY <2>1, <2>2
<1> HIDE DEF p2
<1>9. /\ IsSeq(p3) /\ Len(p3) = n + 1 + h + e
      /\ \A k \in 1 .. n + 1 + h + e : p3[k] =
          IF k <= n + 1 + h THEN p2[k] ELSE u[k - (n + 1 + h)]
  <2>1. /\ IsSeq(p3) /\ Len(p3) = Len(p2) + Len(u)
        /\ \A k \in 1 .. Len(p2) + Len(u) : p3[k] =
            IF k <= Len(p2) THEN p2[k] ELSE u[k - Len(p2)]
    BY <1>6, <1>8, SeqCat
  <2> HIDE DEF p3, n, h, e
  <2>2. Len(p2) = n + 1 + h /\ Len(p2) + Len(u) = n + 1 + h + e
    BY <1>1, <1>6, <1>8
  <2> QED  BY <2>1, <2>2
<1> HIDE DEF p3, n, h, e, b
<1>10. \A k \in 1 .. n : p3[k] = m[k]
  BY <1>1, <1>7, <1>8, <1>9
<1>11. p3[n + 1] = B(128)
  BY <1>1, <1>7, <1>8, <1>9
<1>12. \A k \in 1 .. h : p3[n + 1 + k] = B(0)
  BY <1>1, <1>5, <1>8, <1>9
<1>13. \A k \in 1 .. e : p3[n + 1 + h + k] = store_be(x, 8 * n, k)
  BY <1>1, <1>6, <1>9
<1> QED  BY <1>4, <1>9, <1>10, <1>11, <1>12, <1>13 DEF n, h, e, PaddedBy

(* After c blocks of m, data is what is left of it.                        *)
Left(x, data, m, c) ==
  /\ IsSeq(data) /\ IsSeq(m) /\ Len(m) = c * size_block[x] + Len(data)
  /\ \A k \in 1 .. Len(data) : m[c * size_block[x] + k] = data[k]

(* f is the last n bytes of p, after o others.                             *)
EndOf(f, p, n, o) ==
  IsSeq(f) /\ Len(f) = n /\ Len(p) = o + n /\ \A k \in 1 .. n : f[k] = p[o + k]

(* The buffer of update_last is the end of the padded message.             *)
LEMMA FinalIs ==
  ASSUME NEW x \in Alg, NEW c \in Nat, NEW w, NEW data, NEW m, Left(x, data, m, c),
         LastFits(x, Len(data))
  PROVE  EndOf(final_blocks(State(x, w, c), data), Padded(x, m),
               nb(x, Len(data)) * size_block[x], c * size_block[x])
<1> DEFINE b == size_block[x]
           e == size_len_8[x]
           len == Len(data)
           h == pad0len(x, len)
           n == nb(x, len) * b
           o == c * b
           p == Padded(x, m)
           f == final_blocks(State(x, w, c), data)
           v == 8 * Len(m)
           pos == len + 1 + h
<1>0. /\ IsSeq(data) /\ IsSeq(m) /\ Len(m) = c * size_block[x] + Len(data)
      /\ \A k \in 1 .. Len(data) : m[c * size_block[x] + k] = data[k]
  BY DEF Left
<1>1. /\ b \in Nat \ {0} /\ e \in Nat /\ h \in 0 .. b - 1 /\ len \in Nat /\ o \in Nat
      /\ n \in Nat /\ len + 1 + h + e = n /\ Len(m) = o + len
  <2>1. b \in Nat \ {0} /\ e \in Nat /\ len \in Nat
    BY <1>0, Sizes, SeqLen
  <2>2. h \in 0 .. b - 1 /\ nb(x, len) \in {1, 2} /\ len + 1 + h + e = n
    BY <2>1, PadFacts
  <2> HIDE DEF b, e, h, len
  <2>3. o \in Nat /\ n \in Nat
    BY <2>1, <2>2
  <2> QED  BY <1>0, <2>1, <2>2, <2>3 DEF b, len
<1>2. /\ IsSeq(p) /\ Len(p) = o + len + 1 + h + e
      /\ \A k \in 1 .. o + len : p[k] = m[k]
      /\ p[o + len + 1] = B(128)
      /\ \A k \in 1 .. h : p[o + len + 1 + k] = B(0)
      /\ \A k \in 1 .. e : p[o + len + 1 + h + k] = store_be(x, v, k)
  <2>1. /\ IsSeq(p) /\ Len(p) = Len(m) + 1 + h + e
        /\ \A k \in 1 .. Len(m) : p[k] = m[k]
        /\ p[Len(m) + 1] = B(128)
        /\ \A k \in 1 .. h : p[Len(m) + 1 + k] = B(0)
        /\ \A k \in 1 .. e : p[Len(m) + 1 + h + k] = store_be(x, 8 * Len(m), k)
    <3>1. len \in Nat /\ IsSeq(m) /\ Len(m) = c * size_block[x] + len
      BY <1>0, <1>1
    <3> HIDE DEF len
    <3>2. LastFits(x, len)
      BY DEF len
    <3>3. PaddedBy(Padded(x, m), x, m, pad0len(x, len))
      BY <3>1, <3>2, PaddedIs
    <3> QED  BY <3>3 DEF PaddedBy
  <2> HIDE DEF p, h, e, o, len
  <2> QED  BY <1>1, <2>1
<1>3. encodedlen(x, c, len) = v
  BY <1>1 DEF encodedlen
<1>4. f = [k \in 1 .. n |->
            CASE k <= len             -> data[k]
              [] k = len + 1          -> B(128)
              [] k - pos \in 1 .. e   -> store_be(x, encodedlen(x, c, len), k - pos)
              [] OTHER                -> B(0)]
  <2>1. State(x, w, c).alg = x /\ State(x, w, c).counter = c
    BY DEF State
  <2> QED  BY <2>1 DEF final_blocks
<1>5. \A k \in 1 .. len : m[o + k] = data[k]
  BY <1>0
<1> HIDE DEF b, e, len, h, n, o, p, v
<1>6. OfLength(f, n)
  BY <1>4 DEF OfLength
<1>7. IsSeq(f) /\ Len(f) = n
  BY <1>1, <1>6, SeqFun
<1>8. ASSUME NEW k \in 1 .. n PROVE f[k] = p[o + k]
  <2>1. f[k] = CASE k <= len           -> data[k]
                 [] k = len + 1        -> B(128)
                 [] k - pos \in 1 .. e -> store_be(x, v, k - pos)
                 [] OTHER              -> B(0)
    BY <1>3, <1>4
  <2> HIDE DEF f, pos
  <2>p. pos = len + 1 + h /\ pos \in Nat
    BY <1>1 DEF pos
  <2>2. CASE k <= len
    <3>1. k # len + 1 /\ ~(k - pos \in 1 .. e) /\ o + k \in 1 .. o + len /\ k \in 1 .. len
      BY <1>1, <2>2, <2>p
    <3>2. f[k] = data[k]
      BY <2>1, <2>2, <3>1
    <3> QED  BY <1>2, <1>5, <3>1, <3>2
  <2>3. CASE k = len + 1
    <3>1. ~(k <= len) /\ ~(k - pos \in 1 .. e) /\ o + k = o + len + 1
      BY <1>1, <2>3, <2>p
    <3>2. f[k] = B(128)
      BY <2>1, <2>3, <3>1
    <3> QED  BY <1>2, <3>1, <3>2
  <2>4. CASE k > len + 1 /\ k <= pos
    <3>0. ~(k <= len) /\ k # len + 1 /\ ~(k - pos \in 1 .. e)
      BY <1>1, <2>4, <2>p
    <3>1. f[k] = B(0)
      BY <2>1, <3>0
    <3>2. k - (len + 1) \in 1 .. h /\ o + len + 1 + (k - (len + 1)) = o + k
      BY <1>1, <2>4, <2>p
    <3> QED  BY <1>2, <3>1, <3>2
  <2>5. CASE k > pos
    <3>1. k - pos \in 1 .. e /\ ~(k <= len) /\ k # len + 1
          /\ o + len + 1 + h + (k - pos) = o + k
      BY <1>1, <2>5, <2>p
    <3>2. f[k] = store_be(x, v, k - pos)
      BY <2>1, <3>1
    <3> QED  BY <1>2, <3>1, <3>2
  <2> QED  BY <1>1, <2>2, <2>3, <2>4, <2>5, <2>p
<1>9. Len(p) = o + n
  BY <1>1, <1>2
<1> HIDE DEF f
<1>10. IsSeq(f) /\ Len(f) = n /\ Len(p) = o + n /\ \A k \in 1 .. n : f[k] = p[o + k]
  BY <1>7, <1>8, <1>9
<1> QED  BY <1>10 DEF EndOf, f, n, p, o, b, len
-----------------------------------------------------------------------------
(* The hash of a message.                                                  *)

(* w is the first c blocks of m.                                           *)
Whole(x, w, m, c) == IsSeq(w) /\ Len(w) = c /\ \A j \in 1 .. c : w[j] = BlockAt(x, m, j)

(* Blocks of a message and then its rest: update_last completes what the   *)
(* standard calls the message's hash.                                      *)
LEMMA LastIs ==
  ASSUME NEW x \in Alg, NEW c \in Nat, c < CounterWord[x], NEW m, NEW w, Whole(x, w, m, c),
         NEW data, Left(x, data, m, c), LastFits(x, Len(data))
  PROVE  finish(update_last(State(x, w, c), data)) = HashOf(x, m)
<1> DEFINE b == size_block[x]
           n == nb(x, Len(data))
           f == final_blocks(State(x, w, c), data)
           p == Padded(x, m)
           v == w \o BlocksOf(x, f, n)
           u == BlocksOf(x, p, c + n)
<1>1. b \in Nat \ {0} /\ n \in {1, 2} /\ Len(data) \in Nat /\ IsSeq(m)
      /\ Len(m) = c * b + Len(data)
  <2>1. Len(data) \in Nat
    BY SeqLen DEF Left
  <2> QED  BY <2>1, Sizes, PadFacts DEF Left
<1>2. IsSeq(f) /\ Len(f) = n * b /\ Len(p) = c * b + n * b
      /\ \A k \in 1 .. n * b : f[k] = p[c * b + k]
  <2>1. EndOf(f, p, nb(x, Len(data)) * size_block[x], c * size_block[x])
    BY FinalIs
  <2> QED  BY <2>1 DEF EndOf
<1>3. IsSeq(p) /\ \A k \in 1 .. Len(m) : p[k] = m[k]
  <2> DEFINE len == Len(data)
  <2>1. len \in Nat /\ Len(m) = c * size_block[x] + len /\ LastFits(x, len)
    BY <1>1
  <2> HIDE DEF len
  <2>2. PaddedBy(p, x, m, pad0len(x, len))
    BY <1>1, <2>1, PaddedIs
  <2> QED  BY <2>2 DEF PaddedBy
<1>4. \E z : update_last(State(x, w, c), data) = State(x, v, z)
  <2>1. update_last(State(x, w, c), data) = update_multi(State(x, w, c), f, n)
    BY DEF update_last, State
  <2> HIDE DEF f, n
  <2>2. c % CounterWord[x] = c
    BY Sizes, ModSmall
  <2>3. n \in Nat /\ IsSeq(w)
    BY <1>1 DEF Whole
  <2>4. update_multi(State(x, w, c % CounterWord[x]), f, n)
          = State(x, w \o BlocksOf(x, f, n), (c + n) % CounterWord[x])
    BY <2>3, MultiIs
  <2> QED  BY <2>1, <2>2, <2>4
<1>5. HashOf(x, m) = [i \in 1 .. size_hash[x] |-> <<x, BlocksOf(x, p, Len(p) \div b), i>>]
  BY DEF HashOf, BlocksOf
<1> HIDE DEF b, n, f, p
<1>6. Len(p) \div b = c + n
  <2>1. (c + n) * b = c * b + n * b /\ c + n \in Int /\ c * b \in Nat /\ n * b \in Nat
    BY <1>1
  <2>2. Len(p) = (c + n) * b + 0 /\ Len(p) \in Int
    BY <1>2, <2>1
  <2> QED  BY <1>1, <2>1, <2>2, DivMod
<1>7. IsSeq(v) /\ Len(v) = c + n
      /\ \A j \in 1 .. c + n : v[j] = IF j <= c THEN w[j] ELSE BlockAt(x, f, j - c)
  <2> DEFINE g == BlocksOf(x, f, n)
  <2>1. IsSeq(g) /\ Len(g) = n /\ \A j \in 1 .. n : g[j] = BlockAt(x, f, j)
    BY <1>1, BlocksSeq
  <2>2. IsSeq(w) /\ Len(w) = c
    BY DEF Whole
  <2> HIDE DEF g
  <2>3. v = w \o g
    BY DEF g
  <2> HIDE DEF v
  <2>4. IsSeq(v) /\ Len(v) = c + n
        /\ \A j \in 1 .. c + n : v[j] = IF j <= c THEN w[j] ELSE g[j - c]
    BY <2>1, <2>2, <2>3, SeqCat
  <2>5. \A j \in 1 .. c + n : ~(j <= c) => j - c \in 1 .. n
    BY <1>1
  <2> QED  BY <2>1, <2>4, <2>5
<1>8. IsSeq(u) /\ Len(u) = c + n /\ \A j \in 1 .. c + n : u[j] = BlockAt(x, p, j)
  <2>1. c + n \in Nat
    BY <1>1
  <2> QED  BY <2>1, BlocksSeq
<1> HIDE DEF u, v
<1>9. ASSUME NEW j \in 1 .. c + n PROVE v[j] = u[j]
  <2> DEFINE o == (j - 1) * b
  <2>0. o \in Nat /\ j * b = o + b /\ j \in Nat \ {0} /\ c * b \in Nat /\ n * b \in Nat
    BY <1>1
  <2>1. CASE j <= c
    <3>1. j * b <= c * b
      BY <1>1, <2>0, <2>1
    <3>2. j * b <= Len(m) /\ j * b <= Len(p)
      <4> DEFINE y == j * b
                 z == c * b
                 a == n * b
      <4>1. y \in Nat /\ z \in Nat /\ a \in Nat /\ y <= z /\ Len(m) = z + Len(data)
            /\ Len(p) = z + a
        BY <1>1, <1>2, <2>0, <3>1
      <4> HIDE DEF y, z, a
      <4>2. y <= Len(m) /\ y <= Len(p)
        BY <1>1, <4>1
      <4> QED  BY <4>2 DEF y
    <3>3. \A k \in 1 .. b : p[o + k] = m[o + k]
      <4> HIDE DEF o
      <4> QED  BY <1>1, <1>3, <2>0, <3>2
    <3> HIDE DEF o
    <3>4. BlockAt(x, p, j) = BlockAt(x, m, j)
      <4>1. SameAt(x, p, j, m, j)
        BY <1>1, <1>3, <3>2, <3>3 DEF SameAt, b, o
      <4> QED  BY <2>0, <4>1, BlockEq
    <3>5. w[j] = BlockAt(x, m, j)
      BY <2>0, <2>1 DEF Whole
    <3> QED  BY <1>7, <1>8, <2>1, <3>4, <3>5
  <2>2. CASE ~(j <= c)
    <3> DEFINE l == j - c
               q == (l - 1) * b
    <3>1. l \in Nat \ {0} /\ l <= n /\ j <= c + n
      BY <1>1, <2>2
    <3>2. q \in Nat /\ l * b = q + b /\ o = c * b + q
      BY <1>1, <3>1
    <3>3. l * b <= n * b
      BY <1>1, <3>1
    <3> HIDE DEF o, q, l
    <3>4. l * b <= Len(f) /\ j * b <= Len(p)
      BY <1>1, <1>2, <2>0, <3>2, <3>3
    <3>5. \A k \in 1 .. b : f[q + k] = p[o + k]
      <4>1. \A k \in 1 .. b : q + k \in 1 .. n * b /\ c * b + (q + k) = o + k
        BY <1>1, <2>0, <3>2, <3>3
      <4> QED  BY <1>2, <4>1
    <3>6. BlockAt(x, f, l) = BlockAt(x, p, j)
      <4>1. SameAt(x, f, l, p, j)
        BY <1>2, <1>3, <3>4, <3>5 DEF SameAt, b, o, q
      <4> QED  BY <2>0, <3>1, <4>1, BlockEq
    <3> QED  BY <1>7, <1>8, <2>2, <3>6 DEF l
  <2> QED  BY <2>1, <2>2
<1>10. v = u
  BY <1>7, <1>8, <1>9, SeqEq
<1>11. \A z : finish(State(x, v, z)) = [i \in 1 .. size_hash[x] |-> <<x, v, i>>]
  BY DEF finish, State
<1> QED  BY <1>4, <1>5, <1>6, <1>10, <1>11 DEF u
(* The blocks at the start of what is left are the message's next ones.    *)
LEMMA WholeNext ==
  ASSUME NEW x \in Alg, NEW c \in Nat, NEW m, NEW w, Whole(x, w, m, c),
         NEW d, Left(x, d, m, c), NEW n \in Nat, n * size_block[x] <= Len(d)
  PROVE  Whole(x, w \o BlocksOf(x, d, n), m, c + n)
<1> DEFINE b == size_block[x]
           g == BlocksOf(x, d, n)
           v == w \o g
<1>1. /\ b \in Nat \ {0} /\ IsSeq(d) /\ IsSeq(m) /\ Len(d) \in Nat /\ Len(m) = c * b + Len(d)
      /\ \A k \in 1 .. Len(d) : m[c * b + k] = d[k]
  BY Sizes, SeqLen DEF Left
<1>2. IsSeq(g) /\ Len(g) = n /\ \A j \in 1 .. n : g[j] = BlockAt(x, d, j)
  BY BlocksSeq
<1>3. IsSeq(w) /\ Len(w) = c /\ \A j \in 1 .. c : w[j] = BlockAt(x, m, j)
  BY DEF Whole
<1> HIDE DEF g
<1>4. IsSeq(v) /\ Len(v) = c + n
      /\ \A j \in 1 .. c + n : v[j] = IF j <= c THEN w[j] ELSE g[j - c]
  BY <1>2, <1>3, SeqCat
<1> HIDE DEF b, v
<1>5. ASSUME NEW j \in 1 .. c + n PROVE v[j] = BlockAt(x, m, j)
  <2>1. CASE j <= c
    BY <1>3, <1>4, <2>1
  <2>2. CASE ~(j <= c)
    <3> DEFINE l == j - c
               q == (l - 1) * b
               o == (j - 1) * b
    <3>1. l \in 1 .. n /\ l \in Nat \ {0} /\ j \in Nat \ {0}
      BY <2>2
    <3>2. q \in Nat /\ l * b = q + b /\ o = c * b + q /\ j * b = o + b /\ c * b \in Nat
          /\ n * b \in Nat
      BY <1>1, <3>1
    <3>3. l * b <= n * b
      BY <1>1, <3>1
    <3>4. n * b <= Len(d)
      BY DEF b
    <3> HIDE DEF l, q, o
    <3>5. l * b <= Len(d) /\ j * b <= Len(m)
      BY <1>1, <3>2, <3>3, <3>4
    <3>6. \A k \in 1 .. b : d[q + k] = m[o + k]
      <4>1. \A k \in 1 .. b : q + k \in 1 .. Len(d) /\ c * b + (q + k) = o + k
        BY <1>1, <3>2, <3>5
      <4> QED  BY <1>1, <4>1
    <3>7. SameAt(x, d, l, m, j)
      BY <1>1, <3>5, <3>6 DEF SameAt, b, o, q
    <3>8. BlockAt(x, d, l) = BlockAt(x, m, j)
      BY <3>1, <3>7, BlockEq
    <3>9. v[j] = g[l] /\ g[l] = BlockAt(x, d, l)
      BY <1>2, <1>4, <2>2, <3>1 DEF l
    <3> QED  BY <3>8, <3>9
  <2> QED  BY <2>1, <2>2
<1> QED  BY <1>4, <1>5 DEF Whole, v, g

(* Whole blocks, and more bytes behind them.                               *)
LEMMA WholeMore ==
  ASSUME NEW x \in Alg, NEW c \in Nat, NEW m, IsSeq(m), Len(m) = c * size_block[x],
         NEW w, Whole(x, w, m, c), NEW d, IsSeq(d)
  PROVE  IsSeq(m \o d) /\ Whole(x, w, m \o d, c) /\ Left(x, d, m \o d, c)
<1> DEFINE b == size_block[x]
           e == m \o d
<1>1. b \in Nat \ {0} /\ Len(m) \in Nat /\ Len(d) \in Nat /\ Len(m) = c * b
  BY Sizes, SeqLen
<1>2. IsSeq(e) /\ Len(e) = Len(m) + Len(d)
      /\ \A k \in 1 .. Len(m) + Len(d) : e[k] = IF k <= Len(m) THEN m[k] ELSE d[k - Len(m)]
  BY SeqCat
<1> HIDE DEF b, e
<1>3. Left(x, d, e, c)
  <2>1. ASSUME NEW k \in 1 .. Len(d) PROVE e[Len(m) + k] = d[k]
    <3>1. Len(m) + k \in 1 .. Len(m) + Len(d) /\ ~(Len(m) + k <= Len(m))
          /\ (Len(m) + k) - Len(m) = k
      BY <1>1
    <3> QED  BY <1>2, <3>1
  <2> QED  BY <1>1, <1>2, <2>1 DEF Left, b
<1>4. ASSUME NEW j \in 1 .. c PROVE w[j] = BlockAt(x, e, j)
  <2> DEFINE o == (j - 1) * b
  <2>1. o \in Nat /\ j * b = o + b /\ j \in Nat \ {0} /\ j * b <= c * b
    BY <1>1
  <2> HIDE DEF o
  <2>2. j * b <= Len(m) /\ j * b <= Len(e)
    <3> DEFINE y == j * b
    <3>1. y \in Nat /\ y <= Len(m)
      BY <1>1, <2>1
    <3> HIDE DEF y
    <3>2. y <= Len(m) /\ y <= Len(e)
      BY <1>1, <1>2, <3>1
    <3> QED  BY <3>2 DEF y
  <2>3. \A k \in 1 .. b : m[o + k] = e[o + k]
    BY <1>1, <1>2, <2>1, <2>2
  <2>4. SameAt(x, m, j, e, j)
    BY <1>2, <2>2, <2>3 DEF SameAt, b, o
  <2>5. BlockAt(x, m, j) = BlockAt(x, e, j)
    BY <2>1, <2>4, BlockEq
  <2> QED  BY <2>5 DEF Whole
<1> QED  BY <1>2, <1>3, <1>4 DEF Whole, e

(* A block by itself.                                                      *)
LEMMA OneBlock ==
  ASSUME NEW x \in Alg, NEW d, IsSeq(d), Len(d) = size_block[x], NEW w, IsSeq(w)
  PROVE  Append(w, d) = w \o BlocksOf(x, d, 1)
<1> DEFINE g == BlocksOf(x, d, 1)
           e == Append(w, d)
           f == w \o g
<1>1. BlockAt(x, d, 1) = d
  <2>1. size_block[x] \in Nat \ {0} /\ 1 * size_block[x] = size_block[x]
        /\ (1 - 1) * size_block[x] = 0
    BY Sizes
  <2> DEFINE u == BlockAt(x, d, 1)
  <2>2. /\ IsSeq(u) /\ Len(u) = size_block[x]
        /\ \A k \in 1 .. size_block[x] : u[k] = d[(1 - 1) * size_block[x] + k]
    BY <2>1, BlockIs
  <2> HIDE DEF u
  <2>3. \A k \in 1 .. Len(u) : u[k] = d[k]
    BY <2>1, <2>2
  <2>4. u = d
    BY <2>2, <2>3, SeqEq
  <2> QED  BY <2>4 DEF u
<1>2. IsSeq(g) /\ Len(g) = 1 /\ g[1] = d
  <2> DEFINE one == 1
  <2>1. one \in Nat
    OBVIOUS
  <2> HIDE DEF one
  <2>2. /\ IsSeq(BlocksOf(x, d, one)) /\ Len(BlocksOf(x, d, one)) = one
        /\ \A j \in 1 .. one : BlocksOf(x, d, one)[j] = BlockAt(x, d, j)
    BY <2>1, BlocksSeq
  <2> QED  BY <1>1, <2>2 DEF one
<1> HIDE DEF g
<1>3. Len(w) \in Nat
  BY SeqLen
<1>4. IsSeq(f) /\ Len(f) = Len(w) + 1
      /\ \A k \in 1 .. Len(w) + 1 : f[k] = IF k <= Len(w) THEN w[k] ELSE g[k - Len(w)]
  BY <1>2, SeqCat
<1>5. /\ IsSeq(e) /\ Len(e) = Len(w) + 1
      /\ (\A k \in 1 .. Len(w) : e[k] = w[k]) /\ e[Len(w) + 1] = d
  BY SeqAppend
<1> HIDE DEF e, f
<1>6. ASSUME NEW k \in 1 .. Len(w) + 1 PROVE e[k] = f[k]
  <2>1. CASE k <= Len(w)
    BY <1>3, <1>4, <1>5, <2>1
  <2>2. CASE k = Len(w) + 1
    <3>1. ~(k <= Len(w)) /\ k - Len(w) = 1
      BY <1>3, <2>2
    <3> QED  BY <1>2, <1>4, <1>5, <2>2, <3>1
  <2> QED  BY <1>3, <2>1, <2>2
<1>7. e = f
  BY <1>4, <1>5, <1>6, SeqEq
<1> QED  BY <1>7 DEF e, f, g
-----------------------------------------------------------------------------
(* A state fed piece by piece.                                             *)

(* c blocks of m went into the state, and the counter may have wrapped.    *)
Fed(s, m, c) ==
  /\ s = State(s.alg, s.hash_w, c % CounterWord[s.alg]) /\ IsSeq(m)
  /\ Len(m) = c * size_block[s.alg]
  /\ Whole(s.alg, s.hash_w, m, c)

(* What the state of a hash holds, by how far its client is: while it is   *)
(* open, whole blocks of the message; after update_last, the hash.         *)
StreamInv ==
  /\ st.alg \in Alg
  /\ phase = "open" => \E c \in Nat : Fed(st, msg, c)
  /\ phase \in {"last", "read"} /\ Len(msg) \div size_block[st.alg] < CounterWord[st.alg] =>
       finish(st) = HashOf(st.alg, msg)
  /\ phase = "read" => digest = finish(st)

(* The fields of a state.                                                  *)
LEMMA FieldsOf ==
  ASSUME NEW x, NEW w, NEW c
  PROVE  State(x, w, c).alg = x /\ State(x, w, c).hash_w = w /\ State(x, w, c).counter = c
BY DEF State

(* update_multi on whole blocks.                                           *)
LEMMA FedMulti ==
  ASSUME NEW s, s.alg \in Alg, NEW m, NEW c \in Nat, Fed(s, m, c), NEW d, IsSeq(d),
         NEW n \in Nat, Len(d) = n * size_block[s.alg]
  PROVE  update_multi(s, d, n).alg = s.alg /\ Fed(update_multi(s, d, n), m \o d, c + n)
<1> DEFINE x == s.alg
           w == s.hash_w
           v == w \o BlocksOf(x, d, n)
           b == size_block[x]
<1>1. /\ s = State(x, w, c % CounterWord[x]) /\ IsSeq(m) /\ Len(m) = c * b
      /\ Whole(x, w, m, c) /\ IsSeq(w)
  BY DEF Fed, Whole
<1> HIDE DEF x, w
<1>x. x \in Alg /\ Len(d) = n * b
  BY DEF x
<1>2. update_multi(s, d, n) = State(x, v, (c + n) % CounterWord[x])
  BY <1>1, <1>x, MultiIs
<1>3. IsSeq(m \o d) /\ Whole(x, w, m \o d, c) /\ Left(x, d, m \o d, c)
  BY <1>1, <1>x, WholeMore
<1>4. Len(m \o d) = (c + n) * b
  <2>1. Len(m \o d) = Len(m) + Len(d)
    BY <1>1, SeqCat
  <2>2. b \in Nat
    BY <1>x, Sizes
  <2> HIDE DEF b
  <2>3. (c + n) * b = c * b + n * b
    BY <2>2
  <2> QED  BY <1>1, <1>x, <2>1, <2>3
<1>5. Whole(x, v, m \o d, c + n)
  <2>1. n * size_block[x] <= Len(d)
    <3>1. Len(d) \in Nat
      BY SeqLen
    <3> HIDE DEF b
    <3>2. n * b <= Len(d)
      BY <1>x, <3>1
    <3> QED  BY <3>2 DEF b
  <2> QED  BY <1>3, <1>x, <2>1, WholeNext
<1> HIDE DEF v
<1>6. /\ update_multi(s, d, n).alg = x /\ update_multi(s, d, n).hash_w = v
      /\ update_multi(s, d, n) = State(x, v, (c + n) % CounterWord[x])
  BY <1>2, FieldsOf
<1> QED  BY <1>3, <1>4, <1>5, <1>6 DEF Fed, x

(* update is update_multi on one block.                                    *)
LEMMA FedOne ==
  ASSUME NEW s, s.alg \in Alg, NEW m, NEW c \in Nat, Fed(s, m, c),
         NEW d, IsSeq(d), Len(d) = size_block[s.alg]
  PROVE  update(s, d).alg = s.alg /\ Fed(update(s, d), m \o d, c + 1)
<1> DEFINE x == s.alg
           w == s.hash_w
           k == CounterWord[x]
           one == 1
<1>1. s = State(x, w, c % k) /\ IsSeq(w)
  BY DEF Fed, Whole
<1>x. x \in Alg /\ k \in Nat \ {0} /\ size_block[x] \in Nat /\ Len(d) = size_block[x]
  BY Sizes
<1> HIDE DEF x, w
<1>2. update(s, d) = State(x, Append(w, d), ((c % k) + 1) % k)
  BY <1>1, UpdateIs
<1>3. Append(w, d) = w \o BlocksOf(x, d, 1)
  BY <1>1, <1>x, OneBlock
<1>4. ((c % k) + 1) % k = (c + 1) % k
  <2> HIDE DEF k
  <2> QED  BY <1>x, ModNext
<1>5. one \in Nat /\ Len(d) = one * size_block[x]
  BY <1>x
<1> HIDE DEF one
<1>6. update_multi(s, d, one) = State(x, w \o BlocksOf(x, d, one), (c + one) % k)
  BY <1>1, <1>x, <1>5, MultiIs
<1>7. update(s, d) = update_multi(s, d, one)
  BY <1>2, <1>3, <1>4, <1>6 DEF one
<1>8. update_multi(s, d, one).alg = s.alg /\ Fed(update_multi(s, d, one), m \o d, c + one)
  BY <1>5, FedMulti DEF x
<1> QED  BY <1>7, <1>8 DEF one

(* update_last and finish, while the count has not wrapped.                *)
LEMMA FedLast ==
  ASSUME NEW s, s.alg \in Alg, NEW m, NEW c \in Nat, Fed(s, m, c),
         NEW d, IsSeq(d), LastFits(s.alg, Len(d)),
         Len(m \o d) \div size_block[s.alg] < CounterWord[s.alg]
  PROVE  finish(update_last(s, d)) = HashOf(s.alg, m \o d)
<1> DEFINE x == s.alg
           w == s.hash_w
           b == size_block[x]
           e == m \o d
<1>1. /\ s = State(x, w, c % CounterWord[x]) /\ IsSeq(m) /\ Len(m) = c * b
      /\ Whole(x, w, m, c)
  BY DEF Fed
<1> HIDE DEF x, w
<1>x. x \in Alg /\ b \in Nat \ {0} /\ CounterWord[x] \in Nat \ {0}
  BY Sizes DEF x
<1>2. Whole(x, w, e, c) /\ Left(x, d, e, c)
  BY <1>1, <1>x, WholeMore
<1>3. c < CounterWord[x]
  <2> DEFINE q == Len(e) \div b
             k == CounterWord[x]
             o == c * b
  <2>1. q < k
    BY DEF x
  <2>2. Len(e) = o + Len(d) /\ Len(d) \in Nat
    BY <1>1, SeqCat, SeqLen
  <2>3. o \in Nat
    BY <1>x
  <2> HIDE DEF b
  <2>4. q \in Int /\ Len(e) < q * b + b /\ q * b \in Int
    <3>1. Len(e) \in Nat
      BY <2>2, <2>3
    <3> HIDE DEF e
    <3> QED  BY <1>x, <3>1
  <2> HIDE DEF q, k
  <2>5. ASSUME q < c PROVE FALSE
    <3>1. (q + 1) * b <= c * b /\ (q + 1) * b = q * b + b
      BY <1>x, <2>4, <2>5
    <3> HIDE DEF e
    <3> DEFINE y == q * b
    <3>2. y + b <= o /\ Len(e) < y + b /\ y \in Int
      BY <2>4, <3>1
    <3> HIDE DEF y, o
    <3> QED  BY <1>x, <2>2, <2>3, <3>2
  <2> QED  BY <1>x, <2>1, <2>4, <2>5 DEF k
<1>4. c % CounterWord[x] = c
  BY <1>x, <1>3, ModSmall
<1>5. finish(update_last(State(x, w, c), d)) = HashOf(x, e)
  <2>1. LastFits(x, Len(d))
    BY DEF x
  <2> HIDE DEF e
  <2> QED  BY <1>2, <1>3, <1>x, <2>1, LastIs
<1> QED  BY <1>1, <1>4, <1>5 DEF x
(* update_last leaves the variant alone.                                   *)
LEMMA LastAlg ==
  ASSUME NEW s, s.alg \in Alg, NEW m, NEW c \in Nat, Fed(s, m, c), NEW d, IsSeq(d),
         LastFits(s.alg, Len(d))
  PROVE  update_last(s, d).alg = s.alg
<1> DEFINE x == s.alg
           n == nb(x, Len(d))
           f == final_blocks(s, d)
<1>1. s = State(x, s.hash_w, c % CounterWord[x]) /\ IsSeq(s.hash_w)
  BY DEF Fed, Whole
<1>2. n \in Nat
  BY SeqLen, PadFacts
<1>3. update_last(s, d) = update_multi(s, f, n)
  BY DEF update_last
<1> HIDE DEF x, n, f
<1>4. update_multi(s, f, n) = State(x, s.hash_w \o BlocksOf(x, f, n), (c + n) % CounterWord[x])
  BY <1>1, <1>2, MultiIs DEF x
<1> QED  BY <1>3, <1>4, FieldsOf DEF x

(* init: no block yet.                                                     *)
LEMMA FedInit ==
  ASSUME NEW x \in Alg
  PROVE  init(x).alg = x /\ Fed(init(x), <<>>, 0)
<1>1. init(x) = State(x, <<>>, 0)
  BY DEF init, State
<1>2. 0 % CounterWord[x] = 0 /\ Len(<<>>) = 0 * size_block[x]
  <2>1. CounterWord[x] \in Nat \ {0} /\ size_block[x] \in Nat
    BY Sizes
  <2>2. 0 % CounterWord[x] = 0
    BY <2>1, ModSmall
  <2> QED  BY <2>1, <2>2, SeqEmpty
<1>3. Whole(x, <<>>, <<>>, 0)
  BY SeqEmpty DEF Whole
<1> QED  BY <1>1, <1>2, <1>3, FieldsOf, SeqEmpty DEF Fed

(* Before the first init nothing is promised.                              *)
LEMMA StreamInit == Init => StreamInv
<1> SUFFICES ASSUME Init PROVE StreamInv
  OBVIOUS
<1>1. st.alg \in Alg /\ phase = "raw"
  BY DEF Init
<1> QED  BY <1>1 DEF StreamInv

(* Every step of the client that feeds a state.                            *)
LEMMA StreamStep ==
  ASSUME StreamInv, Stream
  PROVE  StreamInv'
<1> DEFINE x == st.alg
<1>x. x \in Alg /\ size_block[x] \in Nat \ {0}
  BY Sizes DEF StreamInv
<1>1. ASSUME NEW a \in Alg, CallInit(a) PROVE StreamInv'
  <2>1. st' = init(a) /\ msg' = <<>> /\ phase' = "open"
    BY <1>1 DEF CallInit
  <2>2. st'.alg \in Alg /\ Fed(st', msg', 0)
    BY <2>1, FedInit
  <2> QED  BY <2>1, <2>2 DEF StreamInv
<1>2. ASSUME NEW b \in Blocks(st.alg), CallUpdate(b) PROVE StreamInv'
  <2>1. phase = "open" /\ st' = update(st, b) /\ msg' = msg \o b /\ phase' = "open"
    BY <1>2 DEF CallUpdate
  <2>2. PICK c \in Nat : Fed(st, msg, c)
    BY <2>1 DEF StreamInv
  <2>3. IsSeq(b) /\ Len(b) = size_block[st.alg]
    BY <1>x, PiecesAssumption, SeqFun DEF String
  <2>4. st'.alg = st.alg /\ Fed(st', msg', c + 1) /\ c + 1 \in Nat
    BY <1>x, <2>1, <2>2, <2>3, FedOne
  <2> QED  BY <1>x, <2>1, <2>4 DEF StreamInv
<1>3. ASSUME NEW b \in Blocks(st.alg), NEW d \in Blocks(st.alg), CallUpdateMulti(b \o d)
      PROVE StreamInv'
  <2> DEFINE e == b \o d
             two == 2
  <2>1. /\ phase = "open" /\ st' = update_multi(st, e, Len(e) \div size_block[st.alg])
        /\ msg' = msg \o e /\ phase' = "open"
    BY <1>3 DEF CallUpdateMulti
  <2>2. PICK c \in Nat : Fed(st, msg, c)
    BY <2>1 DEF StreamInv
  <2>3. /\ IsSeq(b) /\ Len(b) = size_block[st.alg]
        /\ IsSeq(d) /\ Len(d) = size_block[st.alg]
    BY <1>x, PiecesAssumption, SeqFun DEF String
  <2>4. IsSeq(e) /\ Len(e) = Len(b) + Len(d)
    BY <2>3, SeqCat
  <2> HIDE DEF e
  <2>5. two \in Nat /\ two \in Int /\ Len(e) = two * size_block[st.alg] /\ Len(e) \in Int
        /\ Len(e) = two * size_block[st.alg] + 0
    BY <1>x, <2>3, <2>4
  <2> HIDE DEF two
  <2>6. Len(e) \div size_block[st.alg] = two
    BY <1>x, <2>5, DivMod
  <2>7. st'.alg = st.alg /\ Fed(st', msg', c + two) /\ c + two \in Nat
    BY <1>x, <2>1, <2>2, <2>4, <2>5, <2>6, FedMulti
  <2> QED  BY <1>x, <2>1, <2>7 DEF StreamInv
<1>4. ASSUME NEW d \in Lasts(st.alg), CallUpdateLast(d) PROVE StreamInv'
  <2>1. /\ phase = "open" /\ st' = update_last(st, d) /\ msg' = msg \o d /\ phase' = "last"
        /\ LastFits(st.alg, Len(d))
    BY <1>4 DEF CallUpdateLast
  <2>2. PICK c \in Nat : Fed(st, msg, c)
    BY <2>1 DEF StreamInv
  <2>3. IsSeq(d)
    BY <1>x, PiecesAssumption, SeqFun DEF String
  <2>4. st'.alg = st.alg
    BY <1>x, <2>1, <2>2, <2>3, LastAlg
  <2>5. Len(msg') \div size_block[st'.alg] < CounterWord[st'.alg]
          => finish(st') = HashOf(st'.alg, msg')
    <3>1. SUFFICES ASSUME Len(msg \o d) \div size_block[st.alg] < CounterWord[st.alg]
                   PROVE  finish(update_last(st, d)) = HashOf(st.alg, msg \o d)
      BY <2>1, <2>4
    <3> QED  BY <1>x, <2>1, <2>2, <2>3, <3>1, FedLast
  <2> QED  BY <1>x, <2>1, <2>4, <2>5 DEF StreamInv
<1>5. ASSUME CallFinish PROVE StreamInv'
  BY <1>5 DEF StreamInv, CallFinish
<1> QED  BY <1>1, <1>2, <1>3, <1>4, <1>5 DEF Stream

(* The other client leaves the state alone.                                *)
LEMMA StreamNext == StreamInv /\ [Next]_vars => StreamInv'
<1> SUFFICES ASSUME StreamInv, [Next]_vars PROVE StreamInv'
  OBVIOUS
<1>1. CASE Stream
  BY <1>1, StreamStep
<1>2. CASE UNCHANGED streaming
  BY <1>2 DEF StreamInv, streaming
<1>3. Stream \/ UNCHANGED streaming
  BY DEF Next, vars, streaming, CallOnce, CallPrefixed, Schedule, CallPlaintextSecrets,
         CallDeriveSecret, CallDeriveKey
<1> QED  BY <1>1, <1>2, <1>3

(* In whatever pieces a message is fed to a state, and whatever the state  *)
(* was used for before: the digest is the hash of the message.             *)
THEOREM StreamIsHash == Spec => []DigestIsHash
<1>1. StreamInv => DigestIsHash
  BY DEF StreamInv, DigestIsHash
<1> QED  BY <1>1, StreamInit, StreamNext, PTL DEF Spec
-----------------------------------------------------------------------------
(* One-shot calls.                                                         *)

(* As many blocks as fit are counted by the quotient.                      *)
LEMMA CountBelow ==
  ASSUME NEW b \in Nat \ {0}, NEW c \in Nat, NEW l \in Nat, c * b <= l
  PROVE  c <= l \div b
<1> DEFINE q == l \div b
<1>1. q \in Int /\ l < q * b + b /\ q * b \in Int
  OBVIOUS
<1> HIDE DEF q
<1>2. ASSUME q < c PROVE FALSE
  <2>1. (q + 1) * b <= c * b /\ (q + 1) * b = q * b + b
    BY <1>1, <1>2
  <2> DEFINE y == q * b
             z == c * b
  <2>2. y + b <= z /\ l < y + b /\ y \in Int /\ z <= l /\ z \in Int
    BY <1>1, <2>1
  <2> HIDE DEF y, z
  <2> QED  BY <2>2
<1> QED  BY <1>1, <1>2 DEF q

(* Nothing in front of a message.                                          *)
LEMMA EmptyCat ==
  ASSUME NEW d, IsSeq(d)
  PROVE  <<>> \o d = d
<1> DEFINE e == <<>> \o d
<1>1. Len(d) \in Nat
  BY SeqLen
<1>2. IsSeq(e) /\ Len(e) = 0 + Len(d)
      /\ \A k \in 1 .. 0 + Len(d) : e[k] = IF k <= 0 THEN <<>>[k] ELSE d[k - 0]
  BY SeqEmpty, SeqCat
<1> HIDE DEF e
<1>3. Len(e) = Len(d) /\ \A k \in 1 .. Len(e) : e[k] = d[k]
  BY <1>1, <1>2
<1>4. e = d
  BY <1>2, <1>3, SeqEq
<1> QED  BY <1>4 DEF e

(* What update, update_multi and update_last make of the rest of a         *)
(* message: whole blocks first, then what is left.                         *)
LEMMA RestIs ==
  ASSUME NEW s, s.alg \in Alg, NEW m, NEW c \in Nat, Fed(s, m, c), NEW d, IsSeq(d),
         Len(m \o d) \div size_block[s.alg] < CounterWord[s.alg]
  PROVE  LET n == Len(d) \div size_block[s.alg]
         IN finish(update_last(update_multi(s, d, n), SubSeq(d, n * size_block[s.alg] + 1, Len(d))))
              = HashOf(s.alg, m \o d)
<1> DEFINE x == s.alg
           w == s.hash_w
           b == size_block[x]
           e == m \o d
           n == Len(d) \div b
           o == n * b
           h == SubSeq(d, o + 1, Len(d))
           v == w \o BlocksOf(x, d, n)
<1>1. /\ s = State(x, w, c % CounterWord[x]) /\ IsSeq(m) /\ Len(m) = c * b
      /\ Whole(x, w, m, c) /\ IsSeq(w)
  BY DEF Fed, Whole
<1>w. Len(e) \div b < CounterWord[x]
  OBVIOUS
<1>x. x \in Alg /\ b \in Nat \ {0} /\ CounterWord[x] \in Nat \ {0} /\ Len(d) \in Nat
  BY Sizes, SeqLen
<1> HIDE DEF x, w
<1>2. IsSeq(e) /\ Whole(x, w, e, c) /\ Left(x, d, e, c) /\ Len(e) = c * b + Len(d)
  BY <1>1, <1>x, WholeMore, SeqCat
<1> HIDE DEF b, e
<1>3. n \in Nat /\ o \in Nat /\ o <= Len(d) /\ Len(d) < o + b
  BY <1>x
<1> HIDE DEF n
<1>o. o = n * b
  OBVIOUS
<1> HIDE DEF o
<1>4. IsSeq(h) /\ Len(h) = Len(d) - o /\ \A k \in 1 .. Len(d) - o : h[k] = d[o + k]
  BY <1>3, <1>x, SeqSub
<1> HIDE DEF h
<1>5. update_multi(s, d, n) = State(x, v, (c + n) % CounterWord[x])
  BY <1>1, <1>3, <1>x, MultiIs
<1>6. Whole(x, v, e, c + n)
  <2>1. n * size_block[x] <= Len(d)
    BY <1>3, <1>o DEF b
  <2> QED  BY <1>2, <1>3, <1>x, <2>1, WholeNext
<1> HIDE DEF v
<1>7. c + n \in Nat /\ c * b \in Nat /\ (c + n) * b = c * b + o
  BY <1>3, <1>x, <1>o
<1>8. Left(x, h, e, c + n)
  <2>1. Len(e) = (c + n) * b + Len(h)
    <3> DEFINE y == (c + n) * b
               z == c * b
    <3>1. y = z + o /\ z \in Nat /\ Len(e) = z + Len(d)
      BY <1>2, <1>7
    <3> HIDE DEF y, z
    <3>2. Len(e) = y + Len(h)
      BY <1>3, <1>4, <1>x, <3>1
    <3> QED  BY <3>2 DEF y
  <2>2. ASSUME NEW k \in 1 .. Len(h) PROVE e[(c + n) * b + k] = h[k]
    <3>1. o + k \in 1 .. Len(d) /\ c * b + (o + k) = (c + n) * b + k
      BY <1>3, <1>4, <1>7, <1>x
    <3>2. e[c * b + (o + k)] = d[o + k]
      BY <1>2, <3>1 DEF Left, b
    <3> QED  BY <1>4, <3>1, <3>2
  <2> QED  BY <1>2, <1>4, <2>1, <2>2 DEF Left, b
<1>9. c + n < CounterWord[x]
  <2> DEFINE y == (c + n) * b
             z == c + n
             q == Len(e) \div b
  <2>1. y <= Len(e) /\ Len(e) \in Nat
    <3>1. y \in Nat
      BY <1>3, <1>7
    <3> HIDE DEF y
    <3>2. y = c * b + o
      BY <1>7 DEF y
    <3> DEFINE cb == c * b
    <3>3. cb \in Nat /\ y = cb + o /\ Len(e) = cb + Len(d)
      BY <1>2, <1>7, <3>2
    <3> HIDE DEF cb
    <3> QED  BY <1>3, <1>x, <3>1, <3>3
  <2>2. z \in Nat /\ z * b <= Len(e)
    BY <1>7, <2>1
  <2> HIDE DEF z
  <2>3. z <= q
    BY <1>x, <2>1, <2>2, CountBelow
  <2>4. q < CounterWord[x] /\ q \in Int
    BY <1>w, <1>x, <2>1
  <2> HIDE DEF q
  <2>5. z < CounterWord[x]
    BY <1>x, <2>2, <2>3, <2>4
  <2> QED  BY <2>5 DEF z
<1>10. LastFits(x, Len(h))
  <2>1. size_len_8[x] \in Nat /\ size_len_8[x] + 1 < b
    BY <1>x, Sizes DEF b
  <2>2. Len(h) \in Nat /\ Len(h) < b
    BY <1>3, <1>4, <1>x
  <2>3. Len(h) + size_len_8[x] + 1 < 2 * b
    BY <1>x, <2>1, <2>2
  <2> QED  BY <2>3 DEF LastFits, b
<1>11. (c + n) % CounterWord[x] = c + n
  BY <1>7, <1>9, <1>x, ModSmall
<1>12. finish(update_last(State(x, v, c + n), h)) = HashOf(x, e)
  <2> DEFINE z == c + n
  <2>1. z \in Nat /\ z < CounterWord[x] /\ Whole(x, v, e, z) /\ Left(x, h, e, z)
    BY <1>6, <1>7, <1>8, <1>9
  <2> HIDE DEF z
  <2>2. finish(update_last(State(x, v, z), h)) = HashOf(x, e)
    BY <1>10, <1>x, <2>1, LastIs
  <2> QED  BY <2>2 DEF z
<1>13. finish(update_last(update_multi(s, d, n), h)) = HashOf(x, e)
  BY <1>5, <1>11, <1>12
<1> QED  BY <1>13 DEF h, o, n, b, e, x

(* hash computes the hash of the standard.                                 *)
LEMMA HashIs ==
  ASSUME NEW x \in Alg, NEW d, IsSeq(d), Len(d) \div size_block[x] < CounterWord[x]
  PROVE  hash(x, d) = HashOf(x, d)
<1> DEFINE s == init(x)
           z == 0
<1>1. s.alg = x /\ Fed(s, <<>>, z) /\ z \in Nat
  BY FedInit
<1>2. <<>> \o d = d
  BY EmptyCat
<1> HIDE DEF s, z
<1>3. LET n == Len(d) \div size_block[x]
      IN finish(update_last(update_multi(s, d, n), SubSeq(d, n * size_block[x] + 1, Len(d))))
           = HashOf(x, <<>> \o d)
  BY <1>1, <1>2, RestIs
<1> QED  BY <1>2, <1>3 DEF hash, s

(* A block fed to a new state.                                             *)
LEMMA FedBlock ==
  ASSUME NEW x \in Alg, NEW d, IsSeq(d), Len(d) = size_block[x]
  PROVE  update(init(x), d).alg = x /\ Fed(update(init(x), d), d, 1)
<1> DEFINE s == init(x)
           z == 0
<1>1. s.alg = x /\ Fed(s, <<>>, z) /\ z \in Nat
  BY FedInit
<1>2. <<>> \o d = d
  BY EmptyCat
<1> HIDE DEF s, z
<1>3. update(s, d).alg = s.alg /\ Fed(update(s, d), <<>> \o d, z + 1)
  BY <1>1, FedOne
<1> QED  BY <1>1, <1>2, <1>3 DEF s, z

(* A first block, then the rest of the message.                            *)
LEMMA BlockAndRestIs ==
  ASSUME NEW x \in Alg, NEW p, IsSeq(p), Len(p) = size_block[x], NEW d, IsSeq(d),
         Len(p \o d) \div size_block[x] < CounterWord[x]
  PROVE  hash_block_and_rest(x, p, d) = HashOf(x, p \o d)
<1> DEFINE s == update(init(x), p)
           z == 1
<1>1. s.alg = x /\ Fed(s, p, z) /\ z \in Nat
  BY FedBlock
<1> HIDE DEF s, z
<1>3. LET n == Len(d) \div size_block[x]
      IN finish(update_last(update_multi(s, d, n), SubSeq(d, n * size_block[x] + 1, Len(d))))
           = HashOf(x, p \o d)
  BY <1>1, RestIs
<1> QED  BY <1>3 DEF hash_block_and_rest, s
(* A shorter message does not wrap the counter either.                     *)
LEMMA CountedLess ==
  ASSUME NEW x \in Alg, NEW n \in Nat, NEW m \in Nat, m <= n, Counted(x, n)
  PROVE  Counted(x, m)
<1> DEFINE b == size_block[x]
           q == m \div b
           r == n \div b
<1>1. b \in Nat \ {0} /\ CounterWord[x] \in Nat
  BY Sizes
<1> HIDE DEF b
<1>2. q \in Nat /\ q * b <= m /\ r \in Int
  BY <1>1
<1>3. q * b <= n
  <2> DEFINE y == q * b
  <2>1. y \in Int /\ y <= m
    BY <1>1, <1>2
  <2> HIDE DEF y
  <2>2. y <= n
    BY <2>1
  <2> QED  BY <2>2 DEF y
<1> HIDE DEF q
<1>4. q <= r
  BY <1>1, <1>2, <1>3, CountBelow
<1>5. r < CounterWord[x]
  BY DEF Counted, b
<1> HIDE DEF r
<1>6. q < CounterWord[x]
  BY <1>1, <1>2, <1>4, <1>5
<1> QED  BY <1>6 DEF Counted, q, b

-----------------------------------------------------------------------------
(* Prefixed hashes.                                                        *)

(* A message cut in two behind a prefix.                                   *)
LEMMA CatSplit ==
  ASSUME NEW p, IsSeq(p), NEW d, IsSeq(d), NEW r \in 0 .. Len(d)
  PROVE  /\ (p \o SubSeq(d, 1, r)) \o SubSeq(d, r + 1, Len(d)) = p \o d
         /\ IsSeq(p \o SubSeq(d, 1, r)) /\ Len(p \o SubSeq(d, 1, r)) = Len(p) + r
         /\ IsSeq(SubSeq(d, r + 1, Len(d)))
<1> DEFINE u == SubSeq(d, 1, r)
           v == SubSeq(d, r + 1, Len(d))
           e == p \o u
           f == e \o v
           g == p \o d
           n == Len(p)
           l == Len(d)
<1>0. n \in Nat /\ l \in Nat /\ r \in Nat /\ r <= l /\ r \in 0 .. l
  BY SeqLen
<1>1. IsSeq(u) /\ Len(u) = r /\ \A k \in 1 .. r : u[k] = d[k]
  <2> DEFINE z == 0
  <2>1. z \in Nat /\ z <= r /\ r <= Len(d) /\ z + 1 = 1
    BY <1>0
  <2> HIDE DEF z
  <2>2. /\ IsSeq(SubSeq(d, z + 1, r)) /\ Len(SubSeq(d, z + 1, r)) = r - z
        /\ \A k \in 1 .. r - z : SubSeq(d, z + 1, r)[k] = d[z + k]
    BY <1>0, <2>1, SeqSub
  <2> QED  BY <1>0, <2>1, <2>2 DEF z
<1>2. IsSeq(v) /\ Len(v) = l - r /\ \A k \in 1 .. l - r : v[k] = d[r + k]
  BY <1>0, SeqSub
<1> HIDE DEF u, v
<1>3. IsSeq(e) /\ Len(e) = n + r
      /\ \A k \in 1 .. n + r : e[k] = IF k <= n THEN p[k] ELSE u[k - n]
  BY <1>1, SeqCat
<1> HIDE DEF e
<1>4. /\ IsSeq(f) /\ Len(f) = (n + r) + (l - r)
      /\ \A k \in 1 .. (n + r) + (l - r) : f[k] = IF k <= n + r THEN e[k] ELSE v[k - (n + r)]
  <2> HIDE DEF f, n, l
  <2>1. /\ IsSeq(f) /\ Len(f) = Len(e) + Len(v)
        /\ \A k \in 1 .. Len(e) + Len(v) : f[k] = IF k <= Len(e) THEN e[k] ELSE v[k - Len(e)]
    BY <1>2, <1>3, SeqCat DEF f
  <2> QED  BY <1>2, <1>3, <2>1
<1>5. IsSeq(g) /\ Len(g) = n + l
      /\ \A k \in 1 .. n + l : g[k] = IF k <= n THEN p[k] ELSE d[k - n]
  BY SeqCat
<1> HIDE DEF f, g, n, l
<1>6. Len(f) = Len(g) /\ (n + r) + (l - r) = n + l
  BY <1>0, <1>4, <1>5
<1>7. ASSUME NEW k \in 1 .. n + l PROVE f[k] = g[k]
  <2>1. CASE k <= n
    BY <1>0, <1>3, <1>4, <1>5, <1>6, <2>1
  <2>2. CASE n < k /\ k <= n + r
    <3>1. k - n \in 1 .. r /\ ~(k <= n) /\ k \in 1 .. n + r
      BY <1>0, <2>2
    <3>2. f[k] = e[k] /\ e[k] = u[k - n] /\ g[k] = d[k - n]
      BY <1>3, <1>4, <1>5, <1>6, <2>2, <3>1
    <3> QED  BY <1>1, <3>1, <3>2
  <2>3. CASE n + r < k
    <3>1. /\ k - (n + r) \in 1 .. l - r /\ ~(k <= n) /\ ~(k <= n + r)
          /\ r + (k - (n + r)) = k - n
      BY <1>0, <2>3
    <3>2. f[k] = v[k - (n + r)] /\ g[k] = d[k - n]
      BY <1>4, <1>5, <1>6, <3>1
    <3> QED  BY <1>2, <3>1, <3>2
  <2> QED  BY <1>0, <2>1, <2>2, <2>3
<1>8. f = g
  BY <1>4, <1>5, <1>6, <1>7, SeqEq
<1> QED  BY <1>2, <1>3, <1>8 DEF f, g, e, u, v, n, l

(* Whether the message fits the block behind the prefix or not.            *)
LEMMA PrefixIs ==
  ASSUME NEW x \in Alg, NEW p, IsSeq(p), Len(p) <= size_block[x], NEW d, IsSeq(d),
         Counted(x, Len(p) + Len(d))
  PROVE  sha512_pre_msg(x, p, d) = HashOf(x, p \o d)
<1> DEFINE b == size_block[x]
           r == b - Len(p)
           e == p \o d
<1>1. b \in Nat /\ Len(p) \in Nat /\ Len(d) \in Nat /\ r \in Nat /\ Len(p) + r = b
  BY Sizes, SeqLen
<1>2. IsSeq(e) /\ Len(e) = Len(p) + Len(d)
  BY SeqCat
<1>3. Len(e) \div size_block[x] < CounterWord[x]
  BY <1>2 DEF Counted
<1>4. CASE Len(d) <= r
  <2>1. Len(p) + Len(d) <= size_block[x]
    BY <1>1, <1>4
  <2>2. sha512_pre_msg(x, p, d) = hash(x, e)
    BY <1>4, <2>1 DEF sha512_pre_msg, concat
  <2> HIDE DEF e
  <2>3. hash(x, e) = HashOf(x, e)
    BY <1>2, <1>3, HashIs
  <2> QED  BY <2>2, <2>3 DEF e
<1>5. CASE ~(Len(d) <= r)
  <2> DEFINE u == SubSeq(d, 1, r)
             v == SubSeq(d, r + 1, Len(d))
             f == p \o u
  <2>1. r \in 0 .. Len(d)
    BY <1>1, <1>5
  <2> HIDE DEF r
  <2>2. f \o v = e /\ IsSeq(f) /\ Len(f) = Len(p) + r /\ IsSeq(v)
    BY <2>1, CatSplit
  <2>3. Len(u) = r
    <3> DEFINE z == 0
    <3>1. z \in Nat /\ z <= r /\ r \in Nat /\ r <= Len(d) /\ z + 1 = 1
      BY <1>1, <2>1
    <3> HIDE DEF z
    <3>2. Len(SubSeq(d, z + 1, r)) = r - z
      BY <3>1, SeqSub
    <3> QED  BY <3>1, <3>2 DEF z
  <2>4. sha512_pre_msg(x, p, d) = hash_block_and_rest(x, f, v)
    <3>1. Len(p) + Len(u) <= size_block[x]
      BY <1>1, <2>3
    <3> HIDE DEF u, v
    <3>2. concat(x, p, u) = f
      BY <3>1 DEF concat
    <3> HIDE DEF f
    <3> QED  BY <1>5, <3>2 DEF sha512_pre_msg, r, u, v
  <2>5. Len(f) = size_block[x]
    BY <1>1, <2>2
  <2> HIDE DEF f, v, e
  <2>6. hash_block_and_rest(x, f, v) = HashOf(x, f \o v)
    BY <1>3, <2>2, <2>5, BlockAndRestIs
  <2> QED  BY <2>2, <2>4, <2>6 DEF e
<1> QED  BY <1>4, <1>5
-----------------------------------------------------------------------------
(* HMAC.                                                                   *)

(* A digest is a string of the digest's length.                            *)
LEMMA HashLen ==
  ASSUME NEW x \in Alg, NEW d
  PROVE  IsSeq(HashOf(x, d)) /\ Len(HashOf(x, d)) = size_hash[x]
<1>1. size_hash[x] \in Nat
  BY Sizes
<1>2. OfLength(HashOf(x, d), size_hash[x])
  <2> DEFINE w == [i \in 1 .. Len(Padded(x, d)) \div size_block[x] |-> BlockAt(x, Padded(x, d), i)]
  <2>1. HashOf(x, d) = [i \in 1 .. size_hash[x] |-> <<x, w, i>>]
    BY DEF HashOf
  <2> HIDE DEF w
  <2> QED  BY <2>1 DEF OfLength
<1> QED  BY <1>1, <1>2, SeqFun

(* The key as HMAC uses it, and a block of it under a pad.                 *)
KeyOf(x, key) == IF Len(key) > size_block[x] THEN HashOf(x, key) ELSE key
Under(x, k, pad) == [i \in 1 .. size_block[x] |-> <<pad, IF i <= Len(k) THEN k[i] ELSE B(0)>>]

(* The reference in these terms.                                           *)
LEMMA HmacOfIs ==
  ASSUME NEW x, NEW key, NEW data
  PROVE  LET k == KeyOf(x, key)
         IN HmacOf(x, key, data)
              = HashOf(x, Under(x, k, "opad") \o HashOf(x, Under(x, k, "ipad") \o data))
BY DEF HmacOf, KeyOf, Under

(* A block under a pad has the length of a block.                          *)
LEMMA UnderIs ==
  ASSUME NEW x \in Alg, NEW k, NEW pad
  PROVE  IsSeq(Under(x, k, pad)) /\ Len(Under(x, k, pad)) = size_block[x]
<1>1. size_block[x] \in Nat
  BY Sizes
<1>2. OfLength(Under(x, k, pad), size_block[x])
  BY DEF Under, OfLength
<1> QED  BY <1>1, <1>2, SeqFun

(* wrap_key and the xor with a pad fill a block with the key.              *)
LEMMA WrapIs ==
  ASSUME NEW x \in Alg, NEW key, IsSeq(key), Counted(x, Len(key)), NEW pad
  PROVE  xor_bytes_inplace(pad, wrap_key(x, key)) = Under(x, KeyOf(x, key), pad)
<1> DEFINE b == size_block[x]
           k == KeyOf(x, key)
           n == b - Len(k)
           e == k \o Zeros(n)
<1>1. b \in Nat /\ size_hash[x] \in Nat /\ size_hash[x] <= b /\ Len(key) \in Nat
  BY Sizes, SeqLen
<1>2. IsSeq(k) /\ Len(k) \in Nat /\ Len(k) <= b
  <2>1. CASE Len(key) > b
    BY <1>1, <2>1, HashLen DEF KeyOf
  <2>2. CASE ~(Len(key) > b)
    BY <1>1, <2>2 DEF KeyOf
  <2> QED  BY <2>1, <2>2
<1>3. wrap_key(x, key) = e
  <2>1. CASE Len(key) > b
    <3>1. hash(x, key) = HashOf(x, key)
      BY HashIs DEF Counted
    <3>2. ~(Len(key) <= b) /\ k = HashOf(x, key)
      BY <1>1, <2>1 DEF KeyOf
    <3> QED  BY <3>1, <3>2 DEF wrap_key
  <2>2. CASE ~(Len(key) > b)
    <3>1. Len(key) <= b /\ k = key
      BY <1>1, <2>2 DEF KeyOf
    <3> QED  BY <3>1 DEF wrap_key
  <2> QED  BY <2>1, <2>2
<1> HIDE DEF k
<1>4. n \in Nat /\ IsSeq(Zeros(n)) /\ Len(Zeros(n)) = n /\ \A i \in 1 .. n : Zeros(n)[i] = B(0)
  <2>1. n \in Nat
    BY <1>1, <1>2
  <2> HIDE DEF n
  <2>2. OfLength(Zeros(n), n) /\ \A i \in 1 .. n : Zeros(n)[i] = B(0)
    BY DEF OfLength, Zeros
  <2> QED  BY <2>1, <2>2, SeqFun
<1>5. IsSeq(e) /\ Len(e) = b /\ \A i \in 1 .. b : e[i] = IF i <= Len(k) THEN k[i] ELSE B(0)
  <2> DEFINE z == Zeros(n)
  <2>0. n + Len(k) = b
    BY <1>1, <1>2
  <2> HIDE DEF n
  <2>z. IsSeq(z) /\ Len(z) = n /\ n \in Nat /\ \A i \in 1 .. n : z[i] = B(0)
    BY <1>4
  <2> HIDE DEF z
  <2>1. /\ IsSeq(e) /\ Len(e) = Len(k) + Len(z)
        /\ \A i \in 1 .. Len(k) + Len(z) : e[i] = IF i <= Len(k) THEN k[i] ELSE z[i - Len(k)]
    BY <1>2, <2>z, SeqCat DEF z
  <2> HIDE DEF e
  <2>2. Len(k) + Len(z) = b
    BY <1>1, <1>2, <2>0, <2>z
  <2>3. ASSUME NEW i \in 1 .. b PROVE e[i] = IF i <= Len(k) THEN k[i] ELSE B(0)
    <3>1. CASE i <= Len(k)
      BY <2>1, <2>2, <3>1
    <3>2. CASE ~(i <= Len(k))
      <4>1. i - Len(k) \in 1 .. n
        BY <1>1, <1>2, <2>0, <2>z, <3>2
      <4> QED  BY <2>1, <2>2, <2>z, <3>2, <4>1
    <3> QED  BY <3>1, <3>2
  <2> QED  BY <2>1, <2>2, <2>3
<1> HIDE DEF e
<1>6. DOMAIN e = 1 .. b
  BY <1>5, SeqLen DEF OfLength
<1>7. xor_bytes_inplace(pad, e) = [i \in 1 .. b |-> <<pad, e[i]>>]
  BY <1>6 DEF xor_bytes_inplace
<1>8. [i \in 1 .. b |-> <<pad, e[i]>>]
        = [i \in 1 .. b |-> <<pad, IF i <= Len(k) THEN k[i] ELSE B(0)>>]
  BY <1>5
<1> QED  BY <1>3, <1>7, <1>8 DEF Under, k

(* The digest of the inner hash is read back from the pad's buffer.        *)
LEMMA FrontIs ==
  ASSUME NEW p, IsSeq(p), NEW q, IsSeq(q)
  PROVE  SubSeq(p \o q, 1, Len(p)) = p
<1> DEFINE e == p \o q
           n == Len(p)
           z == 0
           f == SubSeq(e, 1, n)
<1>1. n \in Nat /\ Len(q) \in Nat
  BY SeqLen
<1>2. IsSeq(e) /\ Len(e) = n + Len(q)
      /\ \A k \in 1 .. n + Len(q) : e[k] = IF k <= n THEN p[k] ELSE q[k - n]
  BY SeqCat
<1> HIDE DEF e
<1>3. z \in Nat /\ z <= n /\ n <= Len(e) /\ z + 1 = 1 /\ n - z = n
      /\ \A k \in 1 .. n : z + k = k
  BY <1>1, <1>2
<1> HIDE DEF z
<1>4. /\ IsSeq(SubSeq(e, z + 1, n)) /\ Len(SubSeq(e, z + 1, n)) = n - z
      /\ \A k \in 1 .. n - z : SubSeq(e, z + 1, n)[k] = e[z + k]
  <2> HIDE DEF n
  <2> QED  BY <1>1, <1>2, <1>3, SeqSub
<1>5. IsSeq(f) /\ Len(f) = n /\ \A k \in 1 .. n : f[k] = e[k]
  BY <1>3, <1>4
<1> HIDE DEF f
<1>6. \A k \in 1 .. Len(f) : f[k] = p[k]
  <2> HIDE DEF n
  <2> QED  BY <1>1, <1>2, <1>5
<1>7. f = p
  BY <1>5, <1>6, SeqEq
<1> QED  BY <1>7 DEF f, e, n

(* hmac computes the HMAC of the standard.                                 *)
LEMMA HmacIs ==
  ASSUME NEW x \in Alg, NEW key, IsSeq(key), NEW data, IsSeq(data), Counted(x, Len(key)),
         Counted(x, size_block[x] + Len(data)), Counted(x, size_block[x] + size_hash[x])
  PROVE  hmac(x, key, data) = HmacOf(x, key, data)
<1> DEFINE b == size_block[x]
           h == size_hash[x]
           k == KeyOf(x, key)
           ip == Under(x, k, "ipad")
           op == Under(x, k, "opad")
           in == HashOf(x, ip \o data)
           w == wrap_key(x, key)
           s == update(init(x), op)
           rest == SubSeq(ip, h + 1, b)
           one == 1
<1>1. b \in Nat \ {0} /\ h \in Nat /\ h <= b /\ size_len_8[x] \in Nat /\ size_len_8[x] + 1 < b
  BY Sizes
<1>2. xor_bytes_inplace("ipad", w) = ip /\ xor_bytes_inplace("opad", w) = op
  BY WrapIs
<1>3. IsSeq(ip) /\ Len(ip) = b /\ IsSeq(op) /\ Len(op) = b
  BY UnderIs
<1> HIDE DEF ip, op, w, k
<1>4. hash_block_and_rest(x, ip, data) = in
  <2>1. Len(ip \o data) = b + Len(data)
    BY <1>3, SeqCat
  <2>2. Len(ip \o data) \div size_block[x] < CounterWord[x]
    BY <2>1 DEF Counted
  <2> QED  BY <1>3, <2>2, BlockAndRestIs
<1>5. IsSeq(in) /\ Len(in) = h
  BY HashLen
<1> HIDE DEF in
<1>6. IsSeq(rest)
  BY <1>1, <1>3, SeqSub
<1> HIDE DEF rest
<1>7. SubSeq(in \o rest, 1, h) = in
  BY <1>5, <1>6, FrontIs
<1>8. hmac_core(x, w, data) = finish(update_last(s, SubSeq(in \o rest, 1, h)))
  <2>1. finish(update_last(update_multi(update(init(x), ip), data, Len(data) \div b),
                           SubSeq(data, (Len(data) \div b) * b + 1, Len(data)))) = in
    BY <1>4 DEF hash_block_and_rest
  <2> HIDE DEF s
  <2> QED  BY <1>2, <2>1 DEF hmac_core, rest, s
<1>9. s.alg = x /\ Fed(s, op, one) /\ one \in Nat
  BY <1>3, FedBlock
<1> HIDE DEF s, one
<1>10. finish(update_last(s, in)) = HashOf(x, op \o in)
  <2>1. LastFits(x, Len(in))
    BY <1>1, <1>5 DEF LastFits
  <2>2. Len(op \o in) = b + h
    BY <1>3, <1>5, SeqCat
  <2>3. Len(op \o in) \div size_block[x] < CounterWord[x]
    BY <2>2 DEF Counted
  <2>4. /\ s.alg \in Alg /\ LastFits(s.alg, Len(in))
        /\ Len(op \o in) \div size_block[s.alg] < CounterWord[s.alg]
    BY <1>9, <2>1, <2>3
  <2>5. finish(update_last(s, in)) = HashOf(s.alg, op \o in)
    BY <1>5, <1>9, <2>4, FedLast
  <2> QED  BY <1>9, <2>5
<1>11. hmac(x, key, data) = HashOf(x, op \o in)
  BY <1>7, <1>8, <1>10 DEF hmac, w
<1>12. HmacOf(x, key, data) = HashOf(x, op \o in)
  BY HmacOfIs DEF op, in, ip, k
<1> QED  BY <1>11, <1>12
-----------------------------------------------------------------------------
(* HKDF.                                                                   *)

(* The blocks of the reference, by recursion.                              *)
TOf(x, prk, info, n, g) ==
  g = [i \in 0 .. n |-> IF i = 0 THEN <<>> ELSE HmacOf(x, prk, g[i - 1] \o info \o <<B(i)>>)]

(* There are such blocks, up to any number,                                *)
LEMMA TExists ==
  ASSUME NEW x, NEW prk, NEW info, NEW n \in Nat
  PROVE  \E g : TOf(x, prk, info, n, g)
<1> DEFINE F(v, i) == HmacOf(x, prk, v \o info \o <<B(i)>>)
           R(m, g) == g = [i \in 0 .. m |-> IF i = 0 THEN <<>> ELSE F(g[i - 1], i)]
           I == {m \in Nat : \E g : R(m, g)}
<1> HIDE DEF F
<1>1. 0 \in I
  <2>1. R(0, [i \in 0 .. 0 |-> <<>>])
    OBVIOUS
  <2> QED  BY <2>1
<1>2. ASSUME NEW m \in Nat, m \in I PROVE m + 1 \in I
  <2>1. PICK g : R(m, g)
    BY <1>2
  <2> DEFINE f == [j \in 0 .. m + 1 |-> IF j <= m THEN g[j] ELSE F(g[m], m + 1)]
  <2>2. \A j \in 0 .. m : g[j] = IF j = 0 THEN <<>> ELSE F(g[j - 1], j)
    BY <2>1
  <2>3. ASSUME NEW j \in 0 .. m + 1
        PROVE  f[j] = IF j = 0 THEN <<>> ELSE F(f[j - 1], j)
    <3>1. CASE j = 0
      BY <2>2, <3>1
    <3>2. CASE j \in 1 .. m
      <4>1. f[j] = g[j] /\ f[j - 1] = g[j - 1] /\ j # 0
        BY <3>2
      <4> HIDE DEF f
      <4> QED  BY <2>2, <3>2, <4>1
    <3>3. CASE j = m + 1
      <4>1. f[m] = g[m] /\ f[m + 1] = F(g[m], m + 1) /\ j - 1 = m /\ j # 0
        BY <3>3
      <4> HIDE DEF f
      <4> QED  BY <3>3, <4>1
    <3> QED  BY <3>1, <3>2, <3>3
  <2>4. f = [j \in 0 .. m + 1 |-> f[j]]
    OBVIOUS
  <2> HIDE DEF f
  <2>5. R(m + 1, f)
    BY <2>3, <2>4
  <2> HIDE DEF R
  <2>6. m + 1 \in Nat
    OBVIOUS
  <2> QED  BY <2>5, <2>6
<1> HIDE DEF I
<1>3. n \in I
  BY <1>1, <1>2, SetInduction
<1> QED  BY <1>3 DEF I, R, F, TOf

(* and they do not depend on how many are wanted.                          *)
LEMMA TUnique ==
  ASSUME NEW x, NEW prk, NEW info, NEW m \in Nat, NEW n \in Nat, m <= n,
         NEW f, TOf(x, prk, info, m, f), NEW g, TOf(x, prk, info, n, g)
  PROVE  f[m] = g[m]
<1> DEFINE F(v, i) == HmacOf(x, prk, v \o info \o <<B(i)>>)
           I == {j \in Nat : j <= m => f[j] = g[j]}
<1>1. /\ \A j \in 0 .. m : f[j] = IF j = 0 THEN <<>> ELSE F(f[j - 1], j)
      /\ \A j \in 0 .. n : g[j] = IF j = 0 THEN <<>> ELSE F(g[j - 1], j)
  BY DEF TOf
<1> HIDE DEF F
<1>2. 0 \in I
  BY <1>1
<1>3. ASSUME NEW j \in Nat, j \in I PROVE j + 1 \in I
  <2> SUFFICES ASSUME j + 1 <= m PROVE f[j + 1] = g[j + 1]
    OBVIOUS
  <2>1. j + 1 \in 0 .. m /\ j + 1 \in 0 .. n /\ j + 1 # 0 /\ (j + 1) - 1 = j /\ f[j] = g[j]
    BY <1>3
  <2>2. f[j + 1] = F(f[j], j + 1) /\ g[j + 1] = F(g[j], j + 1)
    BY <1>1, <2>1
  <2> QED  BY <2>1, <2>2
<1> HIDE DEF I
<1>4. m \in I
  BY <1>2, <1>3, SetInduction
<1> QED  BY <1>4 DEF I

(* T(0) is empty, and each block is the HMAC of the one before.            *)
LEMMA BlockOfIs ==
  ASSUME NEW x, NEW prk, NEW info, NEW n \in Nat
  PROVE  /\ BlockOf(x, prk, info, 0) = <<>>
         /\ BlockOf(x, prk, info, n + 1)
              = HmacOf(x, prk, BlockOf(x, prk, info, n) \o info \o <<B(n + 1)>>)
<1> DEFINE T(m) == CHOOSE g : TOf(x, prk, info, m, g)
           F(v, i) == HmacOf(x, prk, v \o info \o <<B(i)>>)
<1>1. \A m \in Nat : BlockOf(x, prk, info, m) = T(m)[m]
  BY DEF BlockOf, TOf
<1>2. ASSUME NEW m \in Nat PROVE TOf(x, prk, info, m, T(m))
  BY TExists
<1> HIDE DEF T
<1>3. T(0)[0] = <<>>
  <2>1. TOf(x, prk, info, 0, T(0))
    BY <1>2
  <2> DEFINE g == T(0)
  <2>2. g = [i \in 0 .. 0 |-> IF i = 0 THEN <<>> ELSE F(g[i - 1], i)]
    BY <2>1 DEF TOf
  <2> HIDE DEF g, F
  <2>3. g[0] = <<>>
    BY <2>2
  <2> QED  BY <2>3 DEF g
<1>4. T(n + 1)[n + 1] = F(T(n + 1)[n], n + 1)
  <2> DEFINE g == T(n + 1)
  <2>1. TOf(x, prk, info, n + 1, g)
    BY <1>2
  <2>2. g = [i \in 0 .. n + 1 |-> IF i = 0 THEN <<>> ELSE F(g[i - 1], i)]
    BY <2>1 DEF TOf
  <2>3. n + 1 \in 0 .. n + 1 /\ n + 1 # 0 /\ (n + 1) - 1 = n
    OBVIOUS
  <2> HIDE DEF g, F
  <2>4. g[n + 1] = F(g[n], n + 1)
    BY <2>2, <2>3
  <2> QED  BY <2>4 DEF g
<1>5. T(n + 1)[n] = T(n)[n]
  <2> DEFINE f == T(n)
             g == T(n + 1)
             m == n + 1
  <2>1. m \in Nat /\ n <= m /\ TOf(x, prk, info, n, f) /\ TOf(x, prk, info, m, g)
    BY <1>2
  <2> HIDE DEF f, g, m
  <2>2. f[n] = g[n]
    BY <2>1, TUnique
  <2> QED  BY <2>2 DEF f, g
<1>6. n + 1 \in Nat /\ 0 \in Nat
  OBVIOUS
<1> QED  BY <1>1, <1>3, <1>4, <1>5, <1>6

(* Every block is a digest.                                                *)
LEMMA BlockOfLen ==
  ASSUME NEW x \in Alg, NEW prk, NEW info, NEW n \in Nat
  PROVE  /\ IsSeq(BlockOf(x, prk, info, n + 1))
         /\ Len(BlockOf(x, prk, info, n + 1)) = size_hash[x]
<1> DEFINE v == BlockOf(x, prk, info, n) \o info \o <<B(n + 1)>>
           k == KeyOf(x, prk)
           u == Under(x, k, "opad") \o HashOf(x, Under(x, k, "ipad") \o v)
<1>1. BlockOf(x, prk, info, n + 1) = HmacOf(x, prk, v)
  BY BlockOfIs
<1>2. HmacOf(x, prk, v) = HashOf(x, u)
  BY HmacOfIs
<1> HIDE DEF u, v, k
<1> QED  BY <1>1, <1>2, HashLen
(* The reference is a string of the length wanted.                         *)
LEMMA HkdfLen ==
  ASSUME NEW x, NEW prk, NEW info, NEW n \in Nat
  PROVE  IsSeq(HkdfOf(x, prk, info, n)) /\ Len(HkdfOf(x, prk, info, n)) = n
<1>1. OfLength(HkdfOf(x, prk, info, n), n)
  BY DEF HkdfOf, OfLength
<1> QED  BY <1>1, SeqFun

(* What is cut from the reference is the reference.                        *)
LEMMA HkdfCut ==
  ASSUME NEW x, NEW prk, NEW info, NEW n \in Nat, NEW l \in 0 .. n
  PROVE  SubSeq(HkdfOf(x, prk, info, n), 1, l) = HkdfOf(x, prk, info, l)
<1> DEFINE p == HkdfOf(x, prk, info, n)
           q == HkdfOf(x, prk, info, l)
           e == SubSeq(p, 1, l)
           z == 0
<1>1. IsSeq(p) /\ Len(p) = n /\ IsSeq(q) /\ Len(q) = l /\ l \in Nat
  BY HkdfLen
<1>2. \A k \in 1 .. l : p[k] = q[k]
  BY DEF HkdfOf
<1> HIDE DEF p, q
<1>3. z \in Nat /\ z <= l /\ l <= Len(p) /\ z + 1 = 1 /\ l - z = l
      /\ \A k \in 1 .. l : z + k = k
  BY <1>1
<1> HIDE DEF z
<1>4. /\ IsSeq(SubSeq(p, z + 1, l)) /\ Len(SubSeq(p, z + 1, l)) = l - z
      /\ \A k \in 1 .. l - z : SubSeq(p, z + 1, l)[k] = p[z + k]
  BY <1>1, <1>3, SeqSub
<1>5. IsSeq(e) /\ Len(e) = l /\ \A k \in 1 .. l : e[k] = p[k]
  BY <1>3, <1>4
<1> HIDE DEF e
<1>6. e = q
  BY <1>1, <1>2, <1>5, SeqEq
<1> QED  BY <1>6 DEF e, p, q

(* One block more.                                                         *)
LEMMA HkdfNext ==
  ASSUME NEW x \in Alg, NEW prk, NEW info, NEW i \in Nat
  PROVE  HkdfOf(x, prk, info, i * size_hash[x]) \o BlockOf(x, prk, info, i + 1)
           = HkdfOf(x, prk, info, (i + 1) * size_hash[x])
<1> DEFINE h == size_hash[x]
           n == i * h
           m == (i + 1) * h
           p == HkdfOf(x, prk, info, n)
           q == HkdfOf(x, prk, info, m)
           b == BlockOf(x, prk, info, i + 1)
           e == p \o b
           C(k) == BlockOf(x, prk, info, (k - 1) \div h + 1)[((k - 1) % h) + 1]
<1>1. h \in Nat \ {0}
  BY Sizes
<1>p. p = [k \in 1 .. n |-> C(k)] /\ q = [k \in 1 .. m |-> C(k)]
  BY DEF HkdfOf
<1>c. \A k \in Nat \ {0} : C(k) = BlockOf(x, prk, info, (k - 1) \div h + 1)[((k - 1) % h) + 1]
  OBVIOUS
<1> HIDE DEF h, C
<1>2. n \in Nat /\ m \in Nat /\ m = n + h
  BY <1>1
<1>n. n = i * h
  OBVIOUS
<1>3. IsSeq(b) /\ Len(b) = h
  BY BlockOfLen DEF h
<1> HIDE DEF b, n, m
<1>4. IsSeq(p) /\ Len(p) = n /\ IsSeq(q) /\ Len(q) = m
  BY <1>2, HkdfLen
<1> HIDE DEF p, q
<1>5. IsSeq(e) /\ Len(e) = n + h
      /\ \A k \in 1 .. n + h : e[k] = IF k <= n THEN p[k] ELSE b[k - n]
  <2> HIDE DEF e
  <2>1. /\ IsSeq(e) /\ Len(e) = Len(p) + Len(b)
        /\ \A k \in 1 .. Len(p) + Len(b) : e[k] = IF k <= Len(p) THEN p[k] ELSE b[k - Len(p)]
    BY <1>3, <1>4, SeqCat DEF e
  <2> QED  BY <1>3, <1>4, <2>1
<1> HIDE DEF e
<1>6. ASSUME NEW k \in 1 .. m PROVE e[k] = q[k]
  <2>1. CASE k <= n
    <3>1. k \in 1 .. n /\ k \in 1 .. n + h
      BY <1>1, <1>2, <2>1
    <3> QED  BY <1>p, <1>5, <2>1, <3>1
  <2>2. CASE ~(k <= n)
    <3> DEFINE o == k - n - 1
               j == k - 1
    <3>1. o \in Nat /\ o < h /\ j \in Int /\ k \in 1 .. n + h /\ k - n = o + 1
      BY <1>1, <1>2, <2>2
    <3>2. j = i * h + o
      BY <1>2, <1>n
    <3> HIDE DEF o, j
    <3>3. j \div h = i /\ j % h = o
      BY <1>1, <3>1, <3>2, DivMod
    <3>4. C(k) = BlockOf(x, prk, info, i + 1)[o + 1]
      BY <1>c, <3>3 DEF j
    <3>5. e[k] = b[o + 1]
      BY <1>5, <2>2, <3>1
    <3> QED  BY <1>p, <3>4, <3>5 DEF b
  <2> QED  BY <2>1, <2>2
<1>7. e = q
  BY <1>2, <1>4, <1>5, <1>6, SeqEq
<1> QED  BY <1>7 DEF e, p, q, b, n, m, h

(* The inputs hkdf_expand may be called with.                              *)
ExpandFits(x, prk, info) ==
  /\ IsSeq(prk) /\ IsSeq(info) /\ Counted(x, Len(prk))
  /\ Counted(x, size_block[x] + size_hash[x] + Len(info) + 1)

(* The i-th step computes the i-th block.                                  *)
LEMMA TilIs ==
  ASSUME NEW x \in Alg, NEW prk, NEW info, ExpandFits(x, prk, info), NEW i \in 1 .. 255,
         NEW ti, i # 1 => ti = BlockOf(x, prk, info, i - 1)
  PROVE  hmac(x, prk, hkdf_til(x, info, ti, i)) = BlockOf(x, prk, info, i)
<1> DEFINE b == size_block[x]
           h == size_hash[x]
           one == <<B(i)>>
           v == BlockOf(x, prk, info, i - 1) \o info
           til == hkdf_til(x, info, ti, i)
           j == i - 1
<1>0. b \in Nat /\ h \in Nat /\ Len(info) \in Nat /\ IsSeq(info) /\ IsSeq(prk)
  BY Sizes, SeqLen DEF ExpandFits
<1>1. IsSeq(one) /\ Len(one) = 1
  BY SeqOne
<1>j. j \in Nat /\ j + 1 = i
  OBVIOUS
<1>e. i = 1 => v = info
  <2>1. SUFFICES ASSUME i = 1 PROVE v = info
    OBVIOUS
  <2>2. i - 1 = 0 /\ 0 \in Nat
    BY <2>1
  <2>3. BlockOf(x, prk, info, 0) = <<>>
    BY <2>2, BlockOfIs
  <2>4. BlockOf(x, prk, info, i - 1) = <<>>
    BY <2>2, <2>3
  <2>5. <<>> \o info = info
    BY <1>0, EmptyCat
  <2> QED  BY <2>4, <2>5
<1>2. til = v \o one
  <2>1. CASE i = 1
    <3>1. v = info
      BY <1>e, <2>1
    <3>2. til = info \o one
      BY <2>1 DEF hkdf_til
    <3> QED  BY <3>1, <3>2
  <2>2. CASE i # 1
    <3>1. i % 256 = i
      OBVIOUS
    <3> QED  BY <2>2, <3>1 DEF hkdf_til
  <2> QED  BY <2>1, <2>2
<1>3. IsSeq(v) /\ Len(v) \in Nat /\ Len(v) <= h + Len(info)
  <2>1. CASE i = 1
    <3>1. v = info
      BY <1>e, <2>1
    <3> HIDE DEF v, h
    <3>2. Len(info) <= h + Len(info)
      BY <1>0
    <3> QED  BY <1>0, <3>1, <3>2
  <2>2. CASE i # 1
    <3> DEFINE l == i - 2
               u == BlockOf(x, prk, info, i - 1)
    <3>1. l \in Nat /\ l + 1 = i - 1
      BY <2>2
    <3> HIDE DEF l
    <3>2. IsSeq(u) /\ Len(u) = h
      BY <3>1, BlockOfLen
    <3> HIDE DEF u, h
    <3>3. IsSeq(u \o info) /\ Len(u \o info) = Len(u) + Len(info)
      BY <1>0, <3>2, SeqCat
    <3>4. Len(u) + Len(info) \in Nat /\ Len(u) + Len(info) <= h + Len(info)
      BY <1>0, <3>2
    <3>5. v = u \o info
      BY DEF u
    <3> HIDE DEF v
    <3> QED  BY <3>3, <3>4, <3>5
  <2> QED  BY <2>1, <2>2
<1> HIDE DEF v, one, til
<1>4. IsSeq(til) /\ Len(til) = Len(v) + 1
  <2>1. IsSeq(v \o one) /\ Len(v \o one) = Len(v) + Len(one)
    BY <1>1, <1>3, SeqCat
  <2> QED  BY <1>1, <1>2, <2>1
<1>5. hmac(x, prk, til) = HmacOf(x, prk, til)
  <2> DEFINE n == b + h + Len(info) + 1
             m == b + Len(til)
             l == b + h
  <2>0. Counted(x, n)
    BY DEF ExpandFits
  <2> HIDE DEF b, h
  <2>1. n \in Nat /\ m \in Nat /\ m <= n /\ l \in Nat /\ l <= n
    BY <1>0, <1>3, <1>4
  <2> HIDE DEF n, m, l
  <2>2. Counted(x, m) /\ Counted(x, l) /\ Counted(x, Len(prk))
    BY <2>0, <2>1, CountedLess DEF ExpandFits
  <2> QED  BY <1>0, <1>4, <2>2, HmacIs DEF m, l, b, h
<1>6. BlockOf(x, prk, info, i) = HmacOf(x, prk, v \o one)
  <2> HIDE DEF j
  <2>1. BlockOf(x, prk, info, j + 1)
          = HmacOf(x, prk, BlockOf(x, prk, info, j) \o info \o <<B(j + 1)>>)
    BY <1>j, BlockOfIs
  <2> QED  BY <1>j, <2>1 DEF v, one, j
<1> QED  BY <1>2, <1>5, <1>6 DEF til
(* hkdf_expand computes the HKDF of the standard.                          *)
LEMMA ExpandIs ==
  ASSUME NEW x \in Alg, NEW prk, NEW info, ExpandFits(x, prk, info),
         NEW len \in 0 .. 255 * size_hash[x]
  PROVE  hkdf_expand(x, prk, info, len) = HkdfOf(x, prk, info, len)
<1> DEFINE h == size_hash[x]
           n == len \div h + (IF len % h = 0 THEN 0 ELSE 1)
           s0 == [ti |-> Zeros(h), t |-> <<>>]
           F(v, i) == hkdf_expand_inner(x, prk, info, v, i)
           Eq(f) == f = [i \in 0 .. n |-> IF i = 0 THEN s0 ELSE F(f[i - 1], i)]
           f == CHOOSE r : Eq(r)
           L(i) == [ti |-> BlockOf(x, prk, info, i), t |-> HkdfOf(x, prk, info, i * h)]
           G(i) == IF i = 0 THEN s0 ELSE L(i)
           g == [i \in 0 .. n |-> G(i)]
           I == {j \in Nat : j <= n => f[j] = g[j]}
<1>0. hkdf_expand(x, prk, info, len) = SubSeq(f[n].t, 1, len)
  BY DEF hkdf_expand
<1>1. h \in Nat \ {0} /\ len \in Nat /\ len <= 255 * h
  BY Sizes
<1>z. HkdfOf(x, prk, info, 0) = <<>>
  <2>1. IsSeq(HkdfOf(x, prk, info, 0)) /\ Len(HkdfOf(x, prk, info, 0)) = 0
    BY HkdfLen
  <2>2. \A k \in 1 .. 0 : HkdfOf(x, prk, info, 0)[k] = <<>>[k]
    OBVIOUS
  <2> QED  BY <2>1, <2>2, SeqEmpty, SeqEq
<1> HIDE DEF h, F
<1>2. n \in Nat /\ len <= n * h /\ n <= 255
  <2> DEFINE q == len \div h
             o == len % h
  <2>1. q \in Nat /\ o \in 0 .. h - 1 /\ len = q * h + o
    BY <1>1
  <2>2. n = IF o = 0 THEN q ELSE q + 1
    BY <2>1
  <2> HIDE DEF q, o, n
  <2>3. CASE o = 0
    <3>1. n = q /\ len = q * h
      BY <1>1, <2>1, <2>2, <2>3
    <3>2. q <= 255
      <4>1. SUFFICES ASSUME 256 <= q PROVE FALSE
        BY <2>1
      <4>2. 256 * h <= q * h
        BY <1>1, <2>1, <4>1
      <4> QED  BY <1>1, <3>1, <4>2
    <3> QED  BY <1>1, <2>1, <3>1, <3>2
  <2>4. CASE o # 0
    <3>1. n = q + 1 /\ (q + 1) * h = q * h + h
      BY <1>1, <2>1, <2>2, <2>4
    <3> DEFINE y == q * h
    <3>2. y \in Nat /\ len = y + o
      BY <1>1, <2>1
    <3>3. q <= 254
      <4>1. SUFFICES ASSUME 255 <= q PROVE FALSE
        BY <2>1
      <4>2. 255 * h <= y
        BY <1>1, <2>1, <4>1
      <4> HIDE DEF y
      <4> QED  BY <1>1, <2>1, <2>4, <3>2, <4>2
    <3>4. n * h = y + h
      BY <3>1
    <3> HIDE DEF y
    <3>5. len <= y + h
      BY <1>1, <2>1, <3>2
    <3> QED  BY <2>1, <3>1, <3>3, <3>4, <3>5
  <2> QED  BY <2>3, <2>4
<1> HIDE DEF n
<1>3. ASSUME NEW i \in 1 .. n PROVE G(i) = F(G(i - 1), i)
  <2> DEFINE p == G(i - 1)
             j == i - 1
  <2>1. i \in 1 .. 255 /\ j \in Nat /\ j + 1 = i /\ i # 0
    BY <1>2
  <2>2. p.t = HkdfOf(x, prk, info, j * h) /\ (i # 1 => p.ti = BlockOf(x, prk, info, i - 1))
    <3>1. CASE i = 1
      <4>1. p.t = <<>> /\ j * h = 0
        BY <1>1, <3>1
      <4> QED  BY <1>z, <3>1, <4>1
    <3>2. CASE i # 1
      <4>1. i - 1 # 0
        BY <3>2
      <4>2. p = L(j)
        BY <4>1
      <4> HIDE DEF p
      <4> QED  BY <4>2
    <3> QED  BY <3>1, <3>2
  <2> HIDE DEF p, G
  <2>3. hmac(x, prk, hkdf_til(x, info, p.ti, i)) = BlockOf(x, prk, info, i)
    BY <2>1, <2>2, TilIs
  <2> HIDE DEF j
  <2>4. HkdfOf(x, prk, info, j * h) \o BlockOf(x, prk, info, j + 1)
            = HkdfOf(x, prk, info, (j + 1) * h)
    BY <2>1, HkdfNext DEF h
  <2>5. F(p, i) = [ti |-> BlockOf(x, prk, info, i), t |-> p.t \o BlockOf(x, prk, info, i)]
    BY <2>3 DEF F, hkdf_expand_inner
  <2>6. F(p, i) = L(i)
    BY <2>1, <2>2, <2>4, <2>5
  <2>7. G(i) = L(i)
    BY <2>1 DEF G
  <2> QED  BY <2>6, <2>7 DEF p
<1>4. G(0) = s0 /\ G(n).t = HkdfOf(x, prk, info, n * h)
  <2>1. G(0) = s0
    OBVIOUS
  <2>2. CASE n = 0
    <3>1. n * h = 0
      BY <1>1, <2>2
    <3>2. G(n).t = <<>>
      BY <2>2
    <3> QED  BY <1>z, <2>1, <3>1, <3>2
  <2>3. CASE n # 0
    <3>1. G(n) = L(n)
      BY <2>3
    <3> HIDE DEF G
    <3>2. G(n).t = HkdfOf(x, prk, info, n * h)
      BY <3>1
    <3> QED  BY <2>1, <3>2
  <2> QED  BY <2>2, <2>3
<1> HIDE DEF G, s0
<1>5. g[0] = s0 /\ g[n] = G(n) /\ \A j \in 1 .. n : g[j] = F(g[j - 1], j)
  <2>1. 0 \in 0 .. n /\ n \in 0 .. n
    BY <1>2
  <2>2. g[0] = G(0) /\ g[n] = G(n)
    BY <2>1
  <2>3. ASSUME NEW j \in 1 .. n PROVE g[j] = F(g[j - 1], j)
    <3>1. g[j] = G(j) /\ g[j - 1] = G(j - 1)
      BY <1>2
    <3> HIDE DEF g
    <3> QED  BY <1>3, <3>1
  <2> QED  BY <1>4, <2>2, <2>3
<1>6. Eq(g)
  <2>1. g = [i \in 0 .. n |-> g[i]]
    OBVIOUS
  <2> HIDE DEF g
  <2>2. \A i \in 0 .. n : g[i] = IF i = 0 THEN s0 ELSE F(g[i - 1], i)
    <3>1. \A i \in 0 .. n : i = 0 \/ i \in 1 .. n
      BY <1>2
    <3> QED  BY <1>5, <3>1
  <2> QED  BY <2>1, <2>2
<1> HIDE DEF g
<1>7. Eq(f)
  BY <1>6, Zenon
<1> HIDE DEF f
<1>8. 0 \in I
  BY <1>2, <1>5, <1>7
<1>9. ASSUME NEW j \in Nat, j \in I PROVE j + 1 \in I
  <2> SUFFICES ASSUME j + 1 <= n PROVE f[j + 1] = g[j + 1]
    OBVIOUS
  <2>1. j + 1 \in 1 .. n /\ j + 1 \in 0 .. n /\ j + 1 # 0 /\ (j + 1) - 1 = j /\ f[j] = g[j]
    BY <1>2, <1>9
  <2>2. f[j + 1] = F(f[j], j + 1)
    BY <1>7, <2>1
  <2>3. g[j + 1] = F(g[j], j + 1)
    BY <1>5, <2>1
  <2> QED  BY <2>1, <2>2, <2>3
<1> HIDE DEF I
<1>10. n \in I
  BY <1>2, <1>8, <1>9, SetInduction
<1>11. f[n].t = HkdfOf(x, prk, info, n * h)
  BY <1>2, <1>4, <1>5, <1>10 DEF I
<1>12. SubSeq(f[n].t, 1, len) = HkdfOf(x, prk, info, len)
  <2> DEFINE m == n * h
  <2>1. m \in Nat /\ len \in 0 .. m
    BY <1>1, <1>2
  <2> HIDE DEF m
  <2>2. SubSeq(HkdfOf(x, prk, info, m), 1, len) = HkdfOf(x, prk, info, len)
    BY <2>1, HkdfCut
  <2> QED  BY <1>11, <2>2 DEF m
<1> QED  BY <1>0, <1>12
-----------------------------------------------------------------------------
(* The one-shot calls.                                                     *)

(* Byte strings are sequences.                                             *)
LEMMA StringSeq ==
  ASSUME NEW d, String(d)
  PROVE  IsSeq(d) /\ Len(d) \in Nat
BY SeqFun DEF String

(* A hash, an HMAC or a key stream asked for at once.                      *)
LEMMA OnceIs ==
  ASSUME NEW c \in Calls, c.alg \notin Weak
  PROVE  /\ hash(c.alg, c.data) = HashOf(c.alg, c.data)
         /\ hmac(c.alg, c.key, c.data) = HmacOf(c.alg, c.key, c.data)
         /\ hkdf_expand(c.alg, c.key, c.data, c.len) = HkdfOf(c.alg, c.key, c.data, c.len)
<1> DEFINE x == c.alg
           key == c.key
           data == c.data
           len == c.len
           b == size_block[x]
           h == size_hash[x]
           n == b + h + Len(data) + 1
           m == b + Len(data)
           l == b + h
<1>1. /\ x \in Alg /\ String(key) /\ String(data) /\ len \in 0 .. 255 * size_hash[x]
      /\ Counted(x, Len(key)) /\ Counted(x, n)
  BY CallsAssumption
<1> HIDE DEF x, key, data, len
<1>2. IsSeq(key) /\ IsSeq(data) /\ Len(data) \in Nat
  BY <1>1, StringSeq
<1>3. b \in Nat /\ h \in Nat
  BY <1>1, Sizes
<1>4. ExpandFits(x, key, data)
  BY <1>1, <1>2 DEF ExpandFits
<1> HIDE DEF b, h
<1>5. n \in Nat /\ m \in Nat /\ l \in Nat /\ m <= n /\ l <= n /\ Len(data) <= n
  BY <1>2, <1>3
<1> HIDE DEF n, m, l
<1>6. Counted(x, m) /\ Counted(x, l) /\ Counted(x, Len(data))
  BY <1>1, <1>2, <1>5, CountedLess
<1>7. hash(x, data) = HashOf(x, data)
  BY <1>1, <1>2, <1>6, HashIs DEF Counted
<1>8. hmac(x, key, data) = HmacOf(x, key, data)
  BY <1>1, <1>2, <1>6, HmacIs DEF m, l, b, h
<1>9. hkdf_expand(x, key, data, len) = HkdfOf(x, key, data, len)
  BY <1>1, <1>4, ExpandIs
<1> QED  BY <1>7, <1>8, <1>9 DEF x, key, data, len

(* The two prefixed hashes.                                                *)
LEMMA PrefixedIs ==
  ASSUME NEW c \in Prefixed
  PROVE  /\ sha512_pre_msg(c.alg, c.pre, c.data) = HashOf(c.alg, c.pre \o c.data)
         /\ sha512_pre_pre2_msg(c.alg, c.pre, c.pre2, c.data)
              = HashOf(c.alg, c.pre \o c.pre2 \o c.data)
<1> DEFINE x == c.alg
           p == c.pre
           q == c.pre2
           d == c.data
           e == p \o q
<1>1. /\ x \in Alg /\ String(p) /\ String(q) /\ String(d)
      /\ Len(p) + Len(q) <= size_block[x] /\ Counted(x, Len(p) + Len(q) + Len(d))
  BY CallsAssumption
<1> HIDE DEF x, p, q, d
<1>2. /\ IsSeq(p) /\ IsSeq(q) /\ IsSeq(d) /\ size_block[x] \in Nat
      /\ Len(p) \in Nat /\ Len(q) \in Nat /\ Len(d) \in Nat
  BY <1>1, StringSeq, Sizes
<1>3. IsSeq(e) /\ Len(e) = Len(p) + Len(q)
  BY <1>2, SeqCat
<1> HIDE DEF e
<1>4. sha512_pre_msg(x, p, d) = HashOf(x, p \o d)
  <2> DEFINE n == Len(p) + Len(q) + Len(d)
             m == Len(p) + Len(d)
  <2>1. n \in Nat /\ m \in Nat /\ m <= n /\ Len(p) <= size_block[x]
    BY <1>1, <1>2
  <2>2. Counted(x, n)
    BY <1>1
  <2> HIDE DEF n, m
  <2>3. Counted(x, m)
    BY <1>1, <2>1, <2>2, CountedLess
  <2> QED  BY <1>1, <1>2, <2>1, <2>3, PrefixIs DEF m
<1>5. sha512_pre_msg(x, e, d) = HashOf(x, e \o d)
  <2>1. Len(e) <= size_block[x] /\ Counted(x, Len(e) + Len(d))
    BY <1>1, <1>3
  <2> QED  BY <1>1, <1>2, <1>3, <2>1, PrefixIs
<1>6. sha512_pre_pre2_msg(x, p, q, d) = HashOf(x, (p \o q) \o d)
  BY <1>5 DEF sha512_pre_pre2_msg, e
<1> QED  BY <1>4, <1>6 DEF x, p, q, d

(* hash, hmac, hkdf_expand and the prefixed hashes compute the hashes,     *)
(* HMACs and HKDFs of the standards, whatever the lengths of their inputs. *)
THEOREM OneShotsAreStandard == Spec => []CallsAreStandard
<1>1. Init => CallsAreStandard
  <2> SUFFICES ASSUME Init PROVE CallsAreStandard
    OBVIOUS
  <2>1. Len(call) = 0
    BY DEF Init, Fail
  <2> QED  BY <2>1 DEF CallsAreStandard, PrefixedIsHash
<1>2. CallsAreStandard /\ [Next]_vars => CallsAreStandard'
  <2> SUFFICES ASSUME CallsAreStandard, [Next]_vars PROVE CallsAreStandard'
    OBVIOUS
  <2>1. CASE UNCHANGED call
    BY <2>1 DEF CallsAreStandard, PrefixedIsHash
  <2>2. ASSUME NEW c \in Calls, CallOnce(c) PROVE CallsAreStandard'
    <3>1. CASE c.alg \in Weak
      <4>1. Len(call') = 1
        BY <2>2, <3>1 DEF CallOnce
      <4> QED  BY <4>1 DEF CallsAreStandard, PrefixedIsHash
    <3>2. CASE c.alg \notin Weak
      <4> DEFINE u == HashOf(c.alg, c.data)
                 v == HmacOf(c.alg, c.key, c.data)
                 w == HkdfOf(c.alg, c.key, c.data, c.len)
      <4>1. call' = <<"done", c, u, v, w>>
        BY <2>2, <3>2, OnceIs DEF CallOnce
      <4> HIDE DEF u, v, w
      <4>2. Len(call') = 5 /\ call'[2] = c /\ call'[3] = u /\ call'[4] = v /\ call'[5] = w
        BY <4>1
      <4> QED  BY <4>2 DEF CallsAreStandard, PrefixedIsHash, u, v, w
    <3> QED  BY <3>1, <3>2
  <2>3. ASSUME NEW c \in Prefixed, CallPrefixed(c.alg, c.pre, c.pre2, c.data)
        PROVE  CallsAreStandard'
    <3> DEFINE r == [alg |-> c.alg, pre |-> c.pre, pre2 |-> c.pre2, data |-> c.data]
               u == HashOf(c.alg, c.pre \o c.data)
               v == HashOf(c.alg, c.pre \o c.pre2 \o c.data)
    <3>1. call' = <<"prefixed", r, u, v>>
      BY <2>3, PrefixedIs DEF CallPrefixed
    <3>2. r.alg = c.alg /\ r.pre = c.pre /\ r.pre2 = c.pre2 /\ r.data = c.data
      OBVIOUS
    <3> HIDE DEF r, u, v
    <3>3. Len(call') = 4 /\ call'[2] = r /\ call'[3] = u /\ call'[4] = v
      BY <3>1
    <3> QED  BY <3>2, <3>3 DEF CallsAreStandard, PrefixedIsHash, u, v
  <2>4. \/ UNCHANGED call \/ \E c \in Calls : CallOnce(c)
        \/ \E c \in Prefixed : CallPrefixed(c.alg, c.pre, c.pre2, c.data)
    BY DEF Next, vars, Stream, Schedule, scheduling, CallInit, CallUpdate, CallUpdateMulti,
           CallUpdateLast, CallFinish, CallPlaintextSecrets, CallDeriveSecret, CallDeriveKey
  <2> QED  BY <2>1, <2>2, <2>3, <2>4
<1> QED  BY <1>1, <1>2, PTL DEF Spec
=============================================================================
