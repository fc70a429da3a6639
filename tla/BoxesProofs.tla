---------------------------- MODULE BoxesProofs -----------------------------
(***************************************************************************)
(* Proofs about Boxes, for every set of parties, nonces, additional data   *)
(* and lengths, and every size of blocks, keys and tags.                   *)
(***************************************************************************)
EXTENDS Boxes, Induction, FiniteSetTheorems, FunctionTheorems

-----------------------------------------------------------------------------
(* Sequences of pieces.                                                    *)

(* The place of a byte among pieces of b bytes.                            *)
LEMMA PlaceIs ==
  ASSUME NEW b \in Nat \ {0}, NEW k \in Nat \ {0}
  PROVE  /\ (k - 1) \div b \in Nat /\ ((k - 1) % b) + 1 \in 1 .. b
         /\ k = ((k - 1) \div b) * b + (((k - 1) % b) + 1)
<1> DEFINE l == k - 1
<1>1. l \in Nat
  OBVIOUS
<1>2. l \div b \in Nat /\ l % b \in 0 .. b - 1 /\ l = (l \div b) * b + (l % b)
  BY <1>1
<1> DEFINE c == l \div b
           y == c * b
           o == l % b
<1>3. y \in Nat /\ o + 1 \in 1 .. b /\ k = y + (o + 1)
  <2>1. c * b \in Nat
    BY <1>2
  <2> HIDE DEF o, y, c
  <2> QED  BY <1>1, <1>2, <2>1 DEF o, y, c
<1> QED  BY <1>2, <1>3

(* It is determined by its piece and its place in it.                      *)
LEMMA PlaceOf ==
  ASSUME NEW b \in Nat \ {0}, NEW c \in Nat, NEW j \in 1 .. b
  PROVE  /\ c * b + j \in Nat \ {0}
         /\ (c * b + j - 1) \div b = c /\ (((c * b + j) - 1) % b) + 1 = j
<1> DEFINE y == c * b
           o == j - 1
           x == y + j - 1
<1>1. y \in Nat /\ o \in Nat /\ o < b
  OBVIOUS
<1>2. x = c * b + o /\ x \in Int /\ c \in Int
  BY <1>1
<1> HIDE DEF x, o
<1>3. x \div b = c /\ x % b = o
  BY <1>1, <1>2, DivMod
<1> HIDE DEF y
<1>4. y + j \in Nat \ {0} /\ (y + j) - 1 = y + j - 1 /\ (j - 1) + 1 = j
  BY <1>1
<1> QED  BY <1>3, <1>4 DEF x, o, y

(* The pieces of q, m of them, one after the other.                        *)
Flat(q, b, m) == [k \in 1 .. m * b |-> q[((k - 1) \div b) + 1][((k - 1) % b) + 1]]

(* q is n pieces of b elements.                                            *)
Pieces(q, n, b) ==
  IsSeq(q) /\ Len(q) = n /\ \A i \in 1 .. n : IsSeq(q[i]) /\ Len(q[i]) = b

LEMMA FlatLen ==
  ASSUME NEW q, NEW b \in Nat \ {0}, NEW m \in Nat
  PROVE  IsSeq(Flat(q, b, m)) /\ Len(Flat(q, b, m)) = m * b
<1> DEFINE n == m * b
           f == Flat(q, b, m)
<1>1. n \in Nat
  OBVIOUS
<1>2. f = [k \in 1 .. n |-> f[k]]
  BY DEF Flat
<1> HIDE DEF n, f
<1>3. IsSeq(f) /\ Len(f) = n
  BY <1>1, <1>2, FunSeq
<1> QED  BY <1>3 DEF n, f

(* One piece more.                                                         *)
LEMMA FlatNext ==
  ASSUME NEW q, NEW n \in Nat, NEW b \in Nat \ {0}, Pieces(q, n, b), NEW m \in Nat, m < n
  PROVE  Flat(q, b, m) \o q[m + 1] = Flat(q, b, m + 1)
<1> DEFINE u == Flat(q, b, m)
           v == q[m + 1]
           w == Flat(q, b, m + 1)
           s == u \o v
           y == m * b
           z == (m + 1) * b
<1>1. IsSeq(u) /\ Len(u) = y /\ IsSeq(w) /\ Len(w) = z
  BY FlatLen
<1>2. IsSeq(v) /\ Len(v) = b
  BY DEF Pieces
<1>3. y \in Nat /\ z = y + b
  OBVIOUS
<1>4. /\ \A k \in 1 .. y : u[k] = q[((k - 1) \div b) + 1][((k - 1) % b) + 1]
      /\ \A k \in 1 .. z : w[k] = q[((k - 1) \div b) + 1][((k - 1) % b) + 1]
  BY DEF Flat
<1>5. \A j \in 1 .. b : (y + j - 1) \div b = m /\ (((y + j) - 1) % b) + 1 = j
  BY PlaceOf
<1> HIDE DEF u, v, w, y, z
<1>6. IsSeq(s) /\ Len(s) = y + b /\ \A k \in 1 .. y + b : s[k] = IF k <= y THEN u[k] ELSE v[k - y]
  BY <1>1, <1>2, SeqCat
<1> HIDE DEF s
<1>7. ASSUME NEW k \in 1 .. y + b PROVE s[k] = w[k]
  <2>1. CASE k <= y
    <3>1. k \in 1 .. y /\ k \in 1 .. z
      BY <1>3, <2>1
    <3> QED  BY <1>4, <1>6, <2>1, <3>1
  <2>2. CASE ~(k <= y)
    <3> DEFINE j == k - y
    <3>1. j \in 1 .. b /\ y + j = k
      BY <1>3, <2>2
    <3> HIDE DEF j
    <3>2. (k - 1) \div b = m /\ ((k - 1) % b) + 1 = j
      <4>1. y + j - 1 = k - 1 /\ (y + j) - 1 = k - 1
        BY <1>3, <3>1
      <4> QED  BY <1>5, <3>1, <4>1
    <3>3. w[k] = q[m + 1][j]
      BY <1>3, <1>4, <3>2
    <3>4. s[k] = v[j]
      BY <1>6, <2>2 DEF j
    <3> QED  BY <3>3, <3>4 DEF v
  <2> QED  BY <2>1, <2>2
<1>8. s = w
  BY <1>1, <1>3, <1>6, <1>7, SeqEq
<1> QED  BY <1>8 DEF s, u, v, w

(* FlattenSeq puts them one after the other.                               *)
LEMMA FlattenIs ==
  ASSUME NEW q, NEW n \in Nat, NEW b \in Nat \ {0}, Pieces(q, n, b)
  PROVE  FlattenSeq(q) = Flat(q, b, n)
<1>1. CASE n = 0
  <2>1. Len(q) = 0 /\ IsSeq(q)
    BY <1>1 DEF Pieces
  <2>2. FlattenSeq(q) = q
    BY <2>1 DEF FlattenSeq
  <2>3. IsSeq(Flat(q, b, n)) /\ Len(Flat(q, b, n)) = 0
    BY <1>1, FlatLen
  <2>4. q = Flat(q, b, n)
    BY <2>1, <2>3, SeqEq
  <2> QED  BY <2>2, <2>4
<1>2. CASE n # 0
  <2> DEFINE C(i) == Flat(q, b, i)
             Eq(f) == f = [i \in 1 .. n |-> IF i = 1 THEN q[i] ELSE f[i - 1] \o q[i]]
             f == CHOOSE g : Eq(g)
             g == [i \in 1 .. n |-> C(i)]
             I == {j \in Nat : j + 1 <= n => f[j + 1] = C(j + 1)}
             m == n - 1
  <2>1. FlattenSeq(q) = f[n]
    BY <1>2 DEF FlattenSeq, Pieces
  <2>2. C(1) = q[1]
    <3>0. Len(C(0)) = 0 /\ IsSeq(C(0)) /\ IsSeq(C(1)) /\ Len(C(1)) = b
      BY FlatLen
    <3>1. C(0) \o q[0 + 1] = C(0 + 1)
      BY <1>2, FlatNext
    <3>2. IsSeq(q[1]) /\ Len(q[1]) = b
      BY <1>2 DEF Pieces
    <3> DEFINE u == C(0)
               v == q[1]
               s == u \o v
    <3>3. s = C(1)
      BY <3>1
    <3> HIDE DEF u, v, C
    <3>4. IsSeq(s) /\ Len(s) = b /\ \A k \in 1 .. b : s[k] = IF k <= 0 THEN u[k] ELSE v[k - 0]
      <4>1. IsSeq(u) /\ Len(u) = 0 /\ IsSeq(v) /\ Len(v) = b /\ 0 + b = b
        BY <3>0, <3>2 DEF u, v
      <4> QED  BY <4>1, SeqCat
    <3> HIDE DEF s
    <3>5. \A k \in 1 .. b : s[k] = v[k]
      BY <3>4
    <3>6. s = v
      BY <3>2, <3>4, <3>5, SeqEq DEF v
    <3> QED  BY <3>3, <3>6 DEF v
  <2>3. ASSUME NEW i \in 1 .. n, i # 1 PROVE C(i) = C(i - 1) \o q[i]
    <3> DEFINE l == i - 1
    <3>1. l \in Nat /\ l < n /\ l + 1 = i
      OBVIOUS
    <3> HIDE DEF l
    <3>2. Flat(q, b, l) \o q[l + 1] = Flat(q, b, l + 1)
      BY <3>1, FlatNext
    <3> QED  BY <3>1, <3>2 DEF l
  <2> HIDE DEF C
  <2>4. Eq(g)
    <3>1. \A i \in 1 .. n : g[i] = IF i = 1 THEN q[i] ELSE g[i - 1] \o q[i]
      <4> SUFFICES ASSUME NEW i \in 1 .. n
                   PROVE  g[i] = IF i = 1 THEN q[i] ELSE g[i - 1] \o q[i]
        OBVIOUS
      <4>1. CASE i = 1
        BY <2>2, <4>1
      <4>2. CASE i # 1
        <5>1. i - 1 \in 1 .. n /\ g[i - 1] = C(i - 1) /\ g[i] = C(i)
          BY <4>2
        <5> HIDE DEF g
        <5> QED  BY <2>3, <4>2, <5>1
      <4> QED  BY <4>1, <4>2
    <3>2. g = [i \in 1 .. n |-> g[i]]
      OBVIOUS
    <3> HIDE DEF g
    <3> QED  BY <3>1, <3>2
  <2>5. Eq(f)
    <3> HIDE DEF Eq, g
    <3> QED  BY <2>4, Zenon
  <2> HIDE DEF f, g
  <2>6. \A i \in 1 .. n : f[i] = IF i = 1 THEN q[i] ELSE f[i - 1] \o q[i]
    BY <2>5
  <2>7. 0 \in I
    <3>1. 0 + 1 <= n => f[0 + 1] = C(0 + 1)
      BY <1>2, <2>2, <2>6
    <3> QED  BY <3>1
  <2>8. ASSUME NEW j \in Nat, j \in I PROVE j + 1 \in I
    <3> SUFFICES ASSUME (j + 1) + 1 <= n PROVE f[(j + 1) + 1] = C((j + 1) + 1)
      OBVIOUS
    <3> DEFINE i == (j + 1) + 1
    <3>1. i \in 1 .. n /\ i # 1 /\ i - 1 = j + 1 /\ f[j + 1] = C(j + 1)
      BY <2>8
    <3> HIDE DEF i
    <3>2. f[i] = f[i - 1] \o q[i] /\ C(i) = C(i - 1) \o q[i]
      BY <2>3, <2>6, <3>1
    <3>3. f[i] = C(i)
      BY <3>1, <3>2
    <3> QED  BY <3>3 DEF i
  <2> HIDE DEF I
  <2>9. m \in Nat /\ m + 1 = n
    BY <1>2
  <2> HIDE DEF m
  <2>10. m \in I
    BY <2>7, <2>8, <2>9, SetInduction
  <2>11. f[n] = C(n)
    BY <2>9, <2>10 DEF I
  <2> QED  BY <2>1, <2>11 DEF C
<1> QED  BY <1>1, <1>2
-----------------------------------------------------------------------------
(* Keystream.                                                              *)

(* A piece of data, by place.                                              *)
LEMMA PieceIs ==
  ASSUME NEW d, IsSeq(d), NEW b \in Nat \ {0}, NEW c \in Nat, (c + 1) * b <= Len(d)
  PROVE  /\ IsSeq(Piece(d, b, c + 1)) /\ Len(Piece(d, b, c + 1)) = b
         /\ \A j \in 1 .. b : Piece(d, b, c + 1)[j] = d[c * b + j]
<1> DEFINE o == c * b
           e == (c + 1) * b
<1>1. o \in Nat /\ e \in Nat /\ e = o + b /\ e <= Len(d)
  OBVIOUS
<1>2. Piece(d, b, c + 1) = SubSeq(d, o + 1, e)
  <2>1. (c + 1) - 1 = c
    OBVIOUS
  <2> QED  BY <2>1 DEF Piece
<1> HIDE DEF o, e
<1>3. o <= e /\ e - o = b
  BY <1>1
<1>4. /\ IsSeq(SubSeq(d, o + 1, e)) /\ Len(SubSeq(d, o + 1, e)) = e - o
      /\ \A k \in 1 .. e - o : SubSeq(d, o + 1, e)[k] = d[o + k]
  BY <1>1, <1>3, SeqSub
<1> QED  BY <1>2, <1>3, <1>4 DEF o

(* What is left after the whole pieces.                                    *)
LEMMA RestIs ==
  ASSUME NEW d, IsSeq(d), NEW b \in Nat \ {0}
  PROVE  LET n == Len(d) \div b
             r == Len(d) % b
         IN /\ n \in Nat /\ r \in 0 .. b - 1 /\ Len(d) = n * b + r /\ n * b \in Nat
            /\ IsSeq(Rest(d, b)) /\ Len(Rest(d, b)) = r
            /\ \A j \in 1 .. r : Rest(d, b)[j] = d[n * b + j]
<1> DEFINE l == Len(d)
           n == l \div b
           r == l % b
           o == n * b
<1>1. l \in Nat
  BY SeqIs
<1>2. n \in Nat /\ r \in 0 .. b - 1 /\ l = o + r /\ o \in Nat
  <2> HIDE DEF l
  <2>1. n \in Nat /\ r \in 0 .. b - 1 /\ l = o + r
    BY <1>1
  <2> HIDE DEF n
  <2> QED  BY <2>1
<1>3. Rest(d, b) = SubSeq(d, o + 1, l)
  <2>1. b * n = n * b
    BY <1>2
  <2> QED  BY <2>1 DEF Rest
<1> HIDE DEF l, n, r, o
<1>4. o <= l /\ l - o = r /\ l <= Len(d)
  BY <1>1, <1>2 DEF l
<1>5. /\ IsSeq(SubSeq(d, o + 1, l)) /\ Len(SubSeq(d, o + 1, l)) = l - o
      /\ \A k \in 1 .. l - o : SubSeq(d, o + 1, l)[k] = d[o + k]
  BY <1>1, <1>2, <1>4, SeqSub
<1> QED  BY <1>2, <1>3, <1>4, <1>5 DEF l, n, r, o

(* The atom of keystream that byte k of a message is xored with.           *)
Atom(st, c, i) == <<"ks", st.alg, st.k, st.n, c, c, i>>
StreamAt(st, ctr, k) == Atom(st, Add(st.alg, ctr, (k - 1) \div Block), ((k - 1) % Block) + 1)
ModeOf(plain, st, ctr) == [k \in 1 .. Len(plain) |-> SymDiff(plain[k], {StreamAt(st, ctr, k)})]

LEMMA BlockPos == Block \in Nat \ {0}
BY CiphersAssumption

LEMMA ModeLen ==
  ASSUME NEW plain, IsSeq(plain), NEW st, NEW ctr
  PROVE  IsSeq(ModeOf(plain, st, ctr)) /\ Len(ModeOf(plain, st, ctr)) = Len(plain)
<1> DEFINE f == ModeOf(plain, st, ctr)
           n == Len(plain)
<1>1. n \in Nat /\ f = [k \in 1 .. n |-> f[k]]
  BY SeqIs DEF ModeOf
<1> HIDE DEF f, n
<1>2. IsSeq(f) /\ Len(f) = n
  BY <1>1, FunSeq
<1> QED  BY <1>2 DEF f, n

(* A block of the message.                                                 *)
Updated(p, st, c) ==
  /\ \A j \in 1 .. Len(p) : update(p, st, c)[j] = SymDiff(p[j], {Atom(st, c, j)})
  /\ IsSeq(update(p, st, c)) /\ Len(update(p, st, c)) = Len(p)
  /\ update_last(p, st, c) = update(p, st, c)

LEMMA UpdateIs ==
  ASSUME NEW p, IsSeq(p), Len(p) <= Block, NEW st, NEW c
  PROVE  Updated(p, st, c)
<1> DEFINE n == Len(p)
           f == update(p, st, c)
           q == core(st, c)
<1>1. n \in Nat /\ DOMAIN p = 1 .. n /\ n <= Block /\ Block \in Nat
  BY SeqIs, BlockPos
<1>2. \A j \in 1 .. Block : q[j] = {Atom(st, c, j)}
  BY DEF core, Keystream, Atom
<1>3. f = [j \in 1 .. n |-> SymDiff(p[j], q[j])]
  BY <1>1 DEF update, Xor
<1>4. update_last(p, st, c) = f
  BY <1>1, <1>3 DEF update_last
<1> HIDE DEF f, n, q
<1>5. f = [j \in 1 .. n |-> f[j]] /\ \A j \in 1 .. n : f[j] = SymDiff(p[j], q[j])
  BY <1>3
<1>6. IsSeq(f) /\ Len(f) = n
  BY <1>1, <1>5, FunSeq
<1>7. ASSUME NEW j \in 1 .. n PROVE f[j] = SymDiff(p[j], {Atom(st, c, j)})
  <2>1. j \in 1 .. Block
    BY <1>1
  <2>2. q[j] = {Atom(st, c, j)}
    BY <1>2, <2>1
  <2> QED  BY <1>5, <2>2
<1> QED  BY <1>4, <1>6, <1>7 DEF f, n, Updated

(* counter_mode, by place: block after block, each under its own counter.  *)
LEMMA ModeIs ==
  ASSUME NEW plain, IsSeq(plain), NEW st, NEW ctr
  PROVE  counter_mode(plain, st, ctr) = ModeOf(plain, st, ctr)
<1> DEFINE b == Block
           l == Len(plain)
           n == l \div b
           r == l % b
           y == n * b
           C(i) == Add(st.alg, ctr, i)
           q == [i \in 1 .. n |-> update(Piece(plain, b, i), st, C(i - 1))]
           f == FlattenSeq(q)
           t == IF r > 0 THEN update_last(Rest(plain, b), st, C(n)) ELSE <<>>
           s == f \o t
           w == ModeOf(plain, st, ctr)
<1>1. b \in Nat \ {0}
  BY BlockPos
<1>2. /\ n \in Nat /\ r \in 0 .. b - 1 /\ l = y + r /\ y \in Nat
      /\ IsSeq(Rest(plain, b)) /\ Len(Rest(plain, b)) = r
      /\ \A j \in 1 .. r : Rest(plain, b)[j] = plain[y + j]
  BY <1>1, RestIs
<1>3. counter_mode(plain, st, ctr) = s
  BY DEF counter_mode, counter_mode_blocks
<1>4. ASSUME NEW i \in 1 .. n
      PROVE  /\ IsSeq(q[i]) /\ Len(q[i]) = b
             /\ \A j \in 1 .. b : q[i][j] = SymDiff(plain[(i - 1) * b + j], {Atom(st, C(i - 1), j)})
  <2> DEFINE c == i - 1
             p == Piece(plain, b, c + 1)
             u == update(p, st, C(c))
  <2>1. c \in Nat /\ c + 1 = i /\ i <= n
    BY <1>2
  <2>2. q[i] = u
    BY <2>1
  <2> HIDE DEF c, q, n, r, l, y, b, C
  <2>3. (c + 1) * b <= Len(plain)
    <3>1. (c + 1) * b <= n * b /\ (c + 1) * b \in Nat /\ n * b = y
      BY <1>1, <1>2, <2>1 DEF y
    <3> QED  BY <1>1, <1>2, <3>1 DEF l
  <2>4. /\ IsSeq(p) /\ Len(p) = b
        /\ \A j \in 1 .. b : p[j] = plain[c * b + j]
    BY <1>1, <2>1, <2>3, PieceIs
  <2> HIDE DEF p
  <2>5. /\ \A j \in 1 .. b : u[j] = SymDiff(p[j], {Atom(st, C(c), j)})
        /\ IsSeq(u) /\ Len(u) = b
    <3>1. Len(p) <= Block /\ Len(p) = b
      BY <1>1, <2>4 DEF b
    <3>2. Updated(p, st, C(c))
      BY <2>4, <3>1, UpdateIs
    <3> QED  BY <3>1, <3>2 DEF Updated
  <2> HIDE DEF u
  <2> QED  BY <2>2, <2>4, <2>5 DEF c
<1>5. Pieces(q, n, b)
  <2>1. q = [i \in 1 .. n |-> q[i]]
    OBVIOUS
  <2> HIDE DEF q, n, b
  <2>2. IsSeq(q) /\ Len(q) = n
    BY <1>2, <2>1, FunSeq
  <2> QED  BY <1>4, <2>2 DEF Pieces
<1>6. f = Flat(q, b, n)
  BY <1>1, <1>2, <1>5, FlattenIs
<1>7. \A k \in 1 .. y : f[k] = q[((k - 1) \div b) + 1][((k - 1) % b) + 1]
  BY <1>6 DEF Flat
<1>8. IsSeq(f) /\ Len(f) = y
  BY <1>1, <1>2, <1>6, FlatLen
<1>9. IsSeq(t) /\ Len(t) = r /\ \A j \in 1 .. r : t[j] = SymDiff(plain[y + j], {Atom(st, C(n), j)})
  <2> DEFINE p == Rest(plain, b)
  <2>1. CASE r > 0
    <3>1. t = update_last(p, st, C(n))
      BY <2>1
    <3>2. Len(p) <= Block /\ Len(p) = r /\ IsSeq(p) /\ \A j \in 1 .. r : p[j] = plain[y + j]
      BY <1>1, <1>2
    <3> HIDE DEF p, t, r, y, n, C
    <3>3. /\ \A j \in 1 .. r : update(p, st, C(n))[j] = SymDiff(p[j], {Atom(st, C(n), j)})
          /\ IsSeq(update(p, st, C(n))) /\ Len(update(p, st, C(n))) = r
          /\ update_last(p, st, C(n)) = update(p, st, C(n))
      <4>1. Updated(p, st, C(n))
        BY <3>2, UpdateIs
      <4> QED  BY <3>2, <4>1 DEF Updated
    <3> QED  BY <3>1, <3>2, <3>3
  <2>2. CASE ~(r > 0)
    <3>1. r = 0 /\ t = <<>>
      BY <1>1, <1>2, <2>2
    <3> HIDE DEF t, r
    <3> QED  BY <3>1, SeqEmpty
  <2> QED  BY <2>1, <2>2
<1>10. IsSeq(w) /\ Len(w) = l /\ \A k \in 1 .. l : w[k] = SymDiff(plain[k], {StreamAt(st, ctr, k)})
  BY ModeLen DEF ModeOf
<1>11. \A k \in 1 .. l : StreamAt(st, ctr, k) = Atom(st, C((k - 1) \div b), ((k - 1) % b) + 1)
  BY DEF StreamAt
<1> HIDE DEF f, t, w, q, b, l, n, r, y, C
<1>12. IsSeq(s) /\ Len(s) = y + r /\ \A k \in 1 .. y + r : s[k] = IF k <= y THEN f[k] ELSE t[k - y]
  BY <1>8, <1>9, SeqCat
<1> HIDE DEF s
<1>13. ASSUME NEW k \in 1 .. l PROVE s[k] = w[k]
  <2> DEFINE c == (k - 1) \div b
             j == ((k - 1) % b) + 1
  <2>0. k \in Nat \ {0} /\ k \in 1 .. y + r
    BY <1>1, <1>2
  <2>1. c \in Nat /\ j \in 1 .. b /\ k = c * b + j
    BY <1>1, <2>0, PlaceIs
  <2>2. w[k] = SymDiff(plain[k], {Atom(st, C(c), j)})
    BY <1>10, <1>11
  <2>3. CASE k <= y
    <3>1. c < n
      <4> SUFFICES ASSUME c >= n PROVE FALSE
        BY <1>2, <2>1
      <4> HIDE DEF c, j
      <4>1. c * b >= n * b /\ c * b \in Nat
        BY <1>1, <1>2, <2>1
      <4> QED  BY <1>1, <1>2, <2>1, <2>3, <4>1 DEF y
    <3>2. s[k] = q[c + 1][j]
      <4>1. k \in 1 .. y
        BY <1>2, <2>3
      <4> QED  BY <1>7, <1>12, <2>0, <2>3, <4>1
    <3> HIDE DEF c, j
    <3>3. c + 1 \in 1 .. n /\ (c + 1) - 1 = c
      BY <1>2, <2>1, <3>1
    <3>4. q[c + 1][j] = SymDiff(plain[c * b + j], {Atom(st, C(c), j)})
      BY <1>4, <2>1, <3>3
    <3> QED  BY <2>1, <2>2, <3>2, <3>4
  <2>4. CASE ~(k <= y)
    <3> DEFINE i == k - y
    <3>1. i \in 1 .. r /\ k = y + i /\ i \in 1 .. b
      BY <1>1, <1>2, <2>0, <2>4
    <3>2. c = n /\ j = i
      <4> HIDE DEF i
      <4>1. (n * b + i - 1) \div b = n /\ (((n * b + i) - 1) % b) + 1 = i
        BY <1>1, <1>2, <3>1, PlaceOf
      <4>2. n * b + i - 1 = k - 1 /\ (n * b + i) - 1 = k - 1
        BY <1>2, <3>1 DEF y
      <4> QED  BY <4>1, <4>2
    <3>3. s[k] = t[i]
      BY <1>12, <2>0, <2>4
    <3> HIDE DEF c, j, i
    <3> QED  BY <1>9, <2>2, <3>1, <3>2, <3>3
  <2> QED  BY <2>3, <2>4
<1>14. s = w
  BY <1>2, <1>10, <1>12, <1>13, SeqEq
<1> QED  BY <1>3, <1>14 DEF w
-----------------------------------------------------------------------------
(* Boxes, by place.                                                        *)

LEMMA Sizes ==
  /\ Pad \in Nat \ {0} /\ Pad <= Block /\ MacBytes \in Nat \ {0} /\ Off \in Nat /\ Off + MacBytes = Pad
  /\ Poly \in Nat \ {0} /\ Ctr \in Nat \ {0} /\ KeyBytes = Pad
BY CiphersAssumption DEF Pad, Off

LEMMA ZerosLen ==
  ASSUME NEW n \in Nat
  PROVE  IsSeq(Zeros(n)) /\ Len(Zeros(n)) = n /\ \A k \in 1 .. n : Zeros(n)[k] = {}
<1> DEFINE f == Zeros(n)
<1>1. f = [k \in 1 .. n |-> f[k]] /\ \A k \in 1 .. n : f[k] = {}
  BY DEF Zeros
<1> HIDE DEF f
<1>2. IsSeq(f) /\ Len(f) = n
  BY <1>1, FunSeq
<1> QED  BY <1>1, <1>2 DEF f

LEMMA StaleLen ==
  ASSUME NEW n \in Nat
  PROVE  IsSeq(Stale(n)) /\ Len(Stale(n)) = n
<1> DEFINE f == Stale(n)
<1>1. f = [k \in 1 .. n |-> f[k]]
  BY DEF Stale
<1> HIDE DEF f
<1>2. IsSeq(f) /\ Len(f) = n
  BY <1>1, FunSeq
<1> QED  BY <1>2 DEF f

LEMMA XorTwice ==
  ASSUME NEW a, NEW b
  PROVE  SymDiff(SymDiff(a, b), b) = a /\ SymDiff({}, b) = b
BY DEF SymDiff

(* The state that encrypts under k and n, its first bytes, which are the   *)
(* one-time key, and what the rest makes of a message, or of a ciphertext. *)
BoxState(k, n) == setup("salsa20", hsalsa20(k, n[1]), n[2], 0)
BoxAt(k, n, i) == StreamAt(BoxState(k, n), 0, i)
OneTime(k, n) == [j \in 1 .. Pad |-> {BoxAt(k, n, j)}]
BoxText(k, n, m) == [j \in 1 .. Len(m) |-> SymDiff(m[j], {BoxAt(k, n, Pad + j)})]

LEMMA BoxTextIs ==
  ASSUME NEW k, NEW n, NEW m, IsSeq(m)
  PROVE  /\ IsSeq(BoxText(k, n, m)) /\ Len(BoxText(k, n, m)) = Len(m)
         /\ \A j \in 1 .. Len(m) : BoxText(k, n, m)[j] = SymDiff(m[j], {BoxAt(k, n, Pad + j)})
<1> DEFINE f == BoxText(k, n, m)
           l == Len(m)
<1>1. l \in Nat /\ f = [j \in 1 .. l |-> f[j]]
      /\ \A j \in 1 .. l : f[j] = SymDiff(m[j], {BoxAt(k, n, Pad + j)})
  BY SeqIs DEF BoxText
<1> HIDE DEF f, l
<1>2. IsSeq(f) /\ Len(f) = l
  BY <1>1, FunSeq
<1> QED  BY <1>1, <1>2 DEF f, l

LEMMA OneTimeIs ==
  ASSUME NEW k, NEW n
  PROVE  /\ IsSeq(OneTime(k, n)) /\ Len(OneTime(k, n)) = Pad
         /\ \A j \in 1 .. Pad : OneTime(k, n)[j] = {BoxAt(k, n, j)}
<1> DEFINE f == OneTime(k, n)
<1>1. f = [j \in 1 .. Pad |-> f[j]] /\ \A j \in 1 .. Pad : f[j] = {BoxAt(k, n, j)}
  BY DEF OneTime
<1> HIDE DEF f
<1>2. IsSeq(f) /\ Len(f) = Pad
  BY <1>1, FunSeq, Sizes
<1> QED  BY <1>1, <1>2 DEF f

(* What was done to a message is undone by doing it again.                 *)
LEMMA BoxTextTwice ==
  ASSUME NEW k, NEW n, NEW m, IsSeq(m)
  PROVE  BoxText(k, n, BoxText(k, n, m)) = m
<1> DEFINE u == BoxText(k, n, m)
           v == BoxText(k, n, u)
<1>1. IsSeq(u) /\ Len(u) = Len(m) /\ \A j \in 1 .. Len(m) : u[j] = SymDiff(m[j], {BoxAt(k, n, Pad + j)})
  BY BoxTextIs
<1> HIDE DEF u
<1>2. IsSeq(v) /\ Len(v) = Len(u) /\ \A j \in 1 .. Len(u) : v[j] = SymDiff(u[j], {BoxAt(k, n, Pad + j)})
  BY <1>1, BoxTextIs
<1> HIDE DEF v
<1>3. ASSUME NEW j \in 1 .. Len(v) PROVE v[j] = m[j]
  <2>1. v[j] = SymDiff(u[j], {BoxAt(k, n, Pad + j)})
    BY <1>2
  <2>2. u[j] = SymDiff(m[j], {BoxAt(k, n, Pad + j)})
    BY <1>1, <1>2
  <2> QED  BY <2>1, <2>2, XorTwice
<1>4. v = m
  BY <1>1, <1>2, <1>3, SeqEq
<1> QED  BY <1>4 DEF u, v

(* salsa20 on a buffer: the first Pad bytes are xored with the one-time    *)
(* key, the others are what BoxText makes of them.                         *)
SalsaOf(k, n, f, m, c) ==
  /\ IsSeq(c) /\ Len(c) = Pad + Len(m)
  /\ \A j \in 1 .. Pad : c[j] = SymDiff(f[j], {BoxAt(k, n, j)})
  /\ SubSeq(c, Pad + 1, Len(c)) = BoxText(k, n, m)
  /\ set_zero_bytes(c) = Zeros(Pad) \o BoxText(k, n, m)

LEMMA SalsaIs ==
  ASSUME NEW k, NEW n, NEW f, IsSeq(f), Len(f) = Pad, NEW m, IsSeq(m)
  PROVE  SalsaOf(k, n, f, m, salsa20(f \o m, hsalsa20(k, n[1]), n[2], 0))
<1> DEFINE s == f \o m
           c == salsa20(s, hsalsa20(k, n[1]), n[2], 0)
           P == Pad
           l == Len(m)
           u == BoxText(k, n, m)
           t == SubSeq(c, Pad + 1, Len(c))
           x == set_zero_bytes(c)
           zz == Zeros(Pad)
           y == zz \o u
<1>1. P \in Nat /\ l \in Nat
  BY Sizes, SeqIs
<1>2. IsSeq(s) /\ Len(s) = P + l /\ \A j \in 1 .. P + l : s[j] = IF j <= P THEN f[j] ELSE m[j - P]
  BY SeqCat
<1> HIDE DEF s
<1>3. c = ModeOf(s, BoxState(k, n), 0)
  BY <1>2, ModeIs DEF salsa20, BoxState
<1>4. /\ IsSeq(c) /\ Len(c) = P + l
      /\ \A j \in 1 .. P + l : c[j] = SymDiff(s[j], {BoxAt(k, n, j)})
  <2>1. IsSeq(c) /\ Len(c) = P + l
    BY <1>2, <1>3, ModeLen
  <2>2. \A j \in 1 .. Len(s) : c[j] = SymDiff(s[j], {BoxAt(k, n, j)})
    BY <1>3 DEF ModeOf, BoxAt
  <2> QED  BY <1>2, <2>1, <2>2
<1>5. IsSeq(u) /\ Len(u) = l /\ \A j \in 1 .. l : u[j] = SymDiff(m[j], {BoxAt(k, n, P + j)})
  BY BoxTextIs
<1> HIDE DEF c, u
<1>6. \A j \in 1 .. P : c[j] = SymDiff(f[j], {BoxAt(k, n, j)})
  BY <1>1, <1>2, <1>4
<1>7. ASSUME NEW j \in 1 .. l PROVE c[P + j] = u[j] /\ P + j \in 1 .. P + l /\ ~(P + j <= P) /\ (P + j) - P = j
  <2>1. P + j \in 1 .. P + l /\ ~(P + j <= P) /\ (P + j) - P = j
    BY <1>1
  <2> QED  BY <1>2, <1>4, <1>5, <2>1
<1>8. t = u
  <2> DEFINE e == Len(c)
  <2>1. e \in Nat /\ P <= e /\ e <= Len(c) /\ e - P = l
    BY <1>1, <1>4
  <2> HIDE DEF e
  <2>2. /\ IsSeq(SubSeq(c, P + 1, e)) /\ Len(SubSeq(c, P + 1, e)) = e - P
        /\ \A j \in 1 .. e - P : SubSeq(c, P + 1, e)[j] = c[P + j]
    BY <1>1, <1>4, <2>1, SeqSub
  <2>3. t = SubSeq(c, P + 1, e)
    BY DEF e
  <2> HIDE DEF t, P
  <2>4. IsSeq(t) /\ Len(t) = l /\ \A j \in 1 .. l : t[j] = u[j]
    BY <1>7, <2>1, <2>2, <2>3
  <2> QED  BY <1>5, <2>4, SeqEq
<1>9. IsSeq(zz) /\ Len(zz) = P /\ \A j \in 1 .. P : zz[j] = {}
  BY <1>1, ZerosLen
<1>10. /\ IsSeq(x) /\ Len(x) = P + l
       /\ \A j \in 1 .. P + l : x[j] = IF j <= P THEN {} ELSE c[j]
  <2> DEFINE e == P + l
  <2>1. DOMAIN c = 1 .. e /\ e \in Nat
    BY <1>1, <1>4, SeqIs
  <2>2. x = [j \in 1 .. e |-> IF j <= P THEN {} ELSE c[j]]
    BY <2>1 DEF set_zero_bytes
  <2> HIDE DEF e, x
  <2>3. x = [j \in 1 .. e |-> x[j]] /\ \A j \in 1 .. e : x[j] = IF j <= P THEN {} ELSE c[j]
    BY <2>2
  <2>4. IsSeq(x) /\ Len(x) = e
    BY <2>1, <2>3, FunSeq
  <2> QED  BY <2>3, <2>4 DEF e
<1> HIDE DEF x, zz, P, l
<1>11. IsSeq(y) /\ Len(y) = P + l /\ \A j \in 1 .. P + l : y[j] = IF j <= P THEN zz[j] ELSE u[j - P]
  BY <1>5, <1>9, SeqCat
<1> HIDE DEF y
<1>12. ASSUME NEW j \in 1 .. P + l PROVE x[j] = y[j]
  <2>1. CASE j <= P
    <3>1. j \in 1 .. P
      BY <1>1, <2>1
    <3> QED  BY <1>9, <1>10, <1>11, <2>1, <3>1
  <2>2. CASE ~(j <= P)
    <3>1. j - P \in 1 .. l /\ P + (j - P) = j
      BY <1>1, <2>2
    <3>2. c[j] = u[j - P]
      BY <1>7, <3>1
    <3> QED  BY <1>10, <1>11, <2>2, <3>2
  <2> QED  BY <2>1, <2>2
<1>13. x = y
  BY <1>10, <1>11, <1>12, SeqEq
<1> QED  BY <1>4, <1>6, <1>8, <1>13 DEF c, s, u, t, x, y, zz, P, l, SalsaOf
-----------------------------------------------------------------------------
(* What the calls give.                                                    *)

BoxAcc(m) == process_last_block(poly1305_blocks(<<>>, m, Len(m) \div Poly), Rest(m, Poly))
BoxTag(k, n, c) == finish(BoxAcc(c), OneTime(k, n))

LEMMA FinishIs ==
  ASSUME NEW acc, NEW key
  PROVE  /\ IsSeq(finish(acc, key)) /\ Len(finish(acc, key)) = MacBytes
         /\ \A i \in 1 .. MacBytes : finish(acc, key)[i] = {<<"tag", key, acc, i>>}
<1> DEFINE f == finish(acc, key)
<1>1. f = [i \in 1 .. MacBytes |-> f[i]] /\ \A i \in 1 .. MacBytes : f[i] = {<<"tag", key, acc, i>>}
  BY DEF finish
<1> HIDE DEF f
<1>2. IsSeq(f) /\ Len(f) = MacBytes
  BY <1>1, FunSeq, Sizes
<1> QED  BY <1>1, <1>2 DEF f

LEMMA CmpIs ==
  ASSUME NEW a, IsSeq(a), Len(a) = MacBytes, NEW b, IsSeq(b), Len(b) = MacBytes
  PROVE  cmp_bytes(a, b) = IF a = b THEN 0 ELSE 255
<1>1. (\A i \in 1 .. MacBytes : a[i] = b[i]) <=> a = b
  BY SeqEq
<1> QED  BY <1>1 DEF cmp_bytes

LEMMA SubFront ==
  ASSUME NEW q, IsSeq(q), NEW e \in Nat, e <= Len(q)
  PROVE  /\ IsSeq(SubSeq(q, 1, e)) /\ Len(SubSeq(q, 1, e)) = e
         /\ \A k \in 1 .. e : SubSeq(q, 1, e)[k] = q[k]
<1>1. PICK E : q \in Seq(E)
  BY DEF IsSeq
<1>2. /\ SubSeq(q, 1, e) \in Seq(E) /\ Len(SubSeq(q, 1, e)) = e
      /\ \A k \in 1 .. e : SubSeq(q, 1, e)[k] = q[k]
  BY <1>1
<1> QED  BY <1>2 DEF IsSeq

LEMMA SubBack ==
  ASSUME NEW p, IsSeq(p), NEW q, IsSeq(q)
  PROVE  SubSeq(p \o q, Len(p) + 1, Len(p) + Len(q)) = q
<1> DEFINE s == p \o q
           l == Len(p)
           e == l + Len(q)
           t == SubSeq(s, l + 1, e)
<1>1. l \in Nat /\ Len(q) \in Nat
  BY SeqIs
<1>2. IsSeq(s) /\ Len(s) = e /\ \A k \in 1 .. e : s[k] = IF k <= l THEN p[k] ELSE q[k - l]
  BY SeqCat
<1> HIDE DEF s, l
<1>3. e \in Nat /\ l <= e /\ e <= Len(s) /\ e - l = Len(q)
  BY <1>1, <1>2
<1>4. IsSeq(t) /\ Len(t) = e - l /\ \A k \in 1 .. e - l : t[k] = s[l + k]
  BY <1>1, <1>2, <1>3, SeqSub
<1> HIDE DEF t
<1>5. ASSUME NEW k \in 1 .. Len(q) PROVE t[k] = q[k]
  <2>1. l + k \in 1 .. e /\ ~(l + k <= l) /\ (l + k) - l = k
    BY <1>1
  <2> QED  BY <1>2, <1>3, <1>4, <2>1
<1>6. t = q
  BY <1>3, <1>4, <1>5, SeqEq
<1> QED  BY <1>6 DEF t, s, l

(* The parts of an "easy" box.                                             *)
LEMMA EasyParts ==
  ASSUME NEW t, IsSeq(t), Len(t) = MacBytes, NEW u, IsSeq(u)
  PROVE  LET f == Zeros(Off) \o t
             c == f \o u
         IN /\ IsSeq(f) /\ Len(f) = Pad /\ IsSeq(c) /\ Len(c) = Pad + Len(u)
            /\ TagOf(c) = t /\ SubSeq(c, Pad + 1, Len(c)) = u
<1> DEFINE f == Zeros(Off) \o t
           c == f \o u
           z == Zeros(Off)
<1>1. /\ Pad \in Nat /\ MacBytes \in Nat /\ Off \in Nat /\ Off + MacBytes = Pad /\ Len(u) \in Nat
  BY Sizes, SeqIs
<1>2. IsSeq(z) /\ Len(z) = Off
  BY <1>1, ZerosLen
<1> HIDE DEF z
<1>3. /\ IsSeq(f) /\ Len(f) = Pad
      /\ \A k \in 1 .. Pad : f[k] = IF k <= Off THEN z[k] ELSE t[k - Off]
  <2>1. /\ IsSeq(z \o t) /\ Len(z \o t) = Off + MacBytes
        /\ \A k \in 1 .. Off + MacBytes : (z \o t)[k] = IF k <= Off THEN z[k] ELSE t[k - Off]
    BY <1>2, SeqCat
  <2>2. f = z \o t
    BY DEF z
  <2> HIDE DEF f
  <2> QED  BY <1>1, <2>1, <2>2
<1>4. SubSeq(f, Off + 1, Pad) = t
  <2>1. SubSeq(z \o t, Off + 1, Off + MacBytes) = t
    BY <1>2, SubBack
  <2> QED  BY <1>1, <2>1 DEF z
<1> HIDE DEF f
<1>5. /\ IsSeq(c) /\ Len(c) = Pad + Len(u)
      /\ \A k \in 1 .. Pad + Len(u) : c[k] = IF k <= Pad THEN f[k] ELSE u[k - Pad]
  BY <1>3, SeqCat
<1>6. SubSeq(c, Pad + 1, Len(c)) = u
  BY <1>3, <1>5, SubBack
<1> HIDE DEF c
<1>7. TagOf(c) = t
  <2> DEFINE x == SubSeq(c, Off + 1, Pad)
             y == SubSeq(f, Off + 1, Pad)
  <2>0. Off <= Pad /\ Pad <= Len(c) /\ Pad <= Len(f) /\ Pad - Off \in Nat
    BY <1>1, <1>3, <1>5
  <2>1. IsSeq(x) /\ Len(x) = Pad - Off /\ \A k \in 1 .. Pad - Off : x[k] = c[Off + k]
    BY <1>1, <1>5, <2>0, SeqSub
  <2>2. IsSeq(y) /\ Len(y) = Pad - Off /\ \A k \in 1 .. Pad - Off : y[k] = f[Off + k]
    BY <1>1, <1>3, <2>0, SeqSub
  <2> HIDE DEF x, y
  <2>3. ASSUME NEW k \in 1 .. Len(x) PROVE x[k] = y[k]
    <3>1. k \in 1 .. Pad - Off /\ Off + k \in 1 .. Pad + Len(u) /\ Off + k <= Pad
      BY <1>1, <2>0, <2>1
    <3> QED  BY <1>5, <2>1, <2>2, <3>1
  <2>4. x = y
    BY <2>1, <2>2, <2>3, SeqEq
  <2> QED  BY <1>4, <2>4 DEF TagOf, x, y
<1> QED  BY <1>3, <1>5, <1>6, <1>7 DEF c, f

(* A box as it is sealed: its key and its tag.                             *)
LEMMA DetachedIs ==
  ASSUME NEW m, IsSeq(m), NEW n, NEW k
  PROVE  LET u == BoxText(k, n, m)
         IN crypto_secretbox_detached(Zeros(Pad) \o m, n, k) =
              [c |-> Zeros(Pad) \o u, mac |-> BoxTag(k, n, u)]
<1> DEFINE u == BoxText(k, n, m)
           z == Zeros(Pad)
           c == salsa20(z \o m, hsalsa20(k, n[1]), n[2], 0)
           x == SubSeq(c, 1, Pad)
           y == OneTime(k, n)
<1>1. IsSeq(z) /\ Len(z) = Pad /\ \A j \in 1 .. Pad : z[j] = {}
  BY Sizes, ZerosLen
<1>2. crypto_secretbox_detached(z \o m, n, k) =
        [c |-> set_zero_bytes(c), mac |-> crypto_onetimeauth(SubSeq(c, Pad + 1, Len(c)), x)]
  BY DEF crypto_secretbox_detached
<1> HIDE DEF z
<1>3. /\ IsSeq(c) /\ Len(c) = Pad + Len(m)
      /\ \A j \in 1 .. Pad : c[j] = SymDiff(z[j], {BoxAt(k, n, j)})
      /\ SubSeq(c, Pad + 1, Len(c)) = u
      /\ set_zero_bytes(c) = Zeros(Pad) \o u
  <2>1. SalsaOf(k, n, z, m, c)
    BY <1>1, SalsaIs
  <2> HIDE DEF c, u
  <2> QED  BY <2>1 DEF SalsaOf, u
<1> HIDE DEF c, u
<1>4. x = y
  <2>1. Pad \in Nat /\ Pad <= Len(c)
    <3>1. Len(m) \in Nat /\ Pad \in Nat
      BY Sizes, SeqIs
    <3> QED  BY <1>3, <3>1
  <2>3. IsSeq(x) /\ Len(x) = Pad /\ \A j \in 1 .. Pad : x[j] = c[j]
    BY <1>3, <2>1, SubFront
  <2>4. IsSeq(y) /\ Len(y) = Pad /\ \A j \in 1 .. Pad : y[j] = {BoxAt(k, n, j)}
    BY OneTimeIs
  <2> HIDE DEF x, y
  <2>5. ASSUME NEW j \in 1 .. Len(x) PROVE x[j] = y[j]
    BY <1>1, <1>3, <2>3, <2>4, XorTwice
  <2> QED  BY <2>3, <2>4, <2>5, SeqEq
<1> QED  BY <1>2, <1>3, <1>4 DEF crypto_onetimeauth, BoxTag, BoxAcc, z, u

LEMMA EasyIs ==
  ASSUME NEW t, IsSeq(t), Len(t) = MacBytes, NEW u, IsSeq(u)
  PROVE  WithTag([c |-> Zeros(Pad) \o u, mac |-> t]) = [c |-> (Zeros(Off) \o t) \o u, mac |-> <<>>]
<1> DEFINE z == Zeros(Pad)
           c == z \o u
           x == SubSeq(c, 1, Off)
           y == Zeros(Off)
<1>1. /\ Pad \in Nat /\ Off \in Nat /\ Off <= Pad /\ Len(u) \in Nat
  BY Sizes, SeqIs
<1>2. IsSeq(z) /\ Len(z) = Pad /\ \A j \in 1 .. Pad : z[j] = {}
  BY <1>1, ZerosLen
<1>3. IsSeq(y) /\ Len(y) = Off /\ \A j \in 1 .. Off : y[j] = {}
  BY <1>1, ZerosLen
<1>4. WithTag([c |-> z \o u, mac |-> t]) = [c |-> x \o t \o SubSeq(c, Pad + 1, Len(c)), mac |-> <<>>]
  BY DEF WithTag
<1> HIDE DEF z, y
<1>5. /\ IsSeq(c) /\ Len(c) = Pad + Len(u)
      /\ \A j \in 1 .. Pad + Len(u) : c[j] = IF j <= Pad THEN z[j] ELSE u[j - Pad]
  BY <1>2, SeqCat
<1>6. SubSeq(c, Pad + 1, Len(c)) = u
  BY <1>2, <1>5, SubBack
<1> HIDE DEF c
<1>7. x = y
  <2>1. Off <= Len(c)
    BY <1>1, <1>5
  <2>3. IsSeq(x) /\ Len(x) = Off /\ \A j \in 1 .. Off : x[j] = c[j]
    BY <1>1, <1>5, <2>1, SubFront
  <2> HIDE DEF x
  <2>4. ASSUME NEW j \in 1 .. Len(x) PROVE x[j] = y[j]
    <3>1. j \in 1 .. Off /\ j \in 1 .. Pad /\ j \in 1 .. Pad + Len(u) /\ j <= Pad
      BY <1>1, <2>3
    <3> QED  BY <1>2, <1>3, <1>5, <2>3, <3>1
  <2> QED  BY <1>3, <2>3, <2>4, SeqEq
<1> QED  BY <1>4, <1>6, <1>7 DEF z, y

(* What opening gives, whatever is in front of the body.                   *)
BoxResult(k, n, body, mac, m) ==
  IF mac = BoxTag(k, n, body) THEN [ret |-> 0, m |-> Zeros(Pad) \o BoxText(k, n, body)]
                              ELSE [ret |-> -1, m |-> m]

LEMMA OpenIs ==
  ASSUME NEW m, NEW f, IsSeq(f), Len(f) = Pad, NEW body, IsSeq(body),
         NEW mac, IsSeq(mac), Len(mac) = MacBytes, NEW n, NEW k
  PROVE  crypto_secretbox_open_detached(m, f \o body, mac, n, k) = BoxResult(k, n, body, mac, m)
<1> DEFINE z == Zeros(Pad)
           c == f \o body
           sub == hsalsa20(k, n[1])
           x == salsa20(z, sub, n[2], 0)
           y == OneTime(k, n)
           t == BoxTag(k, n, body)
           v == cmp_bytes(mac, t)
<1>1. IsSeq(z) /\ Len(z) = Pad /\ \A j \in 1 .. Pad : z[j] = {}
  BY Sizes, ZerosLen
<1>2. x = y
  <2> DEFINE e == <<>>
  <2>1. IsSeq(e) /\ Len(e) = 0
    BY SeqEmpty
  <2>2. z \o e = z
    <3> HIDE DEF z, e
    <3> DEFINE s == z \o e
    <3>0. Pad \in Nat /\ Pad + 0 = Pad
      BY Sizes
    <3>1. IsSeq(s) /\ Len(s) = Pad + 0 /\ \A j \in 1 .. Pad + 0 : s[j] = IF j <= Pad THEN z[j] ELSE e[j - Pad]
      BY <1>1, <2>1, SeqCat
    <3> HIDE DEF s
    <3>2. \A j \in 1 .. Pad : s[j] = z[j]
      BY <3>0, <3>1
    <3>3. s = z
      BY <1>1, <3>0, <3>1, <3>2, SeqEq
    <3> QED  BY <3>3 DEF s
  <2> HIDE DEF e, z
  <2>3. SalsaOf(k, n, z, e, salsa20(z \o e, hsalsa20(k, n[1]), n[2], 0))
    BY <1>1, <2>1, SalsaIs
  <2>4. IsSeq(x) /\ Len(x) = Pad /\ \A j \in 1 .. Pad : x[j] = SymDiff(z[j], {BoxAt(k, n, j)})
    <3>1. SalsaOf(k, n, z, e, x)
      BY <2>2, <2>3
    <3>2. Pad + 0 = Pad
      BY Sizes
    <3> HIDE DEF x
    <3> QED  BY <2>1, <3>1, <3>2 DEF SalsaOf
  <2>5. IsSeq(y) /\ Len(y) = Pad /\ \A j \in 1 .. Pad : y[j] = {BoxAt(k, n, j)}
    BY OneTimeIs
  <2> HIDE DEF x, y
  <2>6. ASSUME NEW j \in 1 .. Len(x) PROVE x[j] = y[j]
    BY <1>1, <2>4, <2>5, XorTwice
  <2> QED  BY <2>4, <2>5, <2>6, SeqEq
<1>3. SubSeq(c, Pad + 1, Len(c)) = body
  <2>1. Len(c) = Pad + Len(body)
    BY SeqCat
  <2> QED  BY <2>1, SubBack
<1>4. set_zero_bytes(salsa20(c, sub, n[2], 0)) = z \o BoxText(k, n, body)
  <2>1. SalsaOf(k, n, f, body, salsa20(c, sub, n[2], 0))
    BY SalsaIs
  <2> QED  BY <2>1 DEF SalsaOf
<1>5. v = IF mac = t THEN 0 ELSE 255
  <2>1. IsSeq(t) /\ Len(t) = MacBytes
    BY FinishIs DEF BoxTag
  <2> HIDE DEF t
  <2> QED  BY <2>1, CmpIs
<1>6. crypto_secretbox_open_detached(m, c, mac, n, k) =
        crypto_secretbox_open_detached_decrypt(m, c, n, sub, v)
  <2>1. crypto_onetimeauth(body, y) = t
    BY DEF crypto_onetimeauth, BoxTag, BoxAcc
  <2>2. crypto_secretbox_open_detached(m, c, mac, n, k) =
          crypto_secretbox_open_detached_decrypt(m, c, n, sub,
            cmp_bytes(mac, crypto_onetimeauth(SubSeq(c, Pad + 1, Len(c)), x)))
    BY DEF crypto_secretbox_open_detached
  <2> HIDE DEF c, t, x, y, sub
  <2> QED  BY <1>2, <1>3, <2>1, <2>2
<1> HIDE DEF v, t, c, sub, z
<1>7. CASE mac = t
  <2>1. v = 0
    BY <1>5, <1>7
  <2> QED  BY <1>4, <1>6, <1>7, <2>1 DEF crypto_secretbox_open_detached_decrypt, BoxResult, t, c, z
<1>8. CASE mac # t
  <2>1. v # 0
    BY <1>5, <1>8
  <2> QED  BY <1>6, <1>8, <2>1 DEF crypto_secretbox_open_detached_decrypt, BoxResult, t, c
<1> QED  BY <1>7, <1>8
-----------------------------------------------------------------------------
(* The AEAD.                                                               *)

AeadState(k, n) == setup("chacha20", k, n, 0)
AeadAt(k, n, i) == StreamAt(AeadState(k, n), 1, i)
AeadOneTime(k, n) == [j \in 1 .. KeyBytes |-> {Atom(AeadState(k, n), 0, j)}]
AeadText(k, n, m) == ModeOf(m, AeadState(k, n), 1)
AeadAcc(aad, c) ==
  Append(blocks_continue(blocks_continue(<<>>, aad), c), encode_length(Len(aad), Len(c)))
AeadTag(k, n, aad, c) == finish(AeadAcc(aad, c), AeadOneTime(k, n))

LEMMA AeadTextIs ==
  ASSUME NEW k, NEW n, NEW m, IsSeq(m)
  PROVE  /\ IsSeq(AeadText(k, n, m)) /\ Len(AeadText(k, n, m)) = Len(m)
         /\ \A j \in 1 .. Len(m) : AeadText(k, n, m)[j] = SymDiff(m[j], {AeadAt(k, n, j)})
<1>1. IsSeq(AeadText(k, n, m)) /\ Len(AeadText(k, n, m)) = Len(m)
  BY ModeLen DEF AeadText
<1>2. \A j \in 1 .. Len(m) : AeadText(k, n, m)[j] = SymDiff(m[j], {AeadAt(k, n, j)})
  BY DEF AeadText, AeadAt, ModeOf
<1> QED  BY <1>1, <1>2

LEMMA AeadTextTwice ==
  ASSUME NEW k, NEW n, NEW m, IsSeq(m)
  PROVE  AeadText(k, n, AeadText(k, n, m)) = m
<1> DEFINE u == AeadText(k, n, m)
           v == AeadText(k, n, u)
<1>1. IsSeq(u) /\ Len(u) = Len(m) /\ \A j \in 1 .. Len(m) : u[j] = SymDiff(m[j], {AeadAt(k, n, j)})
  BY AeadTextIs
<1> HIDE DEF u
<1>2. IsSeq(v) /\ Len(v) = Len(u) /\ \A j \in 1 .. Len(u) : v[j] = SymDiff(u[j], {AeadAt(k, n, j)})
  <2>1. IsSeq(u)
    BY <1>1
  <2> QED  BY <2>1, AeadTextIs
<1> HIDE DEF v
<1>3. ASSUME NEW j \in 1 .. Len(v) PROVE v[j] = m[j]
  <2>1. v[j] = SymDiff(u[j], {AeadAt(k, n, j)})
    BY <1>2
  <2>2. u[j] = SymDiff(m[j], {AeadAt(k, n, j)})
    BY <1>1, <1>2
  <2> QED  BY <2>1, <2>2, XorTwice
<1>4. v = m
  BY <1>1, <1>2, <1>3, SeqEq
<1> QED  BY <1>4 DEF u, v

LEMMA AeadOneTimeIs ==
  ASSUME NEW k, NEW n
  PROVE  /\ IsSeq(AeadOneTime(k, n)) /\ Len(AeadOneTime(k, n)) = Pad
         /\ \A j \in 1 .. Pad : AeadOneTime(k, n)[j] = {Atom(AeadState(k, n), 0, j)}
         /\ SubSeq(chacha20_key_block(k, n, 0), 1, KeyBytes) = AeadOneTime(k, n)
<1> DEFINE f == AeadOneTime(k, n)
           b == chacha20_key_block(k, n, 0)
           x == SubSeq(b, 1, KeyBytes)
<1>1. f = [j \in 1 .. Pad |-> f[j]] /\ \A j \in 1 .. Pad : f[j] = {Atom(AeadState(k, n), 0, j)}
  BY DEF AeadOneTime, Pad
<1>2. b = [j \in 1 .. Block |-> b[j]] /\ \A j \in 1 .. Block : b[j] = {Atom(AeadState(k, n), 0, j)}
  BY DEF chacha20_key_block, core, Keystream, Atom, AeadState
<1> HIDE DEF f, b
<1>3. IsSeq(f) /\ Len(f) = Pad
  BY <1>1, FunSeq, Sizes
<1>4. IsSeq(b) /\ Len(b) = Block
  BY <1>2, FunSeq, BlockPos
<1>5. KeyBytes \in Nat /\ KeyBytes <= Len(b) /\ KeyBytes = Pad
  BY <1>4, Sizes
<1>6. IsSeq(x) /\ Len(x) = KeyBytes /\ \A j \in 1 .. KeyBytes : x[j] = b[j]
  BY <1>4, <1>5, SubFront
<1> HIDE DEF x
<1>7. ASSUME NEW j \in 1 .. Len(x) PROVE x[j] = f[j]
  <2>1. j \in 1 .. Pad /\ j \in 1 .. Block /\ j \in 1 .. KeyBytes
    BY <1>4, <1>5, <1>6, BlockPos
  <2> QED  BY <1>1, <1>2, <1>6, <2>1
<1>8. x = f
  BY <1>3, <1>5, <1>6, <1>7, SeqEq
<1> QED  BY <1>1, <1>3, <1>8 DEF f, x, b

LEMMA AeadPolyIs ==
  ASSUME NEW c, NEW aad, NEW k, NEW n
  PROVE  aead_encrypt_poly(c, aad, chacha20_key_block(k, n, 0)) = AeadTag(k, n, aad, c)
BY AeadOneTimeIs DEF aead_encrypt_poly, AeadTag, AeadAcc

LEMMA SealAeadIs ==
  ASSUME NEW m, IsSeq(m), NEW aad, NEW k, NEW n
  PROVE  LET u == AeadText(k, n, m)
         IN aead_encrypt(m, aad, k, n) = [c |-> u, mac |-> AeadTag(k, n, aad, u)]
<1>1. chacha20(m, k, n, 1) = AeadText(k, n, m)
  BY ModeIs DEF chacha20, AeadText, AeadState
<1> QED  BY <1>1, AeadPolyIs DEF aead_encrypt

AeadResult(k, n, aad, body, mac, m) ==
  IF mac = AeadTag(k, n, aad, body) THEN [ret |-> 0, m |-> AeadText(k, n, body)]
                                    ELSE [ret |-> 1, m |-> m]

LEMMA OpenAeadIs ==
  ASSUME NEW m, NEW c, IsSeq(c), NEW mac, IsSeq(mac), Len(mac) = MacBytes, NEW aad, NEW k, NEW n
  PROVE  aead_decrypt(m, c, mac, aad, k, n) = AeadResult(k, n, aad, c, mac, m)
<1> DEFINE t == AeadTag(k, n, aad, c)
           v == cmp_bytes(mac, t)
<1>1. chacha20(c, k, n, 1) = AeadText(k, n, c)
  BY ModeIs DEF chacha20, AeadText, AeadState
<1>2. aead_decrypt(m, c, mac, aad, k, n) = IF v = 0 THEN [ret |-> 0, m |-> AeadText(k, n, c)]
                                                    ELSE [ret |-> 1, m |-> m]
  BY <1>1, AeadPolyIs DEF aead_decrypt
<1>3. v = IF mac = t THEN 0 ELSE 255
  <2>1. IsSeq(t) /\ Len(t) = MacBytes
    BY FinishIs DEF AeadTag
  <2> HIDE DEF t
  <2> QED  BY <2>1, CmpIs
<1> HIDE DEF v, t
<1>4. CASE mac = t
  BY <1>2, <1>3, <1>4 DEF AeadResult, t
<1>5. CASE mac # t
  BY <1>2, <1>3, <1>5 DEF AeadResult, t
<1> QED  BY <1>4, <1>5
-----------------------------------------------------------------------------
(* What is authenticated can be read back from the blocks.                 *)

Count(l) == (l \div Poly) + IF l % Poly > 0 THEN 1 ELSE 0

(* s is acc and then the bytes of m by blocks, the last piece in x.        *)
Blocks(acc, m, x, s) ==
  /\ IsSeq(s) /\ Len(s) = Len(acc) + Count(Len(m))
  /\ \A i \in 1 .. Len(acc) : s[i] = acc[i]
  /\ \A k \in 1 .. Len(m) : s[Len(acc) + (((k - 1) \div Poly) + 1)][((k - 1) % Poly) + 1] = m[k]
  /\ \A i \in 1 .. Len(m) \div Poly : Len(s[Len(acc) + i]) = Poly
  /\ Len(m) % Poly > 0 => s[Len(acc) + ((Len(m) \div Poly) + 1)] = x

LEMMA BlocksAre ==
  ASSUME NEW acc, IsSeq(acc), NEW m, IsSeq(m), NEW x,
         \A j \in 1 .. Len(m) % Poly : x[j] = Rest(m, Poly)[j]
  PROVE  LET p == poly1305_blocks(acc, m, Len(m) \div Poly)
         IN Blocks(acc, m, x, IF Len(Rest(m, Poly)) = 0 THEN p ELSE Append(p, x))
<1> DEFINE b == Poly
           l == Len(m)
           n == l \div b
           r == l % b
           y == n * b
           a == Len(acc)
           q == [i \in 1 .. n |-> Piece(m, b, i)]
           p == acc \o q
           s == IF Len(Rest(m, b)) = 0 THEN p ELSE Append(p, x)
<1>1. b \in Nat \ {0} /\ a \in Nat
  BY Sizes, SeqIs
<1>2. /\ n \in Nat /\ r \in 0 .. b - 1 /\ l = y + r /\ y \in Nat
      /\ Len(Rest(m, b)) = r
      /\ \A j \in 1 .. r : Rest(m, b)[j] = m[y + j]
  BY <1>1, RestIs
<1>3. poly1305_blocks(acc, m, n) = p
  BY DEF poly1305_blocks
<1>4. s = IF r = 0 THEN p ELSE Append(p, x)
  BY <1>2
<1>5. ASSUME NEW c \in Nat, c < n
      PROVE  Len(q[c + 1]) = b /\ \A j \in 1 .. b : q[c + 1][j] = m[c * b + j]
  <2>1. q[c + 1] = Piece(m, b, c + 1)
    BY <1>2, <1>5
  <2> HIDE DEF q
  <2>2. (c + 1) * b <= Len(m)
    <3> HIDE DEF n, b, r, y, l
    <3>1. (c + 1) * b <= n * b /\ (c + 1) * b \in Nat /\ n * b = y
      BY <1>1, <1>2, <1>5 DEF y
    <3> QED  BY <1>1, <1>2, <3>1 DEF l
  <2> QED  BY <1>1, <2>1, <2>2, PieceIs
<1>6. IsSeq(q) /\ Len(q) = n
  <2>1. q = [i \in 1 .. n |-> q[i]]
    OBVIOUS
  <2> HIDE DEF q, n
  <2> QED  BY <1>2, <2>1, FunSeq
<1>7. \A j \in 1 .. r : x[j] = m[y + j]
  BY <1>2
<1> HIDE DEF b, l, n, r, y, a, q
<1>8. IsSeq(p) /\ Len(p) = a + n /\ \A k \in 1 .. a + n : p[k] = IF k <= a THEN acc[k] ELSE q[k - a]
  BY <1>6, SeqCat DEF a
<1> HIDE DEF p
<1>9. /\ IsSeq(s) /\ Len(s) = a + (n + IF r > 0 THEN 1 ELSE 0)
      /\ \A k \in 1 .. a + n : s[k] = p[k]
      /\ r > 0 => s[(a + n) + 1] = x
  <2>1. CASE r = 0
    BY <1>1, <1>2, <1>4, <1>8, <2>1
  <2>2. CASE r # 0
    <3>1. s = Append(p, x) /\ r > 0
      BY <1>1, <1>2, <1>4, <2>2
    <3> HIDE DEF s
    <3>2. IsSeq(s) /\ Len(s) = (a + n) + 1 /\ (\A k \in 1 .. a + n : s[k] = p[k]) /\ s[(a + n) + 1] = x
      BY <1>8, <3>1, SeqAppend
    <3> QED  BY <1>1, <1>2, <3>1, <3>2
  <2> QED  BY <2>1, <2>2
<1> HIDE DEF s
<1>10. \A i \in 1 .. a : s[i] = acc[i]
  <2> SUFFICES ASSUME NEW i \in 1 .. a PROVE s[i] = acc[i]
    OBVIOUS
  <2>1. i \in 1 .. a + n /\ i <= a
    BY <1>1, <1>2
  <2> QED  BY <1>8, <1>9, <2>1
<1>11. ASSUME NEW i \in 1 .. n PROVE s[a + i] = q[i]
  <2>1. a + i \in 1 .. a + n /\ ~(a + i <= a) /\ (a + i) - a = i
    BY <1>1, <1>2
  <2> QED  BY <1>8, <1>9, <2>1
<1>12. \A i \in 1 .. n : Len(s[a + i]) = b
  <2> SUFFICES ASSUME NEW i \in 1 .. n PROVE Len(s[a + i]) = b
    OBVIOUS
  <2>1. i - 1 \in Nat /\ i - 1 < n /\ (i - 1) + 1 = i
    BY <1>2
  <2>2. Len(q[(i - 1) + 1]) = b
    BY <1>5, <2>1
  <2> QED  BY <1>11, <2>1, <2>2
<1>13. r > 0 => s[a + (n + 1)] = x
  <2>1. (a + n) + 1 = a + (n + 1)
    BY <1>1, <1>2
  <2> QED  BY <1>9, <2>1
<1>14. ASSUME NEW k \in 1 .. l PROVE s[a + (((k - 1) \div b) + 1)][((k - 1) % b) + 1] = m[k]
  <2> DEFINE c == (k - 1) \div b
             j == ((k - 1) % b) + 1
  <2>0. k \in Nat \ {0} /\ k \in 1 .. y + r
    BY <1>1, <1>2
  <2>1. c \in Nat /\ j \in 1 .. b /\ k = c * b + j
    BY <1>1, <2>0, PlaceIs
  <2>2. CASE k <= y
    <3> HIDE DEF c, j
    <3>1. c < n
      <4> SUFFICES ASSUME c >= n PROVE FALSE
        BY <1>2, <2>1
      <4>1. c * b >= n * b /\ c * b \in Nat
        BY <1>1, <1>2, <2>1
      <4> DEFINE z == c * b
      <4>2. z >= y /\ z \in Nat /\ k = z + j
        BY <2>1, <4>1 DEF y
      <4> HIDE DEF z
      <4> QED  BY <1>1, <1>2, <2>1, <2>2, <4>2
    <3>2. s[a + (c + 1)] = q[c + 1]
      <4>1. c + 1 \in 1 .. n
        BY <1>2, <2>1, <3>1
      <4> QED  BY <1>11, <4>1
    <3>3. q[c + 1][j] = m[c * b + j]
      BY <1>5, <2>1, <3>1
    <3> QED  BY <2>1, <3>2, <3>3 DEF c, j
  <2>3. CASE ~(k <= y)
    <3> DEFINE i == k - y
    <3>1. i \in 1 .. r /\ k = y + i /\ i \in 1 .. b /\ r > 0
      BY <1>1, <1>2, <2>0, <2>3
    <3>2. c = n /\ j = i
      <4> HIDE DEF i
      <4>1. (n * b + i - 1) \div b = n /\ (((n * b + i) - 1) % b) + 1 = i
        BY <1>1, <1>2, <3>1, PlaceOf
      <4>2. n * b + i - 1 = k - 1 /\ (n * b + i) - 1 = k - 1
        BY <1>2, <3>1 DEF y
      <4> QED  BY <4>1, <4>2
    <3> HIDE DEF c, j, i
    <3>3. s[a + (c + 1)] = x /\ x[j] = m[y + i]
      BY <1>7, <1>13, <3>1, <3>2
    <3> QED  BY <3>1, <3>3 DEF c, j
  <2> QED  BY <2>2, <2>3
<1>15. Blocks(acc, m, x, s)
  BY <1>9, <1>10, <1>12, <1>13, <1>14 DEF Blocks, Count, b, l, n, r, a
<1> QED  BY <1>3, <1>15 DEF s, p, b, l, n
LEMMA CountOf ==
  ASSUME NEW l \in Nat
  PROVE  /\ Count(l) \in Nat /\ l \div Poly \in Nat /\ l % Poly \in Nat
         /\ \A k \in 1 .. l : ((k - 1) \div Poly) + 1 \in 1 .. Count(l)
<1> DEFINE b == Poly
           n == l \div b
           r == l % b
           y == n * b
<1>0. b \in Nat \ {0}
  BY Sizes
<1>1. n \in Nat /\ r \in 0 .. b - 1 /\ l = y + r
  BY <1>0
<1>2. y \in Nat
  <2> HIDE DEF n, b
  <2> QED  BY <1>0, <1>1
<1>3. Count(l) = n + (IF r > 0 THEN 1 ELSE 0)
  BY DEF Count
<1> HIDE DEF n, r, b
<1>4. ASSUME NEW k \in 1 .. l PROVE ((k - 1) \div b) + 1 \in 1 .. Count(l)
  <2> DEFINE c == (k - 1) \div b
             j == ((k - 1) % b) + 1
             z == c * b
  <2>1. c \in Nat /\ j \in 1 .. b /\ k = z + j
    BY <1>0, PlaceIs
  <2> HIDE DEF c, j
  <2>2. z \in Nat
    BY <1>0, <2>1
  <2>3. CASE c < n
    BY <1>1, <1>3, <2>1, <2>3 DEF c
  <2>4. CASE c = n
    <3>1. z = y
      BY <2>4
    <3> HIDE DEF z, y
    <3>2. r > 0
      BY <1>0, <1>1, <1>2, <2>1, <2>2, <3>1
    <3> QED  BY <1>1, <1>3, <2>1, <2>4, <3>2 DEF c
  <2>5. CASE c > n
    <3>1. (n + 1) * b <= c * b /\ (n + 1) * b = y + b
      BY <1>0, <1>1, <2>1, <2>5
    <3>2. y + b <= z
      BY <3>1
    <3> HIDE DEF z, y
    <3> QED  BY <1>0, <1>1, <1>2, <2>1, <2>2, <3>2
  <2> QED  BY <1>1, <2>1, <2>3, <2>4, <2>5
<1> QED  BY <1>1, <1>3, <1>4 DEF n, r, b

(* The blocks of a box, and of the parts of the AEAD's data.               *)
LEMMA BoxAccIs ==
  ASSUME NEW m, IsSeq(m)
  PROVE  Blocks(<<>>, m, Rest(m, Poly), BoxAcc(m))
<1> DEFINE p == poly1305_blocks(<<>>, m, Len(m) \div Poly)
           x == Rest(m, Poly)
<1>1. BoxAcc(m) = IF Len(x) = 0 THEN p ELSE Append(p, x)
  BY DEF BoxAcc, process_last_block
<1>2. Blocks(<<>>, m, x, IF Len(x) = 0 THEN p ELSE Append(p, x))
  BY SeqEmpty, BlocksAre
<1> QED  BY <1>1, <1>2

LEMMA PaddedIs ==
  ASSUME NEW acc, IsSeq(acc), NEW m, IsSeq(m)
  PROVE  \E x : Blocks(acc, m, x, blocks_continue(acc, m))
<1> DEFINE p == poly1305_blocks(acc, m, Len(m) \div Poly)
           v == Rest(m, Poly)
           z == Zeros(Poly - Len(v))
           x == v \o z
<1>1. blocks_continue(acc, m) = IF Len(v) = 0 THEN p ELSE Append(p, x)
  BY DEF blocks_continue, pad_last
<1>2. IsSeq(v) /\ Len(v) = Len(m) % Poly /\ Len(m) % Poly \in 0 .. Poly - 1
  BY Sizes, RestIs
<1>3. IsSeq(z) /\ Len(z) \in Nat
  <2>1. Poly - Len(v) \in Nat
    BY <1>2, Sizes
  <2> QED  BY <2>1, ZerosLen
<1> HIDE DEF z
<1>4. \A j \in 1 .. Len(m) % Poly : x[j] = v[j]
  <2>1. \A j \in 1 .. Len(v) + Len(z) : x[j] = IF j <= Len(v) THEN v[j] ELSE z[j - Len(v)]
    BY <1>2, <1>3, SeqCat
  <2> HIDE DEF x, v
  <2> QED  BY <1>2, <1>3, <2>1
<1> HIDE DEF x
<1>5. Blocks(acc, m, x, IF Len(v) = 0 THEN p ELSE Append(p, x))
  BY <1>4, BlocksAre
<1> QED  BY <1>1, <1>5

(* Poly1305 is given the length with the blocks: the last is short, or not.*)
LEMMA BoxAccOnce ==
  ASSUME NEW m, IsSeq(m), NEW w, IsSeq(w), BoxAcc(m) = BoxAcc(w)
  PROVE  m = w
<1> DEFINE b == Poly
           s == BoxAcc(m)
           N(q) == Len(q) \div b
           R(q) == Len(q) % b
           Is(q) == /\ Len(s) = N(q) + (IF R(q) > 0 THEN 1 ELSE 0)
                    /\ \A k \in 1 .. Len(q) : s[((k - 1) \div b) + 1][((k - 1) % b) + 1] = q[k]
                    /\ \A i \in 1 .. N(q) : Len(s[i]) = b
                    /\ R(q) > 0 => Len(s[N(q) + 1]) = R(q)
<1>0. b \in Nat \ {0}
  BY Sizes
<1>1. ASSUME NEW q, IsSeq(q), BoxAcc(q) = s
      PROVE  Is(q) /\ N(q) \in Nat /\ R(q) \in 0 .. b - 1 /\ Len(q) = N(q) * b + R(q)
  <2> DEFINE e == <<>>
             x == Rest(q, b)
  <2>1. Blocks(e, q, x, s)
    BY <1>1, BoxAccIs
  <2>2. Len(x) = R(q) /\ N(q) \in Nat /\ R(q) \in 0 .. b - 1 /\ Len(q) = N(q) * b + R(q)
    BY <1>0, <1>1, RestIs
  <2>3. Len(e) = 0 /\ \A i \in Int : 0 + i = i
    BY SeqEmpty
  <2>4. Count(Len(q)) \in Int /\ \A k \in 1 .. Len(q) : ((k - 1) \div b) + 1 \in Int
    BY <1>0, <1>1, SeqIs, CountOf
  <2> HIDE DEF e, x, s
  <2>5. /\ Len(s) = Count(Len(q))
        /\ \A k \in 1 .. Len(q) : s[((k - 1) \div b) + 1][((k - 1) % b) + 1] = q[k]
    BY <2>1, <2>3, <2>4 DEF Blocks
  <2>6. \A i \in 1 .. N(q) : Len(s[i]) = b
    BY <2>1, <2>2, <2>3 DEF Blocks
  <2>7. R(q) > 0 => s[N(q) + 1] = x
    <3>1. R(q) > 0 => s[0 + (N(q) + 1)] = x
      BY <2>1, <2>3 DEF Blocks
    <3> QED  BY <2>2, <3>1
  <2> QED  BY <2>2, <2>5, <2>6, <2>7 DEF Count
<1>2. Is(m) /\ N(m) \in Nat /\ R(m) \in 0 .. b - 1 /\ Len(m) = N(m) * b + R(m)
  BY <1>1
<1>3. Is(w) /\ N(w) \in Nat /\ R(w) \in 0 .. b - 1 /\ Len(w) = N(w) * b + R(w)
  BY <1>1
<1> HIDE DEF s, b, N, R
<1>4. N(m) = N(w) /\ R(m) = R(w)
  <2>1. CASE R(m) > 0 /\ R(w) > 0
    BY <1>0, <1>2, <1>3, <2>1
  <2>2. CASE R(m) > 0 /\ ~(R(w) > 0)
    <3>1. N(w) = N(m) + 1 /\ N(w) \in 1 .. N(w)
      BY <1>0, <1>2, <1>3, <2>2
    <3>2. Len(s[N(w)]) = b /\ Len(s[N(w)]) = R(m)
      BY <1>2, <1>3, <2>2, <3>1
    <3> QED  BY <1>0, <1>2, <3>2
  <2>3. CASE ~(R(m) > 0) /\ R(w) > 0
    <3>1. N(m) = N(w) + 1 /\ N(m) \in 1 .. N(m)
      BY <1>0, <1>2, <1>3, <2>3
    <3>2. Len(s[N(m)]) = b /\ Len(s[N(m)]) = R(w)
      BY <1>2, <1>3, <2>3, <3>1
    <3> QED  BY <1>0, <1>3, <3>2
  <2>4. CASE ~(R(m) > 0) /\ ~(R(w) > 0)
    BY <1>0, <1>2, <1>3, <2>4
  <2> QED  BY <2>1, <2>2, <2>3, <2>4
<1>5. Len(m) = Len(w)
  BY <1>2, <1>3, <1>4
<1>6. \A k \in 1 .. Len(m) : m[k] = w[k]
  BY <1>2, <1>3, <1>5
<1> QED  BY <1>5, <1>6, SeqEq

(* The AEAD pads, and authenticates both lengths.                          *)
ReadBack(q, p, s) ==
  /\ \A k \in 1 .. Len(q) : s[((k - 1) \div Poly) + 1][((k - 1) % Poly) + 1] = q[k]
  /\ \A k \in 1 .. Len(p) :
       s[Count(Len(q)) + (((k - 1) \div Poly) + 1)][((k - 1) % Poly) + 1] = p[k]

LEMMA AeadAccOnce ==
  ASSUME NEW a, IsSeq(a), NEW c, IsSeq(c), NEW d, IsSeq(d), NEW e, IsSeq(e), AeadAcc(a, c) = AeadAcc(d, e)
  PROVE  a = d /\ c = e
<1> DEFINE B(q) == blocks_continue(<<>>, q)
           S(q, p) == blocks_continue(B(q), p)
           L(q, p) == encode_length(Len(q), Len(p))
<1>1. ASSUME NEW q, IsSeq(q), NEW p, IsSeq(p)
      PROVE  IsSeq(S(q, p)) /\ ReadBack(q, p, S(q, p))
  <2> DEFINE z == <<>>
             u == B(q)
             v == S(q, p)
             n == Count(Len(q))
  <2>1. IsSeq(z) /\ Len(z) = 0
    BY SeqEmpty
  <2>2. PICK x : Blocks(z, q, x, u)
    BY <1>1, <2>1, PaddedIs
  <2> HIDE DEF z
  <2>3. n \in Nat /\ \A k \in 1 .. Len(q) : ((k - 1) \div Poly) + 1 \in 1 .. n
    BY <1>1, SeqIs, CountOf
  <2> HIDE DEF u, n
  <2>4. /\ IsSeq(u) /\ Len(u) = n
        /\ \A k \in 1 .. Len(q) : u[((k - 1) \div Poly) + 1][((k - 1) % Poly) + 1] = q[k]
    <3>1. 0 + n = n /\ \A k \in 1 .. Len(q) : 0 + (((k - 1) \div Poly) + 1) = ((k - 1) \div Poly) + 1
      BY <2>3
    <3> QED  BY <2>1, <2>2, <3>1 DEF Blocks, n
  <2>5. PICK x2 : Blocks(u, p, x2, v)
    BY <1>1, <2>4, PaddedIs DEF u
  <2> HIDE DEF v
  <2>6. /\ IsSeq(v) /\ \A i \in 1 .. n : v[i] = u[i]
        /\ \A k \in 1 .. Len(p) : v[n + (((k - 1) \div Poly) + 1)][((k - 1) % Poly) + 1] = p[k]
    BY <2>4, <2>5 DEF Blocks
  <2>7. \A k \in 1 .. Len(q) : v[((k - 1) \div Poly) + 1][((k - 1) % Poly) + 1] = q[k]
    BY <2>3, <2>4, <2>6
  <2> QED  BY <2>6, <2>7 DEF u, v, n, ReadBack
<1>2. Append(S(a, c), L(a, c)) = Append(S(d, e), L(d, e))
  BY DEF AeadAcc
<1> HIDE DEF S, B
<1>3. IsSeq(S(a, c)) /\ IsSeq(S(d, e))
  BY <1>1
<1>4. S(a, c) = S(d, e) /\ L(a, c) = L(d, e)
  <2> DEFINE u == S(a, c)
             v == S(d, e)
             x == L(a, c)
             y == L(d, e)
             f == Append(u, x)
             g == Append(v, y)
  <2>0. f = g /\ IsSeq(u) /\ IsSeq(v)
    BY <1>2, <1>3
  <2> HIDE DEF u, v, x, y
  <2>1. Len(f) = Len(u) + 1 /\ (\A k \in 1 .. Len(u) : f[k] = u[k]) /\ f[Len(u) + 1] = x
    BY <2>0, SeqAppend
  <2>2. Len(g) = Len(v) + 1 /\ (\A k \in 1 .. Len(v) : g[k] = v[k]) /\ g[Len(v) + 1] = y
    BY <2>0, SeqAppend
  <2> HIDE DEF f, g
  <2>3. Len(u) = Len(v)
    BY <2>0, <2>1, <2>2, SeqIs
  <2>4. x = y /\ u = v
    BY <2>0, <2>1, <2>2, <2>3, SeqEq
  <2> QED  BY <2>4 DEF u, v, x, y
<1>5. Len(a) = Len(d) /\ Len(c) = Len(e)
  <2>1. 1 \in 1 .. Poly
    BY Sizes
  <2>2. L(a, c)[1] = {<<"lengths", Len(a), Len(c), 1>>} /\ L(d, e)[1] = {<<"lengths", Len(d), Len(e), 1>>}
    BY <2>1 DEF encode_length
  <2> HIDE DEF L
  <2>3. <<"lengths", Len(a), Len(c), 1>> = <<"lengths", Len(d), Len(e), 1>>
    BY <1>4, <2>2
  <2> QED  BY <2>3
<1> DEFINE s == S(a, c)
<1>6. ReadBack(a, c, s)
  BY <1>1
<1>7. ReadBack(d, e, s)
  BY <1>1, <1>4
<1> HIDE DEF s
<1>8. a = d
  <2>1. \A k \in 1 .. Len(a) : a[k] = d[k]
    BY <1>5, <1>6, <1>7 DEF ReadBack
  <2> QED  BY <1>5, <2>1, SeqEq
<1>9. c = e
  <2>1. \A k \in 1 .. Len(c) : c[k] = e[k]
    BY <1>5, <1>6, <1>7 DEF ReadBack
  <2> QED  BY <1>5, <2>1, SeqEq
<1> QED  BY <1>8, <1>9
-----------------------------------------------------------------------------
(* Keys, and the keystream under them.                                     *)

IsPair(key) == \E p, q \in Party : p # q /\ key = PairKey(p, q)
IsKey(key) == key = SecretKey \/ key = AeadKey \/ IsPair(key)

(* The key a box is sealed under: given, or agreed on by a pair.           *)
Agreed(S) == hsalsa20(<<"point", [x \in Party |-> IF x \in S THEN 1 ELSE 0]>>, 0)
Real(key) == IF key = SecretKey THEN SecretKey ELSE Agreed(key[2])

LEMMA KeysApart ==
  /\ SecretKey # AeadKey
  /\ \A key : IsPair(key) => key # SecretKey /\ key # AeadKey
BY DEF SecretKey, AeadKey, IsPair, PairKey

(* Both ends of a pair compute the same key.                               *)
LEMMA PairIs ==
  ASSUME NEW p \in Party, NEW q \in Party, p # q
  PROVE  /\ IsPair(PairKey(p, q)) /\ PairKey(p, q) = PairKey(q, p)
         /\ hsalsa20(<<"point", crypto_scalarmult(p, crypto_box_keypair(q))>>, 0) = Real(PairKey(p, q))
         /\ crypto_box_beforenm(crypto_box_keypair(q), p) = Real(PairKey(p, q))
<1> DEFINE f == crypto_scalarmult(p, crypto_box_keypair(q))
           g == [x \in Party |-> IF x \in {p, q} THEN 1 ELSE 0]
<1>1. IsPair(PairKey(p, q)) /\ PairKey(p, q) = PairKey(q, p) /\ PairKey(p, q)[2] = {p, q}
  BY DEF IsPair, PairKey
<1>2. f = g
  <2>1. f = [Base EXCEPT ![q] = 0 + 1, ![p] = 0 + 1]
    BY DEF crypto_scalarmult, crypto_box_keypair, Base
  <2> QED  BY <2>1 DEF Base
<1>3. Real(PairKey(p, q)) = hsalsa20(<<"point", g>>, 0)
  BY <1>1, KeysApart DEF Real, Agreed
<1> QED  BY <1>1, <1>2, <1>3 DEF crypto_box_beforenm

(* Different keys stay different.                                          *)
LEMMA RealOnce ==
  ASSUME NEW k, IsKey(k), k # AeadKey, NEW l, IsKey(l), l # AeadKey, Real(k) = Real(l)
  PROVE  k = l
<1>1. \A S : Agreed(S) # SecretKey
  BY DEF Agreed, hsalsa20, SecretKey
<1>2. ASSUME NEW a, NEW b, IsPair(a), IsPair(b), Real(a) = Real(b) PROVE a = b
  <2> DEFINE F(S) == [x \in Party |-> IF x \in S THEN 1 ELSE 0]
  <2>1. PICK p \in Party, q \in Party : p # q /\ a = PairKey(p, q)
    BY <1>2 DEF IsPair
  <2>2. PICK u \in Party, v \in Party : u # v /\ b = PairKey(u, v)
    BY <1>2 DEF IsPair
  <2>3. Real(a) = Agreed({p, q}) /\ Real(b) = Agreed({u, v})
    BY <1>2, <2>1, <2>2, KeysApart DEF Real, PairKey
  <2>4. F({p, q}) = F({u, v})
    <3> HIDE DEF F
    <3>1. hsalsa20(<<"point", F({p, q})>>, 0) = hsalsa20(<<"point", F({u, v})>>, 0)
      BY <1>2, <2>3 DEF Agreed, F
    <3> QED  BY <3>1 DEF hsalsa20
  <2>5. \A x \in Party : x \in {p, q} <=> x \in {u, v}
    <3> SUFFICES ASSUME NEW x \in Party PROVE x \in {p, q} <=> x \in {u, v}
      OBVIOUS
    <3>1. F({p, q})[x] = (IF x \in {p, q} THEN 1 ELSE 0) /\ F({u, v})[x] = (IF x \in {u, v} THEN 1 ELSE 0)
      OBVIOUS
    <3> HIDE DEF F
    <3> QED  BY <2>4, <3>1
  <2>6. {p, q} = {u, v}
    BY <2>5
  <2> QED  BY <2>1, <2>2, <2>6 DEF PairKey
<1>3. CASE k = SecretKey
  BY <1>1, <1>3, KeysApart DEF IsKey, Real
<1>4. CASE l = SecretKey
  BY <1>1, <1>4, KeysApart DEF IsKey, Real
<1>5. CASE k # SecretKey /\ l # SecretKey
  BY <1>2, <1>5 DEF IsKey
<1> QED  BY <1>3, <1>4, <1>5

(* An atom of keystream: block c, byte i.                                  *)
Cell(key, n, c, i) ==
  IF key = AeadKey THEN <<"ks", "chacha20", AeadKey, n, c, c, i>>
                   ELSE <<"ks", "salsa20", hsalsa20(Real(key), n[1]), n[2], c, c, i>>

KeyAtom(key, n, j) == Cell(key, n, 0, j)
TextAtom(key, n, j) == IF key = AeadKey THEN AeadAt(AeadKey, n, j) ELSE BoxAt(Real(key), n, Pad + j)

LEMMA CellOnce ==
  ASSUME NEW k, IsKey(k), NEW l, IsKey(l), NEW n \in Nonce, NEW o \in Nonce,
         NEW c, NEW i, NEW d, NEW j, Cell(k, n, c, i) = Cell(l, o, d, j)
  PROVE  k = l /\ n = o /\ c = d /\ i = j
<1>1. CASE k = AeadKey /\ l = AeadKey
  BY <1>1 DEF Cell
<1>2. CASE k # AeadKey /\ l # AeadKey
  <2> DEFINE a == hsalsa20(Real(k), n[1])
             b == hsalsa20(Real(l), o[1])
  <2>1. <<"ks", "salsa20", a, n[2], c, c, i>> = <<"ks", "salsa20", b, o[2], d, d, j>>
    BY <1>2 DEF Cell
  <2>2. a = b /\ n[2] = o[2] /\ c = d /\ i = j
    <3> HIDE DEF a, b
    <3> QED  BY <2>1
  <2>3. Real(k) = Real(l) /\ n[1] = o[1]
    BY <2>2 DEF hsalsa20
  <2>4. n = <<n[1], n[2]>> /\ o = <<o[1], o[2]>>
    BY BoxesAssumption
  <2>5. n = o
    BY <2>2, <2>3, <2>4
  <2>6. k = l
    BY <1>2, <2>3, RealOnce
  <2> QED  BY <2>2, <2>5, <2>6
<1>3. CASE k = AeadKey /\ l # AeadKey
  BY <1>3 DEF Cell
<1>4. CASE k # AeadKey /\ l = AeadKey
  BY <1>4 DEF Cell
<1> QED  BY <1>1, <1>2, <1>3, <1>4

(* Byte j of a text is xored with byte i of block c.                       *)
TextPlace(key, c, i, j) ==
  IF key = AeadKey THEN c >= 1 /\ (c - 1) * Block + i = j ELSE c * Block + i = Pad + j

Counted(key, j) == key = AeadKey => j <= (Ctr - 1) * Block

LEMMA BoxCell ==
  ASSUME NEW key, key # AeadKey, NEW n, NEW k \in Nat \ {0}
  PROVE  BoxAt(Real(key), n, k) = Cell(key, n, (k - 1) \div Block, ((k - 1) % Block) + 1)
<1> DEFINE c == (k - 1) \div Block
           i == ((k - 1) % Block) + 1
           st == BoxState(Real(key), n)
<1>1. c \in Nat
  BY BlockPos, PlaceIs
<1>2. st.alg = "salsa20" /\ st.k = hsalsa20(Real(key), n[1]) /\ st.n = n[2]
  BY DEF BoxState, setup
<1> HIDE DEF c, i, st
<1>3. Add("salsa20", 0, c) = c
  BY <1>1 DEF Add
<1>4. StreamAt(st, 0, k) = <<"ks", "salsa20", hsalsa20(Real(key), n[1]), n[2], c, c, i>>
  BY <1>2, <1>3 DEF StreamAt, Atom, c, i
<1> QED  BY <1>4 DEF BoxAt, Cell, c, i, st

LEMMA AeadCell ==
  ASSUME NEW n, NEW k \in Nat \ {0}, k <= (Ctr - 1) * Block
  PROVE  AeadAt(AeadKey, n, k) = Cell(AeadKey, n, ((k - 1) \div Block) + 1, ((k - 1) % Block) + 1)
<1> DEFINE c == (k - 1) \div Block
           i == ((k - 1) % Block) + 1
           st == AeadState(AeadKey, n)
           b == Block
<1>0. b \in Nat \ {0} /\ Ctr \in Nat \ {0}
  BY BlockPos, Sizes
<1>1. c \in Nat /\ i \in 1 .. b /\ k = c * b + i
  BY <1>0, PlaceIs
<1>2. st.alg = "chacha20" /\ st.k = AeadKey /\ st.n = n
  BY DEF AeadState, setup
<1> HIDE DEF c, i, st
<1>3. c < Ctr - 1
  <2> SUFFICES ASSUME c >= Ctr - 1 PROVE FALSE
    BY <1>0, <1>1
  <2> DEFINE z == c * b
             y == (Ctr - 1) * b
  <2>1. y <= z /\ z \in Nat /\ y \in Nat /\ k <= y /\ k = z + i
    BY <1>0, <1>1
  <2> HIDE DEF z, y
  <2> QED  BY <1>0, <1>1, <2>1
<1>4. Add("chacha20", 1, c) = c + 1
  <2>1. 1 + c \in Nat /\ 1 + c < Ctr /\ 1 + c = c + 1
    BY <1>0, <1>1, <1>3
  <2>2. (1 + c) % Ctr = 1 + c
    BY <1>0, <2>1, ModSmall
  <2> QED  BY <2>1, <2>2 DEF Add
<1>5. StreamAt(st, 1, k) = <<"ks", "chacha20", AeadKey, n, c + 1, c + 1, i>>
  BY <1>2, <1>4 DEF StreamAt, Atom, c, i
<1> QED  BY <1>5 DEF AeadAt, Cell, c, i, st

LEMMA TextCell ==
  ASSUME NEW key, NEW n, NEW j \in Nat \ {0}, Counted(key, j)
  PROVE  \E c \in Nat, i \in 1 .. Block : TextAtom(key, n, j) = Cell(key, n, c, i) /\ TextPlace(key, c, i, j)
<1>1. CASE key = AeadKey
  <2> DEFINE c == (j - 1) \div Block
             i == ((j - 1) % Block) + 1
  <2>1. c \in Nat /\ i \in 1 .. Block /\ j = c * Block + i
    BY BlockPos, PlaceIs
  <2>2. TextAtom(key, n, j) = Cell(key, n, c + 1, i)
    BY <1>1, AeadCell DEF TextAtom, Counted
  <2> HIDE DEF c, i
  <2>3. c + 1 \in Nat /\ c + 1 >= 1 /\ (c + 1) - 1 = c
    BY <2>1
  <2>4. TextPlace(key, c + 1, i, j)
    BY <1>1, <2>1, <2>3 DEF TextPlace
  <2> QED  BY <2>1, <2>2, <2>3, <2>4
<1>2. CASE key # AeadKey
  <2> DEFINE k == Pad + j
             c == (k - 1) \div Block
             i == ((k - 1) % Block) + 1
  <2>0. k \in Nat \ {0}
    BY Sizes
  <2>1. c \in Nat /\ i \in 1 .. Block /\ k = c * Block + i
    BY <2>0, BlockPos, PlaceIs
  <2>2. TextAtom(key, n, j) = Cell(key, n, c, i)
    BY <1>2, <2>0, BoxCell DEF TextAtom
  <2> HIDE DEF c, i
  <2>3. TextPlace(key, c, i, j)
    BY <1>2, <2>1 DEF TextPlace
  <2> QED  BY <2>1, <2>2, <2>3
<1> QED  BY <1>1, <1>2

(* No byte of keystream is used at two places.                             *)
LEMMA TextOnce ==
  ASSUME NEW k, IsKey(k), NEW l, IsKey(l), NEW n \in Nonce, NEW o \in Nonce,
         NEW i \in Nat \ {0}, Counted(k, i), NEW j \in Nat \ {0}, Counted(l, j),
         TextAtom(k, n, i) = TextAtom(l, o, j)
  PROVE  k = l /\ n = o /\ i = j
<1>1. PICK c \in Nat, u \in 1 .. Block : TextAtom(k, n, i) = Cell(k, n, c, u) /\ TextPlace(k, c, u, i)
  BY TextCell
<1>2. PICK d \in Nat, v \in 1 .. Block : TextAtom(l, o, j) = Cell(l, o, d, v) /\ TextPlace(l, d, v, j)
  BY TextCell
<1>3. k = l /\ n = o /\ c = d /\ u = v
  <2>1. Cell(k, n, c, u) = Cell(l, o, d, v)
    BY <1>1, <1>2
  <2> QED  BY <2>1, CellOnce
<1>4. TextPlace(k, c, u, i) /\ TextPlace(k, c, u, j)
  BY <1>1, <1>2, <1>3
<1>5. i = j
  <2>1. CASE k = AeadKey
    BY <1>4, <2>1 DEF TextPlace
  <2>2. CASE k # AeadKey
    <3> DEFINE z == c * Block + u
    <3>1. z = Pad + i /\ z = Pad + j
      BY <1>4, <2>2 DEF TextPlace
    <3> HIDE DEF z
    <3> QED  BY <3>1, Sizes
  <2> QED  BY <2>1, <2>2
<1> QED  BY <1>3, <1>5

LEMMA KeyTextApart ==
  ASSUME NEW k, IsKey(k), NEW l, IsKey(l), NEW n \in Nonce, NEW o \in Nonce,
         NEW i \in 1 .. Pad, NEW j \in Nat \ {0}, Counted(l, j)
  PROVE  KeyAtom(k, n, i) # TextAtom(l, o, j)
<1> SUFFICES ASSUME KeyAtom(k, n, i) = TextAtom(l, o, j) PROVE FALSE
  OBVIOUS
<1>1. PICK d \in Nat, v \in 1 .. Block : TextAtom(l, o, j) = Cell(l, o, d, v) /\ TextPlace(l, d, v, j)
  BY TextCell
<1>2. Cell(k, n, 0, i) = Cell(l, o, d, v)
  BY <1>1 DEF KeyAtom
<1>3. 0 = d /\ i = v
  BY <1>2, CellOnce
<1>4. TextPlace(l, 0, i, j)
  BY <1>1, <1>3
<1>5. CASE l = AeadKey
  BY <1>4, <1>5 DEF TextPlace
<1>6. CASE l # AeadKey
  <2>1. 0 * Block + i = Pad + j
    BY <1>4, <1>6 DEF TextPlace
  <2> QED  BY <2>1, Sizes, BlockPos
<1> QED  BY <1>5, <1>6
-----------------------------------------------------------------------------
(* Boxes and the AEAD alike.                                               *)

MacKey(key, n) == IF key = AeadKey THEN AeadOneTime(AeadKey, n) ELSE OneTime(Real(key), n)
Text(key, n, m) == IF key = AeadKey THEN AeadText(AeadKey, n, m) ELSE BoxText(Real(key), n, m)
AccOf(key, aad, c) == IF key = AeadKey THEN AeadAcc(aad, c) ELSE BoxAcc(c)
TagFor(key, n, aad, c) == finish(AccOf(key, aad, c), MacKey(key, n))

LEMMA MacKeyIs ==
  ASSUME NEW key, NEW n
  PROVE  /\ IsSeq(MacKey(key, n)) /\ Len(MacKey(key, n)) = Pad
         /\ \A j \in 1 .. Pad : MacKey(key, n)[j] = {KeyAtom(key, n, j)}
<1>1. CASE key = AeadKey
  <2>1. \A j : Atom(AeadState(AeadKey, n), 0, j) = KeyAtom(key, n, j)
    BY <1>1 DEF Atom, AeadState, setup, KeyAtom, Cell
  <2> QED  BY <1>1, <2>1, AeadOneTimeIs DEF MacKey
<1>2. CASE key # AeadKey
  <2> DEFINE f == OneTime(Real(key), n)
  <2>1. IsSeq(f) /\ Len(f) = Pad /\ \A j \in 1 .. Pad : f[j] = {BoxAt(Real(key), n, j)}
    BY OneTimeIs
  <2>2. ASSUME NEW j \in 1 .. Pad PROVE BoxAt(Real(key), n, j) = KeyAtom(key, n, j)
    <3>1. j \in Nat \ {0} /\ j - 1 \in Int /\ j - 1 \in Nat /\ j - 1 < Block /\ (j - 1) + 1 = j
      BY Sizes, BlockPos
    <3>2. (j - 1) \div Block = 0 /\ (j - 1) % Block = j - 1
      <4>1. j - 1 = 0 * Block + (j - 1)
        BY <3>1, BlockPos
      <4> QED  BY <3>1, <4>1, BlockPos, DivMod
    <3> QED  BY <1>2, <3>1, <3>2, BoxCell DEF KeyAtom
  <2> HIDE DEF f
  <2>3. MacKey(key, n) = f
    BY <1>2 DEF MacKey, f
  <2> QED  BY <2>1, <2>2, <2>3
<1> QED  BY <1>1, <1>2

LEMMA TextIs ==
  ASSUME NEW key, NEW n, NEW m, IsSeq(m)
  PROVE  /\ IsSeq(Text(key, n, m)) /\ Len(Text(key, n, m)) = Len(m)
         /\ \A j \in 1 .. Len(m) : Text(key, n, m)[j] = SymDiff(m[j], {TextAtom(key, n, j)})
<1>1. CASE key = AeadKey
  BY <1>1, AeadTextIs DEF Text, TextAtom
<1>2. CASE key # AeadKey
  BY <1>2, BoxTextIs DEF Text, TextAtom
<1> QED  BY <1>1, <1>2

LEMMA TextTwice ==
  ASSUME NEW key, NEW n, NEW m, IsSeq(m)
  PROVE  Text(key, n, Text(key, n, m)) = m
<1>1. CASE key = AeadKey
  BY <1>1, AeadTextTwice DEF Text
<1>2. CASE key # AeadKey
  BY <1>2, BoxTextTwice DEF Text
<1> QED  BY <1>1, <1>2

(* A tag tells key, nonce and what was authenticated.                      *)
LEMMA TagOnce ==
  ASSUME NEW k, IsKey(k), NEW l, IsKey(l), NEW n \in Nonce, NEW o \in Nonce,
         NEW a, IsSeq(a), NEW c, IsSeq(c), NEW d, IsSeq(d), NEW e, IsSeq(e),
         TagFor(k, n, a, c) = TagFor(l, o, d, e)
  PROVE  k = l /\ n = o /\ c = e /\ (k = AeadKey => a = d)
<1> DEFINE A == AccOf(k, a, c)
           B == AccOf(l, d, e)
           K == MacKey(k, n)
           L == MacKey(l, o)
<1>1. finish(A, K)[1] = {<<"tag", K, A, 1>>} /\ finish(B, L)[1] = {<<"tag", L, B, 1>>}
  <2>1. 1 \in 1 .. MacBytes
    BY Sizes
  <2> HIDE DEF A, B, K, L
  <2> QED  BY <2>1, FinishIs
<1>2. finish(A, K) = finish(B, L)
  BY DEF TagFor
<1>3. K = L /\ A = B
  <2> HIDE DEF A, B, K, L
  <2>1. <<"tag", K, A, 1>> = <<"tag", L, B, 1>>
    BY <1>1, <1>2
  <2> QED  BY <2>1
<1>4. k = l /\ n = o
  <2>1. 1 \in 1 .. Pad
    BY Sizes
  <2>2. K[1] = {KeyAtom(k, n, 1)} /\ L[1] = {KeyAtom(l, o, 1)}
    BY <2>1, MacKeyIs
  <2> HIDE DEF K, L
  <2>3. Cell(k, n, 0, 1) = Cell(l, o, 0, 1)
    BY <1>3, <2>2 DEF KeyAtom
  <2> QED  BY <2>3, CellOnce
<1>5. CASE k = AeadKey
  <2>1. AeadAcc(a, c) = AeadAcc(d, e)
    BY <1>3, <1>4, <1>5 DEF AccOf
  <2> QED  BY <1>4, <2>1, AeadAccOnce
<1>6. CASE k # AeadKey
  <2>1. BoxAcc(c) = BoxAcc(e)
    BY <1>3, <1>4, <1>6 DEF AccOf
  <2> QED  BY <1>4, <1>6, <2>1, BoxAccOnce
<1> QED  BY <1>5, <1>6
-----------------------------------------------------------------------------
(* What has been sealed.                                                   *)

FrontLen(b) == IF b.key = AeadKey THEN 0 ELSE Pad

IsMessage(m) == \E id : \E len \in Lengths : m = Message(id, len)

Sealed(b) ==
  /\ IsKey(b.key) /\ b.n \in Nonce
  /\ IsSeq(b.aad) /\ (b.key # AeadKey => b.aad = <<>>)
  /\ IsMessage(b.msg)
  /\ Body(b) = Text(b.key, b.n, b.msg)
  /\ Tag(b) = TagFor(b.key, b.n, b.aad, Body(b))
  /\ IsSeq(b.c) /\ Len(b.c) = FrontLen(b) + Len(b.msg)
  /\ \A j \in 1 .. Len(b.msg) : b.c[FrontLen(b) + j] = Body(b)[j]
  /\ \A j \in 1 .. FrontLen(b) : \A a \in b.c[j] : a[1] # "ks"

LEMMA MessageIs ==
  ASSUME NEW m, IsMessage(m)
  PROVE  /\ IsSeq(m) /\ Len(m) \in Lengths /\ Len(m) \in 0 .. (Ctr - 1) * Block
         /\ \E id : \A j \in 1 .. Len(m) : m[j] = {<<"m", id, j>>}
<1>1. PICK id : \E len \in Lengths : m = Message(id, len)
  BY DEF IsMessage
<1>2. PICK len \in Lengths : m = Message(id, len)
  BY <1>1
<1>3. len \in Nat /\ len \in 0 .. (Ctr - 1) * Block
  <2> DEFINE y == (Ctr - 1) * Block
  <2>1. len \in 0 .. y
    BY BoxesAssumption
  <2> HIDE DEF y
  <2>2. len \in Nat
    BY <2>1
  <2> QED  BY <2>1, <2>2 DEF y
<1>4. m = [j \in 1 .. len |-> m[j]] /\ \A j \in 1 .. len : m[j] = {<<"m", id, j>>}
  BY <1>2 DEF Message
<1>5. IsSeq(m) /\ Len(m) = len
  BY <1>3, <1>4, FunSeq
<1> QED  BY <1>3, <1>4, <1>5

BoxRecord(key, n, aad, m, out) ==
  [key |-> key, n |-> n, aad |-> aad, msg |-> m, c |-> out.c, mac |-> out.mac]

LEMMA SealedDetached ==
  ASSUME NEW key, IsKey(key), key # AeadKey, NEW n \in Nonce, NEW m, IsMessage(m)
  PROVE  Sealed(BoxRecord(key, n, <<>>, m, crypto_secretbox_detached(Zeros(Pad) \o m, n, Real(key))))
<1> DEFINE u == BoxText(Real(key), n, m)
           t == BoxTag(Real(key), n, u)
           z == Zeros(Pad)
           c == z \o u
           out == [c |-> c, mac |-> t]
           b == BoxRecord(key, n, <<>>, m, out)
<1>1. crypto_secretbox_detached(Zeros(Pad) \o m, n, Real(key)) = out
  BY MessageIs, DetachedIs
<1>2. IsSeq(m) /\ IsSeq(u) /\ Len(u) = Len(m) /\ Len(m) \in Nat
  BY MessageIs, BoxTextIs, SeqIs
<1>3. IsSeq(t) /\ Len(t) = MacBytes /\ t # <<>>
  <2>1. IsSeq(t) /\ Len(t) = MacBytes
    BY FinishIs DEF BoxTag
  <2> HIDE DEF t
  <2> QED  BY <2>1, Sizes, SeqEmpty
<1>4. IsSeq(z) /\ Len(z) = Pad /\ Pad \in Nat /\ \A j \in 1 .. Pad : z[j] = {}
  BY Sizes, ZerosLen
<1>5. u = Text(key, n, m) /\ t = TagFor(key, n, <<>>, u)
  BY DEF Text, TagFor, AccOf, MacKey, BoxTag
<1> HIDE DEF u, t, z
<1>6. IsSeq(c) /\ Len(c) = Pad + Len(m) /\ \A j \in 1 .. Pad + Len(m) : c[j] = IF j <= Pad THEN z[j] ELSE u[j - Pad]
  BY <1>2, <1>4, SeqCat
<1>7. SubSeq(c, Pad + 1, Len(c)) = u
  BY <1>2, <1>4, <1>6, SubBack
<1> HIDE DEF c
<1>8. b.key = key /\ b.n = n /\ b.aad = <<>> /\ b.msg = m /\ b.c = c /\ b.mac = t
  BY DEF BoxRecord
<1> HIDE DEF b
<1>9. Body(b) = u /\ Tag(b) = t /\ FrontLen(b) = Pad
  BY <1>3, <1>7, <1>8 DEF Body, Tag, FrontLen
<1>10. \A j \in 1 .. Len(m) : c[Pad + j] = u[j]
  <2> SUFFICES ASSUME NEW j \in 1 .. Len(m) PROVE c[Pad + j] = u[j]
    OBVIOUS
  <2>1. Pad + j \in 1 .. Pad + Len(m) /\ ~(Pad + j <= Pad) /\ (Pad + j) - Pad = j
    BY <1>2, <1>4
  <2> QED  BY <1>6, <2>1
<1>11. \A j \in 1 .. Pad : c[j] = {}
  BY <1>2, <1>4, <1>6
<1>12. Sealed(b)
  <2>1. IsKey(b.key) /\ b.n \in Nonce /\ IsSeq(b.aad) /\ b.aad = <<>> /\ IsMessage(b.msg)
    BY <1>8, SeqEmpty
  <2>2. Body(b) = Text(b.key, b.n, b.msg) /\ Tag(b) = TagFor(b.key, b.n, b.aad, Body(b))
    BY <1>5, <1>8, <1>9
  <2>3. IsSeq(b.c) /\ Len(b.c) = FrontLen(b) + Len(b.msg) /\ \A j \in 1 .. Len(b.msg) : b.c[FrontLen(b) + j] = Body(b)[j]
    BY <1>6, <1>8, <1>9, <1>10
  <2>4. \A j \in 1 .. FrontLen(b) : \A a \in b.c[j] : a[1] # "ks"
    BY <1>8, <1>9, <1>11
  <2> QED  BY <2>1, <2>2, <2>3, <2>4 DEF Sealed
<1> QED  BY <1>1, <1>12 DEF b

LEMMA SealedEasy ==
  ASSUME NEW key, IsKey(key), key # AeadKey, NEW n \in Nonce, NEW m, IsMessage(m)
  PROVE  Sealed(BoxRecord(key, n, <<>>, m, WithTag(crypto_secretbox_detached(Zeros(Pad) \o m, n, Real(key)))))
<1> DEFINE u == BoxText(Real(key), n, m)
           t == BoxTag(Real(key), n, u)
           z == Zeros(Off)
           f == z \o t
           c == f \o u
           out == [c |-> c, mac |-> <<>>]
           b == BoxRecord(key, n, <<>>, m, out)
<1>2. IsSeq(m) /\ IsSeq(u) /\ Len(u) = Len(m) /\ Len(m) \in Nat
  BY MessageIs, BoxTextIs, SeqIs
<1>3. IsSeq(t) /\ Len(t) = MacBytes /\ \A i \in 1 .. MacBytes : t[i] = {<<"tag", OneTime(Real(key), n), BoxAcc(u), i>>}
  BY FinishIs DEF BoxTag
<1>4. IsSeq(z) /\ Len(z) = Off /\ Off \in Nat /\ Pad \in Nat /\ MacBytes \in Nat /\ Off + MacBytes = Pad
      /\ \A j \in 1 .. Off : z[j] = {}
  BY Sizes, ZerosLen
<1>1. WithTag(crypto_secretbox_detached(Zeros(Pad) \o m, n, Real(key))) = out
  <2>1. crypto_secretbox_detached(Zeros(Pad) \o m, n, Real(key)) = [c |-> Zeros(Pad) \o u, mac |-> t]
    BY <1>2, DetachedIs
  <2> HIDE DEF u, t
  <2> QED  BY <1>2, <1>3, <2>1, EasyIs
<1>5. u = Text(key, n, m) /\ t = TagFor(key, n, <<>>, u)
  BY DEF Text, TagFor, AccOf, MacKey, BoxTag
<1> HIDE DEF u, t
<1>6. /\ IsSeq(f) /\ Len(f) = Pad /\ IsSeq(c) /\ Len(c) = Pad + Len(u)
      /\ TagOf(c) = t /\ SubSeq(c, Pad + 1, Len(c)) = u
  BY <1>2, <1>3, EasyParts
<1> HIDE DEF z
<1>7. \A j \in 1 .. Pad : f[j] = IF j <= Off THEN z[j] ELSE t[j - Off]
  <2>1. \A j \in 1 .. Off + MacBytes : f[j] = IF j <= Off THEN z[j] ELSE t[j - Off]
    BY <1>3, <1>4, SeqCat
  <2> HIDE DEF f
  <2> QED  BY <1>4, <2>1
<1> HIDE DEF f
<1>8. \A j \in 1 .. Pad + Len(u) : c[j] = IF j <= Pad THEN f[j] ELSE u[j - Pad]
  BY <1>2, <1>6, SeqCat
<1> HIDE DEF c
<1>9. b.key = key /\ b.n = n /\ b.aad = <<>> /\ b.msg = m /\ b.c = c /\ b.mac = <<>>
  BY DEF BoxRecord
<1> HIDE DEF b
<1>10. Body(b) = u /\ Tag(b) = t /\ FrontLen(b) = Pad
  BY <1>6, <1>9 DEF Body, Tag, FrontLen
<1>11. \A j \in 1 .. Len(m) : c[Pad + j] = u[j]
  <2> SUFFICES ASSUME NEW j \in 1 .. Len(m) PROVE c[Pad + j] = u[j]
    OBVIOUS
  <2>1. Pad + j \in 1 .. Pad + Len(u) /\ ~(Pad + j <= Pad) /\ (Pad + j) - Pad = j
    BY <1>2, <1>4
  <2> QED  BY <1>8, <2>1
<1>12. ASSUME NEW j \in 1 .. Pad, NEW a \in c[j] PROVE a[1] # "ks"
  <2>1. c[j] = f[j]
    <3>1. j \in 1 .. Pad + Len(u) /\ j <= Pad
      BY <1>2, <1>4
    <3> QED  BY <1>8, <3>1
  <2>2. CASE j <= Off
    <3>1. j \in 1 .. Off
      BY <1>4, <2>2
    <3>2. c[j] = {}
      BY <1>4, <1>7, <2>1, <2>2, <3>1
    <3> QED  BY <3>2
  <2>3. CASE ~(j <= Off)
    <3>1. j - Off \in 1 .. MacBytes
      BY <1>4, <2>3
    <3>2. c[j] = {<<"tag", OneTime(Real(key), n), BoxAcc(u), j - Off>>}
      BY <1>3, <1>7, <2>1, <2>3, <3>1
    <3>3. a = <<"tag", OneTime(Real(key), n), BoxAcc(u), j - Off>>
      BY <3>2
    <3> QED  BY <3>3
  <2> QED  BY <2>2, <2>3
<1>13. Sealed(b)
  <2>1. IsKey(b.key) /\ b.n \in Nonce /\ IsSeq(b.aad) /\ b.aad = <<>> /\ IsMessage(b.msg)
    BY <1>9, SeqEmpty
  <2>2. Body(b) = Text(b.key, b.n, b.msg) /\ Tag(b) = TagFor(b.key, b.n, b.aad, Body(b))
    BY <1>5, <1>9, <1>10
  <2>3. IsSeq(b.c) /\ Len(b.c) = FrontLen(b) + Len(b.msg) /\ \A j \in 1 .. Len(b.msg) : b.c[FrontLen(b) + j] = Body(b)[j]
    BY <1>2, <1>6, <1>9, <1>10, <1>11
  <2>4. \A j \in 1 .. FrontLen(b) : \A a \in b.c[j] : a[1] # "ks"
    BY <1>9, <1>10, <1>12
  <2> QED  BY <2>1, <2>2, <2>3, <2>4 DEF Sealed
<1> QED  BY <1>1, <1>13 DEF b

LEMMA SealedAead ==
  ASSUME NEW n \in Nonce, NEW aad \in Aad, NEW m, IsMessage(m)
  PROVE  Sealed(BoxRecord(AeadKey, n, aad, m, aead_encrypt(m, aad, AeadKey, n)))
<1> DEFINE u == AeadText(AeadKey, n, m)
           t == AeadTag(AeadKey, n, aad, u)
           out == [c |-> u, mac |-> t]
           b == BoxRecord(AeadKey, n, aad, m, out)
<1>1. aead_encrypt(m, aad, AeadKey, n) = out
  BY MessageIs, SealAeadIs
<1>2. IsSeq(m) /\ IsSeq(u) /\ Len(u) = Len(m) /\ Len(m) \in Nat
  BY MessageIs, AeadTextIs, SeqIs
<1>3. IsSeq(t) /\ Len(t) = MacBytes /\ t # <<>>
  <2>1. IsSeq(t) /\ Len(t) = MacBytes
    BY FinishIs DEF AeadTag
  <2> HIDE DEF t
  <2> QED  BY <2>1, Sizes, SeqEmpty
<1>4. IsSeq(aad)
  <2>1. Len(aad) \in Nat /\ aad = [i \in 1 .. Len(aad) |-> aad[i]]
    BY BoxesAssumption
  <2> DEFINE l == Len(aad)
  <2>2. l \in Nat /\ aad = [i \in 1 .. l |-> aad[i]]
    BY <2>1
  <2> HIDE DEF l
  <2> QED  BY <2>2, FunSeq
<1>5. u = Text(AeadKey, n, m) /\ t = TagFor(AeadKey, n, aad, u)
  BY DEF Text, TagFor, AccOf, MacKey, AeadTag
<1> HIDE DEF u, t
<1>6. b.key = AeadKey /\ b.n = n /\ b.aad = aad /\ b.msg = m /\ b.c = u /\ b.mac = t
  BY DEF BoxRecord
<1> HIDE DEF b
<1>7. Body(b) = u /\ Tag(b) = t /\ FrontLen(b) = 0
  BY <1>3, <1>6 DEF Body, Tag, FrontLen
<1>8. Sealed(b)
  <2>1. IsKey(b.key) /\ b.n \in Nonce /\ IsSeq(b.aad) /\ b.key = AeadKey /\ IsMessage(b.msg)
    BY <1>4, <1>6 DEF IsKey
  <2>2. Body(b) = Text(b.key, b.n, b.msg) /\ Tag(b) = TagFor(b.key, b.n, b.aad, Body(b))
    BY <1>5, <1>6, <1>7
  <2>3. IsSeq(b.c) /\ Len(b.c) = FrontLen(b) + Len(b.msg) /\ \A j \in 1 .. Len(b.msg) : b.c[FrontLen(b) + j] = Body(b)[j]
    BY <1>2, <1>6, <1>7
  <2>4. \A j \in 1 .. FrontLen(b) : \A a \in b.c[j] : a[1] # "ks"
    BY <1>7
  <2> QED  BY <2>1, <2>2, <2>3, <2>4 DEF Sealed
<1> QED  BY <1>1, <1>8 DEF b
-----------------------------------------------------------------------------
(* The keystream of what has been sealed.                                  *)

TextAtoms(b) == {TextAtom(b.key, b.n, j) : j \in 1 .. Len(b.msg)}
KeyAtoms(b) == {KeyAtom(b.key, b.n, j) : j \in 1 .. Pad}

LEMMA AtomIsKs ==
  ASSUME NEW key, NEW n, NEW j
  PROVE  TextAtom(key, n, j)[1] = "ks" /\ KeyAtom(key, n, j)[1] = "ks"
<1>1. \A st, c, i : Atom(st, c, i)[1] = "ks"
  BY DEF Atom
<1>2. TextAtom(key, n, j)[1] = "ks"
  BY <1>1 DEF TextAtom, AeadAt, BoxAt, StreamAt
<1>3. KeyAtom(key, n, j)[1] = "ks"
  BY DEF KeyAtom, Cell
<1> QED  BY <1>2, <1>3

(* A byte of a text holds one atom of keystream.                           *)
LEMMA ByteAtoms ==
  ASSUME NEW key, NEW n, NEW id, NEW j
  PROVE  \A a : (a \in SymDiff({<<"m", id, j>>}, {TextAtom(key, n, j)}) /\ a[1] = "ks")
                  <=> a = TextAtom(key, n, j)
<1> DEFINE t == TextAtom(key, n, j)
           m == <<"m", id, j>>
<1>1. t[1] = "ks"
  BY AtomIsKs
<1>2. m[1] = "m" /\ "m" # "ks"
  OBVIOUS
<1> HIDE DEF t, m
<1>3. t # m
  BY <1>1, <1>2
<1>4. SymDiff({m}, {t}) = {m, t}
  BY <1>3 DEF SymDiff
<1> QED  BY <1>1, <1>2, <1>4 DEF t, m

LEMMA SealedAtoms ==
  ASSUME NEW b, Sealed(b)
  PROVE  /\ \A i \in DOMAIN b.c : Cardinality(Atoms(<<b.c[i]>>)) <= 1
         /\ Atoms(b.c) = TextAtoms(b)
<1> DEFINE l == Len(b.msg)
           f == FrontLen(b)
           T(j) == TextAtom(b.key, b.n, j)
<1>1. f \in Nat /\ l \in Nat /\ IsSeq(b.msg)
  BY MessageIs, SeqIs, Sizes DEF FrontLen, Sealed
<1>2. DOMAIN b.c = 1 .. f + l
  BY SeqIs DEF Sealed
<1>3. PICK id : \A j \in 1 .. l : b.msg[j] = {<<"m", id, j>>}
  BY MessageIs DEF Sealed
<1>4. ASSUME NEW j \in 1 .. l PROVE \A a : (a \in b.c[f + j] /\ a[1] = "ks") <=> a = T(j)
  <2>1. b.c[f + j] = Body(b)[j] /\ Body(b) = Text(b.key, b.n, b.msg)
    BY DEF Sealed
  <2>2. Text(b.key, b.n, b.msg)[j] = SymDiff(b.msg[j], {T(j)})
    BY <1>1, TextIs
  <2>3. b.c[f + j] = SymDiff({<<"m", id, j>>}, {T(j)})
    BY <1>3, <2>1, <2>2
  <2>4. \A a : (a \in SymDiff({<<"m", id, j>>}, {TextAtom(b.key, b.n, j)}) /\ a[1] = "ks")
                 <=> a = TextAtom(b.key, b.n, j)
    BY ByteAtoms
  <2> DEFINE d == SymDiff({<<"m", id, j>>}, {TextAtom(b.key, b.n, j)})
             t == TextAtom(b.key, b.n, j)
  <2>5. b.c[f + j] = d /\ T(j) = t /\ \A a : (a \in d /\ a[1] = "ks") <=> a = t
    BY <2>3, <2>4
  <2> HIDE DEF d, t, f, T
  <2> QED  BY <2>5
<1>5. \A j \in 1 .. f : \A a \in b.c[j] : a[1] # "ks"
  BY DEF Sealed
<1> HIDE DEF f, l, T
<1>6. ASSUME NEW i \in DOMAIN b.c PROVE Cardinality(Atoms(<<b.c[i]>>)) <= 1
  <2>1. \A a : a \in Atoms(<<b.c[i]>>) <=> (a \in b.c[i] /\ a[1] = "ks")
    BY DEF Atoms
  <2>2. CASE i <= f
    <3>1. i \in 1 .. f
      BY <1>1, <1>2, <2>2
    <3>2. Atoms(<<b.c[i]>>) = {}
      BY <1>5, <2>1, <3>1
    <3> QED  BY <3>2, FS_EmptySet
  <2>3. CASE ~(i <= f)
    <3> DEFINE j == i - f
    <3>1. j \in 1 .. l /\ f + j = i
      BY <1>1, <1>2, <2>3
    <3> HIDE DEF j
    <3>2. Atoms(<<b.c[i]>>) = {T(j)}
      BY <1>4, <2>1, <3>1
    <3>3. Cardinality({T(j)}) = 1
      BY FS_Singleton
    <3> QED  BY <3>2, <3>3
  <2> QED  BY <2>2, <2>3
<1>7. ASSUME NEW a PROVE a \in Atoms(b.c) <=> a \in TextAtoms(b)
  <2>1. a \in Atoms(b.c) <=> \E i \in 1 .. f + l : a \in b.c[i] /\ a[1] = "ks"
    BY <1>2 DEF Atoms
  <2>2. a \in TextAtoms(b) <=> \E j \in 1 .. l : a = T(j)
    BY DEF TextAtoms, T, l
  <2>3. ASSUME NEW i \in 1 .. f + l, a \in b.c[i], a[1] = "ks" PROVE \E j \in 1 .. l : a = T(j)
    <3>1. ~(i <= f)
      <4> SUFFICES ASSUME i <= f PROVE FALSE
        OBVIOUS
      <4>1. i \in 1 .. f
        BY <1>1
      <4> QED  BY <1>5, <2>3, <4>1
    <3> DEFINE j == i - f
    <3>2. j \in 1 .. l /\ f + j = i
      BY <1>1, <3>1
    <3> HIDE DEF j
    <3>3. a = T(j)
      BY <1>4, <2>3, <3>2
    <3> QED  BY <3>2, <3>3
  <2>4. ASSUME NEW j \in 1 .. l, a = T(j) PROVE \E i \in 1 .. f + l : a \in b.c[i] /\ a[1] = "ks"
    <3>1. f + j \in 1 .. f + l
      BY <1>1
    <3>2. a \in b.c[f + j] /\ a[1] = "ks"
      BY <1>4, <2>4
    <3> QED  BY <3>1, <3>2
  <2> QED  BY <2>1, <2>2, <2>3, <2>4
<1>8. Atoms(b.c) = TextAtoms(b)
  BY <1>7
<1> QED  BY <1>6, <1>8

LEMMA SealedKeyAtoms ==
  ASSUME NEW b, Sealed(b)
  PROVE  Atoms(TagKey(b)) = KeyAtoms(b)
<1> DEFINE K == MacKey(b.key, b.n)
           A == AccOf(b.key, b.aad, Body(b))
           t == <<"tag", K, A, 1>>
<1>1. Tag(b) = finish(A, K)
  BY DEF Sealed, TagFor
<1>2. Tag(b)[1] = {t}
  <2>1. 1 \in 1 .. MacBytes
    BY Sizes
  <2> HIDE DEF A, K
  <2> QED  BY <1>1, <2>1, FinishIs
<1>3. TagKey(b) = K
  <2>1. TagKey(b) = t[2]
    <3> HIDE DEF t
    <3> QED  BY <1>2 DEF TagKey
  <2> HIDE DEF K, A
  <2> QED  BY <2>1
<1>4. IsSeq(K) /\ Len(K) = Pad /\ \A j \in 1 .. Pad : K[j] = {KeyAtom(b.key, b.n, j)}
  BY MacKeyIs
<1>5. DOMAIN K = 1 .. Pad
  BY <1>4, SeqIs
<1> HIDE DEF K
<1>6. \A j : KeyAtom(b.key, b.n, j)[1] = "ks"
  BY AtomIsKs
<1>7. \A a : a \in Atoms(K) <=> \E j \in 1 .. Pad : a \in K[j] /\ a[1] = "ks"
  BY <1>5 DEF Atoms
<1>8. \A a : a \in Atoms(K) <=> a \in KeyAtoms(b)
  BY <1>4, <1>6, <1>7 DEF KeyAtoms
<1> QED  BY <1>3, <1>8

LEMMA SealedCounted ==
  ASSUME NEW b, Sealed(b), NEW j \in 1 .. Len(b.msg)
  PROVE  j \in Nat \ {0} /\ Counted(b.key, j) /\ IsKey(b.key) /\ b.n \in Nonce
<1> DEFINE y == (Ctr - 1) * Block
           l == Len(b.msg)
<1>1. l \in 0 .. y /\ y \in Int
  BY MessageIs, Sizes, BlockPos DEF Sealed
<1> HIDE DEF y, l
<1>2. j \in Nat \ {0} /\ j <= y
  BY <1>1 DEF l
<1> QED  BY <1>2 DEF Counted, Sealed, y

LEMMA TextAtomsNumber ==
  ASSUME NEW b, Sealed(b)
  PROVE  Cardinality(TextAtoms(b)) = Len(Body(b))
<1> DEFINE l == Len(b.msg)
           T(j) == TextAtom(b.key, b.n, j)
           S == TextAtoms(b)
           F == [j \in 1 .. l |-> T(j)]
<1>1. l \in Nat /\ Len(Body(b)) = l
  BY MessageIs, SeqIs, TextIs DEF Sealed
<1>2. \A i, j \in 1 .. l : T(i) = T(j) => i = j
  BY SealedCounted, TextOnce
<1>3. S = {T(j) : j \in 1 .. l}
  BY DEF TextAtoms
<1> HIDE DEF l, S, T
<1>4. F \in [1 .. l -> S] /\ (\A i, j \in 1 .. l : F[i] = F[j] => i = j) /\ \A s \in S : \E j \in 1 .. l : F[j] = s
  BY <1>2, <1>3
<1> HIDE DEF F
<1>5. F \in Bijection(1 .. l, S)
  BY <1>4, Fun_IsBij
<1>6. ExistsBijection(1 .. l, S)
  BY <1>5 DEF ExistsBijection
<1>7. Cardinality(S) = l
  BY <1>1, <1>6, FS_CountingElements
<1> QED  BY <1>1, <1>7 DEF S
SentInv == \A b \in sent : Sealed(b)
OnceInv == \A b, x \in sent : b.key = x.key /\ b.n = x.n => b = x

(* Boxes sealed under different keys or nonces share no keystream.         *)
LEMMA SentOnce ==
  ASSUME SentInv, OnceInv
  PROVE  KeystreamOnce
<1>1. ASSUME NEW b \in sent, NEW x \in sent PROVE TextAtoms(b) \intersect KeyAtoms(x) = {}
  <2> SUFFICES ASSUME NEW a, a \in TextAtoms(b), a \in KeyAtoms(x) PROVE FALSE
    OBVIOUS
  <2>1. PICK j \in 1 .. Len(b.msg) : a = TextAtom(b.key, b.n, j)
    BY DEF TextAtoms
  <2>2. PICK i \in 1 .. Pad : a = KeyAtom(x.key, x.n, i)
    BY DEF KeyAtoms
  <2>3. j \in Nat \ {0} /\ Counted(b.key, j) /\ IsKey(b.key) /\ b.n \in Nonce
    BY SealedCounted DEF SentInv
  <2>4. IsKey(x.key) /\ x.n \in Nonce
    BY DEF SentInv, Sealed
  <2> QED  BY <2>1, <2>2, <2>3, <2>4, KeyTextApart
<1>2. ASSUME NEW b \in sent, NEW x \in sent, b # x PROVE TextAtoms(b) \intersect TextAtoms(x) = {}
  <2> SUFFICES ASSUME NEW a, a \in TextAtoms(b), a \in TextAtoms(x) PROVE FALSE
    OBVIOUS
  <2>1. PICK j \in 1 .. Len(b.msg) : a = TextAtom(b.key, b.n, j)
    BY DEF TextAtoms
  <2>2. PICK i \in 1 .. Len(x.msg) : a = TextAtom(x.key, x.n, i)
    BY DEF TextAtoms
  <2>3. j \in Nat \ {0} /\ Counted(b.key, j) /\ IsKey(b.key) /\ b.n \in Nonce
    BY SealedCounted DEF SentInv
  <2>4. i \in Nat \ {0} /\ Counted(x.key, i) /\ IsKey(x.key) /\ x.n \in Nonce
    BY SealedCounted DEF SentInv
  <2>5. b.key = x.key /\ b.n = x.n
    <3>1. TextAtom(b.key, b.n, j) = TextAtom(x.key, x.n, i)
      BY <2>1, <2>2
    <3> QED  BY <2>3, <2>4, <3>1, TextOnce
  <2> QED  BY <1>2, <2>5 DEF OnceInv
<1>3. ASSUME NEW b \in sent, NEW x \in sent, b # x PROVE KeyAtoms(b) \intersect KeyAtoms(x) = {}
  <2> SUFFICES ASSUME NEW a, a \in KeyAtoms(b), a \in KeyAtoms(x) PROVE FALSE
    OBVIOUS
  <2>1. PICK j \in 1 .. Pad : a = KeyAtom(b.key, b.n, j)
    BY DEF KeyAtoms
  <2>2. PICK i \in 1 .. Pad : a = KeyAtom(x.key, x.n, i)
    BY DEF KeyAtoms
  <2>3. IsKey(b.key) /\ b.n \in Nonce /\ IsKey(x.key) /\ x.n \in Nonce
    <3>1. Sealed(b) /\ Sealed(x)
      BY DEF SentInv
    <3> QED  BY <3>1 DEF Sealed
  <2>4. Cell(b.key, b.n, 0, j) = Cell(x.key, x.n, 0, i)
    BY <2>1, <2>2 DEF KeyAtom
  <2>5. b.key = x.key /\ b.n = x.n
    BY <2>3, <2>4, CellOnce
  <2> QED  BY <1>3, <2>5 DEF OnceInv
<1>4. ASSUME NEW b \in sent
      PROVE  /\ \A i \in DOMAIN b.c : Cardinality(Atoms(<<b.c[i]>>)) <= 1
             /\ Atoms(b.c) = TextAtoms(b) /\ Atoms(TagKey(b)) = KeyAtoms(b)
             /\ Cardinality(Atoms(b.c)) = Len(Body(b))
  <2>1. Sealed(b)
    BY DEF SentInv
  <2> QED  BY <2>1, SealedAtoms, SealedKeyAtoms, TextAtomsNumber
<1> SUFFICES ASSUME NEW b \in sent
             PROVE  /\ \A i \in DOMAIN b.c : Cardinality(Atoms(<<b.c[i]>>)) <= 1
                    /\ Cardinality(Atoms(b.c)) = Len(Body(b))
                    /\ Atoms(b.c) \intersect Atoms(TagKey(b)) = {}
                    /\ \A x \in sent \ {b} :
                         (Atoms(b.c) \union Atoms(TagKey(b))) \intersect (Atoms(x.c) \union Atoms(TagKey(x))) = {}
  BY DEF KeystreamOnce
<1>5. ASSUME NEW x \in sent \ {b}
      PROVE  (Atoms(b.c) \union Atoms(TagKey(b))) \intersect (Atoms(x.c) \union Atoms(TagKey(x))) = {}
  <2>1. /\ Atoms(b.c) = TextAtoms(b) /\ Atoms(TagKey(b)) = KeyAtoms(b)
        /\ Atoms(x.c) = TextAtoms(x) /\ Atoms(TagKey(x)) = KeyAtoms(x)
    BY <1>4
  <2>2. /\ TextAtoms(b) \intersect TextAtoms(x) = {} /\ KeyAtoms(b) \intersect KeyAtoms(x) = {}
        /\ TextAtoms(b) \intersect KeyAtoms(x) = {} /\ TextAtoms(x) \intersect KeyAtoms(b) = {}
    BY <1>1, <1>2, <1>3
  <2> QED  BY <2>1, <2>2
<1>6. Atoms(b.c) \intersect Atoms(TagKey(b)) = {}
  BY <1>1, <1>4
<1> QED  BY <1>4, <1>5, <1>6
-----------------------------------------------------------------------------
(* Sealing.                                                                *)

LEMMA AddSealed ==
  ASSUME SentInv, OnceInv, NEW r, Sealed(r), Fresh(r.key, r.n), sent' = sent \union {r}
  PROVE  SentInv' /\ OnceInv'
<1>1. SentInv'
  BY DEF SentInv
<1>2. OnceInv'
  BY DEF OnceInv, Fresh
<1> QED  BY <1>1, <1>2

LEMMA SealBoxInv ==
  ASSUME SentInv, OnceInv, NEW p \in Party, NEW q \in Party, p # q, NEW n \in Nonce, NEW len \in Lengths,
         SealBox(p, q, n, len)
  PROVE  SentInv' /\ OnceInv'
<1> DEFINE id == Cardinality(sent) + 1
           msg == Message(id, len)
           m == Zeros(Pad) \o msg
           pk == crypto_box_keypair(q)
           k == crypto_box_beforenm(pk, p)
           key == PairKey(p, q)
           d == crypto_secretbox_detached(m, n, Real(key))
<1>1. PICK out \in {crypto_box_easy(m, n, pk, p), crypto_box_detached(m, n, pk, p),
                    crypto_box_easy_afternm(m, n, k), crypto_box_detached_afternm(m, n, k)} :
        Send(key, n, <<>>, msg, out)
  BY DEF SealBox
<1>2. IsKey(key) /\ key # AeadKey
  BY PairIs, KeysApart DEF IsKey
<1>3. out = d \/ out = WithTag(d)
  <2>1. k = Real(key) /\ hsalsa20(<<"point", crypto_scalarmult(p, pk)>>, 0) = Real(key)
    BY PairIs
  <2> HIDE DEF key, pk, k, m
  <2> QED  BY <1>1, <2>1 DEF crypto_box_easy, crypto_box_detached, crypto_box_easy_afternm, crypto_box_detached_afternm
<1>4. IsMessage(msg)
  BY DEF IsMessage
<1> DEFINE r == BoxRecord(key, n, <<>>, msg, out)
<1>5. Sealed(r)
  BY <1>2, <1>3, <1>4, SealedDetached, SealedEasy
<1>6. sent' = sent \union {r}
  BY <1>1 DEF Send, BoxRecord
<1>7. r.key = key /\ r.n = n /\ Fresh(key, n)
  BY DEF BoxRecord, SealBox
<1> HIDE DEF r
<1> QED  BY <1>5, <1>6, <1>7, AddSealed

LEMMA SealSecretBoxInv ==
  ASSUME SentInv, OnceInv, NEW n \in Nonce, NEW len \in Lengths, SealSecretBox(n, len)
  PROVE  SentInv' /\ OnceInv'
<1> DEFINE id == Cardinality(sent) + 1
           msg == Message(id, len)
           m == Zeros(Pad) \o msg
           key == SecretKey
           d == crypto_secretbox_detached(m, n, Real(key))
<1>1. PICK out \in {crypto_secretbox_easy(m, n, SecretKey), crypto_secretbox_detached(m, n, SecretKey)} :
        Send(key, n, <<>>, msg, out)
  BY DEF SealSecretBox
<1>2. IsKey(key) /\ key # AeadKey /\ Real(key) = SecretKey
  BY KeysApart DEF IsKey, Real
<1>3. out = d \/ out = WithTag(d)
  <2> HIDE DEF m
  <2> QED  BY <1>1, <1>2 DEF crypto_secretbox_easy
<1>4. IsMessage(msg)
  BY DEF IsMessage
<1> DEFINE r == BoxRecord(key, n, <<>>, msg, out)
<1>5. Sealed(r)
  BY <1>2, <1>3, <1>4, SealedDetached, SealedEasy
<1>6. sent' = sent \union {r}
  BY <1>1 DEF Send, BoxRecord
<1>7. r.key = key /\ r.n = n /\ Fresh(key, n)
  BY DEF BoxRecord, SealSecretBox
<1> HIDE DEF r
<1> QED  BY <1>5, <1>6, <1>7, AddSealed

LEMMA SealAeadInv ==
  ASSUME SentInv, OnceInv, NEW n \in Nonce, NEW aad \in Aad, NEW len \in Lengths, SealAead(n, aad, len)
  PROVE  SentInv' /\ OnceInv'
<1> DEFINE id == Cardinality(sent) + 1
           msg == Message(id, len)
           out == aead_encrypt(msg, aad, AeadKey, n)
           r == BoxRecord(AeadKey, n, aad, msg, out)
<1>1. Send(AeadKey, n, aad, msg, out) /\ Fresh(AeadKey, n)
  BY DEF SealAead
<1>2. IsMessage(msg)
  BY DEF IsMessage
<1> HIDE DEF msg
<1>3. Sealed(r)
  BY <1>2, SealedAead
<1> HIDE DEF out
<1>4. sent' = sent \union {r}
  BY <1>1 DEF Send, BoxRecord
<1>5. r.key = AeadKey /\ r.n = n
  BY DEF BoxRecord
<1> HIDE DEF r
<1> QED  BY <1>1, <1>3, <1>4, <1>5, AddSealed

LEMMA SealInv ==
  ASSUME SentInv, OnceInv, Seal
  PROVE  SentInv' /\ OnceInv' /\ opened' = opened
<1>1. PICK n \in Nonce, len \in Lengths :
        \/ \E p, q \in Party : p # q /\ SealBox(p, q, n, len)
        \/ SealSecretBox(n, len)
        \/ \E aad \in Aad : SealAead(n, aad, len)
  BY DEF Seal
<1>2. CASE \E p, q \in Party : p # q /\ SealBox(p, q, n, len)
  <2>1. PICK p \in Party, q \in Party : p # q /\ SealBox(p, q, n, len)
    BY <1>2
  <2>2. opened' = opened
    BY <2>1 DEF SealBox, Send
  <2> QED  BY <2>1, <2>2, SealBoxInv
<1>3. CASE SealSecretBox(n, len)
  <2>1. opened' = opened
    BY <1>3 DEF SealSecretBox, Send
  <2> QED  BY <1>3, <2>1, SealSecretBoxInv
<1>4. CASE \E aad \in Aad : SealAead(n, aad, len)
  <2>1. PICK aad \in Aad : SealAead(n, aad, len)
    BY <1>4
  <2>2. opened' = opened
    BY <2>1 DEF SealAead, Send
  <2> QED  BY <2>1, <2>2, SealAeadInv
<1> QED  BY <1>1, <1>2, <1>3, <1>4
-----------------------------------------------------------------------------
(* What arrives.                                                           *)

(* No message has this tag, under no key.                                  *)
Forged(t) == \A acc, key : t # finish(acc, key)

Arrives(w) ==
  /\ w = [n |-> w.n, aad |-> w.aad, body |-> w.body, mac |-> w.mac]
  /\ w.n \in Nonce /\ IsSeq(w.aad) /\ IsSeq(w.body) /\ IsSeq(w.mac) /\ Len(w.mac) = MacBytes
  /\ (\E x \in sent : w.mac = Tag(x)) \/ Forged(w.mac)

LEMMA SealedTag ==
  ASSUME NEW b, Sealed(b)
  PROVE  /\ b.n \in Nonce /\ IsSeq(b.aad) /\ IsSeq(Body(b)) /\ IsSeq(Tag(b)) /\ Len(Tag(b)) = MacBytes
         /\ \A i \in 1 .. MacBytes : \E t : t[1] = "tag" /\ Tag(b)[i] = {t}
<1> DEFINE K == MacKey(b.key, b.n)
           A == AccOf(b.key, b.aad, Body(b))
<1>1. Tag(b) = finish(A, K) /\ b.n \in Nonce /\ IsSeq(b.aad) /\ Body(b) = Text(b.key, b.n, b.msg)
  BY DEF Sealed, TagFor
<1>2. IsSeq(b.msg)
  BY MessageIs DEF Sealed
<1>3. IsSeq(Body(b))
  BY <1>1, <1>2, TextIs
<1> HIDE DEF A, K
<1>4. /\ IsSeq(finish(A, K)) /\ Len(finish(A, K)) = MacBytes
      /\ \A i \in 1 .. MacBytes : finish(A, K)[i] = {<<"tag", K, A, i>>}
  BY FinishIs
<1>5. ASSUME NEW i \in 1 .. MacBytes PROVE \E t : t[1] = "tag" /\ Tag(b)[i] = {t}
  <2> DEFINE t == <<"tag", K, A, i>>
  <2>1. t[1] = "tag" /\ Tag(b)[i] = {t}
    BY <1>1, <1>4
  <2> HIDE DEF t
  <2> QED  BY <2>1
<1> QED  BY <1>1, <1>3, <1>4, <1>5

LEMMA FlipIs ==
  ASSUME NEW s, IsSeq(s), NEW i \in DOMAIN s
  PROVE  IsSeq(Flip(s, i)) /\ Len(Flip(s, i)) = Len(s) /\ Flip(s, i)[i] = SymDiff(s[i], {<<"flip", 0>>})
<1> DEFINE f == Flip(s, i)
           n == Len(s)
<1>1. n \in Nat /\ DOMAIN s = 1 .. n
  BY SeqIs
<1>2. DOMAIN f = DOMAIN s /\ f = [k \in DOMAIN s |-> f[k]] /\ f[i] = SymDiff(s[i], {<<"flip", 0>>})
  BY DEF Flip
<1> HIDE DEF f, n
<1>3. f = [k \in 1 .. n |-> f[k]]
  BY <1>1, <1>2
<1>4. IsSeq(f) /\ Len(f) = n
  BY <1>1, <1>3, FunSeq
<1> QED  BY <1>2, <1>4 DEF f, n

(* A tag with a byte changed is no tag.                                    *)
LEMMA FlipForges ==
  ASSUME NEW s, IsSeq(s), Len(s) = MacBytes, NEW i \in 1 .. MacBytes, NEW t, t[1] = "tag", s[i] = {t}
  PROVE  Forged(Flip(s, i))
<1> DEFINE f == Flip(s, i)
           x == <<"flip", 0>>
<1>0. i \in DOMAIN s
  BY SeqIs
<1>1. f[i] = SymDiff({t}, {x}) /\ x[1] = "flip"
  BY <1>0, FlipIs
<1> HIDE DEF f, x
<1>2. x # t
  <2>1. "flip" # "tag"
    OBVIOUS
  <2> QED  BY <1>1, <2>1
<1>3. f[i] = {t, x}
  BY <1>1, <1>2 DEF SymDiff
<1>4. ASSUME NEW acc, NEW key, f = finish(acc, key) PROVE FALSE
  <2>1. f[i] = {<<"tag", key, acc, i>>}
    BY <1>4, FinishIs
  <2>2. t = <<"tag", key, acc, i>> /\ x = <<"tag", key, acc, i>>
    BY <1>3, <2>1
  <2> QED  BY <1>2, <2>2
<1>5. Forged(f)
  BY <1>4 DEF Forged
<1> QED  BY <1>5 DEF f

LEMMA SubIsSeq ==
  ASSUME NEW q, IsSeq(q), NEW b \in Nat, NEW e \in Int, e <= Len(q)
  PROVE  IsSeq(SubSeq(q, b + 1, e))
<1>1. PICK E : q \in Seq(E)
  BY DEF IsSeq
<1>2. SubSeq(q, b + 1, e) \in Seq(E)
  <2>1. b + 1 \in Int /\ \A k \in b + 1 .. e : q[k] \in E
    BY <1>1
  <2> QED  BY <2>1, SubSeqProperties
<1> QED  BY <1>2 DEF IsSeq

(* However a box was changed.                                              *)
LEMMA ArrivingIs ==
  ASSUME SentInv, NEW b \in sent, NEW w \in Arriving(b)
  PROVE  Arrives(w)
<1> DEFINE n0 == b.n
           a0 == b.aad
           b0 == Body(b)
           t0 == Tag(b)
           W(n, a, c, t) == [n |-> n, aad |-> a, body |-> c, mac |-> t]
           v == W(n0, a0, b0, t0)
<1>1. Sealed(b)
  BY DEF SentInv
<1>2. /\ n0 \in Nonce /\ IsSeq(a0) /\ IsSeq(b0) /\ IsSeq(t0) /\ Len(t0) = MacBytes
      /\ \A i \in 1 .. MacBytes : \E t : t[1] = "tag" /\ t0[i] = {t}
  BY <1>1, SealedTag
<1>3. ASSUME NEW n \in Nonce, NEW a, IsSeq(a), NEW c, IsSeq(c), NEW t, IsSeq(t), Len(t) = MacBytes,
             (\E x \in sent : t = Tag(x)) \/ Forged(t)
      PROVE  Arrives(W(n, a, c, t))
  BY <1>3 DEF Arrives
<1>4. \/ w = v
      \/ \E n \in Nonce : w = [v EXCEPT !.n = n]
      \/ \E x \in sent : w = [v EXCEPT !.mac = Tag(x)]
      \/ \E i \in DOMAIN b0 : w = [v EXCEPT !.body = Flip(b0, i)]
      \/ \E i \in DOMAIN t0 : w = [v EXCEPT !.mac = Flip(t0, i)]
      \/ w = [v EXCEPT !.body = SubSeq(b0, 1, Len(b0) - 1)]
      \/ w = [v EXCEPT !.body = Append(b0, {})]
      \/ w = [v EXCEPT !.aad = Append(a0, {})]
      \/ \E i \in DOMAIN b0 : w = [v EXCEPT !.body = SubSeq(b0, i + 1, Len(b0)),
                                            !.aad = a0 \o SubSeq(b0, 1, i)]
  BY DEF Arriving
<1>5. \E x \in sent : t0 = Tag(x)
  OBVIOUS
<1> HIDE DEF n0, a0, b0, t0
<1>6. Len(b0) \in Nat /\ DOMAIN b0 = 1 .. Len(b0) /\ DOMAIN t0 = 1 .. MacBytes
  BY <1>2, SeqIs
<1>7. CASE w = v
  BY <1>2, <1>3, <1>5, <1>7
<1>8. CASE \E n \in Nonce : w = [v EXCEPT !.n = n]
  <2>1. PICK n \in Nonce : w = W(n, a0, b0, t0)
    BY <1>8
  <2> HIDE DEF W
  <2> QED  BY <1>2, <1>3, <1>5, <2>1
<1>9. CASE \E x \in sent : w = [v EXCEPT !.mac = Tag(x)]
  <2>1. PICK x \in sent : w = W(n0, a0, b0, Tag(x))
    BY <1>9
  <2>2. IsSeq(Tag(x)) /\ Len(Tag(x)) = MacBytes
    BY SealedTag DEF SentInv
  <2> HIDE DEF W
  <2> QED  BY <1>2, <1>3, <2>1, <2>2
<1>10. CASE \E i \in DOMAIN b0 : w = [v EXCEPT !.body = Flip(b0, i)]
  <2>1. PICK i \in DOMAIN b0 : w = W(n0, a0, Flip(b0, i), t0)
    BY <1>10
  <2>2. IsSeq(Flip(b0, i))
    BY <1>2, FlipIs
  <2> HIDE DEF W
  <2> QED  BY <1>2, <1>3, <1>5, <2>1, <2>2
<1>11. CASE \E i \in DOMAIN t0 : w = [v EXCEPT !.mac = Flip(t0, i)]
  <2>1. PICK i \in DOMAIN t0 : w = W(n0, a0, b0, Flip(t0, i))
    BY <1>11
  <2>2. IsSeq(Flip(t0, i)) /\ Len(Flip(t0, i)) = MacBytes
    BY <1>2, FlipIs
  <2>3. Forged(Flip(t0, i))
    <3>1. i \in 1 .. MacBytes
      BY <1>6
    <3>2. PICK t : t[1] = "tag" /\ t0[i] = {t}
      BY <1>2, <3>1
    <3> QED  BY <1>2, <3>1, <3>2, FlipForges
  <2> HIDE DEF W
  <2> QED  BY <1>2, <1>3, <2>1, <2>2, <2>3
<1>12. CASE w = [v EXCEPT !.body = SubSeq(b0, 1, Len(b0) - 1)]
  <2>1. w = W(n0, a0, SubSeq(b0, 1, Len(b0) - 1), t0)
    BY <1>12
  <2>2. IsSeq(SubSeq(b0, 0 + 1, Len(b0) - 1))
    BY <1>2, <1>6, SubIsSeq
  <2>3. IsSeq(SubSeq(b0, 1, Len(b0) - 1))
    BY <2>2
  <2> HIDE DEF W
  <2> QED  BY <1>2, <1>3, <1>5, <2>1, <2>3
<1>13. CASE w = [v EXCEPT !.body = Append(b0, {})]
  <2>1. w = W(n0, a0, Append(b0, {}), t0)
    BY <1>13
  <2>2. IsSeq(Append(b0, {}))
    BY <1>2, SeqAppend
  <2> HIDE DEF W
  <2> QED  BY <1>2, <1>3, <1>5, <2>1, <2>2
<1>14. CASE w = [v EXCEPT !.aad = Append(a0, {})]
  <2>1. w = W(n0, Append(a0, {}), b0, t0)
    BY <1>14
  <2>2. IsSeq(Append(a0, {}))
    BY <1>2, SeqAppend
  <2> HIDE DEF W
  <2> QED  BY <1>2, <1>3, <1>5, <2>1, <2>2
<1>15. CASE \E i \in DOMAIN b0 : w = [v EXCEPT !.body = SubSeq(b0, i + 1, Len(b0)),
                                               !.aad = a0 \o SubSeq(b0, 1, i)]
  <2>1. PICK i \in DOMAIN b0 : w = W(n0, a0 \o SubSeq(b0, 1, i), SubSeq(b0, i + 1, Len(b0)), t0)
    BY <1>15
  <2>2. i \in Nat /\ i <= Len(b0) /\ Len(b0) \in Int
    BY <1>6
  <2>3. IsSeq(SubSeq(b0, i + 1, Len(b0)))
    BY <1>2, <2>2, SubIsSeq
  <2>4. IsSeq(SubSeq(b0, 1, i))
    BY <1>2, <2>2, SubFront
  <2>5. IsSeq(a0 \o SubSeq(b0, 1, i))
    BY <1>2, <2>4, SeqCat
  <2> HIDE DEF W
  <2> QED  BY <1>2, <1>3, <1>5, <2>1, <2>3, <2>5
<1> QED  BY <1>4, <1>7, <1>8, <1>9, <1>10, <1>11, <1>12, <1>13, <1>14, <1>15
-----------------------------------------------------------------------------
(* Opening.                                                                *)

(* What a call gave: the text if the tag was right, or nothing.            *)
Outcome(key, w, o) ==
  IF w.mac = TagFor(key, w.n, w.aad, w.body)
  THEN o.ret = 0 /\ o.m = IF key = AeadKey THEN Text(key, w.n, w.body)
                                           ELSE Zeros(Pad) \o Text(key, w.n, w.body)
  ELSE o.ret # 0 /\ o.m = Stale(Len(o.m))

GoodOpen(o) ==
  /\ IsKey(o.key) /\ Arrives(o.w) /\ (o.key # AeadKey => o.w.aad = <<>>)
  /\ Outcome(o.key, o.w, o)

OpenedInv == OtherCall => GoodOpen(opened)

LEMMA OpenedBox ==
  ASSUME NEW key, IsKey(key), key # AeadKey, NEW w, Arrives(w), NEW out,
         out = BoxResult(Real(key), w.n, w.body, w.mac, Stale(Pad + Len(w.body)))
  PROVE  GoodOpen([key |-> key, w |-> [w EXCEPT !.aad = <<>>], ret |-> out.ret, m |-> out.m])
<1> DEFINE v == [w EXCEPT !.aad = <<>>]
           o == [key |-> key, w |-> v, ret |-> out.ret, m |-> out.m]
           m == Stale(Pad + Len(w.body))
           t == BoxTag(Real(key), w.n, w.body)
<1>1. v = [n |-> w.n, aad |-> <<>>, body |-> w.body, mac |-> w.mac]
  BY DEF Arrives
<1>2. v.n = w.n /\ v.aad = <<>> /\ v.body = w.body /\ v.mac = w.mac
      /\ v = [n |-> v.n, aad |-> v.aad, body |-> v.body, mac |-> v.mac]
  BY <1>1
<1> HIDE DEF v
<1>3. Arrives(v)
  BY <1>2, SeqEmpty DEF Arrives
<1>4. o.key = key /\ o.w = v /\ o.ret = out.ret /\ o.m = out.m
  OBVIOUS
<1> HIDE DEF o
<1>5. t = TagFor(key, v.n, v.aad, v.body) /\ BoxText(Real(key), w.n, w.body) = Text(key, v.n, v.body)
  BY <1>2 DEF TagFor, AccOf, MacKey, BoxTag, Text
<1>6. m = Stale(Len(m))
  <2> DEFINE l == Pad + Len(w.body)
  <2>1. l \in Nat
    BY Sizes, SeqIs DEF Arrives
  <2> HIDE DEF l
  <2>2. Len(Stale(l)) = l
    BY <2>1, StaleLen
  <2> QED  BY <2>2 DEF l
<1> HIDE DEF m, t
<1>7. CASE w.mac = t
  <2>1. out.ret = 0 /\ out.m = Zeros(Pad) \o BoxText(Real(key), w.n, w.body)
    BY <1>7 DEF BoxResult, t
  <2>2. Outcome(key, v, o)
    BY <1>2, <1>4, <1>5, <1>7, <2>1 DEF Outcome
  <2>3. GoodOpen(o)
    BY <1>2, <1>3, <1>4, <2>2 DEF GoodOpen
  <2> QED  BY <2>3 DEF o, v
<1>8. CASE w.mac # t
  <2>1. out.ret = -1 /\ out.m = m
    BY <1>8 DEF BoxResult, t, m
  <2>2. Outcome(key, v, o)
    BY <1>2, <1>4, <1>5, <1>6, <1>8, <2>1 DEF Outcome
  <2>3. GoodOpen(o)
    BY <1>2, <1>3, <1>4, <2>2 DEF GoodOpen
  <2> QED  BY <2>3 DEF o, v
<1> QED  BY <1>7, <1>8

(* The parts of the buffers a caller passes.                               *)
LEMMA BuffersOpen ==
  ASSUME NEW w, Arrives(w), NEW k, NEW m
  PROVE  /\ crypto_secretbox_open_detached(m, Easy(w), TagOf(Easy(w)), w.n, k) = BoxResult(k, w.n, w.body, w.mac, m)
         /\ crypto_secretbox_open_detached(m, Detached(w), w.mac, w.n, k) = BoxResult(k, w.n, w.body, w.mac, m)
<1> DEFINE t == w.mac
           u == w.body
           f == Zeros(Off) \o t
           s == Stale(Pad)
<1>1. IsSeq(t) /\ Len(t) = MacBytes /\ IsSeq(u)
  BY DEF Arrives
<1>2. IsSeq(f) /\ Len(f) = Pad /\ TagOf(f \o u) = t
  BY <1>1, EasyParts
<1>3. IsSeq(s) /\ Len(s) = Pad
  BY Sizes, StaleLen
<1>4. Easy(w) = f \o u /\ Detached(w) = s \o u
  BY DEF Easy, Detached
<1> HIDE DEF t, u, f, s
<1>5. crypto_secretbox_open_detached(m, f \o u, t, w.n, k) = BoxResult(k, w.n, u, t, m)
  BY <1>1, <1>2, OpenIs
<1>6. crypto_secretbox_open_detached(m, s \o u, t, w.n, k) = BoxResult(k, w.n, u, t, m)
  BY <1>1, <1>3, OpenIs
<1> QED  BY <1>2, <1>4, <1>5, <1>6 DEF t, u

LEMMA OpenBoxInv ==
  ASSUME SentInv, NEW p \in Party, NEW q \in Party, p # q, NEW b \in sent, OpenBox(p, q, b)
  PROVE  GoodOpen(opened)' /\ sent' = sent
<1> DEFINE pk == crypto_box_keypair(p)
           k == crypto_box_beforenm(pk, q)
           key == PairKey(p, q)
<1>1. PICK w \in Arriving(b) :
          LET m == Stale(Pad + Len(w.body))
          IN \E out \in {crypto_box_open_easy(m, Easy(w), w.n, pk, q),
                         crypto_box_open_detached(m, Detached(w), w.mac, w.n, pk, q),
                         crypto_box_open_easy_afternm(m, Easy(w), w.n, k),
                         crypto_box_open_detached_afternm(m, Detached(w), w.mac, w.n, k)} :
               Opens(key, [w EXCEPT !.aad = <<>>], out)
  BY DEF OpenBox
<1> DEFINE m == Stale(Pad + Len(w.body))
<1>2. PICK out \in {crypto_box_open_easy(m, Easy(w), w.n, pk, q),
                    crypto_box_open_detached(m, Detached(w), w.mac, w.n, pk, q),
                    crypto_box_open_easy_afternm(m, Easy(w), w.n, k),
                    crypto_box_open_detached_afternm(m, Detached(w), w.mac, w.n, k)} :
        Opens(key, [w EXCEPT !.aad = <<>>], out)
  BY <1>1
<1>3. Arrives(w)
  BY ArrivingIs
<1>4. IsKey(key) /\ key # AeadKey
  BY PairIs, KeysApart DEF IsKey
<1>5. k = Real(key) /\ hsalsa20(<<"point", crypto_scalarmult(q, pk)>>, 0) = Real(key)
  BY PairIs
<1>6. out = BoxResult(Real(key), w.n, w.body, w.mac, m)
  <2> HIDE DEF key, pk, k, m
  <2> DEFINE R == BoxResult(Real(key), w.n, w.body, w.mac, m)
  <2>1. /\ crypto_secretbox_open_detached(m, Easy(w), TagOf(Easy(w)), w.n, Real(key)) = R
        /\ crypto_secretbox_open_detached(m, Detached(w), w.mac, w.n, Real(key)) = R
    BY <1>3, BuffersOpen
  <2>2. crypto_box_open_easy(m, Easy(w), w.n, pk, q) = R
    BY <1>5, <2>1 DEF crypto_box_open_easy, crypto_box_open_detached
  <2>3. crypto_box_open_detached(m, Detached(w), w.mac, w.n, pk, q) = R
    BY <1>5, <2>1 DEF crypto_box_open_detached
  <2>4. crypto_box_open_easy_afternm(m, Easy(w), w.n, k) = R
    BY <1>5, <2>1 DEF crypto_box_open_easy_afternm, crypto_box_open_detached_afternm
  <2>5. crypto_box_open_detached_afternm(m, Detached(w), w.mac, w.n, k) = R
    BY <1>5, <2>1 DEF crypto_box_open_detached_afternm
  <2> HIDE DEF R
  <2>6. out = R
    BY <1>2, <2>2, <2>3, <2>4, <2>5
  <2> QED  BY <2>6 DEF R
<1> DEFINE o == [key |-> key, w |-> [w EXCEPT !.aad = <<>>], ret |-> out.ret, m |-> out.m]
<1>7. GoodOpen(o)
  <2> HIDE DEF key
  <2> QED  BY <1>3, <1>4, <1>6, OpenedBox
<1>8. opened' = o /\ sent' = sent
  BY <1>2 DEF Opens, OpenBox
<1> HIDE DEF o
<1> QED  BY <1>7, <1>8 DEF GoodOpen, Arrives

LEMMA OpenSecretBoxInv ==
  ASSUME SentInv, NEW b \in sent, OpenSecretBox(b)
  PROVE  GoodOpen(opened)' /\ sent' = sent
<1> DEFINE key == SecretKey
<1>1. PICK w \in Arriving(b) :
         LET m == Stale(Pad + Len(w.body))
         IN \E out \in {crypto_secretbox_open_detached(m, Detached(w), w.mac, w.n, SecretKey),
                        crypto_secretbox_open(m, Easy(w), w.n, SecretKey)} :
              Opens(SecretKey, [w EXCEPT !.aad = <<>>], out)
  BY DEF OpenSecretBox
<1> DEFINE m == Stale(Pad + Len(w.body))
<1>2. PICK out \in {crypto_secretbox_open_detached(m, Detached(w), w.mac, w.n, SecretKey),
                    crypto_secretbox_open(m, Easy(w), w.n, SecretKey)} :
        Opens(SecretKey, [w EXCEPT !.aad = <<>>], out)
  BY <1>1
<1>3. Arrives(w)
  BY ArrivingIs
<1>4. IsKey(key) /\ key # AeadKey /\ Real(key) = SecretKey
  BY KeysApart DEF IsKey, Real
<1>6. out = BoxResult(Real(key), w.n, w.body, w.mac, m)
  <2> HIDE DEF m, key
  <2> DEFINE R == BoxResult(Real(key), w.n, w.body, w.mac, m)
  <2>1. /\ crypto_secretbox_open_detached(m, Easy(w), TagOf(Easy(w)), w.n, Real(key)) = R
        /\ crypto_secretbox_open_detached(m, Detached(w), w.mac, w.n, Real(key)) = R
    BY <1>3, BuffersOpen
  <2>2. crypto_secretbox_open(m, Easy(w), w.n, Real(key)) = R
    BY <2>1 DEF crypto_secretbox_open
  <2> HIDE DEF R
  <2>3. out = R
    BY <1>2, <1>4, <2>1, <2>2
  <2> QED  BY <2>3 DEF R
<1> DEFINE o == [key |-> key, w |-> [w EXCEPT !.aad = <<>>], ret |-> out.ret, m |-> out.m]
<1>7. GoodOpen(o)
  <2> HIDE DEF key
  <2> QED  BY <1>3, <1>4, <1>6, OpenedBox
<1>8. opened' = o /\ sent' = sent
  BY <1>2 DEF Opens, OpenSecretBox
<1> HIDE DEF o
<1> QED  BY <1>7, <1>8 DEF GoodOpen, Arrives

LEMMA OpenAeadInv ==
  ASSUME SentInv, NEW b \in sent, OpenAead(b)
  PROVE  GoodOpen(opened)' /\ sent' = sent
<1>1. PICK w \in Arriving(b) :
        Opens(AeadKey, w, aead_decrypt(Stale(Len(w.body)), w.body, w.mac, w.aad, AeadKey, w.n))
  BY DEF OpenAead
<1> DEFINE m == Stale(Len(w.body))
           out == aead_decrypt(m, w.body, w.mac, w.aad, AeadKey, w.n)
           o == [key |-> AeadKey, w |-> w, ret |-> out.ret, m |-> out.m]
           t == AeadTag(AeadKey, w.n, w.aad, w.body)
<1>2. Arrives(w)
  BY ArrivingIs
<1>3. out = AeadResult(AeadKey, w.n, w.aad, w.body, w.mac, m)
  BY <1>2, OpenAeadIs DEF Arrives
<1>4. opened' = o /\ sent' = sent
  BY <1>1 DEF Opens, OpenAead
<1>5. t = TagFor(AeadKey, w.n, w.aad, w.body) /\ AeadText(AeadKey, w.n, w.body) = Text(AeadKey, w.n, w.body)
  BY DEF TagFor, AccOf, MacKey, AeadTag, Text
<1>6. m = Stale(Len(m))
  <2> DEFINE l == Len(w.body)
  <2>1. l \in Nat
    BY <1>2, SeqIs DEF Arrives
  <2> HIDE DEF l
  <2>2. Len(Stale(l)) = l
    BY <2>1, StaleLen
  <2> QED  BY <2>2 DEF l
<1> HIDE DEF out
<1>7. o.key = AeadKey /\ o.w = w /\ o.ret = out.ret /\ o.m = out.m
  OBVIOUS
<1> HIDE DEF o, m, t
<1>8. Outcome(AeadKey, w, o)
  <2>1. CASE w.mac = t
    <3>1. out.ret = 0 /\ out.m = AeadText(AeadKey, w.n, w.body)
      BY <1>3, <2>1 DEF AeadResult, t
    <3> QED  BY <1>5, <1>7, <2>1, <3>1 DEF Outcome
  <2>2. CASE w.mac # t
    <3>1. out.ret = 1 /\ out.m = m
      BY <1>3, <2>2 DEF AeadResult, t
    <3> QED  BY <1>5, <1>6, <1>7, <2>2, <3>1 DEF Outcome
  <2> QED  BY <2>1, <2>2
<1>9. GoodOpen(o)
  BY <1>2, <1>7, <1>8 DEF GoodOpen, IsKey
<1> QED  BY <1>4, <1>9 DEF GoodOpen, Arrives

(* crypto_secretbox_open_easy is not one of the other calls.               *)
LEMMA OpenMistaken ==
  ASSUME NEW b \in sent, OpenSecretBoxEasy(b)
  PROVE  ~OtherCall' /\ sent' = sent
<1>1. "easy" \in DOMAIN opened' /\ sent' = sent
  BY DEF OpenSecretBoxEasy
<1> QED  BY <1>1 DEF OtherCall
-----------------------------------------------------------------------------
BoxesInv == SentInv /\ OnceInv /\ OpenedInv

LEMMA BoxesInit == Init => BoxesInv
BY DEF Init, BoxesInv, SentInv, OnceInv, OpenedInv, OtherCall

LEMMA BoxesNext == BoxesInv /\ [Next]_vars => BoxesInv'
<1> SUFFICES ASSUME SentInv, OnceInv, OpenedInv, [Next]_vars PROVE SentInv' /\ OnceInv' /\ OpenedInv'
  BY DEF BoxesInv
<1>1. ASSUME sent' = sent PROVE SentInv' /\ OnceInv'
  BY <1>1 DEF SentInv, OnceInv
<1>2. ASSUME opened' = opened, sent' = sent PROVE OpenedInv'
  BY <1>2 DEF OpenedInv, OtherCall, GoodOpen, Arrives
<1>3. CASE opened = None /\ Seal
  <2>1. SentInv' /\ OnceInv' /\ opened' = None
    BY <1>3, SealInv
  <2> QED  BY <2>1 DEF OpenedInv, OtherCall
<1>4. CASE Open
  <2>1. PICK b \in sent :
          \/ \E p, q \in Party : p # q /\ OpenBox(p, q, b)
          \/ OpenSecretBox(b) \/ OpenAead(b) \/ OpenSecretBoxEasy(b)
    BY <1>4 DEF Open
  <2>2. CASE \E p, q \in Party : p # q /\ OpenBox(p, q, b)
    <3>1. PICK p \in Party, q \in Party : p # q /\ OpenBox(p, q, b)
      BY <2>2
    <3>2. GoodOpen(opened)' /\ sent' = sent
      BY <3>1, OpenBoxInv
    <3> QED  BY <1>1, <3>2 DEF OpenedInv
  <2>3. CASE OpenSecretBox(b)
    <3>1. GoodOpen(opened)' /\ sent' = sent
      BY <2>3, OpenSecretBoxInv
    <3> QED  BY <1>1, <3>1 DEF OpenedInv
  <2>4. CASE OpenAead(b)
    <3>1. GoodOpen(opened)' /\ sent' = sent
      BY <2>4, OpenAeadInv
    <3> QED  BY <1>1, <3>1 DEF OpenedInv
  <2>5. CASE OpenSecretBoxEasy(b)
    <3>1. ~OtherCall' /\ sent' = sent
      BY <2>5, OpenMistaken
    <3> QED  BY <1>1, <3>1 DEF OpenedInv
  <2> QED  BY <2>1, <2>2, <2>3, <2>4, <2>5
<1>5. CASE Done
  <2>1. opened' = None /\ sent' = sent
    BY <1>5 DEF Done
  <2> QED  BY <1>1, <2>1 DEF OpenedInv, OtherCall
<1>6. CASE Round \/ \E s \in Streams : CallStreams(s)
  <2>1. opened' = opened /\ sent' = sent
    BY <1>6 DEF Round, CallStreams
  <2> QED  BY <1>1, <1>2, <2>1
<1>7. CASE UNCHANGED vars
  <2>1. opened' = opened /\ sent' = sent
    BY <1>7 DEF vars
  <2> QED  BY <1>1, <1>2, <2>1
<1> QED  BY <1>3, <1>4, <1>5, <1>6, <1>7 DEF Next

(* A genuine box has the tag its body should have, and its body is the     *)
(* message under the keystream it is decrypted with.                       *)
LEMMA GenuineOpens ==
  ASSUME BoxesInv, OtherCall, NEW b \in sent, Genuine(b)
  PROVE  opened.ret = 0 /\ opened.m = Plain(b)
<1> DEFINE key == opened.key
           w == opened.w
<1>1. Sealed(b) /\ GoodOpen(opened)
  BY DEF BoxesInv, SentInv, OpenedInv
<1>2. b.key = key /\ b.n = w.n /\ b.aad = w.aad /\ Body(b) = w.body /\ Tag(b) = w.mac
  BY DEF Genuine
<1>3. w.mac = TagFor(key, w.n, w.aad, w.body)
  BY <1>1, <1>2 DEF Sealed
<1>4. Text(key, w.n, w.body) = b.msg
  <2>1. IsSeq(b.msg) /\ w.body = Text(key, w.n, b.msg)
    BY <1>1, <1>2, MessageIs DEF Sealed
  <2> HIDE DEF key, w
  <2> QED  BY <2>1, TextTwice
<1>5. opened.ret = 0 /\ opened.m = IF key = AeadKey THEN Text(key, w.n, w.body)
                                                  ELSE Zeros(Pad) \o Text(key, w.n, w.body)
  <2>1. Outcome(key, w, opened)
    BY <1>1 DEF GoodOpen
  <2> HIDE DEF key, w
  <2> QED  BY <1>3, <2>1 DEF Outcome
<1> HIDE DEF key, w
<1> QED  BY <1>2, <1>4, <1>5 DEF Plain

(* What is accepted has the tag of a sealed box, which is then the box.    *)
LEMMA AcceptedIsGenuine ==
  ASSUME BoxesInv, OtherCall
  PROVE  \/ \E b \in sent : Genuine(b)
         \/ opened.ret # 0 /\ opened.m = Stale(Len(opened.m))
<1> DEFINE key == opened.key
           w == opened.w
           t == TagFor(key, w.n, w.aad, w.body)
<1>1. GoodOpen(opened)
  BY DEF BoxesInv, OpenedInv
<1>2. IsKey(key) /\ Arrives(w) /\ (key # AeadKey => w.aad = <<>>) /\ Outcome(key, w, opened)
  BY <1>1 DEF GoodOpen
<1>3. CASE w.mac # t
  <2> HIDE DEF key, w
  <2> QED  BY <1>2, <1>3 DEF Outcome
<1>4. CASE w.mac = t
  <2>1. ~Forged(t)
    BY DEF Forged, TagFor
  <2>2. w.n \in Nonce /\ IsSeq(w.aad) /\ IsSeq(w.body) /\ ((\E x \in sent : w.mac = Tag(x)) \/ Forged(w.mac))
    BY <1>2 DEF Arrives
  <2>3. PICK x \in sent : t = Tag(x)
    BY <1>4, <2>1, <2>2
  <2>4. Sealed(x)
    BY DEF BoxesInv, SentInv
  <2>5. IsKey(x.key) /\ x.n \in Nonce /\ IsSeq(x.aad) /\ (x.key # AeadKey => x.aad = <<>>)
        /\ Tag(x) = TagFor(x.key, x.n, x.aad, Body(x))
    BY <2>4 DEF Sealed
  <2>6. IsSeq(Body(x))
    BY <2>4, SealedTag
  <2> DEFINE c == Body(x)
  <2>7. TagFor(key, w.n, w.aad, w.body) = TagFor(x.key, x.n, x.aad, c)
    BY <2>3, <2>5
  <2> HIDE DEF key, w, c
  <2>8. key = x.key /\ w.n = x.n /\ w.body = c /\ (key = AeadKey => w.aad = x.aad)
    <3>1. IsSeq(c)
      BY <2>6 DEF c
    <3> QED  BY <1>2, <2>2, <2>5, <2>7, <3>1, TagOnce
  <2>9. w.aad = x.aad
    BY <1>2, <2>5, <2>8
  <2>10. Genuine(x)
    BY <1>4, <2>3, <2>8, <2>9 DEF Genuine, key, w, c
  <2> QED  BY <2>10
<1> QED  BY <1>3, <1>4

LEMMA BoxesInvariant == Spec => []BoxesInv
BY BoxesInit, BoxesNext, PTL DEF Spec

(* crypto_box, crypto_secretbox and the AEAD: what one party seals with    *)
(* any of the calls that seal, the other opens with any of the calls that  *)
(* open but crypto_secretbox_open_easy, and finds the message behind       *)
(* padding of zeros, for every length, nonce and pair of parties.          *)
THEOREM OtherCallsAlwaysOpen == Spec => []OtherCallsOpen
<1>1. BoxesInv => OtherCallsOpen
  BY GenuineOpens DEF OtherCallsOpen, BoxesOpen
<1> QED  BY <1>1, BoxesInvariant, PTL

(* The calls that open: nothing but a box sealed under the same key and    *)
(* nonce, with the same additional data, body and tag, is accepted; what   *)
(* is refused leaves the output buffer as it was.                          *)
THEOREM OnlyGenuineOpens == Spec => []OnlyGenuine
<1>1. BoxesInv => OnlyGenuine
  BY AcceptedIsGenuine DEF OnlyGenuine
<1> QED  BY <1>1, BoxesInvariant, PTL

(* salsa20, chacha20 and the constructions over them: no byte of keystream *)
(* is used at two places of what was sealed, in a text or in a one-time    *)
(* key, however long the messages and however many the boxes.              *)
THEOREM KeystreamUsedOnce == Spec => []KeystreamOnce
<1>1. BoxesInv => KeystreamOnce
  BY SentOnce DEF BoxesInv
<1> QED  BY <1>1, BoxesInvariant, PTL
-----------------------------------------------------------------------------
(* ChaCha20 on vectors, by place.                                          *)

(* Its state after j blocks, and what it wrote, when its output is w.      *)
VecState(k, n, ctr, j) == setup("chacha20", k, n, Add("chacha20", ctr, j))
First(w, o) == [x \in 1 .. o |-> w[x]]
Vec(k, n, ctr, w, j) == [st |-> VecState(k, n, ctr, j), out |-> First(w, j * Block)]

LEMMA VecNext ==
  ASSUME NEW k, NEW n, NEW ctr \in Nat, NEW j \in Nat
  PROVE  /\ state_incr(VecState(k, n, ctr, j)) = VecState(k, n, ctr, j + 1)
         /\ VecState(k, n, ctr, j).ctr = Add("chacha20", ctr, j)
<1> DEFINE c == (ctr + j) % Ctr
           d == (ctr + (j + 1)) % Ctr
<1>1. (c + 1) % Ctr = d
  <2>1. ctr + j \in Nat /\ (ctr + j) + 1 = ctr + (j + 1) /\ Ctr \in Nat \ {0}
    BY Sizes
  <2>2. (((ctr + j) % Ctr) + 1) % Ctr = ((ctr + j) + 1) % Ctr
    BY <2>1, ModNext
  <2> QED  BY <2>1, <2>2
<1>2. VecState(k, n, ctr, j) = [alg |-> "chacha20", k |-> k, n |-> n, ctr |-> c]
  BY DEF VecState, setup, Add
<1>3. VecState(k, n, ctr, j + 1) = [alg |-> "chacha20", k |-> k, n |-> n, ctr |-> d]
  BY DEF VecState, setup, Add
<1> HIDE DEF c, d
<1>4. state_incr(VecState(k, n, ctr, j)) = [alg |-> "chacha20", k |-> k, n |-> n, ctr |-> (c + 1) % Ctr]
  BY <1>2 DEF state_incr
<1>5. VecState(k, n, ctr, j).ctr = c
  BY <1>2
<1> QED  BY <1>1, <1>3, <1>4, <1>5 DEF Add, c

(* A state's counter aside, all its states give the same keystream.        *)
LEMMA VecAtom ==
  ASSUME NEW k, NEW n, NEW ctr, NEW j, NEW c, NEW i
  PROVE  Atom(VecState(k, n, ctr, j), c, i) = Atom(AeadState(k, n), c, i)
BY DEF Atom, VecState, AeadState, setup

(* The next bytes of w.                                                    *)
LEMMA FirstNext ==
  ASSUME NEW w, IsSeq(w), NEW t, IsSeq(t), NEW o \in Nat, o + Len(t) <= Len(w),
         \A x \in 1 .. Len(t) : t[x] = w[o + x]
  PROVE  First(w, o) \o t = First(w, o + Len(t))
<1> DEFINE r == Len(t)
           u == First(w, o)
           v == First(w, o + r)
           s == u \o t
<1>1. r \in Nat /\ o + r \in Nat
  BY SeqIs
<1>2. u = [x \in 1 .. o |-> u[x]] /\ v = [x \in 1 .. o + r |-> v[x]]
  BY DEF First
<1>3. (\A x \in 1 .. o : u[x] = w[x]) /\ (\A x \in 1 .. o + r : v[x] = w[x])
  BY DEF First
<1> HIDE DEF r, u, v
<1>4. IsSeq(u) /\ Len(u) = o
  BY <1>2, FunSeq
<1>5. IsSeq(v) /\ Len(v) = o + r
  BY <1>1, <1>2, FunSeq
<1>6. IsSeq(s) /\ Len(s) = Len(u) + Len(t)
      /\ \A x \in 1 .. Len(u) + Len(t) : s[x] = IF x <= Len(u) THEN u[x] ELSE t[x - Len(u)]
  BY <1>4, SeqCat
<1> HIDE DEF s
<1>7. Len(s) = o + r /\ \A x \in 1 .. o + r : s[x] = IF x <= o THEN u[x] ELSE t[x - o]
  BY <1>4, <1>6 DEF r
<1>8. ASSUME NEW x \in 1 .. o + r PROVE s[x] = v[x]
  <2>1. CASE x <= o
    <3>1. x \in 1 .. o
      BY <1>1, <2>1
    <3> QED  BY <1>3, <1>7, <2>1, <3>1
  <2>2. CASE ~(x <= o)
    <3> DEFINE y == x - o
    <3>1. y \in 1 .. r /\ o + y = x
      BY <1>1, <2>2
    <3> HIDE DEF y
    <3>2. t[y] = w[x]
      BY <3>1 DEF r
    <3>3. s[x] = t[y]
      BY <1>7, <2>2 DEF y
    <3> QED  BY <1>3, <3>2, <3>3
  <2> QED  BY <2>1, <2>2
<1>9. s = v
  BY <1>5, <1>6, <1>7, <1>8, SeqEq
<1> QED  BY <1>9 DEF s, u, v, r

(* A byte of the keystream, by block.                                      *)
LEMMA ByteOf ==
  ASSUME NEW st, NEW ctr, NEW x, NEW c \in Nat, NEW i \in 1 .. Block, x = c * Block + i
  PROVE  StreamAt(st, ctr, x) = Atom(st, Add(st.alg, ctr, c), i)
<1>1. (c * Block + i - 1) \div Block = c /\ (((c * Block + i) - 1) % Block) + 1 = i
  BY BlockPos, PlaceOf
<1>2. (x - 1) \div Block = c /\ ((x - 1) % Block) + 1 = i
  <2>1. c * Block \in Nat /\ Block \in Nat
    BY BlockPos
  <2>2. c * Block + i - 1 = x - 1 /\ (c * Block + i) - 1 = x - 1
    BY <2>1
  <2> QED  BY <1>1, <2>2
<1> QED  BY <1>2 DEF StreamAt

(* A step's writes.                                                        *)
LEMMA VecUpdated ==
  ASSUME NEW s, NEW u, NEW p
  PROVE  vec_update([st |-> s, out |-> u], p) = [st |-> state_incr(s), out |-> u \o update(p, s, s.ctr)]
<1> DEFINE r == [st |-> s, out |-> u]
           v == u \o update(p, r.st, r.st.ctr)
           x == state_incr(r.st)
<1>1. r.st = s /\ r.out = u
  OBVIOUS
<1>2. vec_update(r, p) = [[r EXCEPT !.out = v] EXCEPT !.st = x]
  BY DEF vec_update
<1> HIDE DEF v, x
<1>3. [r EXCEPT !.out = v] = [st |-> s, out |-> v]
  OBVIOUS
<1>4. [[st |-> s, out |-> v] EXCEPT !.st = x] = [st |-> x, out |-> v]
  OBVIOUS
<1>5. vec_update(r, p) = [st |-> x, out |-> v]
  BY <1>2, <1>3, <1>4
<1>6. vec_update(r, p) = [st |-> state_incr(s), out |-> u \o update(p, s, s.ctr)]
  <2> HIDE DEF r
  <2> QED  BY <1>1, <1>5 DEF v, x
<1> QED  BY <1>6

(* One block.                                                              *)
LEMMA VecOne ==
  ASSUME NEW plain, IsSeq(plain), NEW k, NEW n, NEW ctr \in Nat, NEW j \in Nat,
         (j + 1) * Block <= Len(plain)
  PROVE  LET w == ModeOf(plain, AeadState(k, n), ctr)
         IN vec_update(Vec(k, n, ctr, w, j), Piece(plain, Block, j + 1)) = Vec(k, n, ctr, w, j + 1)
<1> DEFINE w == ModeOf(plain, AeadState(k, n), ctr)
           p == Piece(plain, Block, j + 1)
           s == VecState(k, n, ctr, j)
           c == Add("chacha20", ctr, j)
           t == update(p, s, c)
           o == j * Block
           e == (j + 1) * Block
<1>1. IsSeq(p) /\ Len(p) = Block /\ \A i \in 1 .. Block : p[i] = plain[o + i]
  BY BlockPos, PieceIs
<1>2. IsSeq(t) /\ Len(t) = Block /\ \A i \in 1 .. Block : t[i] = SymDiff(p[i], {Atom(s, c, i)})
  <2> HIDE DEF p, s, c
  <2>1. Len(p) <= Block
    BY <1>1, BlockPos
  <2>2. Updated(p, s, c)
    BY <1>1, <2>1, UpdateIs
  <2> QED  BY <1>1, <2>2 DEF Updated
<1>3. IsSeq(w) /\ Len(w) = Len(plain)
  BY ModeLen
<1>4. o \in Nat /\ e = o + Block /\ Block \in Nat
  BY BlockPos
<1>5. ASSUME NEW i \in 1 .. Block PROVE t[i] = w[o + i]
  <2> DEFINE st == AeadState(k, n)
             x == o + i
  <2>1. x \in 1 .. Len(plain)
    <3>1. Len(plain) \in Nat
      BY SeqIs
    <3> HIDE DEF o
    <3> QED  BY <1>4, <3>1
  <2>2. w[x] = SymDiff(plain[x], {StreamAt(st, ctr, x)})
    BY <2>1 DEF ModeOf
  <2>3. st.alg = "chacha20"
    BY DEF AeadState, setup
  <2>4. StreamAt(st, ctr, x) = Atom(st, Add(st.alg, ctr, j), i)
    <3>1. x = j * Block + i
      OBVIOUS
    <3> HIDE DEF x, st
    <3> QED  BY <3>1, ByteOf
  <2>5. Atom(s, c, i) = Atom(st, c, i)
    BY VecAtom
  <2>6. t[i] = SymDiff(plain[x], {Atom(s, c, i)})
    <3> HIDE DEF w, t, p, s, o, st, c
    <3> QED  BY <1>1, <1>2
  <2>7. StreamAt(st, ctr, x) = Atom(s, c, i)
    <3> HIDE DEF w, t, p, s, o, st, x
    <3> QED  BY <2>3, <2>4, <2>5
  <2> HIDE DEF w, t, p, s, o, st, c
  <2> QED  BY <2>2, <2>6, <2>7
<1>6. First(w, o) \o t = First(w, e)
  <2> HIDE DEF w, t, o, e
  <2>1. o + Len(t) <= Len(w) /\ \A x \in 1 .. Len(t) : t[x] = w[o + x]
    BY <1>2, <1>3, <1>4, <1>5 DEF e
  <2>2. First(w, o) \o t = First(w, o + Len(t))
    BY <1>2, <1>3, <1>4, <2>1, FirstNext
  <2> QED  BY <1>2, <1>4, <2>2
<1>7. s.ctr = c /\ state_incr(s) = VecState(k, n, ctr, j + 1)
  BY VecNext
<1> DEFINE r == Vec(k, n, ctr, w, j)
<1>8. r = [st |-> s, out |-> First(w, o)] /\ Vec(k, n, ctr, w, j + 1) = [st |-> VecState(k, n, ctr, j + 1), out |-> First(w, e)]
  BY DEF Vec
<1> HIDE DEF r, w, s, p, o, e, c
<1>9. vec_update(r, p) = [st |-> state_incr(s), out |-> First(w, o) \o update(p, s, s.ctr)]
  BY <1>8, VecUpdated
<1>10. vec_update(r, p) = Vec(k, n, ctr, w, j + 1)
  BY <1>6, <1>7, <1>8, <1>9
<1> QED  BY <1>10 DEF r, p, w

(* The counters of three copies: those of the three blocks.                *)

LEMMA ThreeCounts ==
  ASSUME NEW k, NEW n, NEW ctr \in Nat, NEW j \in Nat
  PROVE  LET s == VecState(k, n, ctr, j)
         IN /\ \A i \in 1 .. 3 : /\ incr3(s)[i] = Add("chacha20", ctr, j + (i - 1))
                                 /\ sum3(s)[i].ctr = Add("chacha20", ctr, j + (i - 1))
            /\ state_incr(sum3(s)[3]) = VecState(k, n, ctr, j + 3)
<1> DEFINE S(i) == VecState(k, n, ctr, j + i)
           C(i) == Add("chacha20", ctr, j + i)
           s == S(0)
<1>1. VecState(k, n, ctr, j) = s /\ C(0) = Add("chacha20", ctr, j)
  OBVIOUS
<1>2. ASSUME NEW i \in Nat PROVE state_incr(S(i)) = S(i + 1) /\ S(i).ctr = C(i)
  <2>1. j + i \in Nat /\ (j + i) + 1 = j + (i + 1)
    OBVIOUS
  <2> QED  BY <2>1, VecNext
<1> HIDE DEF S, s, C
<1>3. state_incr(S(0)) = S(1) /\ S(0).ctr = C(0)
  BY <1>2
<1>4. state_incr(S(1)) = S(2) /\ S(1).ctr = C(1)
  BY <1>2
<1>5. state_incr(S(2)) = S(3) /\ S(2).ctr = C(2)
  BY <1>2
<1>6. incr3(s) = <<C(0), C(1), C(2)>> /\ sum3(s) = <<S(0), S(1), S(2)>>
  BY <1>3, <1>4, <1>5 DEF incr3, sum3, s
<1>7. state_incr(sum3(s)[3]) = S(3)
  BY <1>5, <1>6
<1>8. ASSUME NEW i \in 1 .. 3 PROVE incr3(s)[i] = C(i - 1) /\ sum3(s)[i].ctr = C(i - 1)
  <2>1. CASE i = 1
    BY <1>3, <1>6, <2>1
  <2>2. CASE i = 2
    BY <1>4, <1>6, <2>2
  <2>3. CASE i = 3
    BY <1>5, <1>6, <2>3
  <2> QED  BY <2>1, <2>2, <2>3
<1> QED  BY <1>1, <1>7, <1>8 DEF S, C

(* A step's writes.                                                        *)
LEMMA Vec3Updated ==
  ASSUME NEW s, NEW u, NEW p
  PROVE  update3([st |-> s, out |-> u], p) =
           [st |-> state_incr(sum3(s)[3]),
            out |-> u \o FlattenSeq([i \in 1 .. 3 |->
                           Xor(Piece(p, Block, i), Keystream(s, incr3(s)[i], sum3(s)[i].ctr))])]
<1> DEFINE r == [st |-> s, out |-> u]
           F(t) == FlattenSeq([i \in 1 .. 3 |->
                           Xor(Piece(p, Block, i), Keystream(t, incr3(t)[i], sum3(t)[i].ctr))])
           v == u \o F(r.st)
           x == state_incr(sum3(r.st)[3])
<1>1. r.st = s /\ r.out = u
  OBVIOUS
<1>2. update3(r, p) = [[r EXCEPT !.out = v] EXCEPT !.st = x]
  <2> HIDE DEF F
  <2> QED  BY DEF update3, F
<1> HIDE DEF v, x
<1>3. [r EXCEPT !.out = v] = [st |-> s, out |-> v]
  OBVIOUS
<1>4. [[st |-> s, out |-> v] EXCEPT !.st = x] = [st |-> x, out |-> v]
  OBVIOUS
<1>5. update3(r, p) = [st |-> x, out |-> v]
  BY <1>2, <1>3, <1>4
<1>6. update3(r, p) = [st |-> state_incr(sum3(s)[3]), out |-> u \o F(s)]
  <2> HIDE DEF r, F
  <2> QED  BY <1>1, <1>5 DEF v, x
<1> QED  BY <1>6

(* Three blocks.                                                           *)
LEMMA VecThree ==
  ASSUME NEW plain, IsSeq(plain), NEW k, NEW n, NEW ctr \in Nat, NEW j \in Nat,
         (j + 3) * Block <= Len(plain),
         NEW p, IsSeq(p), Len(p) = 3 * Block, \A x \in 1 .. 3 * Block : p[x] = plain[j * Block + x]
  PROVE  LET w == ModeOf(plain, AeadState(k, n), ctr)
         IN update3(Vec(k, n, ctr, w, j), p) = Vec(k, n, ctr, w, j + 3)
<1> DEFINE b == Block
           st == AeadState(k, n)
           w == ModeOf(plain, st, ctr)
           s == VecState(k, n, ctr, j)
           C(i) == Add("chacha20", ctr, i)
           q == [i \in 1 .. 3 |-> update(Piece(p, b, i), s, C(j + (i - 1)))]
           t == FlattenSeq(q)
           o == j * b
           e == (j + 3) * b
           z == 3 * b
           r == Vec(k, n, ctr, w, j)
<1>1. /\ \A i \in 1 .. 3 : incr3(s)[i] = C(j + (i - 1)) /\ sum3(s)[i].ctr = C(j + (i - 1))
      /\ state_incr(sum3(s)[3]) = VecState(k, n, ctr, j + 3)
  BY ThreeCounts
<1>2. r = [st |-> s, out |-> First(w, o)] /\ Vec(k, n, ctr, w, j + 3) = [st |-> VecState(k, n, ctr, j + 3), out |-> First(w, e)]
  BY DEF Vec
<1>3. update3(r, p) = [st |-> VecState(k, n, ctr, j + 3), out |-> First(w, o) \o t]
  <2> DEFINE g == [i \in 1 .. 3 |-> Xor(Piece(p, b, i), Keystream(s, incr3(s)[i], sum3(s)[i].ctr))]
  <2>1. update3(r, p) = [st |-> state_incr(sum3(s)[3]), out |-> First(w, o) \o FlattenSeq(g)]
    <3> HIDE DEF w, o, s, r
    <3> QED  BY <1>2, Vec3Updated
  <2>2. g = q
    <3> HIDE DEF s, C
    <3> QED  BY <1>1 DEF update, core
  <2> HIDE DEF g, q, w, o, s, r
  <2> QED  BY <1>1, <2>1, <2>2
<1>4. b \in Nat \ {0} /\ o \in Nat /\ z \in Nat /\ e = o + z /\ Len(plain) \in Nat
  BY BlockPos, SeqIs
<1>5. ASSUME NEW i \in 1 .. 3
      PROVE  /\ IsSeq(q[i]) /\ Len(q[i]) = b
             /\ \A x \in 1 .. b : q[i][x] = SymDiff(p[(i - 1) * b + x], {Atom(s, C(j + (i - 1)), x)})
  <2> DEFINE c == i - 1
             d == Piece(p, b, c + 1)
             u == update(d, s, C(j + c))
  <2>1. c \in Nat /\ c + 1 = i /\ i <= 3
    OBVIOUS
  <2>2. q[i] = u
    BY <2>1
  <2> HIDE DEF c, q, b, C, s
  <2>3. (c + 1) * b <= Len(p)
    BY <1>4, <2>1 DEF b
  <2>4. /\ IsSeq(d) /\ Len(d) = b
        /\ \A x \in 1 .. b : d[x] = p[c * b + x]
    BY <1>4, <2>1, <2>3, PieceIs
  <2> HIDE DEF d
  <2>5. /\ \A x \in 1 .. b : u[x] = SymDiff(d[x], {Atom(s, C(j + c), x)})
        /\ IsSeq(u) /\ Len(u) = b
    <3>1. Len(d) <= Block /\ Len(d) = b
      BY <1>4, <2>4 DEF b
    <3>2. Updated(d, s, C(j + c))
      BY <2>4, <3>1, UpdateIs
    <3> QED  BY <3>1, <3>2 DEF Updated
  <2> HIDE DEF u
  <2> QED  BY <2>2, <2>4, <2>5 DEF c
<1>6. Pieces(q, 3, b)
  <2>1. q = [i \in 1 .. 3 |-> q[i]]
    OBVIOUS
  <2> HIDE DEF q, b
  <2>2. IsSeq(q) /\ Len(q) = 3
    BY <2>1, FunSeq
  <2> QED  BY <1>5, <2>2 DEF Pieces
<1>7. t = Flat(q, b, 3)
  <2> HIDE DEF q, b
  <2> QED  BY <1>4, <1>6, FlattenIs
<1>8. /\ IsSeq(t) /\ Len(t) = z
      /\ \A x \in 1 .. z : t[x] = q[((x - 1) \div b) + 1][((x - 1) % b) + 1]
  <2>1. \A x \in 1 .. z : t[x] = q[((x - 1) \div b) + 1][((x - 1) % b) + 1]
    BY <1>7 DEF Flat
  <2> HIDE DEF t, q, b
  <2> QED  BY <1>4, <1>7, <2>1, FlatLen
<1>9. IsSeq(w) /\ Len(w) = Len(plain)
  BY ModeLen
<1>10. ASSUME NEW x \in 1 .. z PROVE t[x] = w[o + x]
  <2> DEFINE c == (x - 1) \div b
             i == ((x - 1) % b) + 1
             y == o + x
  <2>1. c \in Nat /\ i \in 1 .. b /\ x = c * b + i
    <3> HIDE DEF b
    <3>1. x \in Nat \ {0}
      BY <1>4
    <3> QED  BY <1>4, <3>1, PlaceIs
  <2>2. c < 3
    <3> SUFFICES ASSUME c >= 3 PROVE FALSE
      BY <2>1
    <3> HIDE DEF c, i
    <3> DEFINE a == c * b
    <3>1. a >= z /\ a \in Nat /\ x = a + i
      <4> HIDE DEF b
      <4> QED  BY <1>4, <2>1
    <3> HIDE DEF a, z, b
    <3> QED  BY <1>4, <2>1, <3>1
  <2>3. y \in 1 .. Len(plain)
    <3> HIDE DEF o, z
    <3> QED  BY <1>4 DEF e
  <2>4. w[y] = SymDiff(plain[y], {StreamAt(st, ctr, y)})
    BY <2>3 DEF ModeOf
  <2>5. t[x] = q[c + 1][i]
    BY <1>8
  <2> HIDE DEF c, i
  <2>6. c + 1 \in 1 .. 3 /\ (c + 1) - 1 = c
    BY <2>1, <2>2
  <2>7. t[x] = SymDiff(p[x], {Atom(s, C(j + c), i)})
    <3> HIDE DEF q, b, t, s, C
    <3> QED  BY <1>5, <2>1, <2>5, <2>6
  <2>8. st.alg = "chacha20"
    BY DEF AeadState, setup
  <2>9. StreamAt(st, ctr, y) = Atom(st, Add(st.alg, ctr, j + c), i)
    <3>1. y = (j + c) * b + i /\ j + c \in Nat
      BY <1>4, <2>1
    <3> HIDE DEF y, st
    <3> QED  BY <2>1, <3>1, ByteOf
  <2>10. Atom(s, C(j + c), i) = Atom(st, C(j + c), i)
    BY VecAtom
  <2>11. StreamAt(st, ctr, y) = Atom(s, C(j + c), i)
    <3> HIDE DEF w, t, s, o, st, y
    <3> QED  BY <2>8, <2>9, <2>10
  <2>12. p[x] = plain[y]
    OBVIOUS
  <2> HIDE DEF w, t, s, o, st, y, C
  <2> QED  BY <2>4, <2>7, <2>11, <2>12 DEF y
<1>11. First(w, o) \o t = First(w, e)
  <2> HIDE DEF w, t, o, e, z
  <2>1. o + Len(t) <= Len(w) /\ \A x \in 1 .. Len(t) : t[x] = w[o + x]
    BY <1>4, <1>8, <1>9, <1>10 DEF e
  <2>2. First(w, o) \o t = First(w, o + Len(t))
    BY <1>4, <1>8, <1>9, <2>1, FirstNext
  <2> QED  BY <1>4, <1>8, <2>2
<1> HIDE DEF r, w, s, o, e, t
<1>12. update3(r, p) = Vec(k, n, ctr, w, j + 3)
  BY <1>2, <1>3, <1>11
<1> QED  BY <1>12 DEF r, w

LEMMA VecStart ==
  ASSUME NEW k, NEW n, NEW ctr \in 0 .. Ctr - 1, NEW w
  PROVE  /\ setup("chacha20", k, n, ctr) = VecState(k, n, ctr, 0)
         /\ Vec(k, n, ctr, w, 0) = [st |-> VecState(k, n, ctr, 0), out |-> <<>>]
<1>1. Add("chacha20", ctr, 0) = ctr
  <2>1. Ctr \in Nat \ {0} /\ ctr \in Nat /\ ctr < Ctr
    BY Sizes
  <2>2. ctr % Ctr = ctr
    BY <2>1, ModSmall
  <2>3. ctr + 0 = ctr
    OBVIOUS
  <2> QED  BY <2>2, <2>3 DEF Add
<1>2. First(w, 0) = <<>>
  <2> DEFINE f == First(w, 0)
  <2>1. f = [x \in 1 .. 0 |-> f[x]]
    BY DEF First
  <2> HIDE DEF f
  <2>2. IsSeq(f) /\ Len(f) = 0
    BY <2>1, FunSeq
  <2>3. f = <<>>
    BY <2>2, SeqEmpty, SeqEq
  <2> QED  BY <2>3 DEF f
<1>3. 0 * Block = 0
  BY BlockPos
<1> QED  BY <1>1, <1>2, <1>3 DEF VecState, Vec

(* m times three blocks.                                                   *)
LEMMA VecBlocks3 ==
  ASSUME NEW plain, IsSeq(plain), NEW k, NEW n, NEW ctr \in 0 .. Ctr - 1, NEW m \in Nat,
         (3 * m) * Block <= Len(plain)
  PROVE  LET w == ModeOf(plain, AeadState(k, n), ctr)
         IN vec_counter_mode_blocks3(plain, m, VecState(k, n, ctr, 0)) = Vec(k, n, ctr, w, 3 * m)
<1> DEFINE w == ModeOf(plain, AeadState(k, n), ctr)
           s == VecState(k, n, ctr, 0)
           z == 3 * Block
           C(i) == Vec(k, n, ctr, w, 3 * i)
           v == [st |-> s, out |-> <<>>]
           Eq(f) == f = [i \in 0 .. m |-> IF i = 0 THEN v ELSE update3(f[i - 1], Piece(plain, z, i))]
           f == CHOOSE g : Eq(g)
           g == [i \in 0 .. m |-> C(i)]
           I == {j \in Nat : j <= m => f[j] = C(j)}
<1>1. vec_counter_mode_blocks3(plain, m, s) = f[m]
  BY DEF vec_counter_mode_blocks3
<1>2. C(0) = v
  <2>1. 3 * 0 = 0
    OBVIOUS
  <2> HIDE DEF w
  <2> QED  BY <2>1, VecStart
<1>3. ctr \in Nat /\ Block \in Nat \ {0} /\ z \in Nat \ {0} /\ Len(plain) \in Nat
  BY Sizes, BlockPos, SeqIs
<1>4. ASSUME NEW i \in 1 .. m PROVE C(i) = update3(C(i - 1), Piece(plain, z, i))
  <2> DEFINE c == i - 1
             j == 3 * c
             p == Piece(plain, z, c + 1)
  <2>1. c \in Nat /\ c + 1 = i /\ j \in Nat /\ j + 3 = 3 * i /\ i <= m
    OBVIOUS
  <2>2. (j + 3) * Block <= Len(plain) /\ (c + 1) * z <= Len(plain)
    <3>1. (c + 1) * z = (j + 3) * Block
      BY <1>3, <2>1
    <3>2. (3 * i) * Block <= (3 * m) * Block /\ (3 * i) * Block \in Nat /\ (3 * m) * Block \in Nat
      <4>1. 3 * i <= 3 * m /\ 3 * i \in Nat /\ 3 * m \in Nat
        OBVIOUS
      <4> DEFINE a == 3 * i
                 d == 3 * m
      <4>2. a \in Nat /\ d \in Nat /\ a <= d
        BY <4>1
      <4> HIDE DEF a, d
      <4>3. a * Block <= d * Block /\ a * Block \in Nat /\ d * Block \in Nat
        BY <1>3, <4>2
      <4> QED  BY <4>3 DEF a, d
    <3> HIDE DEF j, c, z
    <3> QED  BY <1>3, <2>1, <3>1, <3>2
  <2>3. IsSeq(p) /\ Len(p) = z /\ \A x \in 1 .. z : p[x] = plain[c * z + x]
    <3>1. z \in Nat \ {0} /\ c \in Nat /\ (c + 1) * z <= Len(plain)
      BY <1>3, <2>1, <2>2
    <3> HIDE DEF c, z, w, s, j
    <3> QED  BY <3>1, PieceIs
  <2>4. c * z = j * Block
    BY <1>3, <2>1
  <2>5. \A x \in 1 .. 3 * Block : p[x] = plain[j * Block + x]
    BY <2>3, <2>4
  <2> HIDE DEF c, j, p
  <2>6. update3(Vec(k, n, ctr, w, j), p) = Vec(k, n, ctr, w, j + 3)
    <3>1. IsSeq(p) /\ Len(p) = 3 * Block /\ (j + 3) * Block <= Len(plain)
      BY <2>2, <2>3
    <3> HIDE DEF z, s
    <3> QED  BY <1>3, <2>1, <2>5, <3>1, VecThree
  <2> HIDE DEF w
  <2> QED  BY <2>1, <2>6 DEF c, j, p
<1> HIDE DEF C, v, s, w, z
<1>5. Eq(g)
  <2>1. \A i \in 0 .. m : g[i] = IF i = 0 THEN v ELSE update3(g[i - 1], Piece(plain, z, i))
    <3> SUFFICES ASSUME NEW i \in 0 .. m
                 PROVE  g[i] = IF i = 0 THEN v ELSE update3(g[i - 1], Piece(plain, z, i))
      OBVIOUS
    <3>1. CASE i = 0
      BY <1>2, <3>1
    <3>2. CASE i # 0
      <4>1. i \in 1 .. m /\ i - 1 \in 0 .. m /\ g[i - 1] = C(i - 1) /\ g[i] = C(i)
        BY <3>2
      <4> HIDE DEF g
      <4> QED  BY <1>4, <3>2, <4>1
    <3> QED  BY <3>1, <3>2
  <2>2. g = [i \in 0 .. m |-> g[i]]
    OBVIOUS
  <2> HIDE DEF g
  <2> QED  BY <2>1, <2>2
<1>6. Eq(f)
  <2> HIDE DEF Eq, g
  <2> QED  BY <1>5, Zenon
<1> HIDE DEF f, g
<1>7. \A i \in 0 .. m : f[i] = IF i = 0 THEN v ELSE update3(f[i - 1], Piece(plain, z, i))
  BY <1>6
<1>8. 0 \in I
  <2>1. f[0] = C(0)
    BY <1>2, <1>7
  <2> QED  BY <2>1
<1>9. ASSUME NEW j \in Nat, j \in I PROVE j + 1 \in I
  <2> SUFFICES ASSUME j + 1 <= m PROVE f[j + 1] = C(j + 1)
    OBVIOUS
  <2> DEFINE i == j + 1
  <2>1. i \in 1 .. m /\ i \in 0 .. m /\ i # 0 /\ i - 1 = j /\ f[j] = C(j)
    BY <1>9
  <2> HIDE DEF i
  <2>2. f[i] = update3(f[i - 1], Piece(plain, z, i)) /\ C(i) = update3(C(i - 1), Piece(plain, z, i))
    BY <1>4, <1>7, <2>1
  <2>3. f[i] = C(i)
    BY <2>1, <2>2
  <2> QED  BY <2>3 DEF i
<1> HIDE DEF I
<1>10. m \in I
  BY <1>8, <1>9, SetInduction
<1>11. f[m] = C(m)
  BY <1>10 DEF I
<1> QED  BY <1>1, <1>11 DEF C, w, s

(* All whole blocks.                                                       *)
LEMMA VecBlocks ==
  ASSUME NEW plain, IsSeq(plain), NEW k, NEW n, NEW ctr \in 0 .. Ctr - 1, NEW m \in Nat,
         m * Block <= Len(plain)
  PROVE  LET w == ModeOf(plain, AeadState(k, n), ctr)
         IN vec_counter_mode_blocks(plain, m, VecState(k, n, ctr, 0)) = Vec(k, n, ctr, w, m)
<1> DEFINE w == ModeOf(plain, AeadState(k, n), ctr)
           s == VecState(k, n, ctr, 0)
           l == m \div 3
           r == m % 3
           j == 3 * l
           triple == vec_counter_mode_blocks3(plain, l, s)
           one == vec_update(triple, Piece(plain, Block, j + 1))
           two == vec_update(one, Piece(plain, Block, j + 2))
<1>1. l \in Nat /\ r \in 0 .. 2 /\ j \in Nat /\ m = j + r /\ ctr \in Nat
  BY Sizes
<1>2. Block \in Nat \ {0} /\ Len(plain) \in Nat /\ m * Block \in Nat
  BY BlockPos, SeqIs
<1>3. vec_counter_mode_blocks(plain, m, s) = IF r = 2 THEN two ELSE IF r = 1 THEN one ELSE triple
  BY DEF vec_counter_mode_blocks
<1>4. ASSUME NEW i \in Nat, i <= m PROVE i * Block <= Len(plain)
  <2>1. i * Block <= m * Block /\ i * Block \in Nat
    BY <1>2, <1>4
  <2> QED  BY <1>2, <2>1
<1>5. triple = Vec(k, n, ctr, w, j)
  <2>1. (3 * l) * Block <= Len(plain)
    BY <1>1, <1>4
  <2> HIDE DEF l
  <2> QED  BY <1>1, <2>1, VecBlocks3
<1> HIDE DEF l, r, j, triple, s
<1>6. ASSUME r >= 1 PROVE one = Vec(k, n, ctr, w, j + 1)
  <2>1. (j + 1) * Block <= Len(plain)
    BY <1>1, <1>4, <1>6
  <2>2. vec_update(Vec(k, n, ctr, w, j), Piece(plain, Block, j + 1)) = Vec(k, n, ctr, w, j + 1)
    BY <1>1, <2>1, VecOne
  <2> HIDE DEF w
  <2> QED  BY <1>5, <2>2
<1>7. ASSUME r = 2 PROVE two = Vec(k, n, ctr, w, j + 2)
  <2> DEFINE i == j + 1
  <2>1. i \in Nat /\ i + 1 = j + 2 /\ (i + 1) * Block <= Len(plain)
    <3>1. j + 2 \in Nat /\ j + 2 <= m /\ i \in Nat /\ i + 1 = j + 2
      BY <1>1, <1>7
    <3> HIDE DEF i
    <3> QED  BY <1>4, <3>1
  <2>2. one = Vec(k, n, ctr, w, i)
    <3>1. r >= 1
      BY <1>7
    <3> HIDE DEF one, w
    <3> QED  BY <1>6, <3>1
  <2> HIDE DEF i
  <2>3. vec_update(Vec(k, n, ctr, w, i), Piece(plain, Block, i + 1)) = Vec(k, n, ctr, w, i + 1)
    BY <1>1, <2>1, VecOne
  <2> HIDE DEF w, one
  <2> QED  BY <2>1, <2>2, <2>3
<1> HIDE DEF one, two, w
<1>8. CASE r = 2
  <2>1. j + 2 = m
    BY <1>1, <1>8
  <2> QED  BY <1>3, <1>7, <1>8, <2>1 DEF s, w
<1>9. CASE r = 1
  <2>1. j + 1 = m /\ r >= 1 /\ r # 2
    BY <1>1, <1>9
  <2> QED  BY <1>3, <1>6, <1>9, <2>1 DEF s, w
<1>10. CASE r = 0
  <2>1. j = m /\ r # 1 /\ r # 2
    BY <1>1, <1>10
  <2> QED  BY <1>3, <1>5, <2>1 DEF s, w
<1> QED  BY <1>1, <1>8, <1>9, <1>10

(* The word-by-word cipher and the one on vectors.                         *)
LEMMA VecIs ==
  ASSUME NEW plain, IsSeq(plain), NEW k, NEW n, NEW ctr \in 0 .. Ctr - 1
  PROVE  vec_chacha20(plain, k, n, ctr) = chacha20(plain, k, n, ctr)
<1> DEFINE st == AeadState(k, n)
           w == ModeOf(plain, st, ctr)
           m == Len(plain) \div Block
           r == Len(plain) % Block
           p == Rest(plain, Block)
           s == VecState(k, n, ctr, m)
           c == Add("chacha20", ctr, m)
           o == m * Block
           t == IF r > 0 THEN update_last(p, s, c) ELSE <<>>
           e == Vec(k, n, ctr, w, m)
<1>1. /\ m \in Nat /\ r \in 0 .. Block - 1 /\ Len(plain) = o + r /\ o \in Nat
      /\ IsSeq(p) /\ Len(p) = r
      /\ \A x \in 1 .. r : p[x] = plain[o + x]
  BY BlockPos, RestIs
<1>2. ctr \in Nat /\ Block \in Nat \ {0}
  BY Sizes, BlockPos
<1>3. chacha20(plain, k, n, ctr) = w
  <2>1. counter_mode(plain, st, ctr) = ModeOf(plain, st, ctr)
    BY ModeIs
  <2> QED  BY <2>1 DEF chacha20, AeadState
<1>4. vec_counter_mode_blocks(plain, m, setup("chacha20", k, n, ctr)) = e
  <2>1. setup("chacha20", k, n, ctr) = VecState(k, n, ctr, 0)
    BY VecStart
  <2>2. m * Block <= Len(plain)
    <3> HIDE DEF m, r
    <3>1. o <= Len(plain)
      <4> HIDE DEF o
      <4> QED  BY <1>1, <1>2
    <3> QED  BY <3>1
  <2> HIDE DEF m
  <2>3. vec_counter_mode_blocks(plain, m, VecState(k, n, ctr, 0)) = Vec(k, n, ctr, w, m)
    BY <1>1, <2>2, VecBlocks
  <2> QED  BY <2>1, <2>3
<1>5. vec_chacha20(plain, k, n, ctr) = e.out \o (IF r > 0 THEN update_last(p, e.st, e.st.ctr) ELSE <<>>)
  <2> HIDE DEF e
  <2> QED  BY <1>4 DEF vec_chacha20
<1>6. e.out = First(w, o) /\ e.st = s /\ s.ctr = c
  <2>1. s.ctr = c
    <3> HIDE DEF m
    <3> QED  BY <1>1, <1>2, VecNext
  <2> HIDE DEF w, m
  <2> QED  BY <2>1 DEF Vec
<1>7. vec_chacha20(plain, k, n, ctr) = First(w, o) \o t
  <2> HIDE DEF e, s, c, w, o, m
  <2> QED  BY <1>5, <1>6
<1>8. IsSeq(w) /\ Len(w) = o + r
  <2>1. IsSeq(w) /\ Len(w) = Len(plain)
    BY ModeLen
  <2> HIDE DEF w, o, r
  <2> QED  BY <1>1, <2>1
<1>9. IsSeq(t) /\ Len(t) = r /\ \A x \in 1 .. r : t[x] = w[o + x]
  <2>1. CASE r > 0
    <3>1. t = update_last(p, s, c)
      BY <2>1
    <3>2. Updated(p, s, c) /\ Len(p) = r
      <4>1. Len(p) <= Block /\ IsSeq(p) /\ Len(p) = r
        BY <1>1, <1>2
      <4> HIDE DEF p, s, c, r
      <4> QED  BY <4>1, UpdateIs
    <3>3. IsSeq(t) /\ Len(t) = r /\ \A x \in 1 .. r : t[x] = SymDiff(p[x], {Atom(s, c, x)})
      <4> HIDE DEF t, p, s, c, r
      <4> QED  BY <3>1, <3>2 DEF Updated
    <3>4. ASSUME NEW x \in 1 .. r PROVE t[x] = w[o + x]
      <4> DEFINE y == o + x
      <4>1. y \in 1 .. Len(plain) /\ x \in 1 .. Block
        <5> HIDE DEF m, o, r
        <5> QED  BY <1>1, <1>2
      <4>2. w[y] = SymDiff(plain[y], {StreamAt(st, ctr, y)})
        BY <4>1 DEF ModeOf
      <4>3. st.alg = "chacha20"
        BY DEF AeadState, setup
      <4>4. StreamAt(st, ctr, y) = Atom(st, Add(st.alg, ctr, m), x)
        <5>1. y = m * Block + x
          OBVIOUS
        <5> HIDE DEF y, st, m, r
        <5> QED  BY <1>1, <4>1, <5>1, ByteOf
      <4>5. Atom(s, c, x) = Atom(st, c, x)
        <5> HIDE DEF m, c
        <5> QED  BY VecAtom
      <4>6. StreamAt(st, ctr, y) = Atom(s, c, x)
        <5> HIDE DEF w, t, s, o, st, y, m, r
        <5> QED  BY <4>3, <4>4, <4>5
      <4>7. t[x] = SymDiff(p[x], {Atom(s, c, x)}) /\ p[x] = plain[y]
        <5> HIDE DEF t, p, s, c, o, r
        <5> QED  BY <1>1, <3>3
      <4> HIDE DEF t, p, s, c, o, r, w, st, y
      <4> QED  BY <4>2, <4>6, <4>7 DEF y
    <3> QED  BY <3>3, <3>4
  <2>2. CASE ~(r > 0)
    <3>1. r = 0 /\ t = <<>>
      BY <1>1, <2>2
    <3> HIDE DEF t, r, w, o
    <3> QED  BY <3>1, SeqEmpty
  <2> QED  BY <2>1, <2>2
<1>10. First(w, o) \o t = First(w, o + r)
  <2> HIDE DEF w, t, o, r
  <2>1. o + Len(t) <= Len(w) /\ \A x \in 1 .. Len(t) : t[x] = w[o + x]
    <3>1. r \in Nat
      BY <1>1, <1>2
    <3> QED  BY <1>1, <1>8, <1>9, <3>1
  <2>2. First(w, o) \o t = First(w, o + Len(t))
    BY <1>1, <1>8, <1>9, <2>1, FirstNext
  <2> QED  BY <1>9, <2>2
<1>11. First(w, o + r) = w
  <2> HIDE DEF w, o, r
  <2> QED  BY <1>8, SeqIs DEF First
<1> HIDE DEF w, o, r, t
<1> QED  BY <1>3, <1>7, <1>10, <1>11
-----------------------------------------------------------------------------
(* Rounds.                                                                 *)

(* What a quarter round makes of four words.                               *)
Plus(x, y) == <<"+", x, y>>
Turn(x, y, s) == <<"^", x, y, s>>
Quarter(x, y, z, w) ==
  LET a1 == Plus(x, y)
      d1 == Turn(w, a1, 16)
      c1 == Plus(z, d1)
      b1 == Turn(y, c1, 12)
      a2 == Plus(a1, b1)
      d2 == Turn(d1, a2, 8)
      c2 == Plus(c1, d2)
  IN <<a2, Turn(b1, c2, 7), c2, d2>>

IsState(st) == st = [x \in 0 .. 15 |-> st[x]]

Lined(st, t, a, b, d, s) ==
  /\ IsState(t) /\ t[a] = Plus(st[a], st[b]) /\ t[d] = Turn(st[d], t[a], s)
  /\ \A x \in 0 .. 15 : x # a /\ x # d => t[x] = st[x]

LEMMA LineIs ==
  ASSUME NEW st, IsState(st), NEW a \in 0 .. 15, NEW b \in 0 .. 15, NEW d \in 0 .. 15, a # d, NEW s
  PROVE  Lined(st, line(st, a, b, d, s), a, b, d, s)
<1> DEFINE v == Plus(st[a], st[b])
           u == [st EXCEPT ![a] = v]
           t == [u EXCEPT ![d] = Turn(@, v, s)]
<1>1. line(st, a, b, d, s) = t
  BY DEF line, Plus, Turn
<1> HIDE DEF v
<1>2. st = [x \in 0 .. 15 |-> st[x]]
  BY DEF IsState
<1>3. /\ u = [x \in 0 .. 15 |-> u[x]] /\ u[a] = v
      /\ \A x \in 0 .. 15 : x # a => u[x] = st[x]
  BY <1>2
<1> HIDE DEF u
<1> DEFINE y == Turn(u[d], v, s)
<1>4. t = [u EXCEPT ![d] = y]
  OBVIOUS
<1> HIDE DEF t, y
<1>5. /\ t = [x \in 0 .. 15 |-> t[x]] /\ t[d] = y
      /\ \A x \in 0 .. 15 : x # d => t[x] = u[x]
  BY <1>3, <1>4
<1>6. t[a] = v /\ y = Turn(st[d], v, s)
  BY <1>3, <1>5 DEF y
<1>7. IsState(t) /\ t[a] = v /\ t[d] = Turn(st[d], t[a], s) /\ \A x \in 0 .. 15 : x # a /\ x # d => t[x] = st[x]
  BY <1>3, <1>5, <1>6 DEF IsState
<1> QED  BY <1>1, <1>7 DEF Lined, v

(* What it makes of a state.                                               *)
Quartered(st, t, a, b, c, d) ==
  /\ IsState(t)
  /\ <<t[a], t[b], t[c], t[d]>> = Quarter(st[a], st[b], st[c], st[d])
  /\ \A x \in 0 .. 15 : x # a /\ x # b /\ x # c /\ x # d => t[x] = st[x]

(* Four words of a state.                                                  *)
Apart(a, b, c, d) ==
  /\ a \in 0 .. 15 /\ b \in 0 .. 15 /\ c \in 0 .. 15 /\ d \in 0 .. 15
  /\ a # b /\ a # c /\ a # d /\ b # c /\ b # d /\ c # d

LEMMA QuarterIs ==
  ASSUME NEW st, IsState(st), NEW a, NEW b, NEW c, NEW d, Apart(a, b, c, d)
  PROVE  Quartered(st, quarter_round(st, a, b, c, d), a, b, c, d)
<1> DEFINE p == line(st, a, b, d, 16)
           q == line(p, c, d, b, 12)
           r == line(q, a, b, d, 8)
           t == line(r, c, d, b, 7)
<1>0. /\ a \in 0 .. 15 /\ b \in 0 .. 15 /\ c \in 0 .. 15 /\ d \in 0 .. 15
      /\ a # b /\ a # c /\ a # d /\ b # c /\ b # d /\ c # d
  BY DEF Apart
<1>1. quarter_round(st, a, b, c, d) = t
  BY DEF quarter_round
<1>2. Lined(st, p, a, b, d, 16)
  BY <1>0, LineIs
<1> HIDE DEF p
<1>3. Lined(p, q, c, d, b, 12)
  <2>1. IsState(p)
    BY <1>2 DEF Lined
  <2> QED  BY <1>0, <2>1, LineIs
<1> HIDE DEF q
<1>4. Lined(q, r, a, b, d, 8)
  <2>1. IsState(q)
    BY <1>3 DEF Lined
  <2> QED  BY <1>0, <2>1, LineIs
<1> HIDE DEF r
<1>5. Lined(r, t, c, d, b, 7)
  <2>1. IsState(r)
    BY <1>4 DEF Lined
  <2> QED  BY <1>0, <2>1, LineIs
<1> HIDE DEF t
<1> DEFINE a1 == Plus(st[a], st[b])
           d1 == Turn(st[d], a1, 16)
           c1 == Plus(st[c], d1)
           b1 == Turn(st[b], c1, 12)
           a2 == Plus(a1, b1)
           d2 == Turn(d1, a2, 8)
           c2 == Plus(c1, d2)
           b2 == Turn(b1, c2, 7)
<1>6. p[a] = a1 /\ p[d] = d1 /\ p[b] = st[b] /\ p[c] = st[c]
  BY <1>0, <1>2 DEF Lined
<1>7. q[c] = c1 /\ q[b] = b1 /\ q[a] = a1 /\ q[d] = d1
  BY <1>0, <1>3, <1>6 DEF Lined
<1>8. r[a] = a2 /\ r[d] = d2 /\ r[b] = b1 /\ r[c] = c1
  <2> HIDE DEF a1, b1, c1, d1
  <2> QED  BY <1>0, <1>4, <1>7 DEF Lined
<1>9. t[c] = c2 /\ t[b] = b2 /\ t[a] = a2 /\ t[d] = d2
  <2> HIDE DEF a1, b1, c1, d1, a2, d2
  <2> QED  BY <1>0, <1>5, <1>8 DEF Lined
<1>10. IsState(t) /\ \A x \in 0 .. 15 : x # a /\ x # b /\ x # c /\ x # d => t[x] = st[x]
  BY <1>0, <1>2, <1>3, <1>4, <1>5 DEF Lined
<1>11. <<t[a], t[b], t[c], t[d]>> = Quarter(st[a], st[b], st[c], st[d])
  BY <1>9 DEF Quarter
<1> QED  BY <1>1, <1>10, <1>11 DEF Quartered

(* Four quarter rounds on disjoint words are four quarter rounds at once.  *)
Columns(st, t) ==
  IsState(t) /\ \A j \in 0 .. 3 : <<t[j], t[j + 4], t[j + 8], t[j + 12]>>
                                   = Quarter(st[j], st[j + 4], st[j + 8], st[j + 12])
Diagonals(st, t) ==
  IsState(t) /\ \A j \in 0 .. 3 :
    <<t[j], t[4 + ((j + 1) % 4)], t[8 + ((j + 2) % 4)], t[12 + ((j + 3) % 4)]>>
      = Quarter(st[j], st[4 + ((j + 1) % 4)], st[8 + ((j + 2) % 4)], st[12 + ((j + 3) % 4)])

LEMMA RoundsAre ==
  ASSUME NEW st, IsState(st)
  PROVE  \E u : Columns(st, u) /\ Diagonals(u, double_round(st))
<1> DEFINE c0 == quarter_round(st, 0, 4, 8, 12)
           c1 == quarter_round(c0, 1, 5, 9, 13)
           c2 == quarter_round(c1, 2, 6, 10, 14)
           c3 == quarter_round(c2, 3, 7, 11, 15)
           d0 == quarter_round(c3, 0, 5, 10, 15)
           d1 == quarter_round(d0, 1, 6, 11, 12)
           d2 == quarter_round(d1, 2, 7, 8, 13)
           d3 == quarter_round(d2, 3, 4, 9, 14)
<1>1. double_round(st) = d3
  BY DEF double_round
<1>2. Quartered(st, c0, 0, 4, 8, 12)
  <2>1. Apart(0, 4, 8, 12)
    BY DEF Apart
  <2> QED  BY <2>1, QuarterIs
<1> HIDE DEF c0
<1>3. Quartered(c0, c1, 1, 5, 9, 13)
  <2>1. IsState(c0)
    BY <1>2 DEF Quartered
  <2>2. Apart(1, 5, 9, 13)
    BY DEF Apart
  <2> QED  BY <2>1, <2>2, QuarterIs
<1> HIDE DEF c1
<1>4. Quartered(c1, c2, 2, 6, 10, 14)
  <2>1. IsState(c1)
    BY <1>3 DEF Quartered
  <2>2. Apart(2, 6, 10, 14)
    BY DEF Apart
  <2> QED  BY <2>1, <2>2, QuarterIs
<1> HIDE DEF c2
<1>5. Quartered(c2, c3, 3, 7, 11, 15)
  <2>1. IsState(c2)
    BY <1>4 DEF Quartered
  <2>2. Apart(3, 7, 11, 15)
    BY DEF Apart
  <2> QED  BY <2>1, <2>2, QuarterIs
<1> HIDE DEF c3
<1>6. Quartered(c3, d0, 0, 5, 10, 15)
  <2>1. IsState(c3)
    BY <1>5 DEF Quartered
  <2>2. Apart(0, 5, 10, 15)
    BY DEF Apart
  <2> QED  BY <2>1, <2>2, QuarterIs
<1> HIDE DEF d0
<1>7. Quartered(d0, d1, 1, 6, 11, 12)
  <2>1. IsState(d0)
    BY <1>6 DEF Quartered
  <2>2. Apart(1, 6, 11, 12)
    BY DEF Apart
  <2> QED  BY <2>1, <2>2, QuarterIs
<1> HIDE DEF d1
<1>8. Quartered(d1, d2, 2, 7, 8, 13)
  <2>1. IsState(d1)
    BY <1>7 DEF Quartered
  <2>2. Apart(2, 7, 8, 13)
    BY DEF Apart
  <2> QED  BY <2>1, <2>2, QuarterIs
<1> HIDE DEF d2
<1>9. Quartered(d2, d3, 3, 4, 9, 14)
  <2>1. IsState(d2)
    BY <1>8 DEF Quartered
  <2>2. Apart(3, 4, 9, 14)
    BY DEF Apart
  <2> QED  BY <2>1, <2>2, QuarterIs
<1> HIDE DEF d3
<1>10. Columns(st, c3)
  <2>1. IsState(c3)
    BY <1>5 DEF Quartered
  <2>2. <<c3[0], c3[4], c3[8], c3[12]>> = Quarter(st[0], st[4], st[8], st[12])
    BY <1>2, <1>3, <1>4, <1>5 DEF Quartered
  <2>3. <<c3[1], c3[5], c3[9], c3[13]>> = Quarter(st[1], st[5], st[9], st[13])
    BY <1>2, <1>3, <1>4, <1>5 DEF Quartered
  <2>4. <<c3[2], c3[6], c3[10], c3[14]>> = Quarter(st[2], st[6], st[10], st[14])
    BY <1>2, <1>3, <1>4, <1>5 DEF Quartered
  <2>5. <<c3[3], c3[7], c3[11], c3[15]>> = Quarter(st[3], st[7], st[11], st[15])
    BY <1>2, <1>3, <1>4, <1>5 DEF Quartered
  <2>6. ASSUME NEW j \in 0 .. 3
        PROVE  <<c3[j], c3[j + 4], c3[j + 8], c3[j + 12]>> = Quarter(st[j], st[j + 4], st[j + 8], st[j + 12])
    <3>1. CASE j = 0
      BY <2>2, <3>1
    <3>2. CASE j = 1
      BY <2>3, <3>2
    <3>3. CASE j = 2
      BY <2>4, <3>3
    <3>4. CASE j = 3
      BY <2>5, <3>4
    <3> QED  BY <3>1, <3>2, <3>3, <3>4
  <2> QED  BY <2>1, <2>6 DEF Columns
<1>11. Diagonals(c3, d3)
  <2>1. IsState(d3)
    BY <1>9 DEF Quartered
  <2>2. <<d3[0], d3[5], d3[10], d3[15]>> = Quarter(c3[0], c3[5], c3[10], c3[15])
    BY <1>6, <1>7, <1>8, <1>9 DEF Quartered
  <2>3. <<d3[1], d3[6], d3[11], d3[12]>> = Quarter(c3[1], c3[6], c3[11], c3[12])
    BY <1>6, <1>7, <1>8, <1>9 DEF Quartered
  <2>4. <<d3[2], d3[7], d3[8], d3[13]>> = Quarter(c3[2], c3[7], c3[8], c3[13])
    BY <1>6, <1>7, <1>8, <1>9 DEF Quartered
  <2>5. <<d3[3], d3[4], d3[9], d3[14]>> = Quarter(c3[3], c3[4], c3[9], c3[14])
    BY <1>6, <1>7, <1>8, <1>9 DEF Quartered
  <2>6. ASSUME NEW j \in 0 .. 3
        PROVE  <<d3[j], d3[4 + ((j + 1) % 4)], d3[8 + ((j + 2) % 4)], d3[12 + ((j + 3) % 4)]>>
                 = Quarter(c3[j], c3[4 + ((j + 1) % 4)], c3[8 + ((j + 2) % 4)], c3[12 + ((j + 3) % 4)])
    <3>1. CASE j = 0
      <4>1. 4 + ((j + 1) % 4) = 5 /\ 8 + ((j + 2) % 4) = 10 /\ 12 + ((j + 3) % 4) = 15
        BY <3>1
      <4> QED  BY <2>2, <3>1, <4>1
    <3>2. CASE j = 1
      <4>1. 4 + ((j + 1) % 4) = 6 /\ 8 + ((j + 2) % 4) = 11 /\ 12 + ((j + 3) % 4) = 12
        BY <3>2
      <4> QED  BY <2>3, <3>2, <4>1
    <3>3. CASE j = 2
      <4>1. 4 + ((j + 1) % 4) = 7 /\ 8 + ((j + 2) % 4) = 8 /\ 12 + ((j + 3) % 4) = 13
        BY <3>3
      <4> QED  BY <2>4, <3>3, <4>1
    <3>4. CASE j = 3
      <4>1. 4 + ((j + 1) % 4) = 4 /\ 8 + ((j + 2) % 4) = 9 /\ 12 + ((j + 3) % 4) = 14
        BY <3>4
      <4> QED  BY <2>5, <3>4, <4>1
    <3> QED  BY <3>1, <3>2, <3>3, <3>4
  <2> QED  BY <2>1, <2>6 DEF Diagonals
<1> QED  BY <1>1, <1>10, <1>11

(* The same on vectors: row r holds words 4 * r .. 4 * r + 3.              *)
IsVectors(v) == v = [r \in 0 .. 3 |-> v[r]] /\ \A r \in 0 .. 3 : v[r] = [j \in 0 .. 3 |-> v[r][j]]

VecLined(x, t, a, b, d, s) ==
  /\ IsVectors(t)
  /\ \A j \in 0 .. 3 : t[a][j] = Plus(x[a][j], x[b][j]) /\ t[d][j] = Turn(x[d][j], t[a][j], s)
  /\ \A r \in 0 .. 3 : r # a /\ r # d => t[r] = x[r]

LEMMA VecLineIs ==
  ASSUME NEW x, IsVectors(x), NEW a \in 0 .. 3, NEW b \in 0 .. 3, NEW d \in 0 .. 3, a # d, NEW s
  PROVE  VecLined(x, vec_line(x, a, b, d, s), a, b, d, s)
<1> DEFINE v == vec_add(x[a], x[b])
           u == [x EXCEPT ![a] = v]
           y == vec_xor_rotate(u[d], v, s)
           t == [u EXCEPT ![d] = y]
<1>1. vec_line(x, a, b, d, s) = t
  BY DEF vec_line
<1>2. v = [j \in 0 .. 3 |-> v[j]] /\ \A j \in 0 .. 3 : v[j] = Plus(x[a][j], x[b][j])
  BY DEF vec_add, Plus
<1> HIDE DEF v
<1>3. /\ u = [r \in 0 .. 3 |-> u[r]] /\ u[a] = v
      /\ \A r \in 0 .. 3 : r # a => u[r] = x[r]
  BY DEF IsVectors
<1> HIDE DEF u
<1>4. y = [j \in 0 .. 3 |-> y[j]] /\ \A j \in 0 .. 3 : y[j] = Turn(u[d][j], v[j], s)
  BY DEF vec_xor_rotate, Turn
<1> HIDE DEF y
<1>5. /\ t = [r \in 0 .. 3 |-> t[r]] /\ t[d] = y
      /\ \A r \in 0 .. 3 : r # d => t[r] = u[r]
  BY <1>3
<1> HIDE DEF t
<1>6. t[a] = v /\ u[d] = x[d]
  BY <1>3, <1>5
<1>7. ASSUME NEW r \in 0 .. 3 PROVE t[r] = [j \in 0 .. 3 |-> t[r][j]]
  <2>1. CASE r = a
    BY <1>2, <1>6, <2>1
  <2>2. CASE r = d
    BY <1>4, <1>5, <2>2
  <2>3. CASE r # a /\ r # d
    <3>1. t[r] = x[r]
      BY <1>3, <1>5, <2>3
    <3>2. x[r] = [j \in 0 .. 3 |-> x[r][j]]
      BY DEF IsVectors
    <3> QED  BY <3>1, <3>2
  <2> QED  BY <2>1, <2>2, <2>3
<1>8. \A j \in 0 .. 3 : t[a][j] = Plus(x[a][j], x[b][j]) /\ t[d][j] = Turn(x[d][j], t[a][j], s)
  BY <1>2, <1>4, <1>5, <1>6
<1>9. \A r \in 0 .. 3 : r # a /\ r # d => t[r] = x[r]
  BY <1>3, <1>5
<1>10. IsVectors(t)
  BY <1>5, <1>7 DEF IsVectors
<1> QED  BY <1>1, <1>8, <1>9, <1>10 DEF VecLined

VecQuartered(v, t) ==
  IsVectors(t) /\ \A j \in 0 .. 3 : <<t[0][j], t[1][j], t[2][j], t[3][j]>>
                                     = Quarter(v[0][j], v[1][j], v[2][j], v[3][j])

LEMMA VecRoundIs ==
  ASSUME NEW v, IsVectors(v)
  PROVE  VecQuartered(v, vec_round(v))
<1> DEFINE p == vec_line(v, 0, 1, 3, 16)
           q == vec_line(p, 2, 3, 1, 12)
           r == vec_line(q, 0, 1, 3, 8)
           t == vec_line(r, 2, 3, 1, 7)
<1>1. vec_round(v) = t
  BY DEF vec_round
<1>2. VecLined(v, p, 0, 1, 3, 16)
  BY VecLineIs
<1> HIDE DEF p
<1>3. VecLined(p, q, 2, 3, 1, 12)
  <2>1. IsVectors(p)
    BY <1>2 DEF VecLined
  <2> QED  BY <2>1, VecLineIs
<1> HIDE DEF q
<1>4. VecLined(q, r, 0, 1, 3, 8)
  <2>1. IsVectors(q)
    BY <1>3 DEF VecLined
  <2> QED  BY <2>1, VecLineIs
<1> HIDE DEF r
<1>5. VecLined(r, t, 2, 3, 1, 7)
  <2>1. IsVectors(r)
    BY <1>4 DEF VecLined
  <2> QED  BY <2>1, VecLineIs
<1> HIDE DEF t
<1>6. IsVectors(t)
  BY <1>5 DEF VecLined
<1>7. ASSUME NEW j \in 0 .. 3
      PROVE  <<t[0][j], t[1][j], t[2][j], t[3][j]>> = Quarter(v[0][j], v[1][j], v[2][j], v[3][j])
  <2> DEFINE a1 == Plus(v[0][j], v[1][j])
             d1 == Turn(v[3][j], a1, 16)
             c1 == Plus(v[2][j], d1)
             b1 == Turn(v[1][j], c1, 12)
             a2 == Plus(a1, b1)
             d2 == Turn(d1, a2, 8)
             c2 == Plus(c1, d2)
             b2 == Turn(b1, c2, 7)
  <2>1. p[0][j] = a1 /\ p[3][j] = d1 /\ p[1] = v[1] /\ p[2] = v[2]
    BY <1>2 DEF VecLined
  <2>2. q[2][j] = c1 /\ q[1][j] = b1 /\ q[0][j] = a1 /\ q[3][j] = d1
    BY <1>3, <2>1 DEF VecLined
  <2>3. r[0][j] = a2 /\ r[3][j] = d2 /\ r[1][j] = b1 /\ r[2][j] = c1
    <3> HIDE DEF a1, b1, c1, d1
    <3> QED  BY <1>4, <2>2 DEF VecLined
  <2>4. t[2][j] = c2 /\ t[1][j] = b2 /\ t[0][j] = a2 /\ t[3][j] = d2
    <3> HIDE DEF a1, b1, c1, d1, a2, d2
    <3> QED  BY <1>5, <2>3 DEF VecLined
  <2> QED  BY <2>4 DEF Quarter
<1> QED  BY <1>1, <1>6, <1>7 DEF VecQuartered

(* Rows 1, 2 and 3 turned by i, j and k.                                  *)
Turned(x, t, i, j, k) ==
  /\ IsVectors(t) /\ t[0] = x[0]
  /\ \A c \in 0 .. 3 : /\ t[1][c] = x[1][(c + i) % 4] /\ t[2][c] = x[2][(c + j) % 4]
                       /\ t[3][c] = x[3][(c + k) % 4]

LEMMA ShuffleIs ==
  ASSUME NEW x, IsVectors(x), NEW i, NEW j, NEW k
  PROVE  Turned(x, vec_turn_rows(x, i, j, k), i, j, k)
<1> DEFINE t == vec_turn_rows(x, i, j, k)
           y1 == vec_shuffle_right(x[1], i)
           y2 == vec_shuffle_right(x[2], j)
           y3 == vec_shuffle_right(x[3], k)
           p == [x EXCEPT ![1] = y1]
           q == [p EXCEPT ![2] = y2]
           r == [q EXCEPT ![3] = y3]
<1>1. x = [a \in 0 .. 3 |-> x[a]] /\ \A a \in 0 .. 3 : x[a] = [c \in 0 .. 3 |-> x[a][c]]
  BY DEF IsVectors
<1>2. /\ y1 = [c \in 0 .. 3 |-> y1[c]] /\ y2 = [c \in 0 .. 3 |-> y2[c]] /\ y3 = [c \in 0 .. 3 |-> y3[c]]
      /\ \A c \in 0 .. 3 : y1[c] = x[1][(c + i) % 4] /\ y2[c] = x[2][(c + j) % 4] /\ y3[c] = x[3][(c + k) % 4]
  BY DEF vec_shuffle_right
<1> HIDE DEF y1, y2, y3
<1>3. p = [a \in 0 .. 3 |-> p[a]] /\ p[0] = x[0] /\ p[1] = y1 /\ p[2] = x[2] /\ p[3] = x[3]
  BY <1>1
<1> HIDE DEF p
<1>4. q = [a \in 0 .. 3 |-> q[a]] /\ q[0] = x[0] /\ q[1] = y1 /\ q[2] = y2 /\ q[3] = x[3]
  BY <1>3
<1>5. t = r
  BY <1>3, <1>4 DEF vec_turn_rows, y1, y2, y3, p
<1> HIDE DEF q, t
<1>6. r = [a \in 0 .. 3 |-> r[a]] /\ r[0] = x[0] /\ r[1] = y1 /\ r[2] = y2 /\ r[3] = y3
  BY <1>4
<1> HIDE DEF r
<1>7. \A a \in 0 .. 3 : r[a] = [c \in 0 .. 3 |-> r[a][c]]
  BY <1>1, <1>2, <1>6
<1>8. IsVectors(r)
  BY <1>6, <1>7 DEF IsVectors
<1>9. Turned(x, r, i, j, k)
  BY <1>2, <1>6, <1>8 DEF Turned
<1> QED  BY <1>5, <1>9 DEF t

LEMMA VectorsAre ==
  ASSUME NEW st
  PROVE  /\ IsVectors(Vectors(st))
         /\ \A j \in 0 .. 3 : /\ Vectors(st)[0][j] = st[j] /\ Vectors(st)[1][j] = st[j + 4]
                              /\ Vectors(st)[2][j] = st[j + 8] /\ Vectors(st)[3][j] = st[j + 12]
<1>1. \A r \in 0 .. 3 : Vectors(st)[r] = [c \in 0 .. 3 |-> st[4 * r + c]]
  BY DEF Vectors
<1>2. \A r \in 0 .. 3 : \A j \in 0 .. 3 : Vectors(st)[r][j] = st[4 * r + j]
  BY <1>1
<1>3. IsVectors(Vectors(st))
  <2>1. Vectors(st) = [r \in 0 .. 3 |-> Vectors(st)[r]]
    BY DEF Vectors
  <2>2. \A r \in 0 .. 3 : Vectors(st)[r] = [j \in 0 .. 3 |-> Vectors(st)[r][j]]
    BY <1>1
  <2> QED  BY <2>1, <2>2 DEF IsVectors
<1>4. ASSUME NEW j \in 0 .. 3
      PROVE  /\ Vectors(st)[0][j] = st[j] /\ Vectors(st)[1][j] = st[j + 4]
             /\ Vectors(st)[2][j] = st[j + 8] /\ Vectors(st)[3][j] = st[j + 12]
  <2>1. 4 * 0 + j = j /\ 4 * 1 + j = j + 4 /\ 4 * 2 + j = j + 8 /\ 4 * 3 + j = j + 12
    OBVIOUS
  <2>2. /\ Vectors(st)[0][j] = st[4 * 0 + j] /\ Vectors(st)[1][j] = st[4 * 1 + j]
        /\ Vectors(st)[2][j] = st[4 * 2 + j] /\ Vectors(st)[3][j] = st[4 * 3 + j]
    BY <1>2
  <2> QED  BY <2>1, <2>2
<1> QED  BY <1>3, <1>4

(* Vectors are equal when their rows are.                                  *)
LEMMA VectorsEq ==
  ASSUME NEW v, IsVectors(v), NEW w, IsVectors(w),
         \A j \in 0 .. 3 : v[0][j] = w[0][j] /\ v[1][j] = w[1][j] /\ v[2][j] = w[2][j] /\ v[3][j] = w[3][j]
  PROVE  v = w
<1>1. ASSUME NEW r \in 0 .. 3 PROVE v[r] = w[r]
  <2>1. v[r] = [j \in 0 .. 3 |-> v[r][j]] /\ w[r] = [j \in 0 .. 3 |-> w[r][j]]
    BY DEF IsVectors
  <2>2. r = 0 \/ r = 1 \/ r = 2 \/ r = 3
    OBVIOUS
  <2>3. \A j \in 0 .. 3 : v[r][j] = w[r][j]
    BY <2>2
  <2> QED  BY <2>1, <2>3
<1>2. v = [r \in 0 .. 3 |-> v[r]] /\ w = [r \in 0 .. 3 |-> w[r]]
  BY DEF IsVectors
<1> QED  BY <1>1, <1>2

(* Rounds on vectors are rounds on words.                                  *)
LEMMA VecDoubleRoundIs ==
  ASSUME NEW st, IsState(st)
  PROVE  vec_double_round(Vectors(st)) = Vectors(double_round(st)) /\ IsState(double_round(st))
<1> DEFINE t == double_round(st)
           v == Vectors(st)
           p == vec_round(v)
           q == vec_turn_rows(p, 1, 2, 3)
           y == vec_round(q)
           z == vec_turn_rows(y, 3, 2, 1)
<1>1. PICK u : Columns(st, u) /\ Diagonals(u, t)
  BY RoundsAre
<1> HIDE DEF t
<1>2. vec_double_round(v) = z
  BY DEF vec_double_round
<1>3. /\ IsVectors(v)
      /\ \A j \in 0 .. 3 : v[0][j] = st[j] /\ v[1][j] = st[j + 4] /\ v[2][j] = st[j + 8] /\ v[3][j] = st[j + 12]
  BY VectorsAre
<1> HIDE DEF v
<1>4. VecQuartered(v, p)
  BY <1>3, VecRoundIs
<1> HIDE DEF p
<1>5. ASSUME NEW j \in 0 .. 3
      PROVE  p[0][j] = u[j] /\ p[1][j] = u[j + 4] /\ p[2][j] = u[j + 8] /\ p[3][j] = u[j + 12]
  <2>1. <<p[0][j], p[1][j], p[2][j], p[3][j]>> = Quarter(v[0][j], v[1][j], v[2][j], v[3][j])
    BY <1>4 DEF VecQuartered
  <2>2. <<u[j], u[j + 4], u[j + 8], u[j + 12]>> = Quarter(st[j], st[j + 4], st[j + 8], st[j + 12])
    BY <1>1 DEF Columns
  <2>3. v[0][j] = st[j] /\ v[1][j] = st[j + 4] /\ v[2][j] = st[j + 8] /\ v[3][j] = st[j + 12]
    BY <1>3
  <2>4. <<p[0][j], p[1][j], p[2][j], p[3][j]>> = <<u[j], u[j + 4], u[j + 8], u[j + 12]>>
    BY <2>1, <2>2, <2>3
  <2> QED  BY <2>4
<1>6. Turned(p, q, 1, 2, 3)
  <2>1. IsVectors(p)
    BY <1>4 DEF VecQuartered
  <2> QED  BY <2>1, ShuffleIs
<1> HIDE DEF q
<1>7. VecQuartered(q, y)
  <2>1. IsVectors(q)
    BY <1>6 DEF Turned
  <2> QED  BY <2>1, VecRoundIs
<1> HIDE DEF y
<1>8. ASSUME NEW j \in 0 .. 3
      PROVE  /\ y[0][j] = t[j] /\ y[1][j] = t[4 + ((j + 1) % 4)]
             /\ y[2][j] = t[8 + ((j + 2) % 4)] /\ y[3][j] = t[12 + ((j + 3) % 4)]
  <2> DEFINE a == (j + 1) % 4
             b == (j + 2) % 4
             c == (j + 3) % 4
  <2>1. a \in 0 .. 3 /\ b \in 0 .. 3 /\ c \in 0 .. 3
    OBVIOUS
  <2>2. q[0][j] = p[0][j] /\ q[1][j] = p[1][a] /\ q[2][j] = p[2][b] /\ q[3][j] = p[3][c]
    BY <1>6 DEF Turned
  <2>3. <<y[0][j], y[1][j], y[2][j], y[3][j]>> = Quarter(q[0][j], q[1][j], q[2][j], q[3][j])
    BY <1>7 DEF VecQuartered
  <2>4. <<t[j], t[4 + a], t[8 + b], t[12 + c]>> = Quarter(u[j], u[4 + a], u[8 + b], u[12 + c])
    BY <1>1 DEF Diagonals
  <2> HIDE DEF a, b, c
  <2>5. q[0][j] = u[j] /\ q[1][j] = u[4 + a] /\ q[2][j] = u[8 + b] /\ q[3][j] = u[12 + c]
    <3>1. a + 4 = 4 + a /\ b + 8 = 8 + b /\ c + 12 = 12 + c
      BY <2>1
    <3>2. p[0][j] = u[j] /\ p[1][a] = u[a + 4] /\ p[2][b] = u[b + 8] /\ p[3][c] = u[c + 12]
      BY <1>5, <2>1
    <3> QED  BY <2>2, <3>1, <3>2
  <2>6. <<y[0][j], y[1][j], y[2][j], y[3][j]>> = <<t[j], t[4 + a], t[8 + b], t[12 + c]>>
    BY <2>3, <2>4, <2>5
  <2>7. y[0][j] = t[j] /\ y[1][j] = t[4 + a] /\ y[2][j] = t[8 + b] /\ y[3][j] = t[12 + c]
    BY <2>6
  <2> QED  BY <2>7 DEF a, b, c
<1>9. Turned(y, z, 3, 2, 1)
  <2>1. IsVectors(y)
    BY <1>7 DEF VecQuartered
  <2> QED  BY <2>1, ShuffleIs
<1> HIDE DEF z
<1>10. ASSUME NEW j \in 0 .. 3
       PROVE  z[0][j] = t[j] /\ z[1][j] = t[j + 4] /\ z[2][j] = t[j + 8] /\ z[3][j] = t[j + 12]
  <2> DEFINE a == (j + 3) % 4
             b == (j + 2) % 4
             c == (j + 1) % 4
  <2>1. a \in 0 .. 3 /\ b \in 0 .. 3 /\ c \in 0 .. 3 /\ (a + 1) % 4 = j /\ (b + 2) % 4 = j /\ (c + 3) % 4 = j
    OBVIOUS
  <2>2. z[0][j] = y[0][j] /\ z[1][j] = y[1][a] /\ z[2][j] = y[2][b] /\ z[3][j] = y[3][c]
    BY <1>9 DEF Turned
  <2> HIDE DEF a, b, c
  <2>3. y[0][j] = t[j] /\ y[1][a] = t[4 + ((a + 1) % 4)] /\ y[2][b] = t[8 + ((b + 2) % 4)] /\ y[3][c] = t[12 + ((c + 3) % 4)]
    BY <1>8, <2>1
  <2>4. 4 + j = j + 4 /\ 8 + j = j + 8 /\ 12 + j = j + 12
    OBVIOUS
  <2> QED  BY <2>1, <2>2, <2>3, <2>4
<1>11. z = Vectors(t)
  <2> DEFINE w == Vectors(t)
  <2>1. /\ IsVectors(w)
        /\ \A j \in 0 .. 3 : w[0][j] = t[j] /\ w[1][j] = t[j + 4] /\ w[2][j] = t[j + 8] /\ w[3][j] = t[j + 12]
    BY VectorsAre
  <2> HIDE DEF w
  <2>2. IsVectors(z)
    BY <1>9 DEF Turned
  <2>3. z = w
    BY <1>10, <2>1, <2>2, VectorsEq
  <2> QED  BY <2>3 DEF w
<1>12. IsState(t)
  BY <1>1 DEF Diagonals
<1> QED  BY <1>2, <1>11, <1>12 DEF t, v

(* No state is left as it was.                                             *)
LEMMA RoundChanges == double_round(Word) # Word /\ IsState(Word)
<1>1. IsState(Word)
  BY DEF IsState, Word
<1>2. PICK u : Columns(Word, u) /\ Diagonals(u, double_round(Word))
  BY <1>1, RoundsAre
<1> DEFINE t == double_round(Word)
<1> HIDE DEF t
<1>3. <<t[0], t[4 + ((0 + 1) % 4)], t[8 + ((0 + 2) % 4)], t[12 + ((0 + 3) % 4)]>>
        = Quarter(u[0], u[4 + ((0 + 1) % 4)], u[8 + ((0 + 2) % 4)], u[12 + ((0 + 3) % 4)])
  BY <1>2 DEF Diagonals, t
<1>4. PICK a, b, x, y, z : <<t[0], t[4 + ((0 + 1) % 4)], t[8 + ((0 + 2) % 4)], t[12 + ((0 + 3) % 4)]>> = <<Plus(a, b), x, y, z>>
  BY <1>3 DEF Quarter
<1>5. t[0] = <<"+", a, b>>
  BY <1>4 DEF Plus
<1>6. Word[0] = <<"w", 0>>
  BY DEF Word
<1>7. t[0] # Word[0]
  BY <1>5, <1>6
<1> QED  BY <1>1, <1>7 DEF t

(* Where Transpose takes a word from, and puts it.                         *)
Mirror(i) == 4 * (i % 4) + i \div 4

LEMMA MirrorTwice ==
  ASSUME NEW i \in 0 .. 15
  PROVE  Mirror(i) \in 0 .. 15 /\ Mirror(Mirror(i)) = i
<1> DEFINE r == i % 4
           q == i \div 4
           x == 4 * r + q
<1>1. r \in 0 .. 3 /\ q \in 0 .. 3 /\ i = 4 * q + r
  OBVIOUS
<1>2. Mirror(i) = x
  BY DEF Mirror
<1> HIDE DEF r, q
<1>3. x \in 0 .. 15 /\ x = r * 4 + q /\ x \in Int /\ r \in Int /\ q \in Nat /\ q < 4 /\ 4 \in Nat \ {0}
  BY <1>1
<1> HIDE DEF x
<1>4. x \div 4 = r /\ x % 4 = q
  BY <1>3, DivMod
<1>5. Mirror(x) = 4 * q + r
  BY <1>4 DEF Mirror
<1> QED  BY <1>1, <1>2, <1>3, <1>5

LEMMA MirrorIs ==
  /\ Mirror(0) = 0 /\ Mirror(4) = 1 /\ Mirror(8) = 2 /\ Mirror(12) = 3
  /\ Mirror(1) = 4 /\ Mirror(5) = 5 /\ Mirror(9) = 6 /\ Mirror(13) = 7
  /\ Mirror(2) = 8 /\ Mirror(6) = 9 /\ Mirror(10) = 10 /\ Mirror(14) = 11
  /\ Mirror(3) = 12 /\ Mirror(7) = 13 /\ Mirror(11) = 14 /\ Mirror(15) = 15
BY DEF Mirror

LEMMA TransposeIs ==
  ASSUME NEW st
  PROVE  IsState(Transpose(st)) /\ \A x \in 0 .. 15 : Transpose(st)[x] = st[Mirror(x)]
BY DEF IsState, Transpose, Mirror

LEMMA StateEq ==
  ASSUME NEW s, IsState(s), NEW t, IsState(t), \A x \in 0 .. 15 : s[x] = t[x]
  PROVE  s = t
BY DEF IsState

LEMMA TransposeTwice ==
  ASSUME NEW st, IsState(st)
  PROVE  Transpose(Transpose(st)) = st
<1> DEFINE u == Transpose(st)
           v == Transpose(u)
<1>1. IsState(u) /\ \A x \in 0 .. 15 : u[x] = st[Mirror(x)]
  BY TransposeIs
<1> HIDE DEF u
<1>2. IsState(v) /\ \A x \in 0 .. 15 : v[x] = u[Mirror(x)]
  BY TransposeIs
<1> HIDE DEF v
<1>3. ASSUME NEW x \in 0 .. 15 PROVE v[x] = st[x]
  <2>1. Mirror(x) \in 0 .. 15 /\ Mirror(Mirror(x)) = x
    BY MirrorTwice
  <2>2. v[x] = u[Mirror(x)]
    BY <1>2
  <2>3. u[Mirror(x)] = st[Mirror(Mirror(x))]
    BY <1>1, <2>1
  <2> QED  BY <2>1, <2>2, <2>3
<1>4. v = st
  BY <1>2, <1>3, StateEq
<1> QED  BY <1>4 DEF u, v

SalsaLined(st, t, a, b, d, s) ==
  /\ IsState(t) /\ t[a] = Turn(st[a], Plus(st[b], st[d]), s)
  /\ \A x \in 0 .. 15 : x # a => t[x] = st[x]

LEMMA SalsaLineIs ==
  ASSUME NEW st, IsState(st), NEW a \in 0 .. 15, NEW b, NEW d, NEW s
  PROVE  SalsaLined(st, salsa_line(st, a, b, d, s), a, b, d, s)
<1> DEFINE v == Plus(st[b], st[d])
           y == Turn(st[a], v, s)
           t == [st EXCEPT ![a] = y]
<1>1. salsa_line(st, a, b, d, s) = t
  BY DEF salsa_line, Turn, Plus
<1> HIDE DEF y
<1>2. IsState(t) /\ t[a] = y /\ \A x \in 0 .. 15 : x # a => t[x] = st[x]
  BY DEF IsState
<1> HIDE DEF t
<1> QED  BY <1>1, <1>2 DEF SalsaLined, y

LEMMA TransposeLine ==
  ASSUME NEW st, IsState(st), NEW a \in 0 .. 15, NEW b \in 0 .. 15, NEW d \in 0 .. 15, NEW s
  PROVE  /\ IsState(salsa_line(st, a, b, d, s))
         /\ Transpose(salsa_line(st, a, b, d, s))
              = salsa_line(Transpose(st), Mirror(a), Mirror(b), Mirror(d), s)
<1> DEFINE t == salsa_line(st, a, b, d, s)
           u == Transpose(st)
           v == Transpose(t)
           w == salsa_line(u, Mirror(a), Mirror(b), Mirror(d), s)
<1>1. /\ IsState(t) /\ t[a] = Turn(st[a], Plus(st[b], st[d]), s)
      /\ \A x \in 0 .. 15 : x # a => t[x] = st[x]
  <2>1. SalsaLined(st, t, a, b, d, s)
    BY SalsaLineIs
  <2> HIDE DEF t
  <2> QED  BY <2>1 DEF SalsaLined
<1> HIDE DEF t
<1>2. IsState(u) /\ \A x \in 0 .. 15 : u[x] = st[Mirror(x)]
  BY TransposeIs
<1> HIDE DEF u
<1>3. IsState(v) /\ \A x \in 0 .. 15 : v[x] = t[Mirror(x)]
  BY TransposeIs
<1> HIDE DEF v
<1>4. /\ Mirror(a) \in 0 .. 15 /\ Mirror(b) \in 0 .. 15 /\ Mirror(d) \in 0 .. 15
      /\ Mirror(Mirror(a)) = a /\ Mirror(Mirror(b)) = b /\ Mirror(Mirror(d)) = d
  BY MirrorTwice
<1>5. /\ IsState(w) /\ w[Mirror(a)] = Turn(u[Mirror(a)], Plus(u[Mirror(b)], u[Mirror(d)]), s)
      /\ \A x \in 0 .. 15 : x # Mirror(a) => w[x] = u[x]
  <2>1. SalsaLined(u, w, Mirror(a), Mirror(b), Mirror(d), s)
    <3> DEFINE e == Mirror(a)
               f == Mirror(b)
               g == Mirror(d)
    <3>1. e \in 0 .. 15
      BY <1>4
    <3> HIDE DEF e, f, g
    <3>2. SalsaLined(u, salsa_line(u, e, f, g, s), e, f, g, s)
      BY <1>2, <3>1, SalsaLineIs
    <3> QED  BY <3>2 DEF e, f, g
  <2> HIDE DEF w
  <2> QED  BY <2>1 DEF SalsaLined
<1> HIDE DEF w
<1>6. w[Mirror(a)] = t[a]
  BY <1>1, <1>2, <1>4, <1>5
<1>7. ASSUME NEW x \in 0 .. 15 PROVE v[x] = w[x]
  <2>1. Mirror(x) \in 0 .. 15 /\ Mirror(Mirror(x)) = x /\ v[x] = t[Mirror(x)] /\ u[x] = st[Mirror(x)]
    BY <1>2, <1>3, MirrorTwice
  <2>2. CASE x = Mirror(a)
    BY <1>4, <1>6, <2>1, <2>2
  <2>3. CASE x # Mirror(a)
    <3>1. Mirror(x) # a
      BY <2>1, <2>3
    <3> QED  BY <1>1, <1>5, <2>1, <2>3, <3>1
  <2> QED  BY <2>2, <2>3
<1>8. v = w
  BY <1>3, <1>5, <1>7, StateEq
<1> QED  BY <1>1, <1>8 DEF t, u, v, w

LEMMA TransposeQuarter ==
  ASSUME NEW st, IsState(st), NEW a, NEW b, NEW c, NEW d, Apart(a, b, c, d)
  PROVE  /\ IsState(salsa_quarter_round(st, a, b, c, d))
         /\ Transpose(salsa_quarter_round(st, a, b, c, d))
              = salsa_quarter_round(Transpose(st), Mirror(a), Mirror(b), Mirror(c), Mirror(d))
<1> DEFINE p == salsa_line(st, b, a, d, 7)
           q == salsa_line(p, c, b, a, 9)
           r == salsa_line(q, d, c, b, 13)
           t == salsa_line(r, a, d, c, 18)
<1>1. a \in 0 .. 15 /\ b \in 0 .. 15 /\ c \in 0 .. 15 /\ d \in 0 .. 15
  BY DEF Apart
<1>2. IsState(p) /\ Transpose(p) = salsa_line(Transpose(st), Mirror(b), Mirror(a), Mirror(d), 7)
  BY <1>1, TransposeLine
<1>3. salsa_quarter_round(st, a, b, c, d) = t
  BY DEF salsa_quarter_round
<1> HIDE DEF p
<1>4. IsState(q) /\ Transpose(q) = salsa_line(Transpose(p), Mirror(c), Mirror(b), Mirror(a), 9)
  BY <1>1, <1>2, TransposeLine
<1> HIDE DEF q
<1>5. IsState(r) /\ Transpose(r) = salsa_line(Transpose(q), Mirror(d), Mirror(c), Mirror(b), 13)
  BY <1>1, <1>4, TransposeLine
<1> HIDE DEF r
<1>6. IsState(t) /\ Transpose(t) = salsa_line(Transpose(r), Mirror(a), Mirror(d), Mirror(c), 18)
  BY <1>1, <1>5, TransposeLine
<1> HIDE DEF t
<1>7. Transpose(t) = salsa_quarter_round(Transpose(st), Mirror(a), Mirror(b), Mirror(c), Mirror(d))
  BY <1>2, <1>4, <1>5, <1>6 DEF salsa_quarter_round
<1> QED  BY <1>3, <1>6, <1>7

(* A round of rows is a round of columns on the transposed state.          *)
LEMMA RowsAreColumns ==
  ASSUME NEW st, IsState(st)
  PROVE  IsState(salsa_columns(st)) /\ Transpose(salsa_columns(st)) = salsa_rows(Transpose(st))
<1> DEFINE c0 == salsa_quarter_round(st, 0, 4, 8, 12)
           c1 == salsa_quarter_round(c0, 5, 9, 13, 1)
           c2 == salsa_quarter_round(c1, 10, 14, 2, 6)
           c3 == salsa_quarter_round(c2, 15, 3, 7, 11)
<1>1. salsa_columns(st) = c3
  BY DEF salsa_columns
<1>2. Apart(0, 4, 8, 12) /\ Apart(5, 9, 13, 1) /\ Apart(10, 14, 2, 6) /\ Apart(15, 3, 7, 11)
  BY DEF Apart
<1>3. IsState(c0) /\ Transpose(c0) = salsa_quarter_round(Transpose(st), 0, 1, 2, 3)
  <2>1. IsState(c0) /\ Transpose(c0) = salsa_quarter_round(Transpose(st), Mirror(0), Mirror(4), Mirror(8), Mirror(12))
    BY <1>2, TransposeQuarter
  <2> QED  BY <2>1, MirrorIs
<1> HIDE DEF c0
<1>4. IsState(c1) /\ Transpose(c1) = salsa_quarter_round(Transpose(c0), 5, 6, 7, 4)
  <2>1. IsState(c1) /\ Transpose(c1) = salsa_quarter_round(Transpose(c0), Mirror(5), Mirror(9), Mirror(13), Mirror(1))
    BY <1>2, <1>3, TransposeQuarter
  <2> QED  BY <2>1, MirrorIs
<1> HIDE DEF c1
<1>5. IsState(c2) /\ Transpose(c2) = salsa_quarter_round(Transpose(c1), 10, 11, 8, 9)
  <2>1. IsState(c2) /\ Transpose(c2) = salsa_quarter_round(Transpose(c1), Mirror(10), Mirror(14), Mirror(2), Mirror(6))
    BY <1>2, <1>4, TransposeQuarter
  <2> QED  BY <2>1, MirrorIs
<1> HIDE DEF c2
<1>6. IsState(c3) /\ Transpose(c3) = salsa_quarter_round(Transpose(c2), 15, 12, 13, 14)
  <2>1. IsState(c3) /\ Transpose(c3) = salsa_quarter_round(Transpose(c2), Mirror(15), Mirror(3), Mirror(7), Mirror(11))
    BY <1>2, <1>5, TransposeQuarter
  <2> QED  BY <2>1, MirrorIs
<1> HIDE DEF c3
<1>7. Transpose(c3) = salsa_rows(Transpose(st))
  BY <1>3, <1>4, <1>5, <1>6 DEF salsa_rows
<1> QED  BY <1>1, <1>6, <1>7

LEMMA SalsaRoundIs ==
  ASSUME NEW st, IsState(st)
  PROVE  salsa_double_round(st) = Transpose(salsa_columns(Transpose(salsa_columns(st))))
<1> DEFINE u == salsa_columns(st)
           v == Transpose(u)
<1>1. IsState(u)
  BY RowsAreColumns
<1>2. salsa_double_round(st) = salsa_rows(u)
  BY DEF salsa_double_round
<1> HIDE DEF u
<1>3. IsState(v) /\ Transpose(v) = u
  BY <1>1, TransposeIs, TransposeTwice
<1> HIDE DEF v
<1>4. Transpose(salsa_columns(v)) = salsa_rows(Transpose(v))
  BY <1>3, RowsAreColumns
<1>5. salsa_double_round(st) = Transpose(salsa_columns(v))
  BY <1>2, <1>3, <1>4
<1> QED  BY <1>5 DEF u, v
-----------------------------------------------------------------------------
(* Vector and scalar ciphers.                                              *)

(* crypto_stream and crypto_stream_xor.                                    *)
StreamState(n, k) == setup("salsa20", hsalsa20(k, n[1]), n[2], 0)

LEMMA StreamXorIs ==
  ASSUME NEW m, IsSeq(m), NEW n, NEW k
  PROVE  crypto_stream_xor(m, n, k, FALSE) = ModeOf(m, StreamState(n, k), 0)
<1>1. counter_mode(m, StreamState(n, k), 0) = ModeOf(m, StreamState(n, k), 0)
  BY ModeIs
<1> QED  BY <1>1 DEF crypto_stream_xor, salsa20, StreamState

LEMMA StreamIs ==
  ASSUME NEW l \in Nat, NEW n, NEW k
  PROVE  crypto_stream(l, n, k) = ModeOf(Zeros(l), StreamState(n, k), 0)
<1>1. counter_mode(Zeros(l), StreamState(n, k), 0) = ModeOf(Zeros(l), StreamState(n, k), 0)
  BY ZerosLen, ModeIs
<1> QED  BY <1>1 DEF crypto_stream, salsa20, StreamState

LEMMA StreamCalls ==
  ASSUME NEW m, IsSeq(m), NEW n, NEW k
  PROVE  /\ crypto_stream_xor(crypto_stream_xor(m, n, k, FALSE), n, k, FALSE) = m
         /\ crypto_stream_xor(m, n, k, FALSE) = Xor(m, crypto_stream(Len(m), n, k))
<1> DEFINE st == StreamState(n, k)
           l == Len(m)
           z == Zeros(l)
           u == ModeOf(m, st, 0)
           v == ModeOf(u, st, 0)
           y == ModeOf(z, st, 0)
           x == Xor(m, y)
<1>1. l \in Nat /\ m = [i \in 1 .. l |-> m[i]]
  BY SeqIs
<1>2. IsSeq(z) /\ Len(z) = l /\ \A i \in 1 .. l : z[i] = {}
  BY <1>1, ZerosLen
<1>3. IsSeq(u) /\ Len(u) = l /\ \A i \in 1 .. l : u[i] = SymDiff(m[i], {StreamAt(st, 0, i)})
  BY ModeLen DEF ModeOf
<1>4. crypto_stream_xor(m, n, k, FALSE) = u /\ crypto_stream(l, n, k) = y
  <2>1. crypto_stream_xor(m, n, k, FALSE) = u
    BY StreamXorIs, Zenon
  <2>2. crypto_stream(l, n, k) = y
    <3> HIDE DEF l
    <3> QED  BY <1>1, StreamIs
  <2> QED  BY <2>1, <2>2
<1>5. y = [i \in 1 .. Len(z) |-> SymDiff(z[i], {StreamAt(st, 0, i)})]
  BY DEF ModeOf
<1> HIDE DEF u, z, y
<1>6. IsSeq(v) /\ Len(v) = Len(u) /\ \A i \in 1 .. Len(u) : v[i] = SymDiff(u[i], {StreamAt(st, 0, i)})
  BY <1>3, ModeLen DEF ModeOf
<1>7. crypto_stream_xor(u, n, k, FALSE) = v
  <2>1. IsSeq(u)
    BY <1>3
  <2>2. crypto_stream_xor(u, n, k, FALSE) = ModeOf(u, StreamState(n, k), 0)
    <3> HIDE DEF v, st, x
    <3> QED  BY <2>1, StreamXorIs, Zenon
  <2> QED  BY <2>2
<1>8. v = m
  <2> HIDE DEF v, l, st
  <2>1. ASSUME NEW i \in 1 .. Len(v) PROVE v[i] = m[i]
    <3>1. v[i] = SymDiff(u[i], {StreamAt(st, 0, i)}) /\ u[i] = SymDiff(m[i], {StreamAt(st, 0, i)})
      BY <1>3, <1>6
    <3> QED  BY <3>1, XorTwice
  <2>2. Len(v) = Len(m)
    BY <1>3, <1>6 DEF l
  <2> QED  BY <1>6, <2>1, <2>2, SeqEq
<1>9. u = x
  <2>1. x = [i \in 1 .. l |-> SymDiff(m[i], y[i])]
    <3>1. DOMAIN m = 1 .. l
      BY <1>1
    <3> HIDE DEF l
    <3> QED  BY <3>1 DEF Xor
  <2> HIDE DEF l, st, x
  <2>2. x = [i \in 1 .. l |-> x[i]] /\ \A i \in 1 .. l : x[i] = SymDiff(m[i], y[i])
    BY <2>1
  <2>3. IsSeq(x) /\ Len(x) = l
    BY <1>1, <2>2, FunSeq
  <2>4. ASSUME NEW i \in 1 .. l PROVE u[i] = x[i]
    <3>1. y[i] = SymDiff({}, {StreamAt(st, 0, i)})
      BY <1>2, <1>5
    <3>2. y[i] = {StreamAt(st, 0, i)}
      BY <3>1, XorTwice
    <3>3. u[i] = SymDiff(m[i], {StreamAt(st, 0, i)}) /\ x[i] = SymDiff(m[i], y[i])
      BY <1>3, <2>2
    <3> QED  BY <3>2, <3>3
  <2> QED  BY <1>3, <2>3, <2>4, SeqEq
<1> HIDE DEF v, x
<1> QED  BY <1>4, <1>7, <1>8, <1>9 DEF x, l

(* The state under rounds: before the rounds, and after them.              *)
WordsInv ==
  /\ IsState(words.scalar) /\ words.vec = Vectors(words.scalar)
  /\ words.scalar = Word => words.salsa = Word
  /\ words.scalar # Word => words.salsa = Transpose(salsa_columns(Transpose(salsa_columns(Word))))

VectorsInv == StreamsAgree /\ WordsInv

LEMMA VectorsInit == Init => VectorsInv
<1> SUFFICES ASSUME Init PROVE VectorsInv
  OBVIOUS
<1>1. words.scalar = Word /\ words.vec = Vectors(Word) /\ words.salsa = Word
  BY DEF Init
<1>2. WordsInv
  BY <1>1, RoundChanges DEF WordsInv
<1>3. StreamsAgree
  BY DEF Init, StreamsAgree
<1> QED  BY <1>2, <1>3 DEF VectorsInv

LEMMA RoundInv == WordsInv /\ Round => WordsInv'
<1> SUFFICES ASSUME WordsInv, Round PROVE WordsInv'
  OBVIOUS
<1>1. words.scalar = Word /\ words.vec = Vectors(Word) /\ words.salsa = Word
  BY DEF Round, WordsInv
<1>2. words' = [scalar |-> double_round(Word), vec |-> vec_double_round(Vectors(Word)),
                salsa |-> salsa_double_round(Word)]
  BY <1>1 DEF Round
<1>3. /\ IsState(double_round(Word)) /\ double_round(Word) # Word
      /\ vec_double_round(Vectors(Word)) = Vectors(double_round(Word))
  BY RoundChanges, VecDoubleRoundIs
<1>4. salsa_double_round(Word) = Transpose(salsa_columns(Transpose(salsa_columns(Word))))
  BY RoundChanges, SalsaRoundIs
<1>5. /\ words'.scalar = double_round(Word) /\ words'.vec = vec_double_round(Vectors(Word))
      /\ words'.salsa = salsa_double_round(Word)
  BY <1>2
<1> QED  BY <1>3, <1>4, <1>5 DEF WordsInv

LEMMA CallInv ==
  ASSUME NEW s \in Streams, CallStreams(s)
  PROVE  StreamsAgree'
<1> DEFINE m == Message(0, s.len)
           k == <<"key", "stream">>
<1>1. PICK n \in Nonce :
        call' = [m |-> m, chacha |-> chacha20(m, k, n, s.ctr), vec |-> vec_chacha20(m, k, n, s.ctr),
                 stream |-> crypto_stream(s.len, n, k), xor |-> crypto_stream_xor(m, n, k, FALSE),
                 twice |-> crypto_stream_xor(crypto_stream_xor(m, n, k, FALSE), n, k, FALSE)]
  BY DEF CallStreams
<1>2. s.len \in Nat /\ s.ctr \in 0 .. Ctr - 1
  BY BoxesAssumption
<1>3. IsSeq(m) /\ Len(m) = s.len
  <2>1. m = [i \in 1 .. s.len |-> m[i]]
    BY DEF Message
  <2> HIDE DEF m
  <2> QED  BY <1>2, <2>1, FunSeq
<1> HIDE DEF m, k
<1>4. vec_chacha20(m, k, n, s.ctr) = chacha20(m, k, n, s.ctr)
  BY <1>2, <1>3, VecIs
<1>5. /\ crypto_stream_xor(crypto_stream_xor(m, n, k, FALSE), n, k, FALSE) = m
      /\ crypto_stream_xor(m, n, k, FALSE) = Xor(m, crypto_stream(s.len, n, k))
  <2>1. /\ crypto_stream_xor(crypto_stream_xor(m, n, k, FALSE), n, k, FALSE) = m
        /\ crypto_stream_xor(m, n, k, FALSE) = Xor(m, crypto_stream(Len(m), n, k))
    BY <1>3, StreamCalls
  <2> QED  BY <1>3, <2>1
<1>6. /\ call'.m = m /\ call'.chacha = chacha20(m, k, n, s.ctr) /\ call'.vec = vec_chacha20(m, k, n, s.ctr)
      /\ call'.stream = crypto_stream(s.len, n, k) /\ call'.xor = crypto_stream_xor(m, n, k, FALSE)
      /\ call'.twice = crypto_stream_xor(crypto_stream_xor(m, n, k, FALSE), n, k, FALSE)
  BY <1>1
<1> QED  BY <1>4, <1>5, <1>6 DEF StreamsAgree

LEMMA VectorsNext == VectorsInv /\ [Next]_vars => VectorsInv'
<1> SUFFICES ASSUME VectorsInv, [Next]_vars PROVE VectorsInv'
  OBVIOUS
<1>1. StreamsAgree /\ WordsInv
  BY DEF VectorsInv
<1>2. ASSUME UNCHANGED <<call, words>> PROVE VectorsInv'
  BY <1>1, <1>2 DEF VectorsInv, StreamsAgree, WordsInv
<1>3. CASE Round
  <2>1. WordsInv'
    BY <1>1, <1>3, RoundInv
  <2>2. StreamsAgree'
    BY <1>1, <1>3 DEF Round, StreamsAgree
  <2> QED  BY <2>1, <2>2 DEF VectorsInv
<1>4. CASE \E s \in Streams : CallStreams(s)
  <2>1. PICK s \in Streams : CallStreams(s)
    BY <1>4
  <2>2. StreamsAgree'
    BY <2>1, CallInv
  <2>3. words' = words
    BY <2>1 DEF CallStreams
  <2>4. WordsInv'
    BY <1>1, <2>3 DEF WordsInv
  <2> QED  BY <2>2, <2>4 DEF VectorsInv
<1>5. CASE Seal
  <2>1. UNCHANGED <<call, words>>
    BY <1>5 DEF Seal, SealBox, SealSecretBox, SealAead, Send
  <2> QED  BY <1>2, <2>1
<1>6. CASE Open
  <2>1. UNCHANGED <<call, words>>
    BY <1>6 DEF Open, OpenBox, OpenSecretBox, OpenAead, OpenSecretBoxEasy
  <2> QED  BY <1>2, <2>1
<1>7. CASE Done
  <2>1. UNCHANGED <<call, words>>
    BY <1>7 DEF Done
  <2> QED  BY <1>2, <2>1
<1>8. CASE UNCHANGED vars
  <2>1. UNCHANGED <<call, words>>
    BY <1>8 DEF vars
  <2> QED  BY <1>2, <2>1
<1> QED  BY <1>3, <1>4, <1>5, <1>6, <1>7, <1>8 DEF Next

(* Vector and scalar ciphers: for every length and every first counter,    *)
(* three blocks at a time, then one at a time, then a piece of one, give   *)
(* what the word-by-word cipher gives, its counter wrapping or not; a      *)
(* stream is xored in and out; rounds on vectors are rounds on words; and  *)
(* Salsa20's rows are its columns, transposed.                             *)
THEOREM VectorsAlwaysAgree == Spec => []VectorsAgree
<1>1. Init => VectorsInv
  BY VectorsInit
<1>2. VectorsInv /\ [Next]_vars => VectorsInv'
  BY VectorsNext
<1>3. VectorsInv => VectorsAgree
  BY DEF VectorsInv, WordsInv, VectorsAgree, RoundsAgree
<1> QED  BY <1>1, <1>2, <1>3, PTL DEF Spec
=============================================================================
