----------------------------- MODULE Induction ------------------------------
(***************************************************************************)
(* Induction over the natural numbers in the form the provers can use:     *)
(* about sets instead of predicates; what it says about functions defined  *)
(* by recursion over an interval; and arithmetic and sequences as the      *)
(* other proofs need them.                                                 *)
(***************************************************************************)
EXTENDS Integers, Sequences, TLAPS, WellFoundedInduction, SequenceTheorems

(* A set of numbers that is not empty has a least element.                 *)
LEMMA LeastNat ==
  ASSUME NEW T \in SUBSET Nat, T # {}
  PROVE  \E m \in T : \A k \in T : m <= k
<1> DEFINE R == OpToRel(<, Nat)
<1>1. IsWellFoundedOn(R, Nat)
  BY NatLessThanWellFounded
<1>2. \A x, y \in Nat : y < x => <<y, x>> \in R
  BY DEF OpToRel
<1> HIDE DEF R
<1>3. PICK m \in T : \A y \in T : ~ (<<y, m>> \in R)
  BY <1>1, WFMin, Zenon
<1>4. \A k \in T : m \in Nat /\ k \in Nat /\ ~(k < m)
  BY <1>2, <1>3
<1> QED  BY <1>4

(* A set that contains 0 and with each number the next contains them all.  *)
LEMMA SetInduction ==
  ASSUME NEW I, 0 \in I, \A n \in Nat : n \in I => n + 1 \in I
  PROVE  \A n \in Nat : n \in I
<1> SUFFICES ASSUME NEW n \in Nat, n \notin I PROVE FALSE
  OBVIOUS
<1> DEFINE T == Nat \ I
<1>1. PICK m \in T : \A k \in T : m <= k
  <2>1. T \in SUBSET Nat /\ T # {}
    OBVIOUS
  <2> HIDE DEF T
  <2> QED  BY <2>1, LeastNat
<1>2. m # 0 /\ m - 1 \in Nat
  BY <1>1
<1>3. m - 1 \in I
  BY <1>1, <1>2
<1> QED  BY <1>1, <1>2, <1>3

(* The function that recursion from v by the steps of F defines.           *)
Recursive(g, V, v, F, n) ==
  g \in [0 .. n -> V] /\ g[0] = v /\ \A j \in 1 .. n : g[j] = F[<<g[j - 1], j>>]

(* There is one.                                                           *)
LEMMA RecursionExists ==
  ASSUME NEW V, NEW v \in V, NEW F \in [V \X Nat -> V], NEW n \in Nat
  PROVE  \E g : Recursive(g, V, v, F, n)
<1> DEFINE Rec(m, g) == /\ g \in [0 .. m -> V] /\ g[0] = v
                        /\ \A j \in 1 .. m : g[j] = F[<<g[j - 1], j>>]
           I == {m \in Nat : \E g : Rec(m, g)}
<1>1. 0 \in I
  <2>1. Rec(0, [j \in 0 .. 0 |-> v])
    OBVIOUS
  <2> QED  BY <2>1
<1>2. ASSUME NEW m \in Nat, m \in I PROVE m + 1 \in I
  <2>1. PICK g : Rec(m, g)
    BY <1>2
  <2> DEFINE h == [j \in 0 .. m + 1 |-> IF j <= m THEN g[j] ELSE F[<<g[m], m + 1>>]]
  <2>2. g[m] \in V /\ F[<<g[m], m + 1>>] \in V
    BY <2>1
  <2>3. h \in [0 .. m + 1 -> V] /\ h[0] = v
    BY <2>1, <2>2
  <2>4. ASSUME NEW j \in 1 .. m + 1 PROVE h[j] = F[<<h[j - 1], j>>]
    <3>1. CASE j <= m
      BY <2>1, <3>1
    <3>2. CASE j = m + 1
      <4>1. h[m] = g[m] /\ h[m + 1] = F[<<g[m], m + 1>>] /\ j - 1 = m
        BY <3>2
      <4> HIDE DEF h
      <4> QED  BY <3>2, <4>1
    <3> QED  BY <3>1, <3>2
  <2>5. Rec(m + 1, h)
    BY <2>3, <2>4
  <2> HIDE DEF h, Rec
  <2>6. m + 1 \in Nat
    OBVIOUS
  <2> QED  BY <2>5, <2>6
<1> HIDE DEF I
<1>3. n \in I
  BY <1>1, <1>2, SetInduction
<1> QED  BY <1>3 DEF I, Recursive
-----------------------------------------------------------------------------
(* Arithmetic.                                                             *)

(* Quotient and remainder are determined by their bounds.                  *)
LEMMA DivMod ==
  ASSUME NEW m \in Nat \ {0}, NEW x \in Int, NEW q \in Int, NEW o \in Nat, o < m, x = q * m + o
  PROVE  x \div m = q /\ x % m = o
<1> DEFINE p == x \div m
           z == x % m
<1>1. p \in Int /\ z \in 0 .. m - 1 /\ x = p * m + z
  OBVIOUS
<1> HIDE DEF p, z
<1>2. q * m \in Int /\ p * m \in Int
  BY <1>1
<1>3. CASE p < q
  <2>1. (p + 1) * m <= q * m /\ (p + 1) * m = p * m + m
    BY <1>1, <1>3
  <2> QED  BY <1>1, <1>2, <2>1
<1>4. CASE q < p
  <2>1. (q + 1) * m <= p * m /\ (q + 1) * m = q * m + m
    BY <1>1, <1>4
  <2> QED  BY <1>1, <1>2, <2>1
<1>5. CASE p = q
  <2>1. p * m = q * m
    BY <1>5
  <2>2. z = o
    BY <1>1, <1>2, <2>1
  <2> QED  BY <1>5, <2>2 DEF p, z
<1> QED  BY <1>1, <1>3, <1>4, <1>5

(* A number below the divisor, or below twice the divisor.                 *)
LEMMA ModSmall ==
  ASSUME NEW m \in Nat \ {0}, NEW x \in Nat
  PROVE  (x < m => x % m = x) /\ (m <= x /\ x < 2 * m => x % m = x - m)
<1>1. ASSUME x < m PROVE x % m = x
  BY <1>1
<1>2. ASSUME m <= x, x < 2 * m PROVE x % m = x - m
  <2> DEFINE q == 1
             o == x - m
  <2>1. q \in Int /\ o \in Nat /\ o < m /\ x = q * m + o /\ x \in Int
    BY <1>2
  <2> HIDE DEF q, o
  <2>2. x % m = o
    BY <2>1, DivMod
  <2> QED  BY <2>2 DEF o
<1> QED  BY <1>1, <1>2

(* Counting on from a counter that may have wrapped.                       *)
LEMMA ModNext ==
  ASSUME NEW m \in Nat \ {0}, NEW x \in Nat
  PROVE  ((x % m) + 1) % m = (x + 1) % m /\ x % m \in 0 .. m - 1
<1> DEFINE q == x \div m
           z == x % m
<1>1. q \in Int /\ z \in 0 .. m - 1 /\ x = q * m + z /\ q * m \in Int
  OBVIOUS
<1> HIDE DEF q, z
<1>2. CASE z + 1 < m
  <2>1. x + 1 = q * m + (z + 1) /\ z + 1 = 0 * m + (z + 1) /\ z + 1 \in Nat /\ x + 1 \in Int
    BY <1>1
  <2>2. (x + 1) % m = z + 1
    BY <1>1, <1>2, <2>1, DivMod
  <2>3. (z + 1) % m = z + 1
    <3>1. z + 1 \in Int /\ 0 \in Int
      BY <1>1
    <3> QED  BY <1>2, <2>1, <3>1, DivMod
  <2> QED  BY <1>1, <2>2, <2>3 DEF z
<1>3. CASE z + 1 = m
  <2>1. x + 1 = (q + 1) * m + 0 /\ z + 1 = 1 * m + 0 /\ q + 1 \in Int
    BY <1>1, <1>3
  <2>2. (x + 1) % m = 0
    BY <1>1, <2>1, DivMod
  <2>3. (z + 1) % m = 0
    BY <1>1, <2>1, DivMod
  <2> QED  BY <1>1, <2>2, <2>3 DEF z
<1> QED  BY <1>1, <1>2, <1>3
-----------------------------------------------------------------------------
(* Sequences of whatever elements.                                         *)

IsSeq(q) == \E E : q \in Seq(E)

(* A function on 1 .. n is a sequence of n elements.                       *)
LEMMA FunSeq ==
  ASSUME NEW n \in Nat, NEW q, q = [k \in 1 .. n |-> q[k]]
  PROVE  IsSeq(q) /\ Len(q) = n
<1> DEFINE E == {q[k] : k \in 1 .. n}
<1>1. q \in [1 .. n -> E]
  OBVIOUS
<1>2. q \in Seq(E)
  BY <1>1, SeqDef
<1>3. Len(q) \in Nat /\ q \in [1 .. Len(q) -> E]
  BY <1>2, LenProperties
<1> HIDE DEF E
<1> QED  BY <1>1, <1>2, <1>3 DEF IsSeq

(* A sequence is a function on the numbers up to its length.               *)
LEMMA SeqIs ==
  ASSUME NEW q, IsSeq(q)
  PROVE  Len(q) \in Nat /\ q = [k \in 1 .. Len(q) |-> q[k]]
<1>1. PICK E : q \in Seq(E)
  BY DEF IsSeq
<1>2. Len(q) \in Nat /\ q \in [1 .. Len(q) -> E]
  BY <1>1, LenProperties
<1> QED  BY <1>2

(* Sequences with the same elements are equal.                             *)
LEMMA SeqEq ==
  ASSUME NEW p, NEW q, IsSeq(p), IsSeq(q), Len(p) = Len(q), \A k \in 1 .. Len(p) : p[k] = q[k]
  PROVE  p = q
<1> DEFINE n == Len(p)
<1>1. p = [k \in 1 .. n |-> p[k]] /\ q = [k \in 1 .. n |-> q[k]]
  BY SeqIs
<1> HIDE DEF n
<1>2. \A k \in 1 .. n : p[k] = q[k]
  BY DEF n
<1>3. [k \in 1 .. n |-> p[k]] = [k \in 1 .. n |-> q[k]]
  BY <1>2, Zenon
<1> QED  BY <1>1, <1>3, Zenon

(* The elements of a concatenation.                                        *)
LEMMA SeqCat ==
  ASSUME NEW p, NEW q, IsSeq(p), IsSeq(q)
  PROVE  /\ IsSeq(p \o q) /\ Len(p \o q) = Len(p) + Len(q)
         /\ \A k \in 1 .. Len(p) + Len(q) : (p \o q)[k] =
             IF k <= Len(p) THEN p[k] ELSE q[k - Len(p)]
<1>1. PICK E : p \in Seq(E)
  BY DEF IsSeq
<1>2. PICK F : q \in Seq(F)
  BY DEF IsSeq
<1> DEFINE G == E \union F
<1>3. p \in Seq(G) /\ q \in Seq(G)
  <2>1. Len(p) \in Nat /\ p \in [1 .. Len(p) -> E] /\ Len(q) \in Nat /\ q \in [1 .. Len(q) -> F]
    BY <1>1, <1>2, LenProperties
  <2>2. p \in [1 .. Len(p) -> G] /\ q \in [1 .. Len(q) -> G]
    BY <2>1
  <2> HIDE DEF G
  <2> QED  BY <2>1, <2>2, SeqDef
<1> HIDE DEF G
<1> QED  BY <1>3, ConcatProperties DEF IsSeq

(* The elements of a piece.                                                *)
LEMMA SeqSub ==
  ASSUME NEW q, IsSeq(q), NEW b \in Nat, NEW e \in Nat, b <= e, e <= Len(q)
  PROVE  /\ IsSeq(SubSeq(q, b + 1, e)) /\ Len(SubSeq(q, b + 1, e)) = e - b
         /\ \A k \in 1 .. e - b : SubSeq(q, b + 1, e)[k] = q[b + k]
<1>1. PICK E : q \in Seq(E)
  BY DEF IsSeq
<1>2. Len(q) \in Nat /\ \A k \in b + 1 .. e : q[k] \in E
  BY <1>1, LenProperties, ElementOfSeq
<1> DEFINE p == SubSeq(q, b + 1, e)
<1>3. /\ p \in Seq(E) /\ Len(p) = IF b + 1 <= e THEN e - (b + 1) + 1 ELSE 0
      /\ \A k \in 1 .. e - (b + 1) + 1 : p[k] = q[b + 1 + k - 1]
  <2>1. b + 1 \in Int /\ e \in Int
    OBVIOUS
  <2> QED  BY <1>1, <1>2, <2>1, SubSeqProperties
<1> HIDE DEF p
<1>4. IsSeq(p) /\ Len(p) = e - b /\ \A k \in 1 .. e - b : p[k] = q[b + k]
  BY <1>2, <1>3 DEF IsSeq
<1> QED  BY <1>4 DEF p

(* A sequence of one element.                                              *)
LEMMA SeqOne ==
  ASSUME NEW v
  PROVE  IsSeq(<<v>>) /\ Len(<<v>>) = 1 /\ <<v>>[1] = v
<1>1. <<v>> \in Seq({v})
  OBVIOUS
<1> QED  BY <1>1 DEF IsSeq

(* The elements of a sequence that got one more.                           *)
LEMMA SeqAppend ==
  ASSUME NEW q, IsSeq(q), NEW v
  PROVE  /\ IsSeq(Append(q, v)) /\ Len(Append(q, v)) = Len(q) + 1
         /\ \A k \in 1 .. Len(q) : Append(q, v)[k] = q[k]
         /\ Append(q, v)[Len(q) + 1] = v
<1>1. PICK E : q \in Seq(E)
  BY DEF IsSeq
<1> DEFINE G == E \union {v}
<1>2. q \in Seq(G) /\ v \in G
  <2>1. Len(q) \in Nat /\ q \in [1 .. Len(q) -> E]
    BY <1>1, LenProperties
  <2>2. q \in [1 .. Len(q) -> G] /\ v \in G
    BY <2>1
  <2> HIDE DEF G
  <2> QED  BY <2>1, <2>2, SeqDef
<1> HIDE DEF G
<1> QED  BY <1>2, AppendProperties DEF IsSeq

(* The empty sequence.                                                     *)
LEMMA SeqEmpty == IsSeq(<<>>) /\ Len(<<>>) = 0
<1>1. <<>> \in Seq({})
  OBVIOUS
<1> QED  BY <1>1 DEF IsSeq

(* The parts of a string whose front has a known length.                   *)
LEMMA CatOnce ==
  ASSUME NEW p, IsSeq(p), NEW q, IsSeq(q), NEW u, IsSeq(u), NEW v, IsSeq(v),
         Len(p) = Len(u), p \o q = u \o v
  PROVE  p = u /\ q = v
<1> DEFINE s == p \o q
           t == u \o v
<1>0. Len(p) \in Nat /\ Len(q) \in Nat /\ Len(v) \in Nat
  BY SeqIs
<1>1. /\ Len(s) = Len(p) + Len(q)
      /\ \A k \in 1 .. Len(p) + Len(q) : s[k] = IF k <= Len(p) THEN p[k] ELSE q[k - Len(p)]
  BY SeqCat
<1>2. /\ Len(t) = Len(u) + Len(v)
      /\ \A k \in 1 .. Len(u) + Len(v) : t[k] = IF k <= Len(u) THEN u[k] ELSE v[k - Len(u)]
  BY SeqCat
<1>3. s = t
  OBVIOUS
<1> HIDE DEF s, t
<1>4. Len(q) = Len(v)
  BY <1>0, <1>1, <1>2, <1>3
<1>5. \A k \in 1 .. Len(p) : p[k] = u[k]
  BY <1>0, <1>1, <1>2, <1>3, <1>4
<1>6. ASSUME NEW k \in 1 .. Len(q) PROVE q[k] = v[k]
  <2> DEFINE n == Len(p)
             l == n + k
  <2>1. n \in Nat /\ Len(u) = n /\ l \in 1 .. n + Len(q) /\ ~(l <= n) /\ l - n = k
    BY <1>0
  <2> HIDE DEF l
  <2>2. s[l] = q[l - n]
    BY <1>1, <2>1
  <2>3. t[l] = v[l - n]
    <3> HIDE DEF n
    <3>1. l \in 1 .. Len(u) + Len(v) /\ ~(l <= Len(u))
      BY <1>4, <2>1
    <3>2. t[l] = v[l - Len(u)]
      BY <1>2, <3>1
    <3> QED  BY <2>1, <3>2
  <2> QED  BY <1>3, <2>1, <2>2, <2>3
<1>7. p = u
  BY <1>5, SeqEq
<1>8. q = v
  BY <1>4, <1>6, SeqEq
<1> QED  BY <1>7, <1>8
=============================================================================
