--------------------------- MODULE ScheduleProofs ---------------------------
(***************************************************************************)
(* Proofs about Hashing's states and key schedule: no block is compressed  *)
(* half empty, digests, secrets and IVs have the lengths their readers     *)
(* expect, the buffer for labels is never overrun, and what is derived     *)
(* along different paths has no byte in common.                            *)
(***************************************************************************)
EXTENDS HashingProofs

-----------------------------------------------------------------------------
(* Lengths of digests and MACs.                                            *)

(* finish returns a string of the digest's length.                         *)
LEMMA FinishLen ==
  ASSUME NEW s, s.alg \in Alg
  PROVE  IsSeq(finish(s)) /\ Len(finish(s)) = size_hash[s.alg]
<1>1. size_hash[s.alg] \in Nat
  BY Sizes
<1>2. OfLength(finish(s), size_hash[s.alg])
  BY DEF finish, OfLength
<1> QED  BY <1>1, <1>2, SeqFun

(* What update_last does to a state, whatever the last piece is.           *)
LEMMA LastUpdateIs ==
  ASSUME NEW x \in Alg, NEW w, IsSeq(w), NEW c \in Nat, NEW d
  PROVE  LET s == State(x, w, c % CounterWord[x])
             n == nb(x, Len(d))
         IN update_last(s, d)
              = State(x, w \o BlocksOf(x, final_blocks(s, d), n), (c + n) % CounterWord[x])
<1> DEFINE s == State(x, w, c % CounterWord[x])
           n == nb(x, Len(d))
           f == final_blocks(s, d)
<1>1. n \in Nat
  BY DEF nb
<1>2. s.alg = x
  BY FieldsOf
<1>3. update_last(s, d) = update_multi(s, f, n)
  BY <1>2 DEF update_last
<1> HIDE DEF n, f
<1>4. update_multi(s, f, n) = State(x, w \o BlocksOf(x, f, n), (c + n) % CounterWord[x])
  BY <1>1, MultiIs
<1> QED  BY <1>3, <1>4 DEF n, f

(* HMAC returns a string of the digest's length.                           *)
LEMMA HmacLen ==
  ASSUME NEW x \in Alg, NEW key, NEW data
  PROVE  IsSeq(hmac(x, key, data)) /\ Len(hmac(x, key, data)) = size_hash[x]
<1> DEFINE k == wrap_key(x, key)
           op == xor_bytes_inplace("opad", k)
           s == update(init(x), op)
           w == Append(<<>>, op)
           one == 1
           m == CounterWord[x]
<1>0. m \in Nat \ {0, 1}
  BY SHA2Assumption
<1>1. s = State(x, w, one % m) /\ IsSeq(w) /\ one \in Nat
  <2>1. init(x) = State(x, <<>>, 0)
    BY DEF init, State
  <2>2. s = State(x, w, (0 + 1) % m)
    BY <2>1, UpdateIs
  <2>3. 0 + 1 = one /\ one \in Nat
    OBVIOUS
  <2>4. IsSeq(w)
    BY SeqEmpty, SeqAppend
  <2> HIDE DEF s, w, m
  <2> QED  BY <2>2, <2>3, <2>4
<1>2. \E d : hmac(x, key, data) = finish(update_last(s, d))
  BY DEF hmac, hmac_core
<1>3. PICK d : hmac(x, key, data) = finish(update_last(s, d))
  BY <1>2
<1> HIDE DEF s, w, one, m
<1>4. \E u, v : update_last(s, d) = State(x, u, v)
  BY <1>1, LastUpdateIs DEF m
<1>5. update_last(s, d).alg = x
  BY <1>4, FieldsOf
<1> QED  BY <1>3, <1>5, FinishLen
-----------------------------------------------------------------------------
(* Labels.                                                                 *)

(* A label that fits is put together within the buffer, the byte of its    *)
(* length is exact and its own bytes are behind the prefix.                *)
LEMMA LabelIs ==
  ASSUME NEW x \in Alg, x \notin Weak, LabelMax + 10 + size_hash[x] <= InfoSize,
         NEW label, IsSeq(label), LabelFits(label), NEW n
  PROVE  LET info == quic_crypto_tls_label(x, label, n)
         IN /\ IsSeq(info) /\ Len(info) \in 1 .. InfoSize
            /\ info[3] = B(Len(label) + 6) /\ Len(info) >= 10 + Len(label)
            /\ \A k \in 1 .. Len(label) : info[9 + k] = label[k]
<1> DEFINE info == quic_crypto_tls_label(x, label, n)
           h == size_hash[x]
           l == Len(label)
           len == IF n # 0 THEN n ELSE h
           ctx == IF n # 0 THEN <<B(0)>> ELSE <<B(h)>> \o hash(x, <<>>)
           t == <<B(len \div 256), B(len % 256), B(l + 6)>>
           p == t \o Prefix
           q == p \o label
<1>0. h \in Nat /\ l \in Nat /\ l <= LabelMax /\ LabelMax \in Nat /\ InfoSize \in Nat
  BY Sizes, SeqLen, LabelAssumption DEF LabelFits
<1>1. info = q \o ctx
  BY DEF quic_crypto_tls_label
<1>2. IsSeq(ctx) /\ Len(ctx) \in Nat \ {0} /\ Len(ctx) <= 1 + h
  <2>1. CASE n # 0
    <3>1. ctx = <<B(0)>>
      BY <2>1
    <3> HIDE DEF ctx
    <3>2. IsSeq(ctx) /\ Len(ctx) = 1
      BY <3>1, SeqOne
    <3> QED  BY <1>0, <3>2
  <2>2. CASE ~(n # 0)
    <3> DEFINE d == hash(x, <<>>)
               o == <<B(h)>>
    <3>1. ctx = o \o d
      BY <2>2
    <3>2. IsSeq(d) /\ Len(d) = h
      <4>1. Len(<<>>) \div size_block[x] < CounterWord[x]
        <5>1. size_block[x] \in Nat \ {0} /\ CounterWord[x] \in Nat \ {0}
          BY Sizes
        <5>2. 0 \div size_block[x] = 0
          BY <5>1
        <5> QED  BY <5>1, <5>2, SeqEmpty
      <4>2. d = HashOf(x, <<>>)
        BY <4>1, SeqEmpty, HashIs
      <4> QED  BY <4>2, HashLen
    <3>3. IsSeq(o) /\ Len(o) = 1
      BY SeqOne
    <3> HIDE DEF ctx, d, o
    <3>4. IsSeq(o \o d) /\ Len(o \o d) = Len(o) + Len(d)
      BY <3>2, <3>3, SeqCat
    <3> HIDE DEF h
    <3> QED  BY <1>0, <3>1, <3>2, <3>3, <3>4
  <2> QED  BY <2>1, <2>2
<1>3. IsSeq(t) /\ Len(t) = 3 /\ t[3] = B(l + 6)
  <2> DEFINE u == B(len \div 256)
             v == B(len % 256)
             z == B(l + 6)
  <2> HIDE DEF u, v, z
  <2>1. <<u, v, z>> \in Seq({u, v, z}) /\ Len(<<u, v, z>>) = 3 /\ <<u, v, z>>[3] = z
    OBVIOUS
  <2>2. t = <<u, v, z>>
    BY DEF u, v, z
  <2> HIDE DEF t
  <2> QED  BY <2>1, <2>2 DEF IsSeq, z
<1>4. IsSeq(Prefix) /\ Len(Prefix) = 6
  <2>1. OfLength(Prefix, 6)
    BY DEF Prefix, OfLength
  <2> QED  BY <2>1, SeqFun
<1> HIDE DEF t, ctx, info
<1>5. IsSeq(p) /\ Len(p) = 9 /\ p[3] = t[3]
  <2> HIDE DEF p
  <2>1. /\ IsSeq(p) /\ Len(p) = Len(t) + Len(Prefix)
        /\ \A k \in 1 .. Len(t) + Len(Prefix) :
             p[k] = IF k <= Len(t) THEN t[k] ELSE Prefix[k - Len(t)]
    BY <1>3, <1>4, SeqCat DEF p
  <2> QED  BY <1>3, <1>4, <2>1
<1> HIDE DEF p
<1>6. IsSeq(q) /\ Len(q) = 9 + l /\ q[3] = p[3] /\ \A k \in 1 .. l : q[9 + k] = label[k]
  <2> HIDE DEF q
  <2>1. /\ IsSeq(q) /\ Len(q) = Len(p) + Len(label)
        /\ \A k \in 1 .. Len(p) + Len(label) :
             q[k] = IF k <= Len(p) THEN p[k] ELSE label[k - Len(p)]
    BY <1>5, SeqCat DEF q
  <2>2. ASSUME NEW k \in 1 .. l PROVE q[9 + k] = label[k]
    <3>1. 9 + k \in 1 .. Len(p) + Len(label) /\ ~(9 + k <= Len(p)) /\ (9 + k) - Len(p) = k
      BY <1>0, <1>5
    <3> QED  BY <2>1, <3>1
  <2> QED  BY <1>0, <1>5, <2>1, <2>2
<1> HIDE DEF q
<1>7. IsSeq(info) /\ Len(info) = 9 + l + Len(ctx) /\ info[3] = q[3]
      /\ \A k \in 1 .. l : info[9 + k] = label[k]
  <2>1. /\ IsSeq(info) /\ Len(info) = Len(q) + Len(ctx)
        /\ \A k \in 1 .. Len(q) + Len(ctx) :
             info[k] = IF k <= Len(q) THEN q[k] ELSE ctx[k - Len(q)]
    BY <1>1, <1>2, <1>6, SeqCat
  <2>2. 3 \in 1 .. Len(q) + Len(ctx) /\ 3 <= Len(q)
    BY <1>0, <1>2, <1>6
  <2>3. ASSUME NEW k \in 1 .. l PROVE info[9 + k] = label[k]
    <3>1. 9 + k \in 1 .. Len(q) + Len(ctx) /\ 9 + k <= Len(q)
      BY <1>0, <1>2, <1>6
    <3> QED  BY <1>6, <2>1, <3>1
  <2> QED  BY <1>6, <2>1, <2>2, <2>3
<1>8. Len(info) \in 1 .. InfoSize /\ Len(info) >= 10 + l
  <2> HIDE DEF h
  <2>1. LabelMax + 10 + h <= InfoSize
    BY DEF h
  <2> QED  BY <1>0, <1>2, <1>7, <2>1
<1> QED  BY <1>3, <1>5, <1>6, <1>7, <1>8 DEF info

(* A label that does not fit is refused.                                   *)
LEMMA LabelRefused ==
  ASSUME NEW x, NEW label, ~LabelFits(label), NEW n
  PROVE  quic_crypto_tls_label(x, label, n) = Fail
BY DEF quic_crypto_tls_label
-----------------------------------------------------------------------------
(* Secrets.                                                                *)

(* A secret of the schedule: a string as long as a digest.                 *)
Secret(s) ==
  /\ s = [hash |-> PlainHash, ae |-> PlainAead, secret |-> s.secret]
  /\ IsSeq(s.secret) /\ Len(s.secret) = size_hash[PlainHash]

(* Its hash, and its length by its hash.                                   *)
LEMMA SecretIs ==
  ASSUME NEW s, Secret(s)
  PROVE  s.hash = PlainHash /\ Len(s.secret) = size_hash[s.hash]
<1>1. s.hash = PlainHash
  BY DEF Secret
<1> QED  BY <1>1 DEF Secret

(* Expand under a label that fits returns what is asked for.               *)
LEMMA ExpandLen ==
  ASSUME NEW s, Secret(s), NEW label, IsSeq(label), LabelFits(label), NEW n,
         NEW len \in 0 .. 255 * size_hash[PlainHash]
  PROVE  /\ quic_crypto_tls_label(s.hash, label, n) # Fail
         /\ IsSeq(Expand(s, label, n, len)) /\ Len(Expand(s, label, n, len)) = len
         /\ Expand(s, label, n, len)
              = HkdfOf(PlainHash, s.secret, quic_crypto_tls_label(PlainHash, label, n), len)
<1> DEFINE x == PlainHash
           b == size_block[x]
           h == size_hash[x]
           info == quic_crypto_tls_label(x, label, n)
           prk == s.secret
<1>1. s.hash = x
  BY DEF Secret
<1>2. x \in Alg /\ x \notin Weak /\ LabelMax + 10 + size_hash[x] <= InfoSize
  BY KDFAssumption, LabelAssumption
<1>3. IsSeq(info) /\ Len(info) \in 1 .. InfoSize
  BY <1>2, LabelIs
<1>4. info # Fail
  BY <1>3, SeqEmpty DEF Fail
<1>5. b \in Nat /\ h \in Nat /\ InfoSize \in Nat
  BY <1>2, Sizes, LabelAssumption
<1>6. Counted(x, b + h + InfoSize + 1)
  BY LabelAssumption
<1>7. IsSeq(prk) /\ Len(prk) = h
  BY DEF Secret
<1> HIDE DEF info, prk
<1>8. ExpandFits(x, prk, info)
  <2> DEFINE m == b + h + InfoSize + 1
             k == b + h + Len(info) + 1
  <2>0. Counted(x, m)
    BY <1>6
  <2> HIDE DEF b, h
  <2>1. m \in Nat /\ k \in Nat /\ k <= m /\ h <= m
    BY <1>3, <1>5
  <2> HIDE DEF m, k
  <2>2. Counted(x, k) /\ Counted(x, h)
    BY <1>2, <1>5, <2>0, <2>1, CountedLess
  <2> QED  BY <1>3, <1>7, <2>2 DEF ExpandFits, k, b, h
<1> HIDE DEF x
<1>9. len \in 0 .. 255 * size_hash[x] /\ len \in Nat
  <2>1. size_hash[x] \in Nat
    BY <1>2, Sizes
  <2> QED  BY <2>1 DEF x
<1>10. hkdf_expand(x, prk, info, len) = HkdfOf(x, prk, info, len)
  BY <1>2, <1>8, <1>9, ExpandIs
<1>11. Expand(s, label, n, len) = hkdf_expand(x, prk, info, len)
  <2>1. info = quic_crypto_tls_label(s.hash, label, n)
    BY <1>1 DEF info
  <2> QED  BY <1>1, <1>4, <2>1 DEF Expand, prk
<1>12. IsSeq(HkdfOf(x, prk, info, len)) /\ Len(HkdfOf(x, prk, info, len)) = len
  BY <1>9, HkdfLen
<1> QED  BY <1>1, <1>4, <1>10, <1>11, <1>12 DEF info, prk, x

(* The labels of the provider are strings that fit.                        *)
LEMMA Labels ==
  /\ \A label \in Label \union {label_key, label_iv, label_exporter, label_client, label_server} :
       IsSeq(label)
  /\ LabelFits(label_key) /\ LabelFits(label_iv) /\ LabelFits(label_exporter)
BY LabelAssumption, StringSeq

(* A secret derived from a secret is one, whether or not the label fits.   *)
LEMMA DerivedSecret ==
  ASSUME NEW s, Secret(s), NEW label, IsSeq(label)
  PROVE  Secret(quic_crypto_tls_derive_secret(s, label))
<1> DEFINE h == size_hash[PlainHash]
           t == quic_crypto_tls_derive_secret(s, label)
<1>0. s.hash = PlainHash /\ size_hash[s.hash] = h /\ h \in 0 .. 255 * size_hash[PlainHash]
  <2>1. s.hash = PlainHash
    BY DEF Secret
  <2>2. h \in Nat
    BY KDFAssumption, Sizes
  <2>3. h \in 0 .. 255 * h
    BY <2>2
  <2> QED  BY <2>1, <2>3
<1>1. CASE ~LabelFits(label)
  <2>1. quic_crypto_tls_label(s.hash, label, 0) = Fail
    BY <1>1, LabelRefused
  <2>2. t = s
    BY <2>1 DEF quic_crypto_tls_derive_secret
  <2> QED  BY <2>2
<1>2. CASE LabelFits(label)
  <2> DEFINE tmp == Expand(s, label, 0, h)
             r == [s EXCEPT !.secret = tmp]
             v == Expand(r, label_exporter, 0, h)
  <2>1. /\ quic_crypto_tls_label(s.hash, label, 0) # Fail
        /\ IsSeq(tmp) /\ Len(tmp) = h
    BY <1>0, <1>2, ExpandLen
  <2> HIDE DEF tmp
  <2>2. Secret(r)
    <3>1. r = [hash |-> PlainHash, ae |-> PlainAead, secret |-> tmp]
      BY DEF Secret
    <3> HIDE DEF r
    <3>2. r.secret = tmp
      BY <3>1
    <3> QED  BY <2>1, <3>1, <3>2 DEF Secret
  <2> HIDE DEF r
  <2>3. IsSeq(v) /\ Len(v) = h
    BY <1>0, <2>2, Labels, ExpandLen
  <2>4. t = [s EXCEPT !.secret = v]
    BY <1>0, <2>1 DEF quic_crypto_tls_derive_secret, v, r, tmp
  <2> HIDE DEF v, t
  <2>5. t = [hash |-> PlainHash, ae |-> PlainAead, secret |-> v]
    BY <2>4 DEF Secret
  <2>6. t.secret = v
    BY <2>5
  <2>7. Secret(t)
    BY <2>3, <2>5, <2>6 DEF Secret
  <2> QED  BY <2>7 DEF t
<1> QED  BY <1>1, <1>2

(* The two secrets before a handshake.                                     *)
LEMMA PlaintextSecrets ==
  ASSUME NEW c
  PROVE  /\ Secret(quic_derive_plaintext_secrets(c, Salt).client)
         /\ Secret(quic_derive_plaintext_secrets(c, Salt).server)
<1> DEFINE v == hkdf_extract(PlainHash, Salt, c)
           s == [hash |-> PlainHash, ae |-> PlainAead, secret |-> v]
<1>1. IsSeq(v) /\ Len(v) = size_hash[PlainHash]
  BY KDFAssumption, HmacLen DEF hkdf_extract
<1> HIDE DEF v
<1>2. s.secret = v
  OBVIOUS
<1>3. Secret(s)
  BY <1>1, <1>2 DEF Secret
<1>4. LET r == quic_derive_plaintext_secrets(c, Salt)
      IN /\ r.client = quic_crypto_tls_derive_secret(s, label_client)
         /\ r.server = quic_crypto_tls_derive_secret(s, label_server)
  BY DEF quic_derive_plaintext_secrets, v
<1> HIDE DEF s
<1> QED  BY <1>3, <1>4, Labels, DerivedSecret

(* A key's IV.                                                             *)
LEMMA DerivedIv ==
  ASSUME NEW s, Secret(s)
  PROVE  Len(quic_crypto_derive_key(s).static_iv) = IvLen
<1>1. quic_crypto_derive_key(s).static_iv = Expand(s, label_iv, IvLen, IvLen)
  BY DEF quic_crypto_derive_key
<1>2. IvLen \in 0 .. 255 * size_hash[PlainHash]
  BY LabelAssumption
<1> QED  BY <1>1, <1>2, Labels, ExpandLen
-----------------------------------------------------------------------------
(* The state of a hash.                                                    *)

(* Whole blocks only; a state within its ranges.                           *)
Filled(x, w) == IsSeq(w) /\ \A i \in 1 .. Len(w) : Len(w[i]) = size_block[x]
StateOK(s) ==
  /\ s = State(s.alg, s.hash_w, s.counter) /\ s.alg \in Alg
  /\ s.counter \in 0 .. CounterWord[s.alg] - 1 /\ Filled(s.alg, s.hash_w)

(* Blocks of a string that has as many.                                    *)
LEMMA FilledMore ==
  ASSUME NEW x \in Alg, NEW w, Filled(x, w), NEW d, IsSeq(d), NEW n \in Nat,
         n * size_block[x] <= Len(d)
  PROVE  Filled(x, w \o BlocksOf(x, d, n))
<1> DEFINE b == size_block[x]
           g == BlocksOf(x, d, n)
           v == w \o g
<1>0. b \in Nat \ {0} /\ IsSeq(w) /\ Len(w) \in Nat /\ Len(d) \in Nat
  BY Sizes, SeqLen DEF Filled
<1>1. IsSeq(g) /\ Len(g) = n /\ \A j \in 1 .. n : g[j] = BlockAt(x, d, j)
  BY BlocksSeq
<1>2. ASSUME NEW j \in 1 .. n PROVE Len(g[j]) = b
  <2>1. j \in Nat \ {0} /\ j * b <= Len(d)
    <3>1. j * b <= n * b /\ j * b \in Int /\ n * b \in Int
      BY <1>0
    <3> DEFINE y == j * b
               z == n * b
    <3>2. y <= z /\ y \in Int /\ z \in Int /\ z <= Len(d)
      BY <3>1
    <3> HIDE DEF y, z
    <3>3. y <= Len(d)
      BY <1>0, <3>2
    <3> QED  BY <3>3 DEF y
  <2>2. Len(BlockAt(x, d, j)) = b
    BY <2>1, BlockIs
  <2> QED  BY <1>1, <2>2
<1> HIDE DEF g
<1>3. IsSeq(v) /\ Len(v) = Len(w) + n
      /\ \A k \in 1 .. Len(w) + n : v[k] = IF k <= Len(w) THEN w[k] ELSE g[k - Len(w)]
  BY <1>0, <1>1, SeqCat
<1> HIDE DEF v
<1>4. ASSUME NEW k \in 1 .. Len(v) PROVE Len(v[k]) = b
  <2>1. CASE k <= Len(w)
    <3>1. k \in 1 .. Len(w) /\ v[k] = w[k]
      BY <1>0, <1>3, <2>1
    <3> QED  BY <3>1 DEF Filled
  <2>2. CASE ~(k <= Len(w))
    <3>1. k - Len(w) \in 1 .. n /\ v[k] = g[k - Len(w)]
      BY <1>0, <1>3, <2>2
    <3> QED  BY <1>2, <3>1
  <2> QED  BY <2>1, <2>2
<1> QED  BY <1>3, <1>4 DEF Filled, v, g

(* update_multi on a string that has as many blocks.                       *)
LEMMA MultiOK ==
  ASSUME NEW s, StateOK(s), NEW d, IsSeq(d), NEW n \in Nat, n * size_block[s.alg] <= Len(d)
  PROVE  StateOK(update_multi(s, d, n)) /\ update_multi(s, d, n).alg = s.alg
<1> DEFINE x == s.alg
           w == s.hash_w
           c == s.counter
           m == CounterWord[x]
           v == w \o BlocksOf(x, d, n)
           u == (c + n) % m
           t == update_multi(s, d, n)
<1>1. /\ s = State(x, w, c) /\ x \in Alg /\ c \in 0 .. m - 1 /\ Filled(x, w) /\ IsSeq(w)
      /\ n * size_block[x] <= Len(d)
  BY DEF StateOK, Filled
<1> HIDE DEF x, w, c
<1>2. m \in Nat \ {0} /\ c \in Nat /\ c < m
  BY <1>1, Sizes
<1>3. c % m = c
  <2> HIDE DEF m
  <2> QED  BY <1>2, ModSmall
<1>4. t = State(x, v, u)
  BY <1>1, <1>2, <1>3, MultiIs
<1>5. Filled(x, v)
  BY <1>1, FilledMore
<1>6. u \in 0 .. m - 1
  <2> HIDE DEF m
  <2>1. c + n \in Nat
    BY <1>2
  <2> QED  BY <1>2, <2>1, ModNext
<1> HIDE DEF v, u, t
<1>7. t.alg = x /\ t.hash_w = v /\ t.counter = u
  BY <1>4, FieldsOf
<1>8. StateOK(t) /\ t.alg = x
  BY <1>1, <1>4, <1>5, <1>6, <1>7 DEF StateOK
<1> QED  BY <1>8 DEF t, x

(* init.                                                                   *)
LEMMA InitOK ==
  ASSUME NEW x \in Alg
  PROVE  StateOK(init(x)) /\ init(x).alg = x
<1>1. init(x) = State(x, <<>>, 0)
  BY DEF init, State
<1>2. CounterWord[x] \in Nat \ {0}
  BY Sizes
<1>3. 0 \in 0 .. CounterWord[x] - 1 /\ Filled(x, <<>>)
  BY <1>2, SeqEmpty DEF Filled
<1> QED  BY <1>1, <1>3, FieldsOf DEF StateOK

(* update on a block.                                                      *)
LEMMA UpdateOK ==
  ASSUME NEW s, StateOK(s), NEW d, IsSeq(d), Len(d) = size_block[s.alg]
  PROVE  StateOK(update(s, d)) /\ update(s, d).alg = s.alg
<1> DEFINE x == s.alg
           w == s.hash_w
           c == s.counter
           m == CounterWord[x]
           v == Append(w, d)
           u == (c + 1) % m
           t == update(s, d)
<1>1. s = State(x, w, c) /\ x \in Alg /\ c \in 0 .. m - 1 /\ IsSeq(w)
      /\ (\A i \in 1 .. Len(w) : Len(w[i]) = size_block[x]) /\ Len(d) = size_block[x]
  BY DEF StateOK, Filled
<1> HIDE DEF x, w, c
<1>2. m \in Nat \ {0} /\ c \in Nat /\ Len(w) \in Nat
  BY <1>1, Sizes, SeqLen
<1>3. t = State(x, v, u)
  BY <1>1, UpdateIs
<1>4. /\ IsSeq(v) /\ Len(v) = Len(w) + 1
      /\ (\A i \in 1 .. Len(w) : v[i] = w[i]) /\ v[Len(w) + 1] = d
  BY <1>1, SeqAppend
<1> HIDE DEF v
<1>5. Filled(x, v)
  <2>1. ASSUME NEW i \in 1 .. Len(v) PROVE Len(v[i]) = size_block[x]
    <3>1. i \in 1 .. Len(w) \/ i = Len(w) + 1
      BY <1>2, <1>4
    <3> QED  BY <1>1, <1>4, <3>1
  <2> QED  BY <1>4, <2>1 DEF Filled
<1>6. u \in 0 .. m - 1
  <2> HIDE DEF m
  <2>1. c + 1 \in Nat
    BY <1>2
  <2> QED  BY <1>2, <2>1, ModNext
<1> HIDE DEF u, t
<1>7. t.alg = x /\ t.hash_w = v /\ t.counter = u
  BY <1>3, FieldsOf
<1>8. StateOK(t) /\ t.alg = x
  BY <1>1, <1>3, <1>5, <1>6, <1>7 DEF StateOK
<1> QED  BY <1>8 DEF t, x

(* update_last on whatever is left.                                        *)
LEMMA LastOK ==
  ASSUME NEW s, StateOK(s), NEW d
  PROVE  StateOK(update_last(s, d)) /\ update_last(s, d).alg = s.alg
<1> DEFINE x == s.alg
           n == nb(x, Len(d))
           f == final_blocks(s, d)
           l == n * size_block[x]
<1>1. n \in Nat /\ size_block[x] \in Nat
  BY Sizes DEF nb, StateOK
<1>2. OfLength(f, l)
  BY DEF final_blocks, OfLength
<1>3. update_last(s, d) = update_multi(s, f, n)
  BY DEF update_last
<1> HIDE DEF f, n
<1>4. IsSeq(f) /\ Len(f) = l /\ l \in Nat
  <2>1. l \in Nat
    BY <1>1
  <2> HIDE DEF l
  <2> QED  BY <1>2, <2>1, SeqFun
<1>5. n * size_block[s.alg] <= Len(f)
  BY <1>4
<1>6. StateOK(update_multi(s, f, n)) /\ update_multi(s, f, n).alg = s.alg
  BY <1>1, <1>4, <1>5, MultiOK
<1> QED  BY <1>3, <1>6
-----------------------------------------------------------------------------
(* Both clients.                                                           *)

(* The inductive invariant.                                                *)
SizesInv ==
  /\ StateOK(st) /\ phase \in {"raw", "open", "last", "read"}
  /\ phase = "read" => Len(digest) = size_hash[st.alg]
  /\ \A x \in secrets : Secret(x.is)
  /\ \A x \in keys : Len(x.is.static_iv) = IvLen

(* A state not initialised yet.                                            *)
LEMMA SizesInit == Init => SizesInv
<1> SUFFICES ASSUME Init PROVE SizesInv
  OBVIOUS
<1>1. PICK a \in Alg : st = [alg |-> a, hash_w |-> <<>>, counter |-> 1]
  BY DEF Init
<1>2. st = State(a, <<>>, 1)
  BY <1>1 DEF State
<1>3. CounterWord[a] \in Nat \ {0, 1}
  BY SHA2Assumption
<1>4. 1 \in 0 .. CounterWord[a] - 1 /\ Filled(a, <<>>)
  BY <1>3, SeqEmpty DEF Filled
<1>5. StateOK(st)
  BY <1>2, <1>4, FieldsOf DEF StateOK
<1> QED  BY <1>5 DEF SizesInv, Init

(* Every step of the client that feeds a state.                            *)
LEMMA SizesStream ==
  ASSUME SizesInv, Stream
  PROVE  SizesInv'
<1>0. StateOK(st) /\ st.alg \in Alg
  BY DEF SizesInv, StateOK
<1>s. ASSUME UNCHANGED scheduling, StateOK(st'), phase' \in {"open", "last"}
      PROVE  SizesInv'
  BY <1>s DEF SizesInv, scheduling
<1>1. ASSUME NEW a \in Alg, CallInit(a) PROVE SizesInv'
  BY <1>1, <1>s, InitOK DEF CallInit
<1>2. ASSUME NEW b \in Blocks(st.alg), CallUpdate(b) PROVE SizesInv'
  <2>1. IsSeq(b) /\ Len(b) = size_block[st.alg]
    <3>1. size_block[st.alg] \in Nat /\ OfLength(b, size_block[st.alg])
      BY <1>0, Sizes, PiecesAssumption
    <3> QED  BY <3>1, SeqFun
  <2>2. st' = update(st, b) /\ phase' = "open" /\ UNCHANGED scheduling
    BY <1>2 DEF CallUpdate
  <2>3. StateOK(st')
    BY <1>0, <2>1, <2>2, UpdateOK
  <2> QED  BY <1>s, <2>2, <2>3
<1>3. ASSUME NEW b \in Blocks(st.alg), NEW d \in Blocks(st.alg), CallUpdateMulti(b \o d)
      PROVE  SizesInv'
  <2> DEFINE e == b \o d
             z == size_block[st.alg]
             n == Len(e) \div z
  <2>0. z \in Nat \ {0}
    BY <1>0, Sizes
  <2>1. IsSeq(b) /\ IsSeq(d)
    <3>1. OfLength(b, size_block[st.alg]) /\ OfLength(d, size_block[st.alg])
      BY <1>0, PiecesAssumption
    <3> QED  BY <2>0, <3>1, SeqFun
  <2>2. IsSeq(e) /\ Len(e) \in Nat
    <3>1. IsSeq(e)
      BY <2>1, SeqCat
    <3> HIDE DEF e
    <3> QED  BY <3>1, SeqLen
  <2>3. st' = update_multi(st, e, n) /\ phase' = "open" /\ UNCHANGED scheduling
    BY <1>3 DEF CallUpdateMulti
  <2> HIDE DEF e
  <2>4. n \in Nat /\ n * size_block[st.alg] <= Len(e)
    BY <2>0, <2>2
  <2> HIDE DEF n
  <2>5. StateOK(st')
    BY <1>0, <2>2, <2>3, <2>4, MultiOK
  <2> QED  BY <1>s, <2>3, <2>5
<1>4. ASSUME NEW d \in Lasts(st.alg), CallUpdateLast(d) PROVE SizesInv'
  <2>1. st' = update_last(st, d) /\ phase' = "last" /\ UNCHANGED scheduling
    BY <1>4 DEF CallUpdateLast
  <2>2. StateOK(st')
    BY <1>0, <2>1, LastOK
  <2> QED  BY <1>s, <2>1, <2>2
<1>5. ASSUME CallFinish PROVE SizesInv'
  <2>1. st' = st /\ digest' = finish(st) /\ phase' = "read" /\ UNCHANGED scheduling
    BY <1>5 DEF CallFinish
  <2>2. Len(digest') = size_hash[st'.alg]
    BY <1>0, <2>1, FinishLen
  <2> QED  BY <2>1, <2>2 DEF SizesInv, scheduling
<1> QED  BY <1>1, <1>2, <1>3, <1>4, <1>5 DEF Stream

(* Every derivation.                                                       *)
LEMMA SizesSchedule ==
  ASSUME SizesInv, Schedule
  PROVE  SizesInv'
<1>1. ASSUME NEW c \in ConIds, CallPlaintextSecrets(c) PROVE SizesInv'
  <2> DEFINE u == quic_derive_plaintext_secrets(c, Salt).client
             v == quic_derive_plaintext_secrets(c, Salt).server
  <2>1. secrets' = secrets \union {[path |-> <<c, "client">>, is |-> u],
                                   [path |-> <<c, "server">>, is |-> v]}
        /\ UNCHANGED <<streaming, keys>>
    BY <1>1 DEF CallPlaintextSecrets
  <2>2. Secret(u) /\ Secret(v)
    BY PlaintextSecrets
  <2> HIDE DEF u, v
  <2>3. \A x \in secrets' : Secret(x.is)
    BY <2>1, <2>2 DEF SizesInv
  <2> QED  BY <2>1, <2>3 DEF SizesInv, streaming
<1>2. ASSUME NEW x \in secrets, NEW label \in Label, CallDeriveSecret(x, label) PROVE SizesInv'
  <2> DEFINE s == quic_crypto_tls_derive_secret(x.is, label)
  <2>1. PICK p : secrets' = secrets \union {[path |-> p, is |-> s]}
    BY <1>2 DEF CallDeriveSecret
  <2>2. UNCHANGED <<streaming, keys>>
    BY <1>2 DEF CallDeriveSecret
  <2>3. Secret(s)
    BY Labels, DerivedSecret DEF SizesInv
  <2> HIDE DEF s
  <2>4. \A y \in secrets' : Secret(y.is)
    BY <2>1, <2>3 DEF SizesInv
  <2> QED  BY <2>2, <2>4 DEF SizesInv, streaming
<1>3. ASSUME NEW x \in secrets, CallDeriveKey(x) PROVE SizesInv'
  <2> DEFINE k == quic_crypto_derive_key(x.is)
  <2>1. keys' = keys \union {[path |-> x.path, is |-> k]} /\ UNCHANGED <<streaming, secrets>>
    BY <1>3 DEF CallDeriveKey
  <2>2. Len(k.static_iv) = IvLen
    BY DerivedIv DEF SizesInv
  <2> HIDE DEF k
  <2>3. \A y \in keys' : Len(y.is.static_iv) = IvLen
    BY <2>1, <2>2 DEF SizesInv
  <2> QED  BY <2>1, <2>3 DEF SizesInv, streaming
<1> QED  BY <1>1, <1>2, <1>3 DEF Schedule

(* One-shot calls change none of it.                                       *)
LEMMA SizesNext == SizesInv /\ [Next]_vars => SizesInv'
<1> SUFFICES ASSUME SizesInv, [Next]_vars PROVE SizesInv'
  OBVIOUS
<1>1. CASE Stream
  BY <1>1, SizesStream
<1>2. CASE Schedule
  BY <1>2, SizesSchedule
<1>3. CASE UNCHANGED <<streaming, secrets, keys>>
  BY <1>3 DEF SizesInv, streaming
<1>4. Stream \/ Schedule \/ UNCHANGED <<streaming, secrets, keys>>
  BY DEF Next, vars, streaming, CallOnce, CallPrefixed
<1> QED  BY <1>1, <1>2, <1>3, <1>4

(* Labels of secrets fit the buffer.                                       *)
LEMMA SizesInfo == SizesInv => InfoFits
<1> SUFFICES ASSUME SizesInv, NEW x \in secrets, NEW label \in Label, NEW n \in {0, IvLen}
             PROVE  LET info == quic_crypto_tls_label(x.is.hash, label, n)
                    IN Len(info) <= InfoSize /\ (info # Fail => info[3][2] < 256)
  BY DEF InfoFits
<1> DEFINE a == x.is.hash
           info == quic_crypto_tls_label(a, label, n)
           l == Len(label)
<1>1. a = PlainHash
  BY SecretIs DEF SizesInv
<1>2. /\ a \in Alg /\ a \notin Weak /\ LabelMax + 10 + size_hash[a] <= InfoSize /\ InfoSize \in Nat
      /\ LabelMax \in Nat /\ LabelMax + 6 < 256
  BY <1>1, KDFAssumption, LabelAssumption
<1>3. IsSeq(label) /\ l \in Nat
  BY Labels, SeqLen
<1> HIDE DEF a
<1>4. CASE LabelFits(label)
  <2>1. Len(info) \in 1 .. InfoSize /\ info[3] = B(l + 6)
    BY <1>2, <1>3, <1>4, LabelIs
  <2>2. B(l + 6)[2] = l + 6
    BY DEF B
  <2>3. l <= LabelMax
    BY <1>4 DEF LabelFits
  <2> HIDE DEF info, l
  <2>4. Len(info) <= InfoSize /\ info[3][2] < 256
    BY <1>2, <1>3, <2>1, <2>2, <2>3
  <2> QED  BY <2>4 DEF info, a
<1>5. CASE ~LabelFits(label)
  <2>1. info = Fail
    BY <1>5, LabelRefused
  <2>2. Len(info) <= InfoSize
    BY <1>2, <2>1, SeqEmpty DEF Fail
  <2> QED  BY <2>1, <2>2 DEF a
<1> QED  BY <1>4, <1>5

(* Sizes and ranges: whatever is fed, derived and in which order, only     *)
(* whole blocks are compressed, digests, secrets and IVs have their        *)
(* lengths, and quic_crypto_tls_label stays within its buffer.             *)
THEOREM SizesHold == Spec => []TypeOK
<1>1. SizesInv => TypeOK
  <2> SUFFICES ASSUME SizesInv PROVE TypeOK
    OBVIOUS
  <2>1. /\ st.alg \in Alg /\ st.counter \in 0 .. CounterWord[st.alg] - 1
        /\ IsSeq(st.hash_w) /\ \A i \in 1 .. Len(st.hash_w) : Len(st.hash_w[i]) = size_block[st.alg]
    BY DEF SizesInv, StateOK, Filled
  <2>2. DOMAIN st.hash_w = 1 .. Len(st.hash_w)
    BY <2>1, SeqLen DEF OfLength
  <2>3. \A x \in secrets : Len(x.is.secret) = size_hash[x.is.hash]
    BY SecretIs DEF SizesInv
  <2>4. InfoFits
    BY SizesInfo
  <2> QED  BY <2>1, <2>2, <2>3, <2>4 DEF SizesInv, TypeOK
<1> QED  BY <1>1, SizesInit, SizesNext, PTL DEF Spec

-----------------------------------------------------------------------------
(* Bytes, messages and digests that differ.                                *)

(* A number can be read off its byte.                                      *)
LEMMA ByteEq ==
  ASSUME NEW i, NEW j, B(i) = B(j)
  PROVE  i = j
BY DEF B

(* Triples are equal by their parts.                                       *)
LEMMA TripleEq ==
  ASSUME NEW u, NEW v, NEW w, NEW r, NEW s, NEW t, <<u, v, w>> = <<r, s, t>>
  PROVE  u = r /\ v = s /\ w = t
OBVIOUS

(* A message can be read off its padded form: what follows the last bit,   *)
(* up to the length, is zeros.                                             *)
LEMMA PaddedShorter ==
  ASSUME NEW p, NEW x \in Alg, NEW m, IsSeq(m), NEW h \in Nat, PaddedBy(p, x, m, h),
         NEW n, IsSeq(n), NEW j \in Nat, PaddedBy(p, x, n, j)
  PROVE  ~(Len(m) < Len(n))
<1> SUFFICES ASSUME Len(m) < Len(n) PROVE FALSE
  OBVIOUS
<1> DEFINE u == Len(m)
           v == Len(n)
           e == size_len_8[x]
           k == v - u
<1>1. u \in Nat /\ v \in Nat /\ e \in Nat
  BY SeqLen, Sizes
<1>2. /\ Len(p) = u + 1 + h + e /\ Len(p) = v + 1 + j + e
      /\ p[v + 1] = B(128)
      /\ \A i \in 1 .. h : p[u + 1 + i] = B(0)
  BY DEF PaddedBy
<1>3. u < v
  OBVIOUS
<1> HIDE DEF u, v, e
<1>4. k \in 1 .. h /\ u + 1 + k = v + 1
  BY <1>1, <1>2, <1>3
<1>5. p[v + 1] = B(0)
  BY <1>2, <1>4
<1>6. 128 = 0
  BY <1>2, <1>5, ByteEq
<1> QED  BY <1>6

(* Two messages with one padded form are one.                              *)
LEMMA PaddedOnce ==
  ASSUME NEW p, NEW x \in Alg, NEW m, IsSeq(m), NEW h \in Nat, PaddedBy(p, x, m, h),
         NEW n, IsSeq(n), NEW j \in Nat, PaddedBy(p, x, n, j)
  PROVE  m = n
<1>1. ~(Len(m) < Len(n)) /\ ~(Len(n) < Len(m))
  BY PaddedShorter
<1>2. Len(m) \in Nat /\ Len(n) \in Nat
  BY SeqLen
<1>3. Len(m) = Len(n)
  BY <1>1, <1>2
<1>4. \A k \in 1 .. Len(m) : p[k] = m[k]
  BY DEF PaddedBy
<1>5. \A k \in 1 .. Len(n) : p[k] = n[k]
  BY DEF PaddedBy
<1>6. \A k \in 1 .. Len(m) : m[k] = n[k]
  BY <1>3, <1>4, <1>5
<1> QED  BY <1>3, <1>6, SeqEq

(* The padded message fills whole blocks.                                  *)
LEMMA PaddedWhole ==
  ASSUME NEW x \in Alg, NEW m, IsSeq(m)
  PROVE  \E h \in Nat, n \in Nat : /\ PaddedBy(Padded(x, m), x, m, h)
                                   /\ Len(Padded(x, m)) = n * size_block[x]
<1> DEFINE b == size_block[x]
           c == Len(m) \div b
           len == Len(m) % b
           h == pad0len(x, len)
           n == nb(x, len)
           e == size_len_8[x]
           p == Padded(x, m)
<1>1. b \in Nat \ {0} /\ e \in Nat /\ e + 1 < b /\ Len(m) \in Nat
  BY Sizes, SeqLen
<1>2. c \in Nat /\ len \in Nat /\ len < b /\ Len(m) = c * b + len
  <2> DEFINE l == Len(m)
  <2>1. l \in Nat
    BY <1>1
  <2> HIDE DEF b, l
  <2>2. l \div b \in Nat /\ l % b \in 0 .. b - 1 /\ l = (l \div b) * b + (l % b)
    BY <1>1, <2>1
  <2> QED  BY <1>1, <2>2 DEF l
<1> HIDE DEF c, len
<1>3. LastFits(x, len)
  <2>1. len + e + 1 < 2 * b
    <3> HIDE DEF b, e
    <3> QED  BY <1>1, <1>2
  <2> QED  BY <2>1 DEF LastFits
<1>4. PaddedBy(p, x, m, h)
  BY <1>2, <1>3, PaddedIs
<1>5. h \in 0 .. b - 1 /\ n \in {1, 2} /\ len + 1 + h + e = n * b
  BY <1>2, <1>3, PadFacts
<1>6. Len(p) = Len(m) + 1 + h + e
  BY <1>4 DEF PaddedBy
<1> HIDE DEF p, h, n, e, b
<1>7. (c + n) * b = c * b + n * b /\ c * b \in Nat /\ n * b \in Nat
  BY <1>1, <1>2, <1>5
<1>8. Len(p) = (c + n) * b /\ c + n \in Nat /\ h \in Nat
  BY <1>1, <1>2, <1>5, <1>6, <1>7
<1> QED  BY <1>4, <1>8 DEF p, b

(* The bytes of a message are the bytes of its blocks.                     *)
LEMMA BlocksDetermine ==
  ASSUME NEW x \in Alg, NEW p, IsSeq(p), NEW q, IsSeq(q), NEW n \in Nat,
         Len(p) = n * size_block[x], Len(q) = n * size_block[x],
         \A j \in 1 .. n : BlockAt(x, p, j) = BlockAt(x, q, j)
  PROVE  p = q
<1> DEFINE b == size_block[x]
<1>1. b \in Nat \ {0}
  BY Sizes
<1>2. ASSUME NEW k \in 1 .. n * b PROVE p[k] = q[k]
  <2> DEFINE c == (k - 1) \div b
             o == (k - 1) % b
             j == c + 1
             i == o + 1
  <2>1. c \in Nat /\ o \in 0 .. b - 1 /\ k - 1 = c * b + o
    <3> DEFINE l == k - 1
               nb0 == n * b
    <3>0. nb0 \in Nat
      BY <1>1
    <3> HIDE DEF b, nb0
    <3>1. l \in Nat
      BY <3>0 DEF nb0
    <3> HIDE DEF l
    <3>2. l \div b \in Nat /\ l % b \in 0 .. b - 1 /\ l = (l \div b) * b + (l % b)
      BY <1>1, <3>1
    <3> QED  BY <3>2 DEF l
  <2>2. k = c * b + i /\ i \in 1 .. b
    <3> HIDE DEF b, c, o
    <3>1. c * b \in Nat
      BY <1>1, <2>1
    <3> QED  BY <1>1, <2>1, <3>1
  <2> HIDE DEF c, o, b
  <2>3. c < n
    <3> SUFFICES ASSUME c >= n PROVE FALSE
      BY <2>1
    <3>1. c * b >= n * b
      BY <1>1, <2>1
    <3>2. c * b \in Nat /\ n * b \in Nat
      BY <1>1, <2>1
    <3> QED  BY <1>1, <2>2, <3>1, <3>2
  <2>4. j \in 1 .. n /\ j \in Nat \ {0} /\ j - 1 = c
    BY <2>1, <2>3
  <2> HIDE DEF i, j
  <2>5. j * b <= Len(p) /\ j * b <= Len(q)
    <3>1. j * b <= n * b
      BY <1>1, <2>4
    <3> QED  BY <3>1 DEF b
  <2>6. BlockAt(x, p, j)[i] = p[(j - 1) * b + i] /\ BlockAt(x, q, j)[i] = q[(j - 1) * b + i]
    BY <2>2, <2>4, <2>5, BlockIs DEF b
  <2> QED  BY <2>2, <2>4, <2>6
<1> HIDE DEF b
<1>3. Len(p) = n * b /\ Len(q) = n * b
  BY DEF b
<1> QED  BY <1>2, <1>3, SeqEq
(* Digests of different messages have no byte in common.                   *)
LEMMA HashOnce ==
  ASSUME NEW x \in Alg, NEW m, IsSeq(m), NEW n, IsSeq(n),
         NEW i \in 1 .. size_hash[x], NEW j \in 1 .. size_hash[x], HashOf(x, m)[i] = HashOf(x, n)[j]
  PROVE  m = n
<1> DEFINE b == size_block[x]
           p == Padded(x, m)
           q == Padded(x, n)
           P == [l \in 1 .. Len(p) \div b |-> BlockAt(x, p, l)]
           Q == [l \in 1 .. Len(q) \div b |-> BlockAt(x, q, l)]
<1>1. PICK h1 \in Nat, c \in Nat : PaddedBy(p, x, m, h1) /\ Len(p) = c * b
  BY PaddedWhole
<1>2. PICK h2 \in Nat, d \in Nat : PaddedBy(q, x, n, h2) /\ Len(q) = d * b
  BY PaddedWhole
<1>3. b \in Nat \ {0}
  BY Sizes
<1>4. Len(p) \div b = c /\ Len(q) \div b = d
  <2> DEFINE z == 0
  <2>1. z \in Nat /\ z < b
    BY <1>3
  <2>2. Len(p) = c * b + z /\ Len(q) = d * b + z
    <3>1. c * b \in Nat /\ d * b \in Nat
      BY <1>3
    <3> HIDE DEF p, q
    <3> QED  BY <1>1, <1>2, <3>1
  <2>3. Len(p) \in Int /\ Len(q) \in Int
    BY <1>1, <1>2, SeqLen DEF PaddedBy
  <2> DEFINE s == Len(p)
             t == Len(q)
  <2>a. s \in Int /\ c \in Int /\ s = c * b + z /\ t \in Int /\ d \in Int /\ t = d * b + z
    BY <2>2, <2>3
  <2> HIDE DEF z, s, t, b
  <2>4. s \div b = c
    BY <1>3, <2>1, <2>a, DivMod
  <2>5. t \div b = d
    BY <1>3, <2>1, <2>a, DivMod
  <2> QED  BY <2>4, <2>5 DEF s, t
<1>5. P = Q
  <2>1. HashOf(x, m)[i] = <<x, P, i>> /\ HashOf(x, n)[j] = <<x, Q, j>>
    BY DEF HashOf
  <2> HIDE DEF P, Q
  <2>2. <<x, P, i>> = <<x, Q, j>>
    BY <2>1
  <2> QED  BY <2>2, TripleEq
<1> HIDE DEF p, q, b
<1>6. P = [l \in 1 .. c |-> BlockAt(x, p, l)] /\ Q = [l \in 1 .. d |-> BlockAt(x, q, l)]
  BY <1>4
<1> HIDE DEF P, Q
<1>7. c = d
  <2>1. DOMAIN P = 1 .. c /\ DOMAIN Q = 1 .. d
    BY <1>6
  <2>2. 1 .. c = 1 .. d
    BY <1>5, <2>1
  <2> QED  BY <2>2
<1>8. \A l \in 1 .. c : BlockAt(x, p, l) = BlockAt(x, q, l)
  <2>1. \A l \in 1 .. c : P[l] = BlockAt(x, p, l) /\ Q[l] = BlockAt(x, q, l)
    BY <1>6, <1>7
  <2> QED  BY <1>5, <2>1
<1>9. p = q
  <2>1. IsSeq(p) /\ IsSeq(q)
    BY <1>1, <1>2 DEF PaddedBy
  <2> QED  BY <1>1, <1>2, <1>7, <1>8, <2>1, BlocksDetermine DEF b
<1> QED  BY <1>1, <1>2, <1>9, PaddedOnce

(* MACs of different data, or under different keys of one length, have no  *)
(* byte in common.                                                         *)
LEMMA HmacOnce ==
  ASSUME NEW x \in Alg, NEW key, IsSeq(key), NEW d, IsSeq(d),
         NEW key2, IsSeq(key2), NEW d2, IsSeq(d2),
         NEW i \in 1 .. size_hash[x], NEW j \in 1 .. size_hash[x],
         HmacOf(x, key, d)[i] = HmacOf(x, key2, d2)[j]
  PROVE  /\ d = d2
         /\ Len(key) <= size_block[x] /\ Len(key2) = Len(key) => key = key2
<1> DEFINE k == KeyOf(x, key)
           l == KeyOf(x, key2)
           ko == Under(x, k, "opad")
           ki == Under(x, k, "ipad")
           lo == Under(x, l, "opad")
           li == Under(x, l, "ipad")
           u == HashOf(x, ki \o d)
           v == HashOf(x, li \o d2)
<1>1. HmacOf(x, key, d) = HashOf(x, ko \o u) /\ HmacOf(x, key2, d2) = HashOf(x, lo \o v)
  BY HmacOfIs
<1>2. /\ IsSeq(ko) /\ Len(ko) = size_block[x] /\ IsSeq(ki) /\ Len(ki) = size_block[x]
      /\ IsSeq(lo) /\ Len(lo) = size_block[x] /\ IsSeq(li) /\ Len(li) = size_block[x]
  BY UnderIs
<1>3. IsSeq(u) /\ IsSeq(v)
  BY HashLen
<1>4. IsSeq(ki \o d) /\ IsSeq(li \o d2)
  <2> HIDE DEF ki, li
  <2> QED  BY <1>2, SeqCat
<1>5. ko = lo /\ u = v
  <2> HIDE DEF ko, lo, u, v
  <2>1. IsSeq(ko \o u) /\ IsSeq(lo \o v)
    BY <1>2, <1>3, SeqCat
  <2>2. ko \o u = lo \o v
    BY <1>1, <2>1, HashOnce
  <2> QED  BY <1>2, <1>3, <2>2, CatOnce
<1>6. d = d2
  <2> DEFINE r == ki \o d
             s == li \o d2
             one == 1
  <2>1. HashOf(x, r) = HashOf(x, s) /\ IsSeq(r) /\ IsSeq(s)
    BY <1>4, <1>5
  <2>z. one \in 1 .. size_hash[x]
    BY Sizes
  <2> HIDE DEF r, s, one
  <2>y. r = s
    BY <2>1, <2>z, HashOnce
  <2> HIDE DEF ki, li
  <2>2. ki \o d = li \o d2
    BY <2>y DEF r, s
  <2> QED  BY <1>2, <2>2, CatOnce
<1>7. ASSUME Len(key) <= size_block[x], Len(key2) = Len(key) PROVE key = key2
  <2> DEFINE n == Len(key)
             b == size_block[x]
  <2>0. n \in Nat /\ b \in Nat /\ n <= b /\ Len(key2) = n
    BY <1>7, SeqLen, Sizes
  <2>1. k = key /\ l = key2
    BY <1>7, <2>0 DEF KeyOf
  <2>2. ASSUME NEW h \in 1 .. n PROVE key[h] = key2[h]
    <3>1. ko[h] = <<"opad", key[h]>> /\ lo[h] = <<"opad", key2[h]>>
      <4> HIDE DEF k, l
      <4>0. h \in 1 .. b /\ h <= Len(k) /\ h <= Len(l)
        <5> HIDE DEF n, b
        <5> QED  BY <2>0, <2>1 DEF n
      <4>1. ko[h] = <<"opad", k[h]>> /\ lo[h] = <<"opad", l[h]>>
        BY <4>0 DEF Under
      <4> QED  BY <2>1, <4>1
    <3> HIDE DEF ko, lo
    <3> QED  BY <1>5, <3>1
  <2> QED  BY <1>7, <2>2, SeqEq
<1> QED  BY <1>6, <1>7
-----------------------------------------------------------------------------
(* Labels and HKDF.                                                        *)

(* A label can be read off what is put together of it.                     *)
LEMMA LabelOnce ==
  ASSUME NEW x \in Alg, x \notin Weak, LabelMax + 10 + size_hash[x] <= InfoSize,
         NEW l1, IsSeq(l1), LabelFits(l1), NEW n1, NEW l2, IsSeq(l2), LabelFits(l2), NEW n2,
         quic_crypto_tls_label(x, l1, n1) = quic_crypto_tls_label(x, l2, n2)
  PROVE  l1 = l2
<1> DEFINE u == quic_crypto_tls_label(x, l1, n1)
           v == quic_crypto_tls_label(x, l2, n2)
<1>1. u[3] = B(Len(l1) + 6) /\ \A k \in 1 .. Len(l1) : u[9 + k] = l1[k]
  BY LabelIs
<1>2. v[3] = B(Len(l2) + 6) /\ \A k \in 1 .. Len(l2) : v[9 + k] = l2[k]
  BY LabelIs
<1>3. u = v
  OBVIOUS
<1>4. Len(l1) \in Nat /\ Len(l2) \in Nat
  BY SeqLen
<1> HIDE DEF u, v
<1>5. Len(l1) + 6 = Len(l2) + 6
  BY <1>1, <1>2, <1>3, ByteEq
<1>6. Len(l1) = Len(l2)
  BY <1>4, <1>5
<1>7. \A k \in 1 .. Len(l1) : l1[k] = l2[k]
  BY <1>1, <1>2, <1>3, <1>6
<1> QED  BY <1>6, <1>7, SeqEq

(* The last element of a string, and the rest.                             *)
EndsIn(s, p, u) == IsSeq(p) /\ s = p \o <<u>>

(* From the string back to both.                                           *)
LEMMA EndOnce ==
  ASSUME NEW r, NEW p, NEW q, NEW u, NEW v, EndsIn(r, p, u), EndsIn(r, q, v)
  PROVE  p = q /\ u = v
<1> DEFINE s == p \o <<u>>
           t == q \o <<v>>
<1>0. IsSeq(p) /\ IsSeq(q) /\ s = t
  BY DEF EndsIn
<1>1. IsSeq(<<u>>) /\ Len(<<u>>) = 1 /\ IsSeq(<<v>>) /\ Len(<<v>>) = 1
      /\ <<u>>[1] = u /\ <<v>>[1] = v
  BY SeqOne
<1>2. Len(s) = Len(p) + 1 /\ Len(t) = Len(q) + 1
  BY <1>0, <1>1, SeqCat
<1>3. Len(p) \in Nat /\ Len(q) \in Nat
  BY <1>0, SeqLen
<1>4. Len(p) = Len(q)
  <2>1. Len(s) = Len(t)
    BY <1>0
  <2> HIDE DEF s, t
  <2> QED  BY <1>2, <1>3, <2>1
<1>5. p = q /\ <<u>> = <<v>>
  BY <1>0, <1>1, <1>4, CatOnce
<1> QED  BY <1>1, <1>5

(* What block c + 1 of HKDF is the MAC of.                                 *)
DataOf(x, prk, info, c) == BlockOf(x, prk, info, c) \o info \o <<B(c + 1)>>

(* The parts of that data.                                                 *)
LEMMA DataIs ==
  ASSUME NEW x \in Alg, NEW prk, NEW info, IsSeq(info), NEW c \in Nat
  PROVE  LET t == BlockOf(x, prk, info, c)
         IN /\ IsSeq(t) /\ Len(t) = IF c = 0 THEN 0 ELSE size_hash[x]
            /\ IsSeq(t \o info) /\ IsSeq(DataOf(x, prk, info, c))
            /\ Len(DataOf(x, prk, info, c)) > Len(info)
<1> DEFINE t == BlockOf(x, prk, info, c)
           e == B(c + 1)
           u == t \o info
           v == u \o <<e>>
<1>1. IsSeq(t) /\ Len(t) = IF c = 0 THEN 0 ELSE size_hash[x]
  <2>1. CASE c = 0
    <3>1. BlockOf(x, prk, info, 0) = <<>>
      BY BlockOfIs
    <3>2. t = <<>>
      BY <2>1, <3>1
    <3> HIDE DEF t
    <3> QED  BY <2>1, <3>2, SeqEmpty
  <2>2. CASE c # 0
    <3> DEFINE d == c - 1
    <3>1. d \in Nat /\ d + 1 = c
      BY <2>2
    <3> HIDE DEF d
    <3>2. IsSeq(BlockOf(x, prk, info, d + 1)) /\ Len(BlockOf(x, prk, info, d + 1)) = size_hash[x]
      BY <3>1, BlockOfLen
    <3> QED  BY <2>2, <3>1, <3>2
  <2> QED  BY <2>1, <2>2
<1>2. DataOf(x, prk, info, c) = v
  BY DEF DataOf
<1> HIDE DEF t, e
<1>3. IsSeq(u) /\ Len(u) = Len(t) + Len(info)
  BY <1>1, SeqCat
<1> HIDE DEF u
<1> DEFINE w == <<e>>
<1>w. IsSeq(w) /\ Len(w) = 1
  BY SeqOne
<1> HIDE DEF w
<1>4. IsSeq(v) /\ Len(v) = Len(u) + 1
  <2>1. IsSeq(u \o w) /\ Len(u \o w) = Len(u) + Len(w)
    BY <1>3, <1>w, SeqCat
  <2> QED  BY <1>w, <2>1 DEF w
<1> HIDE DEF v
<1>5. Len(t) \in Nat /\ Len(info) \in Nat
  BY <1>1, SeqLen
<1>6. Len(v) > Len(info)
  BY <1>3, <1>4, <1>5
<1> QED  BY <1>1, <1>2, <1>3, <1>4, <1>6 DEF u, t

(* Data of different blocks or different infos differ.                     *)
LEMMA DataOnce ==
  ASSUME NEW x \in Alg, NEW k1, NEW i1, IsSeq(i1), NEW c \in Nat,
         NEW k2, NEW i2, IsSeq(i2), NEW d \in Nat,
         DataOf(x, k1, i1, c) = DataOf(x, k2, i2, d)
  PROVE  i1 = i2
<1> DEFINE s == BlockOf(x, k1, i1, c)
           t == BlockOf(x, k2, i2, d)
<1>1. IsSeq(s) /\ IsSeq(s \o i1) /\ Len(s) = IF c = 0 THEN 0 ELSE size_hash[x]
  BY DataIs
<1>2. IsSeq(t) /\ IsSeq(t \o i2) /\ Len(t) = IF d = 0 THEN 0 ELSE size_hash[x]
  BY DataIs
<1>3. (s \o i1) \o <<B(c + 1)>> = (t \o i2) \o <<B(d + 1)>>
  BY DEF DataOf
<1> HIDE DEF s, t
<1>4. s \o i1 = t \o i2 /\ B(c + 1) = B(d + 1)
  <2> DEFINE u == s \o i1
             v == t \o i2
             f == B(c + 1)
             g == B(d + 1)
             w == u \o <<f>>
  <2>1. EndsIn(w, u, f) /\ EndsIn(w, v, g)
    BY <1>1, <1>2, <1>3 DEF EndsIn
  <2> HIDE DEF u, v, f, g, w
  <2>2. u = v /\ f = g
    BY <2>1, EndOnce
  <2> QED  BY <2>2 DEF u, v, f, g
<1>5. c = d
  <2>1. c + 1 = d + 1
    BY <1>4, ByteEq
  <2> QED  BY <2>1
<1>6. Len(s) = Len(t)
  BY <1>1, <1>2, <1>5
<1> QED  BY <1>1, <1>2, <1>4, <1>6, CatOnce

(* A byte of HKDF's output, as a byte of a MAC.                            *)
LEMMA HkdfByte ==
  ASSUME NEW x \in Alg, NEW prk, NEW info, NEW len \in Nat, NEW k \in 1 .. len
  PROVE  \E c \in Nat, i \in 1 .. size_hash[x] :
           HkdfOf(x, prk, info, len)[k] = HmacOf(x, prk, DataOf(x, prk, info, c))[i]
<1> DEFINE h == size_hash[x]
           c == (k - 1) \div h
           o == (k - 1) % h
<1>1. h \in Nat \ {0}
  BY Sizes
<1>2. c \in Nat /\ o + 1 \in 1 .. h
  <2> HIDE DEF h
  <2> DEFINE l == k - 1
  <2>1. l \in Nat
    OBVIOUS
  <2> HIDE DEF l
  <2>2. l \div h \in Nat /\ l % h \in 0 .. h - 1
    BY <1>1, <2>1
  <2>3. (l % h) + 1 \in 1 .. h
    BY <1>1, <2>2
  <2> QED  BY <2>2, <2>3 DEF l
<1>3. HkdfOf(x, prk, info, len)[k] = BlockOf(x, prk, info, c + 1)[o + 1]
  BY DEF HkdfOf
<1> HIDE DEF c, o
<1>4. BlockOf(x, prk, info, c + 1) = HmacOf(x, prk, DataOf(x, prk, info, c))
  BY <1>2, BlockOfIs DEF DataOf
<1> QED  BY <1>2, <1>3, <1>4

(* HKDF outputs under different infos, or from different secrets of one    *)
(* length, have no byte in common.                                         *)
LEMMA HkdfOnce ==
  ASSUME NEW x \in Alg, NEW k1, IsSeq(k1), NEW i1, IsSeq(i1), NEW n1 \in Nat, NEW j1 \in 1 .. n1,
         NEW k2, IsSeq(k2), NEW i2, IsSeq(i2), NEW n2 \in Nat, NEW j2 \in 1 .. n2,
         Len(k1) <= size_block[x], Len(k2) = Len(k1),
         HkdfOf(x, k1, i1, n1)[j1] = HkdfOf(x, k2, i2, n2)[j2]
  PROVE  k1 = k2 /\ i1 = i2
<1>1. PICK c \in Nat, i \in 1 .. size_hash[x] :
        HkdfOf(x, k1, i1, n1)[j1] = HmacOf(x, k1, DataOf(x, k1, i1, c))[i]
  BY HkdfByte
<1>2. PICK d \in Nat, j \in 1 .. size_hash[x] :
        HkdfOf(x, k2, i2, n2)[j2] = HmacOf(x, k2, DataOf(x, k2, i2, d))[j]
  BY HkdfByte
<1> DEFINE u == DataOf(x, k1, i1, c)
           v == DataOf(x, k2, i2, d)
<1>3. IsSeq(u) /\ IsSeq(v)
  BY DataIs
<1>4. HmacOf(x, k1, u)[i] = HmacOf(x, k2, v)[j]
  BY <1>1, <1>2
<1> HIDE DEF u, v
<1>5. u = v /\ k1 = k2
  BY <1>3, <1>4, HmacOnce
<1>6. i1 = i2
  BY <1>5, DataOnce DEF u, v
<1> QED  BY <1>5, <1>6
-----------------------------------------------------------------------------
(* Derivations.                                                            *)

(* What is expanded under a label the provider accepts, n the key length   *)
(* in it and len the bytes wanted.                                         *)
Expands(s, label, len) ==
  /\ Secret(s) /\ IsSeq(label) /\ LabelFits(label) /\ len \in 0 .. 255 * size_hash[PlainHash]

(* Expansions of different secrets or under different labels have no byte  *)
(* in common, whatever lengths they are cut to.                            *)
LEMMA ExpandOnce ==
  ASSUME NEW s, NEW l1, NEW n1, NEW e1, Expands(s, l1, e1), NEW j1 \in 1 .. e1,
         NEW t, NEW l2, NEW n2, NEW e2, Expands(t, l2, e2), NEW j2 \in 1 .. e2,
         Expand(s, l1, n1, e1)[j1] = Expand(t, l2, n2, e2)[j2]
  PROVE  s = t /\ l1 = l2
<1> DEFINE x == PlainHash
           i1 == quic_crypto_tls_label(x, l1, n1)
           i2 == quic_crypto_tls_label(x, l2, n2)
           k1 == s.secret
           k2 == t.secret
           h == size_hash[x]
<1>1. x \in Alg /\ x \notin Weak /\ LabelMax + 10 + size_hash[x] <= InfoSize
  BY KDFAssumption, LabelAssumption
<1>2. h \in Nat /\ h <= size_block[x]
  BY <1>1, Sizes
<1>3. e1 \in Nat /\ e2 \in Nat
  <2>1. e1 \in 0 .. 255 * h /\ e2 \in 0 .. 255 * h
    BY DEF Expands
  <2> HIDE DEF h
  <2> QED  BY <1>2, <2>1
<1>4. Secret(s) /\ IsSeq(l1) /\ LabelFits(l1) /\ Secret(t) /\ IsSeq(l2) /\ LabelFits(l2)
  BY DEF Expands
<1>5. Expand(s, l1, n1, e1) = HkdfOf(x, k1, i1, e1)
  BY <1>4, ExpandLen DEF Expands
<1>6. Expand(t, l2, n2, e2) = HkdfOf(x, k2, i2, e2)
  BY <1>4, ExpandLen DEF Expands
<1>7. IsSeq(k1) /\ Len(k1) = h /\ IsSeq(k2) /\ Len(k2) = h
  BY <1>4 DEF Secret
<1>8. IsSeq(i1) /\ IsSeq(i2)
  BY <1>1, <1>4, LabelIs
<1>9. HkdfOf(x, k1, i1, e1)[j1] = HkdfOf(x, k2, i2, e2)[j2]
  BY <1>5, <1>6
<1>10. k1 = k2 /\ i1 = i2
  <2>1. Len(k1) <= size_block[x] /\ Len(k2) = Len(k1)
    BY <1>2, <1>7
  <2>2. x \in Alg /\ IsSeq(k1) /\ IsSeq(k2)
    BY <1>1, <1>7
  <2> HIDE DEF i1, i2, k1, k2, x, h
  <2> QED  BY <1>3, <1>8, <1>9, <2>1, <2>2, HkdfOnce
<1>11. l1 = l2
  <2> HIDE DEF x
  <2> QED  BY <1>1, <1>4, <1>10, LabelOnce
<1>12. s = t
  BY <1>4, <1>10 DEF Secret
<1> QED  BY <1>11, <1>12

(* A derivation under a label that fits is two expansions.                 *)
Between(s, label) ==
  [hash |-> PlainHash, ae |-> PlainAead, secret |-> Expand(s, label, 0, size_hash[PlainHash])]

(* Its parts.                                                              *)
LEMMA DerivedIs ==
  ASSUME NEW s, Secret(s), NEW label, IsSeq(label), LabelFits(label)
  PROVE  LET r == Between(s, label)
             h == size_hash[PlainHash]
         IN /\ h \in Nat \ {0} /\ Expands(s, label, h) /\ Expands(r, label_exporter, h)
            /\ r.secret = Expand(s, label, 0, h)
            /\ quic_crypto_tls_derive_secret(s, label).secret = Expand(r, label_exporter, 0, h)
<1> DEFINE h == size_hash[PlainHash]
           r == Between(s, label)
           tmp == Expand(s, label, 0, h)
           q == [s EXCEPT !.secret = tmp]
           v == Expand(q, label_exporter, 0, h)
           d == quic_crypto_tls_derive_secret(s, label)
<1>1. h \in Nat \ {0} /\ h \in 0 .. 255 * h
  <2>1. h \in Nat \ {0}
    BY KDFAssumption, Sizes
  <2> QED  BY <2>1
<1>2. s.hash = PlainHash /\ size_hash[s.hash] = h
  BY DEF Secret
<1>3. /\ quic_crypto_tls_label(s.hash, label, 0) # Fail
      /\ IsSeq(tmp) /\ Len(tmp) = h
  BY <1>1, ExpandLen
<1>4. d = [s EXCEPT !.secret = v]
  BY <1>2, <1>3 DEF quic_crypto_tls_derive_secret
<1>5. r = [hash |-> PlainHash, ae |-> PlainAead, secret |-> tmp]
  BY DEF Between
<1> HIDE DEF tmp, r
<1>6. r.secret = tmp
  BY <1>5
<1>7. Secret(r)
  BY <1>3, <1>5, <1>6 DEF Secret
<1>8. q = r
  <2>1. q = [hash |-> PlainHash, ae |-> PlainAead, secret |-> tmp]
    BY DEF Secret
  <2> QED  BY <1>5, <2>1
<1> HIDE DEF q, d, h
<1>9. d.secret = v
  <2> HIDE DEF v
  <2>1. s = [hash |-> PlainHash, ae |-> PlainAead, secret |-> s.secret]
    BY DEF Secret
  <2> QED  BY <1>4, <2>1
<1>10. Expands(s, label, h) /\ Expands(r, label_exporter, h)
  BY <1>1, <1>7, Labels DEF Expands, h
<1> QED  BY <1>1, <1>6, <1>8, <1>9, <1>10 DEF tmp, d, h, r

(* Two values share a byte.                                                *)
Shares(u, v, n, m) == \E i \in 1 .. n, j \in 1 .. m : u[i] = v[j]

(* Secrets derived from different secrets, or under different labels, have *)
(* no byte in common.                                                      *)
Derives(z, s, label) ==
  /\ Secret(s) /\ IsSeq(label) /\ LabelFits(label)
  /\ z = quic_crypto_tls_derive_secret(s, label)

(* From a shared byte back to the secret and the label.                    *)
LEMMA DerivedOnce ==
  ASSUME NEW y, NEW z, NEW s, NEW l1, NEW t, NEW l2, Derives(y, s, l1), Derives(z, t, l2),
         Shares(y.secret, z.secret, size_hash[PlainHash], size_hash[PlainHash])
  PROVE  s = t /\ l1 = l2
<1> DEFINE h == size_hash[PlainHash]
           a == Between(s, l1)
           b == Between(t, l2)
           zero == 0
           one == 1
<1>0. Secret(s) /\ IsSeq(l1) /\ LabelFits(l1) /\ Secret(t) /\ IsSeq(l2) /\ LabelFits(l2)
  BY DEF Derives
<1>1. /\ h \in Nat \ {0} /\ Expands(s, l1, h) /\ Expands(a, label_exporter, h)
      /\ a.secret = Expand(s, l1, zero, h) /\ y.secret = Expand(a, label_exporter, zero, h)
  BY <1>0, DerivedIs DEF Derives
<1>2. /\ Expands(t, l2, h) /\ Expands(b, label_exporter, h)
      /\ b.secret = Expand(t, l2, zero, h) /\ z.secret = Expand(b, label_exporter, zero, h)
  BY <1>0, DerivedIs DEF Derives
<1>3. PICK i \in 1 .. h, j \in 1 .. h : y.secret[i] = z.secret[j]
  BY DEF Shares
<1> HIDE DEF a, b, h, zero
<1>4. a = b
  BY <1>1, <1>2, <1>3, ExpandOnce
<1>5. one \in 1 .. h
  BY <1>1
<1> HIDE DEF one
<1>6. Expand(s, l1, zero, h)[one] = Expand(t, l2, zero, h)[one]
  BY <1>1, <1>2, <1>4
<1> QED  BY <1>1, <1>2, <1>5, <1>6, ExpandOnce
-----------------------------------------------------------------------------
(* The secrets before a handshake.                                         *)

(* What is extracted from a connection identifier, and the label of a      *)
(* direction.                                                              *)
Extracted(c) ==
  [hash |-> PlainHash, ae |-> PlainAead, secret |-> hkdf_extract(PlainHash, Salt, c)]
Directed(d) == IF d = "client" THEN label_client ELSE label_server

(* It is the HMAC of the identifier under the salt.                        *)
LEMMA ExtractedIs ==
  ASSUME NEW c \in ConIds
  PROVE  /\ Secret(Extracted(c)) /\ IsSeq(c) /\ Len(c) <= 8 /\ IsSeq(Salt)
         /\ Extracted(c).secret = HmacOf(PlainHash, Salt, c)
<1> DEFINE x == PlainHash
           v == hmac(x, Salt, c)
           b == size_block[x]
           h == size_hash[x]
<1>1. x \in Alg /\ IsSeq(Salt) /\ Counted(x, Len(Salt))
  BY KDFAssumption, ScheduleAssumption, StringSeq
<1>2. IsSeq(c) /\ Len(c) \in Nat /\ Len(c) <= 8
  BY ScheduleAssumption, StringSeq
<1>3. Extracted(c) = [hash |-> PlainHash, ae |-> PlainAead, secret |-> v]
  BY DEF Extracted, hkdf_extract
<1>4. IsSeq(v) /\ Len(v) = h
  BY <1>1, HmacLen
<1>5. Counted(x, b + Len(c)) /\ Counted(x, b + h)
  <2> DEFINE n == b + h + InfoSize + 1
             m == b + Len(c)
             l == b + h
  <2>1. Counted(x, n)
    BY LabelAssumption
  <2>2. b \in Nat /\ h \in Nat \ {0} /\ InfoSize \in Nat /\ LabelMax \in Nat
        /\ LabelMax + 10 + h <= InfoSize
    BY <1>1, Sizes, LabelAssumption
  <2> HIDE DEF b, h, x
  <2>3. n \in Nat /\ m \in Nat /\ l \in Nat /\ m <= n /\ l <= n
    BY <1>2, <2>2
  <2> HIDE DEF n, m, l
  <2>4. Counted(x, m) /\ Counted(x, l)
    BY <1>1, <2>1, <2>3, CountedLess
  <2> QED  BY <2>4 DEF m, l
<1>6. v = HmacOf(x, Salt, c)
  BY <1>1, <1>2, <1>5, HmacIs
<1> HIDE DEF v
<1>7. Extracted(c).secret = v
  BY <1>3
<1>8. Secret(Extracted(c))
  BY <1>3, <1>4, <1>7 DEF Secret
<1> QED  BY <1>1, <1>2, <1>6, <1>7, <1>8

(* Different identifiers give different secrets,                           *)
LEMMA ExtractedOnce ==
  ASSUME NEW c \in ConIds, NEW d \in ConIds, Extracted(c) = Extracted(d)
  PROVE  c = d
<1> DEFINE one == 1
           x == PlainHash
<1>1. IsSeq(c) /\ IsSeq(d) /\ IsSeq(Salt) /\ HmacOf(x, Salt, c) = HmacOf(x, Salt, d)
  BY ExtractedIs
<1>2. x \in Alg /\ one \in 1 .. size_hash[x]
  BY KDFAssumption, Sizes
<1> HIDE DEF one, x
<1>3. HmacOf(x, Salt, c)[one] = HmacOf(x, Salt, d)[one]
  BY <1>1
<1> QED  BY <1>1, <1>2, <1>3, HmacOnce

(* and none of them is a secret derived from another: an identifier is     *)
(* shorter than what a label is put together to.                           *)
LEMMA ExtractedFresh ==
  ASSUME NEW c \in ConIds, NEW s, NEW label, NEW z, Derives(z, s, label)
  PROVE  Extracted(c) # z
<1> SUFFICES ASSUME Extracted(c) = z PROVE FALSE
  OBVIOUS
<1> DEFINE x == PlainHash
           h == size_hash[x]
           r == Between(s, label)
           k == r.secret
           info == quic_crypto_tls_label(x, label_exporter, 0)
           one == 1
<1>1. x \in Alg /\ x \notin Weak /\ LabelMax + 10 + size_hash[x] <= InfoSize
  BY KDFAssumption, LabelAssumption
<1>2. /\ h \in Nat \ {0} /\ Expands(r, label_exporter, h)
      /\ z.secret = Expand(r, label_exporter, 0, h)
  BY DerivedIs DEF Derives
<1>3. Expand(r, label_exporter, 0, h) = HkdfOf(x, k, info, h)
  BY <1>2, ExpandLen DEF Expands
<1>4. IsSeq(info) /\ Len(info) >= 10 + Len(label_exporter) /\ Len(label_exporter) \in Nat
  BY <1>1, Labels, SeqLen, LabelIs
<1>5. IsSeq(k)
  BY <1>2 DEF Expands, Secret
<1>6. one \in 1 .. h
  BY <1>2
<1> HIDE DEF x, k, info, h, one
<1>7. PICK e \in Nat, i \in 1 .. size_hash[x] :
        HkdfOf(x, k, info, h)[one] = HmacOf(x, k, DataOf(x, k, info, e))[i]
  BY <1>1, <1>2, <1>6, HkdfByte
<1> DEFINE u == DataOf(x, k, info, e)
<1>8. IsSeq(u) /\ Len(u) > Len(info)
  BY <1>1, <1>4, DataIs
<1>9. /\ IsSeq(c) /\ Len(c) <= 8 /\ IsSeq(Salt) /\ z.secret = HmacOf(x, Salt, c)
  BY ExtractedIs DEF x
<1>10. HmacOf(x, Salt, c)[one] = HmacOf(x, k, u)[i]
  BY <1>2, <1>3, <1>7, <1>9
<1> HIDE DEF u
<1>11. c = u
  BY <1>1, <1>5, <1>6, <1>8, <1>9, <1>10, HmacOnce DEF h
<1>12. Len(info) \in Nat /\ Len(u) \in Nat
  BY <1>4, <1>8, SeqLen
<1> QED  BY <1>4, <1>8, <1>9, <1>11, <1>12
-----------------------------------------------------------------------------
(* The schedule.                                                           *)

(* Where a secret comes from: an identifier and a direction, or a secret   *)
(* of S and a label; its path says which.                                  *)
FromId(y, c, d) == y.path = <<c, d>> /\ Derives(y.is, Extracted(c), Directed(d))
FromSecret(y, p, label) == y.path = Append(p.path, label) /\ Derives(y.is, p.is, label)
Stems(y, S) ==
  \/ \E c \in ConIds, d \in {"client", "server"} : FromId(y, c, d)
  \/ \E p \in S, label \in Label : FromSecret(y, p, label)

SharesByte(x, y) ==
  Shares(x.is.secret, y.is.secret, size_hash[PlainHash], size_hash[PlainHash])
Apart(S) == \A x, y \in S : SharesByte(x, y) => x.path = y.path

(* A secret that stems from somewhere was derived.                         *)
LEMMA StemsDerives ==
  ASSUME NEW y, NEW S, Stems(y, S)
  PROVE  \E s, label : Derives(y.is, s, label)
BY DEF Stems, FromId, FromSecret

(* Secrets that stem from the secrets of S are kept apart by their paths   *)
(* if the secrets of S are.                                                *)
LEMMA StemsApart ==
  ASSUME NEW S, Apart(S), \A y \in S : Stems(y, S) /\ Secret(y.is),
         NEW x, Stems(x, S), NEW y, Stems(y, S), SharesByte(x, y)
  PROVE  x.path = y.path
<1>0. Shares(x.is.secret, y.is.secret, size_hash[PlainHash], size_hash[PlainHash])
  BY DEF SharesByte
<1>1. ASSUME NEW c1 \in ConIds, NEW d1 \in {"client", "server"}, FromId(x, c1, d1),
             NEW c2 \in ConIds, NEW d2 \in {"client", "server"}, FromId(y, c2, d2)
      PROVE  x.path = y.path
  <2>1. Derives(x.is, Extracted(c1), Directed(d1)) /\ Derives(y.is, Extracted(c2), Directed(d2))
    BY <1>1 DEF FromId
  <2>2. Extracted(c1) = Extracted(c2) /\ Directed(d1) = Directed(d2)
    BY <1>0, <2>1, DerivedOnce
  <2>3. c1 = c2
    BY <2>2, ExtractedOnce
  <2>4. d1 = d2
    BY <2>2, ScheduleAssumption DEF Directed
  <2> QED  BY <1>1, <2>3, <2>4 DEF FromId
<1>2. ASSUME NEW u, NEW v, SharesByte(u, v),
             NEW c \in ConIds, NEW d, FromId(u, c, d), NEW p \in S, NEW l, FromSecret(v, p, l)
      PROVE  FALSE
  <2>1. Derives(u.is, Extracted(c), Directed(d)) /\ Derives(v.is, p.is, l)
    BY <1>2 DEF FromId, FromSecret
  <2>2. Extracted(c) = p.is
    BY <1>2, <2>1, DerivedOnce DEF SharesByte
  <2>3. PICK s, label : Derives(p.is, s, label)
    BY StemsDerives
  <2> QED  BY <2>2, <2>3, ExtractedFresh
<1>3. ASSUME NEW p \in S, NEW l1, FromSecret(x, p, l1), NEW q \in S, NEW l2, FromSecret(y, q, l2)
      PROVE  x.path = y.path
  <2>1. Derives(x.is, p.is, l1) /\ Derives(y.is, q.is, l2)
    BY <1>3 DEF FromSecret
  <2>2. p.is = q.is /\ l1 = l2
    BY <1>0, <2>1, DerivedOnce
  <2>3. SharesByte(p, q)
    <3>1. 1 \in 1 .. size_hash[PlainHash]
      BY KDFAssumption, Sizes
    <3> QED  BY <2>2, <3>1 DEF SharesByte, Shares
  <2>4. p.path = q.path
    BY <2>3 DEF Apart
  <2> QED  BY <1>3, <2>2, <2>4 DEF FromSecret
<1>4. SharesByte(y, x)
  BY DEF SharesByte, Shares
<1> QED  BY <1>1, <1>2, <1>3, <1>4 DEF Stems
(* More secrets to stem from.                                              *)
LEMMA StemsMore ==
  ASSUME NEW S, NEW T, S \subseteq T, NEW y, Stems(y, S)
  PROVE  Stems(y, T)
BY DEF Stems

(* The inductive invariant: every secret says where it stems from, and     *)
(* every key which secret it is from.                                      *)
StemFrom(N, S) ==
  \A y \in N : Stems(y, S) /\ Secret(y.is) /\ y = [path |-> y.path, is |-> y.is]
Stemming(S) == StemFrom(S, S)
KeyOfSecret(k, S) == \E s \in S : k.path = s.path /\ k.is = quic_crypto_derive_key(s.is)
SeparateInv ==
  /\ Stemming(secrets) /\ Apart(secrets)
  /\ \A k \in keys : KeyOfSecret(k, secrets)

(* New secrets that stem from old ones keep all apart.                     *)
LEMMA GrowsApart ==
  ASSUME NEW S, Stemming(S), Apart(S), NEW N, StemFrom(N, S)
  PROVE  Stemming(S \union N) /\ Apart(S \union N)
<1> DEFINE T == S \union N
<1>1. \A y \in T : Stems(y, S) /\ Secret(y.is) /\ y = [path |-> y.path, is |-> y.is]
  BY DEF Stemming, StemFrom
<1>2. S \subseteq T
  OBVIOUS
<1> HIDE DEF T
<1>3. \A y \in T : Stems(y, T)
  BY <1>1, <1>2, StemsMore
<1>4. \A y \in S : Stems(y, S) /\ Secret(y.is)
  BY DEF Stemming, StemFrom
<1>5. Apart(T)
  BY <1>1, <1>4, StemsApart DEF Apart
<1>6. Stemming(T)
  BY <1>1, <1>3 DEF Stemming, StemFrom
<1> QED  BY <1>5, <1>6 DEF T

(* The two secrets of an identifier.                                       *)
LEMMA PlaintextStems ==
  ASSUME NEW c \in ConIds, NEW S
  PROVE  LET s == quic_derive_plaintext_secrets(c, Salt)
             u == [path |-> <<c, "client">>, is |-> s.client]
             v == [path |-> <<c, "server">>, is |-> s.server]
         IN StemFrom({u, v}, S)
<1> DEFINE s == quic_derive_plaintext_secrets(c, Salt)
           u == [path |-> <<c, "client">>, is |-> s.client]
           v == [path |-> <<c, "server">>, is |-> s.server]
           e == Extracted(c)
<1>1. /\ s.client = quic_crypto_tls_derive_secret(e, label_client)
      /\ s.server = quic_crypto_tls_derive_secret(e, label_server)
  BY DEF quic_derive_plaintext_secrets, Extracted
<1>2. Secret(e)
  BY ExtractedIs
<1>3. IsSeq(label_client) /\ LabelFits(label_client) /\ IsSeq(label_server) /\ LabelFits(label_server)
  BY Labels, ScheduleAssumption
<1> HIDE DEF s, e
<1>4. Derives(s.client, e, label_client) /\ Derives(s.server, e, label_server)
  BY <1>1, <1>2, <1>3 DEF Derives
<1>5. Secret(s.client) /\ Secret(s.server)
  BY PlaintextSecrets DEF s
<1>6. u.path = <<c, "client">> /\ u.is = s.client /\ v.path = <<c, "server">> /\ v.is = s.server
  OBVIOUS
<1>7. FromId(u, c, "client") /\ FromId(v, c, "server")
  BY <1>4, <1>6 DEF FromId, Directed, e
<1>8. Stems(u, S) /\ Stems(v, S)
  BY <1>7 DEF Stems
<1>9. u = [path |-> u.path, is |-> u.is] /\ v = [path |-> v.path, is |-> v.is]
  BY <1>6
<1> HIDE DEF u, v
<1>10. \A y \in {u, v} : Stems(y, S) /\ Secret(y.is) /\ y = [path |-> y.path, is |-> y.is]
  BY <1>5, <1>6, <1>8, <1>9
<1> QED  BY <1>10 DEF u, v, s, StemFrom

(* A secret derived from a secret: the same one if the label is refused.   *)
LEMMA DerivedStems ==
  ASSUME NEW S, Stemming(S), NEW x \in S, NEW label \in Label
  PROVE  LET s == quic_crypto_tls_derive_secret(x.is, label)
             p == IF s = x.is THEN x.path ELSE Append(x.path, label)
             y == [path |-> p, is |-> s]
         IN Stems(y, S) /\ Secret(y.is) /\ y = [path |-> y.path, is |-> y.is]
<1> DEFINE s == quic_crypto_tls_derive_secret(x.is, label)
           p == IF s = x.is THEN x.path ELSE Append(x.path, label)
           y == [path |-> p, is |-> s]
<1>1. Stems(x, S) /\ Secret(x.is) /\ x = [path |-> x.path, is |-> x.is]
  BY DEF Stemming, StemFrom
<1>2. IsSeq(label)
  BY Labels
<1>3. Secret(s)
  BY <1>1, <1>2, DerivedSecret
<1>4. CASE s = x.is
  <2>1. y = x
    BY <1>1, <1>4
  <2> QED  BY <1>1, <2>1
<1>5. CASE s # x.is
  <2>1. LabelFits(label)
    BY <1>5, LabelRefused DEF quic_crypto_tls_derive_secret
  <2>2. Derives(s, x.is, label)
    BY <1>1, <1>2, <2>1 DEF Derives
  <2>3. y.path = Append(x.path, label) /\ y.is = s
    BY <1>5
  <2>4. y = [path |-> y.path, is |-> y.is]
    OBVIOUS
  <2> HIDE DEF y, s
  <2>5. FromSecret(y, x, label)
    BY <2>2, <2>3 DEF FromSecret
  <2>6. Stems(y, S)
    BY <2>5 DEF Stems
  <2>7. Stems(y, S) /\ Secret(y.is) /\ y = [path |-> y.path, is |-> y.is]
    BY <1>3, <2>3, <2>4, <2>6
  <2> QED  BY <2>7 DEF y, s
<1> QED  BY <1>4, <1>5

(* More secrets to have keys of.                                           *)
LEMMA KeysMore ==
  ASSUME NEW S, NEW T, S \subseteq T, NEW k, KeyOfSecret(k, S)
  PROVE  KeyOfSecret(k, T)
BY DEF KeyOfSecret

(* Every derivation keeps the invariant.                                   *)
LEMMA SeparateSchedule ==
  ASSUME SeparateInv, Schedule
  PROVE  SeparateInv'
<1>0. Stemming(secrets) /\ Apart(secrets) /\ \A k \in keys : KeyOfSecret(k, secrets)
  BY DEF SeparateInv
<1>1. ASSUME NEW N, StemFrom(N, secrets),
             secrets' = secrets \union N, keys' = keys
      PROVE  SeparateInv'
  <2> DEFINE S == secrets
             T == secrets'
  <2>1. Stemming(S \union N) /\ Apart(S \union N)
    BY <1>0, <1>1, GrowsApart
  <2>2. T = S \union N /\ S \subseteq T
    BY <1>1
  <2>3. \A k \in keys' : KeyOfSecret(k, T)
    BY <1>0, <1>1, <2>2, KeysMore
  <2>4. Stemming(T) /\ Apart(T)
    BY <2>1, <2>2
  <2> QED  BY <2>3, <2>4 DEF SeparateInv
<1>2. ASSUME NEW c \in ConIds, CallPlaintextSecrets(c) PROVE SeparateInv'
  <2> DEFINE s == quic_derive_plaintext_secrets(c, Salt)
             u == [path |-> <<c, "client">>, is |-> s.client]
             v == [path |-> <<c, "server">>, is |-> s.server]
  <2>1. secrets' = secrets \union {u, v} /\ keys' = keys
    BY <1>2 DEF CallPlaintextSecrets
  <2>2. StemFrom({u, v}, secrets)
    BY PlaintextStems
  <2> HIDE DEF u, v
  <2> QED  BY <1>1, <2>1, <2>2
<1>3. ASSUME NEW x \in secrets, NEW label \in Label, CallDeriveSecret(x, label) PROVE SeparateInv'
  <2> DEFINE s == quic_crypto_tls_derive_secret(x.is, label)
             p == IF s = x.is THEN x.path ELSE Append(x.path, label)
             y == [path |-> p, is |-> s]
  <2>1. secrets' = secrets \union {y} /\ keys' = keys
    BY <1>3 DEF CallDeriveSecret
  <2>2. Stems(y, secrets) /\ Secret(y.is) /\ y = [path |-> y.path, is |-> y.is]
    BY <1>0, DerivedStems
  <2> HIDE DEF y
  <2>3. StemFrom({y}, secrets)
    BY <2>2 DEF StemFrom
  <2> QED  BY <1>1, <2>1, <2>3
<1>4. ASSUME NEW x \in secrets, CallDeriveKey(x) PROVE SeparateInv'
  <2> DEFINE k == [path |-> x.path, is |-> quic_crypto_derive_key(x.is)]
  <2>1. keys' = keys \union {k} /\ secrets' = secrets
    BY <1>4 DEF CallDeriveKey
  <2>2. KeyOfSecret(k, secrets)
    BY DEF KeyOfSecret
  <2> HIDE DEF k
  <2> QED  BY <1>0, <2>1, <2>2 DEF SeparateInv
<1> QED  BY <1>2, <1>3, <1>4 DEF Schedule

(* Only the schedule changes secrets and keys.                             *)
LEMMA SeparateNext == SeparateInv /\ [Next]_vars => SeparateInv'
<1> SUFFICES ASSUME SeparateInv, [Next]_vars PROVE SeparateInv'
  OBVIOUS
<1>1. CASE Schedule
  BY <1>1, SeparateSchedule
<1>2. CASE UNCHANGED <<secrets, keys>>
  BY <1>2 DEF SeparateInv
<1>3. Schedule \/ UNCHANGED <<secrets, keys>>
  BY DEF Next, vars, scheduling, Stream, CallOnce, CallPrefixed,
         CallInit, CallUpdate, CallUpdateMulti, CallUpdateLast, CallFinish
<1> QED  BY <1>1, <1>2, <1>3

(* The bytes of two strings.                                               *)
LEMMA BytesShared ==
  ASSUME NEW u, IsSeq(u), NEW n, Len(u) = n, NEW v, IsSeq(v), NEW m, Len(v) = m,
         Bytes(u) \intersect Bytes(v) # {}
  PROVE  Shares(u, v, n, m)
<1>1. DOMAIN u = 1 .. n /\ DOMAIN v = 1 .. m
  BY SeqLen DEF OfLength
<1> QED  BY <1>1 DEF Bytes, Shares

(* A key and its IV, from the secret they are expanded from.               *)
LEMMA DerivedKeyIs ==
  ASSUME NEW s, Secret(s)
  PROVE  LET k == quic_crypto_derive_key(s)
             n == KeyLen[PlainAead]
         IN /\ Expands(s, label_key, n) /\ Expands(s, label_iv, IvLen)
            /\ k.dkey = Expand(s, label_key, n, n) /\ k.static_iv = Expand(s, label_iv, IvLen, IvLen)
            /\ IsSeq(k.dkey) /\ Len(k.dkey) = n /\ IsSeq(k.static_iv) /\ Len(k.static_iv) = IvLen
<1> DEFINE k == quic_crypto_derive_key(s)
           n == KeyLen[PlainAead]
<1>1. s.ae = PlainAead
  BY DEF Secret
<1>2. k.dkey = Expand(s, label_key, n, n) /\ k.static_iv = Expand(s, label_iv, IvLen, IvLen)
  BY <1>1 DEF quic_crypto_derive_key
<1>3. n \in 0 .. 255 * size_hash[PlainHash] /\ IvLen \in 0 .. 255 * size_hash[PlainHash]
  <2>1. size_hash[PlainHash] \in Nat
    BY KDFAssumption, Sizes
  <2>2. n \in 1 .. 255 * size_hash[PlainHash] /\ IvLen \in 0 .. 255 * size_hash[PlainHash]
    BY ScheduleAssumption, LabelAssumption
  <2> HIDE DEF n
  <2> QED  BY <2>1, <2>2
<1>4. Expands(s, label_key, n) /\ Expands(s, label_iv, IvLen)
  BY <1>3, Labels DEF Expands
<1> HIDE DEF n, k
<1>5. IsSeq(Expand(s, label_key, n, n)) /\ Len(Expand(s, label_key, n, n)) = n
  BY <1>3, Labels, ExpandLen
<1>6. IsSeq(Expand(s, label_iv, IvLen, IvLen)) /\ Len(Expand(s, label_iv, IvLen, IvLen)) = IvLen
  BY <1>3, Labels, ExpandLen
<1> QED  BY <1>2, <1>4, <1>5, <1>6 DEF n, k
(* Secrets kept apart, and keys of them, are separated.                    *)
LEMMA SeparateKeys == SeparateInv => KeysSeparated
<1> SUFFICES ASSUME SeparateInv PROVE KeysSeparated
  OBVIOUS
<1> DEFINE h == size_hash[PlainHash]
           n == KeyLen[PlainAead]
           z == 0
<1>0. \A y \in secrets : Stems(y, secrets) /\ Secret(y.is)
  BY DEF SeparateInv, Stemming, StemFrom
<1>1. ASSUME NEW y \in secrets PROVE IsSeq(y.is.secret) /\ Len(y.is.secret) = h
  BY <1>0 DEF Secret
<1>2. ASSUME NEW x \in secrets, NEW y \in secrets,
             Bytes(x.is.secret) \intersect Bytes(y.is.secret) # {}
      PROVE  x.path = y.path
  <2>1. SharesByte(x, y)
    BY <1>1, <1>2, BytesShared DEF SharesByte
  <2> QED  BY <2>1 DEF SeparateInv, Apart
<1>3. ASSUME NEW x \in keys
      PROVE  \E s \in secrets :
               /\ x.path = s.path /\ x.is = quic_crypto_derive_key(s.is)
               /\ Expands(s.is, label_key, n) /\ Expands(s.is, label_iv, IvLen)
               /\ x.is.dkey = Expand(s.is, label_key, n, n)
               /\ x.is.static_iv = Expand(s.is, label_iv, IvLen, IvLen)
               /\ IsSeq(x.is.dkey) /\ Len(x.is.dkey) = n
               /\ IsSeq(x.is.static_iv) /\ Len(x.is.static_iv) = IvLen
  <2>1. PICK s \in secrets : x.path = s.path /\ x.is = quic_crypto_derive_key(s.is)
    BY DEF SeparateInv, KeyOfSecret
  <2>2. Secret(s.is)
    BY <1>0
  <2> HIDE DEF n
  <2> QED  BY <2>1, <2>2, DerivedKeyIs DEF n
<1> HIDE DEF n
<1>4. ASSUME NEW x \in keys, NEW y \in keys, Bytes(x.is.dkey) \intersect Bytes(y.is.dkey) # {}
      PROVE  x.path = y.path
  <2>1. PICK s \in secrets : /\ x.path = s.path /\ Expands(s.is, label_key, n)
                             /\ x.is.dkey = Expand(s.is, label_key, n, n)
                             /\ IsSeq(x.is.dkey) /\ Len(x.is.dkey) = n
    BY <1>3
  <2>2. PICK t \in secrets : /\ y.path = t.path /\ Expands(t.is, label_key, n)
                             /\ y.is.dkey = Expand(t.is, label_key, n, n)
                             /\ IsSeq(y.is.dkey) /\ Len(y.is.dkey) = n
    BY <1>3
  <2>3. Shares(x.is.dkey, y.is.dkey, n, n)
    BY <1>4, <2>1, <2>2, BytesShared
  <2>4. PICK i \in 1 .. n, j \in 1 .. n : x.is.dkey[i] = y.is.dkey[j]
    BY <2>3 DEF Shares
  <2>5. s.is = t.is
    BY <2>1, <2>2, <2>4, ExpandOnce
  <2>6. SharesByte(s, t)
    <3>1. 1 \in 1 .. size_hash[PlainHash]
      BY KDFAssumption, Sizes
    <3> QED  BY <2>5, <3>1 DEF SharesByte, Shares
  <2> QED  BY <2>1, <2>2, <2>6 DEF SeparateInv, Apart
<1>5. ASSUME NEW x \in keys, NEW y \in keys
      PROVE  Bytes(x.is.dkey) \intersect Bytes(y.is.static_iv) = {}
  <2> SUFFICES ASSUME Bytes(x.is.dkey) \intersect Bytes(y.is.static_iv) # {} PROVE FALSE
    OBVIOUS
  <2>1. PICK s \in secrets : /\ Expands(s.is, label_key, n)
                             /\ x.is.dkey = Expand(s.is, label_key, n, n)
                             /\ IsSeq(x.is.dkey) /\ Len(x.is.dkey) = n
    BY <1>3
  <2>2. PICK t \in secrets : /\ Expands(t.is, label_iv, IvLen)
                             /\ y.is.static_iv = Expand(t.is, label_iv, IvLen, IvLen)
                             /\ IsSeq(y.is.static_iv) /\ Len(y.is.static_iv) = IvLen
    BY <1>3
  <2>3. Shares(x.is.dkey, y.is.static_iv, n, IvLen)
    BY <2>1, <2>2, BytesShared
  <2>4. PICK i \in 1 .. n, j \in 1 .. IvLen : x.is.dkey[i] = y.is.static_iv[j]
    BY <2>3 DEF Shares
  <2>5. label_key = label_iv
    BY <2>1, <2>2, <2>4, ExpandOnce
  <2> QED  BY <2>5, ScheduleAssumption
<1>6. ASSUME NEW x \in keys, NEW y \in secrets
      PROVE  Bytes(x.is.dkey) \intersect Bytes(y.is.secret) = {}
  <2> SUFFICES ASSUME Bytes(x.is.dkey) \intersect Bytes(y.is.secret) # {} PROVE FALSE
    OBVIOUS
  <2>1. PICK s \in secrets : /\ Expands(s.is, label_key, n)
                             /\ x.is.dkey = Expand(s.is, label_key, n, n)
                             /\ IsSeq(x.is.dkey) /\ Len(x.is.dkey) = n
    BY <1>3
  <2>2. PICK t, label : Derives(y.is, t, label)
    BY <1>0, StemsDerives
  <2> DEFINE r == Between(t, label)
  <2>3. Expands(r, label_exporter, h) /\ y.is.secret = Expand(r, label_exporter, z, h)
    BY <2>2, DerivedIs DEF Derives
  <2>4. Shares(x.is.dkey, y.is.secret, n, h)
    BY <1>1, <2>1, BytesShared
  <2> HIDE DEF r, h, z
  <2>5. PICK i \in 1 .. n, j \in 1 .. h : x.is.dkey[i] = y.is.secret[j]
    BY <2>4 DEF Shares
  <2>6. label_key = label_exporter
    BY <2>1, <2>3, <2>5, ExpandOnce
  <2> QED  BY <2>6, ScheduleAssumption
<1> QED  BY <1>2, <1>4, <1>5, <1>6 DEF KeysSeparated

(* The key schedule: along whatever chains and in whatever order           *)
(* quic_crypto_tls_derive_secret and quic_crypto_derive_key are called,    *)
(* secrets and keys of different paths have no byte in common, no key has  *)
(* one in common with an IV or a secret.                                   *)
THEOREM KeysStaySeparated == Spec => []KeysSeparated
<1>1. Init => SeparateInv
  BY DEF Init, SeparateInv, Stemming, StemFrom, Apart
<1> QED  BY <1>1, SeparateNext, SeparateKeys, PTL DEF Spec
=============================================================================
