-------------------------------- MODULE KDF ---------------------------------
(***************************************************************************)
(* Crypto.HKDF and the derivations of secure_api/QuicProvider over HMAC:   *)
(* HKDF-Expand, TLS 1.3 labels, secrets from secrets and keys from         *)
(* secrets.  A function returns its result, or Fail where the C code       *)
(* returns 0.                                                              *)
(***************************************************************************)
EXTENDS SHA2

CONSTANTS
  Weak,        \* hashes below TLS_hash_SHA256, which the provider refuses
  Label,       \* labels clients derive secrets under
  label_key, label_iv, label_exporter,
  label_client, label_server,
  LabelMax,    \* 249: longest label
  InfoSize,    \* 323: bytes of the buffer info
  KeyLen,      \* bytes of a key of each AEAD (16, 32)
  IvLen,       \* 12
  PlainHash,   \* SHA256 and AES-128-GCM, for what is sent before a handshake
  PlainAead

Fail == <<>>

ASSUME KDFAssumption ==
  /\ IvLen > 0 /\ \A e \in DOMAIN KeyLen : KeyLen[e] > 0 /\ KeyLen[e] < 65536
  /\ PlainHash \in Alg /\ PlainAead \in DOMAIN KeyLen
-----------------------------------------------------------------------------
hkdf_extract(a, salt, ikm) == hmac(a, salt, ikm)

(* What the i-th block is the HMAC of: T(i - 1) | info | i, without the    *)
(* T(i - 1) for the first.                                                 *)
hkdf_til(a, info, ti, i) ==
  IF i = 1 THEN info \o <<B(1)>> ELSE ti \o info \o <<B(i % 256)>>

(* One step of hkdf_expand_inner: the block T(i), kept in Ti and stored in *)
(* T.                                                                      *)
hkdf_expand_inner(a, prk, info, r, i) ==
  LET ti == hmac(a, prk, hkdf_til(a, info, r.ti, i)) IN [ti |-> ti, t |-> r.t \o ti]

hkdf_expand(a, prk, info, len) ==
  LET n == len \div size_hash[a] + (IF len % size_hash[a] = 0 THEN 0 ELSE 1)
      r[i \in 0 .. n] == IF i = 0 THEN [ti |-> Zeros(size_hash[a]), t |-> <<>>]
                         ELSE hkdf_expand_inner(a, prk, info, r[i - 1], i)
  IN SubSeq(r[n].t, 1, len)

(* HKDF-Expand-Label's info: the length wanted, "tls13 " and the label     *)
(* with their length, and the context with its: none, or the hash of the   *)
(* empty string if key_len is 0 (the length wanted is then the hash's).    *)
Prefix == [i \in 1 .. 6 |-> <<"tls13 ", i>>]

(* Mutant: a label too long by one is accepted.                            *)
LabelFits_late(label) == Len(label) <= LabelMax + 1

LabelFits(label) == Len(label) <= LabelMax

(* The labels of the provider fit, the buffer has room for the longest     *)
(* label and a digest (3 + 6 + 249 + 1 + 64 bytes), and an IV is at most   *)
(* 255 digests.                                                            *)
ASSUME LabelAssumption ==
  /\ LabelMax \in Nat /\ LabelMax + 6 < 256 /\ InfoSize \in Nat
  /\ \A label \in Label \union {label_key, label_iv, label_exporter, label_client, label_server} :
       String(label)
  /\ LabelFits(label_key) /\ LabelFits(label_iv) /\ LabelFits(label_exporter)
  /\ PlainHash \notin Weak
  /\ LabelMax + 10 + size_hash[PlainHash] <= InfoSize
  /\ Counted(PlainHash, size_block[PlainHash] + size_hash[PlainHash] + InfoSize + 1)
  /\ IvLen \in 0 .. 255 * size_hash[PlainHash]

(* Mutant: only the first character of the label is copied.                *)
tls_label_cut(a, label, key_len) ==
  <<B(key_len \div 256), B(key_len % 256), B(7)>> \o Prefix \o SubSeq(label, 1, 1) \o <<B(0)>>

quic_crypto_tls_label(a, label, key_len) ==
  IF a \in Weak \/ ~LabelFits(label) THEN Fail
  ELSE LET len == IF key_len # 0 THEN key_len ELSE size_hash[a]
           ctx == IF key_len # 0 THEN <<B(0)>> ELSE <<B(size_hash[a])>> \o hash(a, <<>>)
       IN <<B(len \div 256), B(len % 256), B(Len(label) + 6)>> \o Prefix \o label \o ctx

Expand(secret, label, key_len, len) ==
  LET info == quic_crypto_tls_label(secret.hash, label, key_len)
  IN IF info = Fail THEN Fail ELSE hkdf_expand(secret.hash, secret.secret, info, len)

(* A secret under a label, in two steps; the hash and the AEAD go along.   *)
(* The caller's secret is as it was if the label is refused.               *)
quic_crypto_tls_derive_secret(secret, label) ==
  LET hlen == size_hash[secret.hash]
      tmp  == Expand(secret, label, 0, hlen)
  IN IF quic_crypto_tls_label(secret.hash, label, 0) = Fail THEN secret
     ELSE [secret EXCEPT !.secret = Expand([secret EXCEPT !.secret = tmp], label_exporter, 0, hlen)]

quic_crypto_derive_key(secret) ==
  [dkey |-> Expand(secret, label_key, KeyLen[secret.ae], KeyLen[secret.ae]),
   static_iv |-> Expand(secret, label_iv, IvLen, IvLen)]

(* The secrets of the two directions before a handshake, from the          *)
(* connection identifier.                                                  *)
quic_derive_plaintext_secrets(con_id, salt) ==
  LET s0 == [hash |-> PlainHash, ae |-> PlainAead, secret |-> hkdf_extract(PlainHash, salt, con_id)]
  IN [client |-> quic_crypto_tls_derive_secret(s0, label_client),
      server |-> quic_crypto_tls_derive_secret(s0, label_server)]
-----------------------------------------------------------------------------
(* Reference: RFC 5869, T(1) | T(2) | ... cut to the length wanted, by     *)
(* byte position.                                                          *)
BlockOf(a, prk, info, n) ==
  LET T[i \in 0 .. n] == IF i = 0 THEN <<>> ELSE HmacOf(a, prk, T[i - 1] \o info \o <<B(i)>>)
  IN T[n]

HkdfOf(a, prk, info, len) ==
  [k \in 1 .. len |->
     BlockOf(a, prk, info, (k - 1) \div size_hash[a] + 1)[((k - 1) % size_hash[a]) + 1]]
=============================================================================
