------------------------------ MODULE Hashing -------------------------------
(***************************************************************************)
(* Clients of the hashes.  One feeds a state piece by piece: init, update  *)
(* and update_multi, update_last, finish, and uses the state again.  The   *)
(* other is QUIC's key schedule: secrets derived from secrets, and keys    *)
(* derived from secrets, in any order.                                     *)
(***************************************************************************)
EXTENDS KDF, FiniteSets

CONSTANTS
  Blocks(_), Lasts(_),  \* the blocks and last pieces clients hash
  Calls,       \* inputs of one-shot calls: hash, key, data and length
  Prefixed,    \* inputs of prefixed hashes: hash, two prefixes and data
  ConIds,      \* connection identifiers,
  Salt,        \*   and the salt of the version
  MaxBlocks,   \* bound: blocks fed to a state before its last piece
  MaxSecrets   \* bound: secrets derived

(* The contracts of update and update_last.                                *)
ASSUME PiecesAssumption ==
  \A a \in Alg : /\ \A b \in Blocks(a) : OfLength(b, size_block[a])
                 /\ \A d \in Lasts(a) : String(d)

(* The contracts of the one-shot calls: byte strings that do not wrap the  *)
(* block counter, an output of at most 255 digests, and prefixes that fit  *)
(* a block.  HMAC puts a block in front of the data, HKDF a digest too and *)
(* a byte behind.                                                          *)
ASSUME CallsAssumption ==
  /\ \A c \in Calls :
       \/ c.alg \in Weak
       \/ /\ c.alg \in Alg /\ String(c.key) /\ String(c.data)
          /\ c.len \in 0 .. 255 * size_hash[c.alg]
          /\ Counted(c.alg, Len(c.key))
          /\ Counted(c.alg, size_block[c.alg] + size_hash[c.alg] + Len(c.data) + 1)
  /\ \A c \in Prefixed :
       /\ c.alg \in Alg /\ String(c.pre) /\ String(c.pre2) /\ String(c.data)
       /\ Len(c.pre) + Len(c.pre2) <= size_block[c.alg]
       /\ Counted(c.alg, Len(c.pre) + Len(c.pre2) + Len(c.data))

(* The provider's labels are distinct and fit, a connection identifier is  *)
(* at most 8 bytes, and a key is at most 255 digests.                      *)
ASSUME ScheduleAssumption ==
  /\ label_key # label_iv /\ label_key # label_exporter /\ label_client # label_server
  /\ LabelFits(label_client) /\ LabelFits(label_server)
  /\ String(Salt) /\ Counted(PlainHash, Len(Salt))
  /\ \A c \in ConIds : String(c) /\ Len(c) <= 8
  /\ KeyLen[PlainAead] \in 1 .. 255 * size_hash[PlainHash]

VARIABLES
  st, phase,  \* the state of a hash and how far its client is
  msg,        \* auxiliary: the bytes fed since init
  digest,     \* what finish returned, until the state is used again
  call,       \* a one-shot call's input and results
  secrets,    \* secrets in use, each with the path it was derived along
  keys        \* keys derived, with the path of their secret

vars == <<st, phase, msg, digest, call, secrets, keys>>
streaming == <<st, phase, msg, digest>>
scheduling == <<call, secrets, keys>>
-----------------------------------------------------------------------------
(* Mutant: init leaves the counter of the last use.                        *)
CallInit_dirty(a) ==
  /\ phase \in {"raw", "read"}
  /\ st' = [init(a) EXCEPT !.counter = st.counter]
  /\ phase' = "open" /\ msg' = <<>> /\ digest' = <<>>
  /\ UNCHANGED scheduling

CallInit(a) ==
  /\ phase \in {"raw", "read"}
  /\ st' = init(a)
  /\ phase' = "open" /\ msg' = <<>> /\ digest' = <<>>
  /\ UNCHANGED scheduling

CallUpdate(block) ==
  /\ phase = "open" /\ Len(msg) < MaxBlocks * size_block[st.alg]
  /\ st' = update(st, block)
  /\ msg' = msg \o block
  /\ UNCHANGED <<phase, digest, scheduling>>

CallUpdateMulti(data) ==
  LET n == Len(data) \div size_block[st.alg]
  IN /\ phase = "open" /\ Len(msg) + Len(data) <= MaxBlocks * size_block[st.alg]
     /\ st' = update_multi(st, data, n)
     /\ msg' = msg \o data
     /\ UNCHANGED <<phase, digest, scheduling>>

(* The contract of update_last admits more than a block.                   *)
LastFits(a, len) == len + size_len_8[a] + 1 < 2 * size_block[a]

CallUpdateLast(data) ==
  /\ phase = "open" /\ LastFits(st.alg, Len(data))
  /\ st' = update_last(st, data)
  /\ msg' = msg \o data
  /\ phase' = "last"
  /\ UNCHANGED <<digest, scheduling>>

CallFinish ==
  /\ phase = "last"
  /\ digest' = finish(st)
  /\ phase' = "read"
  /\ UNCHANGED <<st, msg, scheduling>>

Stream ==
  \/ \E a \in Alg : CallInit(a)
  \/ \E b \in Blocks(st.alg) : CallUpdate(b) \/ \E c \in Blocks(st.alg) : CallUpdateMulti(b \o c)
  \/ \E d \in Lasts(st.alg) : CallUpdateLast(d)
  \/ CallFinish
-----------------------------------------------------------------------------
(* quic_crypto_hash, _hmac, _hkdf_extract and _hkdf_expand: a weak hash is *)
(* refused and nothing is written.                                         *)
CallOnce(c) ==
  /\ call = Fail
  /\ IF c.alg \in Weak THEN call' = <<"refused">>
     ELSE call' = <<"done", c, hash(c.alg, c.data), hmac(c.alg, c.key, c.data),
                    hkdf_expand(c.alg, c.key, c.data, c.len)>>
  /\ UNCHANGED <<streaming, secrets, keys>>

(* The two hashes Ed25519's signatures are made of.                        *)
CallPrefixed(a, pre, pre2, data) ==
  /\ call = Fail
  /\ call' = <<"prefixed", [alg |-> a, pre |-> pre, pre2 |-> pre2, data |-> data],
               sha512_pre_msg(a, pre, data), sha512_pre_pre2_msg(a, pre, pre2, data)>>
  /\ UNCHANGED <<streaming, secrets, keys>>

(* A derivation reads only the secret it starts from.                      *)
CallPlaintextSecrets(c) ==
  LET s == quic_derive_plaintext_secrets(c, Salt)
  IN /\ \A x \in secrets : x.path # <<c, "client">>
     /\ Cardinality(secrets) < MaxSecrets
     /\ secrets' = secrets \union {[path |-> <<c, "client">>, is |-> s.client],
                                   [path |-> <<c, "server">>, is |-> s.server]}
     /\ UNCHANGED <<streaming, call, keys>>

CallDeriveSecret(x, label) ==
  /\ Cardinality(secrets) < MaxSecrets
  /\ LET s == quic_crypto_tls_derive_secret(x.is, label)
         p == IF s = x.is THEN x.path ELSE Append(x.path, label)
     IN secrets' = secrets \union {[path |-> p, is |-> s]}
  /\ UNCHANGED <<streaming, call, keys>>

CallDeriveKey(x) ==
  /\ keys' = keys \union {[path |-> x.path, is |-> quic_crypto_derive_key(x.is)]}
  /\ UNCHANGED <<streaming, call, secrets>>

Schedule ==
  \/ \E c \in ConIds : CallPlaintextSecrets(c)
  \/ \E x \in secrets : CallDeriveKey(x) \/ \E label \in Label : CallDeriveSecret(x, label)

(* Before init the state holds whatever was there.                         *)
Init ==
  /\ \E a \in Alg : st = [alg |-> a, hash_w |-> <<>>, counter |-> 1]
  /\ phase = "raw" /\ msg = <<>> /\ digest = <<>>
  /\ call = Fail /\ secrets = {} /\ keys = {}

(* The clients share nothing; each is explored alone.                      *)
Next ==
  \/ call = Fail /\ secrets = {} /\ Stream
  \/ phase = "raw" /\ secrets = {} /\ (\/ \E c \in Calls : CallOnce(c)
                                       \/ \E c \in Prefixed : CallPrefixed(c.alg, c.pre, c.pre2, c.data))
  \/ phase = "raw" /\ call = Fail /\ Schedule

Spec == Init /\ [][Next]_vars
-----------------------------------------------------------------------------
(* Correctness *)

(* quic_crypto_tls_label: for every label accepted and every hash, the     *)
(* info fits its buffer, and the length byte of the label does not wrap.   *)
InfoFits ==
  \A x \in secrets, label \in Label, n \in {0, IvLen} :
    LET info == quic_crypto_tls_label(x.is.hash, label, n)
    IN Len(info) <= InfoSize /\ (info # Fail => info[3][2] < 256)

(* Sizes and ranges; the buffers that labels are put together in are       *)
(* never overrun, and no block is compressed half empty.                   *)
TypeOK ==
  /\ st.alg \in Alg /\ st.counter \in 0 .. CounterWord[st.alg] - 1
  /\ phase \in {"raw", "open", "last", "read"}
  /\ \A i \in DOMAIN st.hash_w : Len(st.hash_w[i]) = size_block[st.alg]
  /\ phase = "read" => Len(digest) = size_hash[st.alg]
  /\ \A x \in secrets : Len(x.is.secret) = size_hash[x.is.hash]
  /\ \A x \in keys : Len(x.is.static_iv) = IvLen
  /\ InfoFits

(* update, update_multi, update_last and finish, in whatever pieces the    *)
(* message came and whatever the state was used for before: the digest is  *)
(* the hash of the whole message, while the block counter has not wrapped  *)
(* (which the contracts of update and update_last require).                *)
DigestIsHash ==
  phase = "read" /\ Len(msg) \div size_block[st.alg] < CounterWord[st.alg] =>
    digest = HashOf(st.alg, msg)

(* sha512_pre_msg, sha512_pre_pre2_msg: whether the message fits the block *)
(* behind the prefixes, fills it or goes on after it, the result is the    *)
(* hash of prefixes and message, and the block is not overrun.             *)
PrefixedIsHash ==
  Len(call) = 4 =>
    LET c == call[2]
    IN /\ call[3] = HashOf(c.alg, c.pre \o c.data)
       /\ call[4] = HashOf(c.alg, c.pre \o c.pre2 \o c.data)

(* hash, hmac: the incremental inner hash over ipad and the data, the      *)
(* digest kept in the pad's buffer and the normalised key give HMAC; and   *)
(* hkdf_expand: the blocks chained through Ti and the cut give HKDF, at    *)
(* lengths around multiples of the hash's.  The prefixed hashes are the    *)
(* hashes of prefixes and message.                                         *)
CallsAreStandard ==
  /\ Len(call) = 5 =>
       LET c == call[2]
       IN /\ call[3] = HashOf(c.alg, c.data)
          /\ call[4] = HmacOf(c.alg, c.key, c.data)
          /\ call[5] = HkdfOf(c.alg, c.key, c.data, c.len)
  /\ PrefixedIsHash

(* quic_crypto_tls_derive_secret and _derive_key, in any order and along   *)
(* any chain: secrets, keys and static IVs of different paths have no byte *)
(* in common, and neither have a key and an IV of one secret.              *)
Bytes(v) == {v[i] : i \in DOMAIN v}
KeysSeparated ==
  /\ \A x, y \in secrets : x.path # y.path => Bytes(x.is.secret) \intersect Bytes(y.is.secret) = {}
  /\ \A x, y \in keys :
       /\ x.path # y.path => Bytes(x.is.dkey) \intersect Bytes(y.is.dkey) = {}
       /\ Bytes(x.is.dkey) \intersect Bytes(y.is.static_iv) = {}
       /\ \A s \in secrets : Bytes(x.is.dkey) \intersect Bytes(s.is.secret) = {}
=============================================================================
