------------------------------- MODULE Boxes --------------------------------
(***************************************************************************)
(* The boxes of the NaCl API (snapshots/hacl-c/NaCl.c and haclnacl.c) and  *)
(* the ChaCha20-Poly1305 AEAD, used by parties that seal with one call and *)
(* open with another, over a network that may change what was sent.        *)
(***************************************************************************)
EXTENDS Ciphers

CONSTANTS
  Party,      \* owners of Curve25519 keys
  Nonce,      \* 24-byte nonces, as pairs: the first 16 bytes and the last 8
  Aad,        \* additional data for the AEAD
  Lengths,    \* lengths of messages
  MaxSent,    \* bound: boxes sealed
  Streams     \* inputs of the bare stream ciphers: length and first counter

(* Additional data are strings.  A length is a 32-bit word, so that no     *)
(* message has more blocks than ChaCha20's counter counts after block 0;   *)
(* the counter a stream starts from is a word of the counter's width.      *)
ASSUME BoxesAssumption ==
  /\ \A n \in Nonce : n = <<n[1], n[2]>>
  /\ \A aad \in Aad : Len(aad) \in Nat /\ aad = [i \in 1 .. Len(aad) |-> aad[i]]
  /\ \A len \in Lengths : len \in 0 .. (Ctr - 1) * Block
  /\ \A s \in Streams : s.len \in Nat /\ s.ctr \in 0 .. Ctr - 1

VARIABLES
  sent,       \* what was sealed, with the key, the message and what went out
  opened,     \* the last call that opened, and its outcome
  call,       \* a call of a bare stream cipher, and its results
  words       \* a state under rounds, as words and as vectors

vars == <<sent, opened, call, words>>

Pad == KeyBytes           \* 32 zero bytes before a message and a ciphertext
Off == Pad - MacBytes     \* 16: where an "easy" box keeps its tag

None == [none |-> TRUE]

Message(id, len) == [i \in 1 .. len |-> {<<"m", id, i>>}]
-----------------------------------------------------------------------------
(* Curve25519, external to the boxes: a point is how often each secret     *)
(* was multiplied in.                                                      *)
Base == [p \in Party |-> 0]
crypto_scalarmult(sk, point) == [point EXCEPT ![sk] = @ + 1]
crypto_box_keypair(sk) == crypto_scalarmult(sk, Base)

crypto_box_beforenm(pk, sk) == hsalsa20(<<"point", crypto_scalarmult(sk, pk)>>, 0)
-----------------------------------------------------------------------------
(* Secret boxes *)

set_zero_bytes(b) == [i \in DOMAIN b |-> IF i <= Pad THEN {} ELSE b[i]]

(* The padding of m is encrypted with it, which leaves the one-time key in *)
(* front of the ciphertext; it is used there and wiped.                    *)
crypto_secretbox_detached(m, n, k) ==
  LET c == salsa20(m, hsalsa20(k, n[1]), n[2], 0)
  IN [c |-> set_zero_bytes(c),
      mac |-> crypto_onetimeauth(SubSeq(c, Pad + 1, Len(c)), SubSeq(c, 1, Pad))]

(* Mutant: the decrypted padding is left in front of the message.          *)
crypto_secretbox_open_detached_decrypt_unwiped(m, c, n, subkey, verify) ==
  IF verify = 0 THEN [ret |-> 0, m |-> salsa20(c, subkey, n[2], 0)] ELSE [ret |-> -1, m |-> m]

(* The buffer m is written only if the tag is right.                       *)
crypto_secretbox_open_detached_decrypt(m, c, n, subkey, verify) ==
  IF verify = 0 THEN [ret |-> 0, m |-> set_zero_bytes(salsa20(c, subkey, n[2], 0))]
                ELSE [ret |-> -1, m |-> m]

crypto_secretbox_open_detached(m, c, mac, n, k) ==
  LET subkey == hsalsa20(k, n[1])
      mackey == salsa20(Zeros(Pad), subkey, n[2], 0)
      cmac   == crypto_onetimeauth(SubSeq(c, Pad + 1, Len(c)), mackey)
  IN crypto_secretbox_open_detached_decrypt(m, c, n, subkey, cmp_bytes(mac, cmac))

(* An "easy" box carries its tag right before the ciphertext.              *)
WithTag(b) == [c |-> SubSeq(b.c, 1, Off) \o b.mac \o SubSeq(b.c, Pad + 1, Len(b.c)), mac |-> <<>>]
TagOf(c) == SubSeq(c, Off + 1, Pad)

crypto_secretbox_easy(m, n, k) == WithTag(crypto_secretbox_detached(m, n, k))

(* As coded: the tag is looked for at the start of the buffer, where       *)
(* secretbox_easy does not put it.                                         *)
crypto_secretbox_open_easy(m, c, n, k) ==
  crypto_secretbox_open_detached(m, c, SubSeq(c, 1, MacBytes), n, k)

(* haclnacl.c opens with the tag where secretbox_easy puts it.             *)
crypto_secretbox_open(m, c, n, k) == crypto_secretbox_open_detached(m, c, TagOf(c), n, k)
-----------------------------------------------------------------------------
(* Boxes: the key is computed for the call, or was computed before.        *)

crypto_box_detached_afternm(m, n, k) == crypto_secretbox_detached(m, n, k)
crypto_box_easy_afternm(m, n, k) == WithTag(crypto_box_detached_afternm(m, n, k))

crypto_box_detached(m, n, pk, sk) ==
  crypto_secretbox_detached(m, n, hsalsa20(<<"point", crypto_scalarmult(sk, pk)>>, 0))
crypto_box_easy(m, n, pk, sk) == WithTag(crypto_box_detached(m, n, pk, sk))

crypto_box_open_detached_afternm(m, c, mac, n, k) == crypto_secretbox_open_detached(m, c, mac, n, k)
crypto_box_open_easy_afternm(m, c, n, k) == crypto_box_open_detached_afternm(m, c, TagOf(c), n, k)

crypto_box_open_detached(m, c, mac, n, pk, sk) ==
  crypto_secretbox_open_detached(m, c, mac, n, hsalsa20(<<"point", crypto_scalarmult(sk, pk)>>, 0))

crypto_box_open_easy(m, c, n, pk, sk) == crypto_box_open_detached(m, c, TagOf(c), n, pk, sk)
-----------------------------------------------------------------------------
(* ChaCha20-Poly1305 *)

encode_length(aadlen, mlen) == [i \in 1 .. Poly |-> {<<"lengths", aadlen, mlen, i>>}]

aead_encrypt_poly(c, aad, b) ==
  LET st == blocks_continue(blocks_continue(<<>>, aad), c)
  IN finish(Append(st, encode_length(Len(aad), Len(c))), SubSeq(b, 1, KeyBytes))

(* The one-time key is block 0, the data starts at block 1.                *)
aead_encrypt(m, aad, k, n) ==
  LET c == chacha20(m, k, n, 1)
  IN [c |-> c, mac |-> aead_encrypt_poly(c, aad, chacha20_key_block(k, n, 0))]

(* Mutant: decrypted before the tag is compared.                           *)
aead_decrypt_early(m, c, mac, aad, k, n) ==
  LET rmac == aead_encrypt_poly(c, aad, chacha20_key_block(k, n, 0))
  IN [ret |-> IF cmp_bytes(mac, rmac) = 0 THEN 0 ELSE 1, m |-> chacha20(c, k, n, 1)]

aead_decrypt(m, c, mac, aad, k, n) ==
  LET rmac == aead_encrypt_poly(c, aad, chacha20_key_block(k, n, 0))
  IN IF cmp_bytes(mac, rmac) = 0 THEN [ret |-> 0, m |-> chacha20(c, k, n, 1)]
                                 ELSE [ret |-> 1, m |-> m]
-----------------------------------------------------------------------------
(* Bare streams: crypto_stream and crypto_stream_xor clear their output    *)
(* first; salsa20 then reads the message, or the zeros if it was in the    *)
(* same buffer.                                                            *)
crypto_stream(len, n, k) == salsa20(Zeros(len), hsalsa20(k, n[1]), n[2], 0)
crypto_stream_xor(m, n, k, inplace) ==
  salsa20(IF inplace THEN Zeros(Len(m)) ELSE m, hsalsa20(k, n[1]), n[2], 0)
-----------------------------------------------------------------------------
(* Sealing.  Callers never use a nonce twice under a key.                  *)
SecretKey == <<"key", "secretbox">>
AeadKey   == <<"key", "aead">>
PairKey(p, q) == <<"pair", {p, q}>>

Fresh(key, n) == \A b \in sent : ~(b.key = key /\ b.n = n)

Send(key, n, aad, msg, out) ==
  /\ sent' = sent \union {[key |-> key, n |-> n, aad |-> aad, msg |-> msg, c |-> out.c, mac |-> out.mac]}
  /\ UNCHANGED <<opened, call, words>>

SealBox(p, q, n, len) ==
  LET id  == Cardinality(sent) + 1
      m   == Zeros(Pad) \o Message(id, len)
      pk  == crypto_box_keypair(q)
      k   == crypto_box_beforenm(pk, p)
  IN /\ Fresh(PairKey(p, q), n)
     /\ \E out \in {crypto_box_easy(m, n, pk, p), crypto_box_detached(m, n, pk, p),
                    crypto_box_easy_afternm(m, n, k), crypto_box_detached_afternm(m, n, k)} :
          Send(PairKey(p, q), n, <<>>, Message(id, len), out)

SealSecretBox(n, len) ==
  LET id == Cardinality(sent) + 1
      m  == Zeros(Pad) \o Message(id, len)
  IN /\ Fresh(SecretKey, n)
     /\ \E out \in {crypto_secretbox_easy(m, n, SecretKey), crypto_secretbox_detached(m, n, SecretKey)} :
          Send(SecretKey, n, <<>>, Message(id, len), out)

SealAead(n, aad, len) ==
  LET id == Cardinality(sent) + 1
  IN /\ Fresh(AeadKey, n)
     /\ Send(AeadKey, n, aad, Message(id, len), aead_encrypt(Message(id, len), aad, AeadKey, n))
-----------------------------------------------------------------------------
(* What may arrive: a box as it was sent, or under another nonce, with the *)
(* tag of another, with a byte changed, one byte shorter or longer, or     *)
(* with the first of its data taken for additional data.                   *)
Body(b) == IF b.key = AeadKey THEN b.c ELSE SubSeq(b.c, Pad + 1, Len(b.c))
Tag(b) == IF b.mac # <<>> THEN b.mac ELSE TagOf(b.c)

Flip(s, i) == [s EXCEPT ![i] = SymDiff(@, {<<"flip", 0>>})]

Arriving(b) ==
  LET w == [n |-> b.n, aad |-> b.aad, body |-> Body(b), mac |-> Tag(b)]
  IN {w} \union {[w EXCEPT !.n = n] : n \in Nonce}
     \union {[w EXCEPT !.mac = Tag(x)] : x \in sent}
     \union {[w EXCEPT !.body = Flip(@, i)] : i \in DOMAIN w.body}
     \union {[w EXCEPT !.mac = Flip(@, i)] : i \in DOMAIN w.mac}
     \union {[w EXCEPT !.body = SubSeq(@, 1, Len(@) - 1)], [w EXCEPT !.body = Append(@, {})],
             [w EXCEPT !.aad = Append(@, {})]}
     \union {[w EXCEPT !.body = SubSeq(@, i + 1, Len(@)), !.aad = @ \o SubSeq(w.body, 1, i)]
               : i \in DOMAIN w.body \intersect {1, Poly}}

(* Buffers before the call; what is in front of a detached box is ignored. *)
Stale(len) == [i \in 1 .. len |-> {<<"stale", i>>}]
Easy(w) == Zeros(Off) \o w.mac \o w.body
Detached(w) == Stale(Pad) \o w.body

Opens(key, w, out) == opened' = [key |-> key, w |-> w, ret |-> out.ret, m |-> out.m]

(* q opens what it takes to be from p.                                     *)
OpenBox(p, q, b) ==
  LET pk == crypto_box_keypair(p)
      k  == crypto_box_beforenm(pk, q)
  IN /\ b.key # AeadKey
     /\ \E w \in Arriving(b) :
          LET m == Stale(Pad + Len(w.body))
          IN \E out \in {crypto_box_open_easy(m, Easy(w), w.n, pk, q),
                         crypto_box_open_detached(m, Detached(w), w.mac, w.n, pk, q),
                         crypto_box_open_easy_afternm(m, Easy(w), w.n, k),
                         crypto_box_open_detached_afternm(m, Detached(w), w.mac, w.n, k)} :
               Opens(PairKey(p, q), [w EXCEPT !.aad = <<>>], out)
     /\ UNCHANGED <<sent, call, words>>

OpenSecretBox(b) ==
  /\ b.key # AeadKey
  /\ \E w \in Arriving(b) :
       LET m == Stale(Pad + Len(w.body))
       IN \E out \in {crypto_secretbox_open_detached(m, Detached(w), w.mac, w.n, SecretKey),
                      crypto_secretbox_open(m, Easy(w), w.n, SecretKey)} :
            Opens(SecretKey, [w EXCEPT !.aad = <<>>], out)
  /\ UNCHANGED <<sent, call, words>>

OpenAead(b) ==
  /\ b.key = AeadKey
  /\ \E w \in Arriving(b) :
       Opens(AeadKey, w, aead_decrypt(Stale(Len(w.body)), w.body, w.mac, w.aad, AeadKey, w.n))
  /\ UNCHANGED <<sent, call, words>>

(* A secret box, as crypto_secretbox_easy left it in its buffer, given to  *)
(* crypto_secretbox_open_easy; marked for the properties.                  *)
OpenSecretBoxEasy(b) ==
  LET w   == [n |-> b.n, aad |-> <<>>, body |-> Body(b), mac |-> Tag(b)]
      out == crypto_secretbox_open_easy(Stale(Len(b.c)), b.c, b.n, SecretKey)
  IN /\ b.key = SecretKey /\ b.mac = <<>>
     /\ opened' = [key |-> SecretKey, w |-> w, ret |-> out.ret, m |-> out.m, easy |-> TRUE]
     /\ UNCHANGED <<sent, call, words>>
-----------------------------------------------------------------------------
CallStreams(s) ==
  LET m == Message(0, s.len)
      k == <<"key", "stream">>
  IN /\ call = None
     /\ \E n \in Nonce :
          call' = [m |-> m, chacha |-> chacha20(m, k, n, s.ctr), vec |-> vec_chacha20(m, k, n, s.ctr),
                   stream |-> crypto_stream(s.len, n, k), xor |-> crypto_stream_xor(m, n, k, FALSE),
                   twice |-> crypto_stream_xor(crypto_stream_xor(m, n, k, FALSE), n, k, FALSE)]
     /\ UNCHANGED <<sent, opened, words>>

Word == [i \in 0 .. 15 |-> <<"w", i>>]
Vectors(st) == [r \in 0 .. 3 |-> [c \in 0 .. 3 |-> st[4 * r + c]]]
Transpose(st) == [i \in 0 .. 15 |-> st[4 * (i % 4) + i \div 4]]

Round ==
  /\ words.scalar = Word
  /\ words' = [scalar |-> double_round(words.scalar), vec |-> vec_double_round(words.vec),
               salsa |-> salsa_double_round(words.salsa)]
  /\ UNCHANGED <<sent, opened, call>>

Init ==
  /\ sent = {} /\ opened = None /\ call = None
  /\ words = [scalar |-> Word, vec |-> Vectors(Word), salsa |-> Word]

Seal ==
  /\ Cardinality(sent) < MaxSent
  /\ \E n \in Nonce, len \in Lengths :
       \/ \E p, q \in Party : p # q /\ SealBox(p, q, n, len)
       \/ SealSecretBox(n, len)
       \/ \E aad \in Aad : SealAead(n, aad, len)

Open ==
  \E b \in sent :
    \/ \E p, q \in Party : p # q /\ OpenBox(p, q, b)
    \/ OpenSecretBox(b) \/ OpenAead(b) \/ OpenSecretBoxEasy(b)

(* The caller is done with the outcome; calls keep no state of their own.  *)
Done == opened # None /\ opened' = None /\ UNCHANGED <<sent, call, words>>

(* Boxes, streams and rounds share nothing; each is explored alone.        *)
Next ==
  \/ opened = None /\ call = None /\ words.scalar = Word /\ (Seal \/ Open)
  \/ Done
  \/ sent = {} /\ call = None /\ (Round \/ \E s \in Streams : CallStreams(s))

Spec == Init /\ [][Next]_vars
-----------------------------------------------------------------------------
(* Correctness *)

(* The box a call was given, if it is one that was sealed under the key it *)
(* was opened with.                                                        *)
Genuine(b) ==
  /\ b.key = opened.key /\ b.n = opened.w.n /\ b.aad = opened.w.aad
  /\ Body(b) = opened.w.body /\ Tag(b) = opened.w.mac

Plain(b) == IF b.key = AeadKey THEN b.msg ELSE Zeros(Pad) \o b.msg

(* crypto_box, crypto_secretbox and the AEAD: what one party seals with    *)
(* any of the calls, the other opens with any of the calls that open, and  *)
(* finds the message behind padding of zeros.  crypto_secretbox_open_easy  *)
(* does not open what crypto_secretbox_easy sealed.                        *)
BoxesOpen == opened # None => \A b \in sent : Genuine(b) => opened.ret = 0 /\ opened.m = Plain(b)

(* Any call that opens but crypto_secretbox_open_easy.                     *)
OtherCall == opened # None /\ "easy" \notin DOMAIN opened

(* The calls that open, crypto_secretbox_open_easy left aside: what one    *)
(* party seals with any call, the other opens with any of these.           *)
OtherCallsOpen == OtherCall => BoxesOpen

(* The calls that open, crypto_secretbox_open_easy left aside: whatever    *)
(* else arrives (a byte changed, the tag, nonce, peer or key of another,   *)
(* data cut off or counted as additional data) is refused, and a refused   *)
(* call has not touched the output buffer.                                 *)
OnlyGenuine ==
  OtherCall => \/ \E b \in sent : Genuine(b)
               \/ opened.ret # 0 /\ opened.m = Stale(Len(opened.m))

Atoms(s) == {a \in UNION {s[i] : i \in DOMAIN s} : a[1] = "ks"}
TagKey(b) == (CHOOSE a \in Tag(b)[1] : TRUE)[2]

(* salsa20, chacha20 and the constructions over them: a byte of keystream  *)
(* encrypts one byte of one box, or is part of one one-time key, and the   *)
(* bytes of a one-time key are never sent.                                 *)
KeystreamOnce ==
  \A b \in sent :
    /\ \A i \in DOMAIN b.c : Cardinality(Atoms(<<b.c[i]>>)) <= 1
    /\ Cardinality(Atoms(b.c)) = Len(Body(b))
    /\ Atoms(b.c) \intersect Atoms(TagKey(b)) = {}
    /\ \A x \in sent \ {b} :
         (Atoms(b.c) \union Atoms(TagKey(b))) \intersect (Atoms(x.c) \union Atoms(TagKey(x))) = {}

(* Hacl_Chacha20_Vec128: three blocks at a time, then one at a time, then  *)
(* a piece of one, give what the word-by-word cipher gives, for every      *)
(* length and every first counter.  crypto_stream_xor undoes itself and    *)
(* xors what crypto_stream gives.                                          *)
StreamsAgree ==
  call # None => /\ call.vec = call.chacha
                 /\ call.twice = call.m /\ call.xor = Xor(call.m, call.stream)

(* The vector rounds compute word for word what the scalar rounds do, and  *)
(* Salsa20's row round is its column round on the transposed state.        *)
RoundsAgree ==
  /\ words.vec = Vectors(words.scalar)
  /\ words.scalar # Word =>
       words.salsa = Transpose(salsa_columns(Transpose(salsa_columns(Word))))

(* Vector and scalar ciphers agree, in their rounds and in their modes.    *)
VectorsAgree == StreamsAgree /\ RoundsAgree
=============================================================================
