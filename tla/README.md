# TLA+ models of HACL*

HACL* is a library of cryptographic primitives in F*, extracted to C. This
project models

* `secure_api/`: an AEAD construction with *ideal state* (a PRF table, one-time
  MAC logs, an AEAD log), which a Writer and a Reader change call by call;
* `apps/experimental/pneutube/`: a file transfer tool, in which concurrent
  senders talk over TCP to one sequential receiver through C bindings for files
  and sockets. Many of its obligations are assumed in F*, and the bindings are
  outside of F*;
* the C library itself, `snapshots/hacl-c/`: SHA-2 and HMAC, the stream ciphers,
  ChaCha20-Poly1305 and the NaCl boxes, the limb arithmetic under Poly1305,
  X25519 and Ed25519;
* what is around it in trusted C: the sources of randomness
  (`code/trusted/random/`) and the key schedule of the QUIC provider.

Paths below are relative to `src/`.

## 1. Inventory

### Components, their state and their operations

| Component | State | Operations | Talks to |
|---|---|---|---|
| AEAD, `secure_api/aead/Crypto.AEAD*.fst` | the AEAD log; the PRF instance; the static MAC key | `gen`, `coerce`, `genReader`, `leak`, `encrypt`, `decrypt` | calls PRF and MAC; `Crypto.AEAD.Main.fsti` is its client interface |
| PRF, `secure_api/prf/Crypto.Symmetric.PRF.fst` | key; table from (iv, counter) to MAC states, pads or blocks | `gen`, `coerce`, `prf_sk0`, `prf_mac`, `prf_blk`, `prf_enxor`, `prf_dexor` | allocates one-time MAC states |
| One-time MAC, `secure_api/uf1cma/` | key (r, s), log of at most one (text, tag); an accumulator with a ghost log of words | `start`, `update`, `mac`, `verify` | called by AEAD, created by PRF |
| MAC encoding, `Crypto.AEAD.Encoding.fst` | none | `accumulate` (`add_bytes`, lengths), the function `encode_both` | feeds the accumulator |
| Flags, `secure_api/utils/Flag.fsti` | constants per instance | `prf`, `mac1`, `safeId`, ... | choose the ideal or the real branch everywhere |
| PneuTube sender, `Hacl.Tube.Send.fst` | an open file and its offset, a connection, the nonce's sequence number | `file_send` | file and socket bindings, NaCl boxes |
| PneuTube receiver, `Hacl.Tube.Receive.fst` | one `state` buffer reused by all sessions, the file being written | `file_recv`: listen, accept, fields, header, fragments, close | the same |
| Bindings, `pneutube/c_bindings/*.c` | descriptors, mappings, offsets | open, next buffer, close; connect, listen, accept, read, write, close | the operating system |
| PneuTube command line, `tube.c` | options | parse, send, receive, keygen | starts one of the two |
| SHA-2, `Hacl_SHA2_{256,384,512}.c` | chaining value, block counter | `init`, `update`, `update_multi`, `update_last`, `finish`, `hash` | HMAC, Ed25519 |
| HMAC and HKDF, `Hacl_HMAC_SHA2_256.c`, `Crypto.HKDF.fst` | scratch buffers | `hmac`, `extract`, `expand` | SHA-2 |
| QUIC provider, `quic_provider.c` | secrets and keys handed to clients | `derive_secret`, `derive_key`, `derive_plaintext_secrets`, ... | HKDF, AEAD |
| Randomness, `drng.c`, `Hacl_Unverified_Random.c` | a static variable with the detected features | detection, `rdrand_get_n_uints`, `rdrand_get_bytes`, `randombytes` | `cpuid`, the processor, `/dev/urandom` |
| Stream ciphers, `Hacl_Chacha20*.c`, `Hacl_Salsa20.c` | a cipher state with its counter | scalar and vector rounds, counter modes | boxes, AEAD |
| ChaCha20-Poly1305, `Hacl_Chacha20Poly1305.c` | caller's buffers | `encrypt`, `decrypt` | cipher, Poly1305, `cmp_bytes` |
| NaCl API, `NaCl.c`, `haclnacl.c` | caller's buffers | boxes and secret boxes, easy, detached and padded; streams; signatures | Salsa20, Poly1305, Curve25519 |
| Field and bignum arithmetic | limbs in machine words | sums, differences, products, carries, contraction; Barrett reduction | Poly1305, Curve25519, Ed25519 |
| Poly1305, `Hacl_Poly1305_64.c` | accumulator, r | `init`, `update`, `update_last`, `finish` | limbs |
| Curve25519, `Hacl_Curve25519.c` | two points of the ladder | `crypto_scalarmult` | limbs |
| Ed25519, `Hacl_Ed25519.c` | points, scalars | `secret_to_public`, `sign`, `verify` | limbs, SHA-512 |

### What is hard

* *Ordering in the AEAD.* A Reader may decrypt (any forgery) under a nonce
  before the Writer encrypts under it. That already allocates the nonce's MAC
  state, which `encrypt` must later find unset and otherwise unused.
* *Atomicity.* One `encrypt` updates three pieces of ideal state in separate
  calls. The invariant `inv` is broken in between and re-established at the end.
* *Modes.* The same code runs at several idealisation levels. What is memoised,
  sampled, looked up or recomputed differs, and only some levels have a client
  obligation of fresh nonces.
* *Boundaries.* The last block, the block counter against `maxCtr`, texts that
  are not whole MAC words; in the hashes, when the padding needs a second block;
  in the ciphers, which counter the last piece uses.
* *PneuTube's two size computations*: the number of fragments comes from the
  padded size and the length of the last one from the real size.
* *Failure.* Partial and failing writes, resets, senders that die between two
  fragments, a receiver that ends at the first failed session while others
  queue, results of C functions read as F* Booleans; an `rdrand` that gives
  nothing in the middle of a request, a short read of `/dev/urandom`.
* *Two threads* that detect the processor's features into one static variable.
* *Reuse.* Hash states after `finish`, HMAC's one buffer for pad and inner digest,
  the padding of a box that holds the one-time key for a while.
* *Lazy reduction.* Limbs exceed their size between reductions, by an amount that
  depends on which operations came before. No test input is likely to hit the
  carry that is one bit too wide.

### What makes each part correct

* AEAD: no key stream block encrypts twice; only what was encrypted is accepted,
  with its plaintext; what was encrypted is accepted; the logs only grow; calls
  return; altogether, it implements an ideal AEAD.
* MAC: the incremental accumulator computes the polynomial of the words logged;
  the encoding is injective.
* PneuTube: no nonce repeats in a session; a completed session delivered the
  file; a failed one leaves a correct part of one file; senders get served, or
  at least return.
* Hashes: whatever the pieces and the history of the state, the digest is the
  hash of the message; HMAC, HKDF and the prefixed hashes are their standards';
  keys derived along different paths differ.
* Randomness: a request reports no more than it filled and ends; no thread is told of
  a feature that is not there.
* Boxes: what one call seals the matching ones open, but for one pair (section 5); nothing else opens, and nothing is written
  before the tag is compared; no byte of key stream is used for two messages or leaks.
* Arithmetic: every operation on limbs is the one on numbers; no word overflows
  in any of the programs; encodings are canonical; a signature
  verifies, and its twin modulo the order does not.

The hazards, each at its line and with the properties that cover it, are in
`PROJECT.json`.

## 2. Modules

| Module | What it is |
|---|---|
| `AEADIdeal` | abstract specification: a log in which decryption is a lookup |
| `AEAD` | `gen`, `coerce`, `encrypt`, `decrypt` with the PRF and the one-time MAC, one action per call; its properties; its refinement of `AEADIdeal` |
| `AEADProofs` | TLAPS theorems about `AEAD` |
| `Encoding` | `encode_both` and `mac` as functions of whole texts |
| `Accumulate` | the accumulation, word by word, checked against `Encoding` |
| `AccumulateProofs` | theorems about both |
| `Induction` | induction and recursion over numbers, and facts about sequences and quotients, for the other proofs |
| `Tube` | senders, receiver, bindings and network, with the command line's hide option |
| `TubeProofs` | theorems about `Tube` |
| `SHA2`, `KDF` | hashes, HMAC and prefixed hashes; HKDF and QUIC's derivations |
| `Hashing` | their clients: pieces fed to a state that is reused, one-shot calls, a key schedule |
| `HashingProofs`, `ScheduleProofs` | theorems about the three |
| `Random` | feature detection by several threads; requests for random bytes |
| `RandomProofs` | theorems about `Random` |
| `Ciphers` | stream ciphers, scalar and vector; Poly1305's calls, `cmp_bytes` |
| `Boxes` | NaCl boxes and ChaCha20-Poly1305 between parties over a channel that alters |
| `BoxesProofs` | theorems about `Boxes` and `Ciphers` |
| `Limbs`, `BignumQ`, `Poly1305` | arithmetic on limbs, modulo the field's prime and the group's order; the MAC |
| `Curve25519`, `Ed25519` | the ladder, points, encodings and signatures, on values with limb bounds |
| `Arith` | composes these five, with one action per API call; `MCArith` runs it beside `Accumulate` |
| `MC*` | instances for TLC |

Definitions whose comment begins with "Mutant" are deliberately wrong variants
of the definition that follows them. Nothing uses them; replacing the
definition by its variant must make TLC refute a property, which shows that the
property can fail.

### AEAD

One instance `i` is modelled. The code is sequential, so exactly one call runs
at a time. `pc` is the call that the running `encrypt` or `decrypt` makes next
and `frame` holds its arguments and locals:

| Actions | Code |
|---|---|
| `gen`, `coerce` | key generation, and `prf_sk0` for the static MAC key |
| `encrypt` -> `enxor` (per block) -> `mac` -> `do_ideal` | `Encrypt.encrypt`: `prf_mac_enc`, `counter_enxor`, `accumulate` + `mac`, `do_ideal` (ideal MAC only) |
| `decrypt` -> `verify` -> `dexor` (per block) | `Decrypt.decrypt`: `prf_mac_dec`, `accumulate` + `verify`, `counter_dexor` (only if verified) |

* `prf_mac`, `prf_blk`, `prf_enxor`, `prf_dexor` are the branches of the code:
  memoised and sampled when the PRF is ideal, `Compute` otherwise; with `safeId`
  the ciphertext is sampled and recorded as a pad with both texts.
* Where an ideal lookup must succeed (`prf_dexor`, `get_verified_plain`) it is
  a guard. If it could fail, the call would block, and `CallsReturn`
  and TLC's deadlock check would report it.
* The only obligation on clients is the one the F* types state: with ideal MACs,
  `encrypt` needs a fresh nonce. `decrypt` takes any ciphertext and tag, so all
  forgeries over the data sets are tried.
* The table is a set of entries although the code keeps a sequence and takes the
  first match; `UniqueEntries` is what makes the two the same.
* `sent` is auxiliary: all messages `encrypt` returned, also in the modes that
  keep no log.
* `genReader` shares the Writer's state and `leak` returns the key: neither
  changes state. Ciphers, XOR, field and tag are constants.
* `akey_gen` creates a zeroed buffer for the static key and never randomises it
  in the ideal branch; the model does the same (`ZeroKey`).

### Encoding and Accumulate

`Encoding` defines the words for both MACs (lengths in bytes and little-endian
for POLY1305, in bits and big-endian for GHASH), their reversed order, and the
polynomial. `encode_bytes`, recursive in the code, is given by the place of each byte; the lemmas
`EncodeEmpty`, `EncodeLast` and `EncodeLoop` derive the three cases of the code's recursion. `Accumulate` is the loop of the code: whole words, the padded rest,
the next argument, the word of lengths, `finish`. Word and byte sizes are
parameters. `MCAEAD` uses this encoding and this MAC, so the AEAD runs
authenticate what the code does.

### Tube

* `snd[s]`: program counter and locals of one run of `tube send`. The actions
  follow `file_send`: `file_open`, `tcp_connect`, `file_flush_all` (one field
  per step), `file_send_loop` (one fragment), `file_send_last`, `file_send_1`.
* `rcv`: the receiver: `tcp_listen`, `tcp_accept`, `recv_field`,
  `file_recv_loop_2`, `file_recv_close`. Any error goes to `Exit`.
* `conn[s]`: a connection, with the messages in flight and their lengths. The
  reader asks for a number of bytes; if it asks for a different number than a
  message has, what it gets is not that message and its box does not open. The states are
  `none`, `open`, `closed` (by the sender), `shut` (by the receiver), `reset`
  and `broken` (the next write raises SIGPIPE).
* `disk`: the receiver's files; a byte is `<<sender, position>>`, a zero, or
  a byte from outside a mapping.
* `write`, `Break`, `Die` and `SigPipe` model the operating system (marked
  external): short writes, resets, kills. With `Faults = TRUE` any
  call that can fail may fail.
* A box opens exactly under the keys, stream identifier and sequence
  number it was sealed under. Stream identifiers of different senders differ.
* `OptionOk` and `roundup` are the option `-h` (`--hidesize`) of `tube.c`: the number times a
  power of 1024 (`Kilo` in the model) in the range of `unsigned int`, and `abort`
  on another unit.

### SHA2, KDF and Hashing

A byte is a term: a number, a byte of a digest, or a byte under an HMAC pad. The
compression function is free: the chaining value is the sequence of blocks
compressed, so two digests are equal exactly if the same blocks went in. Around it
everything is kept: the counter with its width, the choice of one or two final
blocks, both forms of `pad0len` (that of SHA2_512 differs from the two others), the
encoded length, HMAC's reuse of one buffer, the
rounded-up number of HKDF's blocks and its one-byte counter, the 323-byte buffer
of labels. `Hashing` has the actions `CallInit`, `CallUpdate`, ..., on a state that
is reused, one-shot calls, and a schedule that derives secrets and keys in any order.

### Random

`det[t]` is a thread inside `get_drng_support`: it reads the static variable,
clears it, and ors each bit in by a read and a write of its own. `job` is
a request under way: words of memory are drawn one `rdrand` at a time, and
each may fail until `RDRAND_RETRIES` are used up. A byte of memory is "old", "rand"
or "zero", so what was filled can be compared with what was reported. An access
outside the memory ends in the state "wild", which `RequestsCounted` forbids (and the
code reaches: section 5). `CountedButSkipped` is the part of it that holds, for the destinations that
`rdrand_get_bytes` does not leave (`Splits`).

### Ciphers and Boxes

A byte is the *set* of things xored into it: xor is symmetric difference, {} is
zero, and a byte of key stream is an atom that names cipher, key, nonce, the counter of the
rounds, the counter added back and the place in the block. This makes key stream
reuse and leaks visible. Rounds are computed on terms, for words and for
vectors (`RoundsAgree`). Poly1305 is free in the blocks it is fed. `Boxes` has
one action per API call, with the padding and offsets
each call computes for itself; `Seal` and `Open` take any pair of
calls, and what is opened may have been
mixed, cut, grown, flipped or shifted between data and additional data.
Curve25519 is a multiset of the secrets multiplied in.

### Limbs, BignumQ, Poly1305, Curve25519, Ed25519 and Arith

The functions on limbs are those of the code, word by word, with every intermediate
result reduced modulo the width of its type. They are instantiated with
proportionally small limbs and words (five 3-bit limbs in 14-bit words and 28-bit products, modulo
2^15 - 3; three limbs modulo 2^11 - 9; five 5-bit limbs for the order) and
compared with arithmetic on numbers. The programs on top (the ladder, point formulas,
inversion, square root) work on a value modulo a small prime *and* a bound on its
limbs at the code's real sizes, in units of 2^48. The bounds say when a word overflows: a
reduced element is 9; a difference adds 64 and its subtrahend must not exceed 63; a product
needs `95 * ua * ub < 2^19`, that is `ua * ub < 5518`. The square of
73 = 9 + 64 (5329) is the tight case, and the code needs it. `Lost` marks a value
that overflowed, and `NoWordOverflows` says that none is ever produced.
The chains of squarings are followed on exponents (`ChainsAreExponents`), at the real size.

## 3. Runs

| Run | Question | Instance |
|---|---|---|
| `aead_ideal` | Does the construction implement the ideal AEAD, keep its invariants, and do calls return? | AES-GCM (static key), `safeId`, 2 nonces |
| `aead_real` | Does decryption invert encryption with nothing idealised, generated or coerced keys, repeated nonces? | ChaCha20-Poly1305 (no static key), 2 keys |
| `tube_ok` | Do concurrent sessions deliver, is everyone served whom the receiver need not refuse, and does a refusal do harm? | 4 senders, three of one file name: two good ones, of which one hides its size, one under a wrong key; and one whose file is too large |
| `tube_faults` | What do faults leave behind, what does success mean, and does anyone hang? | 4 senders, all faults: two good ones of one name, one with too many fragments, one that aborts on its option |
| `tube_hide` | Is a sender served whatever size it hides? *No* | 1 sender that hides up to half a block; see Findings |
| `tube_large` | Is a file past half the range of `int` delivered? *No* | see Findings |
| `hash` | Do pieces, reuse, HMAC, HKDF and the key schedule give what the standards say? | the three variants; blocks of 4 and 8 bytes; counters that wrap |
| `random` | What do failing draws, alignments and racing threads do? | 2 threads; up to 24 bytes at every alignment |
| `random_bytes` | Is every byte that a request reports random, at every length and address? *No* | the same; see Findings |
| `boxes` | Does what was sealed open with every call but one, and nothing else? Do vectors and words agree? | 3 parties, 3 nonces, 2 boxes, all alterations |
| `boxes_easy` | Does it open with every call? *No* | the same; see Findings |
| `arith` | Is the arithmetic right, and do signatures work? Does the AEAD's loop compute the MAC of an injective encoding? | see below; POLY1305 and GHASH, all lengths around one and two words |

The four runs answered *No* must fail: each checks one property, stated in full as the code's own documentation has it,
and its counterexample is a finding. What remains true is checked beside it, with its hypothesis in the statement:
`ServedOrRefused` for `Served`, `CountedButSkipped` for `RequestsCounted`, `OtherCallsOpen` for `BoxesOpen`, and `SessionDelivers`
itself on files that are small enough.

The properties are stated with their comments at the end of each module. Those
that ask most of the code:

* `ImplementsIdeal`: every behaviour is one of the ideal AEAD, in which `decrypt`
  accepts exactly what is in the log.
* `IInv`: `inv` of `Crypto.AEAD.Invariant`, strengthened to hold inside calls.
* `RoundTrip`: also with repeated nonces, what `encrypt` returned
  decrypts to its plaintext.
* `EncodingInjective`, `AccumulateEncodes`.
* `SessionDelivers`, `LastSessionWins`, `PartialCopy`, `OkMeansAll`,
  `ServedOrRefused`, `SendersReturn`.
* `DigestIsHash`, `KeysSeparated`; `DetectionSettles`, `CountedButSkipped`.
* `OnlyGenuine` (with the buffers: a refused box writes nothing), `KeystreamOnce`.
* `ArithmeticAgrees`, `NoWordOverflows`, `EncodingsExact`, `SignaturesExact`.

`RequestsCounted`, `CountedButSkipped`, `VectorsAgree`, `ArithmeticAgrees`, `EncodingsExact` and
`SignaturesExact` are conjunctions of named parts, one per function or concern.

### Bounds, and why they are enough

* AEAD: `maxCtr` leaves room for exactly the longest text, two blocks, so that a
  full block, a short last block and the last allowed counter are all used. Two nonces
  give every order of encryption and decryption under the same and under
  different nonces, because calls under one nonce touch no state of another.
  Blocks have one free bit; the tags are so few that forgeries with the right tag
  occur, and only the MAC log stands against them. With more nonces, blocks or
  tags the theorems below take over. They also cover the levels of idealisation
  between the two that are run (an ideal MAC without `safeId`, say).
* Accumulate: words of four bytes; additional data of up to 4 bytes and text of
  up to 9, so that empty, partial, whole and more than two words occur for the
  text, and empty, partial and whole ones for the additional data. `Arith` and `Accumulate` know
  nothing of each other; in their common run one stands still while the other moves.
* Tube: blocks of 4 bytes, 7-bit words and 5-bit `unsigned int`; files of less than a
  block, a block and a byte, a block and three, exactly two blocks, more than the receiver accepts and more fragments than the
  sender accepts. In `tube_ok` a connection buffers one message, so that senders block in `write` after each; in `tube_faults` two.
  Senders of the same name show overwriting; others queue. The hide size of `tube_ok` is a product that wraps: 5 units of 8 bytes,
  40, are 8 in the `unsigned int`. Faults are unbounded in number and possible in every state.
* `tube_large` scales the range of `int` to 16 with files of 11 and 12 bytes, as
  files between 2 and 4 GiB are to 32 bits.
* Hashing: last pieces of every length up to what one or two final blocks hold;
  messages of 0 and 128, the two bytes padding is made of, so that a
  confusion of padding and message would collide; counters that wrap after 8 and 4
  blocks; keys of HMAC below, at and above a block; four chained secrets, and labels of
  every length up to one more than fits.
* Random: two threads are the smallest race; the destination is shorter than,
  equal to and up to three times a word, at every address modulo 16; two retries
  show success at the first, at the second and failure.
* Boxes: blocks of 6, one-time keys of 3 and tags of 2 bytes; messages that are
  empty, end with the first block and after it. Two boxes under the same or different nonces,
  with a third party, give every mix of what was sent. Streams of up to 7 blocks from
  counters that wrap; the vector ciphers take three blocks at a time, so two
  full rounds of them and a rest occur. The three parties are symmetric.
* Arith: the limbs of operands are extreme values, the ones a sum and a
  difference can have (up to 73) and those around the modulus; all products of
  extreme limbs for Barrett, and all neighbours of the order for the comparison. `mul_modq` gets a second operand below the order
  or, as in `sign`, a scalar above it, up to the largest for which the product has the bits that Barrett's method allows. The curve is
  `-x^2 + y^2 = 1 + d x^2 y^2` over 1021 with 8 * 131 points, chosen like edwards25519. All
  2^11 encodings are decompressed. Inputs of the ladder include points of the twist, of
  small order and not reduced. `Shifts` changes a signature's s by multiples of the order; a signature also arrives under each other key.

`CHECK_DEADLOCK FALSE` is set where the program ends: after the tag is computed,
when all senders are done and the receiver waits or has exited, and after a
call of a function without state has returned.

### Fairness

* `AEAD`: weak fairness of `Step`, the continuation of a call that has begun.
  Calls are straight-line code and loops; nothing in them waits. Clients
  are not obliged to call.
* `Random`: weak fairness of a request under way; its loops block on nothing. No
  fairness for draws that succeed: `RequestsReturn` holds although `rdrand` may
  never answer.
* `Tube`: weak fairness of each sender and of the receiver: the operating system
  runs every process that is not blocked in a read or a write. None for
  faults.

## 4. Theorems

### AEAD

`AEADProofs` proves, for every value of the constants that satisfies the
assumptions, hence for all numbers of nonces, blocks, keys, tags and text
lengths, at all idealisation levels and for both MACs:

| Theorem | Statement |
|---|---|
| `Invariance` | `Spec => []IInv` |
| `TypeCorrect` | `Spec => []TypeOK`; in particular no counter passes `maxCtr` |
| `TableUnique` | `Spec => []UniqueEntries` |
| `KeystreamOnce` | `Spec => []NoKeystreamReuse` |
| `StatefulInvariant` | `Spec => []Inv`, the invariant the F* types of `encrypt` and `decrypt` carry |
| `Authenticity` | `Spec => []Authentic` |
| `LogsGrow` | `Spec => LogsOnlyGrow` |
| `Refinement` | if `safeMac`, then `Spec => ImplementsIdeal` |
| `RoundTrips` | `Spec => []RoundTrip`, also where nonces may repeat |

*Assumptions.* `FlagAssumption`: the implications between flags that `Flag.fsti`
postulates. `BoundAssumption`: room for one block. `DataAssumption`: the inputs
are well-formed texts, and "no log" is not a log. `CipherAssumption` and
`LengthAssumption`: the cipher returns blocks; XOR keeps lengths and is its own
inverse. `MacAssumption`: the MAC returns tags. `EncodeAssumption`: `EncodeBoth` is
injective, which is `lemma_encode_both_inj` of the F* code and which the
theorem `EncodingIsInjective` proves of the byte encoding (below). TLC evaluates all of them in
every AEAD run. No assumption says that tags are hard to forge: in the ideal modes
the MAC log is consulted, as in the code.

*Argument.* `Inv` speaks of the state between calls only and is not inductive.
`IInv` adds

* `LoopInv`: how far the loops are, and that all blocks before the last are full;
* `EncryptInv`: during `encrypt` the nonce is fresh, the MAC key and the blocks
  done are in the table, nothing is above them, and the MAC log is unset until
  `mac` and set after it;
* `DecryptInv`: during `decrypt` the MAC key is in the table and, once verified,
  what is decrypted is a prefix of the plaintext of a matching log entry;
* `FreshInv`: every fresh nonce *but the one being encrypted under* is unused (the
  code's `fresh_nonces_are_unused_except`);
* `LogInv`: one entry per nonce, each refined by the MAC log and the table;
* `RetInv`: an accepted message is in the log.

One lemma says what each PRF operation does to the table, one lemma per
action shows that it preserves `IInv`, and `NextInv` puts them together. Two lemmas carry the
cryptographic argument. `VerifiedIsLogged`: if the MAC log accepts, the nonce is
not fresh (`FreshInv`), so it has an entry, whose MAC is set to its own encoding
(`LogInv`), which by injectivity is the one given. `LoggedIsVerified`, the
converse, is needed for `Refinement`: a rejected message is not in the log.

`RoundTrip` needs one more invariant, `RoundTripInv`, because `sent` is not mentioned by
`IInv`. With ideal MACs every message sent is in the AEAD log (`SentIdeal`), and a decryption of
it is by `LoggedIsVerified` accepted and by `LogInv` the plaintext. Otherwise
(`SentReal`, `FrameReal`, `RetReal`) the ciphertext sent, and the part produced or
undone by the running call, is the text under the key stream, `Stream`, of its
nonce, and the tag the one of the key at the nonce's MAC point. The key stream is either computed
or, in a memoising PRF, in the table, whose entries never change: so
a second `encrypt` under the same nonce uses the same stream, and decryption undoes it.

### The MAC's encoding

`AccumulateProofs`, for every size of words and bytes, every field and all inputs:

| Theorem | Statement |
|---|---|
| `AccumulateIsMAC` | `Spec => []AccumulateEncodes` |
| `EncodingIsInjective` | `Spec => []EncodingInjective` |

*Assumptions.* `EncodingAssumption`: a word has a multiple of four bytes, and bytes have a size. `LengthAssumption` of
`Accumulate`: inputs are byte strings whose lengths, in bytes and in bits, fit a quarter of a word; in the
code `aadmax` and `txtmax` are far below 2^29. Nothing is assumed of the field operations, of `encode` or of `finish`.
TLC evaluates both in the run.

*Argument.* `AccInv` says that the accumulator is the polynomial of the words logged, and that the words still to
come, followed by the log, are those of the arguments so far. A step of the loop keeps it because moving a word
from the text to the log is one case of the recursion of `encode_bytes` and one of `poly` (`PolyCons`). These two
and the bytes of a length (`ShiftedFacts`) are what induction is needed for. The theorems on induction of the library take
an operator as a parameter, which the provers cannot instantiate; module `Induction` derives it from the
well-foundedness of `<`, for sets in the place of predicates.
Injectivity goes from the first word, which determines the lengths (`LengthsDetermine`), to the numbers of words, the words and
each byte (`EncodeDetermines`).

### Hashes, HMAC and HKDF

`HashingProofs` and `ScheduleProofs`, for every size of blocks, digests, lengths and counters and all inputs within the contracts:

| Theorem | Statement |
|---|---|
| `StreamIsHash` | `Spec => []DigestIsHash` |
| `OneShotsAreStandard` | `Spec => []CallsAreStandard` |
| `SizesHold` | `Spec => []TypeOK` |
| `KeysStaySeparated` | `Spec => []KeysSeparated` |

*Assumptions.* `SHA2Assumption`: the encoded length and the 0x80 leave room in a block, a digest is not longer than a
block, sizes and counters are positive. `PiecesAssumption`: `update` gets a block, `update_last` a
string (how long is the action's guard, from the contract). `CallsAssumption`: the inputs of one-shot calls are byte strings whose blocks, those that HMAC and HKDF
put around them included, the counter can count, HKDF is asked for at most 255
digests (the precondition of `hkdf_expand`), and both prefixes fit a block (32 bytes each of 128). `LabelAssumption`: the provider's own labels fit, and the sizes
of its buffers (323 = 3 + 6 + 249 + 1 + 64). `ScheduleAssumption`: the labels of the provider differ where the code tells keys apart by them, a
connection identifier is at most the 8 bytes of a `uint64_t`, and a key is at most 255 digests. TLC evaluates all of them in
the run. Nothing relates the numbers otherwise: the proofs hold for the sizes of the three variants and for the small ones of the instance.

*Argument.* `StreamInv` is the inductive invariant. `DigestIsHash` alone is not inductive: it says
nothing before `finish`. While a state is open, `Fed` says that its chaining value is the sequence of the blocks of the
message fed so far and that its counter is their number *modulo the counter's range*: a counter that wraps does not break the invariant, only the conclusion of
`update_last`. After `update_last`, the digest is the hash. The steps in between:

* `MultiIs`: `update_multi` appends the blocks of its data in order and counts them. The recursion is given a closed form, and
  `SetInduction` identifies the two.
* `PadFacts`, `PadLeast`: one or two blocks, either form of `pad0len` gives the one number of zeros that aligns the message. This is where
  `LastFits`, the contract of `update_last`, is needed: with more the two forms differ.
* `PaddedIs`, `FinalIs`, `LastIs`: the buffer of final blocks is byte for byte the end of the padded message, so the
  blocks compressed are all of the padded message's.
* `RestIs`, `HashIs`, `BlockAndRestIs`: whole blocks and then the rest, from a new state or after a first block; `PrefixIs`
  is the case distinction on whether the message fits behind the prefixes.
* `WrapIs`, `FrontIs`, `HmacIs`: the key fills a block, hashed first or not, and the inner digest is read back from the front of the buffer of
  the inner pad.
* `BlockOfIs`, `TilIs`, `HkdfNext`, `ExpandIs`: the blocks of the RFC's recursion exist and are unique (`TExists`, `TUnique`),
  the i-th step computes the i-th, up to 255 the one-byte counter is exact, and the cut keeps the
  first bytes.
* `SizesInv` is the invariant behind `TypeOK`. That the info of a label fits depends on the hash of the secret, and that a secret derived in two steps is
  as long as a digest on both labels' being accepted: a refused `label_exporter` would leave an empty secret (`DerivedSecret`).

`KeysSeparated` is shown by reading derivations backwards. Digests are free terms, which is what collision resistance
stands for here; that nothing *around* the digests lets two inputs meet is what is proved. From the outside in: a padded message
determines the message (it ends with its length), an HMAC its key and its data, a block of HKDF its number and its
info, and an info its label. So a byte of a key or an IV names the secret and the label
it came from, and a byte of a secret names its parent, or the connection identifier and the direction.
The invariant, `SeparateInv`, says that every secret `Stems` from a connection identifier and a direction or from a secret in use and a label,
as its *path* tells, that every key is the one of a secret in use, and that secrets that share a byte have one path (`Apart`). A derivation keeps it
(`StemsApart`): a byte shared with another secret is one shared by their parents, which are apart.

### Boxes and stream ciphers

`BoxesProofs`, for every size of blocks, keys, tags and counters, any number of parties, nonces and boxes, and messages of any length:

| Theorem | Statement |
|---|---|
| `OtherCallsAlwaysOpen` | `Spec => []OtherCallsOpen`; with `crypto_secretbox_open_easy` it is false (`boxes_easy`) |
| `OnlyGenuineOpens` | `Spec => []OnlyGenuine` |
| `KeystreamUsedOnce` | `Spec => []KeystreamOnce` |
| `VectorsAlwaysAgree` | `Spec => []VectorsAgree` |

*Assumptions.* `CiphersAssumption`: a one-time key fits a block of key stream, a tag is not longer than a key.
`BoxesAssumption`: nonces have two parts, additional data are strings, a message has no more
blocks than ChaCha20's counter counts after block 0 (in the code a length has 32 bits, so that it has far fewer), and a stream starts
from a word of the counter's width. TLC evaluates both in the run. Key stream, HSalsa20 and tags are free terms: what is proved is
that the constructions feed and cut them correctly.

*Argument.* `BoxesInv` says of every box sent that it is what one of the sealing calls makes of its key, nonce and message (`SentInv`),
that no two boxes share key and nonce (`OnceInv`), and of the call that opened what came of what it was given (`OpenedInv`).

* Counter mode is a loop of blocks and a last piece; `ModeIs` gives its i-th byte: the message's, under the byte of key stream at
  `i % Block` of block `i \div Block`. All sealing and opening calls get closed forms from it, in which the four conventions of padding are visible.
* `CellOnce`, `TextOnce`, `KeyTextApart`: two places of one message, or of two boxes, have different bytes of key stream, and
  the one-time key others again. Here the bound on lengths is needed: one block more, and ChaCha20's counter is back at the key's block.
* `BoxAccOnce`, `AeadAccOnce`: the blocks fed to Poly1305 determine what was authenticated: a short last block is told from a padded one, and the block of lengths tells
  additional data from ciphertext.
* `TagOnce`: so a tag determines key, nonce, additional data and ciphertext. A box that opens was therefore sealed (`OnlyGenuine`), and one that was sealed
  opens (`OtherCallsOpen`), because decryption xors the same key stream again.

`VectorsInv` is about the two implementations of ChaCha20. After j blocks the counter in the vector state is the
scalar one, the wrap at 2^32 included (`VecNext`), both where the rounds start and where the state is added back; hence three blocks at a time are three blocks
(`VecThree`), m times three by induction over the recursive function (`VecBlocks3`), and one or two
more and a last piece complete them (`VecIs`: `vec_chacha20` is `chacha20`, for all inputs). Of the rounds, `VecDoubleRoundIs` shows for every state
that four columns side by side are one round on rows, and that the diagonals are brought into columns, and back, by turning rows 1 to 3;
`SalsaRoundIs` that Salsa20's row round is the column round of the transposed state.

### PneuTube

`TubeProofs`, for any number of senders, file names, sizes, hide sizes, block and buffer
sizes, and faults in any number:

| Theorem | Statement |
|---|---|
| `TubeTypeCorrect` | `Spec => []TypeOK` |
| `TubeHideRounds` | `Spec => []HideRounds` |
| `TubeNonceOnce` | `Spec => []NonceOnce` |
| `TubeOkMeansAll` | `Spec => []OkMeansAll`: all fragments sealed, none cut short; not that the last write succeeded |
| `TubePartialCopy` | if `SmallFiles`, then `Spec => []PartialCopy` |
| `TubeSessionDelivers` | if `SmallFiles`, then `Spec => SessionDelivers` |
| `TubeLastSessionWins` | if `SmallFiles` and no call fails, then `Spec => []LastSessionWins` |
| `TubeRefusalKeepsFiles` | if `SmallFiles`, `AllHidesFit` and no call fails, then `Spec => []RefusalKeepsFiles` |

*Assumptions.* `TubeAssumption`: sizes are positive, files fit their 64-bit words, the number of
the hide option fits `unsigned int`, and the sum of the largest file the receiver accepts and
the largest hide size does not wrap. `BitAndAssumption`: a bitwise and is at most either operand, and
under a mask of ones it is the remainder. TLC evaluates both in every Tube run.
`SmallFiles` is a hypothesis, not an assumption: the files the receiver accepts are, with their
padding and one block, below half the range of `int` (2 GiB in the code). It cannot be dropped:
`tube_large` is a counterexample. Nor can the absence of faults for
`LastSessionWins`: a broken session leaves part of a file, and that is what `PartialCopy` is about.
`AllHidesFit` is a hypothesis as well: of each acceptable file the padded size leaves, divided by the block size,
the same remainder as the file or none. It holds without padding and with padding to multiples of the block size, and
cannot be dropped: otherwise sender and receiver disagree about the last fragment (section 5), and the receiver
exits in the middle of a file: `tube_hide` is a counterexample. `TubeOk.cfg` satisfies all three hypotheses.

*Argument.* The inductive invariant `IInv` ties the two processes together.

* `SndInv`: a sender's counter, its place in `file_send` and the numbers it has sealed under
  correspond: at the loop with `i` fragments done it has sealed 0 to `i`. `NonceOnce` and
  the first part of `OkMeansAll` follow; the number of the last fragment, computed afresh as `fragments + 1`, is the one
  that continues the loop's.
* `ConnInv`: a connection carries only what its own sender makes (`Sent`): fields, and
  fragment n with the bytes from `(n - 1) * blocksize`; or a message cut short.
* `BacklogInv`: a sender waits in the backlog at most once, with a connection.
* `RcvInv`: the fields stored so far are those of the sender it reads from, and `left` and
  `seqno` count the announced size down: `hsize = left + (seqno - 1) * blocksize`.
* `DiskInv`: the file being written has room for its size and one block of padding.

`UncutInv`, inductive on top of it, says that a sender all of whose writes returned success has no message in flight that was cut short: the
second part of `OkMeansAll`.

`Copying` adds that the write position is that of the next fragment and that every byte before it is the
sender's. It needs `SmallFiles` for the offset, an `int` at the sender, to be the offset meant.
The lemma `DiskSteps` sorts the steps into those that leave the files alone, create one, empty or blank one that then cannot be
opened, extend one or finish one, and the three theorems about files are shown for these kinds.
`LastSessionWins` needs that every file *other than the one being received* is the last one sent
(`OthersAreLastSent`), and that the final `ftruncate` cuts the file to exactly its size.

`RefusalKeepsFiles` needs in addition that a session *without* faults does not fail once its file was opened. `StreamInv` says so:
the connection of a sender that waits or is served is open, or was closed after everything was written (`Streaming`); it holds exactly the
messages written (`WrittenBy`) and not yet read (`ReadFrom`), in order and whole (`InOrder`). It is
inductive on top of `IInv`, with a lemma per action. From it, `NoBreak`: the fragment the receiver asks for
has the length and number of the next one in the stream, and it is there or still to be written, never cut off by the end of
the stream; `AvailableFirst`, by induction over the recursive sum in `Available`, says the bytes suffice.
So the receiver exits only while it reads the fields of a session, before it has opened a file.

### Randomness

`RandomProofs`, for any number of threads, retries, and requests within the memory:

| Theorem | Statement |
|---|---|
| `RandomTypeCorrect` | `Spec => []TypeOK` |
| `RandomNeverOverclaims` | `Spec => []NeverOverclaims` |
| `RandomDetectionSettles` | `Spec => DetectionSettles` |
| `RandomCountedButSkipped` | `Spec => []CountedButSkipped`; `RequestsCounted` is false (`random_bytes`) |

*Assumptions.* `RandomAssumption`: the number of retries and the sizes are numbers, and destinations lie within
the memory, those of `rdrand_get_n_uints` aligned as a `uint32_t *` is.

*Argument.* `DetInv`: the static variable and the values that threads hold between the read and the write of an
"or" are all *honest*, that is, contain only bits the processor has; a lost update can
remove a bit only. `DetectionSettles` is a property of suffixes: `Settled`, which allows threads that are
about to return what they read, is preserved by every step. `JobInv` describes a request under way: how much is filled
(64-bit words, then 32-bit ones, or head, words and tail of `rdrand_get_bytes`), that everything before is random, and that
everything outside of the destination is old. It also says that
a destination that `Splits` never leads to the wrapped length of the tail.

### Only model-checked

* Liveness (`CallsReturn`, `ServedOrRefused`, `SendersReturn`, `RequestsReturn`): out of the prover's reach.
* What the limbs compute (`ArithmeticAgrees`, `LadderIsMultiple`, `NoWordOverflows`, `EncodingsExact`, `SignaturesExact`): their
  reference definitions are RECURSIVE operators, and the statements are about particular numbers (a prime, a curve, limb sizes), which
  have to be calculated with rather than reasoned about for all values.

## 5. Findings

Four disagreements are kept as runs that must fail:

* `tube_large`: `int curr` in `PaddedFileIO_impl.c` turns negative at 2 GiB; zeros are sent instead of the file.
* `tube_hide`: the number of fragments comes from the padded size and the rest from the *real* one
  (`Hacl.Tube.Send.fst:449`). A hide size that is a multiple of the block (256 KiB) works: a sender with an unaligned file then
  writes one more fragment than the receiver reads, which is harmless. So does any other for which the padded size, modulo the block, is what the file's is.
  With the rest, which the usage of `tube.c` offers as well, be they below the block or above, the announced size ends inside a fragment; the
  receiver fails and exits in the middle of the file. `HideFits` is the condition.
* `random_bytes`: an aligned destination whose length is no multiple of 8 keeps its last
  bytes, and the full length is returned; and the alignment is masked with 8 where 7 is meant (`drng.c:287`): for an address
  with bit 3 set that is not a multiple of 8 the length of the tail wraps below zero.
* `boxes_easy`: `crypto_secretbox_open_easy` looks for the tag at offset 0 (`NaCl.c:161`) and never opens
  what `crypto_secretbox_easy` made, contrary to `specs/experimental/Spec.SecretBox.fst:122`.

Other disagreements met while modelling. The models do what the code does; the
properties are stated so that they hold of it, and say less than one would expect here:

* PneuTube
  * The sender takes `file_close`'s result (0 on success) with the wrong sense
    (`Send.fst:388`), so it reports `FileOk` only if closing failed, against its own
    `Send.fst:378-380` and `PaddedFileIO.fst:176` (`r ==> FileClosed`). `OkMeansAll`
    is what remains true of `FileOk`; it does not say that the file was closed.
  * `tube.c:105` computes `n * 1024 * 1024 * 1024` in 32 bits; a hide size
    of 4G hides nothing.
  * `write`'s -1 is compared as unsigned in `SocketIO_tcp_write_all` and taken for
    success (`SocketIO_impl.c:104`). Nobody hangs and no session counts as complete because of it, but a
    sender whose *last* write fails returns as if it had sent all: `OkMeansAll` speaks of
    what was sealed and of writes cut short, not of that one.
  * `ftruncate`'s result is ignored on closing (`PaddedFileIO_impl.c:148`): the block of padding may stay. `SessionDelivers` allows
    for it, and `LastSessionWins` excludes it only where no call fails.
  * `open` with `O_TRUNC` comes before the checks that can fail (`PaddedFileIO_impl.c:77-98`): a session that could
    not open its file has emptied or blanked the earlier one. `recv_field` does that, and `PartialCopy` allows for it.
* AEAD: `Crypto.AEAD.Main.fsti:295` promises an entry in the log whatever `decrypt`
  returns. On a rejected message there is none; `Crypto.AEAD.Decrypt.fst:105` has the
  right, conditional contract. The implementation of the interface is checked
  under `assume false`.
* Randomness, `drng.c`
  * Two threads that detect at once can lose a feature for good (a lost update of the static
    variable). They never gain one: `NeverOverclaims`, `DetectionSettles`.
  * `random_uint32`, `random_uint64` and `random_bytes` ignore failures.
* NaCl API
  * `crypto_box_open_detached_afternm` of `haclnacl.c:165` calls the encrypting
    function; `crypto_box_afternm` and `crypto_box_open_afternm` there do not take the 32 bytes of padding off
    the length as `crypto_box` does; `crypto_auth` passes a key of 32 bytes to
    `hmac_core`, which reads a block of 64. These four are not modelled.
  * `crypto_stream_xor` of `haclnacl.c` clears its output before it reads its input; in place, it returns bare
    key stream. `StreamsAgree` is about separate buffers.

## 6. Not modelled, and why

* *Bytes and masks of the arithmetic.* `load51`, `store56` and the like are modelled by their value,
  conditional swaps by their effect; timing is not a matter of these models.
* *Inner functions of primitives.* SHA-2's compression function, the values computed by ChaCha20's and
  Salsa20's rounds, AES's tables: words without control, free terms here.
* *Other AEADs* (AES-GCM, `Crypto.AEAD.Chacha20Poly1305`): they compose the same
  primitives; the construction is in `AEAD`.
* *QUIC provider*: `quic_crypto_encrypt` and `quic_crypto_decrypt`, `sn_to_iv` and `free_key` wrap the
  AEAD; a failing `malloc` is left out.
* *Randomness*: the i386 build, `rdseed` (one instruction, no loop) and Windows. `cpuid.c` caches what it finds with the same race as
  `drng.c`; its answers are the initial state of `Random`.
* *F\* framing lemmas* (`BufferUtils`, `*.Invariant` of the enxor and MAC
  wrappers): proofs, no operations.
* *`Hacl.Tube.fst`*, an older single-module version of the tool, and the ideal-box
  interfaces, which the tool does not use.
* *Of PneuTube*: descriptors, file times, the check of the name's length in the
  header, key generation and the other options. A failing `ftruncate`
  in `file_open_write_sequential`, after which the mapping faults, is
  covered only as a receiver that stops. The bytes that a negative
  offset reads before a mapping are one unknown value; the segmentation fault
  that may happen instead is not modelled.
* *Of the boxes*: `mlen_ + 32` of `crypto_secretbox_detached` (`NaCl.c:74-77`) is computed in 32 bits; the contract in F* keeps it from
  wrapping, and so does the model.
* *Other snapshots* (`tezos`, `hacl-c-compcert`, `hacl-c-experimental`): the same F* code extracted for other users
  and compilers. A model of each would repeat the one of `snapshots/hacl-c`.
* *`other_providers/`*: OpenSSL, libsodium, NaCl, TweetNaCl and others, third-party code kept for
  benchmarks. Together with the snapshots it is the bulk of the C code in the repository: the
  implementation modelled here is about a tenth of it.
* *OCaml provider*: foreign-function glue.

## 7. Plan

1. *Done:* the modules above and the theorems of section 4.
2. *Prove next.* Of `Limbs`: that `fmul` and the
   carries keep the value modulo the prime, for limbs of any size.
3. *Model next.* An abstract specification of PneuTube (a file store to which sessions commit
   atomically or partially) that `Tube` implements; the sequence numbers
   of the QUIC provider (`sn_to_iv`) over the AEAD; the initialisation of the provider.
