------------------------------ MODULE Ciphers -------------------------------
(***************************************************************************)
(* The stream ciphers of snapshots/hacl-c and the one-time MAC around      *)
(* them: ChaCha20 word by word and on vectors, Salsa20, HSalsa20, Poly1305 *)
(* as the constructions feed it, and the constant-time comparison.         *)
(*                                                                         *)
(* A byte is the set of things xored into it: {} is zero, xor is symmetric *)
(* difference, and a byte of keystream is one atom that names the cipher,  *)
(* the key, the nonce, the counter the rounds started from, the counter of *)
(* the state added back, and its place in the block.                       *)
(***************************************************************************)
EXTENDS Integers, Sequences, SequencesExt

CONSTANTS
  Block,    \* 64: bytes of a block of keystream
  Poly,     \* 16: bytes of a block of Poly1305
  KeyBytes, \* 32: bytes of a one-time key
  MacBytes, \* 16
  Ctr       \* 2 ^ 32: range of ChaCha20's counter

ASSUME CiphersAssumption ==
  /\ Block \in Nat /\ Poly \in Nat \ {0} /\ Ctr \in Nat \ {0}
  /\ KeyBytes \in 1 .. Block /\ MacBytes \in 1 .. KeyBytes

Zeros(n) == [i \in 1 .. n |-> {}]
Xor(a, b) == [i \in DOMAIN a |-> SymDiff(a[i], b[i])]

(* The i-th of the pieces of length size in data.                          *)
Piece(data, size, i) == SubSeq(data, (i - 1) * size + 1, i * size)
Rest(data, size) == SubSeq(data, size * (Len(data) \div size) + 1, Len(data))
-----------------------------------------------------------------------------
(* Rounds, on words: 0 .. 15 for a state, terms for their values.          *)

(* One of the four steps of ChaCha20's quarter round: st[a] += st[b] and   *)
(* st[d] = (st[d] ^ st[a]) <<< s.                                          *)
line(st, a, b, d, s) ==
  LET sum == <<"+", st[a], st[b]>> IN [st EXCEPT ![a] = sum, ![d] = <<"^", @, sum, s>>]

quarter_round(st, a, b, c, d) ==
  line(line(line(line(st, a, b, d, 16), c, d, b, 12), a, b, d, 8), c, d, b, 7)

(* Columns, then diagonals.                                                *)
double_round(st) ==
  LET c0 == quarter_round(st, 0, 4, 8, 12)
      c1 == quarter_round(c0, 1, 5, 9, 13)
      c2 == quarter_round(c1, 2, 6, 10, 14)
      c3 == quarter_round(c2, 3, 7, 11, 15)
      d0 == quarter_round(c3, 0, 5, 10, 15)
      d1 == quarter_round(d0, 1, 6, 11, 12)
      d2 == quarter_round(d1, 2, 7, 8, 13)
  IN quarter_round(d2, 3, 4, 9, 14)

(* Salsa20: st[a] ^= (st[b] + st[d]) <<< s.                                *)
salsa_line(st, a, b, d, s) == [st EXCEPT ![a] = <<"^", @, <<"+", st[b], st[d]>>, s>>]

salsa_quarter_round(st, a, b, c, d) ==
  salsa_line(salsa_line(salsa_line(salsa_line(st, b, a, d, 7), c, b, a, 9), d, c, b, 13), a, d, c, 18)

salsa_columns(st) ==
  LET c0 == salsa_quarter_round(st, 0, 4, 8, 12)
      c1 == salsa_quarter_round(c0, 5, 9, 13, 1)
      c2 == salsa_quarter_round(c1, 10, 14, 2, 6)
  IN salsa_quarter_round(c2, 15, 3, 7, 11)

salsa_rows(st) ==
  LET r0 == salsa_quarter_round(st, 0, 1, 2, 3)
      r1 == salsa_quarter_round(r0, 5, 6, 7, 4)
      r2 == salsa_quarter_round(r1, 10, 11, 8, 9)
  IN salsa_quarter_round(r2, 15, 12, 13, 14)

salsa_double_round(st) == salsa_rows(salsa_columns(st))

(* The same on four vectors of four words.                                 *)
vec_add(x, y) == [i \in 0 .. 3 |-> <<"+", x[i], y[i]>>]
vec_xor_rotate(x, y, s) == [i \in 0 .. 3 |-> <<"^", x[i], y[i], s>>]

vec_shuffle_right(x, n) == [i \in 0 .. 3 |-> x[(i + n) % 4]]

vec_line(v, a, b, d, s) ==
  LET sum == vec_add(v[a], v[b]) IN [v EXCEPT ![a] = sum, ![d] = vec_xor_rotate(@, sum, s)]

vec_round(v) ==
  vec_line(vec_line(vec_line(vec_line(v, 0, 1, 3, 16), 2, 3, 1, 12), 0, 1, 3, 8), 2, 3, 1, 7)

(* A round on columns, and one on diagonals, which rows 1 to 3, turned,    *)
(* bring into columns.                                                     *)
vec_turn_rows(v, i, j, k) ==
  [v EXCEPT ![1] = vec_shuffle_right(@, i), ![2] = vec_shuffle_right(@, j), ![3] = vec_shuffle_right(@, k)]

vec_double_round(v) == vec_turn_rows(vec_round(vec_turn_rows(vec_round(v), 1, 2, 3)), 3, 2, 1)
-----------------------------------------------------------------------------
(* Keystream.  A state is a cipher, a key, a nonce and a counter.          *)
Keystream(st, c, sum) == [i \in 1 .. Block |-> {<<"ks", st.alg, st.k, st.n, c, sum, i>>}]

setup(alg, k, n, c) == [alg |-> alg, k |-> k, n |-> n, ctr |-> c]

(* The rounds run on a copy of the state, which is then added to it.       *)
core(st, ctr) == Keystream(st, ctr, ctr)

update(plain, st, ctr) == Xor(plain, core(st, ctr))

(* The last piece is xored with as much of the block.                      *)
update_last(plain, st, ctr) == [i \in DOMAIN plain |-> SymDiff(plain[i], core(st, ctr)[i])]

(* The counter is a 32-bit word in ChaCha20, and 64 bits, which no length  *)
(* exhausts, in Salsa20.                                                   *)
Add(alg, ctr, i) == IF alg = "chacha20" THEN (ctr + i) % Ctr ELSE ctr + i

counter_mode_blocks(plain, num_blocks, st, ctr) ==
  FlattenSeq([i \in 1 .. num_blocks |-> update(Piece(plain, Block, i), st, Add(st.alg, ctr, i - 1))])

(* Mutant: the last piece repeats the counter of the block before it.      *)
counter_mode_stuck(plain, st, ctr) ==
  LET n == Len(plain) \div Block
  IN counter_mode_blocks(plain, n, st, ctr)
       \o update_last(Rest(plain, Block), st, Add(st.alg, ctr, IF n = 0 THEN 0 ELSE n - 1))

counter_mode(plain, st, ctr) ==
  LET n == Len(plain) \div Block
  IN counter_mode_blocks(plain, n, st, ctr) \o
       IF Len(plain) % Block > 0 THEN update_last(Rest(plain, Block), st, Add(st.alg, ctr, n)) ELSE <<>>

chacha20(plain, k, n, ctr) == counter_mode(plain, setup("chacha20", k, n, 0), ctr)
chacha20_key_block(k, n, ctr) == core(setup("chacha20", k, n, 0), ctr)
salsa20(plain, k, n, ctr) == counter_mode(plain, setup("salsa20", k, n, 0), ctr)

(* A key from a key and 16 bytes of nonce: the rounds, nothing added back. *)
hsalsa20(k, n16) == <<"hs", k, n16>>
-----------------------------------------------------------------------------
(* ChaCha20 on vectors: the counter is in the state, and blocks go three   *)
(* at a time.                                                              *)
state_incr(st) == [st EXCEPT !.ctr = (@ + 1) % Ctr]

(* Counters the three copies start their rounds from, and counters of the  *)
(* state when it is added to each; the state has moved on twice.           *)
incr3(st) == <<st.ctr, state_incr(st).ctr, state_incr(state_incr(st)).ctr>>
sum3(st) == <<st, state_incr(st), state_incr(state_incr(st))>>

(* Mutant: the state added back stays where it was.                        *)
update3_unsummed(r, plain) ==
  [r EXCEPT !.out = @ \o FlattenSeq([i \in 1 .. 3 |->
                           Xor(Piece(plain, Block, i), Keystream(r.st, incr3(r.st)[i], r.st.ctr))]),
            !.st = state_incr(sum3(@)[3])]

update3(r, plain) ==
  [r EXCEPT !.out = @ \o FlattenSeq([i \in 1 .. 3 |->
                           Xor(Piece(plain, Block, i), Keystream(r.st, incr3(r.st)[i], sum3(r.st)[i].ctr))]),
            !.st = state_incr(sum3(@)[3])]

vec_update(r, plain) == [r EXCEPT !.out = @ \o update(plain, r.st, r.st.ctr), !.st = state_incr(@)]

vec_counter_mode_blocks3(plain, len, st) ==
  LET r[i \in 0 .. len] == IF i = 0 THEN [st |-> st, out |-> <<>>]
                                    ELSE update3(r[i - 1], Piece(plain, 3 * Block, i))
  IN r[len]

vec_counter_mode_blocks(plain, len, st) ==
  LET len3   == len \div 3
      rest3  == len % 3
      triple == vec_counter_mode_blocks3(plain, len3, st)
      one    == vec_update(triple, Piece(plain, Block, 3 * len3 + 1))
      two    == vec_update(one, Piece(plain, Block, 3 * len3 + 2))
  IN IF rest3 = 2 THEN two ELSE IF rest3 = 1 THEN one ELSE triple

vec_chacha20(plain, k, n, ctr) ==
  LET r == vec_counter_mode_blocks(plain, Len(plain) \div Block, setup("chacha20", k, n, ctr))
  IN r.out \o IF Len(plain) % Block > 0 THEN update_last(Rest(plain, Block), r.st, r.st.ctr) ELSE <<>>
-----------------------------------------------------------------------------
(* Poly1305, free: the accumulator is the sequence of blocks fed to it, a  *)
(* short one (which gets its 1 bit where it ends) told from a padded one.  *)
poly1305_blocks(acc, m, n) == acc \o [i \in 1 .. n |-> Piece(m, Poly, i)]

process_last_block(acc, m) == IF Len(m) = 0 THEN acc ELSE Append(acc, m)

(* The AEAD pads what is left with zeros instead.                          *)
pad_last(acc, m) == IF Len(m) = 0 THEN acc ELSE Append(acc, m \o Zeros(Poly - Len(m)))

finish(acc, key) == [i \in 1 .. MacBytes |-> {<<"tag", key, acc, i>>}]

crypto_onetimeauth(m, key) ==
  finish(process_last_block(poly1305_blocks(<<>>, m, Len(m) \div Poly), Rest(m, Poly)), key)

blocks_continue(acc, m) == pad_last(poly1305_blocks(acc, m, Len(m) \div Poly), Rest(m, Poly))

(* 0 if equal, 255 if not: the masks of all bytes are taken together.      *)
cmp_bytes(b1, b2) == IF \A i \in 1 .. MacBytes : b1[i] = b2[i] THEN 0 ELSE 255
=============================================================================
