-------------------------------- MODULE AEAD --------------------------------
(***************************************************************************)
(* The AEAD construction of secure_api: encryption in counter mode under a *)
(* PRF, a one-time MAC keyed by the first PRF block of each nonce, and the *)
(* ideal state the security argument threads through both (the PRF table,  *)
(* the one-time MAC logs and the AEAD log).  One instance `i` is modelled, *)
(* with its Writer and its Reader, which share that state (genReader).     *)
(*                                                                         *)
(* The F* code is sequential: one call runs at a time, and one action is   *)
(* one call that `encrypt` or `decrypt` makes on the PRF or on the MAC,    *)
(* one iteration of the counter-mode loop being one such call.             *)
(***************************************************************************)
EXTENDS Naturals, Sequences

CONSTANTS
  (* Idealisation flags, utils/Flag.fsti. *)
  safeHS, cipher_prf, mac_log, mac_int1cma, safeId,
  skeyed,               \* TRUE for AES-GCM: r is static, s is per nonce
  maxCtr,               \* last block counter
  IV, iv_0,             \* nonces, and the zero IV of the static key's block
  AD,                   \* additional data
  FullBlock, LastBlock, \* text blocks; only the last one may be shorter
  BlockLen(_),          \* length of a text block in bytes
  Key, Block,           \* keys and output blocks of the cipher
  Compute(_, _, _),     \* Block.compute: key, iv, counter -> output block
  Xor(_, _),            \* output block (x) text block, truncated to the latter
  OneTimeKey, KeyBytes(_),    \* per-nonce MAC keys: a prefix of a block
  StaticKey, SkeyBytes(_), ZeroKey, NoKey,  \* optional static MAC key
  Tag, Mac(_, _, _),    \* MAC.mac: encoded text, static key, one-time key
  EncodeBoth(_, _),    \* additional data and ciphertext as MAC words
  Plain, Cipher,        \* the inputs the clients use
  NoLog, NoFrame, NoRet \* absent one-time MAC log, stack frame, result

VARIABLES
  pc,      \* the call the running encrypt/decrypt makes next
  key,     \* PRF key, immutable once generated
  ak,      \* static MAC key
  table,   \* the PRF table: what each point of the domain was mapped to
  maclog,  \* per nonce, the log of its one-time MAC
  log,     \* the AEAD log
  frame,   \* arguments and locals of the running call
  ret,     \* result of the last call, until the next one starts
  sent     \* auxiliary: every message encrypt has returned, in all modes

vars == <<pc, key, ak, table, maclog, log, frame, ret, sent>>

-----------------------------------------------------------------------------
(* Flags, counters and lengths *)

prf     == safeHS /\ cipher_prf
mac1    == mac_log /\ mac_int1cma
safeMac == safeHS /\ mac1
authId  == safeHS /\ mac1

ctr_0      == IF skeyed THEN 1 ELSE 0
otp_offset == ctr_0 + 1

(* safelen leaves the last counter unused: a text of MaxBlocks blocks uses *)
(* the counters otp_offset .. maxCtr - 1.                                  *)
MaxBlocks == maxCtr - otp_offset

TextBlock == FullBlock \union LastBlock

Text == {t \in UNION {[1 .. k -> TextBlock] : k \in 1 .. MaxBlocks} :
           \A j \in 1 .. Len(t) - 1 : t[j] \in FullBlock}

(* UF1CMA.akey: a static key, or none.                                     *)
OptionalKey == IF skeyed THEN StaticKey ELSE {NoKey}

Message == [nonce : IV, ad : AD, p : Text, c : Text, tag : Tag]

(* Dependencies between the flags (Flag.fsti), and what the cipher, the    *)
(* MAC and the encoding are used for.                                      *)
ASSUME FlagAssumption ==
  /\ {safeHS, cipher_prf, mac_log, mac_int1cma, safeId, skeyed} \subseteq BOOLEAN
  /\ mac1 => prf
  /\ safeId => mac1
ASSUME BoundAssumption == maxCtr \in Nat /\ maxCtr > otp_offset
ASSUME DataAssumption ==
  /\ iv_0 \in IV
  /\ Plain \subseteq Text /\ Cipher \subseteq Text
  /\ NoLog \notin [text : {EncodeBoth(a, c) : a \in AD, c \in Text}, tag : Tag]
  /\ ZeroKey \in StaticKey
ASSUME CipherAssumption ==
  /\ \A k \in Key, n \in IV, i \in 0 .. maxCtr : Compute(k, n, i) \in Block
  /\ \A b \in Block : KeyBytes(b) \in OneTimeKey /\ SkeyBytes(b) \in StaticKey
  /\ \A b \in Block, t \in FullBlock : Xor(b, t) \in FullBlock
  /\ \A b \in Block, t \in TextBlock :
       Xor(b, t) \in TextBlock /\ Xor(b, Xor(b, t)) = t /\ BlockLen(Xor(b, t)) = BlockLen(t)
ASSUME LengthAssumption ==
  \A t, u \in TextBlock : t \in FullBlock /\ BlockLen(t) = BlockLen(u) => u \in FullBlock
ASSUME MacAssumption ==
  \A a \in AD, c \in Text, r \in OptionalKey, k \in OneTimeKey :
    Mac(EncodeBoth(a, c), r, k) \in Tag
(* lemma_encode_both_inj of Crypto.AEAD.Encoding.fst.                      *)
ASSUME EncodeAssumption ==
  \A a, b \in AD, c, d \in Text : EncodeBoth(a, c) = EncodeBoth(b, d) => a = b /\ c = d

-----------------------------------------------------------------------------
(* The PRF: a table of entries from domain points to ranges.  The code     *)
(* looks up the first match in a sequence; entries are unique per point    *)
(* (UniqueEntries below), so a set of entries tells the same.              *)

At(n, i)    == [iv |-> n, ctr |-> i]
Entry(x, r) == [x |-> x, range |-> r]
OTP(p, c)   == [p |-> p, c |-> c]

defined(x) == \E e \in table : e.x = x
find(x)    == (CHOOSE e \in table : e.x = x).range

(* Mutant: the key is sampled again at every call.                         *)
prf_mac_fresh(n, mk, t1) ==
  IF prf THEN t1 = table \union {Entry(At(n, ctr_0), mk)}
         ELSE mk = KeyBytes(Compute(key, n, ctr_0)) /\ t1 = table

(* prf_mac: the one-time MAC key of a nonce, memoised in the ideal case.   *)
prf_mac(n, mk, t1) ==
  LET x == At(n, ctr_0) IN
  IF prf THEN IF defined(x)
              THEN mk = find(x) /\ t1 = table
              ELSE t1 = table \union {Entry(x, mk)}
         ELSE mk = KeyBytes(Compute(key, n, ctr_0)) /\ t1 = table

(* prf_blk: one block of key stream, memoised in the ideal case.           *)
prf_blk(x, b, t1) ==
  IF prf THEN IF defined(x)
              THEN b = find(x) /\ t1 = table
              ELSE t1 = table \union {Entry(x, b)}
         ELSE b = Compute(key, x.iv, x.ctr) /\ t1 = table

(* prf_enxor: once plaintexts are abstract (safeId) the ciphertext block   *)
(* is sampled, whatever the plaintext, and both are recorded.              *)
prf_enxor(x, p, c, t1) ==
  IF safeId THEN /\ BlockLen(c) = BlockLen(p)
                 /\ t1 = table \union {Entry(x, OTP(p, c))}
            ELSE \E b \in Block : prf_blk(x, b, t1) /\ c = Xor(b, p)

(* Mutant: decryption starts a counter later than encryption.              *)
prf_dexor_next(x, c, p, t1) ==
  \E b \in Block : prf_blk(At(x.iv, x.ctr + 1), b, t1) /\ p = Xor(b, c)

(* prf_dexor: reads the plaintext back; the ideal lookup must succeed.     *)
prf_dexor(x, c, p, t1) ==
  IF safeId THEN defined(x) /\ p = find(x).p /\ t1 = table
            ELSE \E b \in Block : prf_blk(x, b, t1) /\ p = Xor(b, c)
-----------------------------------------------------------------------------
(* Key management *)

Init ==
  /\ pc = "none"
  /\ key = NoKey
  /\ ak = NoKey
  /\ table = {}
  /\ maclog = [n \in IV |-> NoLog]
  /\ log = {}
  /\ frame = NoFrame
  /\ ret = NoRet
  /\ sent = {}

(* Mutant: the static key is never derived.                                *)
prf_sk0_none(k) == ak' = NoKey /\ UNCHANGED table

(* prf_sk0: the static MAC key.  The ideal branch allocates it with        *)
(* akey_gen, which creates a zeroed buffer and never randomises it; the    *)
(* table is still empty then.                                              *)
prf_sk0(k) ==
  IF ~skeyed THEN ak' = NoKey /\ UNCHANGED table
  ELSE IF prf THEN /\ ak' = ZeroKey
                   /\ table' = table \union {Entry(At(iv_0, 0), ZeroKey)}
              ELSE ak' = SkeyBytes(Compute(k, iv_0, 0)) /\ UNCHANGED table

gen ==
  /\ pc = "none"
  /\ key' \in Key
  /\ prf_sk0(key')
  /\ pc' = "ready"
  /\ UNCHANGED <<maclog, log, frame, ret, sent>>

(* coerce: the caller's key; only for instances that are not idealised.    *)
coerce(k) ==
  /\ pc = "none"
  /\ ~prf
  /\ key' = k
  /\ prf_sk0(k)
  /\ pc' = "ready"
  /\ UNCHANGED <<maclog, log, frame, ret, sent>>
-----------------------------------------------------------------------------
(* encrypt: prf_mac_enc; enxor, block by block; accumulate and mac;        *)
(* do_ideal.                                                               *)

fresh_nonce(n) == \A e \in log : e.nonce # n

EncryptFrame(n, a, p, mk) ==
  [op |-> "encrypt", n |-> n, ad |-> a, p |-> p, c |-> <<>>, mk |-> mk]

(* Mutant: a nonce may be used again.                                      *)
encrypt_again(n, a, p) ==
  /\ pc = "ready"
  /\ \E mk \in OneTimeKey :
       /\ prf_mac(n, mk, table')
       /\ frame' = EncryptFrame(n, a, p, mk)
  /\ ret' = NoRet
  /\ pc' = "enxor"
  /\ UNCHANGED <<key, ak, maclog, log, sent>>

encrypt(n, a, p) ==
  /\ pc = "ready"
  /\ safeMac => fresh_nonce(n)
  /\ \E mk \in OneTimeKey :
       /\ prf_mac(n, mk, table')
       /\ frame' = EncryptFrame(n, a, p, mk)
  /\ ret' = NoRet
  /\ pc' = "enxor"
  /\ UNCHANGED <<key, ak, maclog, log, sent>>

(* Mutant: only the last iteration moves on.                               *)
enxor_same ==
  /\ pc = "enxor"
  /\ LET j == Len(frame.c) + 1
     IN \E c \in TextBlock :
          /\ prf_enxor(At(frame.n, otp_offset + j - 1), frame.p[j], c, table')
          /\ IF j = Len(frame.p) THEN frame' = [frame EXCEPT !.c = Append(frame.c, c)] /\ pc' = "mac"
                                 ELSE UNCHANGED <<frame, pc>>
  /\ UNCHANGED <<key, ak, maclog, log, ret, sent>>

(* One iteration of counter_enxor.                                         *)
enxor ==
  /\ pc = "enxor"
  /\ LET j == Len(frame.c) + 1
     IN \E c \in TextBlock :
          /\ prf_enxor(At(frame.n, otp_offset + j - 1), frame.p[j], c, table')
          /\ frame' = [frame EXCEPT !.c = Append(frame.c, c)]
          /\ pc' = IF j = Len(frame.p) THEN "mac" ELSE "enxor"
  /\ UNCHANGED <<key, ak, maclog, log, ret, sent>>

EncryptReturns(m) ==
  /\ sent' = sent \union {m}
  /\ ret' = [op |-> "encrypt", m |-> m]
  /\ frame' = NoFrame
  /\ pc' = "ready"

FrameMessage(t) ==
  [nonce |-> frame.n, ad |-> frame.ad, p |-> frame.p, c |-> frame.c, tag |-> t]

FrameTag == Mac(EncodeBoth(frame.ad, frame.c), ak, frame.mk)

(* Mutant: the MAC is not logged.                                          *)
mac_unlogged ==
  /\ pc = "mac"
  /\ IF safeMac THEN pc' = "ideal" /\ UNCHANGED <<frame, ret, sent>>
                ELSE EncryptReturns(FrameMessage(FrameTag))
  /\ UNCHANGED <<key, ak, table, maclog, log>>

(* accumulate and mac: the tag, logged when the MAC is idealised.          *)
mac ==
  /\ pc = "mac"
  /\ maclog' = IF authId
               THEN [maclog EXCEPT ![frame.n] =
                       [text |-> EncodeBoth(frame.ad, frame.c), tag |-> FrameTag]]
               ELSE maclog
  /\ IF safeMac THEN pc' = "ideal" /\ UNCHANGED <<frame, ret, sent>>
                ELSE EncryptReturns(FrameMessage(FrameTag))
  /\ UNCHANGED <<key, ak, table, log>>

(* Mutant: the AEAD entry is not logged.                                   *)
do_ideal_unlogged ==
  /\ pc = "ideal"
  /\ EncryptReturns(FrameMessage(FrameTag))
  /\ UNCHANGED <<key, ak, table, maclog, log>>

do_ideal ==
  /\ pc = "ideal"
  /\ log' = log \union {FrameMessage(FrameTag)}
  /\ EncryptReturns(FrameMessage(FrameTag))
  /\ UNCHANGED <<key, ak, table, maclog>>
-----------------------------------------------------------------------------
(* decrypt: prf_mac_dec; accumulate and verify; dexor, block by block.     *)

DecryptFrame(n, a, c, t, mk) ==
  [op |-> "decrypt", n |-> n, ad |-> a, p |-> <<>>, c |-> c, tag |-> t, mk |-> mk]

decrypt(n, a, c, t) ==
  /\ pc = "ready"
  /\ \E mk \in OneTimeKey :
       /\ prf_mac(n, mk, table')
       /\ frame' = DecryptFrame(n, a, c, t, mk)
  /\ ret' = NoRet
  /\ pc' = "verify"
  /\ UNCHANGED <<key, ak, maclog, log, sent>>

(* Mutant: of the log only that it holds something is asked.               *)
Verified_signed ==
  /\ FrameTag = frame.tag
  /\ authId => maclog[frame.n] # NoLog

(* CMA.verify: recompute the tag, and when the MAC is idealised also look  *)
(* the text and the tag up in its log.                                     *)
Verified ==
  /\ FrameTag = frame.tag
  /\ authId => maclog[frame.n] = [text |-> EncodeBoth(frame.ad, frame.c), tag |-> FrameTag]

(* verify; when it succeeds and plaintexts are abstract, the AEAD entry of *)
(* the nonce is looked up and must exist (get_verified_plain).             *)
verify ==
  /\ pc = "verify"
  /\ IF Verified
     THEN /\ safeId => ~fresh_nonce(frame.n)
          /\ pc' = "dexor"
          /\ UNCHANGED <<frame, ret>>
     ELSE /\ ret' = [op |-> "decrypt", ok |-> FALSE, nonce |-> frame.n, ad |-> frame.ad,
                     c |-> frame.c, tag |-> frame.tag]
          /\ frame' = NoFrame
          /\ pc' = "ready"
  /\ UNCHANGED <<key, ak, table, maclog, log, sent>>

(* One iteration of counter_dexor; the last one returns.                   *)
dexor ==
  /\ pc = "dexor"
  /\ LET j == Len(frame.p) + 1
     IN \E p \in TextBlock :
          /\ prf_dexor(At(frame.n, otp_offset + j - 1), frame.c[j], p, table')
          /\ IF j = Len(frame.c)
             THEN /\ ret' = [op |-> "decrypt", ok |-> TRUE,
                             m |-> [nonce |-> frame.n, ad |-> frame.ad, p |-> Append(frame.p, p),
                                    c |-> frame.c, tag |-> frame.tag]]
                  /\ frame' = NoFrame
                  /\ pc' = "ready"
             ELSE /\ frame' = [frame EXCEPT !.p = Append(frame.p, p)]
                  /\ UNCHANGED <<pc, ret>>
  /\ UNCHANGED <<key, ak, maclog, log, sent>>
-----------------------------------------------------------------------------
Step == enxor \/ mac \/ do_ideal \/ verify \/ dexor

Next ==
  \/ gen
  \/ \E k \in Key : coerce(k)
  \/ \E n \in IV, a \in AD, p \in Plain : encrypt(n, a, p)
  \/ \E n \in IV, a \in AD, c \in Cipher, t \in Tag : decrypt(n, a, c, t)
  \/ Step

Spec == Init /\ [][Next]_vars

(* A call that has started runs to its end: nothing in it blocks.          *)
FairSpec == Spec /\ WF_vars(Step)
-----------------------------------------------------------------------------
(* Correctness *)

DomainT == [iv : IV, ctr : 0 .. maxCtr]
RangeT  == StaticKey \union OneTimeKey \union Block \union [p : TextBlock, c : TextBlock]
MacLog == [text : {EncodeBoth(a, c) : a \in AD, c \in Text}, tag : Tag]

Partial == UNION {[1 .. k -> TextBlock] : k \in 0 .. MaxBlocks}

EncryptFrames ==
  [op : {"encrypt"}, n : IV, ad : AD, p : Text, c : Partial, mk : OneTimeKey]
DecryptFrames ==
  [op : {"decrypt"}, n : IV, ad : AD, p : Partial, c : Text, tag : Tag, mk : OneTimeKey]
Results ==
  [op : {"encrypt"}, m : Message]
    \union [op : {"decrypt"}, ok : {TRUE}, m : Message]
    \union [op : {"decrypt"}, ok : {FALSE}, nonce : IV, ad : AD, c : Text, tag : Tag]

(* Every variable has the type its F* declaration gives it; in particular  *)
(* no block counter passes maxCtr (PRF.ctrT), and what decrypt returns is  *)
(* a well-formed plaintext of an acceptable length.                        *)
TypeOK ==
  /\ pc \in {"none", "ready", "enxor", "mac", "ideal", "verify", "dexor"}
  /\ pc # "none" => key \in Key /\ ak \in OptionalKey
  /\ table \subseteq [x : DomainT, range : RangeT]
  /\ maclog \in [IV -> MacLog \union {NoLog}]
  /\ log \subseteq Message
  /\ pc \in {"none", "ready"} => frame = NoFrame
  /\ pc \in {"enxor", "mac", "ideal"} => frame \in EncryptFrames
  /\ pc \in {"verify", "dexor"} => frame \in DecryptFrames
  /\ ret \in Results \union {NoRet}
  /\ sent \subseteq Message

(* "The table does not have two entries with the same x" (PRF.fst, above   *)
(* table_t): what a point of the PRF was mapped to is decided once.        *)
UniqueEntries == \A e, f \in table : e.x = f.x => e = f

(* prf_enxor's precondition find_otp = None, and counter_enxor's           *)
(* none_above_prf_st: with authenticated ciphertexts, no block of key      *)
(* stream is ever used to encrypt twice, in whatever order the Writer and  *)
(* the Reader made their calls.                                            *)
NoKeystreamReuse ==
  safeMac /\ pc = "enxor" =>
    \A e \in table : e.x.iv = frame.n => e.x.ctr < otp_offset + Len(frame.c)

(* refines_one_entry: the MAC of an entry is set to its encoding, and the  *)
(* table holds its blocks: as pads with both texts when safeId, and        *)
(* otherwise as the key stream that maps one text to the other.            *)
mac_is_set(m) ==
  /\ \E k \in OneTimeKey : /\ Entry(At(m.nonce, ctr_0), k) \in table
                           /\ m.tag = Mac(EncodeBoth(m.ad, m.c), ak, k)
  /\ maclog[m.nonce] = [text |-> EncodeBoth(m.ad, m.c), tag |-> m.tag]

HasBlock(x, p, c) ==
  IF safeId THEN Entry(x, OTP(p, c)) \in table
            ELSE \E b \in Block : Entry(x, b) \in table /\ c = Xor(b, p)

contains_all_otp_blocks(m) ==
  /\ Len(m.p) = Len(m.c)
  /\ \A j \in 1 .. Len(m.c) : HasBlock(At(m.nonce, otp_offset + j - 1), m.p[j], m.c[j])

(* unused_aead_iv_for_prf: no pad for this nonce, and its MAC, if decrypt  *)
(* has allocated one early, is unset.                                      *)
unused_aead_iv_for_prf(n) ==
  /\ \A e \in table : e.x.iv = n => e.x.ctr < otp_offset
  /\ maclog[n] = NoLog

(* `inv`, the stateful invariant encrypt and decrypt require and ensure:   *)
(* between calls the PRF table refines the AEAD log, and nonces that are   *)
(* fresh for the log are unused in the table.                              *)
Inv ==
  pc = "ready" /\ safeMac =>
    /\ \A m \in log : mac_is_set(m) /\ contains_all_otp_blocks(m)
    /\ \A n \in IV : fresh_nonce(n) => unused_aead_iv_for_prf(n)

(* The loops have not run past their texts, and every block but the last   *)
(* one of a text is full.                                                  *)
Encrypting == pc \in {"enxor", "mac", "ideal"}

LoopInv ==
  /\ pc = "enxor" => Len(frame.c) < Len(frame.p)
  /\ pc \in {"mac", "ideal"} => Len(frame.c) = Len(frame.p)
  /\ Encrypting => \A j \in 1 .. Len(frame.c) : j < Len(frame.p) => frame.c[j] \in FullBlock
  /\ pc = "verify" => frame.p = <<>>
  /\ pc = "dexor" =>
       /\ Len(frame.p) < Len(frame.c)
       /\ \A j \in 1 .. Len(frame.p) : j < Len(frame.c) => frame.p[j] \in FullBlock

(* The nonce of the running encrypt is fresh; its MAC key and the blocks   *)
(* done so far are in the table, and nothing above them is.                *)
EncryptInv ==
  Encrypting =>
    /\ fresh_nonce(frame.n)
    /\ Entry(At(frame.n, ctr_0), frame.mk) \in table
    /\ \A j \in 1 .. Len(frame.c) :
         HasBlock(At(frame.n, otp_offset + j - 1), frame.p[j], frame.c[j])
    /\ \A e \in table : e.x.iv = frame.n => e.x.ctr < otp_offset + Len(frame.c)
    /\ maclog[frame.n] = IF pc = "ideal"
                          THEN [text |-> EncodeBoth(frame.ad, frame.c), tag |-> FrameTag]
                          ELSE NoLog

(* found_matching_entry: an entry for what the running decrypt was given.  *)
Matches(m) ==
  m.nonce = frame.n /\ m.ad = frame.ad /\ m.c = frame.c /\ m.tag = frame.tag

(* The running decrypt holds its nonce's MAC key and, once verified, what  *)
(* it has decrypted so far is the start of the logged plaintext.           *)
DecryptInv ==
  pc \in {"verify", "dexor"} =>
    /\ Entry(At(frame.n, ctr_0), frame.mk) \in table
    /\ pc = "dexor" => \E m \in log : Matches(m) /\ frame.p = SubSeq(m.p, 1, Len(frame.p))

(* The log holds one entry per nonce, each refined by the MAC logs and the *)
(* table.                                                                  *)
LogInv ==
  /\ \A m \in log : mac_is_set(m) /\ contains_all_otp_blocks(m)
  /\ \A m, l \in log : m.nonce = l.nonce => m = l

(* fresh_nonces_are_unused_except, for the nonce being encrypted under.    *)
FreshInv ==
  \A n \in IV : fresh_nonce(n) /\ ~(Encrypting /\ frame.n = n) => unused_aead_iv_for_prf(n)

(* An accepted message is in the log.                                      *)
RetInv == ret # NoRet /\ ret.op = "decrypt" => (ret.ok => ret.m \in log)

(* `inv` strengthened so that every step preserves it: it holds inside the *)
(* calls as well.                                                          *)
IInv ==
  /\ TypeOK
  /\ pc = "none" => table = {} /\ log = {}
  /\ LoopInv
  /\ UniqueEntries
  /\ safeMac => LogInv /\ FreshInv /\ EncryptInv /\ DecryptInv /\ RetInv

(* decrypt_ok / found_matching_entry: with ideal MACs, decrypt accepts     *)
(* only what encrypt logged, with that additional data, ciphertext, tag    *)
(* and plaintext; and no plaintext byte is written before that is known.   *)
Authentic ==
  safeMac =>
    /\ ret # NoRet /\ ret.op = "decrypt" => (ret.ok => ret.m \in log)
    /\ pc = "dexor" => \E m \in log : Matches(m) /\ frame.p = SubSeq(m.p, 1, Len(frame.p))

(* At every idealisation level, and even when nonces repeat: decrypting    *)
(* what encrypt returned succeeds and yields the plaintext encrypted.      *)
RoundTrip ==
  ret # NoRet /\ ret.op = "decrypt" =>
    \A m \in sent :
      IF ret.ok
      THEN (<<m.nonce, m.ad, m.c, m.tag>> = <<ret.m.nonce, ret.m.ad, ret.m.c, ret.m.tag>>
              => m.p = ret.m.p)
      ELSE <<m.nonce, m.ad, m.c, m.tag>> # <<ret.nonce, ret.ad, ret.c, ret.tag>>

(* log_cmp and "what's in the table stays there" (PRF.fst): a MAC log goes *)
(* from unset to one value and stays, and both other logs only grow.       *)
LogsOnlyGrow ==
  [][/\ table \subseteq table' /\ log \subseteq log'
     /\ \A n \in IV : maclog[n] # NoLog => maclog'[n] = maclog[n]]_vars

(* With ideal MACs the construction is an ideal AEAD: the refinement       *)
(* mapping reads the log and the results as they are and hides the rest.   *)
Ideal == INSTANCE AEADIdeal
ImplementsIdeal == Ideal!Spec

(* Every call of encrypt and decrypt returns: its loops end and none of    *)
(* the ideal lookups in it can fail.                                       *)
CallsReturn == (pc \notin {"none", "ready"}) ~> (pc = "ready")
=============================================================================
