----------------------------- MODULE AEADProofs -----------------------------
(***************************************************************************)
(* Proofs about AEAD, for every set of nonces, texts, keys and tags, every *)
(* counter bound, every cipher and MAC that satisfy the assumptions, and   *)
(* every idealisation level unless a theorem says otherwise.               *)
(***************************************************************************)
EXTENDS AEAD, TLAPS, SequenceTheorems

-----------------------------------------------------------------------------
(* Counters and texts *)

(* Block counters start after the MAC key's and leave room for a block.    *)
LEMMA Counters ==
  /\ maxCtr \in Nat /\ ctr_0 \in Nat /\ otp_offset \in Nat /\ MaxBlocks \in Nat
  /\ otp_offset = ctr_0 + 1 /\ MaxBlocks = maxCtr - otp_offset /\ ctr_0 \in 0 .. maxCtr
BY BoundAssumption DEF ctr_0, otp_offset, MaxBlocks

LEMMA OffsetNat == otp_offset \in Nat
BY Counters

LEMMA InRange ==
  ASSUME NEW k \in Nat, NEW l \in Nat, k < l, l <= MaxBlocks
  PROVE  otp_offset + k \in 0 .. maxCtr
<1>1. maxCtr \in Nat /\ otp_offset \in Nat /\ MaxBlocks = maxCtr - otp_offset
  BY Counters
<1> QED
  BY <1>1

(* What being a text means, without the enumeration of its lengths.        *)
LEMMA TextFacts ==
  ASSUME NEW t \in Text
  PROVE  /\ t \in Seq(TextBlock) /\ Len(t) \in 1 .. MaxBlocks
         /\ \A j \in 1 .. Len(t) : t[j] \in TextBlock
         /\ \A j \in 1 .. Len(t) - 1 : t[j] \in FullBlock
<1>1. PICK k \in 1 .. MaxBlocks : t \in [1 .. k -> TextBlock]
  BY DEF Text
<1>2. k \in Nat
  BY <1>1, Counters
<1>3. t \in Seq(TextBlock)
  BY <1>1, <1>2, SeqDef
<1>4. Len(t) = k
  BY <1>1, <1>2, <1>3, LenProperties
<1> QED
  BY <1>1, <1>3, <1>4 DEF Text

LEMMA TextIntro ==
  ASSUME NEW t \in Seq(TextBlock), Len(t) \in 1 .. MaxBlocks,
         \A j \in 1 .. Len(t) - 1 : t[j] \in FullBlock
  PROVE  t \in Text
<1>1. t \in [1 .. Len(t) -> TextBlock]
  BY LenProperties
<1> QED
  BY <1>1 DEF Text

LEMMA PartialFacts ==
  ASSUME NEW t
  PROVE  t \in Partial <=> t \in Seq(TextBlock) /\ Len(t) \in 0 .. MaxBlocks
<1>1. ASSUME t \in Partial
      PROVE  t \in Seq(TextBlock) /\ Len(t) \in 0 .. MaxBlocks
  <2>1. PICK k \in 0 .. MaxBlocks : t \in [1 .. k -> TextBlock]
    BY <1>1 DEF Partial
  <2>2. k \in Nat
    BY <2>1, Counters
  <2>3. t \in Seq(TextBlock)
    BY <2>1, <2>2, SeqDef
  <2> QED
    BY <2>1, <2>2, <2>3, LenProperties
<1>2. ASSUME t \in Seq(TextBlock), Len(t) \in 0 .. MaxBlocks
      PROVE  t \in Partial
  BY <1>2, LenProperties DEF Partial
<1> QED
  BY <1>1, <1>2

LEMMA EmptyPartial == <<>> \in Partial
<1>1. <<>> \in Seq(TextBlock) /\ Len(<<>>) = 0
  BY EmptySeq
<1>2. Len(<<>>) \in 0 .. MaxBlocks
  BY <1>1, Counters
<1> QED
  BY <1>1, <1>2, PartialFacts

LEMMA AppendBlock ==
  ASSUME NEW t \in Seq(TextBlock), NEW b \in TextBlock
  PROVE  /\ Append(t, b) \in Seq(TextBlock) /\ Len(Append(t, b)) = Len(t) + 1
         /\ \A j \in 1 .. Len(t) : Append(t, b)[j] = t[j]
         /\ Append(t, b)[Len(t) + 1] = b
BY AppendProperties

(* A prefix grows to the next one.                                         *)
LEMMA PrefixAppend ==
  ASSUME NEW s \in Seq(TextBlock), NEW t \in Seq(TextBlock),
         t = SubSeq(s, 1, Len(t)), Len(t) < Len(s)
  PROVE  Append(t, s[Len(t) + 1]) = SubSeq(s, 1, Len(t) + 1)
<1>1. Len(t) \in Nat /\ Len(s) \in Nat
  BY LenProperties
<1>2. PICK n : n = Len(t) + 1
  OBVIOUS
<1>3. n \in 1 .. Len(s) /\ 1 \in 1 .. Len(s) /\ n - 1 = Len(t)
  BY <1>1, <1>2
<1>4. SubSeq(s, 1, n) = SubSeq(s, 1, n - 1) \o <<s[n]>>
  BY <1>3, SubSeqRecursiveSecond
<1>5. s[n] \in TextBlock
  BY <1>3, ElementOfSeq
<1>6. Append(t, s[n]) = t \o <<s[n]>>
  BY <1>5, AppendIsConcat
<1> QED
  BY <1>2, <1>3, <1>4, <1>6

(* The flags: abstract plaintexts need ideal MACs, which need an ideal PRF. *)
LEMMA Flags ==
  /\ safeMac = authId
  /\ safeMac => prf
  /\ safeId => safeMac
BY FlagAssumption DEF safeMac, authId, mac1, prf

(* A table with one entry per point finds what was put in it.              *)
LEMMA FindEntry ==
  ASSUME UniqueEntries, NEW x, NEW r, Entry(x, r) \in table
  PROVE  defined(x) /\ find(x) = r
<1>1. defined(x)
  BY DEF defined, Entry
<1>2. \A e \in table : e.x = x => e = Entry(x, r)
  BY DEF UniqueEntries, Entry
<1>3. (CHOOSE e \in table : e.x = x) = Entry(x, r)
  BY <1>1, <1>2 DEF defined
<1> QED
  <2>1. find(x) = Entry(x, r).range
    BY <1>3 DEF find
  <2> QED
    BY <1>1, <2>1 DEF Entry

(* The table's entries are made of a point and a range.                    *)
LEMMA TableFacts ==
  ASSUME table \subseteq [x : DomainT, range : RangeT], NEW e \in table
  PROVE  /\ e = Entry(e.x, e.range) /\ e.x = At(e.x.iv, e.x.ctr)
         /\ e.x.iv \in IV /\ e.x.ctr \in Nat
BY Counters DEF Entry, At, DomainT

LEMMA Defined ==
  ASSUME table \subseteq [x : DomainT, range : RangeT], NEW x, defined(x)
  PROVE  Entry(x, find(x)) \in table
<1>1. PICK e \in table : e.x = x
  BY DEF defined
<1>2. (CHOOSE f \in table : f.x = x) \in table /\ (CHOOSE f \in table : f.x = x).x = x
  BY <1>1
<1> DEFINE f == CHOOSE f \in table : f.x = x
<1>3. f = Entry(x, f.range)
  BY <1>2, TableFacts
<1> QED
  BY <1>2, <1>3 DEF find

(* Recording an undefined point keeps entries unique.                      *)
LEMMA AddEntry ==
  ASSUME UniqueEntries, NEW x, NEW r, ~defined(x), table' = table \union {Entry(x, r)}
  PROVE  UniqueEntries'
BY DEF UniqueEntries, defined, Entry

-----------------------------------------------------------------------------
(* What the calls on the PRF do *)

LEMMA PrfMac ==
  ASSUME TypeOK, UniqueEntries, NEW n \in IV, NEW mk \in OneTimeKey, prf_mac(n, mk, table')
  PROVE  /\ UniqueEntries'
         /\ table \subseteq table' /\ table' \subseteq [x : DomainT, range : RangeT]
         /\ \A e \in table' : e \in table \/ e.x = At(n, ctr_0)
         /\ prf => Entry(At(n, ctr_0), mk) \in table'
<1> DEFINE x == At(n, ctr_0)
<1>1. x \in DomainT /\ Entry(x, mk) \in [x : DomainT, range : RangeT] /\ Entry(x, mk).x = x
  BY Counters DEF At, Entry, DomainT, RangeT
<1>2. table \subseteq [x : DomainT, range : RangeT]
  BY DEF TypeOK
<1>3. CASE prf /\ ~defined(x)
  <2>1. table' = table \union {Entry(x, mk)}
    BY <1>3 DEF prf_mac
  <2> QED
    BY <1>1, <1>2, <1>3, <2>1, AddEntry
<1>4. CASE prf /\ defined(x)
  <2>1. mk = find(x) /\ table' = table
    BY <1>4 DEF prf_mac
  <2>2. Entry(x, mk) \in table
    BY <1>2, <1>4, <2>1, Defined
  <2> QED
    BY <1>2, <2>1, <2>2 DEF UniqueEntries
<1>5. CASE ~prf
  BY <1>2, <1>5 DEF prf_mac, UniqueEntries
<1> QED
  BY <1>3, <1>4, <1>5

LEMMA PrfBlk ==
  ASSUME TypeOK, UniqueEntries, NEW x \in DomainT, NEW b \in Block, prf_blk(x, b, table')
  PROVE  /\ UniqueEntries'
         /\ table \subseteq table' /\ table' \subseteq [x : DomainT, range : RangeT]
         /\ \A e \in table' : e \in table \/ e.x = x
         /\ prf => Entry(x, b) \in table'
<1>1. Entry(x, b) \in [x : DomainT, range : RangeT] /\ Entry(x, b).x = x
  BY DEF Entry, RangeT
<1>2. table \subseteq [x : DomainT, range : RangeT]
  BY DEF TypeOK
<1>3. CASE prf /\ ~defined(x)
  <2>1. table' = table \union {Entry(x, b)}
    BY <1>3 DEF prf_blk
  <2> QED
    BY <1>1, <1>2, <1>3, <2>1, AddEntry
<1>4. CASE prf /\ defined(x)
  <2>1. b = find(x) /\ table' = table
    BY <1>4 DEF prf_blk
  <2>2. Entry(x, b) \in table
    BY <1>2, <1>4, <2>1, Defined
  <2> QED
    BY <1>2, <2>1, <2>2 DEF UniqueEntries
<1>5. CASE ~prf
  BY <1>2, <1>5 DEF prf_blk, UniqueEntries
<1> QED
  BY <1>3, <1>4, <1>5

(* A pad is recorded with both texts, or is the key stream between them.   *)
LEMMA PrfEnxor ==
  ASSUME TypeOK, UniqueEntries, NEW x \in DomainT, NEW p \in TextBlock, NEW c \in TextBlock,
         prf_enxor(x, p, c, table'), safeId => ~defined(x)
  PROVE  /\ UniqueEntries'
         /\ table \subseteq table' /\ table' \subseteq [x : DomainT, range : RangeT]
         /\ \A e \in table' : e \in table \/ e.x = x
         /\ p \in FullBlock => c \in FullBlock
         /\ prf => HasBlock(x, p, c)'
<1>1. CASE safeId
  <2>1. BlockLen(c) = BlockLen(p) /\ table' = table \union {Entry(x, OTP(p, c))}
    BY <1>1 DEF prf_enxor
  <2>2. Entry(x, OTP(p, c)) \in [x : DomainT, range : RangeT] /\ Entry(x, OTP(p, c)).x = x
    BY DEF Entry, OTP, RangeT
  <2>3. UniqueEntries'
    BY <1>1, <2>1, AddEntry
  <2>4. p \in FullBlock => c \in FullBlock
    BY <2>1, LengthAssumption
  <2>5. HasBlock(x, p, c)'
    BY <1>1, <2>1 DEF HasBlock
  <2>6. table \subseteq [x : DomainT, range : RangeT]
    BY DEF TypeOK
  <2> QED
    BY <2>1, <2>2, <2>3, <2>4, <2>5, <2>6
<1>2. CASE ~safeId
  <2>1. PICK b \in Block : prf_blk(x, b, table') /\ c = Xor(b, p)
    BY <1>2 DEF prf_enxor
  <2>2. p \in FullBlock => c \in FullBlock
    BY <2>1, CipherAssumption
  <2>3. prf => HasBlock(x, p, c)'
    BY <1>2, <2>1, PrfBlk DEF HasBlock
  <2> QED
    BY <2>1, <2>2, <2>3, PrfBlk
<1> QED
  BY <1>1, <1>2

(* Decrypting a block that was encrypted yields its plaintext.             *)
LEMMA PrfDexor ==
  ASSUME TypeOK, UniqueEntries, NEW x \in DomainT, NEW p \in TextBlock, NEW c \in TextBlock,
         prf_dexor(x, c, p, table')
  PROVE  /\ UniqueEntries'
         /\ table \subseteq table' /\ table' \subseteq [x : DomainT, range : RangeT]
         /\ \A e \in table' : e \in table \/ e.x = x
         /\ ~safeId /\ c \in FullBlock => p \in FullBlock
         /\ \A q \in TextBlock : prf /\ HasBlock(x, q, c) => p = q
<1>1. CASE safeId
  <2>1. defined(x) /\ p = find(x).p /\ table' = table
    BY <1>1 DEF prf_dexor
  <2>2. ASSUME NEW q \in TextBlock, HasBlock(x, q, c)
        PROVE  p = q
    <3>1. find(x) = OTP(q, c)
      BY <1>1, <2>2, FindEntry DEF HasBlock
    <3> QED
      BY <2>1, <3>1 DEF OTP
  <2>3. table \subseteq [x : DomainT, range : RangeT] /\ UniqueEntries'
    BY <2>1 DEF TypeOK, UniqueEntries
  <2> QED
    BY <1>1, <2>1, <2>2, <2>3
<1>2. CASE ~safeId
  <2>1. PICK b \in Block : prf_blk(x, b, table') /\ p = Xor(b, c)
    BY <1>2 DEF prf_dexor
  <2>2. c \in FullBlock => p \in FullBlock
    BY <2>1, CipherAssumption
  <2>3. ASSUME NEW q \in TextBlock, prf, HasBlock(x, q, c)
        PROVE  p = q
    <3>1. PICK d \in Block : Entry(x, d) \in table /\ c = Xor(d, q)
      BY <1>2, <2>3 DEF HasBlock
    <3>2. b = d
      BY <2>1, <2>3, <3>1, FindEntry DEF prf_blk
    <3> QED
      BY <2>1, <3>1, <3>2, CipherAssumption
  <2> QED
    BY <1>2, <2>1, <2>2, <2>3, PrfBlk
<1> QED
  BY <1>1, <1>2

-----------------------------------------------------------------------------
(* The inductive invariant *)

(* Entries stay refined while the table grows and their MAC logs stay.     *)
LEMMA Refined ==
  ASSUME table \subseteq table', ak' = ak, NEW m, maclog'[m.nonce] = maclog[m.nonce]
  PROVE  /\ mac_is_set(m) => mac_is_set(m)'
         /\ contains_all_otp_blocks(m) => contains_all_otp_blocks(m)'
BY DEF mac_is_set, contains_all_otp_blocks, HasBlock

LEMMA Blocks ==
  ASSUME table \subseteq table', NEW x, NEW p, NEW c, HasBlock(x, p, c)
  PROVE  HasBlock(x, p, c)'
BY DEF HasBlock

LEMMA InitInv == Init => IInv
BY FlagAssumption
   DEF Init, IInv, TypeOK, LoopInv, UniqueEntries, LogInv, FreshInv, EncryptInv, DecryptInv,
       RetInv, Encrypting, unused_aead_iv_for_prf

(* Both ways of making a key: only the static MAC key's point is mapped.   *)
LEMMA KeyInv ==
  ASSUME IInv, pc = "none", key' \in Key, prf_sk0(key'), pc' = "ready",
         UNCHANGED <<maclog, log, frame, ret, sent>>
  PROVE  IInv'
<1>1. table = {} /\ log = {}
  BY DEF IInv
<1>2. ak' \in OptionalKey /\ table' \subseteq [x : DomainT, range : RangeT]
  BY <1>1, DataAssumption, CipherAssumption, Counters
     DEF prf_sk0, OptionalKey, Entry, At, DomainT, RangeT
<1>3. \A e \in table' : e = Entry(At(iv_0, 0), ZeroKey) /\ e.x.ctr = 0
  BY <1>1 DEF prf_sk0, Entry, At
<1>4. TypeOK' /\ LoopInv' /\ UniqueEntries'
  BY <1>2, <1>3 DEF IInv, TypeOK, LoopInv, UniqueEntries, Encrypting
<1>5. ASSUME safeMac
      PROVE  LogInv' /\ FreshInv' /\ EncryptInv' /\ DecryptInv' /\ RetInv'
  <2>1. LogInv' /\ EncryptInv' /\ DecryptInv' /\ RetInv'
    BY <1>1, <1>5 DEF IInv, LogInv, EncryptInv, DecryptInv, RetInv, Encrypting
  <2>2. FreshInv'
    BY <1>1, <1>3, <1>5, Counters
       DEF IInv, FreshInv, Encrypting, fresh_nonce, unused_aead_iv_for_prf
  <2> QED
    BY <2>1, <2>2
<1> QED
  BY <1>4, <1>5 DEF IInv

LEMMA EncryptStep ==
  ASSUME IInv, NEW n \in IV, NEW a \in AD, NEW p \in Plain, encrypt(n, a, p)
  PROVE  IInv'
<1>1. PICK mk \in OneTimeKey : prf_mac(n, mk, table') /\ frame' = EncryptFrame(n, a, p, mk)
  BY DEF encrypt
<1>2. /\ pc = "ready" /\ pc' = "enxor" /\ ret' = NoRet /\ (safeMac => fresh_nonce(n))
      /\ key' = key /\ ak' = ak /\ maclog' = maclog /\ log' = log /\ sent' = sent
  BY DEF encrypt
<1>3. /\ UniqueEntries'
      /\ table \subseteq table' /\ table' \subseteq [x : DomainT, range : RangeT]
      /\ \A e \in table' : e \in table \/ e.x = At(n, ctr_0)
      /\ prf => Entry(At(n, ctr_0), mk) \in table'
  BY <1>1, PrfMac DEF IInv
<1>4. p \in Text /\ p \in Seq(TextBlock) /\ Len(p) \in 1 .. MaxBlocks
  BY DataAssumption, TextFacts
<1>5. /\ frame'.n = n /\ frame'.ad = a /\ frame'.p = p /\ frame'.c = <<>> /\ frame'.mk = mk
      /\ Len(frame'.c) = 0
  BY <1>1 DEF EncryptFrame
<1>6. <<>> \in Partial
  BY EmptyPartial
<1>7. TypeOK'
  BY <1>1, <1>2, <1>3, <1>4, <1>6 DEF IInv, TypeOK, EncryptFrame, EncryptFrames
<1>8. LoopInv'
  BY <1>2, <1>4, <1>5, Counters DEF LoopInv, Encrypting
<1>9. ASSUME safeMac
      PROVE  LogInv' /\ FreshInv' /\ EncryptInv' /\ DecryptInv' /\ RetInv'
  <2>1. LogInv'
    BY <1>2, <1>3, <1>9, Refined DEF IInv, LogInv
  <2>2. FreshInv'
    BY <1>2, <1>3, <1>5, <1>9 DEF IInv, FreshInv, Encrypting, fresh_nonce, unused_aead_iv_for_prf, At
  <2>3. EncryptInv'
    <3>1. unused_aead_iv_for_prf(n)
      BY <1>2, <1>9 DEF IInv, FreshInv, Encrypting
    <3>2. \A e \in table' : e.x.iv = n => e.x.ctr < otp_offset + Len(frame'.c)
      BY <1>3, <1>5, <3>1, Counters DEF unused_aead_iv_for_prf, At
    <3> QED
      BY <1>2, <1>3, <1>5, <1>9, <3>1, <3>2, Flags
         DEF EncryptInv, Encrypting, fresh_nonce, unused_aead_iv_for_prf
  <2>4. DecryptInv' /\ RetInv'
    BY <1>2 DEF DecryptInv, RetInv
  <2> QED
    BY <2>1, <2>2, <2>3, <2>4
<1> QED
  BY <1>2, <1>3, <1>7, <1>8, <1>9 DEF IInv

LEMMA DecryptStep ==
  ASSUME IInv, NEW n \in IV, NEW a \in AD, NEW c \in Cipher, NEW t \in Tag, decrypt(n, a, c, t)
  PROVE  IInv'
<1>1. PICK mk \in OneTimeKey : prf_mac(n, mk, table') /\ frame' = DecryptFrame(n, a, c, t, mk)
  BY DEF decrypt
<1>2. /\ pc = "ready" /\ pc' = "verify" /\ ret' = NoRet
      /\ key' = key /\ ak' = ak /\ maclog' = maclog /\ log' = log /\ sent' = sent
  BY DEF decrypt
<1>3. /\ UniqueEntries'
      /\ table \subseteq table' /\ table' \subseteq [x : DomainT, range : RangeT]
      /\ \A e \in table' : e \in table \/ e.x = At(n, ctr_0)
      /\ prf => Entry(At(n, ctr_0), mk) \in table'
  BY <1>1, PrfMac DEF IInv
<1>4. c \in Text
  BY DataAssumption
<1>5. frame'.n = n /\ frame'.p = <<>> /\ frame'.mk = mk
  BY <1>1 DEF DecryptFrame
<1>6. <<>> \in Partial
  BY EmptyPartial
<1>7. TypeOK'
  BY <1>1, <1>2, <1>3, <1>4, <1>6 DEF IInv, TypeOK, DecryptFrame, DecryptFrames
<1>8. LoopInv'
  BY <1>2, <1>5 DEF LoopInv, Encrypting
<1>9. ASSUME safeMac
      PROVE  LogInv' /\ FreshInv' /\ EncryptInv' /\ DecryptInv' /\ RetInv'
  <2>1. LogInv'
    BY <1>2, <1>3, <1>9, Refined DEF IInv, LogInv
  <2>2. FreshInv'
    BY <1>2, <1>3, <1>9, Counters
       DEF IInv, FreshInv, Encrypting, fresh_nonce, unused_aead_iv_for_prf, At
  <2>3. EncryptInv' /\ RetInv'
    BY <1>2 DEF EncryptInv, Encrypting, RetInv
  <2>4. DecryptInv'
    BY <1>2, <1>3, <1>5, <1>9, Flags DEF DecryptInv
  <2> QED
    BY <2>1, <2>2, <2>3, <2>4
<1> QED
  BY <1>2, <1>3, <1>7, <1>8, <1>9 DEF IInv

(* One block of encryption: the point it uses is unused, and the next one  *)
(* still is.                                                               *)
LEMMA EnxorStep ==
  ASSUME IInv, enxor
  PROVE  IInv'
<1>1. PICK j : j = Len(frame.c) + 1
  OBVIOUS
<1>2. PICK x, q : x = At(frame.n, otp_offset + j - 1) /\ q = frame.p[j]
  OBVIOUS
<1>3. PICK c \in TextBlock :
        /\ prf_enxor(x, q, c, table')
        /\ frame' = [frame EXCEPT !.c = Append(frame.c, c)]
        /\ pc' = IF j = Len(frame.p) THEN "mac" ELSE "enxor"
  BY <1>1, <1>2 DEF enxor
<1>4. /\ pc = "enxor" /\ frame \in EncryptFrames /\ key' = key /\ ak' = ak
      /\ maclog' = maclog /\ log' = log /\ ret' = ret /\ sent' = sent
  BY DEF enxor, IInv, TypeOK
<1>5. /\ frame.n \in IV /\ frame.c \in Seq(TextBlock) /\ Len(frame.c) \in Nat
      /\ frame.p \in Text /\ frame.p \in Seq(TextBlock) /\ Len(frame.p) \in 1 .. MaxBlocks
      /\ \A k \in 1 .. Len(frame.p) : frame.p[k] \in TextBlock
      /\ \A k \in 1 .. Len(frame.p) - 1 : frame.p[k] \in FullBlock
  BY <1>4, PartialFacts, TextFacts, Counters DEF EncryptFrames
<1>6. /\ j \in 1 .. Len(frame.p) /\ j \in Nat /\ q \in TextBlock
      /\ otp_offset + j - 1 \in 0 .. maxCtr /\ otp_offset + j - 1 = otp_offset + Len(frame.c)
  <2>1. /\ Len(frame.c) \in Nat /\ Len(frame.p) \in Nat
        /\ Len(frame.c) < Len(frame.p) /\ Len(frame.p) <= MaxBlocks
    BY <1>4, <1>5, Counters DEF IInv, LoopInv
  <2>2. j \in 1 .. Len(frame.p) /\ j \in Nat
    BY <1>1, <2>1
  <2>3. otp_offset + j - 1 = otp_offset + Len(frame.c)
    BY <1>1, <2>1, OffsetNat
  <2>4. otp_offset + Len(frame.c) \in 0 .. maxCtr
    BY <2>1, InRange
  <2> QED
    BY <1>2, <1>5, <2>2, <2>3, <2>4
<1>7. x \in DomainT /\ x.iv = frame.n /\ x.ctr = otp_offset + Len(frame.c)
  BY <1>2, <1>5, <1>6 DEF At, DomainT
<1>8. safeId => ~defined(x)
  <2>1. SUFFICES ASSUME safeId PROVE ~defined(x)
    OBVIOUS
  <2>2. \A e \in table : e.x.iv = frame.n => e.x.ctr < otp_offset + Len(frame.c)
    BY <1>4, <2>1, Flags DEF IInv, EncryptInv, Encrypting
  <2>3. ~(x.ctr < otp_offset + Len(frame.c))
    <3>1. Len(frame.c) \in Nat
      BY <1>5
    <3> QED
      BY <1>7, <3>1, OffsetNat
  <2> QED
    BY <1>7, <2>2, <2>3 DEF defined
<1>9. /\ UniqueEntries'
      /\ table \subseteq table' /\ table' \subseteq [x : DomainT, range : RangeT]
      /\ \A e \in table' : e \in table \/ e.x = x
      /\ q \in FullBlock => c \in FullBlock
      /\ prf => HasBlock(x, q, c)'
  BY <1>3, <1>6, <1>7, <1>8, PrfEnxor DEF IInv
<1>10. /\ frame'.n = frame.n /\ frame'.ad = frame.ad /\ frame'.p = frame.p /\ frame'.mk = frame.mk
       /\ frame'.c = Append(frame.c, c)
  BY <1>3, <1>4 DEF EncryptFrames
<1>11. /\ frame'.c \in Seq(TextBlock) /\ Len(frame'.c) = j
       /\ \A k \in 1 .. Len(frame.c) : frame'.c[k] = frame.c[k]
       /\ frame'.c[j] = c
  BY <1>1, <1>5, <1>10, AppendBlock
<1>12. TypeOK'
  <2>1. frame'.c \in Partial
    BY <1>5, <1>6, <1>11, Counters, PartialFacts
  <2>2. frame' \in EncryptFrames
    BY <1>3, <1>4, <1>10, <2>1 DEF EncryptFrames
  <2> QED
    BY <1>3, <1>4, <1>9, <2>2 DEF IInv, TypeOK
<1>13. LoopInv'
  <2>1. \A k \in 1 .. Len(frame'.c) : k < Len(frame'.p) => frame'.c[k] \in FullBlock
    BY <1>1, <1>2, <1>4, <1>5, <1>6, <1>9, <1>10, <1>11 DEF IInv, LoopInv, Encrypting
  <2> QED
    BY <1>3, <1>5, <1>6, <1>10, <1>11, <2>1 DEF LoopInv, Encrypting
<1>14. ASSUME safeMac
       PROVE  LogInv' /\ FreshInv' /\ EncryptInv' /\ DecryptInv' /\ RetInv'
  <2>1. LogInv'
    BY <1>4, <1>9, <1>14, Refined DEF IInv, LogInv
  <2>2. FreshInv'
    BY <1>3, <1>4, <1>7, <1>9, <1>10, <1>14
       DEF IInv, FreshInv, Encrypting, fresh_nonce, unused_aead_iv_for_prf
  <2>3. EncryptInv'
    <3>1. EncryptInv /\ Encrypting /\ Encrypting'
      BY <1>3, <1>4, <1>14 DEF IInv, Encrypting
    <3>2. ASSUME NEW k \in 1 .. Len(frame'.c)
          PROVE  HasBlock(At(frame.n, otp_offset + k - 1), frame.p[k], frame.c[k])'
      <4>1. CASE k = j
        BY <1>2, <1>9, <1>10, <1>11, <1>14, <4>1, Flags DEF HasBlock
      <4>2. CASE k # j
        <5>1. k \in 1 .. Len(frame.c)
          BY <1>1, <1>5, <1>11, <3>2, <4>2
        <5>2. HasBlock(At(frame.n, otp_offset + k - 1), frame.p[k], frame.c[k])
          BY <3>1, <5>1 DEF EncryptInv
        <5> QED
          BY <1>9, <1>10, <1>11, <5>1, <5>2 DEF HasBlock
      <4> QED
        BY <4>1, <4>2
    <3>3. ASSUME NEW e \in table', e.x.iv = frame.n
          PROVE  e.x.ctr < otp_offset + Len(frame'.c)
      <4>0. Len(frame.c) \in Nat /\ Len(frame'.c) = Len(frame.c) + 1
        BY <1>1, <1>5, <1>11
      <4>1. CASE e \in table
        <5>1. e.x.ctr < otp_offset + Len(frame.c)
          BY <3>1, <3>3, <4>1 DEF EncryptInv
        <5>2. e.x.ctr \in Nat
          BY <4>1, TableFacts DEF IInv, TypeOK
        <5> QED
          BY <4>0, <5>1, <5>2, OffsetNat
      <4>2. CASE e.x = x
        BY <1>7, <4>0, <4>2, OffsetNat
      <4> QED
        BY <1>9, <3>3, <4>1, <4>2
    <3>4. maclog'[frame'.n] = NoLog /\ fresh_nonce(frame.n)' /\ pc' # "ideal"
      BY <1>3, <1>4, <1>10, <3>1 DEF EncryptInv, fresh_nonce
    <3>5. Entry(At(frame.n, ctr_0), frame.mk)' \in table'
      BY <1>9, <1>10, <3>1 DEF EncryptInv, Entry, At
    <3> QED
      BY <1>10, <3>2, <3>3, <3>4, <3>5 DEF EncryptInv
  <2>4. DecryptInv' /\ RetInv'
    BY <1>3, <1>4, <1>14 DEF IInv, DecryptInv, RetInv
  <2> QED
    BY <2>1, <2>2, <2>3, <2>4
<1> QED
  BY <1>3, <1>9, <1>12, <1>13, <1>14 DEF IInv

(* A finished encryption has a well-formed ciphertext and tag.             *)
LEMMA FrameFacts ==
  ASSUME IInv, pc \in {"mac", "ideal"}
  PROVE  /\ frame.n \in IV /\ frame.ad \in AD /\ frame.p \in Text /\ frame.c \in Text
         /\ FrameTag \in Tag /\ FrameMessage(FrameTag) \in Message
         /\ Len(frame.p) = Len(frame.c)
<1>1. frame \in EncryptFrames /\ ak \in OptionalKey
  BY DEF IInv, TypeOK
<1>2. frame.c \in Seq(TextBlock) /\ Len(frame.p) \in 1 .. MaxBlocks
  BY <1>1, PartialFacts, TextFacts DEF EncryptFrames
<1>3. /\ Len(frame.c) = Len(frame.p)
      /\ \A k \in 1 .. Len(frame.c) : k < Len(frame.p) => frame.c[k] \in FullBlock
  BY DEF IInv, LoopInv, Encrypting
<1>4. frame.c \in Text
  BY <1>2, <1>3, TextIntro, Counters
<1>5. FrameTag \in Tag
  BY <1>1, <1>4, MacAssumption DEF FrameTag, EncryptFrames
<1> QED
  BY <1>1, <1>3, <1>4, <1>5 DEF FrameMessage, Message, EncryptFrames

LEMMA MacStep ==
  ASSUME IInv, mac
  PROVE  IInv'
<1>1. /\ pc = "mac" /\ key' = key /\ ak' = ak /\ table' = table /\ log' = log
      /\ frame \in EncryptFrames
  BY DEF mac, IInv, TypeOK
<1>2. /\ frame.n \in IV /\ frame.ad \in AD /\ frame.c \in Text
      /\ FrameTag \in Tag /\ FrameMessage(FrameTag) \in Message
  BY <1>1, FrameFacts
<1>3. UniqueEntries'
  BY <1>1 DEF IInv, UniqueEntries
<1>4. CASE ~safeMac
  <2>1. /\ maclog' = maclog /\ sent' = sent \union {FrameMessage(FrameTag)} /\ frame' = NoFrame
        /\ ret' = [op |-> "encrypt", m |-> FrameMessage(FrameTag)] /\ pc' = "ready"
    BY <1>4, Flags DEF mac, EncryptReturns
  <2>2. TypeOK'
    BY <1>1, <1>2, <2>1 DEF IInv, TypeOK, Results
  <2>3. LoopInv'
    BY <2>1 DEF LoopInv, Encrypting
  <2> QED
    BY <1>3, <1>4, <2>1, <2>2, <2>3 DEF IInv
<1>5. CASE safeMac
  <2> DEFINE l == [text |-> EncodeBoth(frame.ad, frame.c), tag |-> FrameTag]
  <2>1. /\ maclog' = [maclog EXCEPT ![frame.n] = l]
        /\ pc' = "ideal" /\ frame' = frame /\ ret' = ret /\ sent' = sent
    BY <1>5, Flags DEF mac
  <2>2. l \in MacLog
    BY <1>2 DEF MacLog
  <2>3. maclog \in [IV -> MacLog \union {NoLog}]
    BY DEF IInv, TypeOK
  <2>4. maclog' \in [IV -> MacLog \union {NoLog}]
    BY <1>2, <2>1, <2>2, <2>3
  <2>5. maclog'[frame.n] = l /\ \A n \in IV : n # frame.n => maclog'[n] = maclog[n]
    BY <1>2, <2>1, <2>3
  <2>6. TypeOK'
    BY <1>1, <2>1, <2>4 DEF IInv, TypeOK
  <2>7. LoopInv'
    BY <1>1, <2>1 DEF IInv, LoopInv, Encrypting
  <2>8. /\ fresh_nonce(frame.n) /\ EncryptInv /\ Encrypting /\ Encrypting'
    BY <1>1, <1>5, <2>1 DEF IInv, EncryptInv, Encrypting
  <2>9. LogInv'
    <3>1. ASSUME NEW m \in log
          PROVE  mac_is_set(m)' /\ contains_all_otp_blocks(m)'
      <4>1. m.nonce \in IV /\ m.nonce # frame.n
        BY <2>8, <3>1 DEF IInv, TypeOK, Message, fresh_nonce
      <4> QED
        BY <1>1, <1>5, <2>5, <3>1, <4>1, Refined DEF IInv, LogInv
    <3> QED
      BY <1>1, <1>5, <3>1 DEF IInv, LogInv
  <2>10. FreshInv'
    BY <1>1, <1>5, <2>1, <2>5, <2>8 DEF IInv, FreshInv, fresh_nonce, unused_aead_iv_for_prf
  <2>11. EncryptInv'
    <3>1. fresh_nonce(frame.n)' /\ FrameTag' = FrameTag
      BY <1>1, <2>1, <2>8 DEF fresh_nonce, FrameTag
    <3>2. \A k \in 1 .. Len(frame.c) :
            HasBlock(At(frame.n, otp_offset + k - 1), frame.p[k], frame.c[k])'
      BY <1>1, <2>1, <2>8 DEF EncryptInv, HasBlock
    <3> QED
      BY <1>1, <2>1, <2>5, <2>8, <3>1, <3>2 DEF EncryptInv
  <2>12. DecryptInv' /\ RetInv'
    BY <1>1, <1>5, <2>1 DEF IInv, DecryptInv, RetInv
  <2> QED
    BY <1>3, <2>1, <2>6, <2>7, <2>9, <2>10, <2>11, <2>12 DEF IInv
<1> QED
  BY <1>4, <1>5

LEMMA IdealStep ==
  ASSUME IInv, do_ideal
  PROVE  IInv'
<1>1. PICK m : m = FrameMessage(FrameTag)
  OBVIOUS
<1>2. /\ pc = "ideal" /\ key' = key /\ ak' = ak /\ table' = table /\ maclog' = maclog
      /\ log' = log \union {m} /\ sent' = sent \union {m} /\ frame' = NoFrame
      /\ ret' = [op |-> "encrypt", m |-> m] /\ pc' = "ready"
  BY <1>1 DEF do_ideal, EncryptReturns
<1>3. m \in Message /\ Len(frame.p) = Len(frame.c)
  BY <1>1, <1>2, FrameFacts
<1>4. /\ m.nonce = frame.n /\ m.ad = frame.ad /\ m.p = frame.p /\ m.c = frame.c
      /\ m.tag = FrameTag
  BY <1>1 DEF FrameMessage
<1>5. TypeOK'
  BY <1>2, <1>3 DEF IInv, TypeOK, Results
<1>6. LoopInv' /\ UniqueEntries'
  BY <1>2 DEF IInv, LoopInv, Encrypting, UniqueEntries
<1>7. ASSUME safeMac
      PROVE  LogInv' /\ FreshInv' /\ EncryptInv' /\ DecryptInv' /\ RetInv'
  <2>1. Encrypting /\ EncryptInv
    BY <1>2, <1>7 DEF IInv, Encrypting
  <2>2. frame.mk \in OneTimeKey
    BY <1>2 DEF IInv, TypeOK, EncryptFrames
  <2>3. mac_is_set(m)'
    <3>1. Entry(At(m.nonce, ctr_0), frame.mk) \in table'
      BY <1>2, <1>4, <2>1 DEF EncryptInv
    <3>2. m.tag = Mac(EncodeBoth(m.ad, m.c), ak', frame.mk)
      BY <1>2, <1>4 DEF FrameTag
    <3>3. maclog'[m.nonce] = [text |-> EncodeBoth(m.ad, m.c), tag |-> m.tag]
      BY <1>2, <1>4, <2>1 DEF EncryptInv
    <3> QED
      BY <2>2, <3>1, <3>2, <3>3 DEF mac_is_set
  <2>4. contains_all_otp_blocks(m)'
    BY <1>2, <1>3, <1>4, <2>1 DEF contains_all_otp_blocks, EncryptInv, HasBlock
  <2>5. LogInv'
    <3>1. \A l \in log : mac_is_set(l)' /\ contains_all_otp_blocks(l)' /\ l.nonce # m.nonce
      BY <1>2, <1>4, <1>7, <2>1, Refined DEF IInv, LogInv, EncryptInv, fresh_nonce
    <3> QED
      BY <1>2, <1>7, <2>3, <2>4, <3>1 DEF IInv, LogInv
  <2>6. FreshInv'
    BY <1>2, <1>4, <1>7 DEF IInv, FreshInv, fresh_nonce, Encrypting, unused_aead_iv_for_prf
  <2>7. EncryptInv' /\ DecryptInv' /\ RetInv'
    BY <1>2 DEF EncryptInv, DecryptInv, RetInv, Encrypting
  <2> QED
    BY <2>5, <2>6, <2>7
<1> QED
  BY <1>2, <1>5, <1>6, <1>7 DEF IInv

(* The heart of authenticity: a verified tag is the logged one, so the log *)
(* has an entry for exactly this nonce, additional data, ciphertext, tag.  *)
LEMMA VerifiedIsLogged ==
  ASSUME IInv, safeMac, pc = "verify", Verified
  PROVE  \E m \in log : Matches(m)
<1>1. frame \in DecryptFrames /\ ak \in OptionalKey /\ log \subseteq Message
  BY DEF IInv, TypeOK
<1>2. /\ frame.n \in IV /\ frame.ad \in AD /\ frame.c \in Text /\ frame.mk \in OneTimeKey
  BY <1>1 DEF DecryptFrames
<1>3. FrameTag \in Tag
  BY <1>1, <1>2, MacAssumption DEF FrameTag
<1>4. maclog[frame.n] = [text |-> EncodeBoth(frame.ad, frame.c), tag |-> FrameTag]
  BY Flags DEF Verified
<1>5. [text |-> EncodeBoth(frame.ad, frame.c), tag |-> FrameTag] # NoLog
  BY <1>2, <1>3, DataAssumption
<1>6. ~fresh_nonce(frame.n)
  BY <1>2, <1>4, <1>5 DEF IInv, FreshInv, Encrypting, unused_aead_iv_for_prf
<1>7. PICK m \in log : m.nonce = frame.n
  BY <1>6 DEF fresh_nonce
<1>8. maclog[frame.n] = [text |-> EncodeBoth(m.ad, m.c), tag |-> m.tag]
  BY <1>7 DEF IInv, LogInv, mac_is_set
<1>9. EncodeBoth(m.ad, m.c) = EncodeBoth(frame.ad, frame.c) /\ m.tag = FrameTag
  BY <1>4, <1>8
<1>10. m.ad \in AD /\ m.c \in Text
  BY <1>1, <1>7 DEF Message
<1>11. m.ad = frame.ad /\ m.c = frame.c
  BY <1>2, <1>9, <1>10, EncodeAssumption
<1>12. FrameTag = frame.tag
  BY DEF Verified
<1> QED
  BY <1>7, <1>9, <1>11, <1>12 DEF Matches

(* And conversely, a logged message always verifies.                       *)
LEMMA LoggedIsVerified ==
  ASSUME IInv, safeMac, pc = "verify", NEW m \in log, Matches(m)
  PROVE  Verified
<1>1. PICK k \in OneTimeKey : /\ Entry(At(m.nonce, ctr_0), k) \in table
                              /\ m.tag = Mac(EncodeBoth(m.ad, m.c), ak, k)
  BY DEF IInv, LogInv, mac_is_set
<1>2. UniqueEntries /\ Entry(At(frame.n, ctr_0), frame.mk) \in table
  BY DEF IInv, DecryptInv
<1>3. k = frame.mk
  BY <1>1, <1>2, FindEntry DEF Matches
<1>4. FrameTag = frame.tag
  BY <1>1, <1>3 DEF FrameTag, Matches
<1>5. maclog[m.nonce] = [text |-> EncodeBoth(m.ad, m.c), tag |-> m.tag]
  BY DEF IInv, LogInv, mac_is_set
<1> QED
  BY <1>4, <1>5 DEF Verified, Matches

LEMMA VerifyStep ==
  ASSUME IInv, verify
  PROVE  IInv'
<1>1. /\ pc = "verify" /\ key' = key /\ ak' = ak /\ table' = table /\ maclog' = maclog
      /\ log' = log /\ sent' = sent /\ frame \in DecryptFrames
  BY DEF verify, IInv, TypeOK
<1>2. UniqueEntries'
  BY <1>1 DEF IInv, UniqueEntries
<1>3. ASSUME safeMac
      PROVE  LogInv' /\ (pc' \in {"ready", "dexor"} => FreshInv' /\ EncryptInv')
  <2>1. LogInv'
    BY <1>1, <1>3, Refined DEF IInv, LogInv
  <2>2. pc' \in {"ready", "dexor"} => FreshInv' /\ EncryptInv'
    BY <1>1, <1>3
       DEF IInv, FreshInv, EncryptInv, Encrypting, fresh_nonce, unused_aead_iv_for_prf
  <2> QED
    BY <2>1, <2>2
<1>4. CASE ~Verified
  <2>1. /\ ret' = [op |-> "decrypt", ok |-> FALSE, nonce |-> frame.n, ad |-> frame.ad,
                    c |-> frame.c, tag |-> frame.tag]
        /\ frame' = NoFrame /\ pc' = "ready"
    BY <1>4 DEF verify
  <2>2. TypeOK'
    BY <1>1, <2>1 DEF IInv, TypeOK, Results, DecryptFrames
  <2>3. LoopInv' /\ DecryptInv' /\ RetInv'
    BY <2>1 DEF LoopInv, Encrypting, DecryptInv, RetInv
  <2> QED
    BY <1>2, <1>3, <2>1, <2>2, <2>3 DEF IInv
<1>5. CASE Verified
  <2>1. pc' = "dexor" /\ frame' = frame /\ ret' = ret
    BY <1>5 DEF verify
  <2>2. TypeOK'
    BY <1>1, <2>1 DEF IInv, TypeOK
  <2>3. frame.p = <<>> /\ Len(frame.p) = 0
    BY <1>1, EmptySeq DEF IInv, LoopInv
  <2>4. Len(frame.c) \in 1 .. MaxBlocks
    BY <1>1, TextFacts DEF DecryptFrames
  <2>5. LoopInv'
    <3>1. Len(frame.p) < Len(frame.c)
      BY <2>3, <2>4, Counters
    <3> QED
      BY <2>1, <2>3, <3>1 DEF LoopInv, Encrypting
  <2>6. ASSUME safeMac PROVE DecryptInv' /\ RetInv'
    <3>1. PICK m \in log : Matches(m)
      BY <1>1, <1>5, <2>6, VerifiedIsLogged
    <3>2. m.p \in Seq(TextBlock)
      BY <3>1, TextFacts DEF IInv, TypeOK, Message
    <3>3. frame.p = SubSeq(m.p, 1, Len(frame.p))
      BY <2>3, <3>2, SubSeqEmpty
    <3> QED
      BY <1>1, <2>1, <2>6, <3>1, <3>3 DEF IInv, DecryptInv, RetInv, Matches
  <2> QED
    BY <1>2, <1>3, <2>1, <2>2, <2>5, <2>6 DEF IInv
<1> QED
  BY <1>4, <1>5

(* One block of decryption: the plaintext stays a prefix of the logged one. *)
LEMMA DexorFacts ==
  ASSUME IInv, dexor, NEW j, j = Len(frame.p) + 1,
         NEW x, x = At(frame.n, otp_offset + j - 1), NEW d, d = frame.c[j]
  PROVE  /\ pc = "dexor" /\ frame \in DecryptFrames
         /\ frame.p \in Seq(TextBlock) /\ j \in Nat /\ j \in 1 .. Len(frame.c)
         /\ Len(frame.c) \in 1 .. MaxBlocks
         /\ x \in DomainT /\ x.iv = frame.n /\ d \in TextBlock
         /\ j < Len(frame.c) => d \in FullBlock
<1>1. pc = "dexor" /\ frame \in DecryptFrames
  BY DEF dexor, IInv, TypeOK
<1>2. frame.n \in IV /\ frame.c \in Text /\ frame.p \in Partial
  BY <1>1 DEF DecryptFrames
<1>3. frame.p \in Seq(TextBlock) /\ Len(frame.p) \in Nat
  BY <1>2, PartialFacts, LenProperties
<1>4. /\ Len(frame.c) \in 1 .. MaxBlocks
      /\ \A k \in 1 .. Len(frame.c) : frame.c[k] \in TextBlock
      /\ \A k \in 1 .. Len(frame.c) - 1 : frame.c[k] \in FullBlock
  BY <1>2, TextFacts
<1>5. Len(frame.c) \in Nat /\ Len(frame.c) <= MaxBlocks /\ Len(frame.p) < Len(frame.c)
  BY <1>1, <1>4, Counters DEF IInv, LoopInv
<1>6. j \in Nat /\ j \in 1 .. Len(frame.c)
  BY <1>3, <1>5
<1>7. otp_offset + j - 1 = otp_offset + Len(frame.p)
  BY <1>3, OffsetNat
<1>8. otp_offset + Len(frame.p) \in 0 .. maxCtr
  BY <1>3, <1>5, InRange
<1>9. x \in DomainT /\ x.iv = frame.n
  BY <1>2, <1>7, <1>8 DEF At, DomainT
<1>10. d \in TextBlock /\ (j < Len(frame.c) => d \in FullBlock)
  BY <1>4, <1>5, <1>6
<1> QED
  BY <1>1, <1>3, <1>4, <1>6, <1>9, <1>10

LEMMA DexorPrefix ==
  ASSUME IInv, safeMac, dexor, NEW j, j = Len(frame.p) + 1,
         NEW x, x = At(frame.n, otp_offset + j - 1), NEW d, d = frame.c[j],
         NEW p \in TextBlock, prf_dexor(x, d, p, table')
  PROVE  \E m \in log : /\ Matches(m) /\ m.p \in Text /\ Len(m.p) = Len(frame.c)
                        /\ p = m.p[j]
                        /\ Append(frame.p, p) = SubSeq(m.p, 1, j)
                        /\ j = Len(frame.c) => Append(frame.p, p) = m.p
<1>1. /\ pc = "dexor" /\ frame.p \in Seq(TextBlock) /\ j \in Nat /\ j \in 1 .. Len(frame.c)
      /\ x \in DomainT /\ d \in TextBlock
  BY DexorFacts
<1>2. PICK m \in log : Matches(m) /\ frame.p = SubSeq(m.p, 1, Len(frame.p))
  BY <1>1 DEF IInv, DecryptInv, Matches
<1>3. m.p \in Text
  BY <1>2 DEF IInv, TypeOK, Message
<1>4. m.p \in Seq(TextBlock) /\ \A k \in 1 .. Len(m.p) : m.p[k] \in TextBlock
  BY <1>3, TextFacts
<1>5. /\ Len(m.p) = Len(m.c)
      /\ \A k \in 1 .. Len(m.c) : HasBlock(At(m.nonce, otp_offset + k - 1), m.p[k], m.c[k])
  BY <1>2 DEF IInv, LogInv, contains_all_otp_blocks
<1>6. HasBlock(x, m.p[j], d) /\ m.p[j] \in TextBlock /\ Len(m.p) = Len(frame.c)
  BY <1>1, <1>2, <1>4, <1>5 DEF Matches
<1>7. p = m.p[j]
  BY <1>1, <1>6, PrfDexor, Flags DEF IInv
<1>8. Len(frame.p) < Len(m.p)
  BY <1>1, <1>6 DEF IInv, LoopInv
<1>9. Append(frame.p, p) = SubSeq(m.p, 1, j)
  BY <1>1, <1>2, <1>4, <1>7, <1>8, PrefixAppend
<1>10. SubSeq(m.p, 1, Len(m.p)) = m.p
  BY <1>4, SubSeqFull
<1> QED
  BY <1>2, <1>3, <1>6, <1>7, <1>9, <1>10

LEMMA DexorStep ==
  ASSUME IInv, dexor
  PROVE  IInv'
<1>1. PICK j : j = Len(frame.p) + 1
  OBVIOUS
<1>2. PICK x, d : x = At(frame.n, otp_offset + j - 1) /\ d = frame.c[j]
  OBVIOUS
<1>3. PICK p \in TextBlock :
        /\ prf_dexor(x, d, p, table')
        /\ IF j = Len(frame.c)
           THEN /\ ret' = [op |-> "decrypt", ok |-> TRUE,
                           m |-> [nonce |-> frame.n, ad |-> frame.ad, p |-> Append(frame.p, p),
                                  c |-> frame.c, tag |-> frame.tag]]
                /\ frame' = NoFrame
                /\ pc' = "ready"
           ELSE /\ frame' = [frame EXCEPT !.p = Append(frame.p, p)]
                /\ UNCHANGED <<pc, ret>>
  BY <1>1, <1>2 DEF dexor
<1>4. key' = key /\ ak' = ak /\ maclog' = maclog /\ log' = log /\ sent' = sent
  BY DEF dexor
<1>5. /\ pc = "dexor" /\ frame \in DecryptFrames
      /\ frame.p \in Seq(TextBlock) /\ j \in Nat /\ j \in 1 .. Len(frame.c)
      /\ Len(frame.c) \in 1 .. MaxBlocks
      /\ x \in DomainT /\ x.iv = frame.n /\ d \in TextBlock
      /\ j < Len(frame.c) => d \in FullBlock
  BY <1>1, <1>2, DexorFacts
<1>6. /\ UniqueEntries'
      /\ table \subseteq table' /\ table' \subseteq [x : DomainT, range : RangeT]
      /\ \A e \in table' : e \in table \/ e.x = x
      /\ ~safeId /\ d \in FullBlock => p \in FullBlock
  BY <1>3, <1>5, PrfDexor DEF IInv
<1>7. safeMac => \E m \in log : /\ Matches(m) /\ m.p \in Text /\ Len(m.p) = Len(frame.c)
                                /\ p = m.p[j]
                                /\ Append(frame.p, p) = SubSeq(m.p, 1, j)
                                /\ j = Len(frame.c) => Append(frame.p, p) = m.p
  BY <1>1, <1>2, <1>3, DexorPrefix
<1>8. j < Len(frame.c) => p \in FullBlock
  <2>1. CASE safeId
    <3>1. PICK m \in log : m.p \in Text /\ Len(m.p) = Len(frame.c) /\ p = m.p[j]
      BY <1>7, <2>1, Flags
    <3>2. \A k \in 1 .. Len(m.p) - 1 : m.p[k] \in FullBlock
      BY <3>1, TextFacts
    <3> QED
      BY <1>5, <3>1, <3>2
  <2>2. CASE ~safeId
    BY <1>5, <1>6, <2>2
  <2> QED
    BY <2>1, <2>2
<1>9. PICK t : t = Append(frame.p, p)
  OBVIOUS
<1>10. /\ t \in Seq(TextBlock) /\ Len(t) = j
       /\ \A k \in 1 .. Len(frame.p) : t[k] = frame.p[k]
       /\ t[j] = p
  BY <1>1, <1>5, <1>9, AppendBlock
<1>11. \A k \in 1 .. Len(t) : k < Len(frame.c) => t[k] \in FullBlock
  BY <1>1, <1>5, <1>8, <1>10 DEF IInv, LoopInv
<1>12. ASSUME safeMac PROVE LogInv'
  BY <1>4, <1>6, <1>12, Refined DEF IInv, LogInv
<1>13. ASSUME safeMac, pc' \in {"ready", "dexor"} PROVE FreshInv' /\ EncryptInv'
  <2>1. ~fresh_nonce(frame.n)
    BY <1>7, <1>13 DEF fresh_nonce, Matches
  <2> QED
    BY <1>4, <1>5, <1>6, <1>13, <2>1
       DEF IInv, FreshInv, EncryptInv, Encrypting, fresh_nonce, unused_aead_iv_for_prf
<1>14. CASE j = Len(frame.c)
  <2>1. PICK r : r = [nonce |-> frame.n, ad |-> frame.ad, p |-> t, c |-> frame.c, tag |-> frame.tag]
    OBVIOUS
  <2>2. ret' = [op |-> "decrypt", ok |-> TRUE, m |-> r] /\ frame' = NoFrame /\ pc' = "ready"
    BY <1>3, <1>9, <1>14, <2>1
  <2>3. t \in Text
    <3>1. Len(t) \in 1 .. MaxBlocks
      BY <1>5, <1>10, <1>14
    <3>2. \A k \in 1 .. Len(t) - 1 : t[k] \in FullBlock
      BY <1>10, <1>11, <1>14, <3>1
    <3> QED
      BY <1>10, <3>1, <3>2, TextIntro
  <2>4. r \in Message
    BY <1>5, <2>1, <2>3 DEF Message, DecryptFrames
  <2>5. TypeOK'
    BY <1>4, <1>5, <1>6, <2>2, <2>4 DEF IInv, TypeOK, Results
  <2>6. LoopInv' /\ DecryptInv'
    BY <2>2 DEF LoopInv, Encrypting, DecryptInv
  <2>7. ASSUME safeMac PROVE RetInv'
    <3>1. PICK m \in log : Matches(m) /\ t = m.p
      BY <1>7, <1>9, <1>14, <2>7
    <3>2. m = r
      BY <2>1, <3>1 DEF Matches, IInv, TypeOK, Message
    <3> QED
      BY <1>4, <2>2, <3>2 DEF RetInv
  <2> QED
    BY <1>6, <1>12, <1>13, <2>2, <2>5, <2>6, <2>7 DEF IInv
<1>15. CASE j # Len(frame.c)
  <2>1. frame' = [frame EXCEPT !.p = t] /\ pc' = "dexor" /\ ret' = ret
    BY <1>3, <1>5, <1>9, <1>15
  <2>2. /\ frame'.p = t /\ frame'.n = frame.n /\ frame'.ad = frame.ad /\ frame'.c = frame.c
        /\ frame'.tag = frame.tag /\ frame'.mk = frame.mk
    BY <1>5, <2>1 DEF DecryptFrames
  <2>3. t \in Partial
    BY <1>5, <1>10, PartialFacts, Counters
  <2>4. frame' \in DecryptFrames
    BY <1>5, <2>1, <2>3 DEF DecryptFrames
  <2>5. TypeOK'
    BY <1>4, <1>5, <1>6, <2>1, <2>4 DEF IInv, TypeOK
  <2>6. LoopInv'
    BY <1>5, <1>10, <1>11, <1>15, <2>1, <2>2, Counters DEF LoopInv, Encrypting
  <2>7. ASSUME safeMac PROVE DecryptInv' /\ RetInv'
    <3>1. PICK m \in log : Matches(m) /\ t = SubSeq(m.p, 1, j)
      BY <1>7, <1>9, <2>7
    <3>2. Entry(At(frame.n, ctr_0), frame.mk)' \in table'
      BY <1>5, <1>6, <2>2, <2>7 DEF IInv, DecryptInv, Entry, At
    <3> QED
      BY <1>4, <1>10, <2>1, <2>2, <2>7, <3>1, <3>2 DEF IInv, DecryptInv, RetInv, Matches
  <2> QED
    BY <1>6, <1>12, <1>13, <2>1, <2>5, <2>6, <2>7 DEF IInv
<1> QED
  BY <1>14, <1>15

-----------------------------------------------------------------------------
(* The theorems *)

LEMMA NextInv ==
  ASSUME IInv, [Next]_vars
  PROVE  IInv'
<1>1. CASE gen
  BY <1>1, KeyInv DEF gen
<1>2. ASSUME NEW k \in Key, coerce(k) PROVE IInv'
  BY <1>2, KeyInv DEF coerce
<1>3. ASSUME NEW n \in IV, NEW a \in AD, NEW p \in Plain, encrypt(n, a, p) PROVE IInv'
  BY <1>3, EncryptStep
<1>4. ASSUME NEW n \in IV, NEW a \in AD, NEW c \in Cipher, NEW t \in Tag, decrypt(n, a, c, t)
      PROVE  IInv'
  BY <1>4, DecryptStep
<1>5. CASE Step
  BY <1>5, EnxorStep, MacStep, IdealStep, VerifyStep, DexorStep DEF Step
<1>6. CASE UNCHANGED vars
  <2>1. /\ pc' = pc /\ key' = key /\ ak' = ak /\ table' = table /\ maclog' = maclog
        /\ log' = log /\ frame' = frame /\ ret' = ret /\ sent' = sent
    BY <1>6 DEF vars
  <2>2. TypeOK' /\ LoopInv' /\ UniqueEntries'
    BY <2>1 DEF IInv, TypeOK, LoopInv, UniqueEntries, Encrypting
  <2>3. safeMac => LogInv' /\ FreshInv' /\ RetInv'
    BY <2>1 DEF IInv, LogInv, FreshInv, RetInv, Encrypting, fresh_nonce,
                unused_aead_iv_for_prf, mac_is_set, contains_all_otp_blocks, HasBlock
  <2>4. safeMac => EncryptInv' /\ DecryptInv'
    BY <2>1 DEF IInv, EncryptInv, DecryptInv, Encrypting, fresh_nonce, HasBlock, FrameTag, Matches
  <2> QED
    BY <2>1, <2>2, <2>3, <2>4 DEF IInv
<1> QED
  BY <1>1, <1>2, <1>3, <1>4, <1>5, <1>6 DEF Next

(* The strengthened `inv` holds throughout every execution, at every       *)
(* idealisation level, for any nonces, texts, cipher and MAC.              *)
THEOREM Invariance == Spec => []IInv
<1>1. Init => IInv
  BY InitInv
<1>2. IInv /\ [Next]_vars => IInv'
  BY NextInv
<1> QED
  BY <1>1, <1>2, PTL DEF Spec

(* Every variable has its declared type: counters never pass maxCtr, and   *)
(* what decrypt returns is well-formed.                                    *)
THEOREM TypeCorrect == Spec => []TypeOK
<1>1. IInv => TypeOK
  BY DEF IInv
<1> QED
  BY <1>1, Invariance, PTL

(* The PRF is a function: the table never has two entries for one point.   *)
THEOREM TableUnique == Spec => []UniqueEntries
<1>1. IInv => UniqueEntries
  BY DEF IInv
<1> QED
  BY <1>1, Invariance, PTL

(* counter_enxor never meets a block of key stream that was already used.  *)
THEOREM KeystreamOnce == Spec => []NoKeystreamReuse
<1>1. IInv => NoKeystreamReuse
  BY DEF IInv, EncryptInv, Encrypting, NoKeystreamReuse
<1> QED
  BY <1>1, Invariance, PTL

(* encrypt and decrypt preserve the invariant that their F* types require  *)
(* and ensure: between calls the table refines the log.                    *)
THEOREM StatefulInvariant == Spec => []Inv
<1>1. IInv => Inv
  BY DEF IInv, Inv, LogInv, FreshInv, Encrypting
<1> QED
  BY <1>1, Invariance, PTL

(* With ideal MACs decrypt accepts only what encrypt logged, and writes no *)
(* plaintext before it knows that.                                         *)
THEOREM Authenticity == Spec => []Authentic
<1>1. IInv => Authentic
  BY DEF IInv, Authentic, RetInv, DecryptInv
<1> QED
  BY <1>1, Invariance, PTL

(* Nothing is ever removed from the table or the log, and a MAC log is     *)
(* set at most once: no call overwrites what another has recorded.         *)
THEOREM LogsGrow == Spec => LogsOnlyGrow
<1> DEFINE Grows == /\ table \subseteq table' /\ log \subseteq log'
                    /\ \A n \in IV : maclog[n] # NoLog => maclog'[n] = maclog[n]
<1>1. ASSUME IInv, Next PROVE Grows
  <2>1. CASE gen \/ \E k \in Key : coerce(k)
    BY <2>1 DEF gen, coerce, prf_sk0
  <2>2. ASSUME NEW n \in IV, NEW a \in AD, NEW p \in Plain, encrypt(n, a, p) PROVE Grows
    BY <1>1, <2>2, PrfMac DEF encrypt, IInv
  <2>3. ASSUME NEW n \in IV, NEW a \in AD, NEW c \in Cipher, NEW t \in Tag, decrypt(n, a, c, t)
        PROVE  Grows
    BY <1>1, <2>3, PrfMac DEF decrypt, IInv
  <2>4. CASE enxor
    BY <2>4 DEF enxor, prf_enxor, prf_blk
  <2>5. CASE mac
    <3>1. frame.n \in IV /\ (safeMac => maclog[frame.n] = NoLog)
      BY <1>1, <2>5, FrameFacts DEF mac, IInv, EncryptInv, Encrypting
    <3>2. maclog \in [IV -> MacLog \union {NoLog}]
      BY <1>1 DEF IInv, TypeOK
    <3> QED
      BY <2>5, <3>1, <3>2, Flags DEF mac
  <2>6. CASE do_ideal
    BY <2>6 DEF do_ideal
  <2>7. CASE verify
    BY <2>7 DEF verify
  <2>8. CASE dexor
    BY <2>8 DEF dexor, prf_dexor, prf_blk
  <2> QED
    BY <1>1, <2>1, <2>2, <2>3, <2>4, <2>5, <2>6, <2>7, <2>8 DEF Next, Step
<1>2. IInv /\ [Next]_vars => [Grows]_vars
  BY <1>1
<1> QED
  BY <1>2, Invariance, PTL DEF Spec, LogsOnlyGrow

(* With ideal MACs (and so with everything above them idealised) the       *)
(* construction implements the ideal AEAD: each call is a lookup in, or an *)
(* extension of, its log; decrypt accepts all that was logged and no more. *)
THEOREM Refinement ==
  ASSUME safeMac
  PROVE  Spec => ImplementsIdeal
<1>1. Init => Ideal!Init
  BY DEF Init, Ideal!Init
<1>2. ASSUME IInv, [Next]_vars
      PROVE  [Ideal!Next]_<<log, ret>>
  <2>1. CASE gen \/ (\E k \in Key : coerce(k)) \/ enxor
    BY <2>1 DEF gen, coerce, enxor
  <2>2. ASSUME NEW n \in IV, NEW a \in AD, NEW p \in Plain, encrypt(n, a, p)
        PROVE  Ideal!Next
    BY <2>2 DEF encrypt, Ideal!Next, Ideal!Call
  <2>3. ASSUME NEW n \in IV, NEW a \in AD, NEW c \in Cipher, NEW t \in Tag, decrypt(n, a, c, t)
        PROVE  Ideal!Next
    BY <2>3 DEF decrypt, Ideal!Next, Ideal!Call
  <2>4. CASE mac
    BY <2>4 DEF mac
  <2>5. CASE do_ideal
    <3>1. PICK m : m = FrameMessage(FrameTag)
      OBVIOUS
    <3>2. m \in Message /\ m.nonce = frame.n
      BY <1>2, <2>5, <3>1, FrameFacts DEF do_ideal, FrameMessage
    <3>3. fresh_nonce(m.nonce)
      BY <1>2, <2>5, <3>2 DEF do_ideal, IInv, EncryptInv, Encrypting
    <3>4. log' = log \union {m} /\ ret' = [op |-> "encrypt", m |-> m]
      BY <2>5, <3>1 DEF do_ideal, EncryptReturns
    <3>5. Ideal!Encrypt(m) /\ m \in Ideal!Message
      BY <3>2, <3>3, <3>4 DEF Ideal!Encrypt, Ideal!fresh_nonce, fresh_nonce, Ideal!Message, Message
    <3> QED
      BY <3>5 DEF Ideal!Next
  <2>6. CASE verify /\ Verified
    BY <2>6 DEF verify
  <2>7. CASE verify /\ ~Verified
    <3>1. frame \in DecryptFrames /\ pc = "verify"
      BY <1>2, <2>7 DEF verify, IInv, TypeOK
    <3>2. frame.n \in IV /\ frame.ad \in AD /\ frame.c \in Text /\ frame.tag \in Tag
      BY <3>1 DEF DecryptFrames
    <3>3. \A e \in log : <<e.nonce, e.ad, e.c, e.tag>> # <<frame.n, frame.ad, frame.c, frame.tag>>
      BY <1>2, <2>7, <3>1, LoggedIsVerified DEF Matches
    <3>4. Ideal!Reject(frame.n, frame.ad, frame.c, frame.tag)
      BY <2>7, <3>3 DEF verify, Ideal!Reject
    <3> QED
      BY <3>2, <3>4 DEF Ideal!Next
  <2>8. CASE dexor
    <3>1. PICK j : j = Len(frame.p) + 1
      OBVIOUS
    <3>2. PICK x, d : x = At(frame.n, otp_offset + j - 1) /\ d = frame.c[j]
      OBVIOUS
    <3>3. PICK p \in TextBlock :
            /\ prf_dexor(x, d, p, table')
            /\ IF j = Len(frame.c)
               THEN ret' = [op |-> "decrypt", ok |-> TRUE,
                            m |-> [nonce |-> frame.n, ad |-> frame.ad, p |-> Append(frame.p, p),
                                   c |-> frame.c, tag |-> frame.tag]]
               ELSE ret' = ret
      BY <2>8, <3>1, <3>2 DEF dexor
    <3>4. log' = log
      BY <2>8 DEF dexor
    <3>5. CASE j # Len(frame.c)
      BY <3>3, <3>4, <3>5
    <3>6. CASE j = Len(frame.c)
      <4>1. PICK m \in log : Matches(m) /\ Append(frame.p, p) = m.p
        BY <1>2, <2>8, <3>1, <3>2, <3>3, <3>6, DexorPrefix
      <4>2. m \in Message
        BY <1>2, <4>1 DEF IInv, TypeOK
      <4>3. m = [nonce |-> frame.n, ad |-> frame.ad, p |-> Append(frame.p, p),
                 c |-> frame.c, tag |-> frame.tag]
        BY <4>1, <4>2 DEF Matches, Message
      <4>4. Ideal!Accept(m) /\ m \in Ideal!Message
        BY <3>3, <3>4, <3>6, <4>1, <4>2, <4>3 DEF Ideal!Accept, Ideal!Message, Message
      <4> QED
        BY <4>4 DEF Ideal!Next
    <3> QED
      BY <3>5, <3>6
  <2>9. CASE UNCHANGED vars
    BY <2>9 DEF vars
  <2> QED
    BY <1>2, <2>1, <2>2, <2>3, <2>4, <2>5, <2>6, <2>7, <2>8, <2>9 DEF Next, Step
<1> QED
  BY <1>1, <1>2, Invariance, PTL DEF Spec, ImplementsIdeal, Ideal!Spec, Ideal!idealVars

-----------------------------------------------------------------------------
(* Round trips *)


(* The MAC key of a nonce and the key stream, wherever they come from.     *)
IsKey(n, k) ==
  IF prf THEN Entry(At(n, ctr_0), k) \in table ELSE k = KeyBytes(Compute(key, n, ctr_0))
IsBlock(x, b) ==
  IF prf THEN Entry(x, b) \in table ELSE b = Compute(key, x.iv, x.ctr)

(* The first l blocks of one text are those of another under the key       *)
(* stream of the nonce.                                                    *)
Stream(n, from, to, l) ==
  \A j \in 1 .. l :
    \E b \in Block : IsBlock(At(n, otp_offset + j - 1), b) /\ to[j] = Xor(b, from[j])

(* A message's tag is the one of its nonce's key.                          *)
Tagged(n, a, c, t) == \E k \in OneTimeKey : IsKey(n, k) /\ t = Mac(EncodeBoth(a, c), ak, k)
Untagged(n, a, c, t) == \E k \in OneTimeKey : IsKey(n, k) /\ t # Mac(EncodeBoth(a, c), ak, k)

(* Without ideal MACs: what encrypt returned, what the running call holds  *)
(* and what decrypt returned all come from the same keys.                  *)
SentReal ==
  \A m \in sent : /\ Tagged(m.nonce, m.ad, m.c, m.tag)
                  /\ Len(m.p) = Len(m.c) /\ Stream(m.nonce, m.p, m.c, Len(m.c))
FrameReal ==
  /\ pc \notin {"none", "ready"} => IsKey(frame.n, frame.mk)
  /\ Encrypting => Stream(frame.n, frame.p, frame.c, Len(frame.c))
  /\ pc = "dexor" => Stream(frame.n, frame.c, frame.p, Len(frame.p))
RetReal ==
  ret # NoRet /\ ret.op = "decrypt" =>
    IF ret.ok
    THEN Len(ret.m.p) = Len(ret.m.c) /\ Stream(ret.m.nonce, ret.m.c, ret.m.p, Len(ret.m.c))
    ELSE Untagged(ret.nonce, ret.ad, ret.c, ret.tag)

(* With ideal MACs: the log is what encrypt returned, and what decrypt     *)
(* rejected is not in it.                                                  *)
SentIdeal ==
  /\ sent = log
  /\ ret # NoRet /\ ret.op = "decrypt" /\ ~ret.ok =>
       \A m \in sent : <<m.nonce, m.ad, m.c, m.tag>> # <<ret.nonce, ret.ad, ret.c, ret.tag>>

RoundTripInv ==
  /\ pc = "none" => sent = {} /\ ret = NoRet
  /\ safeMac => SentIdeal
  /\ ~safeMac => SentReal /\ FrameReal /\ RetReal
-----------------------------------------------------------------------------
(* Keys and key stream are functions of the nonce, and stay.               *)

LEMMA KeyUnique ==
  ASSUME UniqueEntries, NEW n, NEW k, NEW l, IsKey(n, k), IsKey(n, l)
  PROVE  k = l
BY DEF IsKey, UniqueEntries, Entry

LEMMA BlockUnique ==
  ASSUME UniqueEntries, NEW x, NEW b, NEW d, IsBlock(x, b), IsBlock(x, d)
  PROVE  b = d
BY DEF IsBlock, UniqueEntries, Entry

LEMMA KeysStay ==
  ASSUME table \subseteq table', key' = key, NEW n, NEW k, IsKey(n, k)
  PROVE  IsKey(n, k)'
BY DEF IsKey

LEMMA StreamStays ==
  ASSUME table \subseteq table', key' = key, NEW n, NEW f, NEW t, NEW l, Stream(n, f, t, l)
  PROVE  Stream(n, f, t, l)'
<1>1. \A x, b : IsBlock(x, b) => IsBlock(x, b)'
  BY DEF IsBlock
<1> QED
  BY <1>1 DEF Stream

LEMMA TagsStay ==
  ASSUME table \subseteq table', key' = key, ak' = ak, NEW n, NEW a, NEW c, NEW t
  PROVE  /\ Tagged(n, a, c, t) => Tagged(n, a, c, t)'
         /\ Untagged(n, a, c, t) => Untagged(n, a, c, t)'
BY KeysStay DEF Tagged, Untagged

(* One more block.                                                         *)
LEMMA StreamNext ==
  ASSUME NEW n, NEW f, NEW t \in Seq(TextBlock), NEW u \in TextBlock, NEW b \in Block,
         Stream(n, f, t, Len(t))', NEW j, j = Len(t) + 1,
         IsBlock(At(n, otp_offset + j - 1), b)', u = Xor(b, f[j])
  PROVE  Stream(n, f, Append(t, u), j)' /\ Len(Append(t, u)) = j
<1>1. /\ Len(t) \in Nat /\ \A k \in 1 .. Len(t) : Append(t, u)[k] = t[k]
      /\ Append(t, u)[j] = u /\ Len(Append(t, u)) = j
  BY AppendBlock, LenProperties
<1>2. \A k \in 1 .. j : k \in 1 .. Len(t) \/ k = j
  BY <1>1
<1> QED
  BY <1>1, <1>2 DEF Stream

(* The same ciphertext under the same nonce decrypts to the plaintext.     *)
LEMMA StreamInverse ==
  ASSUME UniqueEntries, NEW n, NEW p \in Text, NEW c \in Text, NEW q \in Text,
         Len(p) = Len(c), Len(q) = Len(c), Stream(n, p, c, Len(c)), Stream(n, c, q, Len(c))
  PROVE  p = q
<1>1. /\ p \in Seq(TextBlock) /\ q \in Seq(TextBlock)
      /\ \A j \in 1 .. Len(c) : p[j] \in TextBlock
  BY TextFacts
<1>2. ASSUME NEW j \in 1 .. Len(c) PROVE p[j] = q[j]
  <2>1. PICK b \in Block : IsBlock(At(n, otp_offset + j - 1), b) /\ c[j] = Xor(b, p[j])
    BY DEF Stream
  <2>2. PICK d \in Block : IsBlock(At(n, otp_offset + j - 1), d) /\ q[j] = Xor(d, c[j])
    BY DEF Stream
  <2>3. b = d
    BY <2>1, <2>2, BlockUnique
  <2> QED
    BY <1>1, <2>1, <2>2, <2>3, CipherAssumption
<1> QED
  BY <1>1, <1>2, SeqEqual
-----------------------------------------------------------------------------
(* What the calls on the PRF yield is what the keys say.                   *)

LEMMA MacKeyIs ==
  ASSUME TypeOK, UniqueEntries, NEW n \in IV, NEW mk \in OneTimeKey, prf_mac(n, mk, table'),
         key' = key
  PROVE  IsKey(n, mk)'
<1>1. CASE prf
  BY <1>1, PrfMac DEF IsKey
<1>2. CASE ~prf
  BY <1>2 DEF IsKey, prf_mac
<1> QED
  BY <1>1, <1>2

LEMMA BlockIs ==
  ASSUME TypeOK, UniqueEntries, NEW x \in DomainT, NEW b \in Block, prf_blk(x, b, table'),
         key' = key
  PROVE  IsBlock(x, b)'
<1>1. CASE prf
  BY <1>1, PrfBlk DEF IsBlock
<1>2. CASE ~prf
  BY <1>2 DEF IsBlock, prf_blk
<1> QED
  BY <1>1, <1>2
-----------------------------------------------------------------------------
(* The steps, without ideal MACs.                                          *)

RealInv == SentReal /\ FrameReal /\ RetReal

(* What was returned and sent stays so while the keys do.                  *)
LEMMA RealStays ==
  ASSUME table \subseteq table', key' = key, ak' = ak
  PROVE  /\ SentReal /\ sent' = sent => SentReal'
         /\ RetReal /\ ret' = ret => RetReal'
<1>1. ASSUME SentReal, sent' = sent PROVE SentReal'
  BY <1>1, StreamStays, TagsStay DEF SentReal
<1>2. ASSUME RetReal, ret' = ret PROVE RetReal'
  <2> SUFFICES ASSUME ret # NoRet, ret.op = "decrypt"
               PROVE  IF ret.ok
                      THEN /\ Len(ret.m.p) = Len(ret.m.c)
                           /\ Stream(ret.m.nonce, ret.m.c, ret.m.p, Len(ret.m.c))'
                      ELSE Untagged(ret.nonce, ret.ad, ret.c, ret.tag)'
    BY <1>2 DEF RetReal
  <2>1. PICK r : r = ret
    OBVIOUS
  <2>2. r' = r
    OBVIOUS
  <2>3. CASE r.ok
    <3>1. Len(r.m.p) = Len(r.m.c) /\ Stream(r.m.nonce, r.m.c, r.m.p, Len(r.m.c))
      BY <1>2, <2>1, <2>3 DEF RetReal
    <3>2. Stream(r.m.nonce, r.m.c, r.m.p, Len(r.m.c))'
      BY <3>1, StreamStays
    <3> QED
      BY <1>2, <2>1, <2>3, <3>1, <3>2
  <2>4. CASE ~r.ok
    <3>1. Untagged(r.nonce, r.ad, r.c, r.tag)
      BY <1>2, <2>1, <2>4 DEF RetReal
    <3>2. Untagged(r.nonce, r.ad, r.c, r.tag)'
      BY <3>1, TagsStay
    <3> QED
      BY <1>2, <2>1, <2>4, <3>2
  <2> QED
    BY <2>3, <2>4
<1> QED
  BY <1>1, <1>2

LEMMA StartReal ==
  ASSUME IInv, RealInv, NEW n \in IV, NEW mk \in OneTimeKey, prf_mac(n, mk, table'),
         key' = key, ak' = ak, sent' = sent, ret' = NoRet, frame'.n = n, frame'.mk = mk,
         \/ pc' = "enxor" /\ frame'.c = <<>>
         \/ pc' = "verify"
  PROVE  RealInv'
<1>1. TypeOK /\ UniqueEntries
  BY DEF IInv
<1>2. table \subseteq table' /\ IsKey(n, mk)'
  BY <1>1, PrfMac, MacKeyIs
<1>3. SentReal' /\ RetReal'
  BY <1>2, RealStays DEF RealInv, RetReal
<1>4. IsKey(frame.n, frame.mk)'
  BY <1>2 DEF IsKey
<1>5. FrameReal'
  <2>1. pc' = "enxor" => Stream(frame.n, frame.p, frame.c, Len(frame.c))'
    <3>1. pc' = "enxor" => Len(frame'.c) = 0
      BY EmptySeq
    <3> QED
      BY <3>1 DEF Stream
  <2> QED
    BY <1>4, <2>1 DEF FrameReal, Encrypting
<1> QED
  BY <1>3, <1>5 DEF RealInv

LEMMA EnxorReal ==
  ASSUME IInv, RealInv, ~safeMac, enxor
  PROVE  RealInv'
<1>1. PICK j : j = Len(frame.c) + 1
  OBVIOUS
<1>2. PICK x, n, p, c, mk : x = At(frame.n, otp_offset + j - 1) /\ n = frame.n /\ p = frame.p /\ c = frame.c
                            /\ mk = frame.mk
  OBVIOUS
<1>3. /\ pc = "enxor" /\ key' = key /\ ak' = ak /\ ret' = ret /\ sent' = sent
      /\ pc' \in {"mac", "enxor"}
  BY DEF enxor
<1>4. PICK u \in TextBlock :
        prf_enxor(x, p[j], u, table') /\ frame' = [frame EXCEPT !.c = Append(frame.c, u)]
  BY <1>1, <1>2 DEF enxor
<1>5. TypeOK /\ UniqueEntries /\ frame \in EncryptFrames /\ LoopInv
  BY <1>3 DEF IInv, TypeOK
<1>6. /\ n \in IV /\ p \in Text /\ c \in Seq(TextBlock) /\ Len(c) \in Nat
      /\ Len(p) \in Nat /\ Len(p) <= MaxBlocks /\ Len(c) < Len(p)
  BY <1>2, <1>3, <1>5, PartialFacts, TextFacts, LenProperties, Counters DEF EncryptFrames, LoopInv
<1>7. x \in DomainT
  <2>1. otp_offset + Len(c) \in 0 .. maxCtr
    BY <1>6, InRange
  <2>2. otp_offset + j - 1 = otp_offset + Len(c)
    BY <1>1, <1>2, <1>6, OffsetNat
  <2> QED
    BY <1>2, <1>6, <2>1, <2>2 DEF At, DomainT
<1>8. PICK b \in Block : prf_blk(x, b, table') /\ u = Xor(b, p[j])
  BY <1>4, Flags DEF prf_enxor
<1>9. table \subseteq table' /\ IsBlock(x, b)'
  BY <1>3, <1>5, <1>7, <1>8, PrfBlk, BlockIs
<1>10. SentReal' /\ RetReal'
  BY <1>3, <1>9, RealStays DEF RealInv
<1>11. /\ frame'.n = n /\ frame'.p = p /\ frame'.c = Append(c, u) /\ frame'.mk = mk
  BY <1>2, <1>4, <1>5 DEF EncryptFrames
<1>12. IsKey(n, mk) /\ Stream(n, p, c, Len(c))
  BY <1>2, <1>3 DEF RealInv, FrameReal, Encrypting
<1>13. IsKey(n, mk)' /\ Stream(n, p, c, Len(c))'
  BY <1>3, <1>9, <1>12, KeysStay, StreamStays
<1>14. j = Len(c) + 1 /\ x = At(n, otp_offset + j - 1)
  BY <1>1, <1>2
<1>15. Stream(n, p, Append(c, u), j)' /\ Len(Append(c, u)) = j
  BY <1>6, <1>8, <1>9, <1>13, <1>14, StreamNext
<1>16. FrameReal'
  BY <1>3, <1>11, <1>13, <1>15 DEF FrameReal, Encrypting, IsKey, Stream, IsBlock
<1> QED
  BY <1>10, <1>16 DEF RealInv

(* encrypt returns.                                                        *)
LEMMA ReturnReal ==
  ASSUME IInv, RealInv, pc \in {"mac", "ideal"}, EncryptReturns(FrameMessage(FrameTag)),
         table' = table, key' = key, ak' = ak
  PROVE  RealInv'
<1>1. PICK m : m = FrameMessage(FrameTag)
  OBVIOUS
<1>2. /\ sent' = sent \union {m} /\ ret' = [op |-> "encrypt", m |-> m] /\ pc' = "ready"
  BY <1>1 DEF EncryptReturns
<1>3. /\ m.nonce = frame.n /\ m.ad = frame.ad /\ m.p = frame.p /\ m.c = frame.c /\ m.tag = FrameTag
  BY <1>1 DEF FrameMessage
<1>4. Len(m.p) = Len(m.c)
  BY <1>3, FrameFacts
<1>5. frame.mk \in OneTimeKey
  BY DEF IInv, TypeOK, EncryptFrames
<1>6. Tagged(m.nonce, m.ad, m.c, m.tag) /\ Stream(m.nonce, m.p, m.c, Len(m.c))
  BY <1>3, <1>5 DEF RealInv, FrameReal, Encrypting, Tagged, FrameTag
<1>7. SentReal'
  BY <1>2, <1>4, <1>6, StreamStays, TagsStay DEF RealInv, SentReal
<1>8. RetReal'
  BY <1>2 DEF RetReal
<1>9. FrameReal'
  BY <1>2 DEF FrameReal, Encrypting
<1> QED
  BY <1>7, <1>8, <1>9 DEF RealInv

LEMMA VerifyReal ==
  ASSUME IInv, RealInv, ~safeMac, verify
  PROVE  RealInv'
<1>1. /\ pc = "verify" /\ key' = key /\ ak' = ak /\ table' = table /\ sent' = sent
      /\ frame \in DecryptFrames /\ frame.p = <<>>
  BY DEF verify, IInv, TypeOK, LoopInv
<1>2. SentReal'
  BY <1>1, RealStays DEF RealInv
<1>3. IsKey(frame.n, frame.mk) /\ frame.mk \in OneTimeKey
  BY <1>1 DEF RealInv, FrameReal, DecryptFrames
<1>4. CASE Verified
  <2>1. pc' = "dexor" /\ frame' = frame /\ ret' = ret
    BY <1>4 DEF verify
  <2>2. Len(frame.p) = 0
    BY <1>1, EmptySeq
  <2>3. FrameReal'
    BY <1>1, <1>3, <2>1, <2>2 DEF FrameReal, Encrypting, IsKey, Stream
  <2>4. RetReal'
    BY <1>1, <2>1, RealStays DEF RealInv
  <2> QED
    BY <1>2, <2>3, <2>4 DEF RealInv
<1>5. CASE ~Verified
  <2>1. /\ ret' = [op |-> "decrypt", ok |-> FALSE, nonce |-> frame.n, ad |-> frame.ad,
                   c |-> frame.c, tag |-> frame.tag]
        /\ pc' = "ready"
    BY <1>5 DEF verify
  <2>2. FrameTag # frame.tag
    BY <1>5, Flags DEF Verified
  <2>3. Untagged(frame.n, frame.ad, frame.c, frame.tag)
    BY <1>3, <2>2 DEF Untagged, FrameTag
  <2>4. PICK n, a, c, t : n = frame.n /\ a = frame.ad /\ c = frame.c /\ t = frame.tag
    OBVIOUS
  <2>5. Untagged(n, a, c, t)'
    BY <1>1, <2>3, <2>4, TagsStay
  <2>6. /\ ret'.ok = FALSE /\ ret'.nonce = n /\ ret'.ad = a /\ ret'.c = c /\ ret'.tag = t
    BY <2>1, <2>4
  <2>7. RetReal'
    BY <2>5, <2>6 DEF RetReal, Untagged, IsKey
  <2>8. FrameReal'
    BY <2>1 DEF FrameReal, Encrypting
  <2> QED
    BY <1>2, <2>7, <2>8 DEF RealInv
<1> QED
  BY <1>4, <1>5

LEMMA DexorReal ==
  ASSUME IInv, RealInv, ~safeMac, dexor
  PROVE  RealInv'
<1>1. PICK j : j = Len(frame.p) + 1
  OBVIOUS
<1>2. PICK x, n, p, c, mk : /\ x = At(frame.n, otp_offset + j - 1) /\ n = frame.n
                            /\ p = frame.p /\ c = frame.c /\ mk = frame.mk
  OBVIOUS
<1>3. PICK u \in TextBlock :
        /\ prf_dexor(x, c[j], u, table')
        /\ IF j = Len(c)
           THEN /\ ret' = [op |-> "decrypt", ok |-> TRUE,
                           m |-> [nonce |-> frame.n, ad |-> frame.ad, p |-> Append(frame.p, u),
                                  c |-> frame.c, tag |-> frame.tag]]
                /\ pc' = "ready"
           ELSE /\ frame' = [frame EXCEPT !.p = Append(frame.p, u)]
                /\ UNCHANGED <<pc, ret>>
  BY <1>1, <1>2 DEF dexor
<1>4. key' = key /\ ak' = ak /\ sent' = sent
  BY DEF dexor
<1>5. PICK d : d = c[j]
  OBVIOUS
<1>6. /\ pc = "dexor" /\ frame \in DecryptFrames /\ p \in Seq(TextBlock) /\ x \in DomainT
  BY <1>1, <1>2, <1>5, DexorFacts
<1>7. TypeOK /\ UniqueEntries
  BY DEF IInv
<1>8. PICK b \in Block : prf_blk(x, b, table') /\ u = Xor(b, c[j])
  BY <1>3, Flags DEF prf_dexor
<1>9. table \subseteq table' /\ IsBlock(x, b)'
  BY <1>4, <1>6, <1>7, <1>8, PrfBlk, BlockIs
<1>10. SentReal'
  BY <1>4, <1>9, RealStays DEF RealInv
<1>11. IsKey(n, mk) /\ Stream(n, c, p, Len(p))
  BY <1>2, <1>6 DEF RealInv, FrameReal
<1>12. IsKey(n, mk)' /\ Stream(n, c, p, Len(p))'
  BY <1>4, <1>9, <1>11, KeysStay, StreamStays
<1>13. j = Len(p) + 1 /\ x = At(n, otp_offset + j - 1)
  BY <1>1, <1>2
<1>14. Stream(n, c, Append(p, u), j)' /\ Len(Append(p, u)) = j
  BY <1>6, <1>8, <1>9, <1>12, <1>13, StreamNext
<1>15. CASE j = Len(c)
  <2>1. /\ pc' = "ready" /\ ret'.ok = TRUE /\ ret'.m.nonce = n /\ ret'.m.c = c
        /\ ret'.m.p = Append(p, u)
    BY <1>2, <1>3, <1>15
  <2>2. RetReal'
    BY <1>14, <1>15, <2>1 DEF RetReal, Stream, IsBlock
  <2>3. FrameReal'
    BY <2>1 DEF FrameReal, Encrypting
  <2> QED
    BY <1>10, <2>2, <2>3 DEF RealInv
<1>16. CASE j # Len(c)
  <2>1. frame' = [frame EXCEPT !.p = Append(frame.p, u)] /\ pc' = pc /\ ret' = ret
    BY <1>3, <1>16
  <2>2. frame'.n = n /\ frame'.c = c /\ frame'.mk = mk /\ frame'.p = Append(p, u)
    BY <1>2, <1>6, <2>1 DEF DecryptFrames
  <2>3. FrameReal'
    BY <1>6, <1>12, <1>14, <2>1, <2>2 DEF FrameReal, Encrypting, IsKey, Stream, IsBlock
  <2>4. RetReal'
    BY <1>4, <1>9, <2>1, RealStays DEF RealInv
  <2> QED
    BY <1>10, <2>3, <2>4 DEF RealInv
<1> QED
  BY <1>15, <1>16
-----------------------------------------------------------------------------
(* The steps, with ideal MACs.                                             *)

LEMMA IdealStays ==
  ASSUME SentIdeal, sent' = sent, log' = log, ret' = ret \/ ret' = NoRet
  PROVE  SentIdeal'
BY DEF SentIdeal

LEMMA VerifyIdeal ==
  ASSUME IInv, SentIdeal, safeMac, verify
  PROVE  SentIdeal'
<1>1. pc = "verify" /\ log' = log /\ sent' = sent
  BY DEF verify
<1>2. CASE Verified
  BY <1>1, <1>2, IdealStays DEF verify
<1>3. CASE ~Verified
  <2>1. ret' = [op |-> "decrypt", ok |-> FALSE, nonce |-> frame.n, ad |-> frame.ad,
                c |-> frame.c, tag |-> frame.tag]
    BY <1>3 DEF verify
  <2>2. ASSUME NEW m \in sent,
               <<m.nonce, m.ad, m.c, m.tag>> = <<frame.n, frame.ad, frame.c, frame.tag>>
        PROVE  FALSE
    <3>1. m \in log /\ Matches(m)
      BY <2>2 DEF SentIdeal, Matches
    <3> QED
      BY <1>1, <1>3, <3>1, LoggedIsVerified
  <2> QED
    BY <1>1, <2>1, <2>2 DEF SentIdeal
<1> QED
  BY <1>2, <1>3

LEMMA StepIdeal ==
  ASSUME IInv, SentIdeal, safeMac, Step
  PROVE  SentIdeal'
<1>1. CASE enxor
  BY <1>1, IdealStays DEF enxor
<1>2. CASE mac
  BY <1>2, IdealStays DEF mac
<1>3. CASE do_ideal
  BY <1>3 DEF do_ideal, EncryptReturns, SentIdeal
<1>4. CASE verify
  BY <1>4, VerifyIdeal
<1>5. CASE dexor
  <2>1. /\ sent' = sent /\ log' = log
        /\ ret' = ret \/ ret'.ok = TRUE
    BY <1>5 DEF dexor
  <2> QED
    BY <2>1 DEF SentIdeal
<1> QED
  BY <1>1, <1>2, <1>3, <1>4, <1>5 DEF Step
-----------------------------------------------------------------------------
(* The invariant, and what it says.                                        *)

LEMMA StepReal ==
  ASSUME IInv, RealInv, ~safeMac, Step
  PROVE  RealInv'
<1>1. CASE enxor
  BY <1>1, EnxorReal
<1>2. CASE mac
  BY <1>2, ReturnReal DEF mac
<1>3. CASE do_ideal
  BY <1>3, ReturnReal DEF do_ideal
<1>4. CASE verify
  BY <1>4, VerifyReal
<1>5. CASE dexor
  BY <1>5, DexorReal
<1> QED
  BY <1>1, <1>2, <1>3, <1>4, <1>5 DEF Step

LEMMA RoundTripNext ==
  ASSUME IInv, RoundTripInv, [Next]_vars
  PROVE  RoundTripInv'
<1>1. CASE gen \/ \E k \in Key : coerce(k)
  <2>1. /\ pc = "none" /\ pc' = "ready" /\ log' = log /\ ret' = ret /\ sent' = sent
    BY <1>1 DEF gen, coerce
  <2>2. log = {} /\ sent' = {} /\ ret' = NoRet
    BY <2>1 DEF IInv, RoundTripInv
  <2> QED
    BY <2>1, <2>2 DEF RoundTripInv, SentIdeal, SentReal, FrameReal, RetReal, Encrypting
<1>2. ASSUME NEW n \in IV, NEW a \in AD, NEW p \in Plain, encrypt(n, a, p) PROVE RoundTripInv'
  <2>1. /\ pc' = "enxor" /\ ret' = NoRet /\ sent' = sent /\ log' = log /\ key' = key /\ ak' = ak
    BY <1>2 DEF encrypt
  <2>2. PICK mk \in OneTimeKey : prf_mac(n, mk, table') /\ frame' = EncryptFrame(n, a, p, mk)
    BY <1>2 DEF encrypt
  <2>3. frame'.n = n /\ frame'.mk = mk /\ frame'.c = <<>>
    BY <2>2 DEF EncryptFrame
  <2>4. ~safeMac => RealInv'
    BY <2>1, <2>2, <2>3, StartReal DEF RoundTripInv, RealInv
  <2>5. safeMac => SentIdeal'
    BY <2>1, IdealStays DEF RoundTripInv
  <2> QED
    BY <2>1, <2>4, <2>5 DEF RoundTripInv, RealInv
<1>3. ASSUME NEW n \in IV, NEW a \in AD, NEW c \in Cipher, NEW t \in Tag, decrypt(n, a, c, t)
      PROVE  RoundTripInv'
  <2>1. /\ pc' = "verify" /\ ret' = NoRet /\ sent' = sent /\ log' = log /\ key' = key /\ ak' = ak
    BY <1>3 DEF decrypt
  <2>2. PICK mk \in OneTimeKey : prf_mac(n, mk, table') /\ frame' = DecryptFrame(n, a, c, t, mk)
    BY <1>3 DEF decrypt
  <2>3. frame'.n = n /\ frame'.mk = mk
    BY <2>2 DEF DecryptFrame
  <2>4. ~safeMac => RealInv'
    BY <2>1, <2>2, <2>3, StartReal DEF RoundTripInv, RealInv
  <2>5. safeMac => SentIdeal'
    BY <2>1, IdealStays DEF RoundTripInv
  <2> QED
    BY <2>1, <2>4, <2>5 DEF RoundTripInv, RealInv
<1>4. CASE Step
  <2>1. pc' # "none"
    BY <1>4 DEF Step, enxor, mac, do_ideal, verify, dexor, EncryptReturns
  <2>2. ~safeMac => RealInv'
    BY <1>4, StepReal DEF RoundTripInv, RealInv
  <2>3. safeMac => SentIdeal'
    BY <1>4, StepIdeal DEF RoundTripInv
  <2> QED
    BY <2>1, <2>2, <2>3 DEF RoundTripInv, RealInv
<1>5. CASE UNCHANGED vars
  <2>1. /\ pc' = pc /\ key' = key /\ ak' = ak /\ table' = table
        /\ log' = log /\ frame' = frame /\ ret' = ret /\ sent' = sent
    BY <1>5 DEF vars
  <2>2. ~safeMac => SentReal' /\ RetReal'
    BY <2>1, RealStays DEF RoundTripInv
  <2>3. ~safeMac => FrameReal'
    BY <2>1 DEF RoundTripInv, FrameReal, Encrypting, IsKey, Stream, IsBlock
  <2>4. safeMac => SentIdeal'
    BY <2>1, IdealStays DEF RoundTripInv
  <2> QED
    BY <2>1, <2>2, <2>3, <2>4 DEF RoundTripInv
<1> QED
  BY <1>1, <1>2, <1>3, <1>4, <1>5 DEF Next

LEMMA RoundTripHolds ==
  ASSUME IInv, RoundTripInv
  PROVE  RoundTrip
<1> SUFFICES ASSUME ret # NoRet, ret.op = "decrypt", NEW m \in sent
             PROVE  IF ret.ok
                    THEN (<<m.nonce, m.ad, m.c, m.tag>> = <<ret.m.nonce, ret.m.ad, ret.m.c, ret.m.tag>>
                            => m.p = ret.m.p)
                    ELSE <<m.nonce, m.ad, m.c, m.tag>> # <<ret.nonce, ret.ad, ret.c, ret.tag>>
  BY DEF RoundTrip
<1>1. m \in Message /\ UniqueEntries
  BY DEF IInv, TypeOK
<1>2. ASSUME ret.ok, <<m.nonce, m.ad, m.c, m.tag>> = <<ret.m.nonce, ret.m.ad, ret.m.c, ret.m.tag>>
      PROVE  m.p = ret.m.p
  <2>1. CASE safeMac
    <3>1. ret.m \in log /\ m \in log
      BY <1>2, <2>1 DEF IInv, RetInv, RoundTripInv, SentIdeal
    <3> QED
      BY <1>2, <2>1, <3>1 DEF IInv, LogInv
  <2>2. CASE ~safeMac
    <3>1. ret.m \in Message
      BY <1>2 DEF IInv, TypeOK, Results
    <3>2. /\ Len(ret.m.p) = Len(ret.m.c) /\ Stream(ret.m.nonce, ret.m.c, ret.m.p, Len(ret.m.c))
          /\ Len(m.p) = Len(m.c) /\ Stream(m.nonce, m.p, m.c, Len(m.c))
      BY <1>2, <2>2 DEF RoundTripInv, SentReal, RetReal
    <3>3. m.nonce = ret.m.nonce /\ m.c = ret.m.c /\ m.p \in Text /\ m.c \in Text /\ ret.m.p \in Text
      BY <1>1, <1>2, <3>1 DEF Message
    <3> QED
      BY <1>1, <3>2, <3>3, StreamInverse
  <2> QED
    BY <2>1, <2>2
<1>3. ASSUME ~ret.ok PROVE <<m.nonce, m.ad, m.c, m.tag>> # <<ret.nonce, ret.ad, ret.c, ret.tag>>
  <2>1. CASE safeMac
    BY <1>3, <2>1 DEF RoundTripInv, SentIdeal
  <2>2. CASE ~safeMac
    <3>1. Untagged(ret.nonce, ret.ad, ret.c, ret.tag) /\ Tagged(m.nonce, m.ad, m.c, m.tag)
      BY <1>3, <2>2 DEF RoundTripInv, SentReal, RetReal
    <3> QED
      BY <1>1, <3>1, KeyUnique DEF Tagged, Untagged
  <2> QED
    BY <2>1, <2>2
<1> QED
  BY <1>2, <1>3

(* At every idealisation level, and even when nonces repeat: decrypting    *)
(* what encrypt returned succeeds and yields the plaintext encrypted, for  *)
(* every cipher whose Xor undoes itself and every MAC.                     *)
THEOREM RoundTrips == Spec => []RoundTrip
<1>1. Init => RoundTripInv
  BY DEF Init, RoundTripInv, SentIdeal, SentReal, FrameReal, RetReal, Encrypting
<1>2. IInv /\ RoundTripInv /\ [Next]_vars => RoundTripInv'
  BY RoundTripNext
<1>3. IInv /\ RoundTripInv => RoundTrip
  BY RoundTripHolds
<1> QED
  BY <1>1, <1>2, <1>3, Invariance, PTL DEF Spec
=============================================================================
