----------------------------- MODULE TubeProofs -----------------------------
(***************************************************************************)
(* PneuTube for any number of senders and files of any size: proofs of the *)
(* safety properties of Tube.                                              *)
(***************************************************************************)
EXTENDS Tube, TLAPS, SequenceTheorems, Induction

SndPcs == {"start", "connect", "field", "loop", "close", "returned", "dead"}
ConnStates == {"none", "open", "closed", "shut", "reset", "broken"}
RcvPcs == {"start", "accept", "field", "recv", "exited"}
FieldNames == {"sid", "hsbuf", "pkA", "pkB", "header"}
Peers == [pkA |-> pkA, pkB |-> pkB]
-----------------------------------------------------------------------------
(* The sender's loop and the numbers it seals under.                       *)

SndType ==
  snd \in [Sender -> [pc : SndPcs, field : Nat, cur : Nat, left : Nat, seqno : Nat,
                      ok : BOOLEAN, res : {"none", "FileOk", "FileError"}]]

(* The numbers sealed are 0, 1, 2, ...                                     *)
Numbered(q) == \A k \in 1 .. Len(q) : q[k] = k - 1

(* Boxes of a whole session: the header, the fragments and the rest.       *)
Total(s) == IF hrem(s) > 0 THEN fragments(s) + 2 ELSE fragments(s) + 1

(* Where a sender is, and how many boxes it has sealed.                    *)
SenderAt(s) ==
  /\ snd[s].left <= fragments(s) /\ snd[s].seqno <= fragments(s) + 1
  /\ snd[s].pc \in {"start", "connect", "field"} => Len(sealed[s]) = 0 /\ snd[s].cur = 0
  /\ snd[s].pc \in {"start", "connect"} => snd[s].field = 1
  /\ snd[s].pc = "field" => snd[s].field \in 1 .. Len(fields)
  /\ snd[s].pc = "loop" => /\ Len(sealed[s]) = snd[s].seqno
                           /\ snd[s].seqno + snd[s].left = fragments(s) + 1
                           /\ snd[s].cur = (snd[s].seqno - 1) * blocksize
  /\ snd[s].pc = "close" /\ snd[s].ok => Len(sealed[s]) = Total(s)
  /\ snd[s].pc # "returned" => snd[s].res = "none"
  /\ snd[s].res = "FileOk" => Len(sealed[s]) = Total(s)
  /\ Numbered(sealed[s])

SndInv ==
  /\ SndType
  /\ sealed \in [Sender -> Seq(Nat)]
  /\ \A s \in Sender : SenderAt(s)
-----------------------------------------------------------------------------
(* The connections carry what their senders write, whole or cut short.     *)

Sent(s) ==
  {FieldOf(s, f) : f \in FieldNames}
    \union {Box(s, n, file_next_read_buffer(s, (n - 1) * blocksize, len)) :
              n \in 1 .. fragments(s) + 1, len \in Nat}

Short(m, r) == [m EXCEPT !.kind = "short", !.len = r]

Whole == UNION {Sent(s) : s \in Sender}
Messages == Whole \union {Short(m, r) : m \in Whole, r \in Nat}

ConnInv ==
  /\ conn \in [Sender -> [state : ConnStates, buf : Seq(Messages)]]
  /\ \A s \in Sender : /\ Len(conn[s].buf) <= Cap
                       /\ \A k \in 1 .. Len(conn[s].buf) : conn[s].buf[k].sid = s

BacklogInv ==
  /\ backlog \in Seq(Sender)
  /\ \A i, j \in 1 .. Len(backlog) : backlog[i] = backlog[j] => i = j
  /\ \A i \in 1 .. Len(backlog) : snd[backlog[i]].pc \notin {"start", "connect"}
-----------------------------------------------------------------------------
(* The receiver: the fields stored belong to the connection it reads, and  *)
(* left counts down from the announced size block by block.                *)

Names == {FileName[s] : s \in Sender}

RcvRecord ==
  [pc : RcvPcs, conn : Sender \union {NoSender}, field : 1 .. Len(fields),
   sid : Sender \union {NoSender}, left : Nat,
   pk1 : {Keys[s].pkA : s \in Sender} \union {"none"}, size : Nat,
   name : Names \union {"none"}, cur : Nat, seqno : Nat]

RcvInv ==
  /\ rcv \in RcvRecord
  /\ rcv.pc \in {"field", "recv"} => rcv.conn \in Sender
  /\ rcv.pc = "field" => /\ rcv.field >= 2 => rcv.sid = rcv.conn
                         /\ rcv.field >= 3 => rcv.left = hsize(rcv.conn)
  /\ rcv.pc = "recv" => /\ rcv.sid = rcv.conn /\ rcv.size = FileSize[rcv.conn]
                        /\ rcv.name = FileName[rcv.conn] /\ Keys[rcv.conn] = Peers
                        /\ FileSize[rcv.conn] < MaxFileSize
                        /\ rcv.seqno >= 1 /\ rcv.left <= hsize(rcv.conn)
                        /\ rcv.left > 0 =>
                             hsize(rcv.conn) = rcv.left + (rcv.seqno - 1) * blocksize

DiskInv ==
  /\ DOMAIN disk = Names /\ disk = [f \in Names |-> disk[f]]
  /\ \A f \in Names : disk[f] = NoFile \/ disk[f] \in Seq(Byte)
  /\ rcv.pc = "recv" => /\ disk[rcv.name] \in Seq(Byte)
                        /\ Len(disk[rcv.name]) = rcv.size + blocksize

IInv == SndInv /\ ConnInv /\ BacklogInv /\ RcvInv /\ DiskInv /\ done \in Seq(Sender)
-----------------------------------------------------------------------------
(* The file being received.                                                *)

(* The files the receiver accepts are, with their padding, smaller than    *)
(* half the range of the int that file offsets are read through.           *)
SmallFiles ==
  \A s \in Sender : FileSize[s] < MaxFileSize => hsize(s) + blocksize < IntWord \div 2

(* While fragments are expected, cur is where the next one belongs, or is  *)
(* past the end of the file; every fragment already read is in the file.   *)
Copying ==
  rcv.pc = "recv" =>
    LET s == rcv.conn
        got == hsize(s) - rcv.left
    IN /\ rcv.cur <= rcv.size + blocksize
       /\ rcv.left > 0 => rcv.cur = got \/ (rcv.size < rcv.cur /\ rcv.cur <= got)
       /\ Len(disk[rcv.name]) = rcv.size + blocksize
       /\ \A k \in 1 .. Len(disk[rcv.name]) : disk[rcv.name][k] \in {Zero, <<s, k>>}
       /\ \A k \in 1 .. rcv.size : k <= got => disk[rcv.name][k] = <<s, k>>

(* Every file but the one being received is the last one sent.             *)
LastSent(f) ==
  \/ disk[f] = NoFile /\ \A i \in 1 .. Len(done) : FileName[done[i]] # f
  \/ \E i \in 1 .. Len(done) : LastOf(f, i) /\ disk[f] = File(done[i])
OthersAreLastSent ==
  rcv.pc # "exited" =>
    \A f \in Names : (rcv.pc = "recv" => f # rcv.name) => LastSent(f)
-----------------------------------------------------------------------------
(* Sizes.                                                                  *)

LEMMA WordFacts ==
  /\ blocksize \in Nat /\ blocksize >= 1 /\ Word \in Nat /\ UintWord \in Nat /\ UintWord >= 1
  /\ MaxFileSize \in Nat /\ MaxFileSize + UintWord <= Word /\ IntWord \in Nat /\ IntWord >= 1
  /\ Cap \in Nat /\ Cap >= 1
  BY TubeAssumption

LEMMA NextMultiple ==
  ASSUME NEW n \in Nat, NEW b \in Nat, NEW k \in Nat, k = n + 1
  PROVE  (n - 1) * b + b = (k - 1) * b
<1>1. (n - 1) * b + b = n * b
  OBVIOUS
<1>2. k - 1 = n
  OBVIOUS
<1> QED  BY <1>1, <1>2

LEMMA MultipleNat ==
  ASSUME NEW n \in Nat, n >= 1, NEW b \in Nat
  PROVE  (n - 1) * b \in Nat
<1>1. n - 1 \in Nat
  OBVIOUS
<1> QED  BY <1>1

(* file_send's mask, for every size of 64 bits and every hide size.        *)
LEMMA PaddedFacts ==
  ASSUME NEW size \in 0 .. Word - 1, NEW r \in 0 .. UintWord - 1
  PROVE  /\ padded(size, r) \in Nat
         /\ size < MaxFileSize => padded(size, r) \in size .. size + r
         /\ size < MaxFileSize /\ r >= 1 /\ r \in PowersOfTwo =>
              padded(size, r) % r = 0 /\ padded(size, r) - size < r
<1> DEFINE m == size_mod_roundup(size, r)
<1>1. size \in Nat /\ r \in Nat /\ r < UintWord /\ size < Word
  BY WordFacts
<1>2. CASE r = 0
  BY <1>1, <1>2 DEF padded
<1>3. CASE r >= 1
  <2>1. (r + Word - 1) % Word = r - 1
    BY <1>1, <1>3, WordFacts
  <2>2. m = BitAnd(size, r - 1) /\ r - 1 \in 0 .. Word - 1 /\ r - 1 + 1 = r
    BY <1>1, <1>3, <2>1, WordFacts DEF size_mod_roundup
  <2>3. m \in Nat /\ m <= size /\ m <= r - 1
    BY <1>1, <2>2, BitAndAssumption
  <2>4. r \in PowersOfTwo => m = size % r
    BY <1>1, <2>2, BitAndAssumption
  <2> HIDE DEF m
  <2>5. size < MaxFileSize => (size + r - m) % Word = size + r - m
    BY <1>1, <1>3, <2>3, WordFacts
  <2>6. (size + r - m) % Word \in Nat
    BY <1>1, <1>3, <2>3, WordFacts
  <2>7. ASSUME m = size % r PROVE (size + r - m) % r = 0
    <3> DEFINE q == size \div r
    <3>1. q \in Nat /\ size = q * r + m
      BY <1>1, <1>3, <2>7
    <3> HIDE DEF q
    <3>2. size + r - m = (q + 1) * r
      BY <1>1, <2>3, <3>1
    <3>3. ((q + 1) * r) % r = 0
      BY <1>1, <1>3, <3>1
    <3> QED  BY <3>2, <3>3
  <2>8. padded(size, r) = IF m # 0 THEN (size + r - m) % Word ELSE size
    BY <1>3 DEF padded, m
  <2> QED  BY <1>1, <1>3, <2>3, <2>4, <2>5, <2>6, <2>7, <2>8
<1> QED  BY <1>1, <1>2, <1>3

LEMMA SizeFacts ==
  ASSUME NEW s \in Sender
  PROVE  /\ FileSize[s] \in Nat /\ hsize(s) \in Nat
         /\ fragments(s) \in Nat /\ hrem(s) \in Nat /\ hrem(s) < blocksize
         /\ fragments(s) * blocksize <= hsize(s)
         /\ FileSize[s] < MaxFileSize => FileSize[s] <= hsize(s)
<1>1. FileSize[s] \in 0 .. Word - 1 /\ FileSize[s] \in Nat
  BY TubeAssumption
<1>2. roundup(s) \in 0 .. UintWord - 1
  <2>1. HideSize[s].n \in Nat /\ Kilo \in Nat
    BY TubeAssumption
  <2>2. \A k \in Nat : (HideSize[s].n * k) % UintWord \in 0 .. UintWord - 1
    BY <2>1, WordFacts
  <2>3. Kilo * Kilo \in Nat /\ Kilo * Kilo * Kilo \in Nat
    BY <2>1
  <2>4. \A u \in DOMAIN Unit : Unit[u] \in Nat
    BY <2>1, <2>3 DEF Unit
  <2> QED  BY <2>2, <2>4, WordFacts DEF roundup
<1>3. hsize(s) \in Nat /\ (FileSize[s] < MaxFileSize => FileSize[s] <= hsize(s))
  <2>1. padded(FileSize[s], roundup(s)) \in Nat
    BY <1>1, <1>2, PaddedFacts
  <2>2. ASSUME FileSize[s] < MaxFileSize PROVE FileSize[s] <= padded(FileSize[s], roundup(s))
    BY <1>1, <1>2, <2>2, PaddedFacts
  <2> QED  BY <2>1, <2>2 DEF hsize
<1>4. /\ fragments(s) \in Nat /\ hrem(s) \in Nat /\ hrem(s) < blocksize
      /\ fragments(s) * blocksize <= hsize(s)
  BY <1>1, <1>3, WordFacts DEF fragments, hrem
<1> QED  BY <1>1, <1>3, <1>4

(* file_send: the size announced, for every size and hide size.            *)
THEOREM TubeHideRounds == Spec => []HideRounds
<1>1. HideRounds
  <2> SUFFICES ASSUME NEW size \in 0 .. MaxFileSize - 1, NEW r \in 0 .. UintWord - 1
               PROVE  LET h == padded(size, r)
                      IN /\ h \in size .. size + r
                         /\ r >= 1 /\ r \in PowersOfTwo => h % r = 0 /\ h - size < r
    BY DEF HideRounds
  <2>1. size \in 0 .. Word - 1 /\ size < MaxFileSize
    BY WordFacts
  <2> QED  BY <2>1, PaddedFacts
<1> QED  BY <1>1, PTL
-----------------------------------------------------------------------------
(* Messages.                                                               *)

(* A function on 1 .. n is a sequence of length n.                         *)
LEMMA SeqOfLen ==
  ASSUME NEW S, NEW n \in Nat, NEW f \in [1 .. n -> S]
  PROVE  f \in Seq(S) /\ Len(f) = n
<1>1. f \in Seq(S)
  OBVIOUS
<1>2. DOMAIN f = 1 .. Len(f) /\ Len(f) \in Nat
  BY <1>1, LenProperties
<1> QED  BY <1>1, <1>2

(* What file_next_read_buffer returns is a text of the length asked for.   *)
LEMMA ReadBufferType ==
  ASSUME NEW s \in Sender, NEW cur \in Nat, NEW len \in Nat
  PROVE  /\ file_next_read_buffer(s, cur, len) \in Seq(Byte)
         /\ Len(file_next_read_buffer(s, cur, len)) = len
<1> DEFINE o == curr(cur)
           t == file_next_read_buffer(s, cur, len)
<1>1. o \in Int
  BY WordFacts DEF curr
<1>2. FileSize[s] \in Nat
  BY SizeFacts
<1>3. \A k \in 1 .. FileSize[s] : File(s)[k] \in Byte
  <2> TAKE k \in 1 .. FileSize[s]
  <2>1. File(s)[k] = <<s, k>> /\ k \in Nat
    BY <1>2 DEF File
  <2>2. <<s, k>> \in Sender \X Nat
    BY <2>1
  <2> QED  BY <2>1, <2>2 DEF Byte
<1>4. Zero \in Byte /\ Outside \in Byte
  BY DEF Byte
<1>5. ASSUME NEW k \in 1 .. len PROVE t[k] \in Byte
  <2>1. t[k] = CASE o >= 0 /\ o + k <= FileSize[s]     -> File(s)[o + k]
                 [] o < 0 /\ Fits(o, len, FileSize[s]) -> IF o + k < 1 THEN Outside ELSE File(s)[o + k]
                 [] OTHER                              -> Zero
    BY DEF file_next_read_buffer
  <2> HIDE DEF o, t
  <2>2. CASE o >= 0 /\ o + k <= FileSize[s]
    <3>1. o + k \in 1 .. FileSize[s]
      BY <1>1, <1>2, <2>2
    <3>2. ~(o < 0)
      BY <1>1, <2>2
    <3> QED  BY <1>3, <2>1, <2>2, <3>1, <3>2
  <2>3. CASE o < 0 /\ Fits(o, len, FileSize[s])
    <3>1. o + k \in 1 .. FileSize[s] \/ o + k < 1
      BY <1>1, <1>2, <2>3 DEF Fits
    <3>2. ~(o >= 0)
      BY <1>1, <2>3
    <3> QED  BY <1>3, <1>4, <2>1, <2>3, <3>1, <3>2
  <2>4. CASE ~(o >= 0 /\ o + k <= FileSize[s]) /\ ~(o < 0 /\ Fits(o, len, FileSize[s]))
    BY <1>4, <2>1, <2>4
  <2> QED  BY <2>2, <2>3, <2>4
<1>6. t \in [1 .. len -> Byte]
  <2>1. DOMAIN t = 1 .. len /\ t = [k \in 1 .. len |-> t[k]]
    BY DEF file_next_read_buffer
  <2> HIDE DEF t
  <2> QED  BY <1>5, <2>1
<1> QED  BY <1>6, SeqOfLen

(* Messages by kind.                                                       *)
LEMMA SentFacts ==
  ASSUME NEW s \in Sender, NEW m \in Sent(s)
  PROVE  /\ m.sid = s /\ m.len \in Nat /\ m.kind \in FieldNames \union {"box"}
         /\ m = [kind |-> m.kind, len |-> m.len, sid |-> m.sid, seqno |-> m.seqno, data |-> m.data]
         /\ m.kind \in FieldNames => m = FieldOf(s, m.kind)
         /\ m.kind = "box" =>
              /\ m.seqno \in 1 .. fragments(s) + 1 /\ m.len - 1 \in Nat
              /\ m.data = file_next_read_buffer(s, (m.seqno - 1) * blocksize, m.len - 1)
              /\ m.data \in Seq(Byte) /\ Len(m.data) = m.len - 1
<1>1. ASSUME NEW f \in FieldNames, m = FieldOf(s, f) 
      PROVE  /\ m = [kind |-> f, len |-> 1, sid |-> s, seqno |-> 0, data |-> m.data]
             /\ m.kind = f
  BY <1>1 DEF FieldNames, FieldOf, Field
<1>2. ASSUME NEW n \in 1 .. fragments(s) + 1, NEW len \in Nat,
             m = Box(s, n, file_next_read_buffer(s, (n - 1) * blocksize, len))
      PROVE  /\ m.sid = s /\ m.kind = "box" /\ m.len = len + 1 /\ m.seqno = n
             /\ m = [kind |-> m.kind, len |-> m.len, sid |-> m.sid, seqno |-> m.seqno, data |-> m.data]
             /\ m.data = file_next_read_buffer(s, (n - 1) * blocksize, len)
             /\ m.data \in Seq(Byte) /\ Len(m.data) = len
  <2> DEFINE t == file_next_read_buffer(s, (n - 1) * blocksize, len)
  <2>1. (n - 1) * blocksize \in Nat
    BY SizeFacts, WordFacts
  <2>2. t \in Seq(Byte) /\ Len(t) = len
    BY <2>1, ReadBufferType
  <2>3. m = [kind |-> "box", len |-> Len(t) + 1, sid |-> s, seqno |-> n, data |-> t]
    BY <1>2 DEF Box
  <2> HIDE DEF t
  <2>4. /\ m.sid = s /\ m.kind = "box" /\ m.len = len + 1 /\ m.seqno = n /\ m.data = t
        /\ m = [kind |-> m.kind, len |-> m.len, sid |-> m.sid, seqno |-> m.seqno, data |-> m.data]
    BY <2>2, <2>3
  <2> QED  BY <2>2, <2>4 DEF t
<1>3. CASE \E f \in FieldNames : m = FieldOf(s, f)
  <2>1. PICK f \in FieldNames : m = FieldOf(s, f)
    BY <1>3
  <2>2. m = [kind |-> f, len |-> 1, sid |-> s, seqno |-> 0, data |-> m.data] /\ m.kind = f
    BY <1>1, <2>1
  <2>3. m.sid = s /\ m.len = 1 /\ m.seqno = 0 /\ f # "box"
    BY <2>2 DEF FieldNames
  <2> QED  BY <2>1, <2>2, <2>3
<1>4. CASE \E n \in 1 .. fragments(s) + 1, len \in Nat :
             m = Box(s, n, file_next_read_buffer(s, (n - 1) * blocksize, len))
  <2>1. PICK n \in 1 .. fragments(s) + 1, len \in Nat :
          m = Box(s, n, file_next_read_buffer(s, (n - 1) * blocksize, len))
    BY <1>4
  <2>2. /\ m.sid = s /\ m.kind = "box" /\ m.len = len + 1 /\ m.seqno = n
        /\ m = [kind |-> m.kind, len |-> m.len, sid |-> m.sid, seqno |-> m.seqno, data |-> m.data]
        /\ m.data = file_next_read_buffer(s, (n - 1) * blocksize, len)
        /\ m.data \in Seq(Byte) /\ Len(m.data) = len
    BY <1>2, <2>1
  <2>3. m.len - 1 = len /\ "box" \notin FieldNames
    BY <2>2 DEF FieldNames
  <2> QED  BY <2>2, <2>3
<1> QED  BY <1>3, <1>4 DEF Sent

LEMMA MessageFacts ==
  ASSUME NEW s \in Sender, NEW m \in Sent(s), NEW r \in Nat
  PROVE  /\ m \in Messages /\ Short(m, r) \in Messages
         /\ m.sid = s /\ Short(m, r).sid = s /\ Short(m, r).kind = "short"
<1>1. m \in Messages /\ Short(m, r) \in Messages
  <2>1. m \in Whole
    BY DEF Whole
  <2> QED  BY <2>1 DEF Messages
<1>2. m = [kind |-> m.kind, len |-> m.len, sid |-> m.sid, seqno |-> m.seqno, data |-> m.data]
      /\ m.sid = s
  BY SentFacts
<1> DEFINE h == [m EXCEPT !.kind = "short"]
<1>3. h = [kind |-> "short", len |-> m.len, sid |-> m.sid, seqno |-> m.seqno, data |-> m.data]
  BY <1>2
<1>4. Short(m, r) = [h EXCEPT !.len = r]
  BY Zenon DEF Short
<1> HIDE DEF h
<1> QED  BY <1>1, <1>2, <1>3, <1>4

(* A message that is not cut short is one its sender wrote.                *)
LEMMA WholeMessage ==
  ASSUME NEW m \in Messages, m.kind # "short"
  PROVE  m.sid \in Sender /\ m \in Sent(m.sid)
<1>1. m \in Whole \/ \E x \in Whole, r \in Nat : m = Short(x, r)
  BY DEF Messages
<1>2. \A x \in Whole : \E s \in Sender : x \in Sent(s)
  BY DEF Whole
<1>3. PICK s \in Sender : m \in Sent(s) \/ \E x \in Sent(s), r \in Nat : m = Short(x, r)
  BY <1>1, <1>2
<1> QED  BY <1>3, SentFacts, MessageFacts

LEMMA AppendConn ==
  ASSUME ConnInv, NEW s \in Sender, NEW m \in Messages, m.sid = s, Len(conn[s].buf) < Cap,
         conn' = [conn EXCEPT ![s].buf = Append(@, m)]
  PROVE  ConnInv'
<1>1. conn[s].buf \in Seq(Messages) /\ \A k \in 1 .. Len(conn[s].buf) : conn[s].buf[k].sid = s
  BY DEF ConnInv
<1>2. /\ Append(conn[s].buf, m) \in Seq(Messages)
      /\ Len(Append(conn[s].buf, m)) = Len(conn[s].buf) + 1
      /\ \A k \in 1 .. Len(conn[s].buf) : Append(conn[s].buf, m)[k] = conn[s].buf[k]
      /\ Append(conn[s].buf, m)[Len(conn[s].buf) + 1] = m
  BY <1>1, AppendProperties
<1>3. conn' \in [Sender -> [state : ConnStates, buf : Seq(Messages)]]
  BY <1>2 DEF ConnInv
<1>4. /\ \A t \in Sender \ {s} : conn'[t] = conn[t]
      /\ conn'[s].buf = Append(conn[s].buf, m)
  BY DEF ConnInv
<1>5. ASSUME NEW k \in 1 .. Len(conn'[s].buf) PROVE conn'[s].buf[k].sid = s
  <2>1. Len(conn[s].buf) \in Nat
    BY <1>1, LenProperties
  <2>2. k \in 1 .. Len(conn[s].buf) \/ k = Len(conn[s].buf) + 1
    BY <1>2, <1>4, <2>1
  <2> QED  BY <1>1, <1>2, <1>4, <2>2
<1>6. Len(conn'[s].buf) <= Cap
  <2>1. Len(conn[s].buf) \in Nat
    BY <1>1, LenProperties
  <2> QED  BY <1>2, <1>4, <2>1, WordFacts
<1> QED  BY <1>3, <1>4, <1>5, <1>6 DEF ConnInv

LEMMA StateConn ==
  ASSUME ConnInv, NEW s \in Sender, NEW st \in ConnStates,
         conn' = [conn EXCEPT ![s].state = st]
  PROVE  ConnInv'
<1>1. conn' \in [Sender -> [state : ConnStates, buf : Seq(Messages)]]
  BY DEF ConnInv
<1>2. \A t \in Sender : conn'[t].buf = conn[t].buf
  BY DEF ConnInv
<1> QED  BY <1>1, <1>2 DEF ConnInv

(* write, whatever it returns.                                             *)
LEMMA WriteConn ==
  ASSUME ConnInv, NEW s \in Sender, NEW m \in Sent(s), NEW ok, tcp_write_all(s, m, ok)
  PROVE  ConnInv'
<1>1. PICK r \in -1 .. m.len : write(s, m, r)
  BY DEF tcp_write_all
<1>2. m.len \in Nat
  BY SentFacts
<1>3. CASE conn' = [conn EXCEPT ![s].buf = Append(@, m)] /\ Len(conn[s].buf) < Cap
  <2>1. m \in Messages /\ m.sid = s
    BY MessageFacts
  <2> QED  BY <1>3, <2>1, AppendConn
<1>4. CASE /\ Len(conn[s].buf) < Cap /\ r \in 0 .. m.len - 1
           /\ conn' = [conn EXCEPT ![s].buf = Append(@, [m EXCEPT !.kind = "short", !.len = r])]
  <2>1. r \in Nat
    BY <1>2, <1>4
  <2>2. Short(m, r) \in Messages /\ Short(m, r).sid = s
    BY <2>1, MessageFacts
  <2>3. conn' = [conn EXCEPT ![s].buf = Append(@, Short(m, r))]
    BY <1>4, Zenon DEF Short
  <2> QED  BY <1>4, <2>2, <2>3, AppendConn
<1>5. CASE conn' = [conn EXCEPT ![s].state = "broken"]
  <2>1. "broken" \in ConnStates
    BY DEF ConnStates
  <2> QED  BY <1>5, <2>1, StateConn
<1> QED  BY <1>1, <1>3, <1>4, <1>5 DEF write

(* The kernel's and the environment's doings: a connection is emptied, or  *)
(* loses its first message.                                                *)
LEMMA EmptyConn ==
  ASSUME ConnInv, conn' \in [Sender -> [state : ConnStates, buf : Seq(Messages)]],
         \A t \in Sender : conn'[t].buf \in {conn[t].buf, <<>>}
  PROVE  ConnInv'
<1>1. Len(<<>>) = 0
  OBVIOUS
<1> QED  BY <1>1, WordFacts DEF ConnInv

LEMMA ConsumeConn ==
  ASSUME ConnInv, NEW s \in Sender, conn[s].buf # <<>>, Consume(s)
  PROVE  /\ ConnInv' /\ Head(conn[s].buf) \in Messages /\ Head(conn[s].buf).sid = s
<1>1. conn[s].buf \in Seq(Messages) /\ \A k \in 1 .. Len(conn[s].buf) : conn[s].buf[k].sid = s
  BY DEF ConnInv
<1>2. /\ Head(conn[s].buf) \in Messages /\ Head(conn[s].buf) = conn[s].buf[1]
      /\ Len(conn[s].buf) \in Nat /\ Len(conn[s].buf) >= 1
      /\ Tail(conn[s].buf) \in Seq(Messages)
      /\ Len(Tail(conn[s].buf)) = Len(conn[s].buf) - 1
      /\ \A k \in 1 .. Len(Tail(conn[s].buf)) : Tail(conn[s].buf)[k] = conn[s].buf[k + 1]
  BY <1>1, HeadTailProperties, LenProperties
<1>3. conn' = [conn EXCEPT ![s].buf = Tail(@)]
  BY DEF Consume
<1>4. conn' \in [Sender -> [state : ConnStates, buf : Seq(Messages)]]
  BY <1>2, <1>3 DEF ConnInv
<1>5. /\ \A t \in Sender \ {s} : conn'[t] = conn[t]
      /\ conn'[s].buf = Tail(conn[s].buf)
  BY <1>3 DEF ConnInv
<1>6. \A k \in 1 .. Len(conn'[s].buf) : conn'[s].buf[k].sid = s
  BY <1>1, <1>2, <1>5
<1>7. Len(conn'[s].buf) <= Cap
  BY <1>2, <1>5, WordFacts DEF ConnInv
<1>8. ConnInv'
  BY <1>4, <1>5, <1>6, <1>7 DEF ConnInv
<1>9. Head(conn[s].buf).sid = s
  BY <1>1, <1>2
<1> QED  BY <1>2, <1>8, <1>9
-----------------------------------------------------------------------------
(* Steps of a sender.                                                      *)

SndRecord ==
  [pc : SndPcs, field : Nat, cur : Nat, left : Nat, seqno : Nat,
   ok : BOOLEAN, res : {"none", "FileOk", "FileError"}]

(* Only the sender that moves has to be looked at.                         *)
LEMMA SenderFrame ==
  ASSUME SndInv, BacklogInv, NEW s \in Sender,
         snd' \in [Sender -> SndRecord], sealed' \in [Sender -> Seq(Nat)],
         \A t \in Sender \ {s} : snd'[t] = snd[t] /\ sealed'[t] = sealed[t],
         SenderAt(s)',
         snd[s].pc \notin {"start", "connect"} => snd'[s].pc \notin {"start", "connect"}
  PROVE  SndInv' /\ (backlog' = backlog => BacklogInv')
<1>1. ASSUME NEW t \in Sender PROVE SenderAt(t)'
  <2>1. CASE t = s
    BY <2>1
  <2>2. CASE t # s
    <3>1. snd'[t] = snd[t] /\ sealed'[t] = sealed[t] /\ SenderAt(t)
      BY <2>2 DEF SndInv
    <3> QED  BY <3>1 DEF SenderAt
  <2> QED  BY <2>1, <2>2
<1>2. SndInv'
  BY <1>1 DEF SndInv, SndType, SndRecord
<1>3. ASSUME backlog' = backlog PROVE BacklogInv'
  <2>1. ASSUME NEW i \in 1 .. Len(backlog) PROVE snd'[backlog[i]].pc \notin {"start", "connect"}
    <3>1. backlog[i] \in Sender /\ snd[backlog[i]].pc \notin {"start", "connect"}
      BY ElementOfSeq DEF BacklogInv
    <3> QED  BY <3>1
  <2> QED  BY <1>3, <2>1 DEF BacklogInv
<1> QED  BY <1>2, <1>3

(* A box sealed under the next number.                                     *)
LEMMA SealNext ==
  ASSUME sealed \in [Sender -> Seq(Nat)], NEW s \in Sender, Numbered(sealed[s]),
         sealed' = [sealed EXCEPT ![s] = Append(@, Len(sealed[s]))]
  PROVE  /\ sealed' \in [Sender -> Seq(Nat)] /\ Numbered(sealed'[s])
         /\ Len(sealed'[s]) = Len(sealed[s]) + 1
         /\ \A t \in Sender \ {s} : sealed'[t] = sealed[t]
<1> DEFINE q == sealed[s]
           n == Len(q)
<1>1. q \in Seq(Nat) /\ n \in Nat
  BY LenProperties
<1>2. /\ Append(q, n) \in Seq(Nat) /\ Len(Append(q, n)) = n + 1
      /\ \A k \in 1 .. n : Append(q, n)[k] = q[k]
      /\ Append(q, n)[n + 1] = n
  BY <1>1, AppendProperties
<1>3. sealed'[s] = Append(q, n) /\ \A t \in Sender \ {s} : sealed'[t] = sealed[t]
  OBVIOUS
<1>4. sealed' \in [Sender -> Seq(Nat)]
  BY <1>2
<1>5. Numbered(Append(q, n))
  <2> HIDE DEF n
  <2> SUFFICES ASSUME NEW k \in 1 .. n + 1 PROVE Append(q, n)[k] = k - 1
    BY <1>2 DEF Numbered
  <2>1. CASE k \in 1 .. n
    BY <1>2, <2>1 DEF Numbered, n
  <2>2. CASE k = n + 1
    BY <1>1, <1>2, <2>2
  <2>3. k \in 1 .. n \/ k = n + 1
    BY <1>1
  <2> QED  BY <2>1, <2>2, <2>3
<1> QED  BY <1>2, <1>3, <1>4, <1>5

LEMMA SndFacts ==
  ASSUME SndInv, NEW s \in Sender
  PROVE  /\ snd \in [Sender -> SndRecord] /\ sealed \in [Sender -> Seq(Nat)]
         /\ snd[s].field \in Nat /\ snd[s].cur \in Nat /\ snd[s].left \in Nat /\ snd[s].seqno \in Nat
         /\ snd[s].ok \in BOOLEAN /\ SenderAt(s) /\ Len(sealed[s]) \in Nat
         /\ Numbered(sealed[s])
<1>1. sealed[s] \in Seq(Nat)
  BY DEF SndInv
<1>2. Len(sealed[s]) \in Nat
  BY <1>1, LenProperties
<1>3. SenderAt(s) /\ Numbered(sealed[s])
  BY DEF SndInv, SenderAt
<1> QED  BY <1>2, <1>3 DEF SndInv, SndType, SndRecord

(* Steps that only move the program counter, to a place where the sender   *)
(* has nothing left to do or, before it connects, nothing done.            *)
LEMMA PcStep ==
  ASSUME SndInv, BacklogInv, NEW s \in Sender, NEW p \in SndPcs, sealed' = sealed,
         snd' = [snd EXCEPT ![s].pc = p], snd[s].pc # "returned",
         \/ p = "dead"
         \/ p = "connect" /\ snd[s].pc = "start"
         \/ p = "field" /\ snd[s].pc = "connect"
         \/ p = "close" /\ snd[s].pc = "loop" /\ snd[s].left = 0 /\ hrem(s) = 0
  PROVE  SndInv' /\ (backlog' = backlog => BacklogInv')
<1>1. snd \in [Sender -> SndRecord] /\ SenderAt(s) /\ snd[s].seqno \in Nat
  BY SndFacts
<1>2. snd' \in [Sender -> SndRecord]
  BY <1>1 DEF SndRecord
<1>3. /\ snd'[s] = [pc |-> p, field |-> snd[s].field, cur |-> snd[s].cur, left |-> snd[s].left,
                    seqno |-> snd[s].seqno, ok |-> snd[s].ok, res |-> snd[s].res]
      /\ \A t \in Sender \ {s} : snd'[t] = snd[t]
  BY <1>1 DEF SndRecord
<1>4. fragments(s) \in Nat /\ Len(fields) = 5
  BY SizeFacts DEF fields
<1>5. SenderAt(s)'
  BY <1>1, <1>3, <1>4 DEF SenderAt, Total
<1>6. snd[s].pc \notin {"start", "connect"} => snd'[s].pc \notin {"start", "connect"}
  BY <1>3
<1> QED  BY <1>2, <1>3, <1>5, <1>6, SndFacts, SenderFrame

(* file_send_1 and the errors: the sender returns.                         *)
LEMMA ReturnStep ==
  ASSUME SndInv, BacklogInv, NEW s \in Sender, NEW r \in {"FileOk", "FileError"}, sealed' = sealed,
         snd' = [snd EXCEPT ![s] = Returns(s, r)], 
         r = "FileOk" => snd[s].pc = "close" /\ snd[s].ok
  PROVE  SndInv' /\ (backlog' = backlog => BacklogInv')
<1>1. snd \in [Sender -> SndRecord] /\ SenderAt(s)
  BY SndFacts
<1> DEFINE h == [snd[s] EXCEPT !.pc = "returned"]
<1>2. h = [pc |-> "returned", field |-> snd[s].field, cur |-> snd[s].cur, left |-> snd[s].left,
           seqno |-> snd[s].seqno, ok |-> snd[s].ok, res |-> snd[s].res]
  BY <1>1 DEF SndRecord
<1>3. Returns(s, r) = [h EXCEPT !.res = r]
  BY Zenon DEF Returns
<1> HIDE DEF h
<1>4. Returns(s, r) = [pc |-> "returned", field |-> snd[s].field, cur |-> snd[s].cur,
                       left |-> snd[s].left, seqno |-> snd[s].seqno, ok |-> snd[s].ok, res |-> r]
  BY <1>2, <1>3
<1>5. Returns(s, r) \in SndRecord
  BY <1>1, <1>4 DEF SndRecord, SndPcs
<1>6. /\ snd' \in [Sender -> SndRecord] /\ snd'[s] = Returns(s, r)
      /\ \A t \in Sender \ {s} : snd'[t] = snd[t]
  BY <1>1, <1>5
<1>7. SenderAt(s)'
  BY <1>1, <1>4, <1>6 DEF SenderAt, Total
<1> QED  BY <1>4, <1>6, <1>7, SndFacts, SenderFrame

(* What a step of a sender keeps.                                          *)
SenderKeeps == SndInv' /\ ConnInv' /\ BacklogInv' /\ UNCHANGED <<rcv, disk, done>>

LEMMA FlushStep ==
  ASSUME SndInv, ConnInv, BacklogInv, NEW s \in Sender, file_flush_all(s)
  PROVE  SenderKeeps
<1> DEFINE i == snd[s].field
           m == FieldOf(s, fields[i])
<1>1. /\ snd \in [Sender -> SndRecord] /\ SenderAt(s) /\ snd[s].pc = "field"
      /\ i \in 1 .. 5 /\ Len(sealed[s]) = 0 /\ snd[s].cur = 0
  BY SndFacts DEF file_flush_all, SenderAt, fields
<1>2. m \in Sent(s) /\ (fields[i] = "header" <=> i = 5)
  BY <1>1 DEF Sent, FieldNames, fields
<1>3. PICK ok \in BOOLEAN :
        /\ tcp_write_all(s, m, ok)
        /\ snd' = IF ok THEN [snd EXCEPT ![s].pc = AfterField(i), ![s].field = i + 1,
                                         ![s].seqno = 1, ![s].left = fragments(s)]
                  ELSE [snd EXCEPT ![s].pc = "close", ![s].ok = FALSE]
  BY DEF file_flush_all
<1>4. ConnInv'
  BY <1>2, <1>3, WriteConn
<1>5. /\ sealed' \in [Sender -> Seq(Nat)] /\ Numbered(sealed'[s])
      /\ Len(sealed'[s]) = IF i = 5 THEN 1 ELSE 0
      /\ \A t \in Sender \ {s} : sealed'[t] = sealed[t]
  <2>1. CASE i = 5
    <3>1. sealed' = [sealed EXCEPT ![s] = Append(@, Len(sealed[s]))]
      BY <1>1, <1>2, <2>1 DEF file_flush_all
    <3>2. sealed \in [Sender -> Seq(Nat)] /\ Numbered(sealed[s])
      BY SndFacts
    <3>3. /\ sealed' \in [Sender -> Seq(Nat)] /\ Numbered(sealed'[s])
          /\ Len(sealed'[s]) = Len(sealed[s]) + 1
          /\ \A t \in Sender \ {s} : sealed'[t] = sealed[t]
      BY <3>1, <3>2, SealNext
    <3> QED  BY <1>1, <2>1, <3>3
  <2>2. CASE i # 5
    <3>1. sealed' = sealed
      BY <1>2, <2>2 DEF file_flush_all
    <3> QED  BY <1>1, <2>2, <3>1, SndFacts DEF SenderAt
  <2> QED  BY <2>1, <2>2
<1>6. fragments(s) \in Nat /\ Len(fields) = 5
  BY SizeFacts DEF fields
<1>7. CASE ok
  <2>1. snd' = [snd EXCEPT ![s].pc = AfterField(i), ![s].field = i + 1,
                           ![s].seqno = 1, ![s].left = fragments(s)]
    BY <1>3, <1>7
  <2>2. AfterField(i) = (IF i = 5 THEN "loop" ELSE "field") /\ AfterField(i) \in SndPcs
    BY <1>6 DEF AfterField, SndPcs
  <2>3. /\ snd'[s] = [pc |-> AfterField(i), field |-> i + 1, cur |-> snd[s].cur,
                      left |-> fragments(s), seqno |-> 1, ok |-> snd[s].ok, res |-> snd[s].res]
        /\ \A t \in Sender \ {s} : snd'[t] = snd[t]
    BY <1>1, <2>1 DEF SndRecord
  <2>4. snd' \in [Sender -> SndRecord]
    <3>1. snd'[s] \in SndRecord
      BY <1>1, <1>6, <2>2, <2>3 DEF SndRecord
    <3>2. DOMAIN snd' = Sender /\ snd' = [t \in DOMAIN snd' |-> snd'[t]]
      BY <1>1, <2>1
    <3> QED  BY <1>1, <2>3, <3>1, <3>2
  <2>5. (1 - 1) * blocksize = 0
    BY WordFacts
  <2>6. SenderAt(s)'
    BY <1>1, <1>5, <1>6, <2>2, <2>3, <2>5 DEF SenderAt, Total
  <2>7. snd'[s].pc \notin {"start", "connect"}
    BY <2>2, <2>3
  <2>8. backlog' = backlog /\ UNCHANGED <<rcv, disk, done>>
    BY DEF file_flush_all
  <2>9. SndInv' /\ BacklogInv'
    BY <1>5, <2>3, <2>4, <2>6, <2>7, <2>8, SenderFrame
  <2> QED  BY <1>4, <2>8, <2>9 DEF SenderKeeps
<1>8. CASE ~ok
  <2>1. snd' = [snd EXCEPT ![s].pc = "close", ![s].ok = FALSE]
    BY <1>3, <1>8
  <2>2. /\ snd'[s] = [pc |-> "close", field |-> i, cur |-> snd[s].cur,
                      left |-> snd[s].left, seqno |-> snd[s].seqno, ok |-> FALSE, res |-> snd[s].res]
        /\ \A t \in Sender \ {s} : snd'[t] = snd[t]
    BY <1>1, <2>1 DEF SndRecord
  <2>3. snd' \in [Sender -> SndRecord]
    <3>1. "close" \in SndPcs /\ FALSE \in BOOLEAN
      BY DEF SndPcs
    <3> QED  BY <1>1, <2>1, <3>1, Zenon DEF SndRecord
  <2>4. SenderAt(s)'
    BY <1>1, <1>5, <1>6, <2>2 DEF SenderAt, Total
  <2>5. snd'[s].pc \notin {"start", "connect"}
    BY <2>2
  <2>6. backlog' = backlog /\ UNCHANGED <<rcv, disk, done>>
    BY DEF file_flush_all
  <2>7. SndInv' /\ BacklogInv'
    BY <1>5, <2>2, <2>3, <2>4, <2>5, <2>6, SenderFrame
  <2> QED  BY <1>4, <2>6, <2>7 DEF SenderKeeps
<1> QED  BY <1>7, <1>8

(* A fragment is counted once more as sent and once less as left.          *)
LEMMA CountDown ==
  ASSUME NEW a \in Nat, NEW b \in Nat, NEW c \in Nat, a + b = c + 1
  PROVE  a + 1 + (b - 1) = c + 1
BY SMT

LEMMA LoopStep ==
  ASSUME SndInv, ConnInv, BacklogInv, NEW s \in Sender, file_send_loop(s)
  PROVE  SenderKeeps
<1> DEFINE n == snd[s].seqno
           text == file_next_read_buffer(s, snd[s].cur, blocksize)
           m == Box(s, n, text)
<1>1. /\ snd \in [Sender -> SndRecord] /\ SenderAt(s) /\ snd[s].pc = "loop"
      /\ n \in Nat /\ snd[s].left \in Nat /\ snd[s].left > 0 /\ Len(sealed[s]) = n
      /\ n + snd[s].left = fragments(s) + 1 /\ snd[s].cur = (n - 1) * blocksize
      /\ snd[s].cur \in Nat
  BY SndFacts DEF file_send_loop, SenderAt
<1>2. fragments(s) \in Nat /\ snd[s].left <= fragments(s) /\ n \in 1 .. fragments(s) + 1
  BY <1>1, SizeFacts DEF SenderAt
<1>3. m \in Sent(s)
  BY <1>1, <1>2, WordFacts DEF Sent
<1>4. PICK ok \in BOOLEAN :
        /\ tcp_write_all(s, m, ok)
        /\ snd' = [snd EXCEPT ![s].cur = @ + blocksize, ![s].seqno = @ + 1, ![s].left = @ - 1,
                              ![s].pc = IF ok THEN "loop" ELSE "close", ![s].ok = ok]
  BY DEF file_send_loop
<1>5. ConnInv'
  BY <1>3, <1>4, WriteConn
<1>6. sealed' = [sealed EXCEPT ![s] = Append(@, Len(sealed[s]))]
  BY <1>1 DEF file_send_loop
<1>7. /\ sealed' \in [Sender -> Seq(Nat)] /\ Numbered(sealed'[s])
      /\ Len(sealed'[s]) = n + 1
      /\ \A t \in Sender \ {s} : sealed'[t] = sealed[t]
  <2>1. sealed \in [Sender -> Seq(Nat)] /\ Numbered(sealed[s])
    BY SndFacts
  <2> QED  BY <1>1, <1>6, <2>1, SealNext
<1> DEFINE p == IF ok THEN "loop" ELSE "close"
<1>8. p \in SndPcs /\ p \in {"loop", "close"} /\ (p = "close" => ~ok)
  BY DEF SndPcs
<1>9. snd' = [snd EXCEPT ![s].cur = @ + blocksize, ![s].seqno = @ + 1, ![s].left = @ - 1,
                         ![s].pc = p, ![s].ok = ok]
  BY <1>4
<1> HIDE DEF p
<1>10. /\ snd'[s] = [pc |-> p, field |-> snd[s].field, cur |-> snd[s].cur + blocksize,
                     left |-> snd[s].left - 1, seqno |-> n + 1, ok |-> ok, res |-> snd[s].res]
       /\ \A t \in Sender \ {s} : snd'[t] = snd[t]
  BY <1>1, <1>9 DEF SndRecord
<1>11. snd' \in [Sender -> SndRecord]
  <2>1. snd[s].cur + blocksize \in Nat
    BY <1>1, WordFacts
  <2>2. n + 1 \in Nat /\ snd[s].left - 1 \in Nat
    BY <1>1
  <2>3. snd'[s] \in SndRecord
    BY <1>1, <1>8, <1>10, <2>1, <2>2 DEF SndRecord
  <2>4. DOMAIN snd' = Sender /\ snd' = [t \in DOMAIN snd' |-> snd'[t]]
    BY <1>1, <1>9
  <2> QED  BY <1>1, <1>10, <2>3, <2>4
<1>12. ASSUME NEW k \in Nat, k = n + 1 PROVE snd[s].cur + blocksize = (k - 1) * blocksize
  <2>1. n \in Nat /\ blocksize \in Nat
    BY <1>1, WordFacts
  <2>2. (n - 1) * blocksize + blocksize = (k - 1) * blocksize
    BY <1>12, <2>1, NextMultiple
  <2> QED  BY <1>1, <2>2
<1>13. SenderAt(s)'
  <2>1. snd[s].res = "none" /\ snd[s].left - 1 <= fragments(s) /\ n + 1 <= fragments(s) + 1
    BY <1>1, <1>2 DEF SenderAt
  <2>2. n + 1 + (snd[s].left - 1) = fragments(s) + 1
    <3>1. n \in Nat /\ snd[s].left \in Nat /\ fragments(s) \in Nat /\ n + snd[s].left = fragments(s) + 1
      BY <1>1, <1>2
    <3> QED  BY ONLY <3>1, CountDown
  <2>3. /\ snd'[s].pc = p /\ snd'[s].cur = snd[s].cur + blocksize /\ snd'[s].ok = ok
        /\ snd'[s].left = snd[s].left - 1 /\ snd'[s].seqno = n + 1 /\ snd'[s].res = "none"
    BY <1>10, <2>1
  <2>4. p = "loop" \/ (p = "close" /\ ~ok)
    BY <1>8
  <2>5. snd'[s].left <= fragments(s) /\ snd'[s].seqno <= fragments(s) + 1
    BY <2>1, <2>3
  <2>6. snd'[s].pc = "close" => ~snd'[s].ok
    BY <2>3, <2>4
  <2>7. snd'[s].pc = "loop" => /\ Len(sealed'[s]) = snd'[s].seqno
                               /\ snd'[s].seqno + snd'[s].left = fragments(s) + 1
                               /\ snd'[s].cur = (snd'[s].seqno - 1) * blocksize
    <3>1. snd'[s].seqno \in Nat /\ snd'[s].seqno = n + 1
      BY <1>1, <2>3
    <3>2. snd'[s].cur = (snd'[s].seqno - 1) * blocksize
      BY <1>12, <2>3, <3>1
    <3> QED  BY <1>7, <2>2, <2>3, <3>2
  <2>8. snd'[s].pc \in {"loop", "close"} /\ snd'[s].res = "none"
    BY <2>3, <2>4
  <2> QED  BY <1>7, <2>5, <2>6, <2>7, <2>8 DEF SenderAt
<1>14. snd'[s].pc \notin {"start", "connect"}
  BY <1>8, <1>10
<1>15. backlog' = backlog /\ UNCHANGED <<rcv, disk, done>>
  BY DEF file_send_loop
<1>16. SndInv' /\ BacklogInv'
  BY <1>7, <1>10, <1>11, <1>13, <1>14, <1>15, SenderFrame
<1> QED  BY <1>5, <1>15, <1>16 DEF SenderKeeps

LEMMA LastStep ==
  ASSUME SndInv, ConnInv, BacklogInv, NEW s \in Sender, file_send_last(s)
  PROVE  SenderKeeps
<1>1. /\ snd \in [Sender -> SndRecord] /\ SenderAt(s) /\ snd[s].pc = "loop"
      /\ snd[s].seqno \in Nat /\ snd[s].left = 0 /\ Len(sealed[s]) = snd[s].seqno
      /\ snd[s].seqno = fragments(s) + 1 /\ snd[s].cur = (snd[s].seqno - 1) * blocksize
      /\ snd[s].cur \in Nat
  BY SndFacts, SizeFacts DEF file_send_last, SenderAt
<1>2. fragments(s) \in Nat /\ hrem(s) \in Nat
  BY SizeFacts
<1>3. CASE hrem(s) > 0
  <2> DEFINE m == Box(s, last_seqno(s), file_next_read_buffer(s, snd[s].cur, hrem(s)))
  <2>1. m \in Sent(s) /\ last_seqno(s) = Len(sealed[s])
    BY <1>1, <1>2 DEF Sent, last_seqno
  <2>2. PICK ok \in BOOLEAN :
          /\ tcp_write_all(s, m, ok)
          /\ snd' = [snd EXCEPT ![s].cur = @ + hrem(s), ![s].pc = "close", ![s].ok = ok]
    BY <1>3 DEF file_send_last
  <2>3. ConnInv'
    BY <2>1, <2>2, WriteConn
  <2>4. sealed' = [sealed EXCEPT ![s] = Append(@, Len(sealed[s]))]
    BY <1>3, <2>1 DEF file_send_last
  <2>5. /\ sealed' \in [Sender -> Seq(Nat)] /\ Numbered(sealed'[s])
        /\ Len(sealed'[s]) = fragments(s) + 2
        /\ \A t \in Sender \ {s} : sealed'[t] = sealed[t]
    <3>1. sealed \in [Sender -> Seq(Nat)] /\ Numbered(sealed[s])
      BY SndFacts
    <3>2. /\ sealed' \in [Sender -> Seq(Nat)] /\ Numbered(sealed'[s])
          /\ Len(sealed'[s]) = Len(sealed[s]) + 1
          /\ \A t \in Sender \ {s} : sealed'[t] = sealed[t]
      BY <2>4, <3>1, SealNext
    <3> QED  BY <1>1, <1>2, <3>2
  <2>6. /\ snd'[s] = [pc |-> "close", field |-> snd[s].field, cur |-> snd[s].cur + hrem(s),
                      left |-> snd[s].left, seqno |-> snd[s].seqno, ok |-> ok, res |-> snd[s].res]
        /\ \A t \in Sender \ {s} : snd'[t] = snd[t]
    BY <1>1, <2>2 DEF SndRecord
  <2>7. snd' \in [Sender -> SndRecord]
    <3>1. "close" \in SndPcs /\ snd[s].cur + hrem(s) \in Nat
      BY <1>1, <1>2 DEF SndPcs
    <3>2. snd'[s] \in SndRecord
      BY <1>1, <2>6, <3>1 DEF SndRecord
    <3>3. DOMAIN snd' = Sender /\ snd' = [t \in DOMAIN snd' |-> snd'[t]]
      BY <1>1, <2>2
    <3> QED  BY <1>1, <2>6, <3>2, <3>3
  <2>8. SenderAt(s)'
    BY <1>1, <1>2, <1>3, <2>5, <2>6 DEF SenderAt, Total
  <2>9. snd'[s].pc \notin {"start", "connect"}
    BY <2>6
  <2>10. backlog' = backlog /\ UNCHANGED <<rcv, disk, done>>
    BY DEF file_send_last
  <2>11. SndInv' /\ BacklogInv'
    BY <2>5, <2>6, <2>7, <2>8, <2>9, <2>10, SenderFrame
  <2> QED  BY <2>3, <2>10, <2>11 DEF SenderKeeps
<1>4. CASE ~(hrem(s) > 0)
  <2>1. snd' = [snd EXCEPT ![s].pc = "close"] /\ conn' = conn /\ sealed' = sealed
    BY <1>4 DEF file_send_last
  <2>2. hrem(s) = 0 /\ "close" \in SndPcs
    BY <1>2, <1>4 DEF SndPcs
  <2>3. backlog' = backlog /\ UNCHANGED <<rcv, disk, done>>
    BY DEF file_send_last
  <2>4. SndInv' /\ BacklogInv'
    BY <1>1, <2>1, <2>2, <2>3, PcStep
  <2> QED  BY <2>1, <2>3, <2>4 DEF SenderKeeps, ConnInv
<1> QED  BY <1>3, <1>4

LEMMA ConnectStep ==
  ASSUME SndInv, ConnInv, BacklogInv, NEW s \in Sender, tcp_connect(s)
  PROVE  SenderKeeps
<1>1. /\ snd \in [Sender -> SndRecord] /\ SenderAt(s) /\ snd[s].pc = "connect" /\ sealed' = sealed
      /\ UNCHANGED <<rcv, disk, done>>
  BY SndFacts DEF tcp_connect
<1>2. CASE /\ snd' = [snd EXCEPT ![s].pc = "field"] /\ conn' = [conn EXCEPT ![s].state = "open"]
           /\ backlog' = Append(backlog, s)
  <2>1. "field" \in SndPcs /\ "open" \in ConnStates
    BY DEF SndPcs, ConnStates
  <2>2. SndInv'
    BY <1>1, <1>2, <2>1, PcStep
  <2>3. ConnInv'
    BY <1>2, <2>1, StateConn
  <2>4. /\ backlog \in Seq(Sender) /\ Len(backlog) \in Nat /\ backlog' \in Seq(Sender)
        /\ Len(backlog') = Len(backlog) + 1
        /\ \A i \in 1 .. Len(backlog) : backlog'[i] = backlog[i] /\ backlog[i] \in Sender
        /\ backlog'[Len(backlog) + 1] = s
    BY <1>2, AppendProperties, LenProperties, ElementOfSeq DEF BacklogInv
  <2>5. \A t \in Sender : snd'[t].pc = IF t = s THEN "field" ELSE snd[t].pc
    BY <1>1, <1>2 DEF SndRecord
  <2>6. ASSUME NEW i \in 1 .. Len(backlog')
        PROVE  \/ i \in 1 .. Len(backlog) /\ backlog'[i] = backlog[i] /\ backlog[i] \in Sender
                  /\ snd[backlog[i]].pc \notin {"start", "connect"} /\ backlog[i] # s
               \/ i = Len(backlog) + 1 /\ backlog'[i] = s
    <3>1. i \in 1 .. Len(backlog) \/ i = Len(backlog) + 1
      BY <2>4
    <3> QED  BY <1>1, <2>4, <3>1 DEF BacklogInv
  <2>7. \A i, j \in 1 .. Len(backlog') : backlog'[i] = backlog'[j] => i = j
    BY <2>6 DEF BacklogInv
  <2>8. \A i \in 1 .. Len(backlog') : snd'[backlog'[i]].pc \notin {"start", "connect"}
    BY <2>5, <2>6
  <2>9. BacklogInv'
    BY <2>4, <2>7, <2>8 DEF BacklogInv
  <2> QED  BY <1>1, <2>2, <2>3, <2>9 DEF SenderKeeps
<1>3. CASE snd' = [snd EXCEPT ![s] = Returns(s, "FileError")] /\ UNCHANGED <<conn, backlog>>
  <2>1. SndInv' /\ BacklogInv'
    BY <1>1, <1>3, ReturnStep
  <2> QED  BY <1>1, <1>3, <2>1 DEF SenderKeeps, ConnInv
<1> QED  BY <1>2, <1>3 DEF tcp_connect

LEMMA CloseConn ==
  ASSUME ConnInv, NEW s \in Sender, tcp_close(s)
  PROVE  ConnInv'
<1> DEFINE st == IF conn[s].state = "open" THEN "closed" ELSE conn[s].state
<1>1. st \in ConnStates
  BY DEF ConnInv, ConnStates
<1>2. conn' = [conn EXCEPT ![s].state = st]
  BY DEF tcp_close
<1> HIDE DEF st
<1> QED  BY <1>1, <1>2, StateConn

(* Every step of a sender, and every fault of its environment.             *)
LEMMA SenderSteps ==
  ASSUME SndInv, ConnInv, BacklogInv, NEW s \in Sender, SenderStep(s) \/ Break(s) \/ Die(s)
  PROVE  SenderKeeps
<1>p. SndPcs = {"start", "connect", "field", "loop", "close", "returned", "dead"}
  BY DEF SndPcs
<1>1. CASE abort(s)
  <2>1. SndInv' /\ BacklogInv'
    BY <1>1, <1>p, PcStep DEF abort
  <2> QED  BY <1>1, <2>1 DEF abort, SenderKeeps, ConnInv
<1>2. CASE file_open(s)
  <2>1. sealed' = sealed /\ UNCHANGED <<conn, backlog, rcv, disk, done>> /\ snd[s].pc = "start"
    BY <1>2 DEF file_open
  <2>2. CASE snd' = [snd EXCEPT ![s].pc = "connect"]
    <3>1. SndInv' /\ BacklogInv'
      BY <1>p, <2>1, <2>2, PcStep
    <3> QED  BY <2>1, <3>1 DEF SenderKeeps, ConnInv
  <2>3. CASE snd' = [snd EXCEPT ![s] = Returns(s, "FileError")]
    <3>1. SndInv' /\ BacklogInv'
      BY <2>1, <2>3, ReturnStep
    <3> QED  BY <2>1, <3>1 DEF SenderKeeps, ConnInv
  <2> QED  BY <1>2, <2>2, <2>3 DEF file_open
<1>3. CASE tcp_connect(s)
  BY <1>3, ConnectStep
<1>4. CASE file_flush_all(s)
  BY <1>4, FlushStep
<1>5. CASE file_send_loop(s)
  BY <1>5, LoopStep
<1>6. CASE file_send_last(s)
  BY <1>6, LastStep
<1>7. CASE file_send_1(s)
  <2>1. /\ sealed' = sealed /\ backlog' = backlog /\ UNCHANGED <<rcv, disk, done>>
        /\ snd[s].pc = "close" /\ tcp_close(s)
    BY <1>7 DEF file_send_1
  <2>2. PICK closed \in BOOLEAN :
          snd' = [snd EXCEPT ![s] = Returns(s, IF snd[s].ok /\ file_close_result(closed)
                                               THEN "FileOk" ELSE "FileError")]
    BY <1>7 DEF file_send_1
  <2> DEFINE r == IF snd[s].ok /\ file_close_result(closed) THEN "FileOk" ELSE "FileError"
  <2>3. r \in {"FileOk", "FileError"} /\ (r = "FileOk" => snd[s].ok)
    OBVIOUS
  <2>4. snd' = [snd EXCEPT ![s] = Returns(s, r)]
    BY <2>2
  <2> HIDE DEF r
  <2>5. SndInv' /\ BacklogInv'
    BY <2>1, <2>3, <2>4, ReturnStep
  <2>6. ConnInv'
    BY <2>1, CloseConn
  <2> QED  BY <2>1, <2>5, <2>6 DEF SenderKeeps
<1>8. CASE SigPipe(s)
  <2>1. SndInv' /\ BacklogInv'
    BY <1>8, <1>p, PcStep DEF SigPipe
  <2> QED  BY <1>8, <2>1 DEF SigPipe, SenderKeeps, ConnInv
<1>9. CASE Break(s)
  <2>1. snd' = snd /\ sealed' = sealed /\ backlog' = backlog /\ UNCHANGED <<rcv, disk, done>>
    BY <1>9 DEF Break
  <2>2. conn' = [conn EXCEPT ![s] = Reset] /\ conn \in [Sender -> [state : ConnStates, buf : Seq(Messages)]]
    BY <1>9 DEF Break, ConnInv
  <2>3. Reset \in [state : ConnStates, buf : Seq(Messages)] /\ Reset.buf = <<>>
    BY DEF Reset, ConnStates
  <2>4. ConnInv'
    BY <2>2, <2>3, EmptyConn
  <2>5. SndInv' /\ BacklogInv'
    BY <2>1 DEF SndInv, SndType, SenderAt, BacklogInv
  <2> QED  BY <2>1, <2>4, <2>5 DEF SenderKeeps
<1>10. CASE Die(s)
  <2>1. /\ sealed' = sealed /\ backlog' = backlog /\ UNCHANGED <<rcv, disk, done>>
        /\ snd[s].pc # "returned" /\ tcp_close(s) /\ snd' = [snd EXCEPT ![s].pc = "dead"]
    BY <1>10 DEF Die
  <2>2. SndInv' /\ BacklogInv'
    BY <1>p, <2>1, PcStep
  <2>3. ConnInv'
    BY <2>1, CloseConn
  <2> QED  BY <2>1, <2>2, <2>3 DEF SenderKeeps
<1> QED  BY <1>1, <1>2, <1>3, <1>4, <1>5, <1>6, <1>7, <1>8, <1>9, <1>10 DEF SenderStep
-----------------------------------------------------------------------------
(* Steps of the receiver.                                                  *)

ReceiverKeeps ==
  /\ RcvInv' /\ ConnInv' /\ BacklogInv' /\ DiskInv' /\ done' \in Seq(Sender)
  /\ UNCHANGED <<snd, sealed>>

(* The receiver exits.                                                     *)
LEMMA ExitStep ==
  ASSUME RcvInv, ConnInv, Exit
  PROVE  RcvInv' /\ ConnInv' /\ BacklogInv' /\ rcv'.pc = "exited"
<1>1. rcv' = [rcv EXCEPT !.pc = "exited"] /\ backlog' = <<>>
  BY DEF Exit
<1>2. rcv' \in RcvRecord /\ rcv'.pc = "exited"
  BY <1>1 DEF RcvInv, RcvRecord, RcvPcs
<1>3. RcvInv'
  BY <1>2 DEF RcvInv
<1>4. BacklogInv'
  BY <1>1 DEF BacklogInv
<1>5. PICK st \in {"shut", "reset"} :
        conn' = [s \in Sender |->
                  CASE conn[s].state = "open" /\ s \in Range(backlog) -> Reset
                    [] conn[s].state = "open" /\ s = rcv.conn -> [state |-> st, buf |-> <<>>]
                    [] OTHER -> conn[s]]
  BY DEF Exit
<1>6. Reset \in [state : ConnStates, buf : Seq(Messages)] /\ Reset.buf = <<>>
  BY DEF Reset, ConnStates
<1>7. /\ [state |-> st, buf |-> <<>>] \in [state : ConnStates, buf : Seq(Messages)]
      /\ [state |-> st, buf |-> <<>>].buf = <<>>
  BY DEF ConnStates
<1>8. \A s \in Sender : conn'[s] \in {conn[s], Reset, [state |-> st, buf |-> <<>>]}
  BY <1>5
<1>9. conn' \in [Sender -> [state : ConnStates, buf : Seq(Messages)]]
  BY <1>5, <1>6, <1>7, <1>8 DEF ConnInv
<1>10. \A s \in Sender : conn'[s].buf \in {conn[s].buf, <<>>}
  BY <1>6, <1>7, <1>8
<1> QED  BY <1>2, <1>3, <1>4, <1>9, <1>10, EmptyConn

LEMMA ListenStep ==
  ASSUME RcvInv, ConnInv, BacklogInv, DiskInv, done \in Seq(Sender), tcp_listen
  PROVE  ReceiverKeeps
<1>1. UNCHANGED <<snd, disk, done, sealed>>
  BY DEF tcp_listen
<1>2. CASE rcv' = [rcv EXCEPT !.pc = "accept"] /\ UNCHANGED <<conn, backlog>>
  <2>1. rcv' \in RcvRecord /\ rcv'.pc = "accept"
    BY <1>2 DEF RcvInv, RcvRecord, RcvPcs
  <2>2. RcvInv' /\ DiskInv'
    BY <1>1, <2>1 DEF RcvInv, DiskInv
  <2> QED  BY <1>1, <1>2, <2>2 DEF ReceiverKeeps, ConnInv, BacklogInv
<1>3. CASE Exit
  BY <1>1, <1>3, ExitStep DEF ReceiverKeeps, DiskInv
<1> QED  BY <1>2, <1>3 DEF tcp_listen

LEMMA AcceptStep ==
  ASSUME RcvInv, ConnInv, BacklogInv, DiskInv, done \in Seq(Sender), tcp_accept
  PROVE  ReceiverKeeps
<1>1. UNCHANGED <<snd, disk, done, sealed>> /\ backlog # <<>>
  BY DEF tcp_accept
<1>2. CASE /\ rcv' = [rcv EXCEPT !.pc = "field", !.conn = Head(backlog), !.field = 1]
           /\ backlog' = Tail(backlog) /\ UNCHANGED conn
  <2>1. /\ backlog \in Seq(Sender) /\ Len(backlog) \in Nat /\ Head(backlog) \in Sender
        /\ backlog' \in Seq(Sender) /\ Len(backlog') = Len(backlog) - 1
        /\ \A i \in 1 .. Len(backlog') : backlog'[i] = backlog[i + 1]
    BY <1>1, <1>2, HeadTailProperties, LenProperties DEF BacklogInv
  <2>2. \A i \in 1 .. Len(backlog') : i + 1 \in 1 .. Len(backlog)
    BY <2>1
  <2>3. BacklogInv'
    <3>1. \A i, j \in 1 .. Len(backlog') : backlog'[i] = backlog'[j] => i = j
      <4> TAKE i, j \in 1 .. Len(backlog')
      <4>1. backlog'[i] = backlog[i + 1] /\ backlog'[j] = backlog[j + 1]
        BY <2>1
      <4>2. backlog[i + 1] = backlog[j + 1] => i + 1 = j + 1
        BY <2>2 DEF BacklogInv
      <4>3. i \in Int /\ j \in Int
        BY <2>1
      <4> QED  BY <4>1, <4>2, <4>3
    <3>2. \A i \in 1 .. Len(backlog') : snd'[backlog'[i]].pc \notin {"start", "connect"}
      BY <1>1, <2>1, <2>2 DEF BacklogInv
    <3> QED  BY <2>1, <3>1, <3>2 DEF BacklogInv
  <2>4. rcv' = [pc |-> "field", conn |-> Head(backlog), field |-> 1, sid |-> rcv.sid,
                left |-> rcv.left, pk1 |-> rcv.pk1, size |-> rcv.size, name |-> rcv.name,
                cur |-> rcv.cur, seqno |-> rcv.seqno]
    BY <1>2 DEF RcvInv, RcvRecord
  <2>5. 1 \in 1 .. Len(fields) /\ "field" \in RcvPcs
    BY DEF fields, RcvPcs
  <2>6. rcv' \in RcvRecord
    BY <2>1, <2>4, <2>5 DEF RcvInv, RcvRecord
  <2>7. RcvInv' /\ DiskInv'
    BY <1>1, <2>1, <2>4, <2>6 DEF RcvInv, DiskInv
  <2> QED  BY <1>1, <1>2, <2>3, <2>7 DEF ReceiverKeeps, ConnInv
<1>3. CASE Exit
  BY <1>1, <1>3, ExitStep DEF ReceiverKeeps, DiskInv
<1> QED  BY <1>2, <1>3 DEF tcp_accept

(* The message at the head of the connection the receiver reads, if it is  *)
(* whole, is one that the sender at the other end wrote.                   *)
LEMMA HeadMessage ==
  ASSUME RcvInv, ConnInv, rcv.pc \in {"field", "recv"}, conn[rcv.conn].buf # <<>>,
         Head(conn[rcv.conn].buf).kind # "short"
  PROVE  rcv.conn \in Sender /\ Head(conn[rcv.conn].buf) \in Sent(rcv.conn)
<1>1. rcv.conn \in Sender
  BY DEF RcvInv
<1> DEFINE q == conn[rcv.conn].buf
<1>2. q \in Seq(Messages) /\ \A k \in 1 .. Len(q) : q[k].sid = rcv.conn
  BY <1>1 DEF ConnInv
<1>3. Head(q) \in Messages /\ Head(q) = q[1] /\ 1 \in 1 .. Len(q)
  BY <1>2, HeadTailProperties, LenProperties
<1>4. Head(q).sid = rcv.conn
  BY <1>2, <1>3
<1> QED  BY <1>1, <1>3, <1>4, WholeMessage

(* What the receiver knows once it has read a field.                       *)
LEMMA FieldRead ==
  ASSUME RcvInv, ConnInv, rcv.pc = "field", conn[rcv.conn].buf # <<>>,
         NEW m, m = Head(conn[rcv.conn].buf), NEW f, f = fields[rcv.field],
         m.kind = f, FieldOk(f, m), rcv' = FieldStored(f, m)
  PROVE  LET s == rcv.conn
         IN /\ s \in Sender /\ rcv' \in RcvRecord /\ rcv'.conn = s /\ rcv'.sid = s
            /\ f = "header" <=> rcv.field = 5
            /\ rcv.field < 5 => /\ rcv'.pc = "field" /\ rcv'.field = rcv.field + 1
                                /\ rcv'.field >= 3 => rcv'.left = hsize(s)
            /\ rcv.field = 5 =>
                 /\ rcv'.pc = "recv" /\ rcv'.size = FileSize[s] /\ rcv'.name = FileName[s]
                 /\ m.data.size = FileSize[s] /\ m.data.name = FileName[s]
                 /\ Keys[s] = Peers /\ FileSize[s] < MaxFileSize
                 /\ rcv'.cur = 0 /\ rcv'.seqno = 1 /\ rcv'.left = hsize(s)
<1> DEFINE s == rcv.conn
<1>1. /\ rcv \in RcvRecord /\ rcv.field \in 1 .. 5
      /\ rcv.field >= 2 => rcv.sid = s
      /\ rcv.field >= 3 => rcv.left = hsize(s)
  BY DEF RcvInv, RcvRecord, fields
<1>2. /\ f \in FieldNames /\ f # "short"
      /\ rcv.field = 1 => f = "sid"
      /\ rcv.field = 2 => f = "hsbuf"
      /\ rcv.field = 3 => f = "pkA"
      /\ rcv.field = 4 => f = "pkB"
      /\ rcv.field = 5 => f = "header"
  BY <1>1 DEF FieldNames, fields
<1>3. s \in Sender /\ m \in Sent(s)
  BY <1>2, HeadMessage
<1>4. m = FieldOf(s, f) /\ m.sid = s
  BY <1>2, <1>3, SentFacts
<1>5. /\ hsize(s) \in Nat /\ FileSize[s] \in Nat /\ Len(fields) = 5
      /\ FileName[s] \in Names /\ Keys[s].pkA \in {Keys[t].pkA : t \in Sender}
  BY <1>3, SizeFacts DEF Names, fields
<1>6. CASE rcv.field = 1
  <2>1. rcv' = [rcv EXCEPT !.sid = m.sid, !.field = 2]
    BY <1>2, <1>6 DEF FieldStored
  <2>2. rcv' = [pc |-> rcv.pc, conn |-> s, field |-> 2, sid |-> s,
                left |-> rcv.left, pk1 |-> rcv.pk1, size |-> rcv.size, name |-> rcv.name,
                cur |-> rcv.cur, seqno |-> rcv.seqno]
    BY <1>1, <1>4, <2>1 DEF RcvRecord
  <2>3. rcv' \in RcvRecord
    BY <1>1, <1>3, <1>5, <2>2 DEF RcvRecord
  <2> QED  BY <1>2, <1>3, <1>6, <2>2, <2>3
<1>7. CASE rcv.field = 2
  <2>1. rcv' = [rcv EXCEPT !.left = m.data, !.field = 3] /\ m.data = hsize(s)
    BY <1>2, <1>4, <1>7 DEF FieldStored, FieldOf, Field
  <2>2. rcv' = [pc |-> rcv.pc, conn |-> s, field |-> 3, sid |-> rcv.sid,
                left |-> hsize(s), pk1 |-> rcv.pk1, size |-> rcv.size, name |-> rcv.name,
                cur |-> rcv.cur, seqno |-> rcv.seqno]
    BY <1>1, <2>1 DEF RcvRecord
  <2>3. rcv' \in RcvRecord
    BY <1>1, <1>3, <1>5, <2>2 DEF RcvRecord
  <2> QED  BY <1>1, <1>2, <1>3, <1>7, <2>2, <2>3
<1>8. CASE rcv.field = 3
  <2>1. rcv' = [rcv EXCEPT !.pk1 = m.data, !.field = 4] /\ m.data = Keys[s].pkA
    BY <1>2, <1>4, <1>8 DEF FieldStored, FieldOf, Field
  <2>2. rcv' = [pc |-> rcv.pc, conn |-> s, field |-> 4, sid |-> rcv.sid,
                left |-> rcv.left, pk1 |-> Keys[s].pkA, size |-> rcv.size, name |-> rcv.name,
                cur |-> rcv.cur, seqno |-> rcv.seqno]
    BY <1>1, <2>1 DEF RcvRecord
  <2>3. rcv' \in RcvRecord
    BY <1>1, <1>3, <1>5, <2>2 DEF RcvRecord
  <2> QED  BY <1>1, <1>2, <1>3, <1>8, <2>2, <2>3
<1>9. CASE rcv.field = 4
  <2>1. rcv' = [rcv EXCEPT !.field = 5]
    BY <1>2, <1>9 DEF FieldStored
  <2>2. rcv' = [pc |-> rcv.pc, conn |-> s, field |-> 5, sid |-> rcv.sid,
                left |-> rcv.left, pk1 |-> rcv.pk1, size |-> rcv.size, name |-> rcv.name,
                cur |-> rcv.cur, seqno |-> rcv.seqno]
    BY <1>1, <2>1 DEF RcvRecord
  <2>3. rcv' \in RcvRecord
    BY <1>1, <1>3, <1>5, <2>2 DEF RcvRecord
  <2> QED  BY <1>1, <1>2, <1>3, <1>9, <2>2, <2>3
<1>10. CASE rcv.field = 5
  <2>1. /\ rcv' = [rcv EXCEPT !.pc = "recv", !.size = m.data.size, !.name = m.data.name,
                              !.cur = 0, !.seqno = 1]
        /\ m.data = [size |-> FileSize[s], name |-> FileName[s]]
    BY <1>2, <1>4, <1>10 DEF FieldStored, FieldOf, Field
  <2>2. m.data.size = FileSize[s] /\ m.data.name = FileName[s]
    BY <2>1
  <2>3. rcv' = [pc |-> "recv", conn |-> s, field |-> rcv.field, sid |-> rcv.sid,
                left |-> rcv.left, pk1 |-> rcv.pk1, size |-> FileSize[s], name |-> FileName[s],
                cur |-> 0, seqno |-> 1]
    <3>1. rcv' = [rcv EXCEPT !.pc = "recv", !.size = FileSize[s], !.name = FileName[s],
                             !.cur = 0, !.seqno = 1]
      BY <2>1, <2>2, Zenon
    <3> QED  BY <1>1, <3>1 DEF RcvRecord
  <2>4. rcv' \in RcvRecord
    BY <1>1, <1>3, <1>5, <2>3 DEF RcvRecord, RcvPcs
  <2>5. Keys[s] = Peers /\ FileSize[s] < MaxFileSize
    BY <1>2, <1>4, <1>10, <2>2 DEF FieldOk, Opens, Peers
  <2> QED  BY <1>1, <1>2, <1>3, <1>10, <2>2, <2>3, <2>4, <2>5
<1>11. rcv.field \in {1, 2, 3, 4, 5}
  BY <1>1
<1> QED  BY <1>6, <1>7, <1>8, <1>9, <1>10, <1>11, Zenon

(* The file that file_open_write_sequential leaves.                        *)
LEMMA BlankFacts ==
  ASSUME NEW size \in Nat
  PROVE  /\ Blank(size) \in Seq(Byte) /\ Len(Blank(size)) = size + blocksize
         /\ \A k \in 1 .. size + blocksize : Blank(size)[k] = Zero
<1>1. size + blocksize \in Nat
  BY WordFacts
<1>2. Blank(size) \in [1 .. size + blocksize -> Byte]
  BY DEF Blank, Byte
<1> QED  BY <1>1, <1>2, SeqOfLen DEF Blank

(* The header a failing file_open_write_sequential was given.              *)
LEMMA HeaderRead ==
  ASSUME RcvInv, ConnInv, rcv.pc = "field", conn[rcv.conn].buf # <<>>,
         NEW m, m = Head(conn[rcv.conn].buf), m.kind = "header", FieldOk("header", m)
  PROVE  LET s == rcv.conn
         IN /\ s \in Sender /\ m.data.size = FileSize[s] /\ m.data.name = FileName[s]
            /\ Keys[s] = Peers
<1> DEFINE s == rcv.conn
<1>1. s \in Sender /\ m \in Sent(s)
  BY HeadMessage
<1>2. m = FieldOf(s, "header") /\ m.sid = s
  BY <1>1, SentFacts DEF FieldNames
<1>3. m.data = [size |-> FileSize[s], name |-> FileName[s]]
  BY <1>2 DEF FieldOf, Field
<1>4. Keys[s] = Peers
  BY <1>2 DEF FieldOk, Opens, Peers
<1> QED  BY <1>1, <1>3, <1>4

LEMMA FieldStep ==
  ASSUME RcvInv, ConnInv, BacklogInv, DiskInv, done \in Seq(Sender), recv_field
  PROVE  ReceiverKeeps
<1> DEFINE s == rcv.conn
           f == fields[rcv.field]
           m == Head(conn[s].buf)
<1>1. UNCHANGED <<snd, done, sealed>> /\ rcv.pc = "field"
  BY DEF recv_field
<1>2. CASE Exit /\ UNCHANGED disk
  BY <1>1, <1>2, ExitStep DEF ReceiverKeeps, DiskInv
<1>3. CASE /\ conn[s].buf # <<>> /\ m.kind = f /\ FieldOk(f, m) /\ rcv' = FieldStored(f, m)
           /\ disk' = IF f = "header" THEN [disk EXCEPT ![m.data.name] = Blank(m.data.size)] ELSE disk
           /\ Consume(s) /\ UNCHANGED backlog
  <2>1. /\ s \in Sender /\ rcv' \in RcvRecord /\ rcv'.conn = s /\ rcv'.sid = s
        /\ f = "header" <=> rcv.field = 5
        /\ rcv.field < 5 => /\ rcv'.pc = "field" /\ rcv'.field = rcv.field + 1
                            /\ rcv'.field >= 3 => rcv'.left = hsize(s)
        /\ rcv.field = 5 =>
             /\ rcv'.pc = "recv" /\ rcv'.size = FileSize[s] /\ rcv'.name = FileName[s]
             /\ m.data.size = FileSize[s] /\ m.data.name = FileName[s]
             /\ Keys[s] = Peers /\ FileSize[s] < MaxFileSize
             /\ rcv'.cur = 0 /\ rcv'.seqno = 1 /\ rcv'.left = hsize(s)
    BY <1>1, <1>3, FieldRead
  <2>2. ConnInv'
    BY <1>3, <2>1, ConsumeConn
  <2>3. rcv.field \in 1 .. 5 /\ hsize(s) \in Nat /\ FileSize[s] \in Nat
    BY <2>1, SizeFacts DEF RcvInv, RcvRecord, fields
  <2>4. hsize(s) = hsize(s) + (1 - 1) * blocksize
    BY <2>3, WordFacts
  <2> HIDE DEF m, f, s
  <2>5. CASE rcv.field < 5
    <3>1. rcv'.pc = "field" /\ disk' = disk
      BY <1>3, <2>1, <2>3, <2>5
    <3>2. RcvInv'
      BY <2>1, <2>5, <3>1 DEF RcvInv
    <3>3. DiskInv'
      BY <3>1 DEF DiskInv
    <3> QED  BY <1>1, <1>3, <2>2, <3>2, <3>3 DEF ReceiverKeeps, BacklogInv
  <2>6. CASE rcv.field = 5
    <3>1. rcv'.pc = "recv" /\ disk' = [disk EXCEPT ![FileName[s]] = Blank(FileSize[s])]
      BY <1>3, <2>1, <2>6
    <3>2. RcvInv'
      BY <2>1, <2>3, <2>4, <2>6, <3>1 DEF RcvInv
    <3>3. /\ FileName[s] \in Names /\ Blank(FileSize[s]) \in Seq(Byte)
          /\ Len(Blank(FileSize[s])) = FileSize[s] + blocksize
      BY <2>1, <2>3, BlankFacts DEF Names
    <3>4. DiskInv'
      BY <2>1, <2>6, <3>1, <3>3 DEF DiskInv
    <3> QED  BY <1>1, <1>3, <2>2, <3>2, <3>4 DEF ReceiverKeeps, BacklogInv
  <2> QED  BY <2>3, <2>5, <2>6
<1>4. CASE /\ conn[s].buf # <<>> /\ m.kind = f /\ FieldOk(f, m) /\ f = "header" /\ Exit
           /\ \E content \in NotOpened(m.data.name, m.data.size) :
                disk' = [disk EXCEPT ![m.data.name] = content]
  <2>1. s \in Sender /\ m.data.size = FileSize[s] /\ m.data.name = FileName[s]
    BY <1>1, <1>4, HeaderRead
  <2>2. PICK content \in {disk[FileName[s]], <<>>, Blank(FileSize[s])} :
          disk' = [disk EXCEPT ![FileName[s]] = content]
    BY <1>4, <2>1 DEF NotOpened
  <2>3. FileName[s] \in Names /\ Blank(FileSize[s]) \in Seq(Byte) /\ <<>> \in Seq(Byte)
    <3>1. FileSize[s] \in Nat
      BY <2>1, SizeFacts
    <3>2. Blank(FileSize[s]) \in Seq(Byte)
      BY <3>1, BlankFacts
    <3>3. FileName[s] \in Names
      BY <2>1 DEF Names
    <3>4. <<>> \in Seq(Byte)
      OBVIOUS
    <3> QED  BY <3>2, <3>3, <3>4
  <2>4. content = NoFile \/ content \in Seq(Byte)
    BY <2>2, <2>3 DEF DiskInv
  <2>5. rcv'.pc = "exited" /\ RcvInv' /\ ConnInv' /\ BacklogInv'
    BY <1>4, ExitStep
  <2> HIDE DEF m, f, s
  <2>6. DiskInv'
    BY <2>2, <2>3, <2>4, <2>5 DEF DiskInv
  <2> QED  BY <1>1, <2>5, <2>6 DEF ReceiverKeeps
<1> QED  BY <1>2, <1>3, <1>4 DEF recv_field, Readable

(* What writing a fragment does to the file.                               *)
LEMMA WrittenFacts ==
  ASSUME DiskInv, rcv.pc = "recv", NEW m, m.data \in Seq(Byte), rcv.name \in Names, rcv.cur \in Nat
  PROVE  /\ DOMAIN Written(m) = Names /\ Written(m) = [f \in Names |-> Written(m)[f]]
         /\ \A f \in Names \ {rcv.name} : Written(m)[f] = disk[f]
         /\ Written(m)[rcv.name] \in Seq(Byte)
         /\ Len(Written(m)[rcv.name]) = Len(disk[rcv.name])
         /\ \A k \in 1 .. Len(disk[rcv.name]) :
              Written(m)[rcv.name][k] =
                IF file_next_write_buffer /\ k - curr(rcv.cur) \in 1 .. Len(m.data)
                THEN m.data[k - curr(rcv.cur)] ELSE disk[rcv.name][k]
<1> DEFINE old == disk[rcv.name]
           o == curr(rcv.cur)
           new == [k \in DOMAIN old |-> IF k - o \in 1 .. Len(m.data) THEN m.data[k - o] ELSE old[k]]
<1>1. old \in Seq(Byte) /\ DOMAIN old = 1 .. Len(old) /\ Len(old) \in Nat
  BY LenProperties DEF DiskInv
<1>2. \A k \in 1 .. Len(m.data) : m.data[k] \in Byte
  BY ElementOfSeq
<1>3. \A k \in 1 .. Len(old) : old[k] \in Byte
  BY <1>1, ElementOfSeq
<1>4. DOMAIN disk = Names /\ disk = [f \in Names |-> disk[f]]
  BY DEF DiskInv
<1>5. CASE file_next_write_buffer
  <2>1. Written(m) = [disk EXCEPT ![rcv.name] = new]
    BY <1>5 DEF Written
  <2>2. new \in [1 .. Len(old) -> Byte]
    BY <1>1, <1>2, <1>3
  <2>3. new \in Seq(Byte) /\ Len(new) = Len(old)
    BY <1>1, <2>2, SeqOfLen
  <2>4. \A k \in 1 .. Len(old) : new[k] = IF k - o \in 1 .. Len(m.data) THEN m.data[k - o] ELSE old[k]
    BY <1>1
  <2> HIDE DEF new, o, old
  <2>5. Written(m)[rcv.name] = new
    BY <1>4, <2>1
  <2>6. /\ DOMAIN Written(m) = Names /\ Written(m) = [f \in Names |-> Written(m)[f]]
        /\ \A f \in Names \ {rcv.name} : Written(m)[f] = disk[f]
    BY <1>4, <2>1
  <2> QED  BY <1>5, <2>3, <2>4, <2>5, <2>6 DEF old, o
<1>6. CASE ~file_next_write_buffer
  <2>1. Written(m) = disk
    BY <1>6 DEF Written
  <2> QED  BY <1>1, <1>4, <1>6, <2>1
<1> QED  BY <1>5, <1>6

(* A fragment that is accepted: the box, its text and the state after it.  *)
LEMMA FragmentRead ==
  ASSUME RcvInv, ConnInv, DiskInv, rcv.pc = "recv", rcv.left > 0, conn[rcv.conn].buf # <<>>,
         NEW m, m = Head(conn[rcv.conn].buf), m.kind = "box", m.len = next_len + 1,
         Opens(m, rcv.seqno),
         rcv' = [rcv EXCEPT !.left = @ - next_len, !.seqno = @ + 1,
                            !.cur = IF file_next_write_buffer THEN @ + blocksize ELSE @]
  PROVE  LET s == rcv.conn
         IN /\ s \in Sender /\ next_len \in Nat /\ next_len <= blocksize /\ next_len <= rcv.left
            /\ rcv.left < blocksize => next_len = rcv.left
            /\ rcv.left >= blocksize => next_len = blocksize
            /\ m.data \in Seq(Byte) /\ Len(m.data) = next_len
            /\ m.data = file_next_read_buffer(s, hsize(s) - rcv.left, next_len)
            /\ rcv' \in RcvRecord /\ rcv'.pc = "recv" /\ rcv'.conn = s /\ rcv'.sid = s
            /\ rcv'.size = rcv.size /\ rcv'.name = rcv.name
            /\ rcv'.left = rcv.left - next_len /\ rcv'.seqno = rcv.seqno + 1
            /\ rcv'.cur = IF file_next_write_buffer THEN rcv.cur + blocksize ELSE rcv.cur
<1> DEFINE s == rcv.conn
           c == IF file_next_write_buffer THEN rcv.cur + blocksize ELSE rcv.cur
<1>1. /\ rcv \in RcvRecord /\ rcv.sid = s /\ rcv.seqno >= 1
      /\ hsize(s) = rcv.left + (rcv.seqno - 1) * blocksize
  BY DEF RcvInv
<1>2. s \in Sender /\ m \in Sent(s)
  BY HeadMessage
<1> DEFINE o == (rcv.seqno - 1) * blocksize
<1>3. rcv.left \in Nat /\ rcv.seqno \in Nat /\ rcv.cur \in Nat /\ hsize(s) \in Nat
  BY <1>1, <1>2, SizeFacts DEF RcvRecord
<1>o. o \in Nat /\ hsize(s) = rcv.left + o
  BY <1>1, <1>3, MultipleNat, WordFacts
<1>4. /\ next_len \in Nat /\ next_len <= blocksize /\ next_len <= rcv.left
      /\ rcv.left < blocksize => next_len = rcv.left
      /\ rcv.left >= blocksize => next_len = blocksize
  BY <1>3, WordFacts DEF next_len
<1>5. m.seqno = rcv.seqno
  BY DEF Opens
<1>6. /\ m.data = file_next_read_buffer(s, (m.seqno - 1) * blocksize, m.len - 1)
      /\ m.data \in Seq(Byte) /\ Len(m.data) = m.len - 1
  BY <1>2, SentFacts
<1>7. m.len - 1 = next_len /\ (m.seqno - 1) * blocksize = hsize(s) - rcv.left
  <2>1. (m.seqno - 1) * blocksize = o
    BY <1>5
  <2> HIDE DEF o
  <2>2. o = hsize(s) - rcv.left
    BY <1>o, <1>3
  <2> QED  BY <1>4, <2>1, <2>2
<1> HIDE DEF o
<1>8. rcv.left - next_len \in Nat /\ rcv.seqno + 1 \in Nat
  BY <1>3, <1>4
<1>c. c \in Nat
  <2>1. rcv.cur + blocksize \in Nat
    BY <1>3, WordFacts
  <2> QED  BY <1>3, <2>1
<1> HIDE DEF c
<1>9. rcv' = [pc |-> rcv.pc, conn |-> s, field |-> rcv.field, sid |-> rcv.sid,
              left |-> rcv.left - next_len, pk1 |-> rcv.pk1, size |-> rcv.size, name |-> rcv.name,
              cur |-> c, seqno |-> rcv.seqno + 1]
  <2>1. rcv' = [rcv EXCEPT !.left = rcv.left - next_len, !.seqno = rcv.seqno + 1, !.cur = c]
    BY DEF c
  <2> QED  BY <1>1, <2>1 DEF RcvRecord
<1>10. rcv' \in RcvRecord
  BY <1>1, <1>8, <1>c, <1>9 DEF RcvRecord
<1> QED  BY <1>1, <1>2, <1>4, <1>6, <1>7, <1>9, <1>10 DEF c

LEMMA FragmentStep ==
  ASSUME RcvInv, ConnInv, BacklogInv, DiskInv, done \in Seq(Sender), file_recv_loop_2
  PROVE  ReceiverKeeps
<1> DEFINE s == rcv.conn
           m == Head(conn[s].buf)
<1>1. UNCHANGED <<snd, done, sealed>> /\ rcv.pc = "recv" /\ rcv.left > 0
  BY DEF file_recv_loop_2
<1>2. CASE Exit /\ UNCHANGED disk
  BY <1>1, <1>2, ExitStep DEF ReceiverKeeps, DiskInv
<1>3. CASE /\ conn[s].buf # <<>> /\ m.kind = "box" /\ m.len = next_len + 1 /\ Opens(m, rcv.seqno)
           /\ rcv' = [rcv EXCEPT !.left = @ - next_len, !.seqno = @ + 1,
                                 !.cur = IF file_next_write_buffer THEN @ + blocksize ELSE @]
           /\ disk' = Written(m)
           /\ Consume(s) /\ UNCHANGED backlog
  <2>1. /\ s \in Sender /\ next_len \in Nat /\ next_len <= blocksize /\ next_len <= rcv.left
        /\ rcv.left < blocksize => next_len = rcv.left
        /\ rcv.left >= blocksize => next_len = blocksize
        /\ m.data \in Seq(Byte)
        /\ rcv' \in RcvRecord /\ rcv'.pc = "recv" /\ rcv'.conn = s /\ rcv'.sid = s
        /\ rcv'.size = rcv.size /\ rcv'.name = rcv.name
        /\ rcv'.left = rcv.left - next_len /\ rcv'.seqno = rcv.seqno + 1
    BY <1>1, <1>3, FragmentRead
  <2>2. ConnInv'
    BY <1>3, <2>1, ConsumeConn
  <2>3. /\ rcv \in RcvRecord /\ rcv.sid = s /\ rcv.size = FileSize[s]
        /\ rcv.name = FileName[s] /\ Keys[s] = Peers /\ FileSize[s] < MaxFileSize
        /\ rcv.seqno >= 1 /\ rcv.left <= hsize(s)
        /\ hsize(s) = rcv.left + (rcv.seqno - 1) * blocksize
    BY <1>1 DEF RcvInv
  <2>4. rcv.seqno \in Nat /\ rcv.left \in Nat /\ rcv.cur \in Nat /\ rcv.name \in Names
    BY <2>1, <2>3 DEF RcvRecord, Names
  <2>5. (rcv.seqno - 1) * blocksize + blocksize = (rcv'.seqno - 1) * blocksize
    BY <2>1, <2>4, NextMultiple, WordFacts
  <2>6. hsize(s) \in Nat
    BY <2>1, SizeFacts
  <2>o. (rcv.seqno - 1) * blocksize \in Nat /\ (rcv'.seqno - 1) * blocksize \in Nat
    <3>1. rcv'.seqno \in Nat /\ rcv'.seqno >= 1 /\ rcv.seqno >= 1
      BY <2>1, <2>3, <2>4
    <3>2. (rcv.seqno - 1) * blocksize \in Nat
      BY <2>4, <3>1, MultipleNat, WordFacts
    <3>3. (rcv'.seqno - 1) * blocksize \in Nat
      BY <3>1, MultipleNat, WordFacts
    <3> QED  BY <3>2, <3>3
  <2> DEFINE o == (rcv.seqno - 1) * blocksize
             p == (rcv'.seqno - 1) * blocksize
  <2> HIDE DEF s, m
  <2>7. rcv'.left > 0 => hsize(s) = rcv'.left + (rcv'.seqno - 1) * blocksize
    <3>1. o \in Nat /\ p \in Nat /\ o + blocksize = p /\ hsize(s) = rcv.left + o
      BY <2>3, <2>5, <2>o
    <3> HIDE DEF o, p
    <3>2. rcv'.left > 0 => hsize(s) = rcv'.left + p
      BY <2>1, <2>4, <3>1, WordFacts
    <3> QED  BY <3>2 DEF p
  <2> HIDE DEF o, p
  <2>8. rcv'.left <= hsize(s) /\ rcv'.seqno >= 1
    BY <2>1, <2>3, <2>4, <2>6
  <2>9. RcvInv'
    BY <2>1, <2>3, <2>7, <2>8 DEF RcvInv
  <2>10. /\ DOMAIN disk' = Names /\ disk' = [f \in Names |-> disk'[f]]
         /\ \A f \in Names \ {rcv.name} : disk'[f] = disk[f]
         /\ disk'[rcv.name] \in Seq(Byte) /\ Len(disk'[rcv.name]) = Len(disk[rcv.name])
    BY <1>1, <1>3, <2>1, <2>4, WrittenFacts
  <2>11. DiskInv'
    BY <1>1, <2>1, <2>10 DEF DiskInv
  <2> QED  BY <1>1, <1>3, <2>2, <2>9, <2>11 DEF ReceiverKeeps, BacklogInv
<1> QED  BY <1>2, <1>3 DEF file_recv_loop_2, Readable

(* The end of a session.                                                   *)
LEMMA FileCloseStep ==
  ASSUME RcvInv, ConnInv, BacklogInv, DiskInv, done \in Seq(Sender), file_recv_close
  PROVE  ReceiverKeeps
<1> DEFINE s == rcv.conn
           t == SubSeq(disk[rcv.name], 1, rcv.size)
<1>1. UNCHANGED <<snd, sealed>> /\ rcv.pc = "recv" /\ s \in Sender
  BY DEF file_recv_close, RcvInv
<1>2. rcv \in RcvRecord /\ rcv.size \in Nat /\ rcv.name \in Names
  BY <1>1 DEF RcvInv, RcvRecord, Names
<1>3. disk[rcv.name] \in Seq(Byte) /\ Len(disk[rcv.name]) \in Nat
  BY <1>1, LenProperties DEF DiskInv
<1>d. /\ DOMAIN disk' = Names /\ disk' = [f \in Names |-> disk'[f]]
      /\ \A f \in Names : disk'[f] = NoFile \/ disk'[f] \in Seq(Byte)
  <2>1. CASE disk' = [disk EXCEPT ![rcv.name] = ftruncate(@, rcv.size)]
    <3>1. t \in Seq(Byte)
      <4>1. rcv.size <= Len(disk[rcv.name])
        BY <1>1, <1>2, WordFacts DEF DiskInv
      <4>2. \A k \in 1 .. rcv.size : disk[rcv.name][k] \in Byte
        BY <1>2, <1>3, <4>1, ElementOfSeq
      <4> QED  BY <1>2, <4>2, SubSeqProperties
    <3>2. disk' = [disk EXCEPT ![rcv.name] = t]
      BY <2>1 DEF ftruncate
    <3> HIDE DEF t
    <3> QED  BY <1>2, <3>1, <3>2 DEF DiskInv
  <2>2. CASE disk' = disk
    BY <2>2 DEF DiskInv
  <2> QED  BY <2>1, <2>2 DEF file_recv_close
<1>4. CASE Exit /\ UNCHANGED done
  <2>1. RcvInv' /\ ConnInv' /\ BacklogInv' /\ rcv'.pc = "exited"
    BY <1>4, ExitStep
  <2>2. DiskInv'
    BY <1>d, <2>1 DEF DiskInv
  <2> QED  BY <1>1, <1>4, <2>1, <2>2 DEF ReceiverKeeps
<1>5. CASE /\ rcv' = [rcv EXCEPT !.pc = "accept", !.conn = NoSender]
           /\ conn' = [conn EXCEPT ![rcv.conn] =
                          [state |-> IF @.state = "open" THEN "shut" ELSE @.state, buf |-> <<>>]]
           /\ done' = Append(done, rcv.conn)
           /\ UNCHANGED backlog
  <2>1. rcv' \in RcvRecord /\ rcv'.pc = "accept"
    BY <1>2, <1>5 DEF RcvRecord, RcvPcs
  <2>2. RcvInv'
    BY <2>1 DEF RcvInv
  <2>3. DiskInv'
    BY <1>d, <2>1 DEF DiskInv
  <2>4. done' \in Seq(Sender)
    BY <1>1, <1>5, AppendProperties
  <2> DEFINE e == [state |-> IF conn[s].state = "open" THEN "shut" ELSE conn[s].state, buf |-> <<>>]
  <2>5. conn \in [Sender -> [state : ConnStates, buf : Seq(Messages)]]
    BY DEF ConnInv
  <2>6. e \in [state : ConnStates, buf : Seq(Messages)] /\ e.buf = <<>>
    BY <1>1, <2>5 DEF ConnStates
  <2>7. conn' = [conn EXCEPT ![s] = e]
    BY <1>5
  <2> HIDE DEF e
  <2>8. /\ conn' \in [Sender -> [state : ConnStates, buf : Seq(Messages)]]
        /\ \A u \in Sender : conn'[u].buf \in {conn[u].buf, <<>>}
    BY <1>1, <2>5, <2>6, <2>7
  <2>9. ConnInv'
    BY <2>8, EmptyConn
  <2> QED  BY <1>1, <1>5, <2>2, <2>3, <2>4, <2>9 DEF ReceiverKeeps, BacklogInv
<1> QED  BY <1>4, <1>5 DEF file_recv_close
-----------------------------------------------------------------------------
(* The inductive invariant.                                                *)

LEMMA InitInv == Init => IInv
<1> SUFFICES ASSUME Init PROVE IInv
  OBVIOUS
<1>1. SndInv
  <2>1. snd = [s \in Sender |-> Idle("start")] /\ sealed = [s \in Sender |-> <<>>]
    BY DEF Init
  <2>2. Idle("start") = [pc |-> "start", field |-> 1, cur |-> 0, left |-> 0, seqno |-> 0,
                         ok |-> TRUE, res |-> "none"]
    BY DEF Idle
  <2>i. Idle("start") \in SndRecord
    <3>1. "start" \in SndPcs
      BY DEF SndPcs
    <3> QED  BY <3>1 DEF SndRecord, Idle
  <2>3. SndType
    BY <2>1, <2>i DEF SndType, SndRecord
  <2>4. sealed \in [Sender -> Seq(Nat)] /\ \A s \in Sender : sealed[s] = <<>> /\ Len(sealed[s]) = 0
    BY <2>1
  <2>5. ASSUME NEW s \in Sender PROVE SenderAt(s)
    <3>1. snd[s] = [pc |-> "start", field |-> 1, cur |-> 0, left |-> 0, seqno |-> 0,
                    ok |-> TRUE, res |-> "none"]
      BY <2>1, <2>2
    <3>2. fragments(s) \in Nat
      BY SizeFacts
    <3>3. Numbered(sealed[s])
      BY <2>4 DEF Numbered
    <3> QED  BY <2>4, <3>1, <3>2, <3>3 DEF SenderAt
  <2> QED  BY <2>3, <2>4, <2>5 DEF SndInv
<1>2. ConnInv
  <2>1. conn = [s \in Sender |-> [state |-> "none", buf |-> <<>>]]
    BY DEF Init
  <2>2. conn \in [Sender -> [state : ConnStates, buf : Seq(Messages)]]
    BY <2>1 DEF ConnStates
  <2>3. \A s \in Sender : conn[s].buf = <<>> /\ Len(conn[s].buf) = 0
    BY <2>1
  <2> QED  BY <2>2, <2>3, WordFacts DEF ConnInv
<1>3. BacklogInv
  <2>1. backlog = <<>> /\ Len(backlog) = 0 /\ backlog \in Seq(Sender)
    BY DEF Init
  <2> QED  BY <2>1 DEF BacklogInv
<1>4. RcvInv
  <2>1. rcv = [pc |-> "start", conn |-> NoSender, field |-> 1, sid |-> NoSender, left |-> 0,
               pk1 |-> "none", size |-> 0, name |-> "none", cur |-> 0, seqno |-> 0]
    BY DEF Init
  <2>2. 1 \in 1 .. Len(fields)
    BY DEF fields
  <2>3. rcv \in RcvRecord
    BY <2>1, <2>2 DEF RcvRecord, RcvPcs
  <2> QED  BY <2>1, <2>3 DEF RcvInv
<1>5. DiskInv
  BY DEF Init, DiskInv, Names
<1>6. done \in Seq(Sender)
  BY DEF Init
<1> QED  BY <1>1, <1>2, <1>3, <1>4, <1>5, <1>6 DEF IInv

LEMMA ReceiverSteps ==
  ASSUME RcvInv, ConnInv, BacklogInv, DiskInv, done \in Seq(Sender), ReceiverStep
  PROVE  ReceiverKeeps
<1>1. CASE tcp_listen
  BY <1>1, ListenStep
<1>2. CASE tcp_accept
  BY <1>2, AcceptStep
<1>3. CASE recv_field
  BY <1>3, FieldStep
<1>4. CASE file_recv_loop_2
  BY <1>4, FragmentStep
<1>5. CASE file_recv_close
  BY <1>5, FileCloseStep
<1> QED  BY <1>1, <1>2, <1>3, <1>4, <1>5 DEF ReceiverStep

LEMMA NextInv == IInv /\ [Next]_vars => IInv'
<1> SUFFICES ASSUME IInv, [Next]_vars PROVE IInv'
  OBVIOUS
<1>1. SndInv /\ ConnInv /\ BacklogInv /\ RcvInv /\ DiskInv /\ done \in Seq(Sender)
  BY DEF IInv
<1>2. ASSUME NEW s \in Sender, SenderStep(s) \/ Break(s) \/ Die(s) PROVE IInv'
  <2>1. SenderKeeps
    BY <1>1, <1>2, SenderSteps
  <2>2. SndInv' /\ ConnInv' /\ BacklogInv' /\ UNCHANGED <<rcv, disk, done>>
    BY <2>1 DEF SenderKeeps
  <2>3. RcvInv' /\ DiskInv'
    BY <1>1, <2>2 DEF RcvInv, DiskInv
  <2> QED  BY <1>1, <2>2, <2>3 DEF IInv
<1>3. CASE ReceiverStep
  <2>1. ReceiverKeeps
    BY <1>1, <1>3, ReceiverSteps
  <2>2. SndInv'
    BY <1>1, <2>1 DEF ReceiverKeeps, SndInv, SndType, SenderAt
  <2> QED  BY <2>1, <2>2 DEF ReceiverKeeps, IInv
<1>4. CASE UNCHANGED vars
  BY <1>1, <1>4 DEF vars, IInv, SndInv, SndType, SenderAt, ConnInv, BacklogInv, RcvInv, DiskInv
<1> QED  BY <1>2, <1>3, <1>4 DEF Next

LEMMA Inductive == Spec => []IInv
  BY InitInv, NextInv, PTL DEF Spec
-----------------------------------------------------------------------------
(* What the invariant gives.                                               *)

(* Every variable keeps its type, the sender's counters stay within its    *)
(* fragments, the connections within their buffers, and a sender waits in  *)
(* the backlog at most once, whatever calls fail and senders die.          *)
THEOREM TubeTypeCorrect == Spec => []TypeOK
<1>1. IInv => TypeOK
  <2> SUFFICES ASSUME IInv PROVE TypeOK
    OBVIOUS
  <2>1. ASSUME NEW s \in Sender
        PROVE  /\ snd[s].pc \in {"start", "connect", "field", "loop", "close", "returned", "dead"}
               /\ snd[s].left \in 0 .. fragments(s) /\ snd[s].seqno \in 0 .. fragments(s) + 1
               /\ conn[s].state \in {"none", "open", "closed", "shut", "reset", "broken"}
               /\ Len(conn[s].buf) <= Cap
    <3>1. /\ snd[s].pc \in SndPcs /\ snd[s].left \in Nat /\ snd[s].seqno \in Nat
          /\ snd[s].left <= fragments(s) /\ snd[s].seqno <= fragments(s) + 1
      BY DEF IInv, SndInv, SndType, SenderAt
    <3>2. fragments(s) \in Nat
      BY SizeFacts
    <3>3. conn[s].state \in ConnStates /\ Len(conn[s].buf) <= Cap
      BY DEF IInv, ConnInv
    <3> QED  BY <3>1, <3>2, <3>3 DEF SndPcs, ConnStates
  <2>2. /\ rcv.pc \in {"start", "accept", "field", "recv", "exited"}
        /\ rcv.pc \in {"field", "recv"} => rcv.conn \in Sender
        /\ rcv.left \in Nat /\ rcv.field \in 1 .. Len(fields)
    BY DEF IInv, RcvInv, RcvRecord, RcvPcs
  <2>3. ASSUME NEW f \in DOMAIN disk, disk[f] # NoFile, NEW k \in DOMAIN disk[f]
        PROVE  disk[f][k] \in Byte
    <3>1. disk[f] \in Seq(Byte)
      BY <2>3 DEF IInv, DiskInv
    <3> QED  BY <3>1, ElementOfSeq, LenProperties
  <2>4. backlog \in Seq(Sender) /\ DOMAIN backlog = 1 .. Len(backlog)
    BY LenProperties DEF IInv, BacklogInv
  <2>5. IsInjective(backlog)
    BY <2>4 DEF IInv, BacklogInv, IsInjective
  <2>6. Range(backlog) \subseteq Sender
    BY <2>4, ElementOfSeq DEF Range
  <2> QED  BY <2>1, <2>2, <2>3, <2>5, <2>6 DEF TypeOK
<1> QED  BY <1>1, Inductive, PTL

(* The numbers a session has sealed under, all different.                  *)
LEMMA NumberedFacts ==
  ASSUME NEW q \in Seq(Nat), Numbered(q)
  PROVE  IsInjective(q) /\ Range(q) = 0 .. Len(q) - 1
<1>1. DOMAIN q = 1 .. Len(q) /\ Len(q) \in Nat
  BY LenProperties
<1>2. IsInjective(q)
  BY <1>1 DEF IsInjective, Numbered
<1>3. ASSUME NEW n \in Range(q) PROVE n \in 0 .. Len(q) - 1
  BY <1>1 DEF Range, Numbered
<1>4. ASSUME NEW n \in 0 .. Len(q) - 1 PROVE n \in Range(q)
  <2>1. n + 1 \in 1 .. Len(q) /\ n = (n + 1) - 1
    BY <1>1
  <2>2. q[n + 1] = n
    BY <2>1 DEF Numbered
  <2> QED  BY <1>1, <2>1, <2>2 DEF Range
<1> QED  BY <1>2, <1>3, <1>4

(* Within a session no two boxes are sealed under the same nonce: the      *)
(* header's 0, file_send_loop's counter and the last fragment's number,    *)
(* computed separately, never meet.                                        *)
THEOREM TubeNonceOnce == Spec => []NonceOnce
<1>1. IInv => NonceOnce
  BY NumberedFacts DEF IInv, SndInv, SenderAt, NonceOnce
<1> QED  BY <1>1, Inductive, PTL

-----------------------------------------------------------------------------
(* What a sender that returns FileOk has written.                          *)

(* While no write of a sender has failed, none of its messages in flight   *)
(* is cut short.                                                           *)
NoShort(s) == \A k \in 1 .. Len(conn[s].buf) : conn[s].buf[k].kind # "short"

Uncut(s) ==
  /\ snd[s].pc \in {"start", "connect", "field", "loop"} => snd[s].ok = TRUE
  /\ snd[s].res = "FileOk" => snd[s].ok = TRUE
  /\ snd[s].ok = TRUE => NoShort(s)

UncutInv == \A s \in Sender : Uncut(s)

LEMMA UncutFrame ==
  ASSUME UncutInv, NEW s \in Sender, Uncut(s)',
         \A t \in Sender \ {s} : snd'[t] = snd[t] /\ conn'[t].buf = conn[t].buf
  PROVE  UncutInv'
BY DEF UncutInv, Uncut, NoShort

(* A write that is not reported as failed has appended its message whole,  *)
(* or nothing.                                                             *)
LEMMA UncutWrite ==
  ASSUME ConnInv, NEW s \in Sender, NEW m \in Sent(s), NEW ok \in BOOLEAN, tcp_write_all(s, m, ok)
  PROVE  /\ \A t \in Sender \ {s} : conn'[t].buf = conn[t].buf
         /\ ok = TRUE /\ NoShort(s) => NoShort(s)'
<1>1. PICK r \in -1 .. m.len : write(s, m, r) /\ ok = (r = -1 \/ r >= m.len)
  BY DEF tcp_write_all
<1>2. m.len \in Nat /\ m.kind # "short"
  BY SentFacts DEF FieldNames
<1>3. ASSUME NEW x, conn' = [conn EXCEPT ![s].buf = Append(@, x)]
      PROVE  /\ \A t \in Sender \ {s} : conn'[t].buf = conn[t].buf
             /\ x.kind # "short" /\ NoShort(s) => NoShort(s)'
  <2>1. /\ \A t \in Sender \ {s} : conn'[t] = conn[t]
        /\ conn'[s].buf = Append(conn[s].buf, x) /\ IsSeq(conn[s].buf)
    BY <1>3 DEF ConnInv, IsSeq
  <2>2. /\ Len(conn'[s].buf) = Len(conn[s].buf) + 1 /\ Len(conn[s].buf) \in Nat
        /\ \A k \in 1 .. Len(conn[s].buf) : conn'[s].buf[k] = conn[s].buf[k]
        /\ conn'[s].buf[Len(conn[s].buf) + 1] = x
    BY <2>1
  <2> QED  BY <2>1, <2>2 DEF NoShort
<1>4. CASE conn' = [conn EXCEPT ![s].buf = Append(@, m)]
  BY <1>2, <1>3, <1>4
<1>5. CASE /\ r \in 0 .. m.len - 1
           /\ conn' = [conn EXCEPT ![s].buf = Append(@, [m EXCEPT !.kind = "short", !.len = r])]
  <2>1. ~(r = -1 \/ r >= m.len)
    BY <1>2, <1>5
  <2>2. ok = FALSE
    BY <1>1, <2>1, Zenon
  <2> QED  BY <1>3, <1>5, <2>2
<1>6. CASE conn' = [conn EXCEPT ![s].state = "broken"]
  BY <1>6 DEF ConnInv, NoShort
<1> QED  BY <1>1, <1>4, <1>5, <1>6 DEF write

LEMMA UncutSender ==
  ASSUME SndInv, ConnInv, UncutInv, NEW s \in Sender, SenderStep(s) \/ Break(s) \/ Die(s)
  PROVE  UncutInv'
<1>0. snd \in [Sender -> SndRecord] /\ Uncut(s) /\ SenderAt(s)
  BY SndFacts DEF UncutInv
<1>1. ASSUME \A t \in Sender \ {s} : snd'[t] = snd[t] /\ conn'[t].buf = conn[t].buf,
             conn'[s].buf \in {conn[s].buf, <<>>}, snd'[s].ok = snd[s].ok,
             snd'[s].pc \in {"start", "connect", "field", "loop"} =>
               snd[s].pc \in {"start", "connect", "field", "loop"},
             snd'[s].res = "FileOk" => snd[s].ok = TRUE
      PROVE  UncutInv'
  <2>1. NoShort(s) => NoShort(s)'
    BY <1>1 DEF NoShort
  <2>2. Uncut(s)'
    BY <1>0, <1>1, <2>1 DEF Uncut
  <2> QED  BY <1>1, <2>2, UncutFrame
<1>2. ASSUME NEW p, snd' = [snd EXCEPT ![s].pc = p]
      PROVE  /\ \A t \in Sender \ {s} : snd'[t] = snd[t]
             /\ snd'[s].ok = snd[s].ok /\ snd'[s].pc = p /\ snd'[s].res = snd[s].res
  BY <1>0, <1>2 DEF SndRecord
<1>3. ASSUME NEW r, snd' = [snd EXCEPT ![s] = Returns(s, r)]
      PROVE  /\ \A t \in Sender \ {s} : snd'[t] = snd[t]
             /\ snd'[s].ok = snd[s].ok /\ snd'[s].pc = "returned" /\ snd'[s].res = r
  BY <1>0, <1>3 DEF SndRecord, Returns
<1>4. ASSUME tcp_close(s)
      PROVE  \A t \in Sender : conn'[t].buf = conn[t].buf
  BY <1>4 DEF tcp_close, ConnInv
<1>5. snd[s].res = "FileOk" => snd[s].ok = TRUE
  BY <1>0 DEF Uncut
<1>6. CASE abort(s) \/ SigPipe(s)
  <2>1. snd' = [snd EXCEPT ![s].pc = "dead"] /\ conn' = conn
    BY <1>6 DEF abort, SigPipe
  <2> QED  BY <1>1, <1>2, <1>5, <2>1
<1>7. CASE file_open(s)
  <2>1. conn' = conn /\ snd[s].pc = "start"
    BY <1>7 DEF file_open
  <2>2. CASE snd' = [snd EXCEPT ![s].pc = "connect"]
    BY <1>1, <1>2, <1>5, <2>1, <2>2
  <2>3. CASE snd' = [snd EXCEPT ![s] = Returns(s, "FileError")]
    <3>1. /\ \A t \in Sender \ {s} : snd'[t] = snd[t]
          /\ snd'[s].ok = snd[s].ok /\ snd'[s].pc = "returned" /\ snd'[s].res = "FileError"
      BY <1>3, <2>3
    <3> QED  BY <1>1, <2>1, <3>1
  <2> QED  BY <1>7, <2>2, <2>3 DEF file_open
<1>8. CASE tcp_connect(s)
  <2>1. snd[s].pc = "connect" /\ \A t \in Sender : conn'[t].buf = conn[t].buf
    <3>1. CASE conn' = [conn EXCEPT ![s].state = "open"]
      BY <1>8, <3>1 DEF tcp_connect, ConnInv
    <3>2. CASE conn' = conn
      BY <1>8, <3>2 DEF tcp_connect
    <3> QED  BY <1>8, <3>1, <3>2 DEF tcp_connect
  <2>2. CASE snd' = [snd EXCEPT ![s].pc = "field"]
    BY <1>1, <1>2, <1>5, <2>1, <2>2
  <2>3. CASE snd' = [snd EXCEPT ![s] = Returns(s, "FileError")]
    <3>1. /\ \A t \in Sender \ {s} : snd'[t] = snd[t]
          /\ snd'[s].ok = snd[s].ok /\ snd'[s].pc = "returned" /\ snd'[s].res = "FileError"
      BY <1>3, <2>3
    <3> QED  BY <1>1, <2>1, <3>1
  <2> QED  BY <1>8, <2>2, <2>3 DEF tcp_connect
<1>9. CASE file_send_1(s)
  <2>1. tcp_close(s) /\ snd[s].pc = "close"
    BY <1>9 DEF file_send_1
  <2>2. PICK r : /\ snd' = [snd EXCEPT ![s] = Returns(s, r)]
                 /\ r = "FileOk" => snd[s].ok = TRUE
    <3>1. PICK closed \in BOOLEAN :
            snd' = [snd EXCEPT ![s] = Returns(s, IF snd[s].ok /\ file_close_result(closed)
                                                 THEN "FileOk" ELSE "FileError")]
      BY <1>9 DEF file_send_1
    <3>2. snd[s].ok \in BOOLEAN
      BY SndFacts
    <3> DEFINE r == IF snd[s].ok /\ file_close_result(closed) THEN "FileOk" ELSE "FileError"
    <3>3. r = "FileOk" => snd[s].ok = TRUE
      BY <3>2
    <3>4. snd' = [snd EXCEPT ![s] = Returns(s, r)]
      BY <3>1
    <3> HIDE DEF r
    <3> QED  BY <3>3, <3>4
  <2> QED  BY <1>1, <1>3, <1>4, <2>1, <2>2
<1>10. CASE Break(s)
  <2>1. snd' = snd /\ conn' = [conn EXCEPT ![s] = Reset]
    BY <1>10 DEF Break
  <2>2. conn'[s].buf = <<>> /\ \A t \in Sender \ {s} : conn'[t] = conn[t]
    BY <2>1 DEF ConnInv, Reset
  <2> QED  BY <1>1, <1>5, <2>1, <2>2
<1>11. CASE Die(s)
  <2>1. snd' = [snd EXCEPT ![s].pc = "dead"] /\ tcp_close(s)
    BY <1>11 DEF Die
  <2> QED  BY <1>1, <1>2, <1>4, <1>5, <2>1
<1>12. ASSUME NEW m \in Sent(s), NEW ok \in BOOLEAN, tcp_write_all(s, m, ok),
              snd[s].ok = TRUE, snd[s].res = "none",
              \A t \in Sender \ {s} : snd'[t] = snd[t],
              snd'[s].ok = ok, snd'[s].res = snd[s].res,
              snd'[s].pc \in {"start", "connect", "field", "loop"} => ok = TRUE
       PROVE  UncutInv'
  <2>1. /\ \A t \in Sender \ {s} : conn'[t].buf = conn[t].buf
        /\ ok = TRUE /\ NoShort(s) => NoShort(s)'
    BY <1>12, UncutWrite
  <2>2. Uncut(s)'
    BY <1>0, <1>12, <2>1 DEF Uncut
  <2> QED  BY <1>12, <2>1, <2>2, UncutFrame
<1>13. CASE file_flush_all(s)
  <2> DEFINE i == snd[s].field
             m == FieldOf(s, fields[i])
  <2>1. snd[s].pc = "field" /\ i \in 1 .. 5 /\ snd[s].ok = TRUE /\ snd[s].res = "none"
    BY <1>0, <1>13 DEF file_flush_all, SenderAt, fields, Uncut
  <2>2. m \in Sent(s)
    BY <2>1 DEF Sent, FieldNames, fields
  <2>3. PICK ok \in BOOLEAN :
          /\ tcp_write_all(s, m, ok)
          /\ snd' = IF ok THEN [snd EXCEPT ![s].pc = AfterField(i), ![s].field = i + 1,
                                           ![s].seqno = 1, ![s].left = fragments(s)]
                    ELSE [snd EXCEPT ![s].pc = "close", ![s].ok = FALSE]
    BY <1>13 DEF file_flush_all
  <2>4. CASE ok = TRUE
    <3>1. /\ \A t \in Sender \ {s} : snd'[t] = snd[t]
          /\ snd'[s].ok = snd[s].ok /\ snd'[s].res = snd[s].res
      BY <1>0, <2>3, <2>4 DEF SndRecord
    <3> QED  BY <1>12, <2>1, <2>2, <2>3, <2>4, <3>1
  <2>5. CASE ok = FALSE
    <3>1. /\ \A t \in Sender \ {s} : snd'[t] = snd[t]
          /\ snd'[s].ok = FALSE /\ snd'[s].res = snd[s].res /\ snd'[s].pc = "close"
      BY <1>0, <2>3, <2>5 DEF SndRecord
    <3> QED  BY <1>12, <2>1, <2>2, <2>3, <2>5, <3>1
  <2> QED  BY <2>4, <2>5
<1>14. CASE file_send_loop(s)
  <2> DEFINE n == snd[s].seqno
             text == file_next_read_buffer(s, snd[s].cur, blocksize)
             m == Box(s, n, text)
  <2>1. /\ snd[s].pc = "loop" /\ snd[s].ok = TRUE /\ snd[s].res = "none"
        /\ snd[s].left > 0 /\ snd[s].left \in Nat /\ n \in Nat
        /\ n + snd[s].left = fragments(s) + 1 /\ snd[s].cur = (n - 1) * blocksize
        /\ Len(sealed[s]) = n /\ snd[s].left <= fragments(s)
    BY <1>0, <1>14, SndFacts DEF file_send_loop, SenderAt, Uncut
  <2>2. n \in 1 .. fragments(s) + 1
    BY <2>1, SizeFacts
  <2>3. m \in Sent(s)
    BY <2>1, <2>2, WordFacts DEF Sent
  <2>4. PICK ok \in BOOLEAN :
          /\ tcp_write_all(s, m, ok)
          /\ snd' = [snd EXCEPT ![s].cur = @ + blocksize, ![s].seqno = @ + 1, ![s].left = @ - 1,
                                ![s].pc = IF ok THEN "loop" ELSE "close", ![s].ok = ok]
    BY <1>14 DEF file_send_loop
  <2> DEFINE p == IF ok THEN "loop" ELSE "close"
  <2>5. p = "loop" => ok = TRUE
    OBVIOUS
  <2>p. p \in {"loop", "close"}
    OBVIOUS
  <2>6. snd' = [snd EXCEPT ![s].cur = @ + blocksize, ![s].seqno = @ + 1, ![s].left = @ - 1,
                           ![s].pc = p, ![s].ok = ok]
    BY <2>4
  <2> HIDE DEF p
  <2>7. /\ \A t \in Sender \ {s} : snd'[t] = snd[t]
        /\ snd'[s].ok = ok /\ snd'[s].res = snd[s].res /\ snd'[s].pc = p
    BY <1>0, <2>6 DEF SndRecord
  <2> HIDE DEF m
  <2> QED  BY <1>12, <2>1, <2>3, <2>4, <2>5, <2>p, <2>7
<1>15. CASE file_send_last(s)
  <2>1. /\ snd[s].pc = "loop" /\ snd[s].ok = TRUE /\ snd[s].res = "none"
        /\ snd[s].seqno \in Nat /\ snd[s].left = 0
        /\ snd[s].seqno = fragments(s) + 1 /\ snd[s].cur = (snd[s].seqno - 1) * blocksize
        /\ fragments(s) \in Nat /\ hrem(s) \in Nat
    BY <1>0, <1>15, SndFacts, SizeFacts DEF file_send_last, SenderAt, Uncut
  <2>2. CASE hrem(s) > 0
    <3> DEFINE m == Box(s, last_seqno(s), file_next_read_buffer(s, snd[s].cur, hrem(s)))
    <3>1. m \in Sent(s)
      BY <2>1 DEF Sent, last_seqno
    <3>2. PICK ok \in BOOLEAN :
            /\ tcp_write_all(s, m, ok)
            /\ snd' = [snd EXCEPT ![s].cur = @ + hrem(s), ![s].pc = "close", ![s].ok = ok]
      BY <1>15, <2>2 DEF file_send_last
    <3>3. /\ \A t \in Sender \ {s} : snd'[t] = snd[t]
          /\ snd'[s].ok = ok /\ snd'[s].res = snd[s].res /\ snd'[s].pc = "close"
      BY <1>0, <3>2 DEF SndRecord
    <3> HIDE DEF m
    <3> QED  BY <1>12, <2>1, <3>1, <3>2, <3>3
  <2>3. CASE ~(hrem(s) > 0)
    <3>1. snd' = [snd EXCEPT ![s].pc = "close"] /\ conn' = conn
      BY <1>15, <2>3 DEF file_send_last
    <3> QED  BY <1>1, <1>2, <1>5, <3>1
  <2> QED  BY <2>2, <2>3
<1> QED
  BY <1>6, <1>7, <1>8, <1>9, <1>10, <1>11, <1>13, <1>14, <1>15 DEF SenderStep

(* The receiver only takes messages away.                                  *)
LEMMA UncutReceiver ==
  ASSUME IInv, UncutInv, ReceiverStep
  PROVE  UncutInv'
<1>0. ConnInv /\ RcvInv /\ snd' = snd
  BY DEF IInv, ReceiverStep, tcp_listen, tcp_accept, recv_field, file_recv_loop_2, file_recv_close
<1>1. ASSUME \A s \in Sender : NoShort(s) => NoShort(s)'
      PROVE  UncutInv'
  BY <1>0, <1>1 DEF UncutInv, Uncut
<1>2. ASSUME \A s \in Sender : conn'[s].buf \in {conn[s].buf, <<>>}
      PROVE  UncutInv'
  BY <1>1, <1>2 DEF NoShort
<1>3. CASE Exit
  <2>1. PICK st \in {"shut", "reset"} :
          conn' = [s \in Sender |->
                    CASE conn[s].state = "open" /\ s \in Range(backlog) -> Reset
                      [] conn[s].state = "open" /\ s = rcv.conn -> [state |-> st, buf |-> <<>>]
                      [] OTHER -> conn[s]]
    BY <1>3 DEF Exit
  <2>2. \A s \in Sender : conn'[s] \in {conn[s], Reset, [state |-> st, buf |-> <<>>]}
    BY <2>1
  <2>3. Reset.buf = <<>> /\ [state |-> st, buf |-> <<>>].buf = <<>>
    BY DEF Reset
  <2> QED  BY <1>2, <2>2, <2>3
<1>4. ASSUME NEW s \in Sender, conn[s].buf # <<>>, Consume(s) PROVE UncutInv'
  <2>1. /\ \A t \in Sender \ {s} : conn'[t] = conn[t]
        /\ conn'[s].buf = Tail(conn[s].buf) /\ conn[s].buf \in Seq(Messages)
    BY <1>0, <1>4 DEF Consume, ConnInv
  <2>2. /\ Len(conn[s].buf) \in Nat /\ Len(conn'[s].buf) = Len(conn[s].buf) - 1
        /\ \A k \in 1 .. Len(conn'[s].buf) : conn'[s].buf[k] = conn[s].buf[k + 1]
    BY <1>4, <2>1, HeadTailProperties, LenProperties
  <2>3. ASSUME NoShort(s) PROVE NoShort(s)'
    <3>1. ASSUME NEW k \in 1 .. Len(conn'[s].buf) PROVE conn'[s].buf[k].kind # "short"
      <4>1. k + 1 \in 1 .. Len(conn[s].buf)
        BY <2>2, <3>1
      <4>2. conn[s].buf[k + 1].kind # "short"
        BY <2>3, <4>1 DEF NoShort
      <4> QED  BY <2>2, <3>1, <4>2
    <3> QED  BY <3>1 DEF NoShort
  <2>4. \A t \in Sender \ {s} : NoShort(t) => NoShort(t)'
    BY <2>1 DEF NoShort
  <2> QED  BY <1>1, <2>3, <2>4
<1>5. CASE conn' = conn
  BY <1>2, <1>5
<1>6. CASE file_recv_close
  <2>1. Exit \/ conn' = [conn EXCEPT ![rcv.conn] =
                           [state |-> IF @.state = "open" THEN "shut" ELSE @.state, buf |-> <<>>]]
    BY <1>6 DEF file_recv_close
  <2>2. CASE ~Exit
    <3>1. \A s \in Sender : conn'[s].buf \in {conn[s].buf, <<>>}
      BY <1>0, <2>1, <2>2 DEF ConnInv
    <3> QED  BY <1>2, <3>1
  <2> QED  BY <1>3, <2>2
<1>7. rcv.pc \in {"field", "recv"} => rcv.conn \in Sender
  BY <1>0 DEF RcvInv
<1>8. CASE recv_field
  BY <1>3, <1>4, <1>7, <1>8 DEF recv_field, Readable
<1>9. CASE file_recv_loop_2
  BY <1>3, <1>4, <1>7, <1>9 DEF file_recv_loop_2, Readable
<1> QED  BY <1>3, <1>5, <1>6, <1>8, <1>9 DEF ReceiverStep, tcp_listen, tcp_accept

(* A sender that returns FileOk has sealed every fragment of its file, and *)
(* no write of it was cut short, whatever calls fail.  That all of it was  *)
(* sent, or the file closed, does not follow: see OkMeansAll.              *)
THEOREM TubeOkMeansAll == Spec => []OkMeansAll
<1>1. Init => UncutInv
  <2> SUFFICES ASSUME Init, NEW s \in Sender PROVE Uncut(s)
    BY DEF UncutInv
  <2>1. snd[s] = Idle("start") /\ conn[s].buf = <<>>
    BY DEF Init
  <2> QED  BY <2>1 DEF Uncut, NoShort, Idle
<1>2. IInv /\ UncutInv /\ [Next]_vars => UncutInv'
  <2> SUFFICES ASSUME IInv, UncutInv, [Next]_vars PROVE UncutInv'
    OBVIOUS
  <2>1. ASSUME NEW s \in Sender, SenderStep(s) \/ Break(s) \/ Die(s) PROVE UncutInv'
    BY <2>1, UncutSender DEF IInv
  <2>2. CASE ReceiverStep
    BY <2>2, UncutReceiver
  <2>3. CASE UNCHANGED vars
    BY <2>3 DEF vars, UncutInv, Uncut, NoShort
  <2> QED  BY <2>1, <2>2, <2>3 DEF Next
<1>3. IInv /\ UncutInv => OkMeansAll
  <2> SUFFICES ASSUME IInv, UncutInv, NEW s \in Sender, snd[s].res = "FileOk"
               PROVE  /\ Range(sealed[s]) =
                           0 .. IF hrem(s) > 0 THEN fragments(s) + 1 ELSE fragments(s)
                      /\ \A k \in DOMAIN conn[s].buf : conn[s].buf[k].kind # "short"
    BY DEF OkMeansAll
  <2>1. /\ sealed[s] \in Seq(Nat) /\ Numbered(sealed[s]) /\ Len(sealed[s]) = Total(s)
    BY DEF IInv, SndInv, SenderAt
  <2>2. Range(sealed[s]) = 0 .. Total(s) - 1
    BY <2>1, NumberedFacts
  <2>3. Total(s) - 1 = IF hrem(s) > 0 THEN fragments(s) + 1 ELSE fragments(s)
    BY SizeFacts DEF Total
  <2>4. conn[s].buf \in Seq(Messages) /\ NoShort(s)
    BY DEF IInv, ConnInv, UncutInv, Uncut
  <2>5. DOMAIN conn[s].buf = 1 .. Len(conn[s].buf)
    BY <2>4, LenProperties
  <2> QED  BY <2>2, <2>3, <2>4, <2>5 DEF NoShort
<1> QED  BY <1>1, <1>2, <1>3, Inductive, PTL DEF Spec
-----------------------------------------------------------------------------
(* The content of the file being received.                                 *)

(* Offsets below half of an int's range are themselves.                    *)
LEMMA CurrSmall ==
  ASSUME NEW c \in Nat, c < IntWord \div 2
  PROVE  curr(c) = c
<1>1. IntWord \div 2 \in Nat /\ IntWord \div 2 <= IntWord
  BY WordFacts
<1>2. c % IntWord = c
  BY <1>1, WordFacts
<1> QED  BY <1>1, <1>2 DEF curr

(* What a fragment carries: the bytes of the file, then zeros.             *)
LEMMA ReadSmall ==
  ASSUME NEW s \in Sender, NEW c \in Nat, c < IntWord \div 2, NEW len \in Nat, NEW k \in 1 .. len
  PROVE  file_next_read_buffer(s, c, len)[k] = IF c + k <= FileSize[s] THEN <<s, c + k>> ELSE Zero
<1>1. curr(c) = c /\ c >= 0 /\ ~(c < 0)
  BY CurrSmall
<1>2. FileSize[s] \in Nat
  BY SizeFacts
<1>3. file_next_read_buffer(s, c, len)[k] = IF c + k <= FileSize[s] THEN File(s)[c + k] ELSE Zero
  BY <1>1 DEF file_next_read_buffer
<1>4. c + k <= FileSize[s] => c + k \in 1 .. FileSize[s]
  BY <1>2
<1> QED  BY <1>3, <1>4 DEF File

(* Where the receiver stands in the file.                                  *)
LEMMA CopyingFacts ==
  ASSUME IInv, SmallFiles, Copying, rcv.pc = "recv"
  PROVE  LET s == rcv.conn
         IN /\ s \in Sender /\ rcv \in RcvRecord
            /\ rcv.size = FileSize[s] /\ rcv.name = FileName[s] /\ rcv.name \in Names
            /\ Keys[s] = Peers /\ FileSize[s] < MaxFileSize
            /\ rcv.size \in Nat /\ rcv.left \in Nat /\ rcv.cur \in Nat /\ hsize(s) \in Nat
            /\ rcv.left <= hsize(s) /\ rcv.size <= hsize(s)
            /\ hsize(s) + blocksize < IntWord \div 2 /\ rcv.cur <= rcv.size + blocksize
            /\ curr(rcv.cur) = rcv.cur
            /\ file_next_write_buffer <=> rcv.cur <= rcv.size
<1> DEFINE s == rcv.conn
<1>1. /\ s \in Sender /\ rcv \in RcvRecord /\ rcv.size = FileSize[s] /\ rcv.name = FileName[s]
      /\ Keys[s] = Peers /\ FileSize[s] < MaxFileSize /\ rcv.left <= hsize(s)
  BY DEF IInv, RcvInv
<1>2. rcv.size \in Nat /\ rcv.left \in Nat /\ rcv.cur \in Nat /\ rcv.name \in Names
  BY <1>1 DEF RcvRecord, Names
<1>3. hsize(s) \in Nat /\ rcv.size <= hsize(s)
  BY <1>1, SizeFacts
<1>4. hsize(s) + blocksize < IntWord \div 2
  BY <1>1 DEF SmallFiles
<1>5. rcv.cur <= rcv.size + blocksize
  BY DEF Copying
<1>6. rcv.cur < IntWord \div 2
  <2>1. IntWord \div 2 \in Int
    BY WordFacts
  <2> QED  BY <1>2, <1>3, <1>4, <1>5, <2>1, WordFacts
<1>7. curr(rcv.cur) = rcv.cur
  BY <1>2, <1>6, CurrSmall
<1>8. file_next_write_buffer <=> rcv.cur <= rcv.size
  BY <1>2, <1>7, WordFacts DEF file_next_write_buffer, Fits
<1> QED  BY <1>1, <1>2, <1>3, <1>4, <1>5, <1>7, <1>8

(* One more fragment.                                                      *)
LEMMA CopyingFragment ==
  ASSUME IInv, SmallFiles, Copying, rcv.pc = "recv", rcv.left > 0, conn[rcv.conn].buf # <<>>,
         NEW m, m = Head(conn[rcv.conn].buf), m.kind = "box", m.len = next_len + 1,
         Opens(m, rcv.seqno),
         rcv' = [rcv EXCEPT !.left = @ - next_len, !.seqno = @ + 1,
                            !.cur = IF file_next_write_buffer THEN @ + blocksize ELSE @],
         disk' = Written(m)
  PROVE  Copying'
<1> DEFINE s == rcv.conn
           h == hsize(s)
           got == h - rcv.left
           old == disk[rcv.name]
           new == disk'[rcv.name]
<1>1. /\ s \in Sender /\ rcv.size = FileSize[s] /\ rcv.name \in Names
      /\ rcv.size \in Nat /\ rcv.left \in Nat /\ rcv.cur \in Nat /\ h \in Nat
      /\ rcv.left <= h /\ rcv.size <= h
      /\ h + blocksize < IntWord \div 2 /\ rcv.cur <= rcv.size + blocksize
      /\ curr(rcv.cur) = rcv.cur
      /\ file_next_write_buffer <=> rcv.cur <= rcv.size
  BY CopyingFacts
<1>2. /\ next_len \in Nat /\ next_len <= blocksize /\ next_len <= rcv.left
      /\ rcv.left < blocksize => next_len = rcv.left
      /\ rcv.left >= blocksize => next_len = blocksize
      /\ m.data \in Seq(Byte) /\ Len(m.data) = next_len
      /\ m.data = file_next_read_buffer(s, got, next_len)
      /\ rcv'.pc = "recv" /\ rcv'.conn = s
      /\ rcv'.size = rcv.size /\ rcv'.name = rcv.name
      /\ rcv'.left = rcv.left - next_len
      /\ rcv'.cur = IF file_next_write_buffer THEN rcv.cur + blocksize ELSE rcv.cur
  BY FragmentRead DEF IInv
<1>3. /\ Len(new) = Len(old)
      /\ \A k \in 1 .. Len(old) :
           new[k] = IF file_next_write_buffer /\ k - rcv.cur \in 1 .. next_len
                    THEN m.data[k - rcv.cur] ELSE old[k]
  <2>1. DiskInv
    BY DEF IInv
  <2>2. /\ Len(Written(m)[rcv.name]) = Len(old)
        /\ \A k \in 1 .. Len(old) :
             Written(m)[rcv.name][k] =
               IF file_next_write_buffer /\ k - curr(rcv.cur) \in 1 .. Len(m.data)
               THEN m.data[k - curr(rcv.cur)] ELSE old[k]
    <3>1. rcv.name \in Names /\ rcv.cur \in Nat /\ m.data \in Seq(Byte)
      BY <1>1, <1>2
    <3> QED  BY <2>1, <3>1, WrittenFacts
  <2>3. curr(rcv.cur) = rcv.cur /\ Len(m.data) = next_len /\ new = Written(m)[rcv.name]
    BY <1>1, <1>2
  <2> HIDE DEF old, new
  <2> QED  BY <2>2, <2>3
<1>4. /\ rcv.cur = got \/ (rcv.size < rcv.cur /\ rcv.cur <= got)
      /\ Len(old) = rcv.size + blocksize
      /\ \A k \in 1 .. Len(old) : old[k] \in {Zero, <<s, k>>}
      /\ \A k \in 1 .. rcv.size : k <= got => old[k] = <<s, k>>
  BY DEF Copying
<1>5. got \in Nat /\ got < IntWord \div 2
  <2> DEFINE w == IntWord \div 2
  <2>1. w \in Int
    BY WordFacts
  <2>2. h \in Nat /\ rcv.left \in Nat /\ rcv.left <= h /\ h + blocksize < w
    BY <1>1
  <2> HIDE DEF w, h
  <2>3. got \in Nat /\ got < w
    BY <2>1, <2>2, WordFacts
  <2> QED  BY <2>3 DEF w
<1>6. \A k \in 1 .. next_len : m.data[k] = IF got + k <= FileSize[s] THEN <<s, got + k>> ELSE Zero
  BY <1>1, <1>2, <1>5, ReadSmall
<1>7. h - rcv'.left = got + next_len
  BY <1>1, <1>2
<1>a. /\ rcv'.pc = "recv" /\ rcv'.conn = s /\ rcv'.size = rcv.size /\ disk'[rcv'.name] = new
      /\ Len(new) = rcv.size + blocksize /\ hsize(rcv'.conn) - rcv'.left = got + next_len
  BY <1>2, <1>3, <1>4, <1>7
<1> HIDE DEF got, h, old, new, s
<1>8. CASE rcv.cur <= rcv.size
  <2>1. rcv.cur = got /\ rcv'.cur = got + blocksize
    BY <1>1, <1>2, <1>4, <1>5, <1>8
  <2>2. ASSUME NEW k \in 1 .. Len(old)
        PROVE  /\ k \in Nat
               /\ k - got \in 1 .. next_len => new[k] = IF k <= FileSize[s] THEN <<s, k>> ELSE Zero
               /\ k - got \notin 1 .. next_len => new[k] = old[k]
    <3>1. k \in Nat /\ got + (k - got) = k
      BY <1>5
    <3>2. new[k] = IF k - got \in 1 .. next_len THEN m.data[k - got] ELSE old[k]
      BY <1>1, <1>3, <1>8, <2>1
    <3> QED  BY <1>6, <3>1, <3>2
  <2>3. \A k \in 1 .. Len(new) : new[k] \in {Zero, <<s, k>>}
    BY <1>3, <1>4, <2>2
  <2>4. ASSUME NEW k \in 1 .. rcv.size, k <= got + next_len PROVE new[k] = <<s, k>>
    <3>1. k \in 1 .. Len(old) /\ k <= FileSize[s]
      BY <1>1, <1>4, WordFacts
    <3>2. CASE k <= got
      <4>1. k - got \notin 1 .. next_len
        BY <1>2, <1>5, <3>2
      <4> QED  BY <1>4, <2>2, <3>1, <3>2, <4>1
    <3>3. CASE ~(k <= got)
      <4>1. k - got \in 1 .. next_len
        BY <1>2, <1>5, <2>4, <3>3
      <4> QED  BY <2>2, <3>1, <4>1
    <3> QED  BY <3>2, <3>3
  <2>5. rcv'.cur <= rcv.size + blocksize
    BY <1>1, <1>8, <2>1, WordFacts
  <2>6. rcv'.left > 0 => rcv'.cur = got + next_len
    <3>1. rcv'.left > 0 => next_len = blocksize
      <4>1. rcv.left \in Nat /\ next_len \in Nat /\ rcv'.left = rcv.left - next_len
        BY <1>1, <1>2
      <4>2. rcv.left < blocksize \/ rcv.left >= blocksize
        BY <4>1, WordFacts
      <4>3. rcv.left < blocksize => rcv'.left = 0
        BY <1>2, <4>1
      <4> QED  BY <1>2, <4>2, <4>3
    <3> QED  BY <2>1, <3>1
  <2> QED  BY <1>a, <2>3, <2>4, <2>5, <2>6 DEF Copying
<1>9. CASE ~(rcv.cur <= rcv.size)
  <2>1. rcv'.cur = rcv.cur /\ rcv.size < rcv.cur /\ rcv.cur <= got
    BY <1>1, <1>2, <1>4, <1>5, <1>9
  <2>2. \A k \in 1 .. Len(old) : new[k] = old[k]
    BY <1>1, <1>3, <1>9
  <2>3. \A k \in 1 .. Len(new) : new[k] \in {Zero, <<s, k>>}
    BY <1>3, <1>4, <2>2
  <2>4. ASSUME NEW k \in 1 .. rcv.size PROVE new[k] = <<s, k>>
    <3>1. k <= got /\ k \in 1 .. Len(old)
      <4>1. rcv.size \in Nat /\ rcv.cur \in Nat /\ Len(old) = rcv.size + blocksize
        BY <1>1, <1>4
      <4>2. got \in Nat /\ rcv.size < rcv.cur /\ rcv.cur <= got
        BY <1>5, <2>1
      <4>3. k \in 1 .. Len(old)
        BY <4>1, WordFacts
      <4> QED  BY <4>1, <4>2, <4>3
    <3> QED  BY <1>4, <2>2, <3>1
  <2>5. rcv'.cur <= rcv.size + blocksize /\ rcv'.cur <= got + next_len
    BY <1>1, <1>2, <1>5, <2>1
  <2>6. rcv'.size < rcv'.cur /\ rcv'.cur <= got + next_len
    BY <1>2, <2>1, <2>5
  <2> QED  BY <1>a, <2>3, <2>4, <2>5, <2>6 DEF Copying
<1> QED  BY <1>8, <1>9

(* What a step can do to the files: nothing; create the one announced, or  *)
(* fail to; write a fragment of the one being received; or finish it.      *)
Untouched ==
  /\ UNCHANGED <<disk, done>>
  /\ rcv' = rcv \/ (rcv'.pc # "recv" /\ (rcv.pc = "recv" \/ rcv.pc = "exited" => rcv'.pc = "exited"))
Created ==
  LET s == rcv.conn
  IN /\ s \in Sender /\ rcv.pc = "field" /\ rcv'.pc = "recv" /\ rcv'.conn = s
     /\ rcv'.name = FileName[s] /\ rcv'.size = FileSize[s] /\ Keys[s] = Peers
     /\ rcv'.cur = 0 /\ rcv'.left = hsize(s)
     /\ disk' = [disk EXCEPT ![FileName[s]] = Blank(FileSize[s])] /\ done' = done
Abandoned ==
  /\ Faults /\ rcv.pc = "field" /\ rcv'.pc = "exited" /\ done' = done
  /\ \E s \in Sender :
       /\ Keys[s] = Peers
       /\ \E content \in NotOpened(FileName[s], FileSize[s]) :
            disk' = [disk EXCEPT ![FileName[s]] = content]
Extended ==
  /\ rcv.pc = "recv" /\ rcv'.pc = "recv" /\ rcv'.conn = rcv.conn /\ rcv'.name = rcv.name
  /\ \A f \in Names \ {rcv.name} : disk'[f] = disk[f]
  /\ done' = done
Finished ==
  /\ rcv.pc = "recv" /\ rcv.left = 0
  /\ disk' = [disk EXCEPT ![rcv.name] = SubSeq(@, 1, rcv.size)] \/ (Faults /\ disk' = disk)
  /\ \/ rcv'.pc = "exited" /\ done' = done
     \/ rcv'.pc = "accept" /\ done' = Append(done, rcv.conn)

LEMMA DiskSteps ==
  ASSUME IInv, [Next]_vars
  PROVE  \/ Untouched \/ Created \/ Abandoned \/ Finished
         \/ Extended /\ (SmallFiles /\ Copying => Copying')
<1>0. SndInv /\ ConnInv /\ BacklogInv /\ RcvInv /\ DiskInv /\ done \in Seq(Sender)
  BY DEF IInv
<1>r. rcv \in RcvRecord
  BY <1>0 DEF RcvInv
<1>1. ASSUME NEW s \in Sender, SenderStep(s) \/ Break(s) \/ Die(s) PROVE Untouched
  <2>1. SenderKeeps
    BY <1>0, <1>1, SenderSteps
  <2> QED  BY <2>1 DEF SenderKeeps, Untouched
<1>2. CASE tcp_listen \/ tcp_accept
  <2>1. UNCHANGED <<disk, done>> /\ rcv.pc \in {"start", "accept"}
    BY <1>2 DEF tcp_listen, tcp_accept
  <2>2. \/ rcv' = [rcv EXCEPT !.pc = "accept"]
        \/ rcv' = [rcv EXCEPT !.pc = "field", !.conn = Head(backlog), !.field = 1]
        \/ rcv' = [rcv EXCEPT !.pc = "exited"]
    BY <1>2 DEF tcp_listen, tcp_accept, Exit
  <2>3. rcv'.pc \in {"accept", "field", "exited"}
    BY <1>r, <2>2 DEF RcvRecord
  <2> QED  BY <2>1, <2>3 DEF Untouched
<1>3. CASE Exit /\ UNCHANGED <<disk, done>>
  <2>1. rcv'.pc = "exited"
    BY <1>0, <1>3, ExitStep
  <2> QED  BY <1>3, <2>1 DEF Untouched
<1>4. CASE recv_field
  <2> DEFINE s == rcv.conn
             f == fields[rcv.field]
             m == Head(conn[s].buf)
  <2>1. done' = done /\ rcv.pc = "field"
    BY <1>4 DEF recv_field
  <2>2. CASE Exit /\ UNCHANGED disk
    BY <1>3, <2>1, <2>2
  <2>3. CASE /\ conn[s].buf # <<>> /\ m.kind = f /\ FieldOk(f, m) /\ rcv' = FieldStored(f, m)
             /\ disk' = IF f = "header" THEN [disk EXCEPT ![m.data.name] = Blank(m.data.size)] ELSE disk
    <3>1. /\ s \in Sender /\ rcv'.conn = s
          /\ f = "header" <=> rcv.field = 5
          /\ rcv.field < 5 => rcv'.pc = "field"
          /\ rcv.field = 5 =>
               /\ rcv'.pc = "recv" /\ rcv'.size = FileSize[s] /\ rcv'.name = FileName[s]
               /\ m.data.size = FileSize[s] /\ m.data.name = FileName[s]
               /\ Keys[s] = Peers /\ rcv'.cur = 0 /\ rcv'.left = hsize(s)
      BY <1>0, <2>1, <2>3, FieldRead
    <3>2. rcv.field \in 1 .. 5
      BY <1>r DEF RcvRecord, fields
    <3> HIDE DEF f, m
    <3>3. CASE rcv.field < 5
      <4>1. rcv'.pc = "field" /\ disk' = disk
        BY <2>3, <3>1, <3>2, <3>3
      <4> QED  BY <2>1, <4>1 DEF Untouched
    <3>4. CASE rcv.field = 5
      <4>1. disk' = [disk EXCEPT ![FileName[s]] = Blank(FileSize[s])]
        BY <2>3, <3>1, <3>4
      <4> QED  BY <2>1, <3>1, <3>4, <4>1 DEF Created
    <3> QED  BY <3>2, <3>3, <3>4
  <2>4. CASE /\ Faults /\ conn[s].buf # <<>> /\ m.kind = f /\ FieldOk(f, m) /\ f = "header" /\ Exit
             /\ \E content \in NotOpened(m.data.name, m.data.size) :
                  disk' = [disk EXCEPT ![m.data.name] = content]
    <3>1. s \in Sender /\ m.data.size = FileSize[s] /\ m.data.name = FileName[s] /\ Keys[s] = Peers
      BY <1>0, <2>1, <2>4, HeaderRead
    <3>2. rcv'.pc = "exited"
      BY <1>0, <2>4, ExitStep
    <3>3. \E content \in NotOpened(FileName[s], FileSize[s]) :
            disk' = [disk EXCEPT ![FileName[s]] = content]
      BY <2>4, <3>1
    <3> QED  BY <2>1, <2>4, <3>1, <3>2, <3>3 DEF Abandoned
  <2> QED  BY <1>4, <2>2, <2>3, <2>4 DEF recv_field, Readable
<1>5. CASE file_recv_loop_2
  <2> DEFINE s == rcv.conn
             m == Head(conn[s].buf)
  <2>1. done' = done /\ rcv.pc = "recv" /\ rcv.left > 0
    BY <1>5 DEF file_recv_loop_2
  <2>2. CASE Exit /\ UNCHANGED disk
    BY <1>3, <2>1, <2>2
  <2>3. CASE /\ conn[s].buf # <<>> /\ m.kind = "box" /\ m.len = next_len + 1 /\ Opens(m, rcv.seqno)
             /\ rcv' = [rcv EXCEPT !.left = @ - next_len, !.seqno = @ + 1,
                                   !.cur = IF file_next_write_buffer THEN @ + blocksize ELSE @]
             /\ disk' = Written(m)
    <3>1. m.data \in Seq(Byte) /\ rcv'.pc = "recv" /\ rcv'.conn = s /\ rcv'.name = rcv.name
      BY <1>0, <2>1, <2>3, FragmentRead
    <3>2. rcv.name \in Names /\ rcv.cur \in Nat
      BY <1>0, <1>r, <2>1 DEF RcvInv, RcvRecord, Names
    <3>3. \A f \in Names \ {rcv.name} : Written(m)[f] = disk[f]
      BY <1>0, <2>1, <3>1, <3>2, WrittenFacts
    <3>4. Extended
      BY <2>1, <2>3, <3>1, <3>3 DEF Extended
    <3>5. ASSUME SmallFiles, Copying PROVE Copying'
      BY <2>1, <2>3, <3>5, CopyingFragment
    <3> QED  BY <3>4, <3>5
  <2> QED  BY <1>5, <2>2, <2>3 DEF file_recv_loop_2, Readable
<1>6. CASE file_recv_close
  <2>1. rcv.pc = "recv" /\ rcv.left = 0
    BY <1>6 DEF file_recv_close
  <2>2. disk' = [disk EXCEPT ![rcv.name] = SubSeq(@, 1, rcv.size)] \/ (Faults /\ disk' = disk)
    BY <1>6 DEF file_recv_close, ftruncate
  <2>3. CASE Exit /\ done' = done
    <3>1. rcv'.pc = "exited"
      BY <1>0, <2>3, ExitStep
    <3> QED  BY <2>1, <2>2, <2>3, <3>1 DEF Finished
  <2>4. CASE rcv' = [rcv EXCEPT !.pc = "accept", !.conn = NoSender] /\ done' = Append(done, rcv.conn)
    <3>1. rcv'.pc = "accept"
      BY <1>r, <2>4 DEF RcvRecord
    <3> QED  BY <2>1, <2>2, <2>4, <3>1 DEF Finished
  <2> QED  BY <1>6, <2>3, <2>4 DEF file_recv_close
<1>7. CASE UNCHANGED vars
  BY <1>7 DEF vars, Untouched
<1> QED  BY <1>1, <1>2, <1>4, <1>5, <1>6, <1>7 DEF Next, ReceiverStep

LEMMA CopyingInductive == SmallFiles => (Spec => []Copying)
<1> SUFFICES ASSUME SmallFiles PROVE Spec => []Copying
  OBVIOUS
<1>1. Init => Copying
  BY DEF Init, Copying
<1>2. ASSUME IInv, Copying, [Next]_vars PROVE Copying'
  <2>1. CASE Untouched
    BY <1>2, <2>1 DEF Untouched, Copying
  <2>2. CASE Created
    <3> DEFINE s == rcv.conn
    <3>1. /\ s \in Sender /\ rcv'.pc = "recv" /\ rcv'.conn = s
          /\ rcv'.name = FileName[s] /\ rcv'.size = FileSize[s]
          /\ rcv'.cur = 0 /\ rcv'.left = hsize(s)
          /\ disk' = [disk EXCEPT ![FileName[s]] = Blank(FileSize[s])]
      BY <2>2 DEF Created
    <3>2. FileSize[s] \in Nat /\ hsize(s) \in Nat /\ FileName[s] \in Names /\ DOMAIN disk = Names
      BY <1>2, <3>1, SizeFacts DEF Names, IInv, DiskInv
    <3>3. disk'[rcv'.name] = Blank(FileSize[s])
      BY <3>1, <3>2
    <3>4. /\ Len(Blank(FileSize[s])) = FileSize[s] + blocksize
          /\ \A k \in 1 .. FileSize[s] + blocksize : Blank(FileSize[s])[k] = Zero
      BY <3>2, BlankFacts
    <3>5. hsize(s) - rcv'.left = 0 /\ \A k \in 1 .. FileSize[s] : ~(k <= 0)
      BY <3>1, <3>2
    <3>6. rcv'.cur <= FileSize[s] + blocksize
      BY <3>1, <3>2, WordFacts
    <3> HIDE DEF s
    <3> QED  BY <3>1, <3>3, <3>4, <3>5, <3>6 DEF Copying
  <2>3. CASE Finished \/ Abandoned
    BY <2>3 DEF Finished, Abandoned, Copying
  <2> QED  BY <1>2, <2>1, <2>2, <2>3, DiskSteps
<1> QED  BY <1>1, <1>2, Inductive, PTL DEF Spec

(* ftruncate keeps the beginning of the file.                              *)
LEMMA TruncateFacts ==
  ASSUME IInv, rcv.pc = "recv"
  PROVE  LET t == SubSeq(disk[rcv.name], 1, rcv.size)
         IN /\ t \in Seq(Byte) /\ Len(t) = rcv.size /\ rcv.size \in Nat
            /\ rcv.size <= Len(disk[rcv.name]) /\ Len(disk[rcv.name]) \in Nat
            /\ \A k \in 1 .. rcv.size : t[k] = disk[rcv.name][k]
<1>1. disk[rcv.name] \in Seq(Byte) /\ Len(disk[rcv.name]) = rcv.size + blocksize
  BY DEF IInv, DiskInv
<1>2. rcv.size \in Nat /\ Len(disk[rcv.name]) \in Nat
  BY <1>1, LenProperties DEF IInv, RcvInv, RcvRecord
<1>3. rcv.size <= Len(disk[rcv.name])
  BY <1>1, <1>2, WordFacts
<1>4. \A k \in 1 .. rcv.size : disk[rcv.name][k] \in Byte
  BY <1>1, <1>2, <1>3, ElementOfSeq
<1> DEFINE q == disk[rcv.name]
           n == rcv.size
           u == SubSeq(q, 1, n)
<1>5. n \in Nat /\ \A k \in 1 .. n : q[k] \in Byte
  BY <1>2, <1>4
<1> HIDE DEF q, n
<1>6. u \in Seq(Byte) /\ Len(u) = n
  BY <1>5, SubSeqProperties
<1>7. ASSUME NEW k \in 1 .. n PROVE u[k] = q[k]
  <2>1. k \in 1 .. n - 1 + 1 /\ 1 + k - 1 = k
    BY <1>5
  <2> QED  BY <1>5, <2>1, SubSeqProperties
<1> QED  BY <1>2, <1>3, <1>6, <1>7 DEF q, n

(* A file of the disk is a partial copy.                                   *)
CopyOf(f, s) ==
  /\ FileName[s] = f /\ Keys[s] = Peers
  /\ \A k \in DOMAIN disk[f] : disk[f][k] \in {Zero, <<s, k>>}

(* At any time, with any faults: each byte of each file on the disk is     *)
(* still blank or is the right byte, and all come from one sender that     *)
(* used the keys the receiver was started with, provided the files are not *)
(* too large for their offsets.                                            *)
THEOREM TubePartialCopy == SmallFiles => (Spec => []PartialCopy)
<1> SUFFICES ASSUME SmallFiles PROVE Spec => []PartialCopy
  OBVIOUS
<1>1. Init => PartialCopy
  BY DEF Init, PartialCopy
<1>2. ASSUME IInv, IInv', Copying, Copying', PartialCopy, [Next]_vars PROVE PartialCopy'
  <2> SUFFICES ASSUME NEW f \in Names, disk'[f] # NoFile PROVE \E s \in Sender : CopyOf(f, s)'
    BY <1>2 DEF PartialCopy, CopyOf, Peers, IInv, DiskInv
  <2>n. DOMAIN disk = Names
    BY <1>2 DEF IInv, DiskInv
  <2>0. CASE disk'[f] = disk[f]
    BY <1>2, <2>n, <2>0 DEF PartialCopy, CopyOf, Peers
  <2>1. CASE Untouched
    BY <2>0, <2>1 DEF Untouched
  <2>2. CASE Created
    <3> DEFINE s == rcv.conn
    <3>1. /\ s \in Sender /\ Keys[s] = Peers
          /\ disk' = [disk EXCEPT ![FileName[s]] = Blank(FileSize[s])]
      BY <2>2 DEF Created
    <3>2. CASE f = FileName[s]
      <4>1. disk'[f] = Blank(FileSize[s])
        BY <2>n, <3>1, <3>2
      <4>2. \A k \in DOMAIN disk'[f] : disk'[f][k] = Zero
        BY <4>1 DEF Blank
      <4> QED  BY <3>1, <3>2, <4>2 DEF CopyOf
    <3>3. CASE f # FileName[s]
      <4>1. disk'[f] = disk[f]
        BY <2>n, <3>1, <3>3
      <4> QED  BY <2>0, <4>1
    <3> QED  BY <3>2, <3>3
  <2>3. CASE Extended
    <3>1. rcv'.pc = "recv" /\ rcv'.name = rcv.name
      BY <2>3 DEF Extended
    <3>2. CASE f = rcv.name
      <4>1. /\ rcv'.conn \in Sender /\ rcv'.name = FileName[rcv'.conn] /\ Keys[rcv'.conn] = Peers
            /\ disk'[f] \in Seq(Byte)
        BY <1>2, <3>1, <3>2 DEF IInv, RcvInv, DiskInv
      <4>2. \A k \in DOMAIN disk'[f] : disk'[f][k] \in {Zero, <<rcv'.conn, k>>}
        BY <1>2, <3>1, <3>2, <4>1, LenProperties DEF Copying
      <4> QED  BY <3>1, <3>2, <4>1, <4>2 DEF CopyOf
    <3>3. CASE f # rcv.name
      BY <2>0, <2>3, <3>3 DEF Extended
    <3> QED  BY <3>2, <3>3
  <2>4. CASE Finished
    <3>1. rcv.pc = "recv"
      BY <2>4 DEF Finished
    <3>2. CASE f = rcv.name /\ disk' = [disk EXCEPT ![rcv.name] = SubSeq(@, 1, rcv.size)]
      <4> DEFINE t == SubSeq(disk[rcv.name], 1, rcv.size)
      <4>1. /\ t \in Seq(Byte) /\ Len(t) = rcv.size /\ rcv.size \in Nat
            /\ rcv.size <= Len(disk[rcv.name]) /\ Len(disk[rcv.name]) \in Nat
            /\ \A k \in 1 .. rcv.size : t[k] = disk[rcv.name][k]
        BY <1>2, <3>1, TruncateFacts
      <4>2. disk'[f] = t
        BY <2>n, <3>2
      <4>3. /\ rcv.conn \in Sender /\ rcv.name = FileName[rcv.conn] /\ Keys[rcv.conn] = Peers
        BY <1>2, <3>1 DEF IInv, RcvInv
      <4>4. \A k \in 1 .. Len(disk[rcv.name]) : disk[rcv.name][k] \in {Zero, <<rcv.conn, k>>}
        BY <1>2, <3>1 DEF Copying
      <4>5. DOMAIN t = 1 .. rcv.size
        BY <4>1, LenProperties
      <4> HIDE DEF t
      <4>6. \A k \in DOMAIN t : t[k] \in {Zero, <<rcv.conn, k>>}
        BY <4>1, <4>4, <4>5
      <4> QED  BY <3>2, <4>2, <4>3, <4>6 DEF CopyOf
    <3>3. CASE f # rcv.name /\ disk' = [disk EXCEPT ![rcv.name] = SubSeq(@, 1, rcv.size)]
      <4>1. disk'[f] = disk[f]
        BY <2>n, <3>3
      <4> QED  BY <2>0, <4>1
    <3>4. CASE disk' = disk
      BY <2>0, <3>4
    <3> QED  BY <2>4, <3>2, <3>3, <3>4 DEF Finished
  <2>5. CASE Abandoned
    <3>1. PICK s \in Sender : /\ Keys[s] = Peers
                             /\ \E content \in NotOpened(FileName[s], FileSize[s]) :
                                  disk' = [disk EXCEPT ![FileName[s]] = content]
      BY <2>5 DEF Abandoned
    <3>2. PICK content \in {disk[FileName[s]], <<>>, Blank(FileSize[s])} :
            disk' = [disk EXCEPT ![FileName[s]] = content]
      BY <3>1 DEF NotOpened
    <3>3. CASE f = FileName[s] /\ content # disk[f]
      <4>1. disk'[f] = content /\ content \in {<<>>, Blank(FileSize[s])}
        BY <2>n, <3>2, <3>3
      <4>2. FileSize[s] \in Nat /\ FileSize[s] + blocksize \in Nat
        BY SizeFacts, WordFacts
      <4>3. CASE disk'[f] = <<>>
        <5>1. \A k \in DOMAIN disk'[f] : disk'[f][k] = Zero
          BY <4>3
        <5> QED  BY <3>1, <3>3, <5>1 DEF CopyOf
      <4>4. CASE disk'[f] = Blank(FileSize[s])
        <5>1. \A k \in DOMAIN disk'[f] : disk'[f][k] = Zero
          BY <4>4 DEF Blank
        <5> QED  BY <3>1, <3>3, <5>1 DEF CopyOf
      <4> QED  BY <4>1, <4>3, <4>4
    <3>4. CASE f # FileName[s] \/ content = disk[f]
      <4>1. disk'[f] = disk[f]
        BY <2>n, <3>2, <3>4
      <4> QED  BY <2>0, <4>1
    <3> QED  BY <3>3, <3>4
  <2> QED  BY <1>2, <2>1, <2>2, <2>3, <2>4, <2>5, DiskSteps
<1>3. Spec => []Copying
  BY CopyingInductive
<1> QED  BY <1>1, <1>2, <1>3, Inductive, PTL DEF Spec

(* The bytes of a file of which everything was received.                   *)
LEMMA AllReceived ==
  ASSUME IInv, SmallFiles, Copying, rcv.pc = "recv", rcv.left = 0
  PROVE  /\ rcv.conn \in Sender /\ rcv.name = FileName[rcv.conn] /\ rcv.name \in Names
         /\ rcv.size = FileSize[rcv.conn] /\ rcv.size \in Nat
         /\ \A k \in 1 .. rcv.size : disk[rcv.name][k] = <<rcv.conn, k>>
         /\ SubSeq(disk[rcv.name], 1, rcv.size) = File(rcv.conn)
<1> DEFINE s == rcv.conn
           t == SubSeq(disk[rcv.name], 1, rcv.size)
<1>1. /\ s \in Sender /\ rcv.size = FileSize[s] /\ rcv.name = FileName[s] /\ rcv.name \in Names
      /\ rcv.size \in Nat /\ hsize(s) \in Nat /\ rcv.size <= hsize(s)
  BY CopyingFacts
<1>2. ASSUME NEW k \in 1 .. rcv.size PROVE disk[rcv.name][k] = <<s, k>>
  <2>1. k <= hsize(s) - rcv.left
    BY <1>1
  <2> QED  BY <2>1 DEF Copying
<1>3. /\ t \in Seq(Byte) /\ Len(t) = rcv.size
      /\ \A k \in 1 .. rcv.size : t[k] = disk[rcv.name][k]
  BY TruncateFacts
<1>4. DOMAIN t = 1 .. rcv.size /\ t = [k \in DOMAIN t |-> t[k]]
  BY <1>3, LenProperties
<1> HIDE DEF t
<1>5. t = [k \in 1 .. FileSize[s] |-> <<s, k>>]
  BY <1>1, <1>2, <1>3, <1>4
<1> QED  BY <1>1, <1>2, <1>5 DEF File, t

(* A session that completes has put the sender's whole file on the         *)
(* receiver's disk, whatever padding, faults and other sessions there      *)
(* were, provided the files are not too large for their offsets.           *)
THEOREM TubeSessionDelivers == SmallFiles => (Spec => SessionDelivers)
<1> SUFFICES ASSUME SmallFiles PROVE Spec => SessionDelivers
  OBVIOUS
<1> DEFINE Delivers == done' # done => IsPrefix(File(Last(done')), disk'[FileName[Last(done')]])
<1>1. ASSUME IInv, Copying, [Next]_vars PROVE [Delivers]_vars
  <2> SUFFICES ASSUME done' # done PROVE IsPrefix(File(Last(done')), disk'[FileName[Last(done')]])
    OBVIOUS
  <2>1. Finished /\ rcv.pc = "recv" /\ rcv.left = 0 /\ done' = Append(done, rcv.conn)
    BY <1>1, DiskSteps DEF Untouched, Created, Abandoned, Extended, Finished
  <2> DEFINE s == rcv.conn
             t == SubSeq(disk[rcv.name], 1, rcv.size)
  <2>2. /\ s \in Sender /\ rcv.name = FileName[s] /\ rcv.size = FileSize[s] /\ rcv.size \in Nat
        /\ rcv.name \in Names /\ \A k \in 1 .. rcv.size : disk[rcv.name][k] = <<s, k>>
        /\ t = File(s)
    BY <1>1, <2>1, AllReceived
  <2>3. /\ t \in Seq(Byte) /\ Len(t) = rcv.size
        /\ rcv.size <= Len(disk[rcv.name]) /\ Len(disk[rcv.name]) \in Nat
    BY <1>1, <2>1, TruncateFacts
  <2>4. Last(done') = s
    BY <1>1, <2>1, <2>2, AppendProperties, LenProperties DEF IInv, Last
  <2>n. DOMAIN disk = Names
    BY <1>1 DEF IInv, DiskInv
  <2>5. CASE disk'[rcv.name] = t
    BY <2>2, <2>3, <2>4, <2>5 DEF IsPrefix
  <2>6. CASE disk'[rcv.name] = disk[rcv.name]
    <3>1. SubSeq(File(s), 1, Len(File(s))) = t
      <4>1. Len(t) = rcv.size /\ t \in Seq(Byte) /\ Len(t) \in Nat
        BY <2>2, <2>3
      <4> HIDE DEF t
      <4>2. SubSeq(t, 1, Len(t)) = t
        BY <4>1
      <4> QED  BY <2>2, <4>2
    <3>2. Len(File(s)) = rcv.size
      BY <2>2, <2>3
    <3> QED  BY <2>2, <2>3, <2>4, <2>6, <3>1, <3>2 DEF IsPrefix
  <2> QED  BY <2>1, <2>2, <2>n, <2>5, <2>6 DEF Finished
<1>2. Spec => []Copying
  BY CopyingInductive
<1> QED  BY <1>1, <1>2, Inductive, PTL DEF Spec, SessionDelivers

(* Every file but the one being received is the last one sent.             *)
LEMMA OthersInductive == SmallFiles /\ ~Faults => (Spec => []OthersAreLastSent)
<1> SUFFICES ASSUME SmallFiles, ~Faults PROVE Spec => []OthersAreLastSent
  OBVIOUS
<1>1. Init => OthersAreLastSent
  <2> SUFFICES ASSUME Init, NEW f \in Names PROVE LastSent(f)
    BY DEF OthersAreLastSent
  <2>1. disk[f] = NoFile /\ done = <<>> /\ Len(done) = 0
    BY DEF Init, Names
  <2> QED  BY <2>1 DEF LastSent
<1>2. ASSUME IInv, IInv', Copying, OthersAreLastSent, [Next]_vars PROVE OthersAreLastSent'
  <2> SUFFICES ASSUME rcv'.pc # "exited", NEW f \in Names, rcv'.pc = "recv" => f # rcv'.name
               PROVE  LastSent(f)'
    BY DEF OthersAreLastSent
  <2>n. DOMAIN disk = Names
    BY <1>2 DEF IInv, DiskInv
  <2>0. ASSUME LastSent(f), disk'[f] = disk[f], done' = done PROVE LastSent(f)'
    BY <2>0 DEF LastSent, LastOf
  <2>1. CASE Untouched
    <3>1. LastSent(f)
      BY <1>2, <2>1 DEF OthersAreLastSent, Untouched
    <3> QED  BY <2>0, <2>1, <3>1 DEF Untouched
  <2>2. CASE Created
    <3>1. f # FileName[rcv.conn] /\ rcv.pc = "field" /\ done' = done
      BY <2>2 DEF Created
    <3>2. LastSent(f)
      BY <1>2, <3>1 DEF OthersAreLastSent
    <3>3. disk'[f] = disk[f]
      BY <2>2, <2>n, <3>1 DEF Created
    <3> QED  BY <2>0, <3>1, <3>2, <3>3
  <2>3. CASE Extended
    <3>1. LastSent(f) /\ disk'[f] = disk[f] /\ done' = done
      BY <1>2, <2>3 DEF OthersAreLastSent, Extended
    <3> QED  BY <2>0, <3>1
  <2>4. CASE Finished
    <3> DEFINE s == rcv.conn
               n == Len(done)
    <3>1. /\ rcv.pc = "recv" /\ rcv.left = 0 /\ done' = Append(done, s)
          /\ disk' = [disk EXCEPT ![rcv.name] = SubSeq(@, 1, rcv.size)]
      BY <2>4 DEF Finished
    <3>2. /\ s \in Sender /\ rcv.name = FileName[s] /\ rcv.name \in Names
          /\ SubSeq(disk[rcv.name], 1, rcv.size) = File(s)
      BY <1>2, <3>1, AllReceived
    <3>3. /\ n \in Nat /\ Len(done') = n + 1 /\ done'[n + 1] = s
          /\ \A i \in 1 .. n : done'[i] = done[i]
      BY <1>2, <3>1, <3>2, AppendProperties, LenProperties DEF IInv
    <3> HIDE DEF n
    <3>4. \A i \in 1 .. n + 1 : i \in 1 .. n \/ i = n + 1
      BY <3>3
    <3>5. CASE f = rcv.name
      <4>1. disk'[f] = File(s)
        BY <2>n, <3>1, <3>2, <3>5
      <4>2. PICK p \in Nat : p = n + 1
        BY <3>3
      <4>3. Len(done') = p /\ done'[p] = s /\ p \in 1 .. Len(done')
        BY <3>3, <4>2
      <4>4. \A j \in p + 1 .. p : FALSE
        OBVIOUS
      <4>5. LastOf(f, p)'
        BY <3>2, <3>5, <4>3, <4>4 DEF LastOf
      <4> QED  BY <4>1, <4>3, <4>5 DEF LastSent
    <3>6. CASE f # rcv.name
      <4>1. LastSent(f)
        BY <1>2, <3>1, <3>6 DEF OthersAreLastSent
      <4>2. disk'[f] = disk[f] /\ FileName[s] # f
        BY <2>n, <3>1, <3>2, <3>6
      <4>3. CASE disk[f] = NoFile /\ \A i \in 1 .. n : FileName[done[i]] # f
        <5>1. \A i \in 1 .. Len(done') : FileName[done'[i]] # f
          BY <3>3, <3>4, <4>2, <4>3
        <5> QED  BY <4>2, <4>3, <5>1 DEF LastSent
      <4>4. CASE \E i \in 1 .. n : LastOf(f, i) /\ disk[f] = File(done[i])
        <5>1. PICK i \in 1 .. n : LastOf(f, i) /\ disk[f] = File(done[i])
          BY <4>4
        <5>2. i \in 1 .. Len(done') /\ done'[i] = done[i] /\ i \in Nat
          BY <3>3
        <5>3. ASSUME NEW j \in i + 1 .. Len(done') PROVE FileName[done'[j]] # f
          <6>1. j \in i + 1 .. n \/ j = n + 1
            BY <3>3, <5>2
          <6>2. j \in i + 1 .. n => j \in 1 .. n
            BY <3>3, <5>2
          <6>3. \A k \in i + 1 .. n : FileName[done[k]] # f
            BY <5>1 DEF LastOf, n
          <6>4. CASE j = n + 1
            BY <3>3, <4>2, <6>4
          <6>5. CASE j \in i + 1 .. n
            <7>1. done'[j] = done[j]
              BY <3>3, <6>2, <6>5
            <7> QED  BY <6>3, <6>5, <7>1
          <6> QED  BY <6>1, <6>4, <6>5
        <5>4. LastOf(f, i)'
          BY <5>1, <5>2, <5>3 DEF LastOf
        <5>5. disk'[f] = File(done'[i])
          BY <4>2, <5>1, <5>2
        <5> QED  BY <5>2, <5>4, <5>5 DEF LastSent
      <4> QED  BY <4>1, <4>3, <4>4 DEF LastSent, n
    <3> QED  BY <3>5, <3>6
  <2> QED  BY <1>2, <2>1, <2>2, <2>3, <2>4, DiskSteps DEF Abandoned
<1>3. Spec => []Copying
  BY CopyingInductive
<1> QED  BY <1>1, <1>2, <1>3, Inductive, PTL DEF Spec

(* Between sessions every file is exactly the one the last completed       *)
(* session of that name sent, provided no call fails and the files are not *)
(* too large for their offsets.                                            *)
THEOREM TubeLastSessionWins == SmallFiles /\ ~Faults => (Spec => []LastSessionWins)
<1> SUFFICES ASSUME SmallFiles, ~Faults PROVE Spec => []LastSessionWins
  OBVIOUS
<1>1. IInv /\ OthersAreLastSent => LastSessionWins
  BY DEF OthersAreLastSent, LastSent, LastSessionWins, FilesAreLastSent, IInv, DiskInv
<1>2. Spec => []OthersAreLastSent
  BY OthersInductive
<1> QED  BY <1>1, <1>2, Inductive, PTL
-----------------------------------------------------------------------------
(* Without faults a session is not cut short: what a connection holds is   *)
(* what its sender has written and the receiver has not read.              *)

(* With the padding to whole blocks, or with none: the rest the receiver   *)
(* expects, of the size announced, is the rest the sender sends.           *)
AllHidesFit == \A s \in Sender : FileSize[s] < MaxFileSize => HideFits(s)

Waiting(s) == \E i \in 1 .. Len(backlog) : backlog[i] = s
Serving(s) == rcv.pc \in {"field", "recv"} /\ rcv.conn = s

(* Messages of its session, five fields and then boxes, that a sender has  *)
(* written and the receiver has read.                                      *)
WrittenBy(s) == IF Len(sealed[s]) = 0 THEN snd[s].field - 1 ELSE 4 + Len(sealed[s])
ReadFrom(s) ==
  IF Serving(s) THEN IF rcv.pc = "field" THEN rcv.field - 1 ELSE 4 + rcv.seqno ELSE 0

(* m is message number j of the session.                                   *)
InOrder(s, j, m) ==
  j > 5 => /\ m.kind = "box" /\ m.seqno = j - 5
           /\ m.len = (IF j - 5 <= fragments(s) THEN blocksize ELSE hrem(s)) + 1

Streaming(s) ==
  LET q == conn[s].buf
  IN /\ conn[s].state \in {"open", "closed"} /\ snd[s].ok = TRUE
     /\ snd[s].pc \notin {"start", "connect", "dead"}
     /\ Len(q) = WrittenBy(s) - ReadFrom(s)
     /\ \A k \in 1 .. Len(q) : InOrder(s, ReadFrom(s) + k, q[k])
     /\ conn[s].state = "closed" => Len(sealed[s]) = Total(s)

(* Connected and not yet served to the end.                                *)
Pending(s) == Waiting(s) \/ Serving(s)

StreamInv ==
  \A s \in Sender :
    /\ Pending(s) => Streaming(s)
    /\ ~(Waiting(s) /\ Serving(s))
    /\ snd[s].pc \in {"start", "connect"} => conn[s].buf = <<>> /\ snd[s].ok = TRUE

(* Bytes in a connection: at least those of its first message.             *)
LEMMA AvailableFirst ==
  ASSUME NEW c, IsSeq(c.buf), Len(c.buf) >= 1, \A k \in 1 .. Len(c.buf) : c.buf[k].len \in Nat
  PROVE  Available(c) >= c.buf[1].len /\ Available(c) \in Nat
<1> DEFINE q == c.buf
           n == Len(q)
           F == [p \in Nat \X Nat |-> IF p[2] \in 1 .. n THEN p[1] + q[p[2]].len ELSE p[1]]
           Eq(f) == f = [k \in 0 .. n |-> IF k = 0 THEN 0 ELSE f[k - 1] + q[k].len]
           f == CHOOSE g : Eq(g)
           I == {k \in Nat : k <= n => f[k] \in Nat /\ (k >= 1 => f[k] >= q[1].len)}
<1>1. Available(c) = f[n]
  BY DEF Available
<1>2. n \in Nat /\ n >= 1 /\ \A k \in 1 .. n : q[k].len \in Nat
  BY SeqIs
<1>3. F \in [Nat \X Nat -> Nat]
  <2> HIDE DEF q, n
  <2> QED  BY <1>2
<1>4. PICK g : Recursive(g, Nat, 0, F, n)
  <2> HIDE DEF F
  <2> QED  BY <1>2, <1>3, RecursionExists
<1>5. Eq(g)
  <2>1. g = [k \in 0 .. n |-> g[k]] /\ g[0] = 0
    BY <1>4 DEF Recursive
  <2>2. ASSUME NEW k \in 0 .. n, k # 0 PROVE g[k] = g[k - 1] + q[k].len
    <3> DEFINE j == k - 1
    <3>1. k \in 1 .. n /\ k \in Nat /\ j \in 0 .. n
      BY <1>2, <2>2
    <3>2. g[j] \in Nat
      BY <1>4, <3>1 DEF Recursive
    <3>3. g[k] = F[<<g[j], k>>]
      BY <1>4, <3>1 DEF Recursive
    <3> HIDE DEF j, q, n
    <3>4. F[<<g[j], k>>] = g[j] + q[k].len
      BY <3>1, <3>2
    <3> HIDE DEF F
    <3> QED  BY <3>3, <3>4 DEF j
  <2> HIDE DEF q, n, F
  <2> QED  BY <2>1, <2>2
<1>6. Eq(f)
  <2> HIDE DEF Eq
  <2> QED  BY <1>5
<1>7. f[0] = 0 /\ \A k \in 1 .. n : f[k] = f[k - 1] + q[k].len
  <2> HIDE DEF f, q, n
  <2>1. 0 \in 0 .. n /\ \A k \in 1 .. n : k \in 0 .. n /\ k # 0
    BY <1>2
  <2> QED  BY <1>6, <2>1
<1> HIDE DEF f, q, n, F, Eq
<1>8. 0 \in I
  BY <1>7
<1>9. ASSUME NEW k \in Nat, k \in I PROVE k + 1 \in I
  <2> SUFFICES ASSUME k + 1 <= n PROVE f[k + 1] \in Nat /\ f[k + 1] >= q[1].len
    OBVIOUS
  <2>1. k + 1 \in 1 .. n /\ (k + 1) - 1 = k /\ f[k] \in Nat
    BY <1>2, <1>9
  <2>2. f[k + 1] = f[k] + q[k + 1].len /\ q[k + 1].len \in Nat
    BY <1>2, <1>7, <2>1
  <2>3. CASE k = 0
    BY <1>7, <2>2, <2>3
  <2>4. CASE k >= 1
    <3>1. f[k] >= q[1].len /\ q[1].len \in Nat
      BY <1>2, <1>9, <2>4
    <3> QED  BY <2>1, <2>2, <3>1
  <2> QED  BY <2>3, <2>4
<1> HIDE DEF I
<1>10. n \in I
  BY <1>2, <1>8, <1>9, SetInduction
<1>11. f[n] \in Nat /\ f[n] >= q[1].len
  BY <1>2, <1>10 DEF I
<1> QED  BY <1>1, <1>11 DEF q

LEMMA BufFacts ==
  ASSUME ConnInv, NEW s \in Sender
  PROVE  /\ conn[s].buf \in Seq(Messages) /\ IsSeq(conn[s].buf) /\ Len(conn[s].buf) \in Nat
         /\ conn[s] = [state |-> conn[s].state, buf |-> conn[s].buf] /\ conn[s].state \in ConnStates
         /\ \A k \in 1 .. Len(conn[s].buf) : conn[s].buf[k].len \in Nat /\ conn[s].buf[k].sid = s
<1> DEFINE q == conn[s].buf
<1>1. q \in Seq(Messages) /\ \A k \in 1 .. Len(q) : q[k].sid = s
  BY DEF ConnInv
<1>2. conn[s] = [state |-> conn[s].state, buf |-> conn[s].buf] /\ conn[s].state \in ConnStates
  BY DEF ConnInv
<1>3. ASSUME NEW m \in Messages PROVE m.len \in Nat
  <2>1. \A x \in Whole : \E t \in Sender : x \in Sent(t)
    BY DEF Whole
  <2>2. CASE m \in Whole
    BY <2>1, <2>2, SentFacts
  <2>3. ASSUME NEW x \in Whole, NEW r \in Nat, m = Short(x, r) PROVE m.len \in Nat
    <3>1. PICK t \in Sender : x \in Sent(t)
      BY <2>1
    <3>2. x = [kind |-> x.kind, len |-> x.len, sid |-> x.sid, seqno |-> x.seqno, data |-> x.data]
      BY <3>1, SentFacts
    <3>3. m.len = r
      BY <2>3, <3>2 DEF Short
    <3> QED  BY <3>3
  <2> QED  BY <2>2, <2>3 DEF Messages
<1> HIDE DEF q
<1>4. IsSeq(q) /\ Len(q) \in Nat /\ \A k \in 1 .. Len(q) : q[k].len \in Nat
  <2>1. \A k \in 1 .. Len(q) : q[k] \in Messages
    BY <1>1, ElementOfSeq
  <2> QED  BY <1>1, <1>3, <2>1, LenProperties DEF IsSeq
<1> QED  BY <1>1, <1>2, <1>4 DEF q

(* Nothing of a session changes: it goes on.                               *)
LEMMA SameStream ==
  ASSUME NEW t, Streaming(t), conn'[t] = conn[t], snd'[t] = snd[t], sealed'[t] = sealed[t],
         ReadFrom(t)' = ReadFrom(t)
  PROVE  Streaming(t)'
<1>1. WrittenBy(t)' = WrittenBy(t)
  BY DEF WrittenBy
<1> QED  BY <1>1 DEF Streaming

(* A sender's step: only its own session has to be looked at.              *)
LEMMA SenderStream ==
  ASSUME StreamInv, NEW s \in Sender, rcv' = rcv, backlog' = backlog,
         \A t \in Sender \ {s} : conn'[t] = conn[t] /\ snd'[t] = snd[t] /\ sealed'[t] = sealed[t],
         Pending(s) => Streaming(s)',
         snd'[s].pc \in {"start", "connect"} => conn'[s].buf = <<>> /\ snd'[s].ok = TRUE
  PROVE  StreamInv'
<1> SUFFICES ASSUME NEW t \in Sender
             PROVE  /\ Pending(t)' => Streaming(t)'
                    /\ ~(Waiting(t)' /\ Serving(t)')
                    /\ snd'[t].pc \in {"start", "connect"} => conn'[t].buf = <<>> /\ snd'[t].ok = TRUE
  BY DEF StreamInv
<1>1. Waiting(t)' = Waiting(t) /\ Serving(t)' = Serving(t)
  BY DEF Waiting, Serving
<1>2. Pending(t)' = Pending(t) /\ ReadFrom(t)' = ReadFrom(t)
  BY <1>1 DEF Pending, ReadFrom
<1>3. CASE t = s
  BY <1>1, <1>2, <1>3 DEF StreamInv
<1>4. CASE t # s
  <2>1. conn'[t] = conn[t] /\ snd'[t] = snd[t] /\ sealed'[t] = sealed[t]
    BY <1>4
  <2>2. Pending(t)' => Streaming(t)'
    BY <1>2, <2>1, SameStream DEF StreamInv
  <2> QED  BY <1>1, <2>1, <2>2 DEF StreamInv
<1> QED  BY <1>3, <1>4

(* A write touches no other connection.                                    *)
LEMMA WriteOthers ==
  ASSUME ConnInv, NEW s \in Sender, NEW m, NEW ok, tcp_write_all(s, m, ok)
  PROVE  \A t \in Sender \ {s} : conn'[t] = conn[t]
<1>1. PICK r : write(s, m, r)
  BY DEF tcp_write_all
<1> QED  BY <1>1 DEF write, ConnInv

(* Without faults a write to a connection whose session goes on succeeds.  *)
LEMMA WriteSucceeds ==
  ASSUME ConnInv, ~Faults, NEW s \in Sender, Streaming(s), NEW m, m.len \in Nat,
         NEW ok \in BOOLEAN, tcp_write_all(s, m, ok)
  PROVE  ok = TRUE /\ conn[s].state = "open" /\ conn'[s] = [state |-> "open", buf |-> Append(conn[s].buf, m)]
<1>1. PICK r \in -1 .. m.len : write(s, m, r) /\ ok = (r = -1 \/ r >= m.len)
  BY DEF tcp_write_all
<1>2. conn[s].state \in {"open", "closed"}
  BY DEF Streaming
<1>3. conn[s].state = "open" /\ r = m.len /\ conn' = [conn EXCEPT ![s].buf = Append(@, m)]
  BY <1>1, <1>2 DEF write
<1>4. ok = TRUE
  <2>1. r >= m.len
    BY <1>3
  <2> QED  BY <1>1, <2>1, Zenon
<1>5. conn \in [Sender -> [state : ConnStates, buf : Seq(Messages)]]
  BY DEF ConnInv
<1>6. conn'[s] = [conn[s] EXCEPT !.buf = Append(@, m)]
  BY <1>3, <1>5
<1>7. conn[s] = [state |-> "open", buf |-> conn[s].buf]
  BY <1>3, BufFacts
<1> QED  BY <1>3, <1>4, <1>6, <1>7

(* The next message is written.                                            *)
LEMMA AppendStream ==
  ASSUME ConnInv, NEW s \in Sender, Streaming(s), rcv' = rcv, NEW m, NEW w \in Nat,
         w = WrittenBy(s), WrittenBy(s)' = w + 1, ReadFrom(s) \in Nat, InOrder(s, w + 1, m),
         conn'[s] = [state |-> "open", buf |-> Append(conn[s].buf, m)],
         snd'[s].ok = TRUE, snd'[s].pc \notin {"start", "connect", "dead"}
  PROVE  Streaming(s)'
<1> DEFINE q == conn[s].buf
           r == ReadFrom(s)
           n == Len(q)
<1>1. IsSeq(q) /\ n \in Nat
  BY BufFacts
<1>2. /\ Len(Append(q, m)) = n + 1 /\ Append(q, m)[n + 1] = m
      /\ \A k \in 1 .. n : Append(q, m)[k] = q[k]
  <2> HIDE DEF q
  <2> QED  BY <1>1, SeqAppend
<1>3. n = w - r /\ \A k \in 1 .. n : InOrder(s, r + k, q[k])
  BY DEF Streaming
<1>4. ReadFrom(s)' = r
  BY DEF ReadFrom, Serving
<1> HIDE DEF q, r, n
<1>5. r \in Nat /\ r + (n + 1) = w + 1 /\ n + 1 = (w + 1) - r
  BY <1>1, <1>3 DEF r
<1>6. ASSUME NEW k \in 1 .. n + 1 PROVE InOrder(s, r + k, Append(q, m)[k])
  <2>1. k \in 1 .. n \/ k = n + 1
    BY <1>1
  <2>2. CASE k \in 1 .. n
    BY <1>2, <1>3, <2>2
  <2>3. CASE k = n + 1
    BY <1>2, <1>5, <2>3
  <2> QED  BY <2>1, <2>2, <2>3
<1>7. conn'[s].buf = Append(q, m) /\ conn'[s].state = "open"
  BY DEF q
<1>8. ASSUME NEW k \in 1 .. Len(conn'[s].buf) PROVE InOrder(s, ReadFrom(s)' + k, conn'[s].buf[k])
  BY <1>2, <1>4, <1>6, <1>7
<1>9. Len(conn'[s].buf) = WrittenBy(s)' - ReadFrom(s)'
  BY <1>2, <1>4, <1>5, <1>7
<1>10. \A k \in 1 .. Len(conn'[s].buf) : InOrder(s, ReadFrom(s) + k, conn[s].buf[k])'
  BY <1>8 DEF InOrder
<1> QED  BY <1>7, <1>9, <1>10 DEF Streaming

LEMMA ReadNat ==
  ASSUME RcvInv, NEW s \in Sender
  PROVE  ReadFrom(s) \in Nat
<1>1. rcv \in RcvRecord /\ Len(fields) = 5
  BY DEF RcvInv, fields
<1>2. rcv.field \in 1 .. 5 /\ rcv.seqno \in Nat
  BY <1>1 DEF RcvRecord
<1> QED  BY <1>2 DEF ReadFrom, Serving

(* file_flush_all: the next field.                                         *)
LEMMA FlushStream ==
  ASSUME IInv, StreamInv, ~Faults, NEW s \in Sender, file_flush_all(s)
  PROVE  StreamInv'
<1>0. SndInv /\ ConnInv /\ RcvInv
  BY DEF IInv
<1> DEFINE i == snd[s].field
           m == FieldOf(s, fields[i])
<1>1. /\ snd \in [Sender -> SndRecord] /\ SenderAt(s) /\ snd[s].pc = "field"
      /\ i \in 1 .. 5 /\ Len(sealed[s]) = 0 /\ sealed \in [Sender -> Seq(Nat)] /\ Len(fields) = 5
  BY <1>0, SndFacts DEF file_flush_all, SenderAt, fields
<1>2. m \in Sent(s) /\ (fields[i] = "header" <=> i = 5)
  BY <1>1 DEF Sent, FieldNames, fields
<1>3. PICK ok \in BOOLEAN :
        /\ tcp_write_all(s, m, ok)
        /\ snd' = IF ok THEN [snd EXCEPT ![s].pc = AfterField(i), ![s].field = i + 1,
                                         ![s].seqno = 1, ![s].left = fragments(s)]
                  ELSE [snd EXCEPT ![s].pc = "close", ![s].ok = FALSE]
  BY DEF file_flush_all
<1>4. UNCHANGED <<backlog, rcv>>
  BY DEF file_flush_all
<1>5. /\ Len(sealed'[s]) = IF i = 5 THEN 1 ELSE 0
      /\ \A t \in Sender \ {s} : sealed'[t] = sealed[t]
  <2>1. CASE i = 5
    <3>1. sealed' = [sealed EXCEPT ![s] = Append(@, 0)]
      BY <1>2, <2>1 DEF file_flush_all
    <3>2. sealed'[s] = Append(sealed[s], 0) /\ sealed[s] \in Seq(Nat)
      BY <1>1, <3>1
    <3> QED  BY <1>1, <2>1, <3>1, <3>2, AppendProperties
  <2>2. CASE i # 5
    <3>1. sealed' = sealed
      BY <1>2, <2>2 DEF file_flush_all
    <3> QED  BY <1>1, <2>2, <3>1
  <2> QED  BY <2>1, <2>2
<1>6. \A t \in Sender \ {s} : conn'[t] = conn[t] /\ snd'[t] = snd[t]
  BY <1>0, <1>1, <1>3, WriteOthers
<1>7. snd'[s].pc \notin {"start", "connect"}
  BY <1>1, <1>3 DEF AfterField, SndRecord
<1>8. ASSUME Pending(s) PROVE Streaming(s)'
  <2>1. Streaming(s) /\ m.len \in Nat
    BY <1>2, <1>8, SentFacts DEF StreamInv
  <2>2. ok = TRUE /\ conn'[s] = [state |-> "open", buf |-> Append(conn[s].buf, m)]
    <3> HIDE DEF m
    <3> QED  BY <1>0, <1>3, <2>1, WriteSucceeds
  <2>3. snd' = [snd EXCEPT ![s].pc = AfterField(i), ![s].field = i + 1,
                           ![s].seqno = 1, ![s].left = fragments(s)]
    BY <1>3, <2>2
  <2>4. AfterField(i) \in {"loop", "field"}
    BY DEF AfterField
  <2>5. snd'[s].ok = TRUE /\ snd'[s].pc \notin {"start", "connect", "dead"} /\ snd'[s].field = i + 1
    <3>1. /\ snd'[s].pc = AfterField(i) /\ snd'[s].field = i + 1 /\ snd'[s].ok = snd[s].ok
      BY <1>1, <2>3 DEF SndRecord
    <3> QED  BY <2>1, <2>4, <3>1 DEF Streaming
  <2> DEFINE w == i - 1
  <2>6. w \in Nat /\ w = WrittenBy(s) /\ WrittenBy(s)' = w + 1 /\ InOrder(s, w + 1, m)
    BY <1>1, <1>5, <2>5 DEF WrittenBy, InOrder
  <2> HIDE DEF w, m
  <2>7. ReadFrom(s) \in Nat /\ rcv' = rcv
    BY <1>0, <1>4, ReadNat
  <2> QED  BY <1>0, <2>1, <2>2, <2>5, <2>6, <2>7, AppendStream
<1> HIDE DEF m
<1> QED  BY <1>4, <1>5, <1>6, <1>7, <1>8, SenderStream

(* file_send_loop: the next fragment.                                      *)
LEMMA LoopStream ==
  ASSUME IInv, StreamInv, ~Faults, NEW s \in Sender, file_send_loop(s)
  PROVE  StreamInv'
<1>0. SndInv /\ ConnInv /\ RcvInv
  BY DEF IInv
<1> DEFINE n == snd[s].seqno
           text == file_next_read_buffer(s, snd[s].cur, blocksize)
           m == Box(s, n, text)
<1>1. /\ snd \in [Sender -> SndRecord] /\ SenderAt(s) /\ snd[s].pc = "loop"
      /\ n \in Nat /\ snd[s].left \in Nat /\ snd[s].left > 0 /\ Len(sealed[s]) = n
      /\ n + snd[s].left = fragments(s) + 1 /\ snd[s].cur \in Nat
      /\ sealed \in [Sender -> Seq(Nat)]
  BY <1>0, SndFacts DEF file_send_loop, SenderAt
<1>2. fragments(s) \in Nat /\ snd[s].left <= fragments(s) /\ n >= 1 /\ n <= fragments(s)
  BY <1>1, SizeFacts DEF SenderAt
<1>3. m.kind = "box" /\ m.seqno = n /\ m.len = blocksize + 1
  <2>1. Len(text) = blocksize
    BY <1>1, ReadBufferType, WordFacts
  <2> HIDE DEF text
  <2> QED  BY <2>1 DEF Box
<1>4. PICK ok \in BOOLEAN :
        /\ tcp_write_all(s, m, ok)
        /\ snd' = [snd EXCEPT ![s].cur = @ + blocksize, ![s].seqno = @ + 1, ![s].left = @ - 1,
                              ![s].pc = IF ok THEN "loop" ELSE "close", ![s].ok = ok]
  BY DEF file_send_loop
<1>5. UNCHANGED <<backlog, rcv>> /\ sealed' = [sealed EXCEPT ![s] = Append(@, n)]
  BY DEF file_send_loop
<1>6. Len(sealed'[s]) = n + 1 /\ \A t \in Sender \ {s} : sealed'[t] = sealed[t]
  <2>1. sealed'[s] = Append(sealed[s], n) /\ sealed[s] \in Seq(Nat)
    BY <1>1, <1>5
  <2> QED  BY <1>1, <1>5, <2>1, AppendProperties
<1>7. \A t \in Sender \ {s} : conn'[t] = conn[t] /\ snd'[t] = snd[t]
  <2> HIDE DEF m
  <2> QED  BY <1>0, <1>1, <1>4, WriteOthers
<1>8. snd'[s].pc = (IF ok THEN "loop" ELSE "close") /\ snd'[s].ok = ok
  BY <1>1, <1>4 DEF SndRecord
<1> HIDE DEF m, text
<1>9. ASSUME Pending(s) PROVE Streaming(s)'
  <2>1. Streaming(s) /\ m.len \in Nat
    BY <1>3, <1>9, WordFacts DEF StreamInv
  <2>2. ok = TRUE /\ conn'[s] = [state |-> "open", buf |-> Append(conn[s].buf, m)]
    BY <1>0, <1>4, <2>1, WriteSucceeds
  <2>3. snd'[s].ok = TRUE /\ snd'[s].pc \notin {"start", "connect", "dead"}
    BY <1>8, <2>2
  <2> DEFINE w == 4 + n
  <2>4. w \in Nat /\ w = WrittenBy(s) /\ WrittenBy(s)' = w + 1
    BY <1>1, <1>2, <1>6 DEF WrittenBy
  <2>5. InOrder(s, w + 1, m)
    <3>1. (w + 1) - 5 = n
      BY <1>1
    <3> HIDE DEF w
    <3> QED  BY <1>2, <1>3, <3>1 DEF InOrder
  <2> HIDE DEF w
  <2>6. ReadFrom(s) \in Nat /\ rcv' = rcv
    BY <1>0, <1>5, ReadNat
  <2> QED  BY <1>0, <2>1, <2>2, <2>3, <2>4, <2>5, <2>6, AppendStream
<1>10. snd'[s].pc \notin {"start", "connect"}
  BY <1>8
<1> QED  BY <1>5, <1>6, <1>7, <1>9, <1>10, SenderStream

(* file_send_fragments: the rest of the file.                              *)
LEMMA LastStream ==
  ASSUME IInv, StreamInv, ~Faults, NEW s \in Sender, file_send_last(s)
  PROVE  StreamInv'
<1>0. SndInv /\ ConnInv /\ RcvInv
  BY DEF IInv
<1>1. /\ snd \in [Sender -> SndRecord] /\ SenderAt(s) /\ snd[s].pc = "loop"
      /\ snd[s].left = 0 /\ Len(sealed[s]) = fragments(s) + 1 /\ snd[s].cur \in Nat
      /\ fragments(s) \in Nat /\ hrem(s) \in Nat /\ sealed \in [Sender -> Seq(Nat)]
      /\ UNCHANGED <<backlog, rcv>>
  BY <1>0, SndFacts, SizeFacts DEF file_send_last, SenderAt
<1>2. CASE hrem(s) > 0
  <2> DEFINE n == fragments(s) + 1
             text == file_next_read_buffer(s, snd[s].cur, hrem(s))
             m == Box(s, n, text)
  <2>1. n \in Nat /\ last_seqno(s) = n
    BY <1>1 DEF last_seqno
  <2>2. m.kind = "box" /\ m.seqno = n /\ m.len = hrem(s) + 1
    <3>1. Len(text) = hrem(s)
      BY <1>1, ReadBufferType
    <3> HIDE DEF text, n
    <3> QED  BY <3>1 DEF Box
  <2>3. PICK ok \in BOOLEAN :
          /\ tcp_write_all(s, m, ok)
          /\ snd' = [snd EXCEPT ![s].cur = @ + hrem(s), ![s].pc = "close", ![s].ok = ok]
    BY <1>2, <2>1 DEF file_send_last
  <2>4. sealed' = [sealed EXCEPT ![s] = Append(@, n)]
    BY <1>2, <2>1 DEF file_send_last
  <2>5. Len(sealed'[s]) = n + 1 /\ \A t \in Sender \ {s} : sealed'[t] = sealed[t]
    <3>1. sealed'[s] = Append(sealed[s], n) /\ sealed[s] \in Seq(Nat)
      BY <1>1, <2>4
    <3> QED  BY <1>1, <2>1, <2>4, <3>1, AppendProperties
  <2> HIDE DEF text, m
  <2>6. \A t \in Sender \ {s} : conn'[t] = conn[t] /\ snd'[t] = snd[t]
    BY <1>0, <1>1, <2>3, WriteOthers
  <2>7. snd'[s].pc = "close" /\ snd'[s].ok = ok
    BY <1>1, <2>3 DEF SndRecord
  <2>8. ASSUME Pending(s) PROVE Streaming(s)'
    <3>1. Streaming(s) /\ m.len \in Nat
      BY <1>1, <2>2, <2>8 DEF StreamInv
    <3>2. ok = TRUE /\ conn'[s] = [state |-> "open", buf |-> Append(conn[s].buf, m)]
      BY <1>0, <2>3, <3>1, WriteSucceeds
    <3>3. snd'[s].ok = TRUE /\ snd'[s].pc \notin {"start", "connect", "dead"}
      BY <2>7, <3>2
    <3> DEFINE w == 4 + n
    <3>4. w \in Nat /\ w = WrittenBy(s) /\ WrittenBy(s)' = w + 1
      BY <1>1, <2>1, <2>5 DEF WrittenBy
    <3>5. InOrder(s, w + 1, m)
      <4>1. (w + 1) - 5 = n /\ ~(n <= fragments(s))
        BY <1>1, <2>1
      <4> HIDE DEF w, n
      <4> QED  BY <2>2, <4>1 DEF InOrder
    <3> HIDE DEF w, n
    <3>6. ReadFrom(s) \in Nat /\ rcv' = rcv
      BY <1>0, <1>1, ReadNat
    <3> QED  BY <1>0, <3>1, <3>2, <3>3, <3>4, <3>5, <3>6, AppendStream
  <2>9. snd'[s].pc \notin {"start", "connect"}
    BY <2>7
  <2> QED  BY <1>1, <2>5, <2>6, <2>8, <2>9, SenderStream
<1>3. CASE ~(hrem(s) > 0)
  <2>1. snd' = [snd EXCEPT ![s].pc = "close"] /\ conn' = conn /\ sealed' = sealed
    BY <1>3 DEF file_send_last
  <2>2. /\ snd'[s].pc = "close" /\ snd'[s].ok = snd[s].ok /\ snd'[s].field = snd[s].field
        /\ \A t \in Sender \ {s} : snd'[t] = snd[t]
    BY <1>1, <2>1 DEF SndRecord
  <2>3. ASSUME Pending(s) PROVE Streaming(s)'
    <3>1. Streaming(s)
      BY <2>3 DEF StreamInv
    <3>2. WrittenBy(s)' = WrittenBy(s) /\ ReadFrom(s)' = ReadFrom(s)
      BY <1>1, <2>1, <2>2 DEF WrittenBy, ReadFrom, Serving
    <3> QED  BY <2>1, <2>2, <3>1, <3>2 DEF Streaming
  <2> QED  BY <1>1, <2>1, <2>2, <2>3, SenderStream
<1> QED  BY <1>2, <1>3

(* A step that leaves the messages alone.                                  *)
LEMMA QuietStream ==
  ASSUME ConnInv, StreamInv, NEW s \in Sender, rcv' = rcv, backlog' = backlog, sealed' = sealed,
         \A t \in Sender \ {s} : conn'[t] = conn[t] /\ snd'[t] = snd[t],
         conn'[s].buf = conn[s].buf, snd'[s].field = snd[s].field, snd'[s].ok = snd[s].ok,
         Pending(s) => /\ conn'[s].state \in {"open", "closed"}
                       /\ conn'[s].state = "closed" => Len(sealed[s]) = Total(s)
                       /\ snd'[s].pc \notin {"start", "connect", "dead"},
         snd'[s].pc \in {"start", "connect"} => snd[s].pc \in {"start", "connect"}
  PROVE  StreamInv'
<1>1. WrittenBy(s)' = WrittenBy(s) /\ ReadFrom(s)' = ReadFrom(s)
  BY DEF WrittenBy, ReadFrom, Serving
<1>2. ASSUME Pending(s) PROVE Streaming(s)'
  <2>1. Streaming(s)
    BY <1>2 DEF StreamInv
  <2> QED  BY <1>1, <1>2, <2>1 DEF Streaming
<1>3. snd'[s].pc \in {"start", "connect"} => conn'[s].buf = <<>> /\ snd'[s].ok = TRUE
  BY DEF StreamInv
<1> QED  BY <1>2, <1>3, SenderStream

(* A sender that is not connected, or not any more, is nobody's session.   *)
LEMMA NotPending ==
  ASSUME StreamInv, NEW s \in Sender, snd[s].pc \in {"start", "connect"} \/ conn[s].state = "broken"
  PROVE  ~Pending(s)
BY DEF StreamInv, Streaming

LEMMA OtherStream ==
  ASSUME IInv, StreamInv, ~Faults, NEW s \in Sender,
         abort(s) \/ file_open(s) \/ file_send_1(s) \/ SigPipe(s)
  PROVE  StreamInv'
<1>0. SndInv /\ ConnInv /\ snd \in [Sender -> SndRecord] /\ SenderAt(s) /\ sealed' = sealed
  BY SndFacts DEF IInv, abort, file_open, file_send_1, SigPipe
<1>1. rcv' = rcv /\ backlog' = backlog
  BY DEF abort, file_open, file_send_1, SigPipe
<1>2. /\ \A t \in Sender \ {s} : snd'[t] = snd[t]
      /\ snd'[s].field = snd[s].field /\ snd'[s].ok = snd[s].ok
      /\ snd'[s].pc \in {"connect", "returned", "dead"}
      /\ snd'[s].pc = "connect" => snd[s].pc = "start"
  <2>1. ASSUME NEW p \in {"connect", "dead"}, snd' = [snd EXCEPT ![s].pc = p]
        PROVE  /\ \A t \in Sender \ {s} : snd'[t] = snd[t]
               /\ snd'[s].field = snd[s].field /\ snd'[s].ok = snd[s].ok /\ snd'[s].pc = p
    BY <1>0, <2>1 DEF SndRecord
  <2>2. ASSUME NEW r, snd' = [snd EXCEPT ![s] = Returns(s, r)]
        PROVE  /\ \A t \in Sender \ {s} : snd'[t] = snd[t]
               /\ snd'[s].field = snd[s].field /\ snd'[s].ok = snd[s].ok /\ snd'[s].pc = "returned"
    BY <1>0, <2>2 DEF SndRecord, Returns
  <2>3. CASE abort(s) \/ SigPipe(s)
    BY <2>1, <2>3 DEF abort, SigPipe
  <2>4. CASE file_open(s)
    <3>1. snd[s].pc = "start"
      BY <2>4 DEF file_open
    <3> QED  BY <2>1, <2>2, <2>4, <3>1 DEF file_open
  <2>5. CASE file_send_1(s)
    BY <2>2, <2>5 DEF file_send_1
  <2> QED  BY <2>3, <2>4, <2>5
<1>3. snd'[s].pc \in {"start", "connect"} => snd[s].pc \in {"start", "connect"}
  BY <1>2
<1>4. CASE conn' = conn /\ (snd[s].pc \in {"start", "connect"} \/ conn[s].state = "broken")
  <2>1. ~Pending(s)
    BY <1>4, NotPending
  <2> QED  BY <1>0, <1>1, <1>2, <1>3, <1>4, <2>1, QuietStream
<1>5. CASE file_send_1(s)
  <2>1. snd[s].pc = "close" /\ tcp_close(s)
    BY <1>5 DEF file_send_1
  <2>2. conn' = [conn EXCEPT ![s].state = IF @ = "open" THEN "closed" ELSE @]
    BY <2>1 DEF tcp_close
  <2>3. /\ \A t \in Sender \ {s} : conn'[t] = conn[t]
        /\ conn'[s].buf = conn[s].buf
        /\ conn'[s].state = IF conn[s].state = "open" THEN "closed" ELSE conn[s].state
    BY <1>0, <2>2 DEF ConnInv
  <2>4. ASSUME Pending(s)
        PROVE  /\ conn'[s].state \in {"open", "closed"}
               /\ conn'[s].state = "closed" => Len(sealed[s]) = Total(s)
               /\ snd'[s].pc \notin {"start", "connect", "dead"}
    <3>1. conn[s].state \in {"open", "closed"} /\ snd[s].ok = TRUE
      BY <2>4 DEF StreamInv, Streaming
    <3>2. Len(sealed[s]) = Total(s)
      BY <1>0, <2>1, <3>1 DEF SenderAt
    <3>3. snd'[s].pc = "returned"
      <4>1. PICK r : snd' = [snd EXCEPT ![s] = Returns(s, r)]
        BY <1>5 DEF file_send_1
      <4> QED  BY <1>0, <4>1 DEF SndRecord, Returns
    <3> QED  BY <2>3, <3>1, <3>2, <3>3
  <2> QED  BY <1>0, <1>1, <1>2, <1>3, <2>3, <2>4, QuietStream
<1> QED  BY <1>4, <1>5 DEF abort, file_open, SigPipe

(* tcp_connect: a session begins.                                          *)
LEMMA ConnectStream ==
  ASSUME IInv, StreamInv, ~Faults, NEW s \in Sender, tcp_connect(s)
  PROVE  StreamInv'
<1>0. /\ SndInv /\ ConnInv /\ BacklogInv /\ snd \in [Sender -> SndRecord] /\ SenderAt(s)
      /\ snd[s].pc = "connect" /\ sealed' = sealed /\ rcv' = rcv
  BY SndFacts DEF IInv, tcp_connect
<1>1. /\ ~Pending(s) /\ conn[s].buf = <<>> /\ snd[s].ok = TRUE
      /\ Len(sealed[s]) = 0 /\ snd[s].field = 1
  BY <1>0, NotPending DEF StreamInv, SenderAt
<1>2. CASE /\ snd' = [snd EXCEPT ![s].pc = "field"] /\ conn' = [conn EXCEPT ![s].state = "open"]
           /\ backlog' = Append(backlog, s)
  <2>1. /\ \A t \in Sender \ {s} : conn'[t] = conn[t] /\ snd'[t] = snd[t]
        /\ conn'[s].buf = <<>> /\ conn'[s].state = "open"
        /\ snd'[s].pc = "field" /\ snd'[s].ok = TRUE /\ snd'[s].field = 1
    BY <1>0, <1>1, <1>2 DEF ConnInv, SndRecord
  <2>2. /\ Len(backlog) \in Nat /\ Len(backlog') = Len(backlog) + 1
        /\ \A i \in 1 .. Len(backlog) : backlog'[i] = backlog[i]
        /\ backlog'[Len(backlog) + 1] = s
    BY <1>0, <1>2, AppendProperties, LenProperties DEF BacklogInv
  <2>3. ASSUME NEW t \in Sender, t # s PROVE Waiting(t)' => Waiting(t)
    <3> SUFFICES ASSUME NEW i \in 1 .. Len(backlog'), backlog'[i] = t PROVE Waiting(t)
      BY DEF Waiting
    <3>1. i \in 1 .. Len(backlog)
      BY <2>2, <2>3
    <3> QED  BY <2>2, <3>1 DEF Waiting
  <2>4. \A t \in Sender : Serving(t)' = Serving(t) /\ ReadFrom(t)' = ReadFrom(t)
    BY <1>0 DEF Serving, ReadFrom
  <2> SUFFICES ASSUME NEW t \in Sender
               PROVE  /\ Pending(t)' => Streaming(t)'
                      /\ ~(Waiting(t)' /\ Serving(t)')
                      /\ snd'[t].pc \in {"start", "connect"} => conn'[t].buf = <<>> /\ snd'[t].ok = TRUE
    BY DEF StreamInv
  <2>5. CASE t = s
    <3>1. ~Serving(s) /\ ReadFrom(s) = 0
      BY <1>1 DEF Pending, ReadFrom
    <3>2. WrittenBy(s)' = 0
      BY <1>0, <1>1, <2>1 DEF WrittenBy
    <3>3. Streaming(s)'
      BY <2>1, <2>4, <3>1, <3>2 DEF Streaming
    <3>4. ~Serving(s)'
      BY <2>4, <3>1
    <3> QED  BY <2>1, <2>5, <3>3, <3>4
  <2>6. CASE t # s
    <3>1. conn'[t] = conn[t] /\ snd'[t] = snd[t] /\ sealed'[t] = sealed[t]
      BY <1>0, <2>1, <2>6
    <3>2. Pending(t)' => Pending(t)
      BY <2>3, <2>4, <2>6 DEF Pending
    <3>3. Pending(t)' => Streaming(t)'
      BY <2>4, <3>1, <3>2, SameStream DEF StreamInv
    <3>4. ~(Waiting(t)' /\ Serving(t)')
      BY <2>3, <2>4, <2>6 DEF StreamInv
    <3> QED  BY <3>1, <3>3, <3>4 DEF StreamInv
  <2> QED  BY <2>5, <2>6
<1>3. CASE snd' = [snd EXCEPT ![s] = Returns(s, "FileError")] /\ UNCHANGED <<conn, backlog>>
  <2>1. /\ \A t \in Sender \ {s} : snd'[t] = snd[t]
        /\ snd'[s].field = snd[s].field /\ snd'[s].ok = snd[s].ok /\ snd'[s].pc = "returned"
    BY <1>0, <1>3 DEF SndRecord, Returns
  <2> QED  BY <1>0, <1>1, <1>3, <2>1, QuietStream
<1> QED  BY <1>2, <1>3 DEF tcp_connect

(* The receiver exits, and nobody is served any more.                      *)
LEMMA ExitStream ==
  ASSUME IInv, StreamInv, Exit, snd' = snd
  PROVE  StreamInv'
<1>1. rcv'.pc = "exited" /\ backlog' = <<>>
  BY ExitStep DEF IInv, Exit
<1>2. \A s \in Sender : conn'[s].buf \in {conn[s].buf, <<>>}
  <2>1. PICK st \in {"shut", "reset"} :
          conn' = [s \in Sender |->
                    CASE conn[s].state = "open" /\ s \in Range(backlog) -> Reset
                      [] conn[s].state = "open" /\ s = rcv.conn -> [state |-> st, buf |-> <<>>]
                      [] OTHER -> conn[s]]
    BY DEF Exit
  <2>2. \A s \in Sender : conn'[s] \in {conn[s], Reset, [state |-> st, buf |-> <<>>]}
    BY <2>1
  <2>3. Reset.buf = <<>> /\ [state |-> st, buf |-> <<>>].buf = <<>>
    BY DEF Reset
  <2> QED  BY <2>2, <2>3
<1>3. Len(backlog') = 0
  BY <1>1
<1>4. \A s \in Sender : ~Waiting(s)' /\ ~Serving(s)'
  BY <1>1, <1>3 DEF Waiting, Serving
<1>5. \A s \in Sender : snd'[s].pc \in {"start", "connect"} => conn'[s].buf = <<>> /\ snd'[s].ok = TRUE
  BY <1>2 DEF StreamInv
<1> QED  BY <1>4, <1>5 DEF StreamInv, Pending

LEMMA ListenStream ==
  ASSUME IInv, StreamInv, ~Faults, tcp_listen
  PROVE  StreamInv'
<1>1. /\ rcv.pc = "start" /\ rcv' = [rcv EXCEPT !.pc = "accept"]
      /\ UNCHANGED <<conn, backlog, snd, sealed>>
  BY DEF tcp_listen
<1>2. rcv'.pc = "accept"
  BY <1>1 DEF IInv, RcvInv, RcvRecord
<1> SUFFICES ASSUME NEW t \in Sender
             PROVE  /\ Pending(t)' => Streaming(t)'
                    /\ ~(Waiting(t)' /\ Serving(t)')
                    /\ snd'[t].pc \in {"start", "connect"} => conn'[t].buf = <<>> /\ snd'[t].ok = TRUE
  BY DEF StreamInv
<1>3. ~Serving(t)' /\ ~Serving(t) /\ Waiting(t)' = Waiting(t)
  BY <1>1, <1>2 DEF Serving, Waiting
<1>4. ReadFrom(t)' = ReadFrom(t) /\ Pending(t)' = Pending(t)
  BY <1>3 DEF ReadFrom, Pending
<1>5. Pending(t)' => Streaming(t)'
  BY <1>1, <1>4, SameStream DEF StreamInv
<1> QED  BY <1>1, <1>3, <1>5 DEF StreamInv

(* tcp_accept: the first of those waiting is served, from the start.       *)
LEMMA AcceptStream ==
  ASSUME IInv, StreamInv, ~Faults, tcp_accept
  PROVE  StreamInv'
<1> DEFINE s == Head(backlog)
<1>1. /\ rcv.pc = "accept" /\ rcv' = [rcv EXCEPT !.pc = "field", !.conn = s, !.field = 1]
      /\ backlog # <<>> /\ backlog' = Tail(backlog) /\ UNCHANGED <<conn, snd, sealed>>
  BY DEF tcp_accept
<1>2. rcv'.pc = "field" /\ rcv'.conn = s /\ rcv'.field = 1
  BY <1>1 DEF IInv, RcvInv, RcvRecord
<1>3. /\ backlog \in Seq(Sender) /\ \A i, j \in 1 .. Len(backlog) : backlog[i] = backlog[j] => i = j
  BY DEF IInv, BacklogInv
<1>4. /\ Len(backlog) \in Nat /\ s = backlog[1] /\ 1 \in 1 .. Len(backlog)
      /\ Len(backlog') = Len(backlog) - 1
      /\ \A i \in 1 .. Len(backlog') : backlog'[i] = backlog[i + 1]
  BY <1>1, <1>3, HeadTailProperties, LenProperties
<1>5. Waiting(s)
  BY <1>4 DEF Waiting
<1> HIDE DEF s
<1>6. ASSUME NEW t, Waiting(t)' PROVE Waiting(t) /\ t # s
  <2>1. PICK i \in 1 .. Len(backlog') : backlog'[i] = t
    BY <1>6 DEF Waiting
  <2> DEFINE k == i + 1
  <2>2. k \in 1 .. Len(backlog) /\ k # 1 /\ backlog[k] = t
    BY <1>4, <2>1
  <2> HIDE DEF k
  <2>3. t # s
    BY <1>3, <1>4, <2>2
  <2> QED  BY <2>2, <2>3 DEF Waiting
<1> SUFFICES ASSUME NEW t \in Sender
             PROVE  /\ Pending(t)' => Streaming(t)'
                    /\ ~(Waiting(t)' /\ Serving(t)')
                    /\ snd'[t].pc \in {"start", "connect"} => conn'[t].buf = <<>> /\ snd'[t].ok = TRUE
  BY DEF StreamInv
<1>7. Serving(t)' => t = s
  BY <1>2 DEF Serving
<1>8. ReadFrom(t)' = 0 /\ ReadFrom(t) = 0
  BY <1>1, <1>2 DEF Serving, ReadFrom
<1>9. Pending(t)' => Pending(t)
  BY <1>5, <1>6, <1>7 DEF Pending
<1>10. Pending(t)' => Streaming(t)'
  BY <1>1, <1>8, <1>9, SameStream DEF StreamInv
<1> QED  BY <1>1, <1>6, <1>7, <1>10 DEF StreamInv

(* A message is read.                                                      *)
LEMMA ConsumeStream ==
  ASSUME IInv, StreamInv, NEW s \in Sender, Serving(s), conn[s].buf # <<>>, Consume(s),
         UNCHANGED <<snd, sealed, backlog>>, rcv'.pc \in {"field", "recv"}, rcv'.conn = s,
         ReadFrom(s)' = ReadFrom(s) + 1
  PROVE  StreamInv'
<1> DEFINE q == conn[s].buf
           n == Len(q)
           r == ReadFrom(s)
           w == WrittenBy(s)
<1>0. ConnInv /\ SndInv /\ RcvInv
  BY DEF IInv
<1>1. conn' = [conn EXCEPT ![s].buf = Tail(@)] /\ conn \in [Sender -> [state : ConnStates, buf : Seq(Messages)]]
  BY <1>0 DEF Consume, ConnInv
<1>2. /\ conn'[s].buf = Tail(q) /\ conn'[s].state = conn[s].state
      /\ \A t \in Sender \ {s} : conn'[t] = conn[t]
  BY <1>1
<1>3. /\ n \in Nat /\ n >= 1 /\ Len(Tail(q)) = n - 1
      /\ \A k \in 1 .. n - 1 : Tail(q)[k] = q[k + 1]
  BY <1>0, BufFacts, HeadTailProperties, LenProperties
<1>4. /\ Streaming(s) /\ ~Waiting(s)
  BY DEF StreamInv, Pending
<1>5. r \in Nat /\ w \in Int /\ n = w - r /\ \A k \in 1 .. n : InOrder(s, r + k, q[k])
  <2>1. Len(sealed[s]) \in Nat /\ snd[s].field \in Nat
    BY <1>0, SndFacts
  <2> QED  BY <1>0, <1>4, <2>1, ReadNat DEF Streaming, WrittenBy
<1>6. WrittenBy(s)' = w
  BY DEF WrittenBy
<1> HIDE DEF q, n, r, w
<1>7. ASSUME NEW k \in 1 .. n - 1 PROVE InOrder(s, (r + 1) + k, Tail(q)[k])
  <2> DEFINE j == k + 1
  <2>1. j \in 1 .. n /\ r + j = (r + 1) + k /\ Tail(q)[k] = q[j]
    BY <1>3, <1>5
  <2> HIDE DEF j
  <2>2. InOrder(s, r + j, q[j])
    BY <1>5, <2>1
  <2> QED  BY <2>1, <2>2
<1>8. ReadFrom(s)' = r + 1 /\ Len(conn'[s].buf) = n - 1 /\ n - 1 = w - (r + 1)
  BY <1>2, <1>3, <1>5 DEF r
<1>9. \A k \in 1 .. Len(conn'[s].buf) : InOrder(s, ReadFrom(s) + k, conn[s].buf[k])'
  <2>1. \A k \in 1 .. n - 1 : InOrder(s, ReadFrom(s)' + k, conn'[s].buf[k])
    BY <1>2, <1>7, <1>8
  <2> QED  BY <1>8, <2>1 DEF InOrder
<1>10. Len(conn'[s].buf) = WrittenBy(s)' - ReadFrom(s)'
  BY <1>6, <1>8
<1>11. Streaming(s)'
  BY <1>2, <1>4, <1>9, <1>10 DEF Streaming
<1> SUFFICES ASSUME NEW t \in Sender
             PROVE  /\ Pending(t)' => Streaming(t)'
                    /\ ~(Waiting(t)' /\ Serving(t)')
                    /\ snd'[t].pc \in {"start", "connect"} => conn'[t].buf = <<>> /\ snd'[t].ok = TRUE
  BY DEF StreamInv
<1>12. Waiting(t)' = Waiting(t) /\ Serving(t)' = Serving(t)
  BY DEF Waiting, Serving
<1>13. CASE t = s
  <2>1. snd[s].pc \notin {"start", "connect"}
    BY <1>4 DEF Streaming
  <2> QED  BY <1>4, <1>11, <1>12, <1>13, <2>1
<1>14. CASE t # s
  <2>1. ~Serving(t) /\ ~Serving(t)'
    BY <1>14 DEF Serving
  <2>2. ReadFrom(t)' = ReadFrom(t) /\ Pending(t)' = Pending(t) /\ conn'[t] = conn[t]
    BY <1>2, <1>12, <1>14, <2>1 DEF ReadFrom, Pending
  <2>3. Pending(t)' => Streaming(t)'
    BY <2>2, SameStream DEF StreamInv
  <2> QED  BY <2>1, <2>2, <2>3 DEF StreamInv
<1> QED  BY <1>13, <1>14

LEMMA FieldStream ==
  ASSUME IInv, StreamInv, ~Faults, recv_field
  PROVE  StreamInv'
<1> DEFINE s == rcv.conn
           f == fields[rcv.field]
           m == Head(conn[s].buf)
<1>0. RcvInv /\ ConnInv /\ rcv.pc = "field" /\ UNCHANGED <<snd, sealed>>
  BY DEF IInv, recv_field
<1>1. CASE Exit
  BY <1>0, <1>1, ExitStream
<1>2. CASE /\ conn[s].buf # <<>> /\ m.kind = f /\ FieldOk(f, m) /\ rcv' = FieldStored(f, m)
           /\ Consume(s) /\ UNCHANGED backlog
  <2>1. /\ s \in Sender /\ rcv'.conn = s
        /\ rcv.field < 5 => rcv'.pc = "field" /\ rcv'.field = rcv.field + 1
        /\ rcv.field = 5 => rcv'.pc = "recv" /\ rcv'.seqno = 1
    BY <1>0, <1>2, FieldRead
  <2>2. rcv.field \in 1 .. 5
    BY <1>0 DEF RcvInv, RcvRecord, fields
  <2>3. rcv'.pc \in {"field", "recv"}
    BY <2>1, <2>2
  <2>p. PICK t \in Sender : t = rcv.conn
    BY <2>1
  <2>4. Serving(t)
    BY <1>0, <2>p DEF Serving
  <2>5. ReadFrom(t)' = ReadFrom(t) + 1
    <3>1. ReadFrom(t) = rcv.field - 1
      BY <1>0, <2>4 DEF ReadFrom
    <3>2. Serving(t)'
      BY <2>p, <2>1, <2>3 DEF Serving
    <3>3. ReadFrom(t)' = IF rcv'.pc = "field" THEN rcv'.field - 1 ELSE 4 + rcv'.seqno
      BY <3>2 DEF ReadFrom
    <3> QED  BY <2>1, <2>2, <3>1, <3>3
  <2>6. conn[t].buf # <<>> /\ Consume(t) /\ UNCHANGED <<snd, sealed, backlog>> /\ rcv'.conn = t
    BY <1>0, <1>2, <2>p, <2>1
  <2> QED  BY <2>3, <2>4, <2>5, <2>6, ConsumeStream
<1> QED  BY <1>1, <1>2 DEF recv_field, Readable

LEMMA FragmentStream ==
  ASSUME IInv, StreamInv, ~Faults, file_recv_loop_2
  PROVE  StreamInv'
<1> DEFINE s == rcv.conn
           m == Head(conn[s].buf)
<1>0. RcvInv /\ ConnInv /\ DiskInv /\ rcv.pc = "recv" /\ rcv.left > 0 /\ UNCHANGED <<snd, sealed>>
  BY DEF IInv, file_recv_loop_2
<1>1. CASE Exit
  BY <1>0, <1>1, ExitStream
<1>2. CASE /\ conn[s].buf # <<>> /\ m.kind = "box" /\ m.len = next_len + 1 /\ Opens(m, rcv.seqno)
           /\ rcv' = [rcv EXCEPT !.left = @ - next_len, !.seqno = @ + 1,
                                 !.cur = IF file_next_write_buffer THEN @ + blocksize ELSE @]
           /\ Consume(s) /\ UNCHANGED backlog
  <2>1. s \in Sender /\ rcv'.conn = s /\ rcv'.pc = "recv" /\ rcv'.seqno = rcv.seqno + 1
    BY <1>0, <1>2, FragmentRead
  <2>p. PICK t \in Sender : t = rcv.conn
    BY <2>1
  <2>2. Serving(t) /\ Serving(t)' /\ rcv.seqno \in Nat
    BY <1>0, <2>1, <2>p DEF Serving, RcvInv, RcvRecord
  <2>3. ReadFrom(t)' = ReadFrom(t) + 1
    BY <1>0, <2>1, <2>2 DEF ReadFrom
  <2>4. /\ conn[t].buf # <<>> /\ Consume(t) /\ UNCHANGED <<snd, sealed, backlog>>
        /\ rcv'.pc \in {"field", "recv"} /\ rcv'.conn = t
    BY <1>0, <1>2, <2>1, <2>p
  <2> QED  BY <2>2, <2>3, <2>4, ConsumeStream
<1> QED  BY <1>1, <1>2 DEF file_recv_loop_2, Readable

(* The end of a session: it is no longer served, the others go on.         *)
LEMMA CloseStream ==
  ASSUME IInv, StreamInv, ~Faults, file_recv_close
  PROVE  StreamInv'
<1> DEFINE s == rcv.conn
<1>1. /\ rcv.pc = "recv" /\ UNCHANGED <<snd, sealed, backlog>>
      /\ rcv' = [rcv EXCEPT !.pc = "accept", !.conn = NoSender]
      /\ conn' = [conn EXCEPT ![s] =
                    [state |-> IF @.state = "open" THEN "shut" ELSE @.state, buf |-> <<>>]]
  BY DEF file_recv_close, file_close_result
<1>2. /\ rcv'.pc = "accept" /\ s \in Sender
  BY <1>1 DEF IInv, RcvInv, RcvRecord
<1>3. /\ \A t \in Sender \ {s} : conn'[t] = conn[t]
      /\ conn'[s].buf = <<>>
  BY <1>1, <1>2 DEF IInv, ConnInv
<1>4. Serving(s) /\ ~Waiting(s)
  BY <1>1, <1>2 DEF Serving, StreamInv
<1> HIDE DEF s
<1> SUFFICES ASSUME NEW t \in Sender
             PROVE  /\ Pending(t)' => Streaming(t)'
                    /\ ~(Waiting(t)' /\ Serving(t)')
                    /\ snd'[t].pc \in {"start", "connect"} => conn'[t].buf = <<>> /\ snd'[t].ok = TRUE
  BY DEF StreamInv
<1>5. ~Serving(t)' /\ Waiting(t)' = Waiting(t)
  BY <1>1, <1>2 DEF Serving, Waiting
<1>6. CASE t = s
  BY <1>1, <1>3, <1>4, <1>5, <1>6 DEF Pending, StreamInv
<1>7. CASE t # s
  <2>1. ~Serving(t)
    BY <1>4, <1>7 DEF Serving
  <2>2. ReadFrom(t)' = ReadFrom(t) /\ Pending(t)' = Pending(t)
    BY <1>5, <2>1 DEF ReadFrom, Pending
  <2>3. Pending(t)' => Streaming(t)'
    BY <1>1, <1>3, <1>7, <2>2, SameStream DEF StreamInv
  <2> QED  BY <1>1, <1>3, <1>5, <1>7, <2>3 DEF StreamInv
<1> QED  BY <1>6, <1>7

LEMMA StreamInit == Init => StreamInv
<1> SUFFICES ASSUME Init, NEW s \in Sender
             PROVE  /\ Pending(s) => Streaming(s)
                    /\ ~(Waiting(s) /\ Serving(s))
                    /\ snd[s].pc \in {"start", "connect"} => conn[s].buf = <<>> /\ snd[s].ok = TRUE
  BY DEF StreamInv
<1>1. /\ rcv.pc = "start" /\ backlog = <<>> /\ conn[s].buf = <<>> /\ snd[s].ok = TRUE
  BY DEF Init, Idle
<1>2. ~Waiting(s) /\ ~Serving(s)
  BY <1>1 DEF Waiting, Serving
<1> QED  BY <1>1, <1>2 DEF Pending

LEMMA StreamNext == IInv /\ StreamInv /\ ~Faults /\ [Next]_vars => StreamInv'
<1> SUFFICES ASSUME IInv, StreamInv, ~Faults, [Next]_vars PROVE StreamInv'
  OBVIOUS
<1>1. ASSUME NEW s \in Sender, SenderStep(s) \/ Break(s) \/ Die(s) PROVE StreamInv'
  <2>1. ~Break(s) /\ ~Die(s)
    BY DEF Break, Die
  <2>2. CASE abort(s) \/ file_open(s) \/ file_send_1(s) \/ SigPipe(s)
    BY <2>2, OtherStream
  <2>3. CASE tcp_connect(s)
    BY <2>3, ConnectStream
  <2>4. CASE file_flush_all(s)
    BY <2>4, FlushStream
  <2>5. CASE file_send_loop(s)
    BY <2>5, LoopStream
  <2>6. CASE file_send_last(s)
    BY <2>6, LastStream
  <2> QED  BY <1>1, <2>1, <2>2, <2>3, <2>4, <2>5, <2>6 DEF SenderStep
<1>2. CASE tcp_listen
  BY <1>2, ListenStream
<1>3. CASE tcp_accept
  BY <1>3, AcceptStream
<1>4. CASE recv_field
  BY <1>4, FieldStream
<1>5. CASE file_recv_loop_2
  BY <1>5, FragmentStream
<1>6. CASE file_recv_close
  BY <1>6, CloseStream
<1>7. CASE UNCHANGED vars
  BY <1>7 DEF vars, StreamInv, Pending, Waiting, Serving, Streaming, WrittenBy, ReadFrom, InOrder
<1> QED  BY <1>1, <1>2, <1>3, <1>4, <1>5, <1>6, <1>7 DEF Next, ReceiverStep

(* The next fragment of h bytes sent in blocks of b, with l bytes left.    *)
LEMMA NextFragment ==
  ASSUME NEW h \in Nat, NEW b \in Nat \ {0}, NEW k \in Nat, k >= 1, NEW l \in Nat,
         h = l + (k - 1) * b
  PROVE  /\ l >= b => k <= h \div b
         /\ l < b => h \div b = k - 1 /\ h % b = l
<1> DEFINE i == k - 1
<1>1. i \in Nat /\ i * b \in Nat /\ h = i * b + l
  OBVIOUS
<1>2. ASSUME l < b PROVE h \div b = i /\ h % b = l
  <2> HIDE DEF i
  <2> QED  BY <1>1, <1>2, DivMod
<1>3. ASSUME l >= b PROVE k <= h \div b
  <2> DEFINE q == h \div b
             o == h % b
  <2>1. q \in Nat /\ o \in 0 .. b - 1 /\ h = q * b + o
    OBVIOUS
  <2> HIDE DEF q, o
  <2>2. q * b \in Nat /\ k * b = i * b + b
    BY <2>1
  <2>3. k * b < (q + 1) * b
    <3>1. (q + 1) * b = q * b + b
      BY <2>1
    <3> HIDE DEF i
    <3> QED  BY <1>1, <1>3, <2>1, <2>2, <3>1
  <2>4. CASE k >= q + 1
    <3>1. k * b >= (q + 1) * b
      BY <2>1, <2>4
    <3>2. k * b \in Nat /\ (q + 1) * b \in Nat
      BY <2>1
    <3> QED  BY <2>3, <3>1, <3>2
  <2>5. k <= q
    BY <2>1, <2>4
  <2> QED  BY <2>5 DEF q
<1> QED  BY <1>2, <1>3

(* A session whose header was accepted is received to its end: the         *)
(* fragment expected is the next one of the stream, whole, and it comes.   *)
LEMMA NoBreak ==
  ASSUME IInv, StreamInv, AllHidesFit, file_recv_loop_2
  PROVE  rcv'.pc = "recv"
<1>0. RcvInv /\ ConnInv /\ SndInv /\ DiskInv /\ rcv.pc = "recv" /\ rcv.left > 0 /\ rcv \in RcvRecord
  BY DEF IInv, RcvInv, file_recv_loop_2
<1>p. PICK s \in Sender : s = rcv.conn
  BY <1>0 DEF RcvInv
<1> DEFINE k == rcv.seqno
           l == rcv.left
           q == conn[s].buf
           m == Head(q)
<1>1. /\ k \in Nat /\ k >= 1 /\ l \in Nat /\ l > 0 /\ hsize(s) = l + (k - 1) * blocksize
      /\ rcv.sid = s /\ Keys[s] = Peers /\ FileSize[s] < MaxFileSize
  BY <1>0, <1>p DEF RcvInv, RcvRecord
<1>2. /\ hsize(s) \in Nat /\ fragments(s) \in Nat /\ hrem(s) \in Nat /\ blocksize \in Nat \ {0}
      /\ fragments(s) = hsize(s) \div blocksize
  BY SizeFacts, TubeAssumption DEF fragments
<1>3. /\ l >= blocksize => k <= fragments(s) /\ next_len = blocksize
      /\ l < blocksize => fragments(s) = k - 1 /\ hsize(s) % blocksize = l /\ next_len = l
  <2>1. next_len = IF l >= blocksize THEN blocksize ELSE l
    BY DEF next_len
  <2> HIDE DEF k, l
  <2>2. /\ l >= blocksize => k <= hsize(s) \div blocksize
        /\ l < blocksize => hsize(s) \div blocksize = k - 1 /\ hsize(s) % blocksize = l
    <3> DEFINE h == hsize(s)
    <3>1. h \in Nat /\ h = l + (k - 1) * blocksize /\ k \in Nat /\ k >= 1 /\ l \in Nat
      BY <1>1, <1>2
    <3>2. blocksize \in Nat \ {0}
      BY <1>2
    <3> HIDE DEF h
    <3>3. /\ l >= blocksize => k <= h \div blocksize
          /\ l < blocksize => h \div blocksize = k - 1 /\ h % blocksize = l
      BY ONLY <3>1, <3>2, NextFragment
    <3> QED  BY <3>3 DEF h
  <2> QED  BY <1>1, <1>2, <2>1, <2>2
<1>4. l < blocksize => hrem(s) = l
  <2>1. hsize(s) % blocksize \in {0, hrem(s)}
    BY <1>1 DEF AllHidesFit, HideFits
  <2> HIDE DEF l
  <2> QED  BY <1>1, <1>3, <2>1
<1>5. /\ next_len \in Nat
      /\ next_len = (IF k <= fragments(s) THEN blocksize ELSE hrem(s))
      /\ Total(s) >= k + 1
  <2> HIDE DEF k, l
  <2> QED  BY <1>1, <1>2, <1>3, <1>4 DEF Total
<1>6. Streaming(s) /\ ReadFrom(s) = 4 + k
  BY <1>0, <1>p DEF StreamInv, Pending, Serving, ReadFrom
<1>7. /\ Len(q) \in Nat /\ IsSeq(q) /\ q \in Seq(Messages)
      /\ \A i \in 1 .. Len(q) : q[i].len \in Nat /\ q[i].sid = s
  BY <1>0, BufFacts
<1>8. ASSUME Len(q) >= 1
      PROVE  /\ m = q[1] /\ m.kind = "box" /\ m.len = next_len + 1 /\ m.seqno = k /\ m.sid = s
  <2>1. InOrder(s, (4 + k) + 1, q[1])
    BY <1>6, <1>7, <1>8 DEF Streaming
  <2>2. m = q[1]
    BY <1>7, <1>8, HeadTailProperties
  <2> DEFINE j == (4 + k) + 1
  <2>3. j > 5 /\ j - 5 = k
    BY <1>1
  <2> HIDE DEF j, k, m, q
  <2>4. q[1].kind = "box" /\ q[1].seqno = k
        /\ q[1].len = (IF k <= fragments(s) THEN blocksize ELSE hrem(s)) + 1
    BY <2>1, <2>3 DEF InOrder, j
  <2> QED  BY <1>5, <1>7, <1>8, <2>2, <2>4
<1>9. ASSUME Len(q) >= 1 PROVE Available(conn[s]) >= next_len + 1
  <2>1. Available(conn[s]) >= q[1].len
    BY <1>7, <1>9, AvailableFirst
  <2> QED  BY <1>8, <1>9, <2>1
<1>10. ~EndOfFile(conn[s], next_len + 1)
  <2>1. conn[s].state \in {"open", "closed"}
    BY <1>6 DEF Streaming
  <2>2. ASSUME conn[s].state = "closed" PROVE Len(q) >= 1
    <3>1. Len(sealed[s]) = Total(s) /\ Len(q) = WrittenBy(s) - (4 + k)
      BY <1>6, <2>2 DEF Streaming
    <3>2. Total(s) \in Nat /\ Total(s) # 0
      BY <1>2 DEF Total
    <3>3. WrittenBy(s) = 4 + Total(s)
      BY <3>1, <3>2 DEF WrittenBy
    <3> HIDE DEF k, q
    <3> QED  BY <1>1, <1>5, <3>1, <3>2, <3>3
  <2>3. conn[s].state = "closed" => Available(conn[s]) >= next_len + 1 /\ Available(conn[s]) \in Nat
    BY <1>7, <1>9, <2>2, AvailableFirst
  <2>4. ~(conn[s].state = "closed" /\ Available(conn[s]) < next_len + 1)
    BY <1>5, <2>3
  <2> QED  BY <2>1, <2>4 DEF EndOfFile
<1>11. Readable(conn[s], next_len + 1) => /\ m.kind = "box" /\ m.len = next_len + 1
                                          /\ Opens(m, rcv.seqno)
  <2> SUFFICES ASSUME Readable(conn[s], next_len + 1)
               PROVE  m.kind = "box" /\ m.len = next_len + 1 /\ Opens(m, rcv.seqno)
    OBVIOUS
  <2>1. q # <<>>
    BY DEF Readable
  <2>2. Len(q) >= 1
    BY <1>7, <2>1, EmptySeq
  <2>3. /\ m.kind = "box" /\ m.len = next_len + 1 /\ m.seqno = k /\ m.sid = s
    BY <1>8, <2>2
  <2> HIDE DEF m
  <2> QED  BY <1>1, <2>3 DEF Opens, Peers
<1>12. rcv' = [rcv EXCEPT !.left = @ - next_len, !.seqno = @ + 1,
                          !.cur = IF file_next_write_buffer THEN @ + blocksize ELSE @]
  <2> HIDE DEF q
  <2> QED  BY <1>p, <1>10, <1>11 DEF file_recv_loop_2, q
<1> QED  BY <1>0, <1>12 DEF RcvRecord

LEMMA NoExitWhileReceiving ==
  ASSUME IInv, StreamInv, AllHidesFit, ~Faults, [Next]_vars, rcv.pc = "recv"
  PROVE  rcv'.pc # "exited"
<1>0. SndInv /\ ConnInv /\ BacklogInv /\ rcv \in RcvRecord
  BY DEF IInv, RcvInv
<1>1. ASSUME NEW s \in Sender, SenderStep(s) \/ Break(s) \/ Die(s) PROVE rcv' = rcv
  BY <1>0, <1>1, SenderSteps DEF SenderKeeps
<1>2. ~tcp_listen /\ ~tcp_accept /\ ~recv_field
  BY DEF tcp_listen, tcp_accept, recv_field
<1>3. CASE file_recv_loop_2
  BY <1>3, NoBreak
<1>4. CASE file_recv_close
  <2>1. rcv' = [rcv EXCEPT !.pc = "accept", !.conn = NoSender]
    BY <1>4 DEF file_recv_close, file_close_result
  <2> QED  BY <1>0, <2>1 DEF RcvRecord
<1>5. CASE UNCHANGED vars
  BY <1>5 DEF vars
<1> QED  BY <1>1, <1>2, <1>3, <1>4, <1>5 DEF Next, ReceiverStep

(* The files the receiver leaves behind when it exits.                     *)
Kept == rcv.pc = "exited" => \A f \in Names : LastSent(f)

LEMMA KeptNext ==
  ASSUME IInv, StreamInv, AllHidesFit, ~Faults, OthersAreLastSent, Kept, [Next]_vars
  PROVE  Kept'
<1> SUFFICES ASSUME rcv'.pc = "exited", NEW f \in Names PROVE LastSent(f)'
  BY DEF Kept, Names
<1>1. rcv.pc # "recv"
  BY NoExitWhileReceiving
<1>2. Untouched
  BY <1>1, DiskSteps DEF Created, Abandoned, Extended, Finished
<1>3. LastSent(f)
  BY <1>1 DEF Kept, OthersAreLastSent
<1> QED  BY <1>2, <1>3 DEF Untouched, LastSent, LastOf

(* A session the receiver refuses, or that comes after its exit, leaves    *)
(* the files of the earlier sessions as they were: the receiver has opened *)
(* no file when it refuses a key or a size, and a session whose header it  *)
(* accepted runs to its end.  Provided no call fails, the files are not    *)
(* too large for their offsets, and the padding fits the blocks: the last  *)
(* fragment is cut at the file's size and expected at the padded one.      *)
THEOREM TubeRefusalKeepsFiles ==
  SmallFiles /\ AllHidesFit /\ ~Faults => (Spec => []RefusalKeepsFiles)
<1> SUFFICES ASSUME SmallFiles, AllHidesFit, ~Faults PROVE Spec => []RefusalKeepsFiles
  OBVIOUS
<1>1. Init => Kept
  BY DEF Init, Kept
<1>2. IInv /\ StreamInv /\ OthersAreLastSent /\ Kept /\ [Next]_vars => Kept'
  BY KeptNext
<1>3. IInv /\ OthersAreLastSent /\ Kept => RefusalKeepsFiles
  BY DEF OthersAreLastSent, Kept, LastSent, RefusalKeepsFiles, FilesAreLastSent, IInv, DiskInv
<1>4. Spec => []OthersAreLastSent
  BY OthersInductive
<1>5. IInv /\ StreamInv /\ [Next]_vars => StreamInv'
  BY StreamNext
<1> QED  BY <1>1, <1>2, <1>3, <1>4, <1>5, Inductive, StreamInit, PTL DEF Spec
=============================================================================
