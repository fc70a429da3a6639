-------------------------------- MODULE Tube --------------------------------
(***************************************************************************)
(* PneuTube: `tube send` (Hacl.Tube.Send) transfers one file over TCP to   *)
(* `tube receive` (Hacl.Tube.Receive), which serves connections one after  *)
(* the other.  A session is a stream identifier, the padded size, both     *)
(* public keys, an encrypted header with the real size, and the padded     *)
(* content as encrypted fragments, each under a nonce made of the stream   *)
(* identifier and a sequence number.                                       *)
(*                                                                         *)
(* Several senders run concurrently with the receiver.  A TCP connection   *)
(* is a bounded queue of written messages with their lengths: reading a    *)
(* different length than was written yields bytes of two messages.  The    *)
(* file and socket calls are the C code of c_bindings.                     *)
(***************************************************************************)
EXTENDS Integers, Sequences, SequencesExt

CONSTANTS
  Sender,          \* the runs of `tube send`
  FileSize,        \* size of each one's file
  FileName,        \* its name
  Keys,            \* the public keys each sender uses: its own, the receiver's
  pkA, pkB,        \* the keys the receiver was started with: its peer's, its own
  HideSize,        \* its --hidesize: a number and a unit, "none" when absent
  Kilo,            \* 1024
  UintWord,        \* 2 ^ 32: the hide size is computed as an unsigned int
  blocksize,       \* 256 KB in the code; a power of two
  Word,            \* 2 ^ 64
  MaxFragments,    \* 2 ^ 32 - 1
  MaxFileSize,     \* 2 ^ 32
  IntWord,         \* 2 ^ 32: file offsets are read through an int
  BitAnd(_, _),    \* bitwise and
  Cap,             \* messages a connection buffers before write blocks
  Faults,          \* whether calls fail, connections break, senders die
  NoFile, NoSender

VARIABLES
  snd,      \* each sender's program counter and locals
  conn,     \* each sender's connection: its state and the bytes in flight
  backlog,  \* connections not accepted yet
  rcv,      \* the receiver's program counter and `state`, reused by sessions
  disk,     \* the receiver's files
  done,     \* auxiliary: the sessions file_recv_enc completed
  sealed    \* auxiliary: sequence numbers each session has encrypted under

vars == <<snd, conn, backlog, rcv, disk, done, sealed>>

ASSUME TubeAssumption ==
  /\ blocksize \in Nat \ {0} /\ Cap \in Nat \ {0}
  /\ Faults \in BOOLEAN
  /\ Word \in Nat /\ UintWord \in Nat \ {0} /\ IntWord \in Nat \ {0} /\ Kilo \in Nat
  /\ MaxFileSize \in Nat /\ MaxFileSize + UintWord <= Word
  /\ FileSize \in [Sender -> 0 .. Word - 1]
  /\ \A s \in Sender : HideSize[s].n \in 0 .. UintWord - 1

PowersOfTwo == {2 ^ k : k \in 0 .. 30}

(* What a bitwise and yields: no more than either operand, and under a     *)
(* mask of ones the remainder.                                             *)
ASSUME BitAndAssumption ==
  \A x, y \in 0 .. Word - 1 :
    /\ BitAnd(x, y) \in 0 .. x /\ BitAnd(x, y) <= y
    /\ y + 1 \in PowersOfTwo => BitAnd(x, y) = x % (y + 1)
-----------------------------------------------------------------------------
(* Sizes: the options of tube.c, and file_send *)

(* n * 1024 and so on is an unsigned int before it becomes the 64 bits of  *)
(* roundup; any other letter is refused.                                   *)
Unit == [K |-> Kilo, M |-> Kilo * Kilo, G |-> Kilo * Kilo * Kilo]
OptionOk(s) == HideSize[s].unit \in {"none"} \union DOMAIN Unit
roundup(s) == IF HideSize[s].unit \in DOMAIN Unit
              THEN (HideSize[s].n * Unit[HideSize[s].unit]) % UintWord
              ELSE 0

size_mod_roundup(size, r) == BitAnd(size, (r + Word - 1) % Word)

(* Mutant: sizes that need no padding get some.                            *)
padded_always(size, r) ==
  IF r >= 1 THEN (size + r - size_mod_roundup(size, r)) % Word ELSE size

padded(size, r) ==
  IF r >= 1 /\ size_mod_roundup(size, r) # 0
  THEN (size + r - size_mod_roundup(size, r)) % Word
  ELSE size

hsize(s) == padded(FileSize[s], roundup(s))

fragments(s) == hsize(s) \div blocksize

(* hrem is computed from file_size, not from hsize.                        *)
hrem(s) == FileSize[s] % blocksize

(* File content: byte k of a sender's file, the padding, and the unknown   *)
(* bytes around a mapping.                                                 *)
Zero == <<>>
Outside == <<"outside">>
File(s) == [k \in 1 .. FileSize[s] |-> <<s, k>>]

(* fd.current is 64 bits wide and assigned to an int, which turns negative *)
(* halfway through its range.                                              *)
curr(cur) ==
  LET low == cur % IntWord IN IF low >= IntWord \div 2 THEN low - IntWord ELSE low

(* curr + len <= size, in unsigned 64 bits: a negative sum is a huge one.  *)
Fits(o, len, size) == o + len \in 0 .. size

(* Mutant: the offset is never used.                                       *)
read_from_start(s, cur, len) ==
  [k \in 1 .. len |-> IF k <= FileSize[s] THEN File(s)[k] ELSE Zero]

(* The next len bytes of the file, zeros past its end.  A negative offset  *)
(* gives zeros as well, unless the sum is not negative: then the bytes are *)
(* those before the mapping.                                               *)
file_next_read_buffer(s, cur, len) ==
  LET o == curr(cur)
  IN [k \in 1 .. len |->
        CASE o >= 0 /\ o + k <= FileSize[s]            -> File(s)[o + k]
          [] o < 0 /\ Fits(o, len, FileSize[s])        -> IF o + k < 1 THEN Outside ELSE File(s)[o + k]
          [] OTHER                                     -> Zero]
-----------------------------------------------------------------------------
(* Connections: SocketIO *)

(* Lengths: fixed-size fields count 1, and a box one more than its text.   *)
Field(s, f, v)  == [kind |-> f, len |-> 1, sid |-> s, seqno |-> 0, data |-> v]
Box(s, n, text) == [kind |-> "box", len |-> Len(text) + 1, sid |-> s, seqno |-> n, data |-> text]

Available(c) ==
  LET sum[k \in 0 .. Len(c.buf)] == IF k = 0 THEN 0 ELSE sum[k - 1] + c.buf[k].len
  IN sum[Len(c.buf)]

Reset == [state |-> "reset", buf |-> <<>>]

(* What write returns: it blocks while the buffer is full; what is written *)
(* after the peer's shutdown is dropped; on a reset connection it fails    *)
(* with -1.  Any later write raises SIGPIPE, which kills the sender.       *)
write(s, m, r) ==
  \/ /\ conn[s].state = "open" /\ Len(conn[s].buf) < Cap
     /\ \/ r = m.len /\ conn' = [conn EXCEPT ![s].buf = Append(@, m)]
        \/ /\ Faults /\ r \in 0 .. m.len - 1
           /\ conn' = [conn EXCEPT ![s].buf = Append(@, [m EXCEPT !.kind = "short", !.len = r])]
  \/ /\ conn[s].state = "shut"
     /\ r = m.len /\ conn' = [conn EXCEPT ![s].state = "broken"]
  \/ /\ conn[s].state = "reset"
     /\ r = -1 /\ conn' = [conn EXCEPT ![s].state = "broken"]

(* -1, compared with an unsigned length, is not below it.                  *)
tcp_write_all(s, m, ok) ==
  \E r \in -1 .. m.len : write(s, m, r) /\ ok = (r = -1 \/ r >= m.len)

(* tcp_read_all(conn, buf, n) waits for n bytes, or fails at the end of    *)
(* the stream.                                                             *)
Readable(c, n)  == c.buf # <<>> /\ Available(c) >= n

(* Mutant: read returning 0 is tried again.                                *)
EndOfFile_never(c, n) == c.state \in {"reset", "broken"}

EndOfFile(c, n) == c.state \in {"reset", "broken"} \/ (c.state = "closed" /\ Available(c) < n)

(* shutdown by the sender: the peer still reads what was written.          *)
tcp_close(s) ==
  conn' = [conn EXCEPT ![s].state = IF @ = "open" THEN "closed" ELSE @]
-----------------------------------------------------------------------------
(* The sender *)

fields == <<"sid", "hsbuf", "pkA", "pkB", "header">>

FieldOf(s, f) ==
  CASE f = "sid"    -> Field(s, f, <<>>)
    [] f = "hsbuf"  -> Field(s, f, hsize(s))
    [] f = "pkA"    -> Field(s, f, Keys[s].pkA)
    [] f = "pkB"    -> Field(s, f, Keys[s].pkB)
    [] f = "header" -> Field(s, f, [size |-> FileSize[s], name |-> FileName[s]])

AfterField(i) == IF i = Len(fields) THEN "loop" ELSE "field"

Idle(pc) == [pc |-> pc, field |-> 1, cur |-> 0, left |-> 0, seqno |-> 0,
             ok |-> TRUE, res |-> "none"]

Returns(s, r) == [snd[s] EXCEPT !.pc = "returned", !.res = r]

(* main aborts on a unit it does not know.                                 *)
abort(s) ==
  /\ snd[s].pc = "start" /\ ~OptionOk(s)
  /\ snd' = [snd EXCEPT ![s].pc = "dead"]
  /\ UNCHANGED <<conn, backlog, rcv, disk, done, sealed>>

(* file_send up to tcp_connect: open the file (an empty one cannot be      *)
(* mapped) and bound the number of fragments.                              *)
file_open(s) ==
  /\ snd[s].pc = "start" /\ OptionOk(s)
  /\ \/ /\ FileSize[s] > 0 /\ fragments(s) < MaxFragments
        /\ snd' = [snd EXCEPT ![s].pc = "connect"]
     \/ /\ (FileSize[s] > 0 => fragments(s) >= MaxFragments) \/ Faults
        /\ snd' = [snd EXCEPT ![s] = Returns(s, "FileError")]
  /\ UNCHANGED <<conn, backlog, rcv, disk, done, sealed>>

(* tcp_connect: refused before the receiver listens and after it exited.   *)
tcp_connect(s) ==
  /\ snd[s].pc = "connect"
  /\ \/ /\ rcv.pc \notin {"start", "exited"}
        /\ snd' = [snd EXCEPT ![s].pc = "field"]
        /\ conn' = [conn EXCEPT ![s].state = "open"]
        /\ backlog' = Append(backlog, s)
     \/ /\ rcv.pc \in {"start", "exited"} \/ Faults
        /\ snd' = [snd EXCEPT ![s] = Returns(s, "FileError")]
        /\ UNCHANGED <<conn, backlog>>
  /\ UNCHANGED <<rcv, disk, done, sealed>>

(* file_flush_all: the fields in order; the header is sealed under 0.      *)
file_flush_all(s) ==
  /\ snd[s].pc = "field"
  /\ LET i == snd[s].field
     IN /\ \E ok \in BOOLEAN :
             /\ tcp_write_all(s, FieldOf(s, fields[i]), ok)
             /\ snd' = IF ok
                       THEN [snd EXCEPT ![s].pc = AfterField(i), ![s].field = i + 1,
                                        ![s].seqno = 1, ![s].left = fragments(s)]
                       ELSE [snd EXCEPT ![s].pc = "close", ![s].ok = FALSE]
        /\ sealed' = IF fields[i] = "header"
                     THEN [sealed EXCEPT ![s] = Append(@, 0)] ELSE sealed
  /\ UNCHANGED <<backlog, rcv, disk, done>>

(* Mutant: a write that failed ends the loop, and is forgotten.            *)
file_send_loop_mute(s) ==
  /\ snd[s].pc = "loop" /\ snd[s].left > 0
  /\ \E ok \in BOOLEAN :
       /\ tcp_write_all(s, Box(s, snd[s].seqno, file_next_read_buffer(s, snd[s].cur, blocksize)), ok)
       /\ snd' = [snd EXCEPT ![s].cur = @ + blocksize, ![s].seqno = @ + 1, ![s].left = @ - 1,
                             ![s].pc = IF ok THEN "loop" ELSE "close"]
  /\ sealed' = [sealed EXCEPT ![s] = Append(@, snd[s].seqno)]
  /\ UNCHANGED <<backlog, rcv, disk, done>>

(* Mutant: the recursive call gets the same length.                        *)
file_send_loop_same(s) ==
  /\ snd[s].pc = "loop" /\ snd[s].left > 0
  /\ \E ok \in BOOLEAN :
       /\ tcp_write_all(s, Box(s, snd[s].seqno, file_next_read_buffer(s, snd[s].cur, blocksize)), ok)
       /\ snd' = [snd EXCEPT ![s].cur = @ + blocksize, ![s].seqno = @ + 1,
                             ![s].pc = IF ok THEN "loop" ELSE "close", ![s].ok = ok]
  /\ sealed' = [sealed EXCEPT ![s] = Append(@, snd[s].seqno)]
  /\ UNCHANGED <<backlog, rcv, disk, done>>

(* One iteration of file_send_loop.                                        *)
file_send_loop(s) ==
  /\ snd[s].pc = "loop" /\ snd[s].left > 0
  /\ LET text == file_next_read_buffer(s, snd[s].cur, blocksize)
     IN \E ok \in BOOLEAN :
          /\ tcp_write_all(s, Box(s, snd[s].seqno, text), ok)
          /\ snd' = [snd EXCEPT ![s].cur = @ + blocksize, ![s].seqno = @ + 1, ![s].left = @ - 1,
                                ![s].pc = IF ok THEN "loop" ELSE "close", ![s].ok = ok]
  /\ sealed' = [sealed EXCEPT ![s] = Append(@, snd[s].seqno)]
  /\ UNCHANGED <<backlog, rcv, disk, done>>

(* Mutant: the last full fragment's number.                                *)
last_seqno_again(s) == fragments(s)

(* The sequence number of the last fragment is computed afresh.            *)
last_seqno(s) == fragments(s) + 1

(* file_send_fragments after the loop: the rest of the file, if any.       *)
file_send_last(s) ==
  /\ snd[s].pc = "loop" /\ snd[s].left = 0
  /\ IF hrem(s) > 0
     THEN /\ \E ok \in BOOLEAN :
               /\ tcp_write_all(s, Box(s, last_seqno(s),
                                       file_next_read_buffer(s, snd[s].cur, hrem(s))), ok)
               /\ snd' = [snd EXCEPT ![s].cur = @ + hrem(s), ![s].pc = "close", ![s].ok = ok]
          /\ sealed' = [sealed EXCEPT ![s] = Append(@, last_seqno(s))]
     ELSE /\ snd' = [snd EXCEPT ![s].pc = "close"]
          /\ UNCHANGED <<conn, sealed>>
  /\ UNCHANGED <<backlog, rcv, disk, done>>

(* file_close returns FileOk, 0, on success and FileError, 1, on failure;  *)
(* its callers read that as a Boolean.                                     *)
file_close_result(ok) == ~ok

(* file_send_2's tcp_close, then file_send_1's file_close and result.      *)
file_send_1(s) ==
  /\ snd[s].pc = "close"
  /\ tcp_close(s)
  /\ \E closed \in BOOLEAN :
       /\ closed \/ Faults
       /\ snd' = [snd EXCEPT ![s] = Returns(s, IF snd[s].ok /\ file_close_result(closed)
                                               THEN "FileOk" ELSE "FileError")]
  /\ UNCHANGED <<backlog, rcv, disk, done, sealed>>

SigPipe(s) ==
  /\ snd[s].pc \in {"field", "loop"} /\ conn[s].state = "broken"
  /\ snd[s].pc = "loop" /\ snd[s].left = 0 => hrem(s) > 0
  /\ snd' = [snd EXCEPT ![s].pc = "dead"]
  /\ UNCHANGED <<conn, backlog, rcv, disk, done, sealed>>

SenderStep(s) ==
  \/ abort(s) \/ file_open(s) \/ tcp_connect(s) \/ file_flush_all(s)
  \/ file_send_loop(s) \/ file_send_last(s) \/ file_send_1(s)
  \/ SigPipe(s)
-----------------------------------------------------------------------------
(* The receiver *)

(* An error anywhere ends file_recv_loop and the process.  The kernel      *)
(* resets the connections not accepted, shuts the current one down or, if  *)
(* bytes of it are unread or arriving, resets it; the file being written   *)
(* stays as it is.                                                         *)
Exit ==
  /\ rcv' = [rcv EXCEPT !.pc = "exited"]
  /\ \E st \in {"shut", "reset"} :
       conn' = [s \in Sender |->
                  CASE conn[s].state = "open" /\ s \in Range(backlog) -> Reset
                    [] conn[s].state = "open" /\ s = rcv.conn -> [state |-> st, buf |-> <<>>]
                    [] OTHER -> conn[s]]
  /\ backlog' = <<>>

tcp_listen ==
  /\ rcv.pc = "start"
  /\ \/ rcv' = [rcv EXCEPT !.pc = "accept"] /\ UNCHANGED <<conn, backlog>>
     \/ Faults /\ Exit
  /\ UNCHANGED <<snd, disk, done, sealed>>

(* file_recv_loop: accept the next connection.                             *)
tcp_accept ==
  /\ rcv.pc = "accept" /\ backlog # <<>>
  /\ \/ /\ rcv' = [rcv EXCEPT !.pc = "field", !.conn = Head(backlog), !.field = 1]
        /\ backlog' = Tail(backlog)
        /\ UNCHANGED conn
     \/ Faults /\ Exit
  /\ UNCHANGED <<snd, disk, done, sealed>>

Consume(s) == conn' = [conn EXCEPT ![s].buf = Tail(@)]

(* file_open_write_sequential truncates the file and extends it by a block *)
(* more than its size.                                                     *)
Blank(size) == [k \in 1 .. size + blocksize |-> Zero]

(* What it leaves when it fails: the file as it was (open), an empty one   *)
(* (fstat, after O_TRUNC) or an extended one (mmap).                       *)
NotOpened(name, size) == {disk[name], <<>>, Blank(size)}

(* A box opens under the key of the two endpoints and the nonce it was     *)
(* sealed under.                                                           *)
Opens(m, n) == m.sid = rcv.sid /\ m.seqno = n /\ Keys[m.sid] = [pkA |-> pkA, pkB |-> pkB]

(* Mutant: nothing is checked.                                             *)
FieldOk_any(f, m) == TRUE

(* What each field is checked for and stored as: the keys are compared     *)
(* after both were read; the header must open under sequence number 0 and  *)
(* its sizes be acceptable.                                                *)
FieldOk(f, m) ==
  /\ f = "pkB" => rcv.pk1 = pkA /\ m.data = pkB
  /\ f = "header" => Opens(m, 0) /\ m.data.size < MaxFileSize

FieldStored(f, m) ==
  CASE f = "sid"    -> [rcv EXCEPT !.sid = m.sid, !.field = 2]
    [] f = "hsbuf"  -> [rcv EXCEPT !.left = m.data, !.field = 3]
    [] f = "pkA"    -> [rcv EXCEPT !.pk1 = m.data, !.field = 4]
    [] f = "pkB"    -> [rcv EXCEPT !.field = 5]
    [] f = "header" -> [rcv EXCEPT !.pc = "recv", !.size = m.data.size, !.name = m.data.name,
                                   !.cur = 0, !.seqno = 1]

(* file_recv_loop reads the plain fields, file_recv_enc the header, whose  *)
(* file it opens: a failure there comes after the checks.                  *)
recv_field ==
  /\ rcv.pc = "field"
  /\ LET s == rcv.conn
         f == fields[rcv.field]
         m == Head(conn[s].buf)
         good == m.kind = f /\ FieldOk(f, m)
     IN \/ /\ Readable(conn[s], 1) /\ good
           /\ rcv' = FieldStored(f, m)
           /\ disk' = IF f = "header" THEN [disk EXCEPT ![m.data.name] = Blank(m.data.size)] ELSE disk
           /\ Consume(s) /\ UNCHANGED backlog
        \/ /\ Faults /\ Readable(conn[s], 1) /\ good /\ f = "header"
           /\ \E content \in NotOpened(m.data.name, m.data.size) :
                disk' = [disk EXCEPT ![m.data.name] = content]
           /\ Exit
        \/ /\ (Readable(conn[s], 1) /\ ~good) \/ EndOfFile(conn[s], 1)
           /\ Exit /\ UNCHANGED disk
  /\ UNCHANGED <<snd, done, sealed>>

(* Mutant: the case of less than a block is missing.                       *)
next_len_block == blocksize

(* Length of the next fragment: file_recv_loop_2, and _lt_blocksize.       *)
next_len == IF rcv.left >= blocksize THEN blocksize ELSE rcv.left

(* file_next_write_buffer: a block of the mapped file while one fits after *)
(* the current position, and a scratch buffer after that.                  *)
file_next_write_buffer == Fits(curr(rcv.cur), blocksize, rcv.size + blocksize)

(* Mutant: the buffer returned is the one after the current position.      *)
Written_late(m) ==
  IF file_next_write_buffer
  THEN [disk EXCEPT ![rcv.name] =
          [k \in DOMAIN @ |-> IF k - (rcv.cur + blocksize) \in 1 .. Len(m.data)
                              THEN m.data[k - (rcv.cur + blocksize)] ELSE @[k]]]
  ELSE disk

Written(m) ==
  IF file_next_write_buffer
  THEN [disk EXCEPT ![rcv.name] =
          [k \in DOMAIN @ |-> IF k - curr(rcv.cur) \in 1 .. Len(m.data)
                              THEN m.data[k - curr(rcv.cur)] ELSE @[k]]]
  ELSE disk

file_recv_loop_2 ==
  /\ rcv.pc = "recv" /\ rcv.left > 0
  /\ LET s == rcv.conn
         n == next_len + 1
         m == Head(conn[s].buf)
         good == m.kind = "box" /\ m.len = n /\ Opens(m, rcv.seqno)
     IN \/ /\ Readable(conn[s], n) /\ good
           /\ rcv' = [rcv EXCEPT !.left = @ - next_len, !.seqno = @ + 1,
                                 !.cur = IF file_next_write_buffer THEN @ + blocksize ELSE @]
           /\ disk' = Written(m)
           /\ Consume(s) /\ UNCHANGED backlog
        \/ /\ (Readable(conn[s], n) /\ ~good) \/ EndOfFile(conn[s], n)
           /\ Exit /\ UNCHANGED disk
  /\ UNCHANGED <<snd, done, sealed>>

(* Mutant: the padding stays.                                              *)
ftruncate_none(content, size) == content

ftruncate(content, size) == SubSeq(content, 1, size)

(* file_recv_enc's end: file_close truncates the padding away, ignoring    *)
(* ftruncate's result; false, its success, goes on to tcp_close and to the *)
(* next session.                                                           *)
file_recv_close ==
  /\ rcv.pc = "recv" /\ rcv.left = 0
  /\ \/ disk' = [disk EXCEPT ![rcv.name] = ftruncate(@, rcv.size)]
     \/ Faults /\ UNCHANGED disk
  /\ \E closed \in BOOLEAN :
       /\ closed \/ Faults
       /\ IF file_close_result(closed)
          THEN Exit /\ UNCHANGED done
          ELSE /\ rcv' = [rcv EXCEPT !.pc = "accept", !.conn = NoSender]
               /\ conn' = [conn EXCEPT ![rcv.conn] =
                              [state |-> IF @.state = "open" THEN "shut" ELSE @.state, buf |-> <<>>]]
               /\ done' = Append(done, rcv.conn)
               /\ UNCHANGED backlog
  /\ UNCHANGED <<snd, sealed>>

ReceiverStep == tcp_listen \/ tcp_accept \/ recv_field \/ file_recv_loop_2 \/ file_recv_close
-----------------------------------------------------------------------------
(* The environment *)

(* The network breaks a connection: both ends see an error next.           *)
Break(s) ==
  /\ Faults /\ conn[s].state = "open"
  /\ conn' = [conn EXCEPT ![s] = Reset]
  /\ UNCHANGED <<snd, backlog, rcv, disk, done, sealed>>

(* A sender is killed; the kernel closes its connection.                   *)
Die(s) ==
  /\ Faults /\ snd[s].pc \notin {"start", "returned", "dead"}
  /\ snd' = [snd EXCEPT ![s].pc = "dead"]
  /\ tcp_close(s)
  /\ UNCHANGED <<backlog, rcv, disk, done, sealed>>

Init ==
  /\ snd = [s \in Sender |-> Idle("start")]
  /\ conn = [s \in Sender |-> [state |-> "none", buf |-> <<>>]]
  /\ backlog = <<>>
  /\ rcv = [pc |-> "start", conn |-> NoSender, field |-> 1, sid |-> NoSender, left |-> 0,
            pk1 |-> "none", size |-> 0, name |-> "none", cur |-> 0, seqno |-> 0]
  /\ disk = [f \in {FileName[s] : s \in Sender} |-> NoFile]
  /\ done = <<>>
  /\ sealed = [s \in Sender |-> <<>>]

Next ==
  \/ \E s \in Sender : SenderStep(s) \/ Break(s) \/ Die(s)
  \/ ReceiverStep

Spec == Init /\ [][Next]_vars

(* The operating system runs every process that is not blocked.            *)
FairSpec ==
  Spec /\ WF_vars(ReceiverStep) /\ \A s \in Sender : WF_vars(SenderStep(s))
-----------------------------------------------------------------------------
(* Correctness *)

Byte == {Zero, Outside} \union (Sender \X Nat)

(* Every variable has its type; the receiver never asks for more than a    *)
(* block, and the sender's loop never passes its fragments.                *)
TypeOK ==
  /\ \A s \in Sender :
       /\ snd[s].pc \in {"start", "connect", "field", "loop", "close", "returned", "dead"}
       /\ snd[s].left \in 0 .. fragments(s) /\ snd[s].seqno \in 0 .. fragments(s) + 1
       /\ conn[s].state \in {"none", "open", "closed", "shut", "reset", "broken"}
       /\ Len(conn[s].buf) <= Cap
  /\ rcv.pc \in {"start", "accept", "field", "recv", "exited"}
  /\ rcv.pc \in {"field", "recv"} => rcv.conn \in Sender
  /\ rcv.left \in Nat /\ rcv.field \in 1 .. Len(fields)
  /\ \A f \in DOMAIN disk : disk[f] = NoFile \/ \A k \in DOMAIN disk[f] : disk[f][k] \in Byte
  /\ IsInjective(backlog) /\ Range(backlog) \subseteq Sender

(* file_send_loop's counter and the separately computed number of the last *)
(* fragment: within a session, and so under one stream identifier and key, *)
(* no two boxes are sealed under the same nonce.                           *)
NonceOnce == \A s \in Sender : IsInjective(sealed[s])

(* file_recv_enc: a session that completes has put the sender's whole file *)
(* on the receiver's disk, whatever padding, faults and other sessions     *)
(* there were (padding stays behind it when ftruncate fails unnoticed).    *)
SessionDelivers ==
  [][done' # done =>
       LET s == Last(done') IN IsPrefix(File(s), disk'[FileName[s]])]_vars

(* The i-th completed session is the last one of this file name.           *)
LastOf(f, i) ==
  FileName[done[i]] = f /\ \A j \in i + 1 .. Len(done) : FileName[done[j]] # f

(* Every file is what the last completed session of its name sent.         *)
FilesAreLastSent ==
  \A f \in DOMAIN disk :
    \/ disk[f] = NoFile /\ \A i \in 1 .. Len(done) : FileName[done[i]] # f
    \/ \E i \in 1 .. Len(done) : LastOf(f, i) /\ disk[f] = File(done[i])

(* Between sessions every file is the one the last completed session of    *)
(* that name sent, exactly: O_TRUNC and the final ftruncate leave neither  *)
(* padding nor the end of a longer predecessor.                            *)
LastSessionWins == rcv.pc = "accept" => FilesAreLastSent

(* A session the receiver refuses, for its keys or for the size of its     *)
(* file, leaves the files of the earlier ones as they were, although it    *)
(* ends the receiver.                                                      *)
RefusalKeepsFiles == rcv.pc \in {"accept", "exited"} => FilesAreLastSent

(* With any faults, at any time: each byte of each file on the disk is     *)
(* still blank or is the right byte, and all come from one sender that     *)
(* used the keys the receiver was started with.                            *)
PartialCopy ==
  \A f \in DOMAIN disk : disk[f] # NoFile =>
    \E s \in Sender :
      /\ FileName[s] = f /\ Keys[s] = [pkA |-> pkA, pkB |-> pkB]
      /\ \A k \in DOMAIN disk[f] : disk[f][k] \in {Zero, <<s, k>>}

(* The usage of tube.c: a hide size is any number of kilobytes, megabytes  *)
(* or gigabytes, so a sender that got connected is eventually served,      *)
(* whatever it hides and in whatever order the sessions queue up.  It does *)
(* not hold: HideFits is the condition file_send forgets.                  *)
Served == \A s \in Sender : snd[s].pc = "field" ~> s \in Range(done)

(* The last fragment is as long as the receiver expects it: hrem is        *)
(* computed from the file's size and hsize from the hide size.             *)
HideFits(s) == hsize(s) % blocksize \in {0, hrem(s)}

(* The receiver has the sender's keys, and a place for its file.           *)
Acceptable(s) == Keys[s] = [pkA |-> pkA, pkB |-> pkB] /\ FileSize[s] < MaxFileSize

(* A sender whose hide size fits and that got connected is eventually      *)
(* served, in whatever order the sessions queue up and interleave, unless  *)
(* the receiver has left at a session it must refuse.                      *)
ServedOrRefused ==
  \A s \in {t \in Sender : HideFits(t)} :
    snd[s].pc = "field" ~>
      s \in Range(done) \/ (rcv.pc = "exited" /\ ~Acceptable(rcv.conn))

(* No sender hangs: whatever fails, it returns or is killed.               *)
SendersReturn == \A s \in Sender : <>(snd[s].pc \in {"returned", "dead"})

(* file_send_loop and its recursion pass failures on: a sender that        *)
(* returns FileOk has sealed every fragment of its file, one under each    *)
(* number, and no write of it was cut short.  It does not say that all     *)
(* were sent: -1 from the last write counts as success; nor that the file  *)
(* was closed: FileOk is what file_send_1 returns when file_close fails.   *)
OkMeansAll ==
  \A s \in Sender : snd[s].res = "FileOk" =>
    /\ Range(sealed[s]) = 0 .. IF hrem(s) > 0 THEN fragments(s) + 1 ELSE fragments(s)
    /\ \A k \in DOMAIN conn[s].buf : conn[s].buf[k].kind # "short"

(* file_send's mask, for every size and hide size: the size announced is   *)
(* never below the real one nor further from it than the hide size, and    *)
(* for powers of two it is the next multiple.                              *)
HideRounds ==
  rcv.pc = "start" => \A size \in 0 .. MaxFileSize - 1, r \in 0 .. UintWord - 1 :
    LET h == padded(size, r)
    IN /\ h \in size .. size + r
       /\ r >= 1 /\ r \in PowersOfTwo => h % r = 0 /\ h - size < r
=============================================================================
