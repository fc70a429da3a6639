------------------------------- MODULE Random -------------------------------
(***************************************************************************)
(* Where the library's random bytes come from: the processor's generator   *)
(* (code/trusted/random/c/drng.c, code/trusted/cpuid/c/cpuid.c, built for  *)
(* x86_64, and its callers in Hacl_Random.c) and the operating system      *)
(* (Hacl_Unverified_Random.c).                                             *)
(*                                                                         *)
(* An rdrand may fail at any time; it then writes 0.  A byte of memory is  *)
(* "old", what was there before, "rand", drawn by the call, or "zero".     *)
(***************************************************************************)
EXTENDS Integers, FiniteSets

CONSTANTS
  Threads,         \* threads that ask for the features
  RDRAND_RETRIES,  \* 10 in the code
  Word,            \* the range of unsigned int, 2 ^ 32 in the code
  MemSize,         \* bytes of memory, the destination in the middle of it
  UintRequests,    \* pairs of a number of uints and an address
  ByteRequests     \* pairs of a number of bytes and an address

ASSUME RandomAssumption ==
  /\ RDRAND_RETRIES \in Nat /\ Word \in Nat /\ MemSize \in 1 .. Word
  /\ UintRequests \subseteq Nat \X Nat /\ ByteRequests \subseteq Nat \X Nat
  /\ \A r \in UintRequests : r[2] % 4 = 0 /\ r[2] + 4 * r[1] <= MemSize
  /\ \A r \in ByteRequests : r[2] + r[1] <= MemSize

VARIABLES
  cpu,            \* what cpuid answers: intel, and the bits of the features
  drng_features,  \* the static variable shared by all threads
  det,            \* of each thread: where it is in get_drng_support,
                  \*   the value it read and the value it returned
  mem,            \* the memory around the destination
  job             \* the request under way and its locals

vars == <<cpu, drng_features, det, mem, job>>
detecting == <<cpu, drng_features, det>>
filling == <<mem, job>>

DRNG_NO_SUPPORT == 0
DRNG_HAS_RDRAND == 1
DRNG_HAS_RDSEED == 2
BitOr(v, bit) == IF (v \div bit) % 2 = 1 THEN v ELSE v + bit
Supports(v, bit) == v > 0 /\ (v \div bit) % 2 = 1
-----------------------------------------------------------------------------
(* get_drng_support: the static variable is set to "no support" before the *)
(* features are found, and each |= reads it and then writes it.            *)

Detecting(t, from, to, read) ==
  /\ det[t].pc = from
  /\ det' = [det EXCEPT ![t].pc = to, ![t].read = read]
  /\ UNCHANGED <<cpu, filling>>

(* Mutant: the cached value is not looked at.                              *)
EnterSupport_uncached(t) == Detecting(t, "idle", "clear", 0) /\ UNCHANGED drng_features

EnterSupport(t) ==
  /\ Detecting(t, "idle", IF drng_features = -1 THEN "clear" ELSE "return", 0)
  /\ UNCHANGED drng_features

ClearFeatures(t) ==
  /\ Detecting(t, "clear", IF cpu.intel THEN "rdrand" ELSE "return", 0)
  /\ drng_features' = DRNG_NO_SUPPORT

(* Mutant: the feature is not looked for.                                  *)
ReadFeatures_blind(t, at, write, has, next) ==
  Detecting(t, at, write, drng_features) /\ UNCHANGED drng_features

(* A feature cpuid does not report leaves the variable alone.              *)
ReadFeatures(t, at, write, has, next) ==
  /\ Detecting(t, at, IF has THEN write ELSE next, drng_features)
  /\ UNCHANGED drng_features

WriteFeatures(t, write, bit, next) ==
  /\ Detecting(t, write, next, 0)
  /\ drng_features' = BitOr(det[t].read, bit)

ReturnSupport(t) ==
  /\ det[t].pc = "return"
  /\ det' = [det EXCEPT ![t] = [pc |-> "idle", read |-> 0, ret |-> drng_features]]
  /\ UNCHANGED <<cpu, drng_features, filling>>

get_drng_support(t) ==
  \/ EnterSupport(t) \/ ClearFeatures(t) \/ ReturnSupport(t)
  \/ ReadFeatures(t, "rdrand", "or_rdrand", cpu.rdrand, "rdseed")
  \/ WriteFeatures(t, "or_rdrand", DRNG_HAS_RDRAND, "rdseed")
  \/ ReadFeatures(t, "rdseed", "or_rdseed", cpu.rdseed, "return")
  \/ WriteFeatures(t, "or_rdseed", DRNG_HAS_RDSEED, "return")
-----------------------------------------------------------------------------
(* Requests.  pc names the loop or the draw the request is at, i the words *)
(* filled in the loop, tries the attempts that failed for this word.       *)

Request(api, n, a) ==
  [api |-> api, pc |-> "idle", n |-> n, addr |-> a, lhead |-> 0, blockstart |-> 0,
   lblock |-> 0, ltail |-> 0, count |-> 0, i |-> 0, tries |-> 0, ret |-> 0]

Idle == Request("none", 0, 0)

Running == {"head", "block", "tail", "qword", "residual"}

Return(j, r) == [j EXCEPT !.pc = "done", !.ret = r]

(* The next part of the destination that is not empty.                     *)
EnterTail(j) == IF j.ltail > 0 THEN [j EXCEPT !.pc = "tail"] ELSE Return(j, j.n)
EnterBlock(j) == IF j.i < j.count THEN [j EXCEPT !.pc = "block"] ELSE EnterTail(j)
EnterHead(j) == IF j.lhead > 0 THEN [j EXCEPT !.pc = "head"] ELSE EnterBlock(j)

EnterResidual(j) == IF j.n % 2 = 1 THEN [j EXCEPT !.pc = "residual"] ELSE Return(j, j.n)
EnterQword(j) == IF j.i < j.n \div 2 THEN [j EXCEPT !.pc = "qword"] ELSE EnterResidual(j)

(* The split of a destination into a head up to the first aligned word,    *)
(* blocks and a tail; x & 8 is 0 or 8, and unsigned int wraps.             *)
Split(n, a) ==
  LET aligned == a % 8 = 0
      start   == IF aligned THEN a ELSE a - (a % 8) + 8
      and8    == 8 * ((a \div 8) % 2)
      lblock  == IF aligned THEN n ELSE (n - (8 - and8)) % Word
  IN [api |-> "bytes", pc |-> "idle", n |-> n, addr |-> a, lhead |-> start - a,
      blockstart |-> start, lblock |-> lblock, ltail |-> (n - lblock - (start - a)) % Word,
      count |-> lblock \div 8, i |-> 0, tries |-> 0, ret |-> 0]

Fresh == [a \in 0 .. MemSize - 1 |-> "old"]

rdrand_get_bytes(n, a) ==
  /\ job.pc \in {"idle", "done"}
  /\ job' = EnterHead(Split(n, a)) /\ mem' = Fresh
  /\ UNCHANGED detecting

rdrand_get_n_uints(n, a) ==
  /\ job.pc \in {"idle", "done"}
  /\ job' = EnterQword(Request("uints", n, a)) /\ mem' = Fresh
  /\ UNCHANGED detecting

(* The bytes the draw is for: a word in place, or, of a temporary, as many *)
(* as memcpy copies.                                                       *)
Target(j) ==
  CASE j.pc = "head"     -> j.addr .. j.addr + j.lhead - 1
    [] j.pc = "block"    -> j.blockstart + 8 * j.i .. j.blockstart + 8 * j.i + 7
    [] j.pc = "tail"     -> j.blockstart + j.lblock .. j.blockstart + j.lblock + j.ltail - 1
    [] j.pc = "qword"    -> j.addr + 8 * j.i .. j.addr + 8 * j.i + 7
    [] j.pc = "residual" -> j.addr + 8 * j.i .. j.addr + 8 * j.i + 3

InPlace(j) == j.pc \in {"block", "qword", "residual"}
Write(S, v) == [a \in DOMAIN mem |-> IF a \in S THEN v ELSE mem[a]]

(* A word was drawn: the next one, in the same part or in the next.        *)
Filled(j) ==
  LET k == [j EXCEPT !.i = @ + 1, !.tries = 0]
  IN CASE j.pc = "head"     -> EnterBlock([k EXCEPT !.i = 0])
       [] j.pc = "block"    -> EnterBlock(k)
       [] j.pc = "tail"     -> Return(j, j.n)
       [] j.pc = "qword"    -> EnterQword(k)
       [] j.pc = "residual" -> Return(j, 2 * j.i + 1)

(* Mutant: the word that failed is counted.                                *)
GiveUp_late(j) ==
  Return(j, CASE j.pc = "head"  -> 0
              [] j.pc = "block" -> (j.i + 1) * 8 + j.lhead
              [] j.pc = "tail"  -> j.count * 8 + j.lhead
              [] OTHER          -> 2 * j.i + 1)

(* No word: what was filled before it is returned.                         *)
GiveUp(j) ==
  Return(j, CASE j.pc = "head"  -> 0
              [] j.pc = "block" -> j.i * 8 + j.lhead
              [] j.pc = "tail"  -> j.count * 8 + j.lhead
              [] OTHER          -> 2 * j.i)

(* Mutant: one attempt more.                                               *)
Attempts_more(j) == IF j.pc = "residual" THEN 1 ELSE RDRAND_RETRIES + 2

(* The residual uint is drawn with a single step, every other word with    *)
(* rdrand64_retry, which tries RDRAND_RETRIES + 1 times.                   *)
Attempts(j) == IF j.pc = "residual" THEN 1 ELSE RDRAND_RETRIES + 1

(* Mutant: the count of attempts starts over.                              *)
rdrand_fails_forever ==
  /\ job.pc \in Running
  /\ Target(job) \subseteq DOMAIN mem
  /\ mem' = IF InPlace(job) THEN Write(Target(job), "zero") ELSE mem
  /\ job' = [job EXCEPT !.tries = (@ + 1) % (RDRAND_RETRIES + 1)]
  /\ UNCHANGED detecting

rdrand_fails ==
  /\ job.pc \in Running
  /\ Target(job) \subseteq DOMAIN mem
  /\ mem' = IF InPlace(job) THEN Write(Target(job), "zero") ELSE mem
  /\ job' = IF job.tries + 1 < Attempts(job) THEN [job EXCEPT !.tries = @ + 1] ELSE GiveUp(job)
  /\ UNCHANGED detecting

rdrand_succeeds ==
  /\ job.pc \in Running
  /\ Target(job) \subseteq DOMAIN mem
  /\ mem' = Write(Target(job), "rand")
  /\ job' = Filled(job)
  /\ UNCHANGED detecting

(* The next word is outside the memory modelled: anything may happen, and  *)
(* the model stops.                                                        *)
OutOfBounds ==
  /\ job.pc \in Running
  /\ ~(Target(job) \subseteq DOMAIN mem)
  /\ job' = [job EXCEPT !.pc = "wild"]
  /\ UNCHANGED <<mem, detecting>>

(* random_uint32, random_uint64: a single step into a variable that is 0;  *)
(* its result is not looked at.                                            *)
random_uint(size) ==
  /\ job.pc \in {"idle", "done"}
  /\ \E v \in {"rand", "zero"} :
       mem' = [a \in DOMAIN Fresh |-> IF a < size THEN v ELSE "old"]
  /\ job' = Return(Request("uint", size, 0), size)
  /\ UNCHANGED detecting

(* randombytes: /dev/urandom is opened and read once; unless the read      *)
(* returns every byte the process exits.                                   *)
randombytes(n) ==
  /\ job.pc \in {"idle", "done"}
  /\ \E got \in -1 .. n :
       /\ mem' = [a \in DOMAIN Fresh |-> IF a < got THEN "rand" ELSE "old"]
       /\ job' = IF got = n THEN Return(Request("os", n, 0), n)
                 ELSE [Idle EXCEPT !.pc = "exited"]
  /\ UNCHANGED detecting
-----------------------------------------------------------------------------
Init ==
  /\ cpu \in [intel : BOOLEAN, rdrand : BOOLEAN, rdseed : BOOLEAN]
  /\ drng_features = -1
  /\ det = [t \in Threads |-> [pc |-> "idle", read |-> 0, ret |-> 0]]
  /\ mem = Fresh /\ job = Idle

Draw == rdrand_succeeds \/ rdrand_fails

(* A request and the detection share nothing: each is explored alone.      *)
Next ==
  \/ job.pc = "idle" /\ \E t \in Threads : get_drng_support(t)
  \/ /\ drng_features = -1 /\ \A t \in Threads : det[t].pc = "idle"
     /\ \/ \E r \in ByteRequests : rdrand_get_bytes(r[1], r[2]) \/ randombytes(r[1])
        \/ \E r \in UintRequests : rdrand_get_n_uints(r[1], r[2])
        \/ \E size \in {4, 8} : random_uint(size)
        \/ Draw \/ OutOfBounds

(* A request runs until it returns: the loops block on nothing.            *)
Spec == Init /\ [][Next]_vars /\ WF_vars(job.pc \in Running /\ Next)
-----------------------------------------------------------------------------
(* Correctness *)

TypeOK ==
  /\ drng_features \in -1 .. 3
  /\ \A t \in Threads : det[t].ret \in 0 .. 3
  /\ mem \in [0 .. MemSize - 1 -> {"old", "rand", "zero"}]
  /\ job.pc \in Running \union {"idle", "done", "exited", "wild"}
  /\ job.tries \in 0 .. RDRAND_RETRIES

(* get_drng_support: whatever the threads do to the static variable, none  *)
(* of them is told of a feature that the processor does not have.          *)
NeverOverclaims ==
  \A t \in Threads : /\ Supports(det[t].ret, DRNG_HAS_RDRAND) => cpu.intel /\ cpu.rdrand
                     /\ Supports(det[t].ret, DRNG_HAS_RDSEED) => cpu.intel /\ cpu.rdseed

True ==
  IF cpu.intel THEN (IF cpu.rdrand THEN DRNG_HAS_RDRAND ELSE 0)
                    + (IF cpu.rdseed THEN DRNG_HAS_RDSEED ELSE 0)
  ELSE DRNG_NO_SUPPORT

(* get_drng_support: once every thread has returned and the static         *)
(* variable is right, it stays right, whoever calls again.  (Two threads   *)
(* that detect together can leave a feature out for good.)                 *)
DetectionSettles ==
  []((drng_features = True /\ \A t \in Threads : det[t].pc = "idle") => [](drng_features = True))

Span(from, len) == from .. from + len - 1

(* rdrand_get_n_uints: whichever draws fail, the uints it returns the      *)
(* number of are random, the ones after are not taken for random, and      *)
(* nothing outside the destination is written.                             *)
UintsCounted ==
  job.pc = "done" /\ job.api = "uints" =>
    LET got == Span(job.addr, 4 * job.ret)
    IN /\ \A a \in got : mem[a] = "rand"
       /\ \A a \in Span(job.addr, 4 * job.n) \ got : mem[a] # "rand"
       /\ \A a \in DOMAIN mem \ Span(job.addr, 4 * job.n) : mem[a] = "old"

(* Destinations rdrand_get_bytes does not leave: addr & 8 is 0 where       *)
(* addr & 7 is meant, and n - 8 does not wrap.                             *)
Splits(n, a) == a % 8 = 0 \/ ((a \div 8) % 2 = 0 /\ n >= 8)

(* The bytes after the last whole word, which belong to the blocks but to  *)
(* no word of them.                                                        *)
Skipped(j) == Span(j.blockstart + 8 * j.count, j.lblock - 8 * j.count)

(* rdrand_get_bytes, for these destinations and any length: of the bytes   *)
(* returned all are random but for the up to seven it skips, and those and *)
(* the memory around the destination are as they were.                     *)
BytesCounted ==
  job.api = "bytes" /\ Splits(job.n, job.addr) =>
    /\ job.pc # "wild"
    /\ Cardinality(Skipped(job)) < 8
    /\ job.pc = "done" => \A a \in Span(job.addr, job.ret) \ Skipped(job) : mem[a] = "rand"
    /\ \A a \in Skipped(job) \union (DOMAIN mem \ Span(job.addr, job.n)) : mem[a] = "old"

(* rdrand_get_bytes, whose comments say that the tail is the remaining     *)
(* number of bytes: for every length and address, the bytes returned are   *)
(* random and none outside the destination is written.                     *)
AllBytesCounted ==
  job.api = "bytes" =>
    /\ job.pc # "wild"
    /\ job.pc = "done" => \A a \in Span(job.addr, job.ret) : mem[a] = "rand"
    /\ \A a \in DOMAIN mem \ Span(job.addr, job.n) : mem[a] = "old"

(* randombytes: a call that returns has filled the whole buffer.           *)
OsFills == job.pc = "done" /\ job.api = "os" => \A a \in Span(0, job.n) : mem[a] = "rand"

(* Whatever fails, a request reports what it filled, at every length and   *)
(* address.  rdrand_get_bytes does not.                                    *)
RequestsCounted == UintsCounted /\ AllBytesCounted /\ OsFills

(* Whatever fails, what a request reports was filled, with these           *)
(* exceptions of rdrand_get_bytes: it skips up to seven bytes of a length  *)
(* that is not a multiple of eight, and about the destinations it leaves   *)
(* nothing is said.                                                        *)
CountedButSkipped == UintsCounted /\ BytesCounted /\ OsFills

(* The retries are bounded: every request returns, even if the generator   *)
(* never answers.                                                          *)
RequestsReturn == job.pc \in Running ~> job.pc \in {"done", "wild"}
=============================================================================
