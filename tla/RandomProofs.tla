---------------------------- MODULE RandomProofs ----------------------------
(***************************************************************************)
(* The detection of the processor's generator, for any number of threads,  *)
(* and the requests for random bytes, for any size, address and number of  *)
(* retries: proofs of the safety properties of Random.                     *)
(***************************************************************************)
EXTENDS Random, FiniteSetTheorems, TLAPS

DetPcs == {"idle", "clear", "rdrand", "or_rdrand", "rdseed", "or_rdseed", "return"}

(* A value of the features that claims no more than the processor has.     *)
Honest(v) ==
  /\ v \in {0, 1, 2, 3}
  /\ v \in {1, 3} => cpu.intel /\ cpu.rdrand
  /\ v \in {2, 3} => cpu.intel /\ cpu.rdseed

(* What every thread, wherever it is in get_drng_support, keeps true: it   *)
(* looks for features of an Intel processor only, it adds a feature that   *)
(* cpuid reported, and the static variable is set once one looked at it.   *)
DetInv ==
  /\ cpu \in [intel : BOOLEAN, rdrand : BOOLEAN, rdseed : BOOLEAN]
  /\ det \in [Threads -> [pc : DetPcs, read : Int, ret : Int]]
  /\ drng_features = -1 \/ Honest(drng_features)
  /\ \A t \in Threads :
       /\ Honest(det[t].read) /\ Honest(det[t].ret)
       /\ det[t].pc \notin {"idle", "clear"} => drng_features # -1
       /\ det[t].pc \in {"rdrand", "or_rdrand", "rdseed", "or_rdseed"} => cpu.intel
       /\ det[t].pc = "or_rdrand" => cpu.rdrand
       /\ det[t].pc = "or_rdseed" => cpu.rdseed

(* Or-ing in a feature the processor has keeps a value honest.             *)
LEMMA BitOrHonest ==
  ASSUME NEW v, Honest(v), cpu.intel
  PROVE  /\ cpu.rdrand => Honest(BitOr(v, DRNG_HAS_RDRAND))
         /\ cpu.rdseed => Honest(BitOr(v, DRNG_HAS_RDSEED))
  BY DEF Honest, BitOr, DRNG_HAS_RDRAND, DRNG_HAS_RDSEED

(* What a step inside get_drng_support does to the thread that takes it.   *)
LEMMA DetectingStep ==
  ASSUME DetInv, NEW t \in Threads, NEW from, NEW to, NEW read,
         Detecting(t, from, to, read)
  PROVE  /\ det[t].pc = from /\ cpu' = cpu
         /\ det' = [det EXCEPT ![t] = [pc |-> to, read |-> read, ret |-> det[t].ret]]
<1>1. det[t] = [pc |-> det[t].pc, read |-> det[t].read, ret |-> det[t].ret]
  BY DEF DetInv
<1>2. [[det[t] EXCEPT !.pc = to] EXCEPT !.read = read]
        = [pc |-> to, read |-> read, ret |-> det[t].ret]
  <2>1. [det[t] EXCEPT !.pc = to] = [pc |-> to, read |-> det[t].read, ret |-> det[t].ret]
    BY <1>1
  <2>2. [[pc |-> to, read |-> det[t].read, ret |-> det[t].ret] EXCEPT !.read = read]
          = [pc |-> to, read |-> read, ret |-> det[t].ret]
    OBVIOUS
  <2> QED  BY <2>1, <2>2, Zenon
<1>3. det' = [det EXCEPT ![t] = [[det[t] EXCEPT !.pc = to] EXCEPT !.read = read]]
  BY Zenon DEF Detecting, DetInv
<1> QED  BY <1>2, <1>3 DEF Detecting

(* One step of one thread.                                                 *)
LEMMA SupportStep ==
  ASSUME DetInv, NEW t \in Threads, get_drng_support(t)
  PROVE  DetInv'
<1>1. CASE ReturnSupport(t)
  BY <1>1 DEF ReturnSupport, DetInv, DetPcs, Honest
<1>2. ASSUME NEW from, NEW to \in DetPcs, NEW read, Detecting(t, from, to, read),
             Honest(read), drng_features' = -1 \/ Honest(drng_features'),
             drng_features' = -1 => drng_features = -1 /\ to \in {"idle", "clear"},
             to \in {"rdrand", "or_rdrand", "rdseed", "or_rdseed"} => cpu.intel,
             to = "or_rdrand" => cpu.rdrand,
             to = "or_rdseed" => cpu.rdseed
      PROVE  DetInv'
  <2>1. /\ cpu' = cpu
        /\ det' = [det EXCEPT ![t] = [pc |-> to, read |-> read, ret |-> det[t].ret]]
    BY <1>2, DetectingStep
  <2> QED  BY <1>2, <2>1 DEF DetInv, DetPcs, Honest
<1>h. Honest(0) /\ Honest(DRNG_NO_SUPPORT) /\ DRNG_NO_SUPPORT # -1
  BY DEF Honest, DRNG_NO_SUPPORT
<1>3. CASE EnterSupport(t)
  <2> DEFINE to == IF drng_features = -1 THEN "clear" ELSE "return"
  <2>1. to \in DetPcs /\ Detecting(t, "idle", to, 0) /\ drng_features' = drng_features
    BY <1>3 DEF EnterSupport, DetPcs
  <2>2. /\ drng_features' = -1 => drng_features = -1 /\ to \in {"idle", "clear"}
        /\ to \in {"clear", "return"}
    BY <2>1
  <2> HIDE DEF to
  <2> QED  BY <1>h, <2>1, <2>2, <1>2 DEF DetInv
<1>4. CASE ClearFeatures(t)
  <2> DEFINE to == IF cpu.intel THEN "rdrand" ELSE "return"
  <2>1. to \in DetPcs /\ Detecting(t, "clear", to, 0) /\ drng_features' = DRNG_NO_SUPPORT
    BY <1>4 DEF ClearFeatures, DetPcs
  <2>2. to \in {"rdrand", "return"} /\ (to = "rdrand" => cpu.intel)
    OBVIOUS
  <2> HIDE DEF to
  <2> QED  BY <1>h, <2>1, <2>2, <1>2 DEF DetInv
<1>5. CASE ReadFeatures(t, "rdrand", "or_rdrand", cpu.rdrand, "rdseed")
  BY <1>5, <1>2 DEF ReadFeatures, Detecting, DetInv, DetPcs, Honest
<1>6. CASE ReadFeatures(t, "rdseed", "or_rdseed", cpu.rdseed, "return")
  BY <1>6, <1>2 DEF ReadFeatures, Detecting, DetInv, DetPcs, Honest
<1>7. CASE WriteFeatures(t, "or_rdrand", DRNG_HAS_RDRAND, "rdseed")
  <2>1. Honest(BitOr(det[t].read, DRNG_HAS_RDRAND)) /\ cpu.intel
    BY <1>7, BitOrHonest DEF WriteFeatures, Detecting, DetInv
  <2> QED  BY <1>7, <1>2, <2>1 DEF WriteFeatures, DetPcs, Honest
<1>8. CASE WriteFeatures(t, "or_rdseed", DRNG_HAS_RDSEED, "return")
  <2>1. Honest(BitOr(det[t].read, DRNG_HAS_RDSEED)) /\ cpu.intel
    BY <1>8, BitOrHonest DEF WriteFeatures, Detecting, DetInv
  <2> QED  BY <1>8, <1>2, <2>1 DEF WriteFeatures, DetPcs, Honest
<1> QED  BY <1>1, <1>3, <1>4, <1>5, <1>6, <1>7, <1>8 DEF get_drng_support

(* A request leaves the detection alone.                                   *)
LEMMA RequestFrame ==
  ASSUME Next PROVE (\E t \in Threads : get_drng_support(t)) \/ UNCHANGED detecting
  BY DEF Next, rdrand_get_bytes, randombytes, rdrand_get_n_uints, random_uint, Draw,
         rdrand_succeeds, rdrand_fails, OutOfBounds

LEMMA DetInvariant == Spec => []DetInv
<1>1. Init => DetInv
  BY DEF Init, DetInv, DetPcs, Honest
<1>2. DetInv /\ [Next]_vars => DetInv'
  <2> SUFFICES ASSUME DetInv, [Next]_vars PROVE DetInv'  OBVIOUS
  <2>1. CASE UNCHANGED detecting
    BY <2>1 DEF detecting, DetInv, Honest
  <2>2. CASE \E t \in Threads : get_drng_support(t)
    BY <2>2, SupportStep
  <2> QED  BY <2>1, <2>2, RequestFrame DEF vars, detecting
<1> QED  BY <1>1, <1>2, PTL DEF Spec

(* get_drng_support: no interleaving of any number of threads tells one of *)
(* them of a feature the processor does not have.                          *)
THEOREM RandomNeverOverclaims == Spec => []NeverOverclaims
<1>1. DetInv => NeverOverclaims
  BY DEF DetInv, Honest, NeverOverclaims, Supports, DRNG_HAS_RDRAND, DRNG_HAS_RDSEED
<1> QED  BY <1>1, DetInvariant, PTL

(* No thread is between its test of the static variable and its return     *)
(* with a value it has not read.                                           *)
Settled ==
  drng_features = True /\ \A t \in Threads : det[t].pc \in {"idle", "return"}

(* get_drng_support: a right value found when no thread is detecting is    *)
(* never changed again.                                                    *)
THEOREM RandomDetectionSettles == Spec => DetectionSettles
<1> DEFINE P == drng_features = True /\ \A t \in Threads : det[t].pc = "idle"
           Q == drng_features = True
<1>1. P => Settled
  BY DEF Settled
<1>2. Settled => Q
  BY DEF Settled
<1>3. Settled /\ DetInv /\ [Next]_vars => Settled'
  <2> SUFFICES ASSUME Settled, DetInv, [Next]_vars PROVE Settled'  OBVIOUS
  <2>1. CASE UNCHANGED detecting
    BY <2>1 DEF detecting, Settled, True
  <2>2. ASSUME NEW t \in Threads, get_drng_support(t) PROVE Settled'
    <3>1. drng_features # -1 /\ det[t].pc \in {"idle", "return"}
      BY DEF Settled, True, DetInv, DRNG_NO_SUPPORT, DRNG_HAS_RDRAND, DRNG_HAS_RDSEED
    <3>2. CASE EnterSupport(t)
      BY <3>1, <3>2 DEF EnterSupport, Detecting, Settled, True, DetInv
    <3>3. CASE ReturnSupport(t)
      BY <3>1, <3>3 DEF ReturnSupport, Settled, True, DetInv
    <3> QED  BY <2>2, <3>1, <3>2, <3>3 DEF get_drng_support, ClearFeatures, ReadFeatures,
                                         WriteFeatures, Detecting
  <2> QED  BY <2>1, <2>2, RequestFrame DEF vars, detecting
<1>4. Spec => [](P => []Q)
  BY <1>1, <1>2, <1>3, DetInvariant, PTL DEF Spec
<1> QED  BY <1>4 DEF DetectionSettles
-----------------------------------------------------------------------------
(* Requests.                                                               *)

Apis == {"none", "bytes", "uints", "uint", "os"}
JobPcs == {"idle", "head", "block", "tail", "qword", "residual", "done", "exited", "wild"}

Jobs ==
  [api : Apis, pc : JobPcs, n : Nat, addr : Nat, lhead : Int, blockstart : Int,
   lblock : Int, ltail : Int, count : Int, i : Nat, tries : 0 .. RDRAND_RETRIES, ret : Int]

Memories == [0 .. MemSize - 1 -> {"old", "rand", "zero"}]

(* The first k of the size bytes at from are random, the rest of them are  *)
(* not, and the memory around them is as it was.                           *)
Prefix(m, from, k, size) ==
  /\ \A a \in Span(from, k) : m[a] = "rand"
  /\ \A a \in Span(from, size) \ Span(from, k) : m[a] # "rand"
  /\ \A a \in DOMAIN m \ Span(from, size) : m[a] = "old"

(* The parts of a destination, when Splits holds: between the whole words  *)
(* of the blocks and the tail up to seven bytes may be skipped.            *)
Layout(j) ==
  /\ j.addr + j.n <= MemSize
  /\ j.lhead \in 0 .. 7 /\ j.ltail \in 0 .. 7 /\ j.count \in Nat /\ j.lblock \in Nat
  /\ 8 * j.count <= j.lblock /\ j.lblock < 8 * j.count + 8
  /\ j.blockstart = j.addr + j.lhead
  /\ j.lhead + j.lblock + j.ltail = j.n

(* The first k bytes of the destination are random but for those skipped,  *)
(* which are as they were, like the memory around the destination.         *)
Reached(m, j, k) ==
  /\ \A a \in Span(j.addr, k) \ Skipped(j) : m[a] = "rand"
  /\ \A a \in Skipped(j) \union (DOMAIN m \ Span(j.addr, j.n)) : m[a] = "old"

(* How far rdrand_get_bytes has come, at every point of the loops.         *)
BytesAt(j, m) ==
  /\ Layout(j)
  /\ \/ j.pc = "head" /\ j.lhead > 0 /\ j.i = 0 /\ Reached(m, j, 0)
     \/ j.pc = "block" /\ j.i < j.count /\ Reached(m, j, j.lhead + 8 * j.i)
     \/ j.pc = "tail" /\ j.ltail > 0 /\ Reached(m, j, j.lhead + j.lblock)
     \/ j.pc = "done" /\ j.ret \in 0 .. j.n /\ Reached(m, j, j.ret)

(* How far rdrand_get_n_uints has come.                                    *)
UintsAt(j, m) ==
  /\ j.addr + 4 * j.n <= MemSize
  /\ \/ j.pc = "qword" /\ j.i < j.n \div 2 /\ Prefix(m, j.addr, 8 * j.i, 4 * j.n)
     \/ j.pc = "residual" /\ 2 * j.i + 1 = j.n /\ Prefix(m, j.addr, 8 * j.i, 4 * j.n)
     \/ j.pc = "done" /\ j.ret \in 0 .. j.n /\ Prefix(m, j.addr, 4 * j.ret, 4 * j.n)

(* What every request keeps true.                                          *)
JobInv ==
  /\ job \in Jobs /\ mem \in Memories
  /\ job.pc \in Running => job.api \in {"bytes", "uints"}
  /\ job.api = "bytes" /\ Splits(job.n, job.addr) => BytesAt(job, mem)
  /\ job.api = "uints" => UintsAt(job, mem)
  /\ OsFills

(* Writing the next w bytes: drawn, they extend the prefix; zeroed by a    *)
(* draw that failed, they do not.                                          *)
LEMMA WriteExtends ==
  ASSUME mem \in Memories, NEW from \in Nat, NEW k \in Nat, NEW w \in Nat, NEW size \in Nat,
         k + w <= size, from + size <= MemSize, Prefix(mem, from, k, size)
  PROVE  /\ Span(from + k, w) \subseteq DOMAIN mem
         /\ Prefix(Write(Span(from + k, w), "rand"), from, k + w, size)
         /\ Prefix(Write(Span(from + k, w), "zero"), from, k, size)
<1>1. MemSize \in Nat /\ DOMAIN mem = 0 .. MemSize - 1
  BY RandomAssumption DEF Memories
<1>2. Span(from + k, w) \subseteq 0 .. MemSize - 1
  BY <1>1 DEF Span
<1>3. Prefix(Write(Span(from + k, w), "rand"), from, k + w, size)
  BY <1>1, <1>2 DEF Prefix, Write, Span
<1>4. Prefix(Write(Span(from + k, w), "zero"), from, k, size)
  BY <1>1, <1>2 DEF Prefix, Write, Span
<1> QED  BY <1>1, <1>2, <1>3, <1>4

(* In a request of bytes, of which the word written skips none.            *)
LEMMA WriteReaches ==
  ASSUME mem \in Memories, NEW j, j.addr \in Nat, j.n \in Nat, j.addr + j.n <= MemSize,
         NEW k \in Nat, NEW w \in Nat, k + w <= j.n, Reached(mem, j, k),
         Skipped(j) \subseteq Span(j.addr, j.n),
         Span(j.addr + k, w) \intersect Skipped(j) = {}
  PROVE  /\ Span(j.addr + k, w) \subseteq DOMAIN mem
         /\ Reached(Write(Span(j.addr + k, w), "rand"), j, k + w)
         /\ Reached(Write(Span(j.addr + k, w), "zero"), j, k)
<1> DEFINE G == Skipped(j)
<1>1. MemSize \in Nat /\ DOMAIN mem = 0 .. MemSize - 1
  BY RandomAssumption DEF Memories
<1>2. /\ Span(j.addr + k, w) \subseteq Span(j.addr, j.n) /\ Span(j.addr, j.n) \subseteq DOMAIN mem
      /\ Span(j.addr, k) \subseteq DOMAIN mem
      /\ Span(j.addr, k) \intersect Span(j.addr + k, w) = {}
      /\ Span(j.addr, k + w) = Span(j.addr, k) \union Span(j.addr + k, w)
  <2>1. ASSUME NEW a \in Nat, NEW n \in Nat, a + n <= MemSize, k + w <= n
        PROVE  /\ Span(a + k, w) \subseteq Span(a, n) /\ Span(a, n) \subseteq 0 .. MemSize - 1
               /\ Span(a, k) \subseteq 0 .. MemSize - 1
               /\ Span(a, k) \intersect Span(a + k, w) = {}
               /\ Span(a, k + w) = Span(a, k) \union Span(a + k, w)
    BY <1>1, <2>1 DEF Span
  <2> QED  BY <1>1, <2>1
<1> DEFINE T == Span(j.addr + k, w)
           D == Span(j.addr, j.n)
           K == Span(j.addr, k)
           L == Span(j.addr, k + w)
<1>3. /\ T \subseteq D /\ D \subseteq DOMAIN mem /\ K \subseteq DOMAIN mem /\ G \subseteq D
      /\ K \intersect T = {} /\ T \intersect G = {} /\ L = K \union T
      /\ \A a \in K \ G : mem[a] = "rand"
      /\ \A a \in G \union (DOMAIN mem \ D) : mem[a] = "old"
  BY <1>2 DEF Reached
<1>4. ASSUME NEW v
      PROVE  /\ DOMAIN Write(T, v) = DOMAIN mem
             /\ \A a \in DOMAIN mem : Write(T, v)[a] = IF a \in T THEN v ELSE mem[a]
  BY DEF Write
<1> HIDE DEF G, T, D, K, L
<1>5. /\ \A a \in L \ G : Write(T, "rand")[a] = "rand"
      /\ \A a \in K \ G : Write(T, "zero")[a] = "rand"
  BY <1>3, <1>4
<1>6. ASSUME NEW v
      PROVE  \A a \in G \union (DOMAIN Write(T, v) \ D) : Write(T, v)[a] = "old"
  BY <1>3, <1>4
<1> QED  BY <1>3, <1>5, <1>6 DEF Reached, G, T, D, K, L

(* A write keeps the memory's type.                                        *)
LEMMA WriteMemory ==
  ASSUME mem \in Memories, NEW S, NEW v \in {"old", "rand", "zero"}
  PROVE  Write(S, v) \in Memories
  BY DEF Memories, Write

LEMMA FreshPrefix ==
  ASSUME NEW from \in Nat, NEW size \in Nat, from + size <= MemSize
  PROVE  Fresh \in Memories /\ Prefix(Fresh, from, 0, size)
  BY RandomAssumption DEF Fresh, Memories, Prefix, Span

LEMMA FreshReached ==
  ASSUME NEW j, j.addr \in Nat, j.n \in Nat, j.addr + j.n <= MemSize,
         Skipped(j) \subseteq Span(j.addr, j.n)
  PROVE  Reached(Fresh, j, 0)
<1>1. /\ Span(j.addr, 0) = {} /\ Span(j.addr, j.n) \subseteq DOMAIN Fresh
      /\ \A a \in DOMAIN Fresh : Fresh[a] = "old"
  BY RandomAssumption DEF Fresh, Span
<1> QED  BY <1>1 DEF Reached

(* Two jobs with the same request, split in the same way.                  *)
SameRequest(j, k) ==
  /\ j.api = k.api /\ j.n = k.n /\ j.addr = k.addr
  /\ j.lhead = k.lhead /\ j.blockstart = k.blockstart /\ j.lblock = k.lblock
  /\ j.ltail = k.ltail /\ j.count = k.count

LEMMA ReturnJob ==
  ASSUME NEW j \in Jobs, NEW r \in Int
  PROVE  /\ Return(j, r) \in Jobs /\ SameRequest(Return(j, r), j)
         /\ Return(j, r).pc = "done" /\ Return(j, r).ret = r
<1> DEFINE d == [j EXCEPT !.pc = "done"]
<1>1. d \in Jobs /\ SameRequest(d, j) /\ d.pc = "done"
  BY DEF Jobs, JobPcs, SameRequest
<1>2. Return(j, r) = [d EXCEPT !.ret = r]
  BY Zenon DEF Return
<1> HIDE DEF d
<1> QED  BY <1>1, <1>2 DEF Jobs, SameRequest

LEMMA EnterTailJob ==
  ASSUME NEW j \in Jobs
  PROVE  /\ EnterTail(j) \in Jobs /\ SameRequest(EnterTail(j), j)
         /\ \/ j.ltail > 0 /\ EnterTail(j).pc = "tail"
            \/ ~(j.ltail > 0) /\ EnterTail(j).pc = "done" /\ EnterTail(j).ret = j.n
<1>1. CASE j.ltail > 0
  <2>1. EnterTail(j) = [j EXCEPT !.pc = "tail"]
    BY <1>1 DEF EnterTail
  <2> QED  BY <1>1, <2>1 DEF Jobs, JobPcs, SameRequest
<1>2. CASE ~(j.ltail > 0)
  <2>1. EnterTail(j) = Return(j, j.n) /\ j.n \in Int
    BY <1>2 DEF EnterTail, Jobs
  <2> QED  BY <1>2, <2>1, ReturnJob
<1> QED  BY <1>1, <1>2

LEMMA EnterBlockJob ==
  ASSUME NEW j \in Jobs
  PROVE  /\ EnterBlock(j) \in Jobs /\ SameRequest(EnterBlock(j), j)
         /\ \/ j.i < j.count /\ EnterBlock(j).pc = "block" /\ EnterBlock(j).i = j.i
            \/ ~(j.i < j.count) /\ EnterBlock(j) = EnterTail(j)
<1>1. CASE j.i < j.count
  <2>1. EnterBlock(j) = [j EXCEPT !.pc = "block"]
    BY <1>1 DEF EnterBlock
  <2> QED  BY <1>1, <2>1 DEF Jobs, JobPcs, SameRequest
<1>2. CASE ~(j.i < j.count)
  BY <1>2, EnterTailJob DEF EnterBlock
<1> QED  BY <1>1, <1>2

LEMMA EnterHeadJob ==
  ASSUME NEW j \in Jobs
  PROVE  /\ EnterHead(j) \in Jobs /\ SameRequest(EnterHead(j), j)
         /\ \/ j.lhead > 0 /\ EnterHead(j).pc = "head" /\ EnterHead(j).i = j.i
            \/ ~(j.lhead > 0) /\ EnterHead(j) = EnterBlock(j)
<1>1. CASE j.lhead > 0
  <2>1. EnterHead(j) = [j EXCEPT !.pc = "head"]
    BY <1>1 DEF EnterHead
  <2> QED  BY <1>1, <2>1 DEF Jobs, JobPcs, SameRequest
<1>2. CASE ~(j.lhead > 0)
  BY <1>2, EnterBlockJob DEF EnterHead
<1> QED  BY <1>1, <1>2

LEMMA EnterResidualJob ==
  ASSUME NEW j \in Jobs
  PROVE  /\ EnterResidual(j) \in Jobs /\ SameRequest(EnterResidual(j), j)
         /\ \/ j.n % 2 = 1 /\ EnterResidual(j).pc = "residual" /\ EnterResidual(j).i = j.i
            \/ j.n % 2 # 1 /\ EnterResidual(j).pc = "done" /\ EnterResidual(j).ret = j.n
<1>1. CASE j.n % 2 = 1
  <2>1. EnterResidual(j) = [j EXCEPT !.pc = "residual"]
    BY <1>1 DEF EnterResidual
  <2> QED  BY <1>1, <2>1 DEF Jobs, JobPcs, SameRequest
<1>2. CASE j.n % 2 # 1
  <2>1. EnterResidual(j) = Return(j, j.n) /\ j.n \in Int
    BY <1>2 DEF EnterResidual, Jobs
  <2> QED  BY <1>2, <2>1, ReturnJob
<1> QED  BY <1>1, <1>2

LEMMA EnterQwordJob ==
  ASSUME NEW j \in Jobs
  PROVE  /\ EnterQword(j) \in Jobs /\ SameRequest(EnterQword(j), j)
         /\ \/ j.i < j.n \div 2 /\ EnterQword(j).pc = "qword" /\ EnterQword(j).i = j.i
            \/ ~(j.i < j.n \div 2) /\ EnterQword(j) = EnterResidual(j)
<1>1. CASE j.i < j.n \div 2
  <2>1. EnterQword(j) = [j EXCEPT !.pc = "qword"]
    BY <1>1 DEF EnterQword
  <2> QED  BY <1>1, <2>1 DEF Jobs, JobPcs, SameRequest
<1>2. CASE ~(j.i < j.n \div 2)
  BY <1>2, EnterResidualJob DEF EnterQword
<1> QED  BY <1>1, <1>2

(* rdrand_get_bytes: where addr & 8 is not mistaken for addr & 7, the      *)
(* parts cover the destination.                                            *)
LEMMA SplitExact ==
  ASSUME NEW n \in Nat, NEW a \in Nat, a + n <= MemSize
  PROVE  /\ Split(n, a) \in Jobs /\ Split(n, a).i = 0
         /\ Split(n, a).n = n /\ Split(n, a).addr = a /\ Split(n, a).api = "bytes"
         /\ Splits(n, a) => Layout(Split(n, a))
<1>1. Word \in Nat /\ 1 <= Word /\ MemSize <= Word /\ MemSize \in Nat /\ RDRAND_RETRIES \in Nat
  BY RandomAssumption
<1>2. /\ Split(n, a) \in Jobs /\ Split(n, a).i = 0
      /\ Split(n, a).n = n /\ Split(n, a).addr = a /\ Split(n, a).api = "bytes"
  BY <1>1 DEF Split, Jobs, Apis, JobPcs
<1>3. ASSUME Splits(n, a), a % 8 = 0 PROVE Layout(Split(n, a))
  <2>1. /\ Split(n, a).lblock = n /\ Split(n, a).lhead = 0 /\ Split(n, a).blockstart = a
        /\ Split(n, a).ltail = 0 /\ Split(n, a).count = n \div 8
    BY <1>1, <1>3 DEF Split
  <2> QED  BY <1>2, <2>1 DEF Layout
<1>4. ASSUME Splits(n, a), a % 8 # 0 PROVE Layout(Split(n, a))
  <2> DEFINE b == a % 8
             c == (n - 8) \div 8
  <2>1. b \in 1 .. 7 /\ n >= 8 /\ (a \div 8) % 2 = 0
    BY <1>4 DEF Splits
  <2>2. /\ (n - 8) % Word = n - 8 /\ b % Word = b
        /\ c \in Nat /\ 8 * c <= n - 8 /\ n - 8 < 8 * c + 8
    BY <1>1, <2>1
  <2>3. n - (n - 8) - (8 - b) = b /\ a - b + 8 - a = 8 - b /\ a - b + 8 = a + (8 - b)
    BY <2>1
  <2>4. /\ Split(n, a).lblock = n - 8 /\ Split(n, a).lhead = 8 - b
        /\ Split(n, a).blockstart = a + (8 - b)
        /\ Split(n, a).ltail = b /\ Split(n, a).count = c
    <3>1. 8 * ((a \div 8) % 2) = 0 /\ n - (8 - 0) = n - 8
      BY <2>1
    <3> QED  BY <1>4, <2>2, <2>3, <3>1 DEF Split
  <2> QED  BY <1>2, <2>1, <2>2, <2>4 DEF Layout
<1> QED  BY <1>2, <1>3, <1>4

(* The bytes skipped lie between the words of the blocks and the tail.     *)
LEMMA SkippedPlace ==
  ASSUME NEW j \in Jobs, Layout(j)
  PROVE  /\ Skipped(j) \subseteq Span(j.addr, j.n)
         /\ Span(j.addr, j.lhead + 8 * j.count) \intersect Skipped(j) = {}
         /\ Span(j.addr + (j.lhead + j.lblock), j.ltail) \intersect Skipped(j) = {}
         /\ Span(j.addr, j.lhead + j.lblock)
              = Span(j.addr, j.lhead + 8 * j.count) \union Skipped(j)
  BY DEF Jobs, Layout, Skipped, Span

(* To skip them is to reach the tail.                                      *)
LEMMA SkipReaches ==
  ASSUME NEW j \in Jobs, Layout(j), NEW m
  PROVE  Reached(m, j, j.lhead + 8 * j.count) <=> Reached(m, j, j.lhead + j.lblock)
<1> DEFINE G == Skipped(j)
           K == Span(j.addr, j.lhead + 8 * j.count)
           L == Span(j.addr, j.lhead + j.lblock)
<1>1. K \ G = L \ G
  BY SkippedPlace
<1> QED  BY <1>1, Zenon DEF Reached

(* Requests split alike skip alike.                                        *)
LEMMA SameReached ==
  ASSUME NEW j, NEW k, SameRequest(j, k), NEW m, NEW x, Reached(m, k, x)
  PROVE  Reached(m, j, x)
  BY DEF SameRequest, Reached, Skipped

(* The loops, entered with the prefix they expect.                         *)
LEMMA BlockEntered ==
  ASSUME NEW j \in Jobs, NEW m, j.api = "bytes", Layout(j), j.i <= j.count,
         Reached(m, j, j.lhead + 8 * j.i)
  PROVE  BytesAt(EnterBlock(j), m)
<1> DEFINE e == EnterBlock(j)
<1>1. j.i \in Nat /\ j.addr \in Nat /\ j.n \in Nat
  BY DEF Jobs
<1>2. /\ SameRequest(e, j)
      /\ \/ j.i < j.count /\ e.pc = "block" /\ e.i = j.i
         \/ ~(j.i < j.count) /\ e = EnterTail(j)
  BY EnterBlockJob
<1>3. /\ \A x : Reached(m, j, x) => Reached(m, e, x)
      /\ e.addr = j.addr /\ e.n = j.n /\ e.lhead = j.lhead /\ e.lblock = j.lblock
      /\ e.ltail = j.ltail /\ e.count = j.count /\ e.blockstart = j.blockstart
  BY <1>2, SameReached DEF SameRequest
<1>4. Layout(e)
  BY <1>3 DEF Layout
<1> SUFFICES BytesAt(e, m)  OBVIOUS
<1> HIDE DEF e
<1>5. CASE j.i < j.count
  BY <1>2, <1>3, <1>4, <1>5 DEF BytesAt
<1>6. CASE ~(j.i < j.count)
  <2>1. Reached(m, j, j.lhead + j.lblock)
    <3>1. j.count \in Nat
      BY DEF Layout
    <3>2. j.i = j.count
      BY ONLY <1>1, <1>6, <3>1, j.i <= j.count
    <3> QED  BY <3>2, SkipReaches
  <2>2. CASE j.ltail > 0
    <3>1. e.pc = "tail"
      BY <1>2, <1>6, <2>2, EnterTailJob
    <3> QED  BY <1>3, <1>4, <2>1, <2>2, <3>1 DEF BytesAt
  <2>3. CASE ~(j.ltail > 0)
    <3>1. e.pc = "done" /\ e.ret = j.n
      BY <1>2, <1>6, <2>3, EnterTailJob
    <3>2. j.lhead + j.lblock = j.n
      BY <1>1, <2>3 DEF Layout
    <3> QED  BY <1>1, <1>3, <1>4, <2>1, <3>1, <3>2 DEF BytesAt
  <2> QED  BY <2>2, <2>3
<1> QED  BY <1>5, <1>6

LEMMA QwordEntered ==
  ASSUME NEW j \in Jobs, NEW m, j.api = "uints", j.addr + 4 * j.n <= MemSize,
         j.i <= j.n \div 2, Prefix(m, j.addr, 8 * j.i, 4 * j.n)
  PROVE  UintsAt(EnterQword(j), m)
<1>1. j.i \in Nat /\ j.addr \in Nat /\ j.n \in Nat
  BY DEF Jobs
<1>2. CASE j.i < j.n \div 2
  BY <1>1, <1>2, EnterQwordJob DEF UintsAt, SameRequest
<1>3. CASE ~(j.i < j.n \div 2)
  <2>1. EnterQword(j) = EnterResidual(j) /\ j.i = j.n \div 2
    BY <1>1, <1>3, EnterQwordJob
  <2>2. CASE j.n % 2 = 1
    <3>1. 2 * j.i + 1 = j.n
      BY <1>1, <2>1, <2>2
    <3> QED  BY <1>1, <2>1, <2>2, <3>1, EnterResidualJob DEF UintsAt, SameRequest
  <2>3. CASE j.n % 2 # 1
    <3>1. 8 * j.i = 4 * j.n
      BY <1>1, <2>1, <2>3
    <3> QED  BY <1>1, <2>1, <2>3, <3>1, EnterResidualJob DEF UintsAt, SameRequest
  <2> QED  BY <2>2, <2>3
<1> QED  BY <1>2, <1>3

(* What the next draw is for, in a request whose parts cover it.           *)
LEMMA BytesTarget ==
  ASSUME NEW j \in Jobs, NEW m, BytesAt(j, m), j.pc \in Running
  PROVE  \E k, w \in Nat :
           /\ k + w <= j.n /\ Target(j) = Span(j.addr + k, w) /\ Reached(m, j, k)
           /\ Target(j) \intersect Skipped(j) = {}
           /\ j.pc = "head" => k = 0 /\ w = j.lhead
           /\ j.pc = "block" => k = j.lhead + 8 * j.i /\ w = 8
           /\ j.pc = "tail" => k = j.lhead + j.lblock /\ w = j.ltail
<1>1. /\ j.i \in Nat /\ j.addr \in Nat /\ j.n \in Nat
      /\ j.lhead \in Nat /\ j.lblock \in Nat /\ j.ltail \in Nat /\ j.count \in Nat
      /\ 8 * j.count <= j.lblock /\ j.lhead + j.lblock + j.ltail = j.n
      /\ j.blockstart = j.addr + j.lhead /\ Layout(j)
  BY DEF Jobs, BytesAt, Layout
<1>2. j.pc \in {"head", "block", "tail"}
  BY DEF BytesAt, Running
<1>3. CASE j.pc = "head"
  <2>1. Target(j) = j.addr .. j.addr + j.lhead - 1
    BY <1>3 DEF Target
  <2>2. 0 + j.lhead <= j.n /\ Target(j) = Span(j.addr + 0, j.lhead) /\ Reached(m, j, 0)
    <3>1. 0 + j.lhead <= j.n /\ j.addr + 0 = j.addr
      BY <1>1
    <3>2. Reached(m, j, 0)
      BY <1>3 DEF BytesAt
    <3> QED  BY <2>1, <3>1, <3>2, Zenon DEF Span
  <2>3. Target(j) \subseteq Span(j.addr, j.lhead + 8 * j.count)
    <3>1. ASSUME NEW a \in Nat, NEW l \in Nat, NEW c \in Nat
          PROVE  a .. a + l - 1 \subseteq Span(a, l + 8 * c)
      BY DEF Span
    <3> QED  BY <1>1, <2>1, <3>1
  <2> QED  BY <1>1, <1>3, <2>2, <2>3, SkippedPlace
<1>4. CASE j.pc = "block"
  <2> DEFINE k == j.lhead + 8 * j.i
  <2>1. Target(j) = j.blockstart + 8 * j.i .. j.blockstart + 8 * j.i + 7
    BY <1>4 DEF Target
  <2>2. j.i < j.count /\ Reached(m, j, k)
    BY <1>4 DEF BytesAt
  <2>3. /\ k \in Nat /\ k + 8 <= j.n /\ k + 8 <= j.lhead + 8 * j.count
        /\ j.blockstart + 8 * j.i = j.addr + k
        /\ j.blockstart + 8 * j.i + 7 = j.addr + k + 8 - 1
    BY <1>1, <2>2
  <2>4. Target(j) = Span(j.addr + k, 8)
    BY <2>1, <2>3, Zenon DEF Span
  <2>5. Target(j) \subseteq Span(j.addr, j.lhead + 8 * j.count)
    <3>1. ASSUME NEW a \in Nat, NEW x \in Nat, NEW l \in Nat, x + 8 <= l
          PROVE  Span(a + x, 8) \subseteq Span(a, l)
      BY <3>1 DEF Span
    <3>2. j.lhead + 8 * j.count \in Nat
      BY <1>1
    <3> HIDE DEF k
    <3> QED  BY <1>1, <2>3, <2>4, <3>1, <3>2
  <2> QED  BY <1>1, <1>4, <2>2, <2>3, <2>4, <2>5, SkippedPlace
<1>5. CASE j.pc = "tail"
  <2> DEFINE k == j.lhead + j.lblock
  <2>1. Target(j) = j.blockstart + j.lblock .. j.blockstart + j.lblock + j.ltail - 1
    BY <1>5 DEF Target
  <2>2. k \in Nat /\ k + j.ltail <= j.n /\ Reached(m, j, k)
    BY <1>1, <1>5 DEF BytesAt
  <2>3. j.blockstart + j.lblock = j.addr + k
    BY <1>1
  <2>4. Target(j) = Span(j.addr + k, j.ltail)
    BY <2>1, <2>3, Zenon DEF Span
  <2> QED  BY <1>1, <1>5, <2>2, <2>4, SkippedPlace
<1> QED  BY <1>2, <1>3, <1>4, <1>5

LEMMA UintsTarget ==
  ASSUME NEW j \in Jobs, NEW m, UintsAt(j, m), j.pc \in Running
  PROVE  \E w \in Nat :
           /\ 8 * j.i + w <= 4 * j.n /\ Target(j) = Span(j.addr + 8 * j.i, w)
           /\ Prefix(m, j.addr, 8 * j.i, 4 * j.n)
           /\ j.pc \in {"qword", "residual"}
           /\ j.pc = "qword" => w = 8
           /\ j.pc = "residual" => w = 4
<1>1. j.i \in Nat /\ j.addr \in Nat /\ j.n \in Nat
  BY DEF Jobs
<1>2. CASE j.pc = "qword"
  <2>1. /\ 8 * j.i + 8 <= 4 * j.n /\ Target(j) = Span(j.addr + 8 * j.i, 8)
        /\ Prefix(m, j.addr, 8 * j.i, 4 * j.n)
    BY <1>1, <1>2 DEF Target, Span, UintsAt
  <2> QED  BY <1>2, <2>1
<1>3. CASE j.pc = "residual"
  <2>1. /\ 8 * j.i + 4 <= 4 * j.n /\ Target(j) = Span(j.addr + 8 * j.i, 4)
        /\ Prefix(m, j.addr, 8 * j.i, 4 * j.n)
    BY <1>1, <1>3 DEF Target, Span, UintsAt
  <2> QED  BY <1>3, <2>1
<1> QED  BY <1>2, <1>3 DEF UintsAt, Running

(* The job once a word is drawn.                                           *)
LEMMA NextWordJob ==
  ASSUME NEW j \in Jobs
  PROVE  LET k == [j EXCEPT !.i = @ + 1, !.tries = 0]
         IN /\ k \in Jobs /\ SameRequest(k, j) /\ k.i = j.i + 1
            /\ [k EXCEPT !.i = 0] \in Jobs /\ SameRequest([k EXCEPT !.i = 0], j)
            /\ [k EXCEPT !.i = 0].i = 0
<1> DEFINE h == [j EXCEPT !.i = @ + 1]
           k == [j EXCEPT !.i = @ + 1, !.tries = 0]
<1>0. RDRAND_RETRIES \in Nat
  BY RandomAssumption
<1>1. h \in Jobs /\ SameRequest(h, j) /\ h.i = j.i + 1
  BY DEF Jobs, SameRequest
<1>2. k = [h EXCEPT !.tries = 0]
  BY Zenon
<1> HIDE DEF h
<1>3. k \in Jobs /\ SameRequest(k, j) /\ k.i = j.i + 1
  BY <1>0, <1>1, <1>2 DEF Jobs, SameRequest
<1> HIDE DEF k
<1>4. [k EXCEPT !.i = 0] \in Jobs /\ SameRequest([k EXCEPT !.i = 0], k) /\ [k EXCEPT !.i = 0].i = 0
  BY <1>3 DEF Jobs, SameRequest
<1>5. SameRequest([k EXCEPT !.i = 0], j)
  BY <1>3, <1>4 DEF SameRequest
<1> QED  BY <1>3, <1>4, <1>5 DEF k

LEMMA FilledJob ==
  ASSUME NEW j \in Jobs, j.pc \in Running
  PROVE  Filled(j) \in Jobs /\ SameRequest(Filled(j), j)
<1> DEFINE k == [j EXCEPT !.i = @ + 1, !.tries = 0]
           z == [k EXCEPT !.i = 0]
<1>1. k \in Jobs /\ SameRequest(k, j) /\ z \in Jobs /\ SameRequest(z, j)
  BY NextWordJob
<1>2. j.n \in Int /\ 2 * j.i + 1 \in Int
  BY DEF Jobs
<1>3. CASE j.pc = "head"
  <2>1. Filled(j) = EnterBlock(z)
    BY <1>3 DEF Filled
  <2> HIDE DEF k, z
  <2> QED  BY <1>1, <2>1, EnterBlockJob DEF SameRequest
<1>4. CASE j.pc = "block"
  <2>1. Filled(j) = EnterBlock(k)
    BY <1>4 DEF Filled
  <2> HIDE DEF k, z
  <2> QED  BY <1>1, <2>1, EnterBlockJob DEF SameRequest
<1>5. CASE j.pc = "tail"
  BY <1>2, <1>5, ReturnJob DEF Filled
<1>6. CASE j.pc = "qword"
  <2>1. Filled(j) = EnterQword(k)
    BY <1>6 DEF Filled
  <2> HIDE DEF k, z
  <2> QED  BY <1>1, <2>1, EnterQwordJob DEF SameRequest
<1>7. CASE j.pc = "residual"
  BY <1>2, <1>7, ReturnJob DEF Filled
<1> QED  BY <1>3, <1>4, <1>5, <1>6, <1>7 DEF Running

(* A request under way: the part of the invariant that its draws concern.  *)
LEMMA DrawInv ==
  ASSUME JobInv, job.pc \in Running, job' \in Jobs, mem' \in Memories,
         job'.api = job.api, job'.n = job.n, job'.addr = job.addr,
         job.api = "bytes" /\ Splits(job.n, job.addr) => BytesAt(job', mem'),
         job.api = "uints" => UintsAt(job', mem')
  PROVE  JobInv'
<1>1. job.api \in {"bytes", "uints"}
  BY DEF JobInv
<1> QED  BY <1>1 DEF JobInv, OsFills

(* A draw that succeeds.                                                   *)
LEMMA SucceedsStep ==
  ASSUME JobInv, rdrand_succeeds
  PROVE  JobInv'
<1> DEFINE k == [job EXCEPT !.i = @ + 1, !.tries = 0]
           z == [k EXCEPT !.i = 0]
<1>1. /\ job \in Jobs /\ mem \in Memories /\ job.pc \in Running
      /\ mem' = Write(Target(job), "rand") /\ job' = Filled(job)
  BY DEF rdrand_succeeds, JobInv
<1>2. mem' \in Memories /\ job' \in Jobs /\ SameRequest(job', job)
  BY <1>1, WriteMemory, FilledJob
<1>3. /\ k \in Jobs /\ SameRequest(k, job) /\ k.i = job.i + 1
      /\ z \in Jobs /\ SameRequest(z, job) /\ z.i = 0
  BY <1>1, NextWordJob
<1>4. job.i \in Nat /\ job.addr \in Nat /\ job.n \in Nat /\ 4 * job.n \in Nat
  BY <1>1 DEF Jobs
<1>5. ASSUME job.api = "bytes", Splits(job.n, job.addr) PROVE BytesAt(job', mem')
  <2>1. BytesAt(job, mem) /\ Layout(job) /\ job.addr + job.n <= MemSize
    BY <1>5 DEF JobInv, BytesAt, Layout
  <2>2. PICK x, w \in Nat :
           /\ x + w <= job.n /\ Target(job) = Span(job.addr + x, w) /\ Reached(mem, job, x)
           /\ Target(job) \intersect Skipped(job) = {}
           /\ job.pc = "head" => x = 0 /\ w = job.lhead
           /\ job.pc = "block" => x = job.lhead + 8 * job.i /\ w = 8
           /\ job.pc = "tail" => x = job.lhead + job.lblock /\ w = job.ltail
    BY <1>1, <2>1, BytesTarget
  <2>3. Reached(mem', job, x + w)
    <3>1. Skipped(job) \subseteq Span(job.addr, job.n)
      BY <1>1, <2>1, SkippedPlace
    <3> QED  BY <1>1, <1>4, <2>1, <2>2, <3>1, WriteReaches
  <2>4. CASE job.pc = "head"
    <3>1. job' = EnterBlock(z)
      BY <1>1, <2>4 DEF Filled
    <3> HIDE DEF k, z
    <3>2. Layout(z) /\ z.api = "bytes" /\ z.i <= z.count
      BY <1>3, <1>5, <2>1 DEF Layout, SameRequest
    <3>3. x + w = z.lhead + 8 * z.i
      BY <1>3, <2>1, <2>2, <2>4 DEF SameRequest, Layout
    <3>4. Reached(mem', z, z.lhead + 8 * z.i)
      BY <1>3, <2>3, <3>3, SameReached
    <3> QED  BY <1>3, <3>1, <3>2, <3>4, BlockEntered
  <2>5. CASE job.pc = "block"
    <3>1. job' = EnterBlock(k)
      BY <1>1, <2>5 DEF Filled
    <3> HIDE DEF k, z
    <3>2. job.i < job.count
      BY <2>1, <2>5 DEF BytesAt
    <3>3. Layout(k) /\ k.api = "bytes" /\ k.i <= k.count
      BY <1>3, <1>4, <1>5, <2>1, <3>2 DEF Layout, SameRequest
    <3>4. x + w = k.lhead + 8 * k.i
      BY <1>3, <1>4, <2>1, <2>2, <2>5 DEF SameRequest, Layout
    <3>5. Reached(mem', k, k.lhead + 8 * k.i)
      BY <1>3, <2>3, <3>4, SameReached
    <3> QED  BY <1>3, <3>1, <3>3, <3>5, BlockEntered
  <2>6. CASE job.pc = "tail"
    <3>1. job' = Return(job, job.n) /\ job.n \in Int
      BY <1>1, <1>4, <2>6 DEF Filled
    <3>2. x + w = job.n
      BY <2>1, <2>2, <2>6 DEF Layout
    <3>3. job'.pc = "done" /\ job'.ret = job.n
      BY <1>1, <3>1, ReturnJob
    <3>4. Reached(mem', job', job.n)
      BY <1>2, <2>3, <3>2, SameReached
    <3> QED  BY <1>2, <1>4, <2>1, <3>3, <3>4 DEF BytesAt, Layout, SameRequest
  <2> QED  BY <1>1, <2>1, <2>4, <2>5, <2>6 DEF BytesAt, Running
<1>6. ASSUME job.api = "uints" PROVE UintsAt(job', mem')
  <2>1. UintsAt(job, mem) /\ job.addr + 4 * job.n <= MemSize
    BY <1>6 DEF JobInv, UintsAt
  <2>2. PICK w \in Nat :
           /\ 8 * job.i + w <= 4 * job.n /\ Target(job) = Span(job.addr + 8 * job.i, w)
           /\ Prefix(mem, job.addr, 8 * job.i, 4 * job.n)
           /\ job.pc \in {"qword", "residual"}
           /\ job.pc = "qword" => w = 8
           /\ job.pc = "residual" => w = 4
    BY <1>1, <2>1, UintsTarget
  <2>3. Prefix(mem', job.addr, 8 * job.i + w, 4 * job.n)
    <3> DEFINE x == 8 * job.i
               size == 4 * job.n
    <3>1. /\ x \in Nat /\ size \in Nat /\ x + w <= size /\ job.addr + size <= MemSize
          /\ Prefix(mem, job.addr, x, size) /\ mem' = Write(Span(job.addr + x, w), "rand")
      BY <1>1, <1>4, <2>1, <2>2
    <3> HIDE DEF x, size
    <3>2. Prefix(mem', job.addr, x + w, size)
      BY <1>1, <1>4, <3>1, WriteExtends
    <3> QED  BY <3>2 DEF x, size
  <2>4. CASE job.pc = "qword"
    <3>1. job' = EnterQword(k)
      BY <1>1, <2>4 DEF Filled
    <3> HIDE DEF k, z
    <3>2. job.i < job.n \div 2
      BY <2>1, <2>4 DEF UintsAt
    <3>3. k.api = "uints" /\ k.addr + 4 * k.n <= MemSize /\ k.i <= k.n \div 2
      BY <1>3, <1>4, <1>6, <2>1, <3>2 DEF SameRequest
    <3>4. Prefix(mem', k.addr, 8 * k.i, 4 * k.n)
      <4>1. 8 * job.i + w = 8 * k.i
        BY <1>3, <1>4, <2>2, <2>4
      <4> QED  BY <1>3, <2>3, <4>1 DEF SameRequest
    <3> QED  BY <1>3, <3>1, <3>3, <3>4, QwordEntered
  <2>5. CASE job.pc = "residual"
    <3>1. job' = Return(job, 2 * job.i + 1) /\ 2 * job.i + 1 \in Int
      <4>1. Filled(job) = Return(job, 2 * job.i + 1)
        BY <2>5, Zenon DEF Filled
      <4> QED  BY <1>1, <1>4, <4>1
    <3>2. 2 * job.i + 1 = job.n /\ 8 * job.i + w = 4 * job.n
      BY <1>4, <2>1, <2>2, <2>5 DEF UintsAt
    <3>3. job' = Return(job, job.n) /\ job.n \in Int
      BY <3>1, <3>2, Zenon
    <3>4. job'.pc = "done" /\ job'.ret = job.n
      BY <1>1, <3>3, ReturnJob
    <3> QED  BY <1>2, <1>4, <2>1, <2>3, <3>2, <3>4 DEF UintsAt, SameRequest
  <2> QED  BY <2>2, <2>4, <2>5
<1> QED  BY <1>1, <1>2, <1>5, <1>6, DrawInv DEF SameRequest

(* A draw that fails: the word is tried again, or what was filled before   *)
(* it is returned.                                                         *)
LEMMA GiveUpJob ==
  ASSUME NEW j \in Jobs
  PROVE  /\ GiveUp(j) \in Jobs /\ SameRequest(GiveUp(j), j) /\ GiveUp(j).pc = "done"
         /\ j.pc = "head" => GiveUp(j).ret = 0
         /\ j.pc = "block" => GiveUp(j).ret = j.lhead + 8 * j.i
         /\ j.pc = "tail" => GiveUp(j).ret = j.lhead + 8 * j.count
         /\ j.pc \in {"qword", "residual"} => GiveUp(j).ret = 2 * j.i
<1> DEFINE r == CASE j.pc = "head"  -> 0
                  [] j.pc = "block" -> j.i * 8 + j.lhead
                  [] j.pc = "tail"  -> j.count * 8 + j.lhead
                  [] OTHER          -> 2 * j.i
<1>1. j.i \in Int /\ j.lhead \in Int /\ j.count \in Int
  BY DEF Jobs
<1>2. /\ r \in Int
      /\ j.pc = "head" => r = 0
      /\ j.pc = "block" => r = j.lhead + 8 * j.i
      /\ j.pc = "tail" => r = j.lhead + 8 * j.count
      /\ j.pc \in {"qword", "residual"} => r = 2 * j.i
  BY <1>1
<1>3. GiveUp(j) = Return(j, r)
  BY Zenon DEF GiveUp
<1> HIDE DEF r
<1> QED  BY <1>2, <1>3, ReturnJob

LEMMA FailsJob ==
  ASSUME JobInv, rdrand_fails
  PROVE  /\ job' \in Jobs /\ SameRequest(job', job)
         /\ \/ job'.pc = job.pc /\ job'.i = job.i
            \/ job' = GiveUp(job)
<1>1. job \in Jobs
  BY DEF JobInv
<1>2. CASE job.tries + 1 < Attempts(job)
  <2>1. job' = [job EXCEPT !.tries = @ + 1]
    BY <1>2 DEF rdrand_fails
  <2>2. job.tries + 1 \in 0 .. RDRAND_RETRIES
    BY <1>1, <1>2, RandomAssumption DEF Attempts, Jobs
  <2> QED  BY <1>1, <2>1, <2>2 DEF Jobs, SameRequest
<1>3. CASE ~(job.tries + 1 < Attempts(job))
  BY <1>1, <1>3, GiveUpJob DEF rdrand_fails
<1> QED  BY <1>2, <1>3

LEMMA FailsStep ==
  ASSUME JobInv, rdrand_fails
  PROVE  JobInv'
<1>1. /\ job \in Jobs /\ mem \in Memories /\ job.pc \in Running
      /\ mem' \in {mem, Write(Target(job), "zero")}
  BY DEF rdrand_fails, JobInv
<1>2. /\ mem' \in Memories /\ job' \in Jobs /\ SameRequest(job', job)
      /\ \/ job'.pc = job.pc /\ job'.i = job.i
         \/ job' = GiveUp(job)
  BY <1>1, WriteMemory, FailsJob
<1>4. job.i \in Nat /\ job.addr \in Nat /\ job.n \in Nat /\ 4 * job.n \in Nat
  BY <1>1 DEF Jobs
<1>5. ASSUME job.api = "bytes", Splits(job.n, job.addr) PROVE BytesAt(job', mem')
  <2>1. BytesAt(job, mem) /\ Layout(job) /\ job.addr + job.n <= MemSize
    BY <1>5 DEF JobInv, BytesAt, Layout
  <2>2. PICK x, w \in Nat :
           /\ x + w <= job.n /\ Target(job) = Span(job.addr + x, w) /\ Reached(mem, job, x)
           /\ Target(job) \intersect Skipped(job) = {}
           /\ job.pc = "head" => x = 0 /\ w = job.lhead
           /\ job.pc = "block" => x = job.lhead + 8 * job.i /\ w = 8
           /\ job.pc = "tail" => x = job.lhead + job.lblock /\ w = job.ltail
    BY <1>1, <2>1, BytesTarget
  <2>3. Reached(mem', job, x)
    <3>1. Skipped(job) \subseteq Span(job.addr, job.n)
      BY <1>1, <2>1, SkippedPlace
    <3> QED  BY <1>1, <1>4, <2>1, <2>2, <3>1, WriteReaches
  <2>4. /\ Layout(job') /\ job.pc \in {"head", "block", "tail"}
        /\ \A y : Reached(mem', job, y) => Reached(mem', job', y)
        /\ job'.addr = job.addr /\ job'.n = job.n /\ job'.lhead = job.lhead
        /\ job'.lblock = job.lblock /\ job'.ltail = job.ltail /\ job'.count = job.count
    BY <1>1, <1>2, <2>1, SameReached DEF Layout, SameRequest, BytesAt, Running
  <2>5. CASE job'.pc = job.pc /\ job'.i = job.i
    <3>2. CASE job.pc = "head"
      BY <2>1, <2>2, <2>3, <2>4, <2>5, <3>2 DEF BytesAt
    <3>3. CASE job.pc = "block"
      BY <2>1, <2>2, <2>3, <2>4, <2>5, <3>3 DEF BytesAt
    <3>4. CASE job.pc = "tail"
      BY <2>1, <2>2, <2>3, <2>4, <2>5, <3>4 DEF BytesAt
    <3> QED  BY <2>4, <3>2, <3>3, <3>4
  <2>6. CASE job' = GiveUp(job)
    <3> DEFINE y == IF job.pc = "tail" THEN job.lhead + 8 * job.count ELSE x
    <3>1. job'.pc = "done" /\ job'.ret = y
      BY <1>1, <2>2, <2>4, <2>6, GiveUpJob
    <3>2. y \in 0 .. job.n
      BY <1>4, <2>1, <2>2 DEF Layout
    <3>3. Reached(mem', job, y)
      BY <1>1, <2>1, <2>2, <2>3, SkipReaches
    <3> QED  BY <2>4, <3>1, <3>2, <3>3 DEF BytesAt
  <2> QED  BY <1>2, <2>5, <2>6
<1>6. ASSUME job.api = "uints" PROVE UintsAt(job', mem')
  <2> DEFINE x == 8 * job.i
             size == 4 * job.n
  <2>1. UintsAt(job, mem) /\ job.addr + size <= MemSize
    BY <1>6 DEF JobInv, UintsAt
  <2>2. PICK w \in Nat :
           /\ x + w <= size /\ Target(job) = Span(job.addr + x, w)
           /\ Prefix(mem, job.addr, x, size)
           /\ job.pc \in {"qword", "residual"}
           /\ job.pc = "qword" => w = 8
           /\ job.pc = "residual" => w = 4
    BY <1>1, <2>1, UintsTarget
  <2>3. Prefix(mem', job.addr, x, size)
    <3>1. x \in Nat /\ size \in Nat
      BY <1>4
    <3> HIDE DEF x, size
    <3> QED  BY <1>1, <1>4, <2>1, <2>2, <3>1, WriteExtends
  <2>4. job'.addr = job.addr /\ job'.n = job.n
    BY <1>2 DEF SameRequest
  <2>5. CASE job'.pc = job.pc /\ job'.i = job.i
    BY <2>1, <2>2, <2>3, <2>4, <2>5 DEF UintsAt
  <2>6. CASE job' = GiveUp(job)
    <3>1. job'.pc = "done" /\ job'.ret = 2 * job.i
      BY <1>1, <2>2, <2>6, GiveUpJob
    <3>2. 4 * job'.ret = x /\ job'.ret \in 0 .. job.n
      BY <1>4, <2>2, <3>1
    <3> QED  BY <2>1, <2>3, <2>4, <3>1, <3>2 DEF UintsAt
  <2> QED  BY <1>2, <2>5, <2>6
<1> QED  BY <1>1, <1>2, <1>5, <1>6, DrawInv DEF SameRequest

(* No request of uints, and none of bytes whose parts cover it, comes to   *)
(* a word outside its destination.                                         *)
LEMMA OutOfBoundsStep ==
  ASSUME JobInv, OutOfBounds
  PROVE  JobInv'
<1>1. /\ job \in Jobs /\ mem \in Memories /\ job.pc \in Running
      /\ mem' = mem /\ job' = [job EXCEPT !.pc = "wild"] /\ ~(Target(job) \subseteq DOMAIN mem)
  BY DEF OutOfBounds, JobInv
<1>2. job' \in Jobs /\ SameRequest(job', job)
  BY <1>1 DEF Jobs, JobPcs, SameRequest
<1>3. job.i \in Nat /\ job.addr \in Nat /\ job.n \in Nat
  BY <1>1 DEF Jobs
<1>4. ASSUME job.api = "bytes", Splits(job.n, job.addr) PROVE FALSE
  <2>1. BytesAt(job, mem) /\ Layout(job) /\ job.addr + job.n <= MemSize
    BY <1>4 DEF JobInv, BytesAt, Layout
  <2>2. PICK x, w \in Nat : /\ x + w <= job.n /\ Target(job) = Span(job.addr + x, w)
                            /\ Reached(mem, job, x)
                            /\ Target(job) \intersect Skipped(job) = {}
    BY <1>1, <2>1, BytesTarget
  <2>3. Skipped(job) \subseteq Span(job.addr, job.n)
    BY <1>1, <2>1, SkippedPlace
  <2> QED  BY <1>1, <1>3, <2>1, <2>2, <2>3, WriteReaches
<1>5. ASSUME job.api = "uints" PROVE FALSE
  <2> DEFINE x == 8 * job.i
             size == 4 * job.n
  <2>1. UintsAt(job, mem) /\ job.addr + size <= MemSize /\ x \in Nat /\ size \in Nat
    BY <1>3, <1>5 DEF JobInv, UintsAt
  <2>2. PICK w \in Nat : /\ x + w <= size /\ Target(job) = Span(job.addr + x, w)
                         /\ Prefix(mem, job.addr, x, size)
    BY <1>1, <2>1, UintsTarget
  <2> HIDE DEF x, size
  <2> QED  BY <1>1, <1>3, <2>1, <2>2, WriteExtends
<1> QED  BY <1>1, <1>2, <1>4, <1>5, DrawInv DEF SameRequest

LEMMA BytesStep ==
  ASSUME NEW n \in Nat, NEW a \in Nat, a + n <= MemSize, rdrand_get_bytes(n, a)
  PROVE  JobInv'
<1> DEFINE s == Split(n, a)
<1>1. /\ s \in Jobs /\ s.i = 0 /\ s.n = n /\ s.addr = a /\ s.api = "bytes"
      /\ Splits(n, a) => Layout(s)
  BY SplitExact
<1>2. job' = EnterHead(s) /\ mem' = Fresh /\ Fresh \in Memories
  BY FreshPrefix DEF rdrand_get_bytes
<1> HIDE DEF s
<1>3. job' \in Jobs /\ SameRequest(job', s)
  BY <1>1, <1>2, EnterHeadJob
<1>4. ASSUME Splits(n, a) PROVE BytesAt(job', mem')
  <2>0. Reached(Fresh, s, 0)
    BY <1>1, <1>4, SkippedPlace, FreshReached
  <2>1. CASE s.lhead > 0
    <3>1. job'.pc = "head" /\ job'.i = 0
      BY <1>1, <1>2, <2>1, EnterHeadJob
    <3>2. Reached(mem', job', 0)
      BY <1>2, <1>3, <2>0, SameReached
    <3> QED  BY <1>1, <1>2, <1>3, <1>4, <2>1, <3>1, <3>2 DEF BytesAt, Layout, SameRequest
  <2>2. CASE ~(s.lhead > 0)
    <3>1. job' = EnterBlock(s)
      BY <1>1, <1>2, <2>2, EnterHeadJob
    <3>2. s.lhead + 8 * s.i = 0 /\ s.i <= s.count
      BY <1>1, <1>4, <2>2 DEF Layout
    <3> QED  BY <1>1, <1>2, <1>4, <2>0, <3>1, <3>2, BlockEntered
  <2> QED  BY <2>1, <2>2
<1> QED  BY <1>1, <1>2, <1>3, <1>4 DEF JobInv, SameRequest, OsFills

LEMMA RequestJob ==
  ASSUME NEW api \in Apis, NEW n \in Nat, NEW a \in Nat
  PROVE  /\ Request(api, n, a) \in Jobs
         /\ Request(api, n, a).pc = "idle" /\ Request(api, n, a).i = 0
         /\ Request(api, n, a).api = api
         /\ Request(api, n, a).n = n /\ Request(api, n, a).addr = a
  BY RandomAssumption DEF Request, Jobs, JobPcs

LEMMA UintsStep ==
  ASSUME NEW n \in Nat, NEW a \in Nat, a + 4 * n <= MemSize, rdrand_get_n_uints(n, a)
  PROVE  JobInv'
<1> DEFINE s == Request("uints", n, a)
           size == 4 * n
<1>1. s \in Jobs /\ s.i = 0 /\ s.n = n /\ s.addr = a /\ s.api = "uints" /\ size \in Nat
  BY RequestJob DEF Apis
<1>2. job' = EnterQword(s) /\ mem' = Fresh
  BY DEF rdrand_get_n_uints
<1> HIDE DEF s
<1>3. Fresh \in Memories /\ Prefix(Fresh, a, 0, size)
  <2> HIDE DEF size
  <2> SUFFICES a + size <= MemSize
    BY <1>1, FreshPrefix
  <2> QED  BY DEF size
<1>4. 8 * s.i = 0 /\ s.i <= s.n \div 2
  BY <1>1
<1>5. UintsAt(job', mem')
  BY <1>1, <1>2, <1>3, <1>4, QwordEntered
<1>6. job' \in Jobs /\ SameRequest(job', s)
  BY <1>1, <1>2, EnterQwordJob
<1> QED  BY <1>1, <1>2, <1>3, <1>5, <1>6 DEF JobInv, SameRequest, OsFills

(* The calls that draw once.                                               *)
LEMMA UintStep ==
  ASSUME NEW size \in Nat, random_uint(size)
  PROVE  JobInv'
<1>1. mem' \in Memories
  BY DEF random_uint, Fresh, Memories
<1>2. job' = Return(Request("uint", size, 0), size)
  BY DEF random_uint
<1> DEFINE q == Request("uint", size, 0)
<1>3. q \in Jobs /\ q.api = "uint" /\ size \in Int
  BY RequestJob DEF Apis
<1> HIDE DEF q
<1>4. job' \in Jobs /\ job'.pc = "done" /\ job'.api = "uint"
  BY <1>2, <1>3, ReturnJob DEF SameRequest, q
<1> QED  BY <1>1, <1>4 DEF JobInv, Running, OsFills

LEMMA OsStep ==
  ASSUME NEW n \in Nat, n <= MemSize, randombytes(n)
  PROVE  JobInv'
<1>1. PICK got \in -1 .. n :
        /\ mem' = [a \in DOMAIN Fresh |-> IF a < got THEN "rand" ELSE "old"]
        /\ job' = IF got = n THEN Return(Request("os", n, 0), n)
                  ELSE [Idle EXCEPT !.pc = "exited"]
  BY DEF randombytes
<1>2. mem' \in Memories
  BY <1>1 DEF Fresh, Memories
<1>3. CASE got = n
  <2>1. job' = Return(Request("os", n, 0), n)
    BY <1>1, <1>3
  <2>2. job' \in Jobs /\ job'.pc = "done" /\ job'.api = "os" /\ job'.n = n
    BY <2>1, RequestJob, ReturnJob DEF Apis, SameRequest
  <2>3. \A a \in Span(0, n) : mem'[a] = "rand"
    BY <1>1, <1>3, RandomAssumption DEF Fresh, Span
  <2> QED  BY <1>2, <2>2, <2>3 DEF JobInv, Running, OsFills
<1>4. CASE got # n
  <2>1. job' = [Idle EXCEPT !.pc = "exited"]
    BY <1>1, <1>4
  <2>2. Idle \in Jobs /\ Idle.api = "none"
    BY RequestJob DEF Idle, Apis
  <2>3. job' \in Jobs /\ job'.pc = "exited" /\ job'.api = "none"
    BY <2>1, <2>2 DEF Jobs, JobPcs
  <2> QED  BY <1>2, <2>3 DEF JobInv, Running, OsFills
<1> QED  BY <1>3, <1>4

LEMMA JobInvariant == Spec => []JobInv
<1>1. Init => JobInv
  <2> SUFFICES ASSUME Init PROVE JobInv  OBVIOUS
  <2>1. mem \in Memories /\ job \in Jobs /\ job.api = "none" /\ job.pc = "idle"
    BY RequestJob DEF Init, Fresh, Memories, Idle, Apis
  <2> QED  BY <2>1 DEF JobInv, OsFills, Running
<1>2. JobInv /\ [Next]_vars => JobInv'
  <2> SUFFICES ASSUME JobInv, [Next]_vars PROVE JobInv'  OBVIOUS
  <2>1. CASE UNCHANGED filling
    BY <2>1 DEF filling, JobInv, OsFills
  <2>2. ASSUME NEW t \in Threads, get_drng_support(t) PROVE UNCHANGED filling
    BY <2>2 DEF get_drng_support, EnterSupport, ClearFeatures, ReturnSupport, ReadFeatures,
                WriteFeatures, Detecting
  <2>3. ASSUME NEW r \in ByteRequests, rdrand_get_bytes(r[1], r[2]) \/ randombytes(r[1])
        PROVE  JobInv'
    <3>1. r[1] \in Nat /\ r[2] \in Nat /\ r[2] + r[1] <= MemSize /\ r[1] <= MemSize
      BY RandomAssumption
    <3> QED  BY <2>3, <3>1, BytesStep, OsStep
  <2>4. ASSUME NEW r \in UintRequests, rdrand_get_n_uints(r[1], r[2]) PROVE JobInv'
    <3>1. r[1] \in Nat /\ r[2] \in Nat /\ r[2] + 4 * r[1] <= MemSize
      BY RandomAssumption
    <3> QED  BY <2>4, <3>1, UintsStep
  <2>5. ASSUME NEW size \in {4, 8}, random_uint(size) PROVE JobInv'
    BY <2>5, UintStep
  <2>6. CASE Draw \/ OutOfBounds
    BY <2>6, SucceedsStep, FailsStep, OutOfBoundsStep DEF Draw
  <2> QED  BY <2>1, <2>2, <2>3, <2>4, <2>5, <2>6 DEF Next, vars, filling
<1> QED  BY <1>1, <1>2, PTL DEF Spec

(* The types of the static variable, the memory and the request.           *)
THEOREM RandomTypeCorrect == Spec => []TypeOK
<1>1. DetInv /\ JobInv => TypeOK
  <2> SUFFICES ASSUME DetInv, JobInv PROVE TypeOK  OBVIOUS
  <2>1. drng_features \in -1 .. 3 /\ \A t \in Threads : det[t].ret \in 0 .. 3
    BY DEF DetInv, Honest
  <2>2. mem \in [0 .. MemSize - 1 -> {"old", "rand", "zero"}]
    BY DEF JobInv, Memories
  <2>3. /\ job.pc \in Running \union {"idle", "done", "exited", "wild"}
        /\ job.tries \in 0 .. RDRAND_RETRIES
    BY DEF JobInv, Jobs, JobPcs, Running
  <2> QED  BY <2>1, <2>2, <2>3 DEF TypeOK
<1> QED  BY <1>1, DetInvariant, JobInvariant, PTL

(* rdrand_get_n_uints, rdrand_get_bytes, randombytes: whichever draws      *)
(* fail, what a call reports as filled is random and nothing outside the   *)
(* destination is written, but for what CountedButSkipped excepts of       *)
(* rdrand_get_bytes: the bytes it skips, and the destinations it leaves.   *)
THEOREM RandomCountedButSkipped == Spec => []CountedButSkipped
<1>1. ASSUME JobInv PROVE UintsCounted
  <2>1. mem \in Memories /\ job \in Jobs
    BY <1>1 DEF JobInv
  <2>2. ASSUME job.pc = "done", job.api = "uints"
        PROVE  Prefix(mem, job.addr, 4 * job.ret, 4 * job.n)
    BY <1>1, <2>2 DEF JobInv, UintsAt
  <2> QED  BY <2>2, Zenon DEF UintsCounted, Prefix
<1>2. ASSUME JobInv PROVE BytesCounted
  <2>1. ASSUME job.api = "bytes", Splits(job.n, job.addr)
        PROVE  /\ job.pc # "wild" /\ job \in Jobs /\ Layout(job)
               /\ job.pc = "done" => Reached(mem, job, job.ret)
               /\ \E k : Reached(mem, job, k)
    BY <1>2, <2>1 DEF JobInv, BytesAt
  <2>2. ASSUME job \in Jobs, Layout(job) PROVE Cardinality(Skipped(job)) < 8
    <3> DEFINE lo == job.blockstart + 8 * job.count
               hi == job.blockstart + 8 * job.count + (job.lblock - 8 * job.count) - 1
    <3>1. lo \in Int /\ hi \in Int /\ hi - lo + 1 < 8 /\ Skipped(job) = lo .. hi
      BY <2>2 DEF Jobs, Layout, Skipped, Span
    <3> HIDE DEF lo, hi
    <3>2. Cardinality(lo .. hi) = IF lo > hi THEN 0 ELSE hi - lo + 1
      BY <3>1, FS_Interval
    <3> QED  BY <3>1, <3>2
  <2> QED  BY <2>1, <2>2, Zenon DEF BytesCounted, Reached
<1>3. JobInv => CountedButSkipped
  BY <1>1, <1>2 DEF CountedButSkipped, JobInv
<1> QED  BY <1>3, JobInvariant, PTL
=============================================================================
