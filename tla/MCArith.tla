------------------------------- MODULE MCArith ------------------------------
(***************************************************************************)
(* Small instances for Arith, and for Accumulate, which it is explored     *)
(* with: neither knows of the other, so one stays where it starts while    *)
(* the other runs.                                                         *)
(*                                                                         *)
(* The curve is -x^2 + y^2 = 1 + d x^2 y^2 over the field of 2^10 - 3      *)
(* elements, with 8 * 131 points, chosen like edwards25519: the base point *)
(* has y = 4/5 and abscissa 9 in Montgomery form, and its order is a       *)
(* little above 2^7.                                                       *)
(***************************************************************************)
EXTENDS Arith, Accumulate

Limb5(V) == [0 .. 4 -> V]
MCLimbA == { l \in Limb5({0, 7, 73}) : l[1] # 0 /\ l[3] # 7 }
MCLimbB == { l \in Limb5({1, 9}) : l[3] = 9 } \cup {[j \in 0 .. 4 |-> IF j = 0 THEN k ELSE 7] : k \in 4 .. 7}

(* The order has 23 bits in limbs of 5.  Numbers below it, about it and as *)
(* large as a product, which has at most 45 bits for barrett_reduction     *)
(* (512 in the code); and scalars above the order with the three lowest    *)
(* bits cleared, up to the largest that the product leaves room for.       *)
AsLimbs(n) == <<n % 32, (n \div 32) % 32, (n \div 32 ^ 2) % 32, (n \div 32 ^ 3) % 32, n \div 32 ^ 4>>
OrderOfM == 4 * 2 ^ 20 + 2 * 2 ^ 10 + 3 * 32 + 11
MCQM == <<11, 3, 2, 0, 4>>
MCQMu == <<12, 25, 27, 31, 7>>
MCNum == { <<v, w, x, y, z>> : v \in {0, 3, 31}, w, x, y \in {0, 31}, z \in {0, 3} }
         \cup { AsLimbs(OrderOfM - k) : k \in 1 .. 3 } \cup {AsLimbs(1)}
MCClamped == {AsLimbs(5 * 2 ^ 20 + 8), <<0, 31, 31, 31, 5>>, AsLimbs(8384296)}
MCNear == { AsLimbs(OrderOfM + k) : k \in -3 .. 3 }
          \cup { AsLimbs(OrderOfM + 32 ^ k) : k \in 0 .. 4 }
          \cup { AsLimbs(OrderOfM - 32 ^ k) : k \in 0 .. 4 }
MCLong == { <<l[1], l[2], l[3], l[4], l[5], l[6], l[7], l[8], l[9], 0>> : l \in [1 .. 9 -> {0, 31}] }

Blocks(V) == [1 .. 3 -> V]
MCMacR == Blocks({2, 3, 7})
MCMacS == {<<0, 0, 0>>, <<7, 7, 7>>}
MCMacBlocks == {<<0, 0, 0>>, <<7, 7, 7>>, <<6, 3, 5>>, <<0, 0, 7>>}
MCMacTails == {<<>>, <<0>>, <<7>>, <<7, 7>>, <<0, 1>>}

MCUs == {0, 1, 2, 9, 10, 77, 512, 1019, 1020, 1021, 1022, 1023, 1024, 1033, 2047}
MCSecrets == {0, 7, 8, 300, 511, 1023, 2047}

MCSeeds == {1, 2, 3}
MCMsgs == {10, 11}
MCSHA512(m) ==
  LET v[j \in 0 .. Len(m)] == IF j = 0 THEN 777 ELSE (v[j - 1] * 461 + m[j] * 8191 + 12345) % (2 ^ 22)
  IN v[Len(m)]
-----------------------------------------------------------------------------
(* Accumulate: words of 4 bytes of base 64.  POLY1305 works in the         *)
(* integers modulo a prime and sets a bit above the word; GHASH works in a *)
(* binary field (here GF(4), as bit pairs) and reads the word as it is.    *)

MCBytes(n) == UNION {[1 .. k -> {0, 1}] : k \in 0 .. n}
MCAad == MCBytes(2) \union {[j \in 1 .. k |-> 1] : k \in {3, 4}}
MCTxt == MCBytes(3) \union {[j \in 1 .. k |-> 0] : k \in {4, 5}} \union
           {[j \in 1 .. k |-> j % 2] : k \in 4 .. 9}

Modulus == 7
GhashAdd(x, y) == 2 * (((x \div 2) + (y \div 2)) % 2) + ((x + y) % 2)
GhashMul(x, y) == IF x = 0 \/ y = 0 THEN 0 ELSE ((x + y - 2) % 3) + 1

MCAlgs == {"POLY1305", "GHASH"}
MCElem(alg)      == IF alg = "GHASH" THEN 0 .. 3 ELSE 0 .. Modulus - 1
MCAdd(alg, x, y) == IF alg = "GHASH" THEN GhashAdd(x, y) ELSE (x + y) % Modulus
MCMul(alg, x, y) == IF alg = "GHASH" THEN GhashMul(x, y) ELSE (x * y) % Modulus
MCEncode(alg, w) ==
  IF alg = "GHASH" THEN FoldLeft(LAMBDA acc, b : GhashAdd(acc, b % 4), 0, w)
  ELSE (Base ^ Wlen + FoldLeftDomain(LAMBDA acc, j : acc + w[j] * Base ^ (j - 1), 0, w)) % Modulus
MCFinish(alg, x, y) == IF alg = "GHASH" THEN GhashAdd(x, y) ELSE (x + y) % 4
-----------------------------------------------------------------------------
(* One call of accumulate has not begun; Arith runs beside that one only.  *)
Waiting ==
  /\ i = "POLY1305" /\ aad = <<>> /\ cipher = <<>> /\ r = 0 /\ s = 0
  /\ phase = "aad"

MCInit == ArithInit /\ Init
MCNext ==
  \/ Waiting /\ ArithNext /\ UNCHANGED vars
  \/ Fresh /\ Next /\ UNCHANGED arithVars
MCSpec == MCInit /\ [][MCNext]_<<arithVars, vars>>
=============================================================================
