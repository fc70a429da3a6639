----------------------------- MODULE MCHashing ------------------------------
(* Instances of Hashing for TLC: blocks of 4 and 8 bytes with lengths of 1 *)
(* and 2, counters that wrap after 8 and 4 blocks, and messages made of    *)
(* the two bytes that padding is made of.                                  *)
EXTENDS Hashing

MCAlg == {"SHA2_256", "SHA2_384", "SHA2_512"}
Variant(x, y, z) == [a \in MCAlg |-> CASE a = "SHA2_256" -> x [] a = "SHA2_384" -> y [] OTHER -> z]

MCBlock   == Variant(4, 8, 8)
MCLen     == Variant(1, 2, 2)
MCHash    == Variant(1, 3, 2)
MCCounter == Variant(8, 4, 4)
MCPad     == Variant("256", "256", "512")

Ends(n) == {Zeros(n), [i \in 1 .. n |-> IF i = n THEN B(128) ELSE B(0)],
            [i \in 1 .. n |-> B(128)]}

MCBlocks(a) == IF a = "SHA2_256" THEN Ends(4) ELSE {Zeros(8), [i \in 1 .. 8 |-> B(128)]}
MCLasts(a)  == UNION {Ends(n) : n \in 0 .. 2 * MCBlock[a] - MCLen[a] - 2}

MCCalls ==
  [alg : {"SHA2_256"}, key : {Zeros(n) : n \in {0, 3, 4, 5}}, data : UNION {Ends(n) : n \in 0 .. 9},
   len : {0, 1, 2, 3, 4}]
  \union
  [alg : {"SHA2_384", "SHA2_512", "SHA1"}, key : {Zeros(8), Zeros(9)},
   data : UNION {Ends(n) : n \in {0, 5, 6, 8}}, len : {2, 3, 4}]

MCPrefixed ==
  [alg : {"SHA2_512"}, pre : {Zeros(2)}, pre2 : {Zeros(2), [i \in 1 .. 2 |-> B(128)]},
   data : UNION {Ends(n) : n \in 0 .. 16}]

Text(c, n) == [i \in 1 .. n |-> <<"char", c>>]
MCLabel  == {Text("a", 1), Text("a", 2), Text("a", 3), Text("a", 4)}
KeyLabel == Text("k", 2)
IvLabel  == Text("i", 1)
ExpLabel == Text("e", 2)
CliLabel == Text("c", 2)
SrvLabel == Text("s", 2)
MCKeyLen == [ae \in {"AES_128_GCM"} |-> 2]
MCConIds == {Text("x", 1), Text("y", 1)}
MCSalt   == Text("z", 2)
=============================================================================
