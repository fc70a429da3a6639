------------------------------- MODULE MCTube -------------------------------
(* Instances of Tube for TLC: blocks of 4 bytes and words of 7 bits.       *)
EXTENDS Tube, Bitwise

AndTable == [x \in 0 .. 127 |-> [y \in 0 .. 127 |-> x & y]]
MCBitAnd(x, y) == AndTable[x][y]

Peer == [pkA |-> "A", pkB |-> "B"]

None   == [n |-> 0, unit |-> "none"]
NoHide == [s \in Sender |-> None]

(* Two good senders of one file name: one block and a byte, then one block *)
(* and three; one under another key, and one with a larger file than the   *)
(* receiver accepts.                                                       *)
MixedSizes == <<5, 7, 3, 12>>
MixedNames == <<"f", "f", "f", "g">>
MixedKeys  == <<Peer, Peer, [pkA |-> "C", pkB |-> "B"], Peer>>

(* The first one asks to hide 5 units of 8 bytes, which the unsigned int   *)
(* of 5 bits takes for one: two blocks.                                    *)
MixedHide == [s \in Sender |-> IF s = 1 THEN [n |-> 5, unit |-> "G"] ELSE None]

(* Two good senders: one block and a byte, then two blocks; one with more  *)
(* fragments than a sender accepts, and one with a unit that does not      *)
(* exist.                                                                  *)
GoodSizes == [s \in Sender |-> <<5, 8, 60, 4>>[s]]
GoodNames == [s \in Sender |-> <<"f", "f", "g", "g">>[s]]
GoodKeys  == [s \in Sender |-> Peer]
BadUnit   == [s \in Sender |-> IF s = 4 THEN [n |-> 1, unit |-> "T"] ELSE None]

(* A hide size of half a block, which tube.c takes.                        *)
HalfBlock == [s \in Sender |-> [n |-> 1, unit |-> "K"]]

(* Files that pass half the range of the offsets.                          *)
LargeSizes == [s \in Sender |-> <<11, 12>>[s]]
=============================================================================
