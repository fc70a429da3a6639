------------------------------ MODULE MCBoxes -------------------------------
(* Instances of Boxes for TLC.  Blocks of 6 bytes, one-time keys and       *)
(* padding of 3, tags of 2 and Poly1305 blocks of 2: messages that end     *)
(* inside a block, at its end and after it.  The counter of ChaCha20 wraps *)
(* after 8 blocks.                                                         *)
EXTENDS Boxes

CONSTANTS alice, bob, carol
MCParty   == {alice, bob, carol}
MCPartySymmetry == Permutations(MCParty)
MCNonce   == {<<1, 1>>, <<1, 2>>, <<2, 1>>}
MCAad     == {<<>>, << {<<"aad", 1>>} >>}
MCLengths == {0, 3, 7}
MCStreams == [len : 0 .. 44, ctr : {0, 1, 7}]
=============================================================================
