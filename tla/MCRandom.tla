------------------------------ MODULE MCRandom ------------------------------
(* Instances of Random for TLC: up to three words at every alignment.      *)
EXTENDS Random

MCUints == {<<n, a>> : n \in 0 .. 5, a \in {8, 12}}
MCBytes == {<<n, a>> : n \in {0, 3, 8, 12, 16, 24}, a \in 0 .. 16}
=============================================================================
