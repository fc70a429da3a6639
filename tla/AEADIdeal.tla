----------------------------- MODULE AEADIdeal -----------------------------
(***************************************************************************)
(* What the authenticated-encryption functionality of secure_api/aead      *)
(* promises its clients once every cryptographic step is idealised: a log  *)
(* of encryptions, at most one per nonce, in which decryption is a lookup. *)
(* This is the interface stated by Crypto.AEAD.Main.fsti (`log`,           *)
(* `fresh_nonce`, `entry_for_nonce`); no cipher, MAC or PRF table is left. *)
(***************************************************************************)

CONSTANTS IV,       \* nonces
          AD,       \* additional data
          Text,     \* plaintexts and ciphertexts, as sequences of blocks
          Tag,      \* authentication tags
          NoRet     \* "no call has returned since the last one started"

VARIABLES log,      \* the entries of the ideal log
          ret       \* what the last completed call returned

idealVars == <<log, ret>>

Message == [nonce : IV, ad : AD, p : Text, c : Text, tag : Tag]

fresh_nonce(n) == \A e \in log : e.nonce # n

Init == log = {} /\ ret = NoRet

(* A client calls encrypt or decrypt: the previous result is gone.         *)
Call == ret' = NoRet /\ UNCHANGED log

(* encrypt may return any ciphertext and tag, and records them.            *)
Encrypt(m) ==
  /\ fresh_nonce(m.nonce)
  /\ log' = log \union {m}
  /\ ret' = [op |-> "encrypt", m |-> m]

(* decrypt accepts exactly what encrypt logged, and returns its plaintext. *)
Accept(m) ==
  /\ m \in log
  /\ ret' = [op |-> "decrypt", ok |-> TRUE, m |-> m]
  /\ UNCHANGED log

Reject(n, a, cipher, t) ==
  /\ \A e \in log : <<e.nonce, e.ad, e.c, e.tag>> # <<n, a, cipher, t>>
  /\ ret' = [op |-> "decrypt", ok |-> FALSE, nonce |-> n, ad |-> a, c |-> cipher, tag |-> t]
  /\ UNCHANGED log

Next ==
  \/ Call
  \/ \E m \in Message : Encrypt(m) \/ Accept(m)
  \/ \E n \in IV, a \in AD, cipher \in Text, t \in Tag : Reject(n, a, cipher, t)

Spec == Init /\ [][Next]_idealVars
=============================================================================
