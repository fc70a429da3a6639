SPECIFICATION Spec
CONSTANTS
  alice = alice
  bob = bob
  carol = carol
  Block = 6
  Poly = 2
  KeyBytes = 3
  MacBytes = 2
  Ctr = 8
  Party <- MCParty
  Nonce <- MCNonce
  Aad <- MCAad
  Lengths <- MCLengths
  Streams <- MCStreams
  MaxSent = 2
SYMMETRY MCPartySymmetry
CHECK_DEADLOCK FALSE
INVARIANTS
  OtherCallsOpen
  OnlyGenuine
  KeystreamOnce
  VectorsAgree
