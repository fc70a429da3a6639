\* ChaCha20-Poly1305, nothing idealised: the concrete code; keys may be coerced.
CONSTANTS
  safeHS = FALSE
  cipher_prf = FALSE
  mac_log = FALSE
  mac_int1cma = FALSE
  safeId = FALSE
  skeyed = FALSE
  maxCtr = 3
  IV = {0, 1}
  iv_0 = 0
  AD <- MCAD
  FullBlock <- MCFullBlock
  LastBlock <- MCLastBlock
  BlockLen <- MCBlockLen
  Key = {0, 1}
  Block <- MCBlock
  Compute <- MCCompute
  Xor <- MCXor
  OneTimeKey <- MCOneTimeKey
  KeyBytes <- MCKeyBytes
  StaticKey <- MCStaticKey
  SkeyBytes <- MCSkeyBytes
  ZeroKey <- MCZeroKey
  NoKey = NoKey
  Tag <- MCTag
  Mac <- MCMac
  EncodeBoth <- MCEncodeBoth
  Plain <- MCPlain
  Cipher <- AllCipher
  NoLog = NoLog
  NoFrame = NoFrame
  NoRet = NoRet
SPECIFICATION Spec
INVARIANTS RoundTrip
