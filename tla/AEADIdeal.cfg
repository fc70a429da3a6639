\* AES-GCM, every step idealised (safeId).
CONSTANTS
  safeHS = TRUE
  cipher_prf = TRUE
  mac_log = TRUE
  mac_int1cma = TRUE
  safeId = TRUE
  skeyed = TRUE
  maxCtr = 4
  IV = {0, 1}
  iv_0 = 0
  AD <- MCAD
  FullBlock <- MCFullBlock
  LastBlock <- MCLastBlock
  BlockLen <- MCBlockLen
  Key = {0}
  Block <- MCBlock
  Compute <- MCCompute
  Xor <- MCXor
  OneTimeKey <- MCOneTimeKey
  KeyBytes <- MCKeyBytes
  StaticKey <- MCStaticKey
  SkeyBytes <- MCSkeyBytes
  ZeroKey <- MCZeroKey
  NoKey = NoKey
  Tag <- MCTag
  Mac <- MCMac
  EncodeBoth <- MCEncodeBoth
  Plain <- MCPlain
  Cipher <- MCCipher
  NoLog = NoLog
  NoFrame = NoFrame
  NoRet = NoRet
SPECIFICATION FairSpec
INVARIANTS TypeOK IInv Inv UniqueEntries NoKeystreamReuse Authentic
PROPERTIES ImplementsIdeal LogsOnlyGrow CallsReturn
