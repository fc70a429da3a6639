SPECIFICATION MCSpec
CONSTANTS
  P = 1021
  a24 = 203
  Bits = 11
  d = 1015
  sqrt_m1 = 647
  Gx = 26
  Gy = 205
  Q = 131
  SHA512 <- MCSHA512
  LimbA <- MCLimbA
  LimbB <- MCLimbB
  Scalar = {1, 203}
  Num <- MCNum
  Clamped <- MCClamped
  Near <- MCNear
  Long <- MCLong
  QM <- MCQM
  QMu <- MCQMu
  MacR <- MCMacR
  MacS <- MCMacS
  MacBlocks <- MCMacBlocks
  MacTails <- MCMacTails
  MaxBlocks = 2
  Us <- MCUs
  Secrets <- MCSecrets
  Seeds <- MCSeeds
  Msgs <- MCMsgs
  Shifts = {0, 1, 2, 15}
  Wlen = 4
  Base = 64
  ByteBits = 4
  field_add <- MCAdd
  field_mul <- MCMul
  encode <- MCEncode
  finish <- MCFinish
  Algs <- MCAlgs
  Aad <- MCAad
  Txt <- MCTxt
  Elem <- MCElem
  S = {0, 3}
CHECK_DEADLOCK FALSE
INVARIANTS
  ArithmeticAgrees
  LadderIsMultiple
  NoWordOverflows
  EncodingsExact
  SignaturesExact
  AccumulateEncodes
  EncodingInjective
