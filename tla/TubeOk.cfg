\* Good senders, one hiding its size, among refused ones; no faults.
CONSTANTS
  Sender = {1, 2, 3, 4}
  FileSize <- MixedSizes
  FileName <- MixedNames
  Keys <- MixedKeys
  pkA = "A"
  pkB = "B"
  HideSize <- MixedHide
  Kilo = 2
  UintWord = 32
  blocksize = 4
  Word = 128
  MaxFragments = 4
  MaxFileSize = 10
  IntWord = 64
  BitAnd <- MCBitAnd
  Cap = 1
  Faults = FALSE
  NoFile = NoFile
  NoSender = NoSender
SPECIFICATION FairSpec
CHECK_DEADLOCK FALSE
INVARIANTS TypeOK NonceOnce LastSessionWins RefusalKeepsFiles HideRounds
PROPERTIES ServedOrRefused
