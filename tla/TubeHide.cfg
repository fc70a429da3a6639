\* A hide size of half a block: the last fragment is not what is expected.
CONSTANTS
  Sender = {1}
  FileSize <- GoodSizes
  FileName <- GoodNames
  Keys <- GoodKeys
  pkA = "A"
  pkB = "B"
  HideSize <- HalfBlock
  Kilo = 2
  UintWord = 32
  blocksize = 4
  Word = 128
  MaxFragments = 15
  MaxFileSize = 64
  IntWord = 64
  BitAnd <- MCBitAnd
  Cap = 2
  Faults = FALSE
  NoFile = NoFile
  NoSender = NoSender
SPECIFICATION FairSpec
CHECK_DEADLOCK FALSE
PROPERTIES Served
