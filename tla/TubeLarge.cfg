\* A file of more than half the range of file offsets.
CONSTANTS
  Sender = {1, 2}
  FileSize <- LargeSizes
  FileName <- GoodNames
  Keys <- GoodKeys
  pkA = "A"
  pkB = "B"
  HideSize <- NoHide
  Kilo = 2
  UintWord = 32
  blocksize = 4
  Word = 128
  MaxFragments = 15
  MaxFileSize = 16
  IntWord = 16
  BitAnd <- MCBitAnd
  Cap = 2
  Faults = FALSE
  NoFile = NoFile
  NoSender = NoSender
SPECIFICATION Spec
CHECK_DEADLOCK FALSE
PROPERTIES SessionDelivers
