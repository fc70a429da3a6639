\* Calls fail, connections break and senders die; two senders are misused.
CONSTANTS
  Sender = {1, 2, 3, 4}
  FileSize <- GoodSizes
  FileName <- GoodNames
  Keys <- GoodKeys
  pkA = "A"
  pkB = "B"
  HideSize <- BadUnit
  Kilo = 2
  UintWord = 32
  blocksize = 4
  Word = 128
  MaxFragments = 15
  MaxFileSize = 64
  IntWord = 64
  BitAnd <- MCBitAnd
  Cap = 2
  Faults = TRUE
  NoFile = NoFile
  NoSender = NoSender
SPECIFICATION FairSpec
CHECK_DEADLOCK FALSE
INVARIANTS OkMeansAll PartialCopy
PROPERTIES SessionDelivers SendersReturn
