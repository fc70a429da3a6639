CONSTANTS
  Threads = {t1, t2}
  RDRAND_RETRIES = 2
  Word = 256
  MemSize = 44
  UintRequests <- MCUints
  ByteRequests <- MCBytes
SPECIFICATION Spec
INVARIANT RequestsCounted
CHECK_DEADLOCK FALSE
