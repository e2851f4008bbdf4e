SPECIFICATION Spec
CONSTANTS
  Buf = 2
  Burst = 2
  Bursts = 2
  RxLatency = 1
  TxAhead = 1
  Restart = 1
  LookBack = 3
  Chunked = TRUE
  MaxNow = 6
  MaxReads = 2
  MaxTimeouts = 1
INVARIANTS
  HeardIsOnAir
  AckedIsOnAir
  InSync
CHECK_DEADLOCK FALSE
