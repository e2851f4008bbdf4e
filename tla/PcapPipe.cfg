SPECIFICATION PipeSpec
CONSTANTS
  Fifo = TRUE
  Backlog = 2
  PipeBuffer = 2
  MaxRecords = 6
  MaxReaders = 3
INVARIANTS
  StreamIsACapture
PROPERTIES
  DetachIsSeen
CHECK_DEADLOCK FALSE
