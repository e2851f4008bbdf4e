SPECIFICATION PipeSpec
CONSTANTS
  Fifo = TRUE
  Backlog = 2
  PipeBuffer = 2
  MaxRecords = 6
  MaxReaders = 2
INVARIANT EachGetsItsHeader
CHECK_DEADLOCK FALSE
