SPECIFICATION FairSpec
CONSTANTS
  EdWindow = 1
  EdStride = 1
  MidWindow = 3
  MidStride = 1
  ScanOverlap = 1
  TrimSlack = 0
  LtfSpan = 3
  LtsStarts = {1, 2}
  FalseAlarmSkip = 1
  Lead = 1
  SigSpan = 2
  LongPortion = 1
  Symbol = 1
  SymCounts = {1, 3}
  Durations = {4, 6}
  CarrierLost = 2
  MaxShift = 1
  AutoCal = TRUE
  FloorBlock = 2
  Chunks = {1, 2, 5}
  Horizon = 21
  QuietFrom = {4, 6}
INVARIANTS
  CcaIsTheFlags
  RxEndForRxStart
  NothingNeededIsTrimmed
PROPERTIES
  IdleAfterHold
  ReleasedInSilence
CHECK_DEADLOCK FALSE
