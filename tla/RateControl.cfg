SPECIFICATION FairSpec
CONSTANTS
  Top = 2
  Lo = 0
  Hi = 2
  Start = 0
  GiMode = "auto"
  FecMode = "auto"
  Interval = 1
  BackoffMax = 4
  Override = 2
  Full = 1
  PMin = 1
  Batches = {"big"}
  Gains <- MCGains
  Required <- MCRequired
  Margin = 1
  LdpcGain = 1
  Snrs = {2}
  RearmSnr = 0
  MaxWalk = 2
INVARIANTS
  ProbeIsOnAir
  RetryKnowsItsFailure
PROPERTIES
  RetriesWalkDown
  LadderIsProbed
