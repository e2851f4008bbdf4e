SPECIFICATION FairSpec
CONSTANTS
  Top = 1
  Lo = 0
  Hi = 1
  Start = 0
  GiMode = "auto"
  FecMode = "bcc"
  Interval = 2
  BackoffMax = 4
  Override = 2
  Full = 1
  PMin = 0
  Batches = {"small"}
  Gains <- MCGains
  Required <- MCRequired
  Margin = 1
  LdpcGain = 1
  Snrs = {}
  RearmSnr = 1
  MaxWalk = 0
PROPERTY ShortGiIsTriedAgain
