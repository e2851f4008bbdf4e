SPECIFICATION Spec
CONSTANTS
  Traffic = "mixed"
  Station = {1, 2}
  Group = 0
  Frame <- MCFrame
  Origin <- MCOrigin
  Dest <- MCDest
  Octets <- MCOctets
  Choice = {"slow", "fast"}
  Capacity <- MCCapacity
  Floor = "slow"
  PlainLimit = 2
  RtsOn = TRUE
  RtsThreshold = 0
  AckOn = TRUE
  NdpAckOn = FALSE
  MaxRetries = 1
  QueueLimit = 2
  MaxAmpdu = 2
  BitmapBits = 2
  DedupDepth = 2
  SeqSpace = 8
  Seed = {1}
  BaIdMod = 64
  PartialAid <- MCPartialAid
INVARIANTS
  BackoffImpliesCur
  AcceptedIsBuildable
