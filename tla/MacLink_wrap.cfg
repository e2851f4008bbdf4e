SPECIFICATION Spec
CONSTANTS
  Traffic = "wrap"
  Station = {1, 2, 3}
  Group = 0
  Frame <- MCFrame
  Origin <- MCOrigin
  Dest <- MCDest
  Octets <- MCOctets
  Choice = {"slow", "fast"}
  Capacity <- MCCapacity
  Floor = "slow"
  PlainLimit = 2
  RtsOn = FALSE
  RtsThreshold = 0
  AckOn = TRUE
  NdpAckOn = TRUE
  MaxRetries = 1
  QueueLimit = 1
  MaxAmpdu = 1
  BitmapBits = 1
  DedupDepth = 1
  SeqSpace = 3
  Seed = {1}
  BaIdMod = 64
  PartialAid <- MCPartialAid
INVARIANT AckedIsDelivered
