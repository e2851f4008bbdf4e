SPECIFICATION Spec
CONSTANTS
  Slot = 1
  Difs = 2
  Eifs = 3
  Preamble = 1
  Holds = {2}
  Remainders = {1, 2}
  RidLengths = {1}
  Durations = {1, 2}
  CwMin = 0
  CwMax = 1
  Airtime = 1
  Timeout = 1
  Reservation = 2
  Batches = {"group", "short", "long"}
  MaxResponses = 1
INVARIANTS
  NeverTransmitsOverBusy
