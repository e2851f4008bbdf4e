SPECIFICATION Spec
CONSTANTS
  Mcss = {0, 2, 4, 7, 11}
  Lengths = {1, 2, 80, 511, 512, 9000}
  NoisyMcss = {11}
  CodedBits = 260
  OtherLengths = {0, 1, 3, 511}
  FadeWidth <- FadeWidths
  FadeAt <- FadePlaces
INVARIANTS
  OwnPpduIsUnderstood
  DamagedSigIsRefused
  HoldIsTheAirTime
  LdpcBitsFindTheirPlace
  FadeIsRepaired
CHECK_DEADLOCK FALSE
