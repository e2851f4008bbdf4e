SPECIFICATION PathSpec
CONSTANTS
  Policies <- MCPolicies
  Inner <- MCInner
  MaxWraps = 4
  Payloads <- MCPayloads
  FirstSeqs = {7, 4094}
  Seeds = {93}
  MaxHit = 2
  MaxBatch = 3
  PlainLimit = 43
  Spare = {0, 6}
  Hits <- MCHits
  RtsDurations = {0, 1280, 32767}
  Foreign <- MCForeign
  Ndps <- MCNdps
INVARIANTS
  TunnelsChangeNothing
  DamageIsContained
  ReplyNamesReceived
  FieldsReadBack
CHECK_DEADLOCK FALSE
