SPECIFICATION Spec
CONSTANTS
  Setup <- MCSetup
  Tick = 4
  Airtime = 1
  MaxBackoff = 3
  MaxRetries = 1
  QueueLimit = 1
  MaxBlock = 1
  MaxWait = 44
  MinWait = 10
  Headroom = 8
  Interval = 12
  EndIdle = 4
  EndGap = 8
  SinceCap = 13
INVARIANT IdentWithinInterval
