SPECIFICATION Spec

CONSTANTS
  s1 = s1
  b1 = b1
  Services = {s1}
  Workers = {}
  Backups = {b1}
  Loop = Loop
  NoCtx = NoCtx
  MaxQueue = 1
  MaxLost = 1
  MaxCancel = 0
  SerialRequests = TRUE

CHECK_DEADLOCK FALSE

INVARIANT PausedMeansParked
