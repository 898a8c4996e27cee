SPECIFICATION Spec

CONSTANTS
  s1 = s1
  b1 = b1
  b2 = b2
  Services = {s1}
  Workers = {}
  Backups = {b1, b2}
  Loop = Loop
  NoCtx = NoCtx
  MaxQueue = 1
  MaxLost = 1
  MaxCancel = 0
  SerialRequests = FALSE

SYMMETRY Symmetry

CHECK_DEADLOCK FALSE

INVARIANT NoWorkOncePaused
