SPECIFICATION Spec

CONSTANTS
  s1 = s1
  s2 = s2
  b1 = b1
  Services = {s1, s2}
  Workers = {}
  Backups = {b1}
  Loop = Loop
  NoCtx = NoCtx
  MaxQueue = 1
  MaxLost = 0
  MaxCancel = 0
  SerialRequests = TRUE

SYMMETRY Symmetry

INVARIANT TypeOK
INVARIANT NoResumeDuringBackup
INVARIANT PausedViewIsSafe
PROPERTY BackupKeepsPromise
