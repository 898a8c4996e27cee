SPECIFICATION FairSpec

CONSTANTS
  s1 = s1
  b1 = b1
  Services = {s1}
  Workers = {}
  Backups = {b1}
  Loop = Loop
  NoCtx = NoCtx
  MaxQueue = 1
  MaxLost = 0
  MaxCancel = 1
  SerialRequests = TRUE

PROPERTY BackupEnds
PROPERTY AllResumed
