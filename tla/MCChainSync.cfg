SPECIFICATION Spec

CONSTANTS
  s0 = s0
  s1 = s1
  Shards = {s0, s1}
  Beacon = Beacon
  MaxHeight = 2
  Refs <- CrossRefs
  HasCoinV1 <- SomeCoinV1
  Orders <- PauseAndResume
  MaxCrash = 1

CHECK_DEADLOCK FALSE

INVARIANT TypeOK
 
INVARIANT BeaconBehindShards
INVARIANT CoinV1OncePerLife
INVARIANT NoWriteWhilePaused
 
PROPERTY PersistedNeverDecreases
