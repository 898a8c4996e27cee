SPECIFICATION FairSpec

CONSTANTS
  s0 = s0
  s1 = s1
  Shards = {s0, s1}
  Beacon = Beacon
  MaxHeight = 2
  Refs <- CrossRefs
  HasCoinV1 <- SomeCoinV1
  Orders <- PauseAndResume
  MaxCrash = 0

CHECK_DEADLOCK FALSE

PROPERTY OrdersAnswered
