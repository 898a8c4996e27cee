SPECIFICATION FairSpec
CONSTANTS
  s0 = s0
  s1 = s1
  swapped = swapped
  order = order
  cancel = cancel
  cancelled = cancelled
  order2 = order2
  cancel2 = cancel2
  matched = matched
  NoTx = NoTx
  Shards <- TwoShards
  Chain <- AnswersElsewhere
  Txs = {order, cancel, order2, cancel2, swapped, cancelled, matched}
  Kind <- SomeKinds
  Target <- SomeTargets
  Limit = 2
  PageSize = 1
  MaxCrash = 1
INVARIANT TypeOK
INVARIANT PassedIsApplied
INVARIANT AnswerIsListed
INVARIANT PendingIffOpen
INVARIANT RepeatsOnlyByCrash
PROPERTY EverythingPassed
PROPERTY RefusalSeen
