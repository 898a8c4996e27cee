SPECIFICATION FairSpec
CONSTANTS
  shield = shield
  shielded = shielded
  add1 = add1
  add2 = add2
  out = out
  outDone = outDone
  out2 = out2
  stake = stake
  staked = staked
  NoTx = NoTx
  Chains <- SomeChains
  Family <- SomeFamilies
  Target <- SomeTargets
  Pair <- OnePair
  Locktime <- SomeLocktimes
  Before <- ShardOrder
  Refused = {out, out2}
  Limit = 2
  PageSize = 2
  MaxCopies = 2
  MaxCrash = 1
INVARIANT TypeOK
INVARIANT PassedIsApplied
INVARIANT AnsweredIsClosed
INVARIANT PairTogether
PROPERTY ResultStays
PROPERTY EverythingPassed
PROPERTY DecisionSeen
