SPECIFICATION ServiceSpec
CONSTANTS
  pool = pool
  drained = drained
  share = share
  order = order
  token = token
  staker = staker
  NoItem = NoItem
  Pools = {pool, drained}
  Shares = {share}
  Orders = {order}
  StakePools = {token}
  Stakers = {staker}
  LastBlock = 3
  Histories <- SomeHistories
  Direction <- SellsSecond
  Amount = 3
  Word = 64
  Tokens = {"prv", "usd", "btc", "eth"}
  PRV = "prv"
  NoPool = NoPool
  MaxTradePath = 3
  MaxPaths = 2
  BPS = 20
  Percent = 10
  Slack = 2
  Ten = 3
  FirstCompared = 1
INVARIANT TypeOK
 
INVARIANT ReportsAddUp
 
 
CHECK_DEADLOCK FALSE
