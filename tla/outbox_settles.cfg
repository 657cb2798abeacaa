CONSTANTS
  w1 = w1
  w2 = w2
  n1 = n1
  n2 = n2
  NoWorker = NoWorker
  NoNotice = NoNotice
  Workers <- One
  Notices = {n1, n2}
  RawNotices = {}
  Updates = {}
  RowIds = {1, 2}
  FlushLimit = 2
  MaxTries = 1
  MaxAttempts = 4
  Adverse = {"crash", "slow", "reject", "timeout"}
  MaxAdverse = 3
  InitConfigs <- JustLive
SPECIFICATION FairSpec
INVARIANTS FailureShowsBanner
PROPERTIES EveryRowSettles
