CONSTANTS
  w1 = w1
  w2 = w2
  n1 = n1
  n2 = n2
  NoWorker = NoWorker
  NoNotice = NoNotice
  Workers <- Two
  Notices = {n1, n2}
  RawNotices = {}
  Updates = {}
  RowIds = {1, 2}
  FlushLimit = 2
  MaxTries = 2
  MaxAttempts = 4
  Adverse = {"timeout", "reject", "requeue", "down"}
  MaxAdverse = 4
  InitConfigs <- JustLive
SPECIFICATION Spec
SYMMETRY Symmetry
INVARIANTS AmbiguousSendsBounded
