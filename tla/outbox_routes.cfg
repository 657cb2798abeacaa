CONSTANTS
  w1 = w1
  w2 = w2
  n1 = n1
  n2 = n2
  NoWorker = NoWorker
  NoNotice = NoNotice
  Workers <- One
  Notices = {n1, n2}
  RawNotices = {n2}
  Updates = {}
  RowIds = {1, 2, 3, 4, 5}
  FlushLimit = 2
  MaxTries = 1
  MaxAttempts = 4
  Adverse = {"mode", "recipients", "fault"}
  MaxAdverse = 2
  InitConfigs <- AnyConfig
SPECIFICATION Spec
INVARIANTS RawNoticesStayInternal
