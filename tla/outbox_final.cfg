CONSTANTS
  w1 = w1
  w2 = w2
  n1 = n1
  n2 = n2
  NoWorker = NoWorker
  NoNotice = NoNotice
  Workers <- Two
  Notices = {n1}
  RawNotices = {}
  Updates = {}
  RowIds = {1, 2, 3}
  FlushLimit = 2
  MaxTries = 2
  MaxAttempts = 4
  Adverse = {"crash", "reject", "mode", "down", "slow"}
  MaxAdverse = 3
  InitConfigs <- JustLive
SPECIFICATION Spec
SYMMETRY Symmetry
INVARIANTS SnapshotIsTruthful OneLateBusinessMail ListMailedOnceUnlessFlagged
