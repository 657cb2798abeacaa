CONSTANTS
  worker = worker
  admin = admin
  Processes <- One
  LastTender = 2
  Irrelevant = {2}
  MaxVersion = 2
  RecoveryLimit = 2
  Adverse = {"crash", "manual", "verdict", "expire", "fault"}
  MaxAdverse = 2
SPECIFICATION FairSpec
INVARIANTS VersionMailedOnce ProcessedIsAssessed FailedVerdictIsReported
PROPERTIES StrandedIsAssessed
