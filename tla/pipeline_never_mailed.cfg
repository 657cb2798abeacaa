CONSTANTS
  worker = worker
  admin = admin
  Processes <- One
  LastTender = 1
  Irrelevant = {}
  MaxVersion = 1
  RecoveryLimit = 1
  Adverse = {"triage"}
  MaxAdverse = 1
SPECIFICATION Spec
INVARIANTS VerdictIsMailed
