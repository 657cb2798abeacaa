CONSTANTS
  worker = worker
  admin = admin
  Processes <- Two
  LastTender = 1
  Irrelevant = {}
  MaxVersion = 2
  RecoveryLimit = 1
  Adverse = {"crash", "manual", "triage", "verdict", "mail"}
  MaxAdverse = 2
SPECIFICATION Spec
SYMMETRY Symmetry
INVARIANTS NewMailedOnce
