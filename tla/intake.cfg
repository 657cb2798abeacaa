CONSTANTS
  worker = worker
  admin = admin
  Processes <- Two
  Items <- ItemsOf
  Offered <- OfferedAll
  Contents <- ItemsOf
  Format <- FormatOf
  Content <- BytesOf
  Members <- MembersOf
  MaxMembers = 4
  MaxTotal = 7
  MaxSingle = 2
  MaxRatio = 2
  MaxNestedDepth = 2
  Attempts = 2
  NoContent = NoContent
  Adverse = {"fetch", "escape", "storage", "mark", "extract", "lost", "crash"}
  Scenes <- ScenesOf
SPECIFICATION Spec
SYMMETRY Symmetry
INVARIANTS KeptOnce FailureIsFlagged AcquiredIsRead PassRepairsRows
