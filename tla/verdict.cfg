CONSTANTS
  worker = worker
  admin = admin
  t1 = t1
  p1 = p1
  p2 = p2
  Workers <- Two
  Tenders = {t1}
  Profiles = {p1, p2}
  None = None
  Budget = 2
  Segments = 1
  Adverse = {"transient", "refused", "too_large", "window", "unfit", "invalid", "inputs", "triage", "edit", "crash"}
  Assigned <- AssignedOf
  Scenes <- ScenesOf
  Nil = Nil
  Instants = {0, 15, 16}
  Names = {"r1", "r2"}
  Quotes = {1, 2}
  Headings = {"h1", "h2"}
  MaxItems = 2
SPECIFICATION SpecAll
INVARIANTS OverspendBounded DocumentsStayApproved RejectedPayloadNotRepeated FailureIsVisible DeadlineNeverInvented PiecesAreTheDocument VerdictIsGrounded EstablishedEvidenceIsAccepted
PROPERTY GenerationEnds
CHECK_DEADLOCK FALSE
