CONSTANTS
  Requests = {r1, r2, r3}
  Portals = {s1, s2}
  Staff = {dev1, dev2}
  Files = {f1}
  Capacity = 1
  Troubles = 1
  Loop = Loop
  Nobody = Nobody
  Scenes <- ConsoleScenes
  r1 = r1
  r2 = r2
  t1 = t1
  t2 = t2
  t3 = t3
  t4 = t4
  t5 = t5
  bad = bad
  Listed <- All
  Unreadable = bad
  Lists <- ListsOf
  Sources <- SourcesOf
  PageCap = 2
  MaxPages = 3
  MaxRetries = 1
  Closing <- ClosingOf
  Links <- LinksOf
  Mishaps = 2
SPECIFICATION SpecAll
INVARIANTS HeldIsWorked LastDevStays KbRowHasContent SkipNeedsChange
PROPERTIES DueIsRun MissedIsFoundLater TransientsAreRidden
CHECK_DEADLOCK FALSE
