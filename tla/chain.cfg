CONSTANTS
  w1 = w1
  w2 = w2
  Workers <- Two
  LastProvider = 2
  Threshold = 3
  Cooldown = 2
  Attempts = 2
  Limit = 2
  Scenes <- ScenesOf
SPECIFICATION FairSpec
INVARIANTS LeaseIsExclusive RequestsWithinLimit TripsAtThreshold
PROPERTIES FirstProviderRecovers CooldownHolds
