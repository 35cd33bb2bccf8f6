SPECIFICATION FairSpec
CONSTANTS
  v1 = v1
  v2 = v2
  v3 = v3
  c1 = c1
  c2 = c2
  r1 = r1
  r2 = r2
  Videos = {v1, v2, v3}
  Channels = {c1, c2}
  Owner <- TwoAndOne
  Runs = {r1, r2}
  Events = {"queue", "take", "raise"}
  Nothing = Nothing
INVARIANTS
  TypeOK
  OneSyncAtATime
  CountsAddUp
  BadgesSettle
  SummaryTruthful
PROPERTIES
  ImplementsSession
  BarNeverMovesBack
  SyncEnds
