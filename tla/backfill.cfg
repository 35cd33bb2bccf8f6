SPECIFICATION Spec
CONSTANTS
  v1 = v1
  v2 = v2
  v3 = v3
  s1 = s1
  s2 = s2
  ch = ch
  pl = pl
  p1 = p1
  p2 = p2
  Videos = {v1, v2}
  Slugs = {s1}
  Sources = {ch}
  Playlists = {}
  Shorts = {}
  Lists <- OnChannel
  Rank <- Order
  Uploaded = {v1}
  WINDOW = 1
  Config <- OneConfigured
  Pollers = {p1}
  CIRCUIT_BREAKER_THRESHOLD = 2
  MaxFailures = 3
  MaxRestarts = 0
  Events = {"remove_at_rest"}
  NoSource = NoSource
  NoChannel = NoChannel
PROPERTY
  NoBackfill
