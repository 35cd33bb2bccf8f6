SPECIFICATION FairSystem
CONSTANTS
  v1 = v1
  v2 = v2
  c1 = c1
  sched = sched
  web = web
  ch = ch
  Videos = {v1}
  Channels = {c1}
  Owner <- OneChannel
  Threads = {sched, web}
  NoVideo = NoVideo
  MAX_DOWNLOAD_ATTEMPTS = 1
  MAX_LONG_RANGE_RETRIES = 1
  Published <- Order
  Policies = {1}
  NoOverride = NoOverride
  JobsOf <- CycleAndUI
  DiscoverAs = {"baseline", "skipped_short", "pending"}
  RetryFrom = {"failed"}
  Faults = {"crash", "mkdir", "unlink"}
  MaxFaults = 1
  Sources = {ch}
  Playlists = {}
  Shorts = {}
  Lists <- OnChannel
  Uploaded = {}
  WINDOW = 1
  Config <- Configured
  CIRCUIT_BREAKER_THRESHOLD = 1
  MaxFailures = 1
  Events = {}
  NoSource = NoSource
  NoChannel = NoChannel
PROPERTIES
  ImplementsEpisodes
  PendingPickedUp
  FailureRetried
  UploadSettles
  RemovalCompletes
