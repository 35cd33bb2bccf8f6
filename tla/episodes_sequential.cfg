SPECIFICATION Spec
CONSTANTS
  v1 = v1
  v2 = v2
  v3 = v3
  c1 = c1
  sched = sched
  run = run
  web = web
  Videos = {v1, v2, v3}
  Channels = {c1}
  Owner <- OneChannel
  Threads = {sched}
  NoVideo = NoVideo
  MAX_DOWNLOAD_ATTEMPTS = 1
  MAX_LONG_RANGE_RETRIES = 1
  Published <- Ranks
  Policies = {1, 2}
  NoOverride = NoOverride
  JobsOf <- Sequential
  DiscoverAs = {"baseline", "pending"}
  RetryFrom = {"failed"}
  Faults = {}
  MaxFaults = 0
INVARIANTS
  RetriesCapped
  DoneHasFile
  NoOrphanFile
  RetentionMeetsPolicy
PROPERTIES
  ParkedStaysParked
  RetentionKeepsNewest
  ImplementsLifecycle
