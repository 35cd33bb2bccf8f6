SPECIFICATION Spec
CONSTANTS
  v1 = v1
  v2 = v2
  v3 = v3
  c1 = c1
  sched = sched
  run = run
  web = web
  Videos = {v1}
  Channels = {c1}
  Owner <- OneChannel
  Threads = {sched, web}
  NoVideo = NoVideo
  MAX_DOWNLOAD_ATTEMPTS = 2
  MAX_LONG_RANGE_RETRIES = 2
  Published <- Ranks
  Policies = {1}
  NoOverride = NoOverride
  JobsOf <- CycleAndAll
  DiscoverAs = {"baseline", "pending"}
  RetryFrom = {"failed", "done", "downloading"}
  Faults = {"unlink"}
  MaxFaults = 1
INVARIANTS
  TypeOK
  DownloadingIsOwned
  RowPathSound
  RetryOvershootBounded
