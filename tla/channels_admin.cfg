SPECIFICATION FairSpec
CONSTANTS
  x = x
  y = y
  foo = foo
  foo2 = foo2
  foo3 = foo3
  a1 = a1
  a2 = a2
  sched = sched
  Slugs = {foo, foo2, foo3}
  Sources = {x, y}
  Names = {foo}
  Variants <- Numbered
  Typed = {foo3}
  Policies = {0, 1}
  Config <- OneConfigured
  ConfigOverride <- NoneOverridden
  ConfigDefault = 0
  Admins = {a1, a2}
  Cycles = {sched}
  Faults = {"crash", "disk", "wipe"}
  MaxRequests = 2
  MaxFaults = 2
  NoSource = NoSource
  NoSlug = NoSlug
  NoOverride = NoOverride
  NoDefault = NoDefault
INVARIANTS
  TypeOK
  ArtworkWhole
  AppliedPolicy
PROPERTIES
  ImplementsTracking
  ArtworkFetched
  RequestsEnd
