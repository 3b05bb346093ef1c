SPECIFICATION FairSpec
CONSTANTS
  m1 = m1
  m2 = m2
  r1 = r1
  r2 = r2
  d = d
  Managers = {m1, m2}
  Runs = {r1, r2}
  Deps = {d}
  None = None
  Home <- MCHome
  Needs <- MCNeeds
  CacheSize = 0
  Cpus = 1
  Faults = {"download", "stall", "kill", "duplicate", "restage", "pull", "evict_image", "start", "limit", "upload", "crash"}
  MaxFaults = 1
INVARIANTS
  TypeOK
  DependencyPinned
  ContentComplete
  
  Released
  ThreadKnown
PROPERTIES
  RunsEnd
