SPECIFICATION Spec
CONSTANTS
  None = None
  Sockets = {s1}
  Connections = {c1, c2}
  Handlers = {h1, h2}
  Calls = {x, y}
  MaxFaults = 2
  u = u
  v = v
  k = k
  Uploads = {u, v}
  Makes = {k}
  Parents <- MCParents
  Size <- MCSize
  Quota = 2
  Requests = {q1, q2}
  MaxFailures = 1
  Null = Null
  Editors = {e1, e2}
  MaxId = 4
  MaxInsert = 2
  a1 = a1
  p = p
  g = g
  r1 = r1
  r2 = r2
  Root = Root
  NoHost = NoHost
  Users = {a1}
  Hosts = {p, g}
  Owner <- MCOwner
  Members <- MCMembers
  Cpus <- MCCpus
  RunsOf <- MCRunsOf
  RequestCpus <- MCRequestCpus
  ParallelQuota <- MCParallelQuota
  ContentLength = 4
  ReadLengths <- MCReadLengths
  NoThread = NoThread
  MaxUploadFaults = 1
  Infos = {i1}
  Streams = {d1}
  MaxReadFaults = 1
  Jobs = {j1, j2}
  MinChoices = {0, 1}
  MaxWorkers = 1
  MaxFailed = 1
  MaxStaged = 1
  MaxWait = 1
  MaxTroubles = 1
  NoPlace = NoPlace
  MaxItems = 4
  Items = {"bundle", "inaccessible bundle", "worksheet", "text", "schema", "add", "unknown", "contents", "hidden", "no such mode", "search", "record"}
INVARIANTS
  TypeOK
  AckMeansWritten
  Exclusive
  
  
  QuotaKept
  
  CountDetects
  AppendComesLast
  NoOverload
  ParallelRunsLimited
  UploadIntact
  
  WorkersLimited
  
  EverythingShown
PROPERTIES
  LockReleased
  Reachable
  CallEnds
  
  StagedIsServed
CHECK_DEADLOCK FALSE
