SPECIFICATION Spec
CONSTANTS
  b1 = b1
  b2 = b2
  Bundles = {b1, b2}
  Workers = {w1, w2}
  PreemptibleWorkers = {}
  SharedFileSystem = {w1, w2}
  Deps <- Chain
  AllowFailed = {}
  MaxFaults = 1
  Faults = {"kill", "delete"}
SYMMETRY WorkerSymmetry
INVARIANTS
  ActiveIsClaimed
  RunsOnOneWorker
  DependenciesFirst
