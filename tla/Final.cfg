SPECIFICATION FairSpec
CONSTANTS
  b1 = b1
  b2 = b2
  Bundles = {b1, b2}
  Workers = {w1}
  PreemptibleWorkers = {}
  SharedFileSystem = {w1}
  Deps <- Chain
  AllowFailed = {b2}
  MaxFaults = 0
  Faults = {}
PROPERTY EventuallyFinal
