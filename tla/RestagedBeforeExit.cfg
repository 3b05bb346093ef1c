SPECIFICATION Spec
CONSTANTS
  b1 = b1
  b2 = b2
  Bundles = {b1}
  Workers = {w1}
  PreemptibleWorkers = {}
  SharedFileSystem = {}
  Deps <- NoDeps
  AllowFailed = {}
  MaxFaults = 1
  Faults = {"restage"}
PROPERTY RestagedBeforeExit
