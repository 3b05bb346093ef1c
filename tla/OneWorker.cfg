SPECIFICATION Spec
CONSTANTS
  b1 = b1
  b2 = b2
  Bundles = {b1}
  Workers = {w1}
  PreemptibleWorkers = {}
  SharedFileSystem = {}
  Deps <- NoDeps
  AllowFailed = {}
  MaxFaults = 2
  Faults = {"timeout", "send", "lost_ack", "lost_message", "bm_abort", "unrunnable", "unresponsive", "kill", "quota", "delete", "checkin_lost", "upload", "crash", "sigterm", "restage"}
INVARIANTS
  TypeOK
  OfflineUnclaimed
  ReadyMeansRan
