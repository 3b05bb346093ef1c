SPECIFICATION Spec
CONSTANTS
  b1 = b1
  b2 = b2
  Bundles = {b1}
  Workers = {w1, w2}
  PreemptibleWorkers = {}
  SharedFileSystem = {}
  Deps <- NoDeps
  AllowFailed = {}
  MaxFaults = 1
  Faults = {"timeout", "send", "lost_ack", "lost_message", "checkin_lost", "bm_abort"}
INVARIANTS
  OneClaim
  QueuedUnclaimed
PROPERTY ClaimsSpec
