SPECIFICATION Spec
CHECK_DEADLOCK FALSE
CONSTANTS
  Binaries = {"gateway", "dispatcher", "console", "migrate"}
  Work = {w1}
  QueueSize = 1
  MaxNews = 0
INVARIANT EverythingCloses
