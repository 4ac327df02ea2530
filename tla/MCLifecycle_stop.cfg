SPECIFICATION FairSpec
CHECK_DEADLOCK FALSE
CONSTANTS
  Binaries = {"gateway", "dispatcher", "console", "migrate"}
  Work = {w1}
  QueueSize = 1
  MaxNews = 1
INVARIANT TypeOK
INVARIANT ServedToTheEnd
INVARIANT AlertsAreTrue
PROPERTY ShutdownEnds
