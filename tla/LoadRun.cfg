\* As many workers as the cap admits: a shed request needs a lost one.  The
\* service has shed one request before.  Neither ct-server nor a timeout need
\* ever come: no fairness for them.
SPECIFICATION FairLoadSpec
CONSTANTS
  Workers = {w1, w2}
  REQUESTS = 2
  METRICS_URL = TRUE
  PROBE = TRUE
  EARLIER = 1
  Requests <- AllRequests
  MAX_INFLIGHT = 2
  VERIFY_CONCURRENCY = 1
INVARIANTS
  EveryRequestSampledOnce
  
PROPERTIES
  
  RunEnds
  NothingLeftBehind
  OnlyStoreCtsCanHold
