SPECIFICATION Spec
CONSTANTS
  Requests = {r1, r2}
  MAX_INFLIGHT = 1
  VERIFY_CONCURRENCY = 1
INVARIANTS
  AdmissionBoundsInFlight
