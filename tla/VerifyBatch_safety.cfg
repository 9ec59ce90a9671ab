\* Four requests, three admitted at a time, one verification at a time:
\* shedding, two waiters, orphaned verifications and hand-overs all occur.
\* Every property is a safety property, so symmetry is sound.
SPECIFICATION Spec
CONSTANTS
  Requests = {r1, r2, r3, r4}
  MAX_INFLIGHT = 3
  VERIFY_CONCURRENCY = 1
SYMMETRY Symmetry
INVARIANTS
  TypeOK
  AdmissionConserved
  CpuPermitsConserved
  QueueIsWaiters
  GateNeverIdles
  GaugeBalanced
PROPERTIES
  NoOvertaking
  KeepsPromise
