\* Two ciphertexts and their proof, two retries each; the second backoff meets
\* the cap.  Every property is a safety property, so symmetry is sound.
SPECIFICATION Spec
CONSTANTS
  Objects = {ct1, ct2, proof}
  Ahead <- SmallBatch
  MAX_RETRIES = 2
  INITIAL_DELAY = 2
  MAX_DELAY = 5
  CTS_RETRIES = 1
  CTS_DELAY = 1
SYMMETRY Symmetry
INVARIANTS
  SuccessIsDurable
  RetryBudgetIsSpent
  OutcomeRecordedOnce
  BackoffDoublesToCap
  DeliveriesWithinBudget
