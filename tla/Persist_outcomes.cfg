SPECIFICATION Spec
CONSTANTS
  Objects = {ct, proof}
  Ahead <- SmallBatch
  MAX_RETRIES = 1
  INITIAL_DELAY = 2
  MAX_DELAY = 3
  CTS_RETRIES = 1
  CTS_DELAY = 1
INVARIANTS
  OneOutcomePerPersist
