\* A batch too large for its failures to be read as they come.
\* A POST may hang: FairSpec gives it no fairness.
SPECIFICATION FairSpec
CONSTANTS
  Objects = {ct, proof}
  Ahead <- LargeBatch
  MAX_RETRIES = 1
  INITIAL_DELAY = 2
  MAX_DELAY = 3
  CTS_RETRIES = 2
  CTS_DELAY = 1
INVARIANTS
  FirstFailureDecides
PROPERTIES
  ImplementsPersistStep
  OnlyAPostCanHold
