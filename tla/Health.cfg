\* Two intervals that hold a round of two timeouts, one that does not, and the
\* zero that no validation rejects.
SPECIFICATION FairSpec
CONSTANTS
  INTERVALS = {0, 3, 4, 6}
  PROBE_TIMEOUT = 2
  LAG = 6
  NEVER = 11
INVARIANTS
  NoStaleUp
  RoundsNeverOverrun
  LogAgreesWithGauges
PROPERTIES
  KeepsProbing
