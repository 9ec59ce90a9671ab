\* Up to three metrics over two resources of two scopes: metrics of more than
\* twice the cap, of exactly the cap and of none, and every border in between.
SPECIFICATION Spec
CONSTANTS
  MAX_POINTS_PER_REQUEST = 2
  REQUESTS <- AllRequests
  MAX_METRICS = 3
  MAX_SHELLS = 2
  MAX_N = 5
INVARIANTS
  PiecesFit
  EveryPointOnce
  ShellsKept
  ArrivesInOrder
