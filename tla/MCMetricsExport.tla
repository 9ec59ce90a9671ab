--------------------------- MODULE MCMetricsExport ---------------------------
(* The instances of MetricsExport that TLC checks.                         *)
EXTENDS MetricsExport

CONSTANTS
  MAX_METRICS,   \* bound: metrics in a request
  MAX_SHELLS,    \* bound: resources, and scopes in each
  MAX_N          \* bound: points of a metric

Metrics == [ri : 1..MAX_SHELLS, si : 1..MAX_SHELLS, n : 0..MAX_N]

\* Every request within the bounds.
AllRequests ==
  UNION {{q \in [1..len -> Metrics] : \A i \in 1..len - 1 : NotAfter(q[i], q[i + 1])} :
           len \in 0..MAX_METRICS}
=============================================================================
