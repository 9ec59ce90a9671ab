------------------------------- MODULE Health --------------------------------
(***************************************************************************)
(* The dependency-health loop of zk-verifier (src/health.rs): one detached *)
(* task that probes ct-server and then the object store at every tick of   *)
(* an interval, logs what changed, and publishes one gauge per dependency  *)
(* and a verdict.                                                          *)
(*                                                                         *)
(* Time is discrete.  Code between two awaits takes none of it, so time    *)
(* passes only while the loop waits for its tick or for a probe.  The      *)
(* gauges are set one after another while other threads may read them.     *)
(***************************************************************************)
EXTENDS Integers, FiniteSetsExt

CONSTANTS
  INTERVALS,       \* the values probe_interval_secs may be configured to, 0 too
  PROBE_TIMEOUT,   \* what bounds one probe
  LAG,             \* bound: how late the model lets the ticker fall
  NEVER            \* bound: where clocks stop, past what a property looks at

ASSUME TimesAssumption ==
  /\ INTERVALS \subseteq Nat /\ INTERVALS # {}
  /\ PROBE_TIMEOUT \in Nat \ {0}
  /\ LAG \in Nat
  /\ NEVER \in Nat
  /\ \A i \in INTERVALS : NEVER > Max({i, 2 * PROBE_TIMEOUT}) + 2 * PROBE_TIMEOUT

VARIABLES
  interval,    \* the configured interval
  configured,  \* the dependencies there are: ct-server, and maybe a backend
  stage,       \* where the loop is
  due,         \* time to the next tick of the interval, negative when late
  spent,       \* time spent in the current probe
  result,      \* this round's results
  prev,        \* prev_store_cts and prev_storage
  gauge,       \* zk_verifier_dependency_up
  healthy,     \* zk_verifier_healthy
  logged,      \* the last line logged for each dependency
  seen_up      \* time since each dependency last answered a probe well

vars == <<interval, configured, stage, due, spent, result, prev, gauge,
          healthy, logged, seen_up>>

-----------------------------------------------------------------------------

Dependencies == {"store_cts", "storage"}

\* The time a round may take when no probe is answered.
Round == PROBE_TIMEOUT * (IF "storage" \in configured THEN 2 ELSE 1)

\* How old the evidence behind a published "up" may become: one round to
\* publish it, the wait for the next round, and that round to its end.
FreshFor == Max({interval, Round}) + Round

\* spawn publishes 0 everywhere before the task exists.
Init ==
  /\ interval \in INTERVALS
  /\ configured \in {{"store_cts"}, Dependencies}
  /\ stage = "spawned"
  /\ due = 0
  /\ spent = 0
  /\ result = [d \in Dependencies |-> "none"]
  /\ prev = [d \in Dependencies |-> "none"]
  /\ gauge = [d \in configured |-> 0]
  /\ healthy = 0
  /\ logged = [d \in Dependencies |-> "none"]
  /\ seen_up = [d \in Dependencies |-> NEVER]

\* as_gauge
AsGauge(res) == IF res = "up" THEN 1 ELSE 0

\* verdict: a dependency that is not configured cannot bring it down.
Verdict(res) == \A d \in configured : res[d] = "up"

-----------------------------------------------------------------------------

\* The task makes its ticker, whose first tick is immediate.  A period of zero,
\* which nothing rejects before, is a panic: the task is gone, unnoticed.
MakeTicker ==
  /\ stage = "spawned"
  /\ stage' = IF interval > 0 THEN "waiting" ELSE "panicked"
  /\ UNCHANGED <<interval, configured, due, spent, result, prev, gauge, healthy,
                 logged, seen_up>>

\* Mutant of Elapse: nothing bounds a probe.
ElapseWithoutTimeout ==
  /\ \/ stage = "panicked" /\ spent' = spent
     \/ stage = "waiting" /\ due > 0 /\ spent' = spent
     \/ stage \in Dependencies /\ spent' = spent
  /\ due' = Max({due - 1, -LAG})
  /\ seen_up' = [d \in Dependencies |-> Min({seen_up[d] + 1, NEVER})]
  /\ UNCHANGED <<interval, configured, stage, result, prev, gauge, healthy, logged>>

\* Mutant of Elapse: connecting and answering have a timeout each.
ElapseTwoTimeouts ==
  /\ \/ stage = "panicked" /\ spent' = spent
     \/ stage = "waiting" /\ due > 0 /\ spent' = spent
     \/ stage \in Dependencies /\ spent < 2 * PROBE_TIMEOUT /\ spent' = spent + 1
  /\ due' = Max({due - 1, -LAG})
  /\ seen_up' = [d \in Dependencies |-> Min({seen_up[d] + 1, NEVER})]
  /\ UNCHANGED <<interval, configured, stage, result, prev, gauge, healthy, logged>>

\* Time passes while the loop is suspended and nothing is due.
Elapse ==
  /\ \/ stage = "panicked" /\ spent' = spent
     \/ stage = "waiting" /\ due > 0 /\ spent' = spent
     \/ stage \in Dependencies /\ spent < PROBE_TIMEOUT /\ spent' = spent + 1
  /\ due' = Max({due - 1, -LAG})
  /\ seen_up' = [d \in Dependencies |-> Min({seen_up[d] + 1, NEVER})]
  /\ UNCHANGED <<interval, configured, stage, result, prev, gauge, healthy, logged>>

\* The interval ticks.  Ticks that were missed are caught up with one by one.
TickStarts ==
  /\ stage = "waiting" /\ due <= 0
  /\ due' = due + interval
  /\ stage' = "store_cts" /\ spent' = 0
  /\ UNCHANGED <<interval, configured, result, prev, gauge, healthy, logged, seen_up>>

\* Mutant of LogTransition: only an outage is logged.
LogOutage(d, res) ==
  /\ logged' = [logged EXCEPT ![d] = IF res = "up" THEN @ ELSE res]
  /\ prev' = [prev EXCEPT ![d] = res]

\* log_transition and the assignment of prev after it: one line per change.
LogTransition(d, res) ==
  /\ logged' = [logged EXCEPT ![d] = IF prev[d] = res THEN @ ELSE res]
  /\ prev' = [prev EXCEPT ![d] = res]

\* Mutant of ProbeEnds: a timeout keeps the last result.
ProbeKeepsLast(d, next) ==
  /\ stage = d
  /\ \E res \in {"up", "down"} :
       /\ result' = [result EXCEPT ![d] = IF spent = PROBE_TIMEOUT THEN @ ELSE res]
       /\ LogTransition(d, result'[d])
       /\ seen_up' = [seen_up EXCEPT
                        ![d] = IF res = "up" /\ spent < PROBE_TIMEOUT THEN 0 ELSE @]
  /\ stage' = next /\ spent' = 0
  /\ UNCHANGED <<interval, configured, due, gauge, healthy>>

\* A probe ends: it is answered well, answered badly, or cut off by its
\* timeout, which reads as down.
ProbeEnds(d, next) ==
  /\ stage = d
  /\ \E res \in {"up", "down"} :
       /\ result' = [result EXCEPT ![d] = res]
       /\ LogTransition(d, res)
       /\ seen_up' = [seen_up EXCEPT ![d] = IF res = "up" THEN 0 ELSE @]
  /\ stage' = next /\ spent' = 0
  /\ UNCHANGED <<interval, configured, due, gauge, healthy>>

ProbeStoreCts ==
  ProbeEnds("store_cts", IF "storage" \in configured THEN "storage" ELSE "set_store_cts")

ProbeStorage == ProbeEnds("storage", "set_store_cts")

\* publish, one gauge at a time.
SetStoreCts ==
  /\ stage = "set_store_cts"
  /\ gauge' = [gauge EXCEPT !["store_cts"] = AsGauge(result["store_cts"])]
  /\ stage' = "set_storage"
  /\ UNCHANGED <<interval, configured, due, spent, result, prev, healthy, logged, seen_up>>

SetStorage ==
  /\ stage = "set_storage"
  /\ gauge' = IF "storage" \in configured
                THEN [gauge EXCEPT !["storage"] = AsGauge(result["storage"])]
                ELSE gauge
  /\ stage' = "set_healthy"
  /\ UNCHANGED <<interval, configured, due, spent, result, prev, healthy, logged, seen_up>>

SetHealthy ==
  /\ stage = "set_healthy"
  /\ healthy' = IF Verdict(result) THEN 1 ELSE 0
  /\ stage' = "waiting"
  /\ UNCHANGED <<interval, configured, due, spent, result, prev, gauge, logged, seen_up>>

LoopStep ==
  \/ MakeTicker \/ TickStarts \/ ProbeStoreCts \/ ProbeStorage
  \/ SetStoreCts \/ SetStorage \/ SetHealthy

Next == Elapse \/ LoopStep

Spec == Init /\ [][Next]_vars

\* Time goes on, and the loop takes every step that takes no time.  A probe
\* need never be answered: its timeout is the step it then takes.
FairSpec ==
  /\ Spec
  /\ WF_vars(Elapse)
  /\ WF_vars(MakeTicker \/ TickStarts \/ SetStoreCts \/ SetStorage \/ SetHealthy)
  /\ WF_vars(spent = PROBE_TIMEOUT /\ (ProbeStoreCts \/ ProbeStorage))

-----------------------------------------------------------------------------

TypeOK ==
  /\ interval \in INTERVALS
  /\ configured \in {{"store_cts"}, Dependencies}
  /\ stage \in Dependencies \union
       {"spawned", "panicked", "waiting", "set_store_cts", "set_storage", "set_healthy"}
  /\ due \in -LAG..interval
  /\ spent \in 0..PROBE_TIMEOUT
  /\ result \in [Dependencies -> {"none", "up", "down"}]
  /\ prev \in [Dependencies -> {"none", "up", "down"}]
  /\ gauge \in [configured -> {0, 1}]
  /\ healthy \in {0, 1}
  /\ logged \in [Dependencies -> {"none", "up", "down"}]
  /\ seen_up \in [Dependencies -> 0..NEVER]

\* "Fail closed": a dependency reads up, and the service healthy, only on a good
\* answer no older than FreshFor: not before the first round, not after an
\* outage or a hang, not while missed ticks are caught up with, and never from
\* a loop that died on a zero interval.
NoStaleUp ==
  /\ \A d \in configured : gauge[d] = 1 => seen_up[d] <= FreshFor
  /\ healthy = 1 => \A d \in configured : seen_up[d] <= FreshFor

\* "A probe that hangs must not delay the next round": where a round of timeouts
\* fits the interval, the ticker is never late, whatever is or is not answered.
RoundsNeverOverrun == Round <= interval => due >= 0

\* After every round the last line logged for a dependency says what its gauge
\* says, although lines are logged on a change and gauges every round.
LogAgreesWithGauges ==
  stage = "waiting" =>
    \A d \in configured : logged[d] = "up" <=> gauge[d] = 1

\* With any interval but zero the loop never stops probing and never stops
\* publishing, even if no probe is ever answered again.
KeepsProbing ==
  interval > 0 => []<>(stage = "store_cts") /\ []<>(stage = "waiting")
=============================================================================
