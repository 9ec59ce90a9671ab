---------------------------- MODULE HealthProofs -----------------------------
(***************************************************************************)
(* Theorems about Health for all intervals and every probe timeout.        *)
(***************************************************************************)
EXTENDS Health, TLAPS

\* The larger of two numbers.
LEMMA MaxOfTwo ==
  ASSUME NEW a \in Int, NEW b \in Int
  PROVE  Max({a, b}) = IF a >= b THEN a ELSE b
<1>1. \E x \in {a, b} : \A y \in {a, b} : x >= y
  OBVIOUS
<1>2. Max({a, b}) \in {a, b} /\ \A y \in {a, b} : Max({a, b}) >= y
  BY <1>1 DEF Max
<1> QED
  BY <1>2

\* And the smaller.
LEMMA MinOfTwo ==
  ASSUME NEW a \in Int, NEW b \in Int
  PROVE  Min({a, b}) = IF a <= b THEN a ELSE b
<1>1. \E x \in {a, b} : \A y \in {a, b} : x <= y
  OBVIOUS
<1>2. Min({a, b}) \in {a, b} /\ \A y \in {a, b} : Min({a, b}) <= y
  BY <1>1 DEF Min
<1> QED
  BY <1>2

-----------------------------------------------------------------------------
(* The invariant.                                                          *)

\* What a round may take, and the longest a next round begins after it.
Period == Max({interval, Round})

Pos(n) == IF n > 0 THEN n ELSE 0

\* The dependencies whose probe of this round is over.
Probed ==
  CASE stage = "store_cts" -> {}
    [] stage = "storage" -> {"store_cts"}
    [] OTHER -> configured

\* The time this round can have taken so far.
RoundTime ==
  CASE stage = "store_cts" -> spent
    [] stage = "storage" -> PROBE_TIMEOUT + spent
    [] stage \in {"set_store_cts", "set_storage", "set_healthy"} -> Round
    [] OTHER -> 0

\* Before the first round, and after a panic, nothing reads up.
Silent ==
  stage \in {"spawned", "panicked"} =>
    /\ \A d \in configured : gauge[d] = 0 /\ result[d] = "none"
    /\ healthy = 0

\* Where the loop can be: a round probes what is configured, and a ticker has a
\* period.
Placed ==
  /\ stage = "storage" => "storage" \in configured
  /\ stage \notin {"spawned", "panicked"} => interval > 0
  /\ stage = "panicked" => interval = 0
  /\ stage = "spawned" => due = 0

\* Unless rounds overrun, a round has begun on time.
OnTime ==
  /\ Round <= interval /\ stage \notin {"spawned", "panicked", "waiting"} =>
       due >= interval - RoundTime
  /\ Round <= interval => due >= 0

\* A good answer is young enough for the tick to come before it is a period old.
\* In the round of the answer only the other probe has taken time since.
Answers ==
  \A d \in Probed : result[d] = "up" =>
    /\ seen_up[d] + Pos(due) <= Period
    /\ stage = "storage" => seen_up[d] <= spent

\* What reads up before this round reaches it is a period old and the round.
Old ==
  \A d \in configured : gauge[d] = 1 \/ healthy = 1 =>
    seen_up[d] <= Period + RoundTime

\* What this round has published is what it found.
Published ==
  /\ stage \in {"set_storage", "set_healthy", "waiting"} =>
       gauge["store_cts"] = AsGauge(result["store_cts"])
  /\ stage \in {"set_healthy", "waiting"} =>
       \A d \in configured : gauge[d] = AsGauge(result[d])
  /\ stage = "waiting" => (healthy = 1 => Verdict(result))

\* One value goes into the results, the last results and the log.
Same == result = prev /\ result = logged

HInv ==
  /\ TypeOK
  /\ Silent /\ Placed /\ OnTime /\ Answers /\ Old /\ Published /\ Same

\* The quantities of a round, without their maxima.
LEMMA Quantities ==
  ASSUME TypeOK
  PROVE  /\ interval \in Nat /\ due \in Int /\ spent \in 0..PROBE_TIMEOUT
         /\ PROBE_TIMEOUT \in Nat \ {0}
         /\ "store_cts" \in configured /\ configured \subseteq Dependencies
         /\ "storage" \notin configured => configured = {"store_cts"}
         /\ Round = IF "storage" \in configured THEN PROBE_TIMEOUT + PROBE_TIMEOUT
                                                ELSE PROBE_TIMEOUT
         /\ Period = IF interval >= Round THEN interval ELSE Round
         /\ FreshFor = Period + Round
         /\ \A d \in Dependencies : seen_up[d] \in Nat
<1>1. /\ interval \in Nat /\ due \in Int /\ spent \in 0..PROBE_TIMEOUT
      /\ PROBE_TIMEOUT \in Nat \ {0}
  BY TimesAssumption DEF TypeOK
<1>2. /\ "store_cts" \in configured /\ configured \subseteq Dependencies
      /\ "storage" \notin configured => configured = {"store_cts"}
  BY DEF TypeOK, Dependencies
<1>3. Round = IF "storage" \in configured THEN PROBE_TIMEOUT + PROBE_TIMEOUT
                                            ELSE PROBE_TIMEOUT
  BY <1>1 DEF Round
<1>4. Round \in Int
  BY <1>1, <1>3
<1>5. Period = IF interval >= Round THEN interval ELSE Round
  BY <1>1, <1>4, MaxOfTwo DEF Period
<1>6. FreshFor = Period + Round
  BY DEF FreshFor, Period
<1>7. \A d \in Dependencies : seen_up[d] \in Nat
  BY TimesAssumption DEF TypeOK
<1> QED
  BY <1>1, <1>2, <1>3, <1>5, <1>6, <1>7

\* Time that passes.
LEMMA ElapseClocks ==
  ASSUME TypeOK, Elapse
  PROVE  /\ due' = IF due - 1 >= -LAG THEN due - 1 ELSE -LAG
         /\ seen_up' \in [Dependencies -> 0..NEVER]
         /\ \A d \in Dependencies : seen_up'[d] <= seen_up[d] + 1
<1>1. due - 1 \in Int /\ -LAG \in Int /\ NEVER \in Nat
  BY TimesAssumption, Quantities
<1>2. due' = IF due - 1 >= -LAG THEN due - 1 ELSE -LAG
  BY <1>1, MaxOfTwo DEF Elapse
<1>3. ASSUME NEW d \in Dependencies
      PROVE  /\ seen_up'[d] \in 0..NEVER
             /\ seen_up'[d] <= seen_up[d] + 1
  <2>1. seen_up[d] + 1 \in Nat
    BY Quantities
  <2>2. seen_up'[d] = IF seen_up[d] + 1 <= NEVER THEN seen_up[d] + 1 ELSE NEVER
    BY <2>1, <1>1, MinOfTwo DEF Elapse
  <2> QED
    BY <2>1, <2>2, <1>1
<1>4. seen_up' = [d \in Dependencies |-> seen_up'[d]]
  BY DEF Elapse
<1> QED
  BY <1>2, <1>3, <1>4

-----------------------------------------------------------------------------
(* The invariant is inductive.                                             *)

\* Before the loop starts nothing reads up.
LEMMA HInvInit == Init => HInv
<1> SUFFICES ASSUME Init PROVE HInv
  OBVIOUS
<1>1. TypeOK
  BY TimesAssumption DEF Init, TypeOK, Dependencies
<1>2. Silent /\ Placed /\ Published /\ Same
  BY DEF Init, Silent, Placed, Published, Same, Dependencies
<1>3. OnTime /\ Answers /\ Old
  BY DEF Init, OnTime, Answers, Old, Probed, Dependencies
<1> QED
  BY <1>1, <1>2, <1>3 DEF HInv

\* Time that passes ages the answers and brings the tick as much nearer.
LEMMA ElapseKeeps ==
  ASSUME HInv, Elapse
  PROVE  HInv'
<1> USE DEF HInv
<1>1. /\ due' = IF due - 1 >= -LAG THEN due - 1 ELSE -LAG
      /\ seen_up' \in [Dependencies -> 0..NEVER]
      /\ \A d \in Dependencies : seen_up'[d] <= seen_up[d] + 1 /\ seen_up'[d] \in Nat
  BY ElapseClocks, TimesAssumption
<1>2. /\ interval' = interval /\ configured' = configured /\ stage' = stage
      /\ result' = result /\ prev' = prev /\ gauge' = gauge
      /\ healthy' = healthy /\ logged' = logged
  BY DEF Elapse
<1>3. \/ stage = "panicked" /\ spent' = spent
      \/ stage = "waiting" /\ due > 0 /\ spent' = spent
      \/ stage \in Dependencies /\ spent < PROBE_TIMEOUT /\ spent' = spent + 1
  BY DEF Elapse
<1>4. Round' = Round /\ Period' = Period /\ Probed' = Probed
  BY <1>2 DEF Round, Period, Probed
<1>5. TypeOK'
  BY <1>1, <1>2, <1>3, TimesAssumption DEF TypeOK
<1>6. Silent' /\ Placed' /\ Published' /\ Same'
  BY <1>2, <1>3 DEF Silent, Placed, Published, Same, AsGauge, Verdict, Dependencies
<1>7. OnTime'
  BY <1>1, <1>2, <1>3, <1>4, Quantities, TimesAssumption
     DEF OnTime, RoundTime, Dependencies, Placed
<1>8. Answers'
  <2>1. SUFFICES ASSUME NEW d \in Probed, result[d] = "up"
                 PROVE  /\ seen_up'[d] + Pos(due') <= Period
                        /\ stage = "storage" => seen_up'[d] <= spent'
    BY <1>2, <1>4 DEF Answers
  <2>2. d \in configured /\ d \in Dependencies /\ stage # "store_cts"
    BY Quantities DEF Probed
  <2>3. seen_up[d] + Pos(due) <= Period /\ (stage = "storage" => seen_up[d] <= spent)
    BY <2>1 DEF Answers
  <2>4. stage # "panicked"
    BY <2>1, <2>2 DEF Silent
  <2> QED
    BY <2>2, <2>3, <2>4, <1>1, <1>3, Quantities, TimesAssumption DEF Pos, Dependencies
<1>9. Old'
  <2>1. SUFFICES ASSUME NEW d \in configured, gauge[d] = 1 \/ healthy = 1
                 PROVE  seen_up'[d] <= Period + RoundTime'
    BY <1>2, <1>4 DEF Old
  <2>2. d \in Dependencies /\ seen_up[d] <= Period + RoundTime
    BY <2>1, Quantities DEF Old
  <2>3. CASE stage \in Dependencies
    BY <2>2, <2>3, <1>1, <1>2, <1>3, Quantities DEF RoundTime, Dependencies
  <2>4. CASE stage = "panicked"
    BY <2>1, <2>4 DEF Silent
  <2>5. CASE stage = "waiting"
    <3>1. result[d] = "up"
      BY <2>1, <2>5 DEF Published, AsGauge, Verdict
    <3>2. d \in Probed'
      BY <2>1, <2>5, <1>4 DEF Probed
    <3>3. seen_up'[d] + Pos(due') <= Period
      BY <3>1, <3>2, <1>2, <1>4, <1>8 DEF Answers
    <3>4. Pos(due') >= 0 /\ Pos(due') \in Int /\ RoundTime' = 0
      BY <2>5, <1>1, <1>2, Quantities, TimesAssumption DEF Pos, RoundTime
    <3> QED
      BY <3>3, <3>4, <2>2, <1>1, Quantities
  <2> QED
    BY <2>3, <2>4, <2>5, <1>3
<1> QED
  BY <1>5, <1>6, <1>7, <1>8, <1>9

\* The ticker is made, or panics.
LEMMA LoopStarts ==
  ASSUME HInv, MakeTicker
  PROVE  HInv'
<1> USE DEF HInv
<1>1. /\ stage = "spawned" /\ stage' = IF interval > 0 THEN "waiting" ELSE "panicked"
      /\ UNCHANGED <<interval, configured, due, spent, result, prev, gauge, healthy,
                     logged, seen_up>>
  BY DEF MakeTicker
<1>2. Round' = Round /\ Period' = Period /\ Probed' = Probed
  BY <1>1 DEF Round, Period, Probed
<1>3. TypeOK' /\ Same'
  BY <1>1 DEF TypeOK, Same
<1>4. Silent' /\ Placed'
  BY <1>1, Quantities DEF Silent, Placed
<1>5. OnTime' /\ Answers' /\ Old' /\ Published'
  BY <1>1, <1>2, Quantities
     DEF Silent, Placed, OnTime, Answers, Old, Published, AsGauge, Probed, Dependencies
<1> QED
  BY <1>3, <1>4, <1>5

\* A tick finds every answer at most a period old.
LEMMA RoundStarts ==
  ASSUME HInv, TickStarts
  PROVE  HInv'
<1> USE DEF HInv
<1>1. /\ stage = "waiting" /\ due <= 0 /\ due' = due + interval
      /\ stage' = "store_cts" /\ spent' = 0
      /\ UNCHANGED <<interval, configured, result, prev, gauge, healthy, logged, seen_up>>
  BY DEF TickStarts
<1>2. Round' = Round /\ Period' = Period
  BY <1>1 DEF Round, Period
<1>3. TypeOK' /\ Same'
  <2>1. due' \in -LAG..interval /\ spent' \in 0..PROBE_TIMEOUT
    BY <1>1, Quantities, TimesAssumption DEF TypeOK
  <2> QED
    BY <1>1, <2>1 DEF TypeOK, Same, Dependencies
<1>4. Silent' /\ Placed' /\ Published'
  BY <1>1 DEF Silent, Placed, Published
<1>5. OnTime'
  BY <1>1, <1>2, Quantities DEF OnTime, RoundTime
<1>6. Answers'
  BY <1>1 DEF Answers, Probed
<1>7. Old'
  <2>1. SUFFICES ASSUME NEW d \in configured, gauge[d] = 1 \/ healthy = 1
                 PROVE  seen_up[d] <= Period
    BY <1>1, <1>2, Quantities DEF Old, RoundTime
  <2>2. result[d] = "up" /\ d \in Probed /\ d \in Dependencies
    BY <2>1, <1>1, Quantities DEF Published, AsGauge, Verdict, Probed
  <2> QED
    BY <2>2, <1>1, Quantities DEF Answers, Pos
<1> QED
  BY <1>3, <1>4, <1>5, <1>6, <1>7

\* A probe that ends leaves no answer of an earlier round behind.
LEMMA ProbesKeep ==
  ASSUME HInv, ProbeStoreCts \/ ProbeStorage
  PROVE  HInv'
<1> USE DEF HInv
<1>1. PICK d \in Dependencies, next \in {"storage", "set_store_cts"} :
        /\ ProbeEnds(d, next)
        /\ next = "storage" <=> d = "store_cts" /\ "storage" \in configured
  BY DEF ProbeStoreCts, ProbeStorage, Dependencies
<1>2. PICK res \in {"up", "down"} :
        /\ result' = [result EXCEPT ![d] = res]
        /\ LogTransition(d, res)
        /\ seen_up' = [seen_up EXCEPT ![d] = IF res = "up" THEN 0 ELSE @]
  BY <1>1 DEF ProbeEnds
<1>3. /\ stage = d /\ stage' = next /\ spent' = 0
      /\ UNCHANGED <<interval, configured, due, gauge, healthy>>
  BY <1>1 DEF ProbeEnds
<1>4. Round' = Round /\ Period' = Period
  BY <1>3 DEF Round, Period
<1>5. TypeOK' /\ Same'
  <2>1. logged' = [logged EXCEPT ![d] = res] /\ prev' = [prev EXCEPT ![d] = res]
    BY <1>2 DEF LogTransition, Same, TypeOK
  <2>2. Same'
    BY <1>2, <2>1 DEF Same
  <2>3. /\ result' \in [Dependencies -> {"none", "up", "down"}]
        /\ prev' \in [Dependencies -> {"none", "up", "down"}]
        /\ logged' \in [Dependencies -> {"none", "up", "down"}]
    BY <1>2, <2>1 DEF TypeOK
  <2>4. seen_up' \in [Dependencies -> 0..NEVER] /\ 0 \in 0..PROBE_TIMEOUT
    BY <1>2, TimesAssumption DEF TypeOK
  <2> QED
    BY <1>3, <2>2, <2>3, <2>4 DEF TypeOK, Dependencies
<1>6. Silent' /\ Placed' /\ Published'
  BY <1>1, <1>3 DEF Silent, Placed, Published, Dependencies
<1>7. OnTime'
  BY <1>1, <1>3, <1>4, Quantities DEF OnTime, RoundTime, Placed, Dependencies
<1>8. Answers'
  <2>1. SUFFICES ASSUME NEW e \in Probed', result'[e] = "up"
                 PROVE  /\ seen_up'[e] + Pos(due) <= Period
                        /\ stage' = "storage" => seen_up'[e] <= spent'
    BY <1>3, <1>4 DEF Answers
  <2>2. CASE e = d
    <3>1. seen_up'[e] = 0
      BY <2>1, <2>2, <1>2 DEF TypeOK
    <3>2. Pos(due) <= interval /\ Pos(due) \in Int
      BY Quantities DEF Pos, TypeOK
    <3> QED
      BY <3>1, <3>2, <1>3, Quantities
  <2>3. CASE e # d
    <3>1. e \in Probed /\ e \in Dependencies /\ next = "set_store_cts"
      BY <2>1, <2>3, <1>1, <1>3, Quantities DEF Probed, Dependencies
    <3>2. result'[e] = result[e] /\ seen_up'[e] = seen_up[e]
      BY <2>3, <3>1, <1>2 DEF TypeOK
    <3> QED
      BY <2>1, <3>1, <3>2, <1>3 DEF Answers
  <2> QED
    BY <2>2, <2>3
<1>9. Old'
  <2>1. SUFFICES ASSUME NEW e \in configured, gauge[e] = 1 \/ healthy = 1
                 PROVE  seen_up'[e] <= Period + RoundTime'
    BY <1>3, <1>4 DEF Old
  <2>2. e \in Dependencies /\ seen_up[e] <= Period + RoundTime /\ seen_up[e] \in Nat
    BY <2>1, Quantities DEF Old
  <2>3. seen_up'[e] <= seen_up[e] /\ seen_up'[e] \in Nat
    BY <2>2, <1>2 DEF TypeOK
  <2>4. RoundTime <= RoundTime' /\ RoundTime \in Int /\ RoundTime' \in Int
    BY <1>1, <1>3, <1>4, Quantities DEF RoundTime, Placed, Dependencies
  <2> QED
    BY <2>2, <2>3, <2>4, Quantities
<1> QED
  BY <1>5, <1>6, <1>7, <1>8, <1>9

\* Publishing takes no time and replaces what is old by what is young.
LEMMA PublishKeeps ==
  ASSUME HInv, SetStoreCts \/ SetStorage \/ SetHealthy
  PROVE  HInv'
<1> USE DEF HInv
<1>1. /\ UNCHANGED <<interval, configured, due, spent, result, prev, logged, seen_up>>
      /\ \/ stage = "set_store_cts" /\ stage' = "set_storage"
         \/ stage = "set_storage" /\ stage' = "set_healthy"
         \/ stage = "set_healthy" /\ stage' = "waiting"
  BY DEF SetStoreCts, SetStorage, SetHealthy
<1>2. /\ gauge' \in [configured -> {0, 1}] /\ healthy' \in {0, 1}
      /\ stage = "set_healthy" => gauge' = gauge
  BY DEF SetStoreCts, SetStorage, SetHealthy, TypeOK, AsGauge
<1>3. Round' = Round /\ Period' = Period /\ Probed' = Probed
  BY <1>1 DEF Round, Period, Probed
<1>4. TypeOK' /\ Same'
  BY <1>1, <1>2 DEF TypeOK, Same, Dependencies
<1>5. Silent' /\ Placed'
  BY <1>1 DEF Silent, Placed
<1>6. OnTime'
  BY <1>1, <1>3, Quantities DEF OnTime, RoundTime
<1>7. Answers'
  BY <1>1, <1>3 DEF Answers
<1>8. Published'
  <2>1. CASE SetStoreCts
    BY <2>1, <1>1, Quantities DEF SetStoreCts, Published, TypeOK
  <2>2. CASE SetStorage
    BY <2>2, <1>1, Quantities DEF SetStorage, Published, TypeOK, Dependencies
  <2>3. CASE SetHealthy
    BY <2>3, <1>1 DEF SetHealthy, Published, Verdict
  <2> QED
    BY <2>1, <2>2, <2>3
<1>9. Old'
  <2>1. SUFFICES ASSUME NEW d \in configured, gauge'[d] = 1 \/ healthy' = 1
                 PROVE  seen_up[d] <= Period + RoundTime'
    BY <1>1, <1>3 DEF Old
  <2>2. d \in Dependencies /\ seen_up[d] \in Nat /\ Period \in Nat /\ Round \in Nat
    BY <2>1, Quantities
  <2>3. ASSUME result[d] = "up" PROVE seen_up[d] <= Period
    <3>1. d \in Probed
      BY <2>1, <1>1 DEF Probed
    <3>2. seen_up[d] + Pos(due) <= Period
      BY <2>3, <3>1 DEF Answers
    <3>3. Pos(due) \in Nat
      BY Quantities DEF Pos
    <3> QED
      BY <3>2, <3>3, <2>2
  <2>4. RoundTime = Round /\ (RoundTime' = Round \/ (stage' = "waiting" /\ RoundTime' = 0))
    BY <1>1, <1>3 DEF RoundTime
  <2>5. CASE gauge[d] = 1 \/ healthy = 1
    <3>1. seen_up[d] <= Period + Round
      BY <2>1, <2>4, <2>5 DEF Old
    <3>2. stage' = "waiting" => result[d] = "up"
      BY <2>1, <1>1, <1>8 DEF Published, AsGauge, Verdict
    <3> QED
      BY <3>1, <3>2, <2>2, <2>3, <2>4
  <2>6. CASE gauge[d] # 1 /\ healthy # 1
    <3>1. result[d] = "up"
      BY <2>1, <2>6 DEF SetStoreCts, SetStorage, SetHealthy, AsGauge, Verdict, TypeOK
    <3> QED
      BY <3>1, <2>2, <2>3, <2>4
  <2> QED
    BY <2>5, <2>6
<1> QED
  BY <1>4, <1>5, <1>6, <1>7, <1>8, <1>9

\* All steps together.
LEMMA HInvNext == HInv /\ [Next]_vars => HInv'
<1>1. ASSUME HInv, UNCHANGED vars PROVE HInv'
  BY <1>1 DEF vars, HInv, TypeOK, Silent, Placed, OnTime, Answers, Old, Published, Same,
              Probed, RoundTime, Period, Round, Verdict
<1> QED
  BY <1>1, ElapseKeeps, LoopStarts, RoundStarts, ProbesKeep, PublishKeeps DEF Next, LoopStep

\* How the clocks, the results and the gauges belong together.
THEOREM HInvInvariant == Spec => []HInv
BY HInvInit, HInvNext, PTL DEF Spec

-----------------------------------------------------------------------------

\* Every variable of the health loop keeps its type (spawn).
THEOREM HealthTypeCorrect == Spec => []TypeOK
<1>1. HInv => TypeOK
  BY DEF HInv
<1> QED
  BY <1>1, HInvInvariant, PTL

\* For every interval and probe timeout, whatever is answered: what reads up
\* rests on a good answer of the last two rounds (publish).
THEOREM UpIsNeverStale == Spec => []NoStaleUp
<1>1. HInv => NoStaleUp
  <2>1. SUFFICES ASSUME HInv, NEW d \in configured, gauge[d] = 1 \/ healthy = 1
                 PROVE  seen_up[d] <= FreshFor
    BY DEF NoStaleUp
  <2>2. TypeOK /\ d \in Dependencies /\ seen_up[d] \in Nat
    BY <2>1, Quantities DEF HInv
  <2>3. seen_up[d] <= Period + RoundTime
    BY <2>1 DEF HInv, Old
  <2>4. RoundTime <= Round /\ RoundTime \in Int
    BY <2>1, <2>2, Quantities DEF RoundTime, HInv, Placed
  <2> QED
    BY <2>2, <2>3, <2>4, Quantities
<1> QED
  BY <1>1, HInvInvariant, PTL

\* Where a round of timeouts fits the interval, no round ever begins late.
THEOREM PaceIsKept == Spec => []RoundsNeverOverrun
<1>1. HInv => RoundsNeverOverrun
  BY DEF HInv, OnTime, RoundsNeverOverrun
<1> QED
  BY <1>1, HInvInvariant, PTL

\* Between two rounds the log says what the gauges say (log_transition).
THEOREM LogSpeaksTrue == Spec => []LogAgreesWithGauges
<1>1. HInv => LogAgreesWithGauges
  BY DEF HInv, Same, Published, AsGauge, LogAgreesWithGauges
<1> QED
  BY <1>1, HInvInvariant, PTL
=============================================================================
